------------------------------ MODULE EtcdWatch ------------------------------
(***************************************************************************)
(* One call of EtcdRegistry::watch and the task it spawns, with             *)
(* list_instances (src/src/provider/etcd.rs:308-409).                       *)
(*                                                                          *)
(* etcd sends the changes of the keys under the service's prefix; the task  *)
(* passes them on through a bounded channel and waits for room, so that     *)
(* nothing is skipped.  It ends when the connection does, and not when its  *)
(* reader leaves.  A value that is no instance is left out of the list and  *)
(* of the events.  The list and the puts carry the id that stands in the    *)
(* value, a delete the end of its key.  etcd and the connection are         *)
(* external.                                                                *)
(***************************************************************************)
EXTENDS Feeds

CONSTANTS
    KeyOf,        \* KeyOf[i]: the key of the instance i, its id with the '/' at its ends trimmed
    Segment,      \* Segment[k]: what follows the last '/' of the key k
    Junk,         \* a value that does not parse as an instance
    ChanCap,      \* capacity of the channel (64 in the code)
    MaxPuts       \* bound: changes of the keys

VARIABLES
    keys,         \* keys[k]: the last change of the key k, the id it was for and what is there now
    puts,         \* changes of them so far
    wire,         \* events etcd has sent that the task has not received
    cut,          \* the connection is broken
    pump,         \* the task: "none", "recv" (message().await), "pass" (send().await), "ended"
    hand,         \* events of the response it is passing on
    chan,         \* the channel
    reader,       \* "none", "reads", "left" (dropped the stream), "end" (saw it end), "err"
    seen          \* the list it has, or None before it has listed

watchVars == <<keys, puts, wire, cut, pump, hand, chan, reader, seen>>

Keys == {KeyOf[i] : i \in Ids}

Values    == Vals \cup {Junk, Absent}
KeyLists  == [Ids -> Values]
KeyEvents == [id : Ids, val : Values]     \* a change of the key of an id
Messages  == [id : Ids \cup {Segment[k] : k \in Keys}, val : Values]

\* What list_instances makes of the keys: the instances by the ids in their values.
Parsed == [i \in Ids |->
    LET kv == keys[KeyOf[i]] IN IF kv.id = i /\ kv.val # Junk THEN kv.val ELSE Absent]

\* What the task makes of a change: an Upsert of the id in the value, a Delete of the end of the key.
Told(e) == [id |-> IF e.val = Absent THEN Segment[KeyOf[e.id]] ELSE e.id, val |-> e.val]
ToldAll(s) == [k \in DOMAIN s |-> Told(s[k])]

\* Ids that end the keys of their own instances and of no others.  An id with no '/' is one if no
\* other is the same, or ends with a '/' and it, once the '/' at its ends are trimmed.
Plain == {i \in Ids : \A j \in Ids : Segment[KeyOf[j]] = i <=> j = i}

\* Those whose key parses, or is not there.
Legible == {i \in Plain : keys[KeyOf[i]].val # Junk}

\* What is assumed of the constants.
KeysNamed ==
    /\ DOMAIN KeyOf = Ids /\ Keys \subseteq DOMAIN Segment
    /\ None \notin KeyLists
    /\ ChanCap \in Nat \ {0} /\ MaxPuts \in Nat

ASSUME WatchAssumption == KeysNamed

WatchTypeOK ==
    /\ keys \in [Keys -> KeyEvents] /\ \A k \in Keys : KeyOf[keys[k].id] = k
    /\ puts \in 0..MaxPuts
    /\ wire \in Seq(KeyEvents) /\ hand \in Seq(KeyEvents)
    /\ cut \in BOOLEAN
    /\ pump \in {"none", "recv", "pass", "ended"}
    /\ chan \in Seq(Messages) /\ Len(chan) <= ChanCap
    /\ reader \in {"none", "reads", "left", "end", "err"}
    /\ seen \in KeyLists \cup {None}

WatchInit ==
    /\ keys \in [Keys -> KeyEvents] /\ \A k \in Keys : KeyOf[keys[k].id] = k
    /\ puts = 0
    /\ wire = <<>> /\ hand = <<>> /\ chan = <<>>
    /\ cut = FALSE
    /\ pump = "none" /\ reader = "none"
    /\ seen = None

-----------------------------------------------------------------------------
(* etcd and the connection. *)

\* The key of an id is put, or deleted if it is there.
ChangeKey(i, v) ==
    /\ puts < MaxPuts /\ puts' = puts + 1
    /\ v # Absent \/ keys[KeyOf[i]].val # Absent
    /\ LET change == [id |-> i, val |-> v]
       IN  /\ keys' = [keys EXCEPT ![KeyOf[i]] = change]
           /\ wire' = IF pump = "none" \/ cut THEN wire ELSE Append(wire, change)
    /\ UNCHANGED <<cut, pump, hand, chan, reader, seen>>

\* Nothing more arrives than is on the wire, and not always all of that.
Cut ==
    /\ pump # "none" /\ ~cut /\ cut' = TRUE
    /\ \E n \in 0..Len(wire) : wire' = SubSeq(wire, 1, n)
    /\ UNCHANGED <<keys, puts, pump, hand, chan, reader, seen>>

-----------------------------------------------------------------------------
(* watch. *)

\* The watch is made and the task is spawned.
Open ==
    /\ reader = "none"
    /\ reader' = "reads" /\ pump' = "recv"
    /\ UNCHANGED <<keys, puts, wire, cut, hand, chan, seen>>

\* etcd is disabled, and the stream has ended; or connecting fails, or the watch does, in time or not.
WatchFails ==
    /\ reader = "none" /\ reader' \in {"end", "err"}
    /\ UNCHANGED <<keys, puts, wire, cut, pump, hand, chan, seen>>

-----------------------------------------------------------------------------
(* The task. *)

\* A response holds one event or several.
Receive ==
    /\ pump = "recv" /\ pump' = "pass"
    /\ \E n \in 1..Len(wire) :
          hand' = SubSeq(wire, 1, n) /\ wire' = SubSeq(wire, n + 1, Len(wire))
    /\ UNCHANGED <<keys, puts, cut, chan, reader, seen>>

HandOver ==
    /\ pump = "pass"
    /\ hand' = Tail(hand)
    /\ pump' = IF hand' = <<>> THEN "recv" ELSE "pass"
    /\ UNCHANGED <<keys, puts, wire, cut, reader, seen>>

\* An event that parses takes a place in the channel.
Pass ==
    /\ pump = "pass" /\ Head(hand).val # Junk /\ reader = "reads" /\ Len(chan) < ChanCap
    /\ chan' = Append(chan, Told(Head(hand)))
    /\ HandOver

\* Mutant of PassNothing: try_send, whose failure is ignored.
PassNothingFull ==
    /\ pump = "pass" /\ (Head(hand).val = Junk \/ reader # "reads" \/ Len(chan) = ChanCap)
    /\ HandOver /\ UNCHANGED chan

\* Mutant of PassNothing: the wait for room outlives the reader.
PassNothingStuck ==
    /\ pump = "pass" /\ Head(hand).val = Junk
    /\ HandOver /\ UNCHANGED chan

\* One that does not, or that nobody reads any more, is dropped.
PassNothing ==
    /\ pump = "pass" /\ (Head(hand).val = Junk \/ reader # "reads")
    /\ HandOver /\ UNCHANGED chan

\* message() returns None or an error.
PumpStops ==
    /\ pump = "recv" /\ cut /\ wire = <<>>
    /\ pump' = "ended"
    /\ UNCHANGED <<keys, puts, wire, cut, hand, chan, reader, seen>>

-----------------------------------------------------------------------------
(* The reader. *)

ListKeys ==
    /\ reader = "reads"
    /\ seen' = Parsed
    /\ UNCHANGED <<keys, puts, wire, cut, pump, hand, chan, reader>>

ReadEvent ==
    /\ reader = "reads" /\ chan # <<>>
    /\ chan' = Tail(chan)
    /\ seen' = IF seen = None THEN None ELSE Patch(seen, Head(chan))
    /\ UNCHANGED <<keys, puts, wire, cut, pump, hand, reader>>

\* The stream ends once the task has and the channel is drained.
SeesEnd ==
    /\ reader = "reads" /\ pump = "ended" /\ chan = <<>>
    /\ reader' = "end"
    /\ UNCHANGED <<keys, puts, wire, cut, pump, hand, chan, seen>>

\* The reader drops the stream, and the channel with what is in it.
Leave ==
    /\ reader = "reads" /\ reader' = "left"
    /\ chan' = <<>>
    /\ UNCHANGED <<keys, puts, wire, cut, pump, hand, seen>>

-----------------------------------------------------------------------------
Pump   == Receive \/ Pass \/ PassNothing \/ PumpStops
Reader == ReadEvent \/ SeesEnd

WatchNext ==
    \/ \E i \in Ids, v \in Values : ChangeKey(i, v)
    \/ Cut
    \/ Open \/ WatchFails
    \/ Pump \/ Reader \/ ListKeys \/ Leave

\* The task runs when it can, and a reader that has not left reads (the select of run_watch_loop).
WatchSpec == WatchInit /\ [][WatchNext]_watchVars
WatchLive == WatchSpec /\ WF_watchVars(Pump) /\ WF_watchVars(Reader)

-----------------------------------------------------------------------------
(* Properties. *)

\* As long as the connection lasts a reader that has listed ends up with what list_instances would
\* answer, wherever the events stand and however late it reads (etcd.rs:308-409).  Two kinds of ids
\* are left out: one whose key was overwritten with a value that does not parse, which the list
\* drops and no event does (325-331, 363-370), and one that is not the end of its own key alone,
\* whose delete names another id or is not its own (77-85, 378-389).
WatchTells ==
    reader = "reads" /\ seen # None /\ ~cut =>
        Tells(seen, chan \o ToldAll(hand) \o ToldAll(wire), Parsed, Legible)

\* The task ends when the connection has ended, although its reader may have left long before and
\* although it waits for room (etcd.rs:359-406); a reader that stays sees the end.
PumpEnds == []<>(~cut \/ pump = "ended") /\ []<>(~cut \/ reader # "reads")
=============================================================================
