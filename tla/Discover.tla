------------------------------ MODULE Discover -------------------------------
(***************************************************************************)
(* The bridge from ServiceDirectory to a Tower Discover stream              *)
(* (discover_stream) or to a Tonic balanced channel                         *)
(* (tonic_channel_with_config), src/src/discover.rs, together with the part *)
(* of apply_event that notifies listeners (src/src/directory.rs:253-301).   *)
(*                                                                          *)
(* An applier is a task that calls apply_event: the watch task, or a caller *)
(* of RegistryService::register.  It has replaced the snapshot and calls    *)
(* the listener with the list it made, so two appliers may call in another  *)
(* order than they wrote.  The listener compares the list with what it      *)
(* knows and hands the differences to a bounded channel with try_send,      *)
(* whose failure it ignores.  The consumer (the load balancer) reads the    *)
(* channel once the bridge has been returned to it.                         *)
(*                                                                          *)
(* Here the lists are arbitrary; in Bridged the directory makes them.       *)
(***************************************************************************)
EXTENDS Feeds     \* what an instance carries is, for Tonic, its endpoint

CONSTANTS
    NoGrpc,       \* the value of an instance without a gRPC endpoint
    BadUrl,       \* the value of an instance whose gRPC endpoint is no URL
    Appliers,     \* tasks that call apply_event
    Cap,          \* capacity of the channel (64 in the code)
    MaxWrites     \* bound: lists handed to the listener

\* What is assumed of the constants.
Named ==
    /\ Absent \notin Vals /\ None \notin Appliers
    /\ None \notin [Ids -> Vals \cup {Absent}]
    /\ Cap \in Nat \ {0} /\ MaxWrites \in Nat

VARIABLES
    kind,         \* "tower" (discover_stream) or "tonic" (tonic_channel_with_config)
    writes,       \* lists handed to the listener so far
    pending,      \* the list each applier has still to notify, or None
    bridge,       \* "idle", "send" (initial inserts), "listen" (on_change), "ready"
    initial,      \* the initial Inserts still to send
    known,        \* known_ids or known_endpoints, as a list
    busy,         \* the applier inside the listener, or None: it holds the mutex of known
    todo,         \* the changes it has still to try_send
    chan,         \* the channel
    view,         \* what the consumer has made of the changes it has read
    \* History, read by no guard:
    dropped       \* a try_send has failed

vars == <<kind, writes, pending, bridge, initial, known, busy, todo, chan, view, dropped>>

Lists   == [Ids -> Vals \cup {Absent}]
Changes == [id : Ids, val : Vals \cup {Absent}]     \* Absent: Remove; otherwise Insert
Empty   == [i \in Ids |-> Absent]

TypeOK ==
    /\ kind \in {"tower", "tonic"}
    /\ writes \in 0..MaxWrites
    /\ pending \in [Appliers -> Lists \cup {None}]
    /\ bridge \in {"idle", "send", "listen", "ready"}
    /\ initial \in SUBSET Changes
    /\ known \in Lists
    /\ busy \in Appliers \cup {None}
    /\ todo \in SUBSET Changes
    /\ chan \in Seq(Changes) /\ Len(chan) <= Cap
    /\ view \in Lists
    /\ dropped \in BOOLEAN

Init ==
    /\ kind \in {"tower", "tonic"}
    /\ writes = 0
    /\ pending = [a \in Appliers |-> None]
    /\ bridge = "idle"
    /\ initial = {} /\ todo = {} /\ chan = <<>>
    /\ known = Empty /\ view = Empty
    /\ busy = None
    /\ dropped = FALSE

-----------------------------------------------------------------------------
(* What the two bridges make of a list. *)

InsertOf(i, list) == [id |-> i, val |-> list[i]]
RemoveOf(i)       == [id |-> i, val |-> Absent]

\* The instances the consumer can connect to.
Connectable(list) ==
    [i \in DOMAIN list |->
        IF kind = "tonic" /\ list[i] \in {NoGrpc, BadUrl} THEN Absent ELSE list[i]]

\* known_ids or new_map after a notification: a bad URL is known, although it was never inserted.
Known(list) ==
    [i \in DOMAIN list |-> IF kind = "tonic" /\ list[i] = NoGrpc THEN Absent ELSE list[i]]

Members(list) == {i \in DOMAIN list : list[i] # Absent}

\* The changes of some ids, which are sent one by one; what cannot be connected to is not inserted.
Inserts(S, list) == {InsertOf(i, list) : i \in {j \in S : Connectable(list)[j] # Absent}}
Removes(S)       == {RemoveOf(i) : i \in S}

\* discover_stream compares ids alone.
TowerDiffs(list) ==
    Removes(Members(known) \ Members(list)) \cup Inserts(Members(list) \ Members(known), list)

\* Mutant of TonicDiffs: ids alone are compared.
TonicDiffsById(list) ==
    LET target == Known(list)
    IN  Removes(Members(known) \ Members(target)) \cup Inserts(Members(target) \ Members(known), list)

\* tonic_channel_with_config compares URLs: a new URL is removed and inserted.
TonicDiffs(list) ==
    LET other == {i \in DOMAIN list : known[i] # Known(list)[i]}
    IN  Removes(Members(known) \cap other) \cup Inserts(Members(Known(list)) \cap other, list)

Diffs(list) == IF kind = "tonic" THEN TonicDiffs(list) ELSE TowerDiffs(list)

\* The change d goes before c: for Tower the removals, for Tonic the removals of those that stay.
\* The rest is the order in which a HashSet, a HashMap and a Vec of instances are walked.
Before(d, c) ==
    IF kind = "tower"
    THEN d.val = Absent /\ c.val # Absent
    ELSE LET target == Members(Known(pending[busy]))
         IN  \/ c # d /\ d = RemoveOf(c.id)
             \/ d.id \in target /\ c.id \notin target

\* A new URL is inserted as soon as the old one has been removed.
Turned == {c \in todo : c.val # Absent /\ known[c.id] # Absent /\ RemoveOf(c.id) \notin todo}

\* What the listener may send next.
Due == IF Turned # {} THEN Turned ELSE {c \in todo : \A d \in todo : ~Before(d, c)}

-----------------------------------------------------------------------------
(* The directory. *)

\* The snapshot has been replaced with list; the listeners are called next.
Hand(a, list) ==
    /\ pending[a] = None
    /\ pending' = [pending EXCEPT ![a] = list]
    /\ UNCHANGED <<kind, bridge, initial, known, busy, todo, chan, view, dropped>>

\* apply_event with any event.
ApplyEvent(a) ==
    /\ writes < MaxWrites /\ writes' = writes + 1
    /\ \E list \in Lists : Hand(a, list)

\* There is no listener yet.
NotifyNobody(a) ==
    /\ pending[a] # None /\ bridge # "ready"
    /\ pending' = [pending EXCEPT ![a] = None]
    /\ UNCHANGED <<kind, writes, bridge, initial, known, busy, todo, chan, view, dropped>>

\* The listener takes the mutex of known and works out what to send.
NotifyBegin(a) ==
    /\ pending[a] # None /\ bridge = "ready" /\ busy = None
    /\ busy' = a
    /\ todo' = Diffs(pending[a])
    /\ UNCHANGED <<kind, writes, pending, bridge, initial, known, chan, view, dropped>>

\* Mutant of TrySend: the channel is unbounded.
SendUnbounded ==
    \E c \in Due :
        /\ todo' = todo \ {c}
        /\ chan' = Append(chan, c)
        /\ UNCHANGED <<kind, writes, pending, bridge, initial, known, busy, view, dropped>>

\* Mutant of TrySend: send, which waits for room.
SendChange == Len(chan) < Cap /\ SendUnbounded

TrySend ==
    \E c \in Due :
        /\ todo' = todo \ {c}
        /\ IF Len(chan) < Cap
           THEN chan' = Append(chan, c) /\ UNCHANGED dropped
           ELSE dropped' = TRUE /\ UNCHANGED chan
        /\ UNCHANGED <<kind, writes, pending, bridge, initial, known, busy, view>>

\* Mutant of NotifyEnd: known is left as it was.
NotifyEndForgets ==
    /\ busy # None /\ todo = {}
    /\ pending' = [pending EXCEPT ![busy] = None]
    /\ busy' = None
    /\ UNCHANGED <<kind, writes, bridge, initial, known, todo, chan, view, dropped>>

\* *known = new_set, whatever was dropped; the mutex goes.
NotifyEnd ==
    /\ busy # None /\ todo = {}
    /\ known' = Known(pending[busy])
    /\ pending' = [pending EXCEPT ![busy] = None]
    /\ busy' = None
    /\ UNCHANGED <<kind, writes, bridge, initial, todo, chan, view, dropped>>

-----------------------------------------------------------------------------
(* The bridge and its consumer. *)

\* load_or_watch returns list.  What it returned is what known starts from.
LoadList(list) ==
    /\ bridge = "idle"
    /\ bridge' = "send"
    /\ known' = Connectable(list)
    /\ initial' = Inserts(DOMAIN list, list)
    /\ UNCHANGED <<kind, writes, pending, busy, todo, chan, view, dropped>>

Load == \E list \in Lists : LoadList(list)

\* Mutant of SendInitial: the channel is one place short.
SendOneShort ==
    /\ bridge = "send" /\ Len(chan) < Cap - 1
    /\ \E c \in initial : chan' = Append(chan, c) /\ initial' = initial \ {c}
    /\ UNCHANGED <<kind, writes, pending, bridge, known, busy, todo, view, dropped>>

\* send().await of an initial insert waits for room.
SendInitial ==
    /\ bridge = "send" /\ Len(chan) < Cap
    /\ \E c \in initial : chan' = Append(chan, c) /\ initial' = initial \ {c}
    /\ UNCHANGED <<kind, writes, pending, bridge, known, busy, todo, view, dropped>>

AllSent ==
    /\ bridge = "send" /\ initial = {}
    /\ bridge' = "listen"
    /\ UNCHANGED <<kind, writes, pending, initial, known, busy, todo, chan, view, dropped>>

\* on_change adds the listener and the bridge is returned.
Listen ==
    /\ bridge = "listen"
    /\ bridge' = "ready"
    /\ UNCHANGED <<kind, writes, pending, initial, known, busy, todo, chan, view, dropped>>

\* The consumer, which has the receiving end once the bridge has been returned, reads a change.
Recv ==
    /\ bridge = "ready" /\ chan # <<>>
    /\ chan' = Tail(chan)
    /\ view' = [view EXCEPT ![Head(chan).id] = Head(chan).val]
    /\ UNCHANGED <<kind, writes, pending, bridge, initial, known, busy, todo, dropped>>

-----------------------------------------------------------------------------
Notify(a)  == NotifyNobody(a) \/ NotifyBegin(a)
BridgeStep == Load \/ SendInitial \/ AllSent \/ Listen

Next ==
    \/ \E a \in Appliers : ApplyEvent(a) \/ Notify(a)
    \/ TrySend \/ NotifyEnd
    \/ BridgeStep
    \/ Recv

\* The runtime runs what can run.  Nothing makes the consumer read, nor the registry change.
Spec == Init /\ [][Next]_vars
LiveSpec ==
    /\ Spec
    /\ WF_vars(BridgeStep) /\ WF_vars(TrySend \/ NotifyEnd)
    /\ \A a \in Appliers : WF_vars(Notify(a))

-----------------------------------------------------------------------------
(* Properties. *)

\* The consumer has v for the id i once it has read everything that is on its way.
EndsUp(i, v) ==
    LET left == {c \in initial \cup todo : c.id = i}
    IN  IF left = {}
        THEN EndsWith(view, chan, i, v)
        ELSE [id |-> i, val |-> v] \in left /\ (v = Absent => left = {RemoveOf(i)})

\* The list the bridge last compared with, or is comparing with.
Followed == IF busy = None THEN known ELSE pending[busy]

\* As long as no try_send has failed, the consumer ends up with the members of the list that was
\* last notified, each of them once and none of those that left, wherever a notification stands
\* and however far behind the consumer reads (discover.rs:69-101, 159-213).
MembersFollow ==
    ~dropped => \A i \in DOMAIN view :
        \E v \in Vals \cup {Absent} :
            EndsUp(i, v) /\ (v = Absent <=> Connectable(Followed)[i] = Absent)

\* For Tonic the consumer also ends up with the endpoints of that list: a changed URL replaces the
\* old one (discover.rs:183-195).
EndpointsFollow ==
    kind = "tonic" /\ ~dropped => \A i \in DOMAIN view : EndsUp(i, Connectable(Followed)[i])

\* discover_stream and tonic_channel return (discover.rs:58-65, 144-163).
BridgeReturns == []<>(bridge \in {"idle", "ready"})

\* A notification ends although the consumer may never read: appliers are not blocked by it
\* (discover.rs:86, 93: try_send).
AppliersGoOn == \A a \in Appliers : []<>(pending[a] = None)
=============================================================================
