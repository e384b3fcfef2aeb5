---------------------------- MODULE LocalRegistry ----------------------------
(***************************************************************************)
(* LocalRegistry (src/src/provider/local.rs): the instances of one service  *)
(* in a map behind a lock, and a broadcast channel for the events of all    *)
(* services.                                                                *)
(*                                                                          *)
(* register and deregister change the map, let go of its lock and send      *)
(* their event afterwards, so calls that overlap may send in another order  *)
(* than they changed.  add_instance and remove_instance send under the lock *)
(* and clear sends nothing.  A receiver that falls behind by more than the  *)
(* capacity loses the oldest events, and its stream does not say so.        *)
(***************************************************************************)
EXTENDS RegistryCalls

CONSTANTS
    Watchers,     \* one-shot calls of watch, and who reads their streams
    RingCap,      \* capacity of the broadcast channel (128 in the code)
    MaxEdits      \* bound: calls of add_instance, remove_instance, clear, and of other services

VARIABLES
    instances,    \* the map, for the one service
    registered,   \* the id in registered_key, or None
    joining,      \* where each register stands
    item,         \* the event it sends
    leaving,      \* where each deregister stands
    gone,         \* the id it took, or None
    watching,     \* the watchers that have subscribed
    queue,        \* the events each of them has still to get; id None is another service's
    view,         \* the list its reader has, or None before it has listed
    edits,        \* calls bounded by MaxEdits so far
    \* History, read by no guard:
    missed,       \* watchers that have lost an event since their last list
    untold        \* ids whose last change need not be the one the events end with

\* What is assumed of the constants.
Distinct ==
    /\ None \notin Ids /\ Absent \notin Vals
    /\ Registers \cap Deregs = {}
    /\ RingCap \in Nat \ {0} /\ MaxEdits \in Nat

ASSUME LocalAssumption == Distinct

mapVars  == <<instances, untold>>
callVars == <<registered, joining, item, leaving, gone>>
readVars == <<watching, queue, view, missed>>
localVars == <<mapVars, callVars, readVars, edits>>

Lists   == [Ids -> Vals \cup {Absent}]
Upserts == [id : Ids, val : Vals]
Gone(i) == [id |-> i, val |-> Absent]
Other   == Gone(None)
Events  == Upserts \cup {Gone(i) : i \in Ids \cup {None}}

LocalTypeOK ==
    /\ instances \in Lists
    /\ registered \in Ids \cup {None}
    /\ joining \in [Registers -> {"idle", "key", "send", "done"}]
    /\ item \in [Registers -> Upserts]
    /\ leaving \in [Deregs -> {"idle", "remove", "send", "done"}]
    /\ gone \in [Deregs -> Ids \cup {None}]
    /\ watching \in SUBSET Watchers
    /\ queue \in [Watchers -> Seq(Events)] /\ \A w \in Watchers : Len(queue[w]) <= RingCap
    /\ view \in [Watchers -> Lists \cup {None}]
    /\ edits \in 0..MaxEdits
    /\ missed \in SUBSET Watchers
    /\ untold \in SUBSET Ids

LocalInit ==
    /\ instances = [i \in Ids |-> Absent]
    /\ registered = None
    /\ joining = [r \in Registers |-> "idle"]
    /\ item \in [Registers -> Upserts]
    /\ leaving = [d \in Deregs |-> "idle"]
    /\ gone = [d \in Deregs |-> None]
    /\ watching = {}
    /\ queue = [w \in Watchers |-> <<>>]
    /\ view = [w \in Watchers |-> None]
    /\ edits = 0
    /\ missed = {} /\ untold = {}

-----------------------------------------------------------------------------
(* The parts the actions share. *)

\* The events that calls have still to send, each with its call.
Unsent == {<<r, item[r]>> : r \in {q \in Registers : joining[q] \in {"key", "send"}}}
    \cup {<<d, Gone(gone[d])>> : d \in {q \in Deregs : leaving[q] = "send"}}

\* Calls that have changed the map for id i and have not said so yet.
UnsentOf(i) == {p \in Unsent : p[2].id = i}

\* The map takes value v for id i.  The events end with it unless another call has still to send.
Set(i, v) ==
    /\ instances' = [instances EXCEPT ![i] = v]
    /\ untold' = IF UnsentOf(i) # {} THEN untold \cup {i} ELSE untold \ {i}

\* Every receiver gets the event; one that is full loses the oldest.
Send(e) ==
    LET full == {w \in watching : Len(queue[w]) = RingCap}
    IN  /\ queue' = [w \in Watchers |->
                        IF w \notin watching THEN queue[w]
                        ELSE Append(IF w \in full THEN Tail(queue[w]) ELSE queue[w], e)]
        /\ missed' = missed \cup full
        /\ UNCHANGED <<watching, view>>

-----------------------------------------------------------------------------
(* register and deregister. *)

Register(r) ==
    /\ joining[r] = "idle" /\ joining' = [joining EXCEPT ![r] = "key"]
    /\ Set(item[r].id, item[r].val)
    /\ UNCHANGED <<registered, item, leaving, gone, readVars, edits>>

\* A second register of the process forgets the key of the first.
RegisterKey(r) ==
    /\ joining[r] = "key" /\ joining' = [joining EXCEPT ![r] = "send"]
    /\ registered' = item[r].id
    /\ UNCHANGED <<mapVars, item, leaving, gone, readVars, edits>>

RegisterSend(r) ==
    /\ joining[r] = "send" /\ joining' = [joining EXCEPT ![r] = "done"]
    /\ Send(item[r])
    /\ UNCHANGED <<mapVars, registered, item, leaving, gone, edits>>

Deregister(d) ==
    /\ leaving[d] = "idle"
    /\ leaving' = [leaving EXCEPT ![d] = IF registered = None THEN "done" ELSE "remove"]
    /\ gone' = [gone EXCEPT ![d] = registered]
    /\ registered' = None
    /\ UNCHANGED <<mapVars, joining, item, readVars, edits>>

DeregRemove(d) ==
    /\ leaving[d] = "remove" /\ leaving' = [leaving EXCEPT ![d] = "send"]
    /\ Set(gone[d], Absent)
    /\ UNCHANGED <<registered, joining, item, gone, readVars, edits>>

\* Mutant of DeregSend: the key is taken out and nobody is told, as clear does.
DeregSilent(d) ==
    /\ leaving[d] = "send" /\ leaving' = [leaving EXCEPT ![d] = "done"]
    /\ UNCHANGED <<mapVars, registered, joining, item, gone, readVars, edits>>

DeregSend(d) ==
    /\ leaving[d] = "send" /\ leaving' = [leaving EXCEPT ![d] = "done"]
    /\ Send(Gone(gone[d]))
    /\ UNCHANGED <<mapVars, registered, joining, item, gone, edits>>

-----------------------------------------------------------------------------
(* The calls that are one step. *)

Edit == edits < MaxEdits /\ edits' = edits + 1 /\ UNCHANGED callVars

\* add_instance and remove_instance; an id that is not there is removed too.
AddOrRemove(e) == Edit /\ Set(e.id, e.val) /\ Send(e)

Clear ==
    /\ Edit
    /\ instances' = [i \in Ids |-> Absent]
    /\ untold' = untold \cup {i \in Ids : instances[i] # Absent \/ UnsentOf(i) # {}}
    /\ UNCHANGED readVars

\* An event of another service takes a place in the channel; filter_map leaves it out.
OtherService == Edit /\ Send(Other) /\ UNCHANGED mapVars

-----------------------------------------------------------------------------
(* watch, and the reader of its stream. *)

Watch(w) ==
    /\ w \notin watching /\ watching' = watching \cup {w}
    /\ UNCHANGED <<mapVars, callVars, queue, view, missed, edits>>

\* list_instances: the list makes up for what was lost before it.
List(w) ==
    /\ w \in watching
    /\ view' = [view EXCEPT ![w] = instances]
    /\ missed' = missed \ {w}
    /\ UNCHANGED <<mapVars, callVars, watching, queue, edits>>

\* An event is read; a reader that has not listed yet starts from the registry's answer anyway.
Read(w) ==
    /\ queue[w] # <<>>
    /\ queue' = [queue EXCEPT ![w] = Tail(@)]
    /\ view' = [view EXCEPT ![w] = IF @ = None THEN None ELSE Patch(@, Head(queue[w]))]
    /\ UNCHANGED <<mapVars, callVars, watching, missed, edits>>

-----------------------------------------------------------------------------
LocalNext ==
    \/ \E r \in Registers : Register(r) \/ RegisterKey(r) \/ RegisterSend(r)
    \/ \E d \in Deregs : Deregister(d) \/ DeregRemove(d) \/ DeregSend(d)
    \/ \E e \in Upserts \cup {Gone(i) : i \in Ids} : AddOrRemove(e)
    \/ Clear \/ OtherService
    \/ \E w \in Watchers : Watch(w) \/ List(w) \/ Read(w)

LocalSpec == LocalInit /\ [][LocalNext]_localVars

-----------------------------------------------------------------------------
(* Properties. *)

\* A reader that lists after it has subscribed, and loses nothing from then on, ends up with what
\* the map holds, events before its list included: the window between the change of the map and
\* the event (local.rs:80-94, 106-118) does harm only to ids that two calls change at once, and to
\* those that clear takes out (local.rs:62-68), until they change again.
StreamTells ==
    \A w \in Watchers : view[w] # None /\ w \notin missed =>
        \A i \in Ids \ untold :
            IF UnsentOf(i) # {}
            THEN \E p \in UnsentOf(i) : p[2].val = instances[i]
            ELSE EndsWith(view[w], queue[w], i, instances[i])
=============================================================================
