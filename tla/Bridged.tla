------------------------------- MODULE Bridged -------------------------------
(***************************************************************************)
(* A ServiceDirectory with a bridge on it: Directory and Discover composed. *)
(*                                                                          *)
(* One call of load_or_watch is made by discover_stream or                  *)
(* tonic_channel_with_config (src/src/discover.rs:51-65, 124-157); the      *)
(* bridge goes on with the list it returns and adds its listener later.     *)
(* Every step of the directory that runs apply_event hands its list to the  *)
(* listeners (src/src/directory.rs:293-300) and the actor that ran it does  *)
(* nothing else until they have returned.                                   *)
(***************************************************************************)
EXTENDS Directory

CONSTANTS
    Opener,       \* the call of load_or_watch the bridge makes
    NoGrpc, BadUrl, Cap

ASSUME OpenerAssumption == Opener \in Calls

VARIABLES kind, pending, bridge, initial, known, busy, todo, chan, view, dropped

bridgeVars  == <<kind, pending, bridge, initial, known, busy, todo, chan, view, dropped>>
bridgedVars == <<vars, bridgeVars>>

\* The watch task of a call carries the call's name.
B == INSTANCE Discover WITH Appliers <- Calls \cup Registers, MaxWrites <- 0, writes <- 0

BridgedInit == Init /\ B!Init

\* The actor is not inside a listener.
Free(a) == pending[a] = None

CallMoves(c) == (Start(c) \/ CallStep(c) \/ DropCall(c)) /\ UNCHANGED bridgeVars

\* Mutant of TaskApplies: a Reset that changes nothing is not told.
TaskAppliesNews(w) ==
    \/ TaskEvent(w) /\ B!Hand(w, snapshot')
    \/ Reset(w) /\ IF snapshot' = snapshot THEN UNCHANGED bridgeVars ELSE B!Hand(w, snapshot')

\* The watch task applies an event or a Reset ...
TaskApplies(w) == (TaskEvent(w) \/ Reset(w)) /\ B!Hand(w, snapshot')

\* ... and what it does besides.
TaskMoves(w) ==
    /\ Free(w)
    /\ \/ Top(w) \/ Answered(w) \/ ConnectErr(w) \/ BackoffEnd(w)
       \/ LoopCancelled(w) \/ StreamEnd(w) \/ Tick(w) \/ TaskListErr(w) \/ TaskListBlank(w)
    /\ UNCHANGED bridgeVars

RegisterEnds(r) == RegisterApply(r) /\ B!Hand(r, snapshot')

RegisterMoves(r) ==
    \/ (RegisterNow(r) \/ RegisterLater(r)) /\ UNCHANGED bridgeVars
    \/ RegisterEnds(r)

\* unwatch, shutdown, the registry and the network.
OthersMove ==
    /\ Unwatch \/ Shutdown \/ Change \/ \E w \in Calls : Break(w) \/ Lag(w)
    /\ UNCHANGED bridgeVars

\* load_or_watch has returned to the bridge.
Opened == call[Opener] = "ok" /\ B!LoadList(held[Opener]) /\ UNCHANGED vars

BridgeMoves   == (B!SendInitial \/ B!AllSent \/ B!Listen) /\ UNCHANGED vars
Notifies(a)   == B!Notify(a) /\ UNCHANGED vars
ListenerMoves == (B!TrySend \/ B!NotifyEnd) /\ UNCHANGED vars
Reads         == B!Recv /\ UNCHANGED vars

BridgedNext ==
    \/ \E c \in Calls : CallMoves(c) \/ TaskMoves(c) \/ TaskApplies(c)
    \/ \E r \in Registers : RegisterMoves(r)
    \/ OthersMove
    \/ Opened \/ BridgeMoves
    \/ \E a \in Calls \cup Registers : Notifies(a)
    \/ ListenerMoves \/ Reads

\* An arm of the select other than the tick.
Selects(w) ==
    \/ Free(w) /\ (LoopCancelled(w) \/ StreamEnd(w)) /\ UNCHANGED bridgeVars
    \/ TaskEvent(w) /\ B!Hand(w, snapshot')

IsAnswered(w) == Free(w) /\ Answered(w) /\ UNCHANGED bridgeVars

BridgedSpec == BridgedInit /\ [][BridgedNext]_bridgedVars

(***************************************************************************)
(* Fairness: that of Directory and that of Discover, and a consumer that    *)
(* reads.  A select of the task is taken again and again although listeners *)
(* run in between, and the mutex of known, free for most of the interval    *)
(* between two reconciles, comes to every applier that waits for it.        *)
(***************************************************************************)
BridgedFairness ==
    /\ \A c \in Calls : WF_bridgedVars(CallStep(c) /\ UNCHANGED bridgeVars)
    /\ \A r \in Registers : WF_bridgedVars(RegisterEnds(r))
    /\ \A w \in Calls :
          /\ WF_bridgedVars(TaskMoves(w) \/ TaskApplies(w))
          /\ SF_bridgedVars(Selects(w)) /\ SF_bridgedVars(IsAnswered(w))
    /\ WF_bridgedVars(Opened \/ BridgeMoves)
    /\ WF_bridgedVars(ListenerMoves)
    /\ \A a \in Calls \cup Registers : SF_bridgedVars(Notifies(a))
    /\ WF_bridgedVars(Reads)

-----------------------------------------------------------------------------
(* Properties. *)

\* What the consumer should have of a list: the members for Tower, the endpoints too for Tonic.
Shows(list) ==
    /\ B!Members(view) = B!Members(B!Connectable(list))
    /\ kind = "tonic" => view = B!Connectable(list)

\* A consumer that reads comes to have what the registry holds, as long as the service stays
\* watched and no try_send fails: it does not matter what the directory wrote between
\* load_or_watch and on_change, nor that the watch task and a register notify in another order than
\* they wrote, because every reconcile notifies again (directory.rs:230-235, 293-300,
\* discover.rs:55-76, 135-163).
ViewSettles ==
    <>[](active # None /\ bridge = "ready" /\ ~dropped) => <>[]Shows(registry)
=============================================================================
