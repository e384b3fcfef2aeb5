----------------------- MODULE EtcdRegistrationProofs ------------------------
(***************************************************************************)
(* Proofs about EtcdRegistration: its type invariant, and that deregister   *)
(* can stop every heartbeat as long as no two calls of register overlap,    *)
(* whatever the number of calls, of leases and of failures.                 *)
(***************************************************************************)
EXTENDS EtcdRegistration, TLAPS

USE EtcdAssumption

LEMMA NoTaskIsNone == \A t \in Tasks : t # None
  BY DEF Tasks

\* A lease is always granted from the leases.
LEMMA GrantType ==
    ASSUME TypeOK, NEW t \in Tasks, Grant(t)
    PROVE  /\ \E l \in Leases : lease' = [lease EXCEPT ![t] = l] /\ alive' = alive \cup {l}
           /\ \E to \in TaskStates : task' = [task EXCEPT ![t] = to]
           /\ UNCHANGED <<key, token, notedVars, cancelled, deregVars, stalls, crossed>>
<1> DEFINE l == CHOOSE m \in Leases : Forgotten(m)
<1>1. l \in Leases
  BY DEF Grant
<1>2. lease' = [lease EXCEPT ![t] = l]
  BY DEF Grant
<1>3. lease'[t] = l
  BY <1>2 DEF TypeOK
<1>4. alive' = alive \cup {l}
  BY <1>3 DEF Grant
<1> QED BY <1>1, <1>2, <1>4 DEF Grant, Go, TaskStates

LEMMA TypeInit == Init => TypeOK
<1> SUFFICES ASSUME Init PROVE TypeOK
  OBVIOUS
<1>1. /\ alive \in SUBSET Leases /\ key = None /\ token = None /\ leaseId = None /\ delLease = None
      /\ noted \in BOOLEAN /\ delKey \in BOOLEAN /\ crossed \in BOOLEAN
      /\ dereg = "idle"
  BY DEF Init
<1>2. deregs \in 0..MaxDeregs /\ stalls \in 0..MaxStalls
  BY DEF Init
<1>3. task \in [Tasks -> TaskStates]
  BY DEF Init, TaskStates
<1>4. cancelled \in [Tasks -> BOOLEAN] /\ lease \in [Tasks -> Leases \cup {None}]
  BY DEF Init
<1> QED BY <1>1, <1>2, <1>3, <1>4 DEF TypeOK

LEMMA TypeStep ==
    ASSUME TypeOK, [Next]_vars
    PROVE  TypeOK'
<1> USE DEF TypeOK, TaskStates, etcdVars, notedVars, deregVars
<1>1. ASSUME NEW t \in Tasks, RegisterBegin(t) \/ RegisterSpawn(t) PROVE TypeOK'
  BY <1>1 DEF RegisterBegin, RegisterSpawn, TakeToken, Go
<1>2. ASSUME NEW t \in Tasks, Grant(t) PROVE TypeOK'
  BY <1>2, GrantType
<1>3. ASSUME NEW t \in Tasks, Top(t) \/ Put(t) \/ PutUnanswered(t) PROVE TypeOK'
  BY <1>3 DEF Top, Put, PutUnanswered, GiveUp, Go
<1>4. ASSUME NEW t \in Tasks, NoteKey(t) \/ NoteLease(t) \/ KeepAlive(t) PROVE TypeOK'
  BY <1>4 DEF NoteKey, NoteLease, KeepAlive, Go
<1>5. ASSUME NEW t \in Tasks, Failed(t) \/ Cancelled(t) \/ Again(t) \/ BeatBreaks(t) PROVE TypeOK'
  BY <1>5 DEF Failed, Cancelled, Again, BeatBreaks, GiveUp, Go
<1>6. CASE Deregister
  BY <1>6 DEF Deregister, TakeToken
<1>7. CASE DeregStep
  BY <1>7 DEF DeregStep, DeregKey, DeregLease, DeregDelete, DeregRevoke
<1>8. ASSUME NEW l \in Leases, Expire(l) PROVE TypeOK'
  BY <1>8 DEF Expire
<1>9. CASE UNCHANGED vars
  BY <1>9 DEF vars
<1> QED
  BY <1>1, <1>2, <1>3, <1>4, <1>5, <1>6, <1>7, <1>8, <1>9 DEF Next, TaskStep

\* Every variable keeps its type, whatever the bounds and the failures.
THEOREM TypeCorrect == Spec => []TypeOK
  BY TypeInit, TypeStep, PTL DEF Spec

-----------------------------------------------------------------------------
(* Who keeps the registration: when no two calls of register overlap. *)

\* The strengthening: between its two locks a call of register is alone, and there is no token.
OneSwap   == \A t, u \in Tasks : task[t] = "swap" /\ task[u] = "swap" => t = u
SwapEmpty == \A t \in Tasks : task[t] = "swap" => token = None

KeeperInv == TypeOK /\ OneSwap /\ SwapEmpty /\ SoleKeeper

LEMMA KeeperInvInit == Init => KeeperInv
  BY TypeInit DEF Init, KeeperInv, OneSwap, SwapEmpty, SoleKeeper, Beating

\* A task goes from one place of its loop to another, and nobody is told.
LEMMA TaskMoves ==
    ASSUME TypeOK, NEW t \in Tasks,
           \/ Top(t) \/ Grant(t) \/ Put(t) \/ PutUnanswered(t) \/ NoteKey(t) \/ NoteLease(t)
           \/ KeepAlive(t) \/ Failed(t) \/ Cancelled(t) \/ Again(t) \/ BeatBreaks(t)
    PROVE  /\ Beating(t)
           /\ \E to \in TaskStates \ {"idle", "swap"} : task' = [task EXCEPT ![t] = to]
           /\ UNCHANGED <<token, cancelled>>
<1>1. CASE Top(t)
  BY <1>1 DEF Top, Go, Beating, TaskStates
<1>2. CASE Grant(t) \/ Put(t) \/ PutUnanswered(t)
  BY <1>2 DEF Grant, Put, PutUnanswered, GiveUp, Go, Beating, TaskStates
<1>3. CASE NoteKey(t) \/ NoteLease(t) \/ KeepAlive(t)
  BY <1>3 DEF NoteKey, NoteLease, KeepAlive, Go, Beating, TaskStates
<1>4. CASE Failed(t) \/ Cancelled(t) \/ Again(t) \/ BeatBreaks(t)
  BY <1>4 DEF Failed, Cancelled, Again, BeatBreaks, GiveUp, Go, Beating, TaskStates
<1> QED BY <1>1, <1>2, <1>3, <1>4

LEMMA KeeperInvStep ==
    ASSUME ~Racing, KeeperInv, [Next]_vars
    PROVE  KeeperInv'
<1>1. TypeOK'
  BY TypeStep DEF KeeperInv
<1> USE <1>1 DEF KeeperInv, TypeOK, OneSwap, SwapEmpty, SoleKeeper, Beating
<1>2. ASSUME NEW t \in Tasks, RegisterBegin(t) PROVE KeeperInv'
  <2>1. /\ task[t] = "idle" /\ task' = [task EXCEPT ![t] = "swap"]
        /\ \A u \in Tasks : task[u] # "swap"
        /\ token' = None /\ cancelled' = [u \in Tasks |-> cancelled[u] \/ u = token]
    BY <1>2 DEF RegisterBegin, TakeToken, Go
  <2>2. OneSwap' /\ SwapEmpty'
    BY <2>1
  <2>3. SoleKeeper'
    BY <2>1
  <2> QED BY <2>2, <2>3
<1>3. ASSUME NEW t \in Tasks, RegisterSpawn(t) PROVE KeeperInv'
  <2>1. /\ task[t] = "swap" /\ task' = [task EXCEPT ![t] = "top"]
        /\ token = None /\ token' = t /\ cancelled' = cancelled
    BY <1>3 DEF RegisterSpawn, Go
  <2>2. \A u \in Tasks : task[u] = "swap" => u = t
    BY <2>1
  <2>3. \A u \in Tasks : Beating(u) => cancelled[u]
    BY <2>1, NoTaskIsNone
  <2> QED BY <2>1, <2>2, <2>3
<1>4. ASSUME NEW t \in Tasks, TaskStep(t) \/ BeatBreaks(t) PROVE KeeperInv'
  <2>1. CASE RegisterSpawn(t)
    BY <2>1, <1>3
  <2>2. CASE ~RegisterSpawn(t)
    <3>1. /\ Beating(t)
          /\ \E to \in TaskStates \ {"idle", "swap"} : task' = [task EXCEPT ![t] = to]
          /\ UNCHANGED <<token, cancelled>>
      BY <1>4, <2>2, TaskMoves DEF TaskStep
    <3> QED BY <3>1
  <2> QED BY <2>1, <2>2
<1>5. CASE Deregister
  <2>1. /\ token' = None /\ cancelled' = [u \in Tasks |-> cancelled[u] \/ u = token]
        /\ task' = task
    BY <1>5 DEF Deregister, TakeToken
  <2> QED BY <2>1
<1>6. CASE DeregStep
  BY <1>6 DEF DeregStep, DeregKey, DeregLease, DeregDelete, DeregRevoke
<1>7. ASSUME NEW l \in Leases, Expire(l) PROVE KeeperInv'
  BY <1>7 DEF Expire
<1>8. CASE UNCHANGED vars
  BY <1>8 DEF vars
<1> QED
  BY <1>2, <1>3, <1>4, <1>5, <1>6, <1>7, <1>8 DEF Next

\* When no two calls of register overlap, the heartbeat that nobody has cancelled is the one whose
\* token is in cancel_token, so that deregister and the next register stop it.
THEOREM HeartbeatCanBeStopped ==
    ASSUME ~Racing
    PROVE  Spec => []SoleKeeper
<1>1. KeeperInv => SoleKeeper
  BY DEF KeeperInv
<1>2. KeeperInv /\ [Next]_vars => KeeperInv'
  BY KeeperInvStep
<1> QED
  BY <1>1, <1>2, KeeperInvInit, PTL DEF Spec
=============================================================================
