---------------------------- MODULE BridgedProofs ----------------------------
(***************************************************************************)
(* A bridge on a directory, and one that is fed with any lists (MCBridged): *)
(* the consumer follows what was notified, for any calls, registers, ids,   *)
(* values and capacity.  The bridge keeps the invariant of DiscoverProofs   *)
(* at every step; the directory owes it that what it hands over are lists.  *)
(***************************************************************************)
EXTENDS MCBridged, DirectoryProofs

AP == INSTANCE DiscoverProofs WITH Ids <- AnyIds, Vals <- AnyVals, Appliers <- Calls
BP == INSTANCE DiscoverProofs WITH Appliers <- Calls \cup Registers, MaxWrites <- 0, writes <- 0

-----------------------------------------------------------------------------
(* The bridges of MCBridged are those of DiscoverProofs. *)

LEMMA SameBridgeA ==
    /\ AP!Named <=> A!Named
    /\ AP!Init <=> A!Init
    /\ AP!Next <=> A!Next
    /\ AP!TypeOK <=> A!TypeOK
    /\ AP!MembersFollow <=> A!MembersFollow
    /\ AP!EndpointsFollow <=> A!EndpointsFollow
<1>1. AP!Named <=> A!Named
  BY DEF AP!Named, A!Named
<1>2. AP!Init <=> A!Init
  BY DEF AP!Init, A!Init, AP!Empty, A!Empty
<1>3. AP!Next <=> A!Next
  BY DEF AP!Next, A!Next, AP!ApplyEvent, A!ApplyEvent, AP!Lists, A!Lists, AP!Hand, A!Hand,
     AP!Notify, A!Notify, AP!NotifyNobody, A!NotifyNobody, AP!NotifyBegin, A!NotifyBegin,
     AP!Diffs, A!Diffs, AP!TonicDiffs, A!TonicDiffs, AP!TowerDiffs, A!TowerDiffs,
     AP!Inserts, A!Inserts, AP!Removes, A!Removes, AP!InsertOf, A!InsertOf, AP!RemoveOf, A!RemoveOf,
     AP!Members, A!Members, AP!Known, A!Known, AP!Connectable, A!Connectable,
     AP!TrySend, A!TrySend, AP!Due, A!Due, AP!Turned, A!Turned, AP!Before, A!Before,
     AP!NotifyEnd, A!NotifyEnd, AP!BridgeStep, A!BridgeStep, AP!Load, A!Load, AP!LoadList, A!LoadList,
     AP!SendInitial, A!SendInitial, AP!AllSent, A!AllSent, AP!Listen, A!Listen, AP!Recv, A!Recv
<1>4. AP!TypeOK <=> A!TypeOK
  BY DEF AP!TypeOK, A!TypeOK, AP!Lists, A!Lists, AP!Changes, A!Changes
<1>5. AP!MembersFollow <=> A!MembersFollow
  BY DEF AP!MembersFollow, A!MembersFollow, AP!EndsUp, A!EndsUp, AP!EndsWith, A!EndsWith,
     AP!IsLast, A!IsLast, AP!RemoveOf, A!RemoveOf, AP!Connectable, A!Connectable,
     AP!Followed, A!Followed
<1>6. AP!EndpointsFollow <=> A!EndpointsFollow
  BY DEF AP!EndpointsFollow, A!EndpointsFollow, AP!EndsUp, A!EndsUp, AP!EndsWith, A!EndsWith,
     AP!IsLast, A!IsLast, AP!RemoveOf, A!RemoveOf, AP!Connectable, A!Connectable,
     AP!Followed, A!Followed
<1> QED BY <1>1, <1>2, <1>3, <1>4, <1>5, <1>6

LEMMA SameBridgeB ==
    /\ BP!Named <=> B!Named
    /\ BP!Init <=> B!Init
    /\ \A a, list : BP!Hand(a, list) <=> B!Hand(a, list)
    /\ \A a : BP!Notify(a) <=> B!Notify(a)
    /\ BP!TrySend <=> B!TrySend
    /\ BP!NotifyEnd <=> B!NotifyEnd
    /\ \A list : BP!LoadList(list) <=> B!LoadList(list)
    /\ BP!SendInitial <=> B!SendInitial
    /\ BP!AllSent <=> B!AllSent
    /\ BP!Listen <=> B!Listen
    /\ BP!Recv <=> B!Recv
    /\ BP!TypeOK <=> B!TypeOK
<1>1. (BP!Named <=> B!Named) /\ (BP!Init <=> B!Init)
  BY DEF BP!Named, B!Named, BP!Init, B!Init, BP!Empty, B!Empty
<1>2. \A a, list : BP!Hand(a, list) <=> B!Hand(a, list)
  BY DEF BP!Hand, B!Hand
<1>3. ASSUME NEW a PROVE BP!Notify(a) <=> B!Notify(a)
  BY DEF BP!Notify, B!Notify, BP!NotifyNobody, B!NotifyNobody, BP!NotifyBegin, B!NotifyBegin,
     BP!Diffs, B!Diffs, BP!TonicDiffs, B!TonicDiffs, BP!TowerDiffs, B!TowerDiffs,
     BP!Inserts, B!Inserts, BP!Removes, B!Removes, BP!InsertOf, B!InsertOf, BP!RemoveOf, B!RemoveOf,
     BP!Members, B!Members, BP!Known, B!Known, BP!Connectable, B!Connectable
<1>4. BP!TrySend <=> B!TrySend
  BY DEF BP!TrySend, B!TrySend, BP!Due, B!Due, BP!Turned, B!Turned, BP!Before, B!Before,
     BP!RemoveOf, B!RemoveOf, BP!Members, B!Members, BP!Known, B!Known
<1>5. BP!NotifyEnd <=> B!NotifyEnd
  BY DEF BP!NotifyEnd, B!NotifyEnd, BP!Known, B!Known
<1>6. ASSUME NEW list PROVE BP!LoadList(list) <=> B!LoadList(list)
  BY DEF BP!LoadList, B!LoadList, BP!Inserts, B!Inserts, BP!InsertOf, B!InsertOf,
     BP!Connectable, B!Connectable
<1>7. /\ BP!SendInitial <=> B!SendInitial
      /\ BP!AllSent <=> B!AllSent
      /\ BP!Listen <=> B!Listen
      /\ BP!Recv <=> B!Recv
  BY DEF BP!SendInitial, B!SendInitial, BP!AllSent, B!AllSent, BP!Listen, B!Listen, BP!Recv, B!Recv
<1>8. BP!TypeOK <=> B!TypeOK
  BY DEF BP!TypeOK, B!TypeOK, BP!Lists, B!Lists, BP!Changes, B!Changes
<1> QED BY <1>1, <1>2, <1>3, <1>4, <1>5, <1>6, <1>7, <1>8

LEMMA SameProperties ==
    /\ BP!MembersFollow <=> B!MembersFollow
    /\ BP!EndpointsFollow <=> B!EndpointsFollow
BY DEF BP!MembersFollow, B!MembersFollow, BP!EndpointsFollow, B!EndpointsFollow,
   BP!EndsUp, B!EndsUp, BP!EndsWith, B!EndsWith, BP!IsLast, B!IsLast, BP!RemoveOf, B!RemoveOf,
   BP!Connectable, B!Connectable, BP!Followed, B!Followed

-----------------------------------------------------------------------------
(* What the directory hands to the bridge are lists. *)

\* From its list on, and when it has returned Ok, a call has a list.
HeldOK == \A c \in Calls : call[c] \in {"insert", "ensure", "watch", "ok"} => held[c] \in Lists

LEMMA HeldStep == ASSUME TypeOK, HeldOK, [Next]_vars PROVE HeldOK'
<1> USE DEF TypeOK, HeldOK
<1>1. ASSUME NEW c \in Calls, Start(c) PROVE HeldOK'
  BY <1>1 DEF Start, GoCall
<1>2. ASSUME NEW c \in Calls, CallStep(c) PROVE HeldOK'
  <2>1. CASE CheckHit(c)
    BY <2>1 DEF CheckHit, GoCall
  <2>2. CASE CheckMiss(c) \/ ListErr(c)
    BY <2>2 DEF CheckMiss, ListErr, GoCall
  <2>3. CASE ListOk(c) \/ ListFromDisk(c) \/ ListBlank(c)
    BY <2>3, EmptyIsList DEF ListOk, ListFromDisk, ListBlank, GoCall
  <2>4. CASE Insert(c) \/ EnsureRunning(c) \/ EnsureNew(c) \/ WatchOk(c) \/ WatchErr(c)
    BY <2>4 DEF Insert, EnsureRunning, EnsureNew, WatchOk, WatchErr, GoCall
  <2> QED BY <1>2, <2>1, <2>2, <2>3, <2>4 DEF CallStep
<1>3. ASSUME NEW c \in Calls, DropCall(c) PROVE HeldOK'
  BY <1>3 DEF DropCall, GoCall
<1>4. ASSUME NEW w \in Calls, TaskStep(w) PROVE HeldOK'
  <2>1. UNCHANGED callVars
    BY <1>4 DEF TaskStep, Top, Answered, Connect, TaskListOk, ConnectErr, BackoffEnd, Select,
       LoopCancelled, TaskEvent, StreamEnd, Tick, TaskListErr, TaskListBlank, Reset
  <2> QED BY <2>1 DEF callVars
<1>5. CASE \/ Unwatch \/ Shutdown \/ Change
           \/ \E r \in Registers : RegisterNow(r) \/ RegisterLater(r) \/ RegisterApply(r)
           \/ \E w \in Calls : Break(w) \/ Lag(w)
           \/ UNCHANGED vars
  <2>1. UNCHANGED callVars
    BY <1>5 DEF Unwatch, Shutdown, Change, RegisterNow, RegisterLater, RegisterApply, Break, Lag, vars
  <2> QED BY <2>1 DEF callVars
<1> QED BY <1>1, <1>2, <1>3, <1>4, <1>5 DEF Next

\* Whoever applies something leaves a list.
LEMMA AppliedList ==
    ASSUME TypeOK,
           \/ \E w \in Calls : TaskEvent(w) \/ Reset(w)
           \/ \E r \in Registers : RegisterApply(r)
    PROVE  snapshot' \in Lists
<1> USE DEF TypeOK
<1>1. ASSUME NEW w \in Calls, TaskEvent(w) PROVE snapshot' \in Lists
  <2>1. Head(stream[w]) \in Events
    BY <1>1 DEF TaskEvent
  <2> QED BY <1>1, <2>1, ApplyType DEF TaskEvent
<1>2. ASSUME NEW w \in Calls, Reset(w) PROVE snapshot' \in Lists
  BY <1>2 DEF Reset
<1>3. ASSUME NEW r \in Registers, RegisterApply(r) PROVE snapshot' \in Lists
  BY <1>3, ApplyType DEF RegisterApply
<1> QED BY <1>1, <1>2, <1>3

\* Every step of a directory with a bridge is one of the directory or leaves it alone.
LEMMA BridgedDirectory == ASSUME [BridgedNext]_bridgedVars PROVE [Next]_vars
<1>1. ASSUME NEW c \in Calls, CallMoves(c) \/ TaskMoves(c) \/ TaskApplies(c) PROVE Next
  BY <1>1 DEF CallMoves, TaskMoves, TaskApplies, TaskStep, Select, Next
<1>2. ASSUME NEW r \in Registers, RegisterMoves(r) PROVE Next
  BY <1>2 DEF RegisterMoves, RegisterEnds, Next
<1>3. CASE OthersMove
  BY <1>3 DEF OthersMove, Next
<1>4. CASE \/ Opened \/ BridgeMoves \/ ListenerMoves \/ Reads
           \/ \E a \in Calls \cup Registers : Notifies(a)
           \/ UNCHANGED bridgedVars
  BY <1>4 DEF Opened, BridgeMoves, ListenerMoves, Reads, Notifies, bridgedVars
<1> QED BY <1>1, <1>2, <1>3, <1>4 DEF BridgedNext

-----------------------------------------------------------------------------
(* A bridge on a directory. *)

BridgedInv == TypeOK /\ HeldOK /\ BP!IInv

LEMMA BridgedInitOK == ASSUME B!Named PROVE BridgedInit => BridgedInv
<1> SUFFICES ASSUME BridgedInit PROVE BridgedInv
  OBVIOUS
<1>1. TypeOK /\ HeldOK
  BY TypeInit DEF BridgedInit, Init, HeldOK
<1>2. BP!IInv
  BY SameBridgeB, BP!InitOK DEF BridgedInit
<1> QED BY <1>1, <1>2 DEF BridgedInv

LEMMA BridgedStepOK ==
    ASSUME B!Named, BridgedInv, [BridgedNext]_bridgedVars
    PROVE  BridgedInv'
<1>1. TypeOK' /\ HeldOK'
  BY BridgedDirectory, TypeStep, HeldStep DEF BridgedInv
<1>2. TypeOK /\ HeldOK /\ BP!IInv /\ BP!Named /\ BP!Lists = Lists
  BY SameBridgeB DEF BridgedInv, BP!Lists, Lists
<1> SUFFICES BP!IInv'
  BY <1>1 DEF BridgedInv
<1>3. ASSUME UNCHANGED bridgeVars PROVE BP!IInv'
  <2>1. UNCHANGED BP!vars
    BY <1>3 DEF bridgeVars, BP!vars
  <2> QED BY <1>2, <2>1, BP!RestOK
<1>4. ASSUME NEW a \in Calls \cup Registers, B!Hand(a, snapshot'), snapshot' \in Lists
      PROVE  BP!IInv'
  <2>1. PICK list \in BP!Lists : list = snapshot'
    BY <1>2, <1>4
  <2>2. BP!Hand(a, list) /\ 0 \in 0..0
    BY <1>4, <2>1, SameBridgeB
  <2> QED BY <1>2, <2>2, BP!HandOK
<1>5. ASSUME NEW c \in Calls, CallMoves(c) \/ TaskMoves(c) \/ TaskApplies(c) PROVE BP!IInv'
  <2>1. CASE TaskApplies(c)
    <3>1. B!Hand(c, snapshot') /\ snapshot' \in Lists
      BY <1>2, <2>1, AppliedList DEF TaskApplies
    <3> QED BY <1>4, <3>1
  <2>2. CASE CallMoves(c) \/ TaskMoves(c)
    BY <1>3, <2>2 DEF CallMoves, TaskMoves
  <2> QED BY <1>5, <2>1, <2>2
<1>6. ASSUME NEW r \in Registers, RegisterMoves(r) PROVE BP!IInv'
  <2>1. CASE RegisterEnds(r)
    <3>1. B!Hand(r, snapshot') /\ snapshot' \in Lists
      BY <1>2, <2>1, AppliedList DEF RegisterEnds
    <3> QED BY <1>4, <3>1
  <2>2. CASE UNCHANGED bridgeVars
    BY <1>3, <2>2
  <2> QED BY <1>6, <2>1, <2>2 DEF RegisterMoves
<1>7. CASE Opened
  <2>1. held[Opener] \in BP!Lists
    BY <1>2, <1>7, OpenerAssumption DEF Opened, HeldOK
  <2>2. BP!LoadList(held[Opener])
    BY <1>7, SameBridgeB DEF Opened
  <2> QED BY <1>2, <2>1, <2>2, BP!LoadListOK
<1>8. CASE BridgeMoves
  BY <1>2, <1>8, SameBridgeB, BP!SendInitialOK, BP!BridgeOK DEF BridgeMoves
<1>9. ASSUME NEW a \in Calls \cup Registers, Notifies(a) PROVE BP!IInv'
  <2>1. BP!NotifyNobody(a) \/ BP!NotifyBegin(a)
    BY <1>9, SameBridgeB DEF Notifies, BP!Notify
  <2> QED BY <1>2, <2>1, BP!NotifyNobodyOK, BP!NotifyBeginOK
<1>10. CASE ListenerMoves
  BY <1>2, <1>10, SameBridgeB, BP!TrySendOK, BP!NotifyEndOK DEF ListenerMoves
<1>11. CASE Reads
  BY <1>2, <1>11, SameBridgeB, BP!RecvOK DEF Reads
<1>12. CASE OthersMove \/ UNCHANGED bridgedVars
  BY <1>3, <1>12 DEF OthersMove, bridgedVars
<1> QED BY <1>5, <1>6, <1>7, <1>8, <1>9, <1>10, <1>11, <1>12 DEF BridgedNext

\* A consumer of a bridge on a directory follows the snapshots its listener was called with: as long
\* as no try_send has failed it ends up with the members, and for Tonic with the endpoints, of the
\* last one (discover.rs:51-101, 124-213, directory.rs:293-300).
THEOREM ConsumerFollowsDirectory ==
    ASSUME B!Named
    PROVE  BridgedSpec => [](TypeOK /\ B!TypeOK /\ B!MembersFollow /\ B!EndpointsFollow)
<1>1. BridgedInit => BridgedInv
  BY BridgedInitOK
<1>2. BridgedInv /\ [BridgedNext]_bridgedVars => BridgedInv'
  BY BridgedStepOK
<1>3. BridgedInv => TypeOK /\ B!TypeOK /\ B!MembersFollow /\ B!EndpointsFollow
  BY BP!FollowsWell, SameBridgeB, SameProperties DEF BridgedInv
<1> QED BY <1>1, <1>2, <1>3, PTL DEF BridgedSpec

-----------------------------------------------------------------------------
(* Either of the bridges of MCBridged. *)

EitherInv ==
    /\ feed \in {"any", "directory"}
    /\ TypeOK
    /\ IF feed = "any" THEN AP!IInv ELSE BridgedInv

LEMMA EitherInductive == MCSpec => []EitherInv
<1>1. AP!Named /\ B!Named
  BY NamedAssumption, SameBridgeA
<1>2. MCInit => EitherInv
  <2> SUFFICES ASSUME MCInit PROVE EitherInv
    OBVIOUS
  <2>1. CASE feed = "any"
    <3>1. TypeOK
      BY <2>1, TypeInit DEF MCInit, BridgedInit
    <3>2. AP!IInv
      BY <1>1, <2>1, SameBridgeA, AP!InitOK DEF MCInit
    <3> QED BY <2>1, <3>1, <3>2 DEF EitherInv
  <2>2. CASE feed = "directory"
    <3>1. BridgedInv
      BY <1>1, <2>2, BridgedInitOK DEF MCInit
    <3> QED BY <2>2, <3>1 DEF EitherInv, BridgedInv
  <2> QED BY <2>1, <2>2 DEF MCInit
<1>3. EitherInv /\ [MCNext]_allVars => EitherInv'
  <2> SUFFICES ASSUME EitherInv, [MCNext]_allVars PROVE EitherInv'
    OBVIOUS
  <2>1. CASE feed = "any"
    <3>1. [AP!Next]_(AP!vars) /\ UNCHANGED <<feed, vars>>
      <4>1. ASSUME MCNext PROVE AP!Next /\ UNCHANGED <<feed, vars>>
        BY <2>1, <4>1, SameBridgeA DEF MCNext, Either
      <4>2. ASSUME UNCHANGED allVars PROVE UNCHANGED AP!vars /\ UNCHANGED <<feed, vars>>
        BY <4>2 DEF allVars, bridgedVars, bridgeVars, AP!vars
      <4> QED BY <4>1, <4>2
    <3>2. AP!IInv'
      BY <1>1, <2>1, <3>1, AP!StepOK DEF EitherInv
    <3>3. TypeOK'
      BY <3>1, TypeStep DEF EitherInv
    <3> QED BY <2>1, <3>1, <3>2, <3>3 DEF EitherInv
  <2>2. CASE feed = "directory"
    <3>1. [BridgedNext]_bridgedVars /\ feed' = feed
      BY <2>2 DEF MCNext, Either, allVars
    <3>2. BridgedInv'
      BY <1>1, <2>2, <3>1, BridgedStepOK DEF EitherInv
    <3> QED BY <2>2, <3>1, <3>2 DEF EitherInv, BridgedInv
  <2> QED BY <2>1, <2>2 DEF EitherInv
<1> QED BY <1>2, <1>3, PTL DEF MCSpec

LEMMA EitherKeeps == EitherInv => BothTypeOK /\ MembersFollow /\ EndpointsFollow
<1> SUFFICES ASSUME EitherInv PROVE BothTypeOK /\ MembersFollow /\ EndpointsFollow
  OBVIOUS
<1>1. CASE feed = "any"
  BY <1>1, AP!FollowsWell, SameBridgeA
  DEF EitherInv, BothTypeOK, MembersFollow, EndpointsFollow
<1>2. CASE feed = "directory"
  BY <1>2, BP!FollowsWell, SameBridgeB, SameProperties
  DEF EitherInv, BridgedInv, BothTypeOK, MembersFollow, EndpointsFollow
<1> QED BY <1>1, <1>2 DEF EitherInv

\* Whoever feeds a bridge, its channel never holds more changes than it has places for, and both
\* the bridge's variables and the directory's keep their types.
THEOREM BridgesTypeCorrect == MCSpec => []BothTypeOK
  BY EitherKeeps, EitherInductive, PTL

\* Whatever lists a bridge is fed with, by a directory or by anybody: its consumer ends up with
\* the members of the last (discover.rs:69-101, 159-213).
THEOREM MembersAreFollowed == MCSpec => []MembersFollow
  BY EitherKeeps, EitherInductive, PTL

\* And for Tonic with their endpoints (discover.rs:183-195).
THEOREM EndpointsAreFollowed == MCSpec => []EndpointsFollow
  BY EitherKeeps, EitherInductive, PTL
=============================================================================
