--------------------------- MODULE DirectoryProofs ---------------------------
(***************************************************************************)
(* Proofs about Directory, for every set of ids, values, calls and          *)
(* registrations and for every bound.                                       *)
(***************************************************************************)
EXTENDS Directory, SequenceTheorems, TLAPS

USE NamesAssumption, SwitchAssumption, BoundAssumption

\* The list without instances is a list.
LEMMA EmptyIsList == Empty \in Lists
  BY DEF Empty, Lists

\* Apply keeps a snapshot a list, also when there was none.
LEMMA ApplyType ==
    ASSUME NEW list \in Lists \cup {None}, NEW e \in Events
    PROVE  Apply(list, e) \in Lists
  BY DEF Apply, Lists, Events, Empty

\* A change of the registry keeps the parts of the state it writes of their types.
LEMMA PublishType ==
    ASSUME TypeOK, NEW i \in Ids, NEW v \in Vals \cup {Absent}, Publish(i, v)
    PROVE  /\ registry' \in Lists
           /\ changes' \in 0..MaxChanges
           /\ stream' \in [Calls -> Seq(Events)]
<1>1. registry' \in Lists
  BY DEF Publish, TypeOK, Lists
<1>2. changes' \in 0..MaxChanges
  BY DEF Publish, TypeOK
<1>3. [id |-> i, val |-> v] \in Events
  BY DEF Events
<1>4. ASSUME NEW w \in Calls PROVE Append(stream[w], [id |-> i, val |-> v]) \in Seq(Events)
  BY <1>3 DEF TypeOK
<1>5. stream' \in [Calls -> Seq(Events)]
  BY <1>4 DEF Publish, TypeOK
<1> QED BY <1>1, <1>2, <1>5

\* So does a task that drops its stream.
LEMMA LeaveStreamType ==
    ASSUME TypeOK, NEW w \in Calls, LeaveStream(w)
    PROVE  /\ stream' \in [Calls -> Seq(Events)]
           /\ open' \in [Calls -> BOOLEAN]
           /\ fresh' \in [Calls -> BOOLEAN]
           /\ aligned' \in Calls \cup {None}
<1>1. <<>> \in Seq(Events)
  OBVIOUS
<1> QED BY <1>1 DEF LeaveStream, TypeOK

-----------------------------------------------------------------------------
(* Type correctness. *)

LEMMA TypeInit == Init => TypeOK
  BY DEF Init, TypeOK, Lists, Events, Empty, CallStates, TaskStates, JoinStates

LEMMA TypeStep ==
    ASSUME TypeOK, [Next]_vars
    PROVE  TypeOK'
<1> USE DEF TypeOK, regVars, callVars, taskVars, joinVars
<1>1. ASSUME NEW c \in Calls, Start(c) PROVE TypeOK'
  BY <1>1 DEF Start, GoCall, CallStates
<1>2. ASSUME NEW c \in Calls, CallStep(c) PROVE TypeOK'
  <2>1. CASE CheckHit(c) \/ CheckMiss(c) \/ ListErr(c) \/ EnsureRunning(c)
    BY <2>1 DEF CheckHit, CheckMiss, ListErr, EnsureRunning, GoCall, CallStates
  <2>2. CASE ListOk(c)
    BY <2>2 DEF ListOk, GoCall, CallStates, Persist
  <2>8. CASE ListBlank(c)
    BY <2>8, EmptyIsList DEF ListBlank, GoCall, CallStates, Persist
  <2>3. CASE ListFromDisk(c)
    BY <2>3 DEF ListFromDisk, GoCall, CallStates
  <2>4. CASE Insert(c)
    BY <2>4 DEF Insert, GoCall, CallStates
  <2>5. CASE EnsureNew(c)
    BY <2>5 DEF EnsureNew, GoCall, CallStates
  <2>6. CASE WatchOk(c)
    BY <2>6 DEF WatchOk, GoCall, CallStates, TaskStates
  <2>7. CASE WatchErr(c)
    BY <2>7 DEF WatchErr, GoCall, CallStates, TaskStates
  <2> QED BY <1>2, <2>1, <2>2, <2>3, <2>4, <2>5, <2>6, <2>7, <2>8 DEF CallStep
<1>3. ASSUME NEW c \in Calls, DropCall(c) PROVE TypeOK'
  BY <1>3 DEF DropCall, GoCall, CallStates
<1>4. CASE Unwatch
  BY <1>4 DEF Unwatch
<1>5. CASE Shutdown
  BY <1>5 DEF Shutdown
<1>6. ASSUME NEW w \in Calls, TaskStep(w) PROVE TypeOK'
  <2>1. CASE Top(w)
    <3>1. CASE LeaveStream(w)
      BY <2>1, <3>1, LeaveStreamType DEF Top, GoTask, TaskStates
    <3>2. CASE UNCHANGED <<stream, open, fresh, aligned>>
      BY <2>1, <3>2 DEF Top, GoTask, TaskStates
    <3> QED BY <2>1, <3>1, <3>2 DEF Top
  <2>2. CASE Connect(w)
    BY <2>2 DEF Connect, GoTask, TaskStates
  <2>3. CASE ConnectErr(w) \/ BackoffEnd(w) \/ Tick(w) \/ TaskListErr(w)
    BY <2>3 DEF ConnectErr, BackoffEnd, Tick, TaskListErr, GoTask, TaskStates
  <2>4. CASE LoopCancelled(w) \/ StreamEnd(w)
    BY <2>4, LeaveStreamType DEF LoopCancelled, StreamEnd, GoTask, TaskStates
  <2>5. CASE TaskEvent(w)
    <3>1. Head(stream[w]) \in Events /\ Tail(stream[w]) \in Seq(Events)
      BY <2>5 DEF TaskEvent
    <3> QED BY <2>5, <3>1, ApplyType DEF TaskEvent, Persist
  <2>6. CASE TaskListOk(w)
    BY <2>6 DEF TaskListOk, GoTask, TaskStates
  <2>8. CASE TaskListBlank(w)
    BY <2>8, EmptyIsList DEF TaskListBlank, GoTask, TaskStates
  <2>7. CASE Reset(w)
    BY <2>7 DEF Reset, GoTask, Persist, TaskStates
  <2> QED BY <1>6, <2>1, <2>2, <2>3, <2>4, <2>5, <2>6, <2>7, <2>8 DEF TaskStep, Answered, Select
<1>7. ASSUME NEW r \in Registers, RegisterNow(r) PROVE TypeOK'
  <2>1. joiner[r].id \in Ids /\ joiner[r].val \in Vals \cup {Absent}
    BY DEF Events
  <2> QED BY <1>7, <2>1, PublishType DEF RegisterNow, JoinStates
<1>8. ASSUME NEW r \in Registers, RegisterLater(r) PROVE TypeOK'
  BY <1>8 DEF RegisterLater, JoinStates
<1>9. ASSUME NEW r \in Registers, RegisterApply(r) PROVE TypeOK'
  <2>1. Apply(snapshot, joiner[r]) \in Lists
    BY ApplyType
  <2> QED BY <1>9, <2>1 DEF RegisterApply, JoinStates, Persist
<1>10. CASE Change
  <2>1. PICK i \in Ids, v \in Vals \cup {Absent} : Publish(i, v)
    BY <1>10 DEF Change
  <2> QED BY <1>10, <2>1, PublishType DEF Change
<1>11. ASSUME NEW w \in Calls, Break(w) PROVE TypeOK'
  BY <1>11 DEF Break
<1>12. ASSUME NEW w \in Calls, Lag(w) PROVE TypeOK'
  BY <1>12 DEF Lag
<1>13. CASE UNCHANGED vars
  BY <1>13 DEF vars
<1> QED
  BY <1>1, <1>2, <1>3, <1>4, <1>5, <1>6, <1>7, <1>8, <1>9, <1>10, <1>11, <1>12, <1>13 DEF Next

\* The state stays of its type: Init establishes TypeOK and every action preserves it.
THEOREM TypeCorrect == Spec => []TypeOK
  BY TypeInit, TypeStep, PTL DEF Spec

-----------------------------------------------------------------------------
(* Who watches. *)

\* The strengthening: where a token, its call and its task stand to each other.
CallOfTask    == \A c \in Calls : task[c] # "none" => call[c] = "ok"
CallOfToken   == active # None => call[active] \in {"watch", "ok", "dropped"}
CallOfCancel  == \A c \in Calls : cancelled[c] => call[c] \in {"ok", "dropped"} /\ active # c
HolderOfLock  == /\ lock # None => call[lock] = "watch" /\ active = lock
                 /\ \A c \in Calls : call[c] = "watch" => lock = c

WatchInv ==
    /\ TypeOK
    /\ CallOfTask /\ CallOfToken /\ CallOfCancel /\ HolderOfLock
    /\ SoleWatcher

LEMMA WatchInvInit == Init => WatchInv
  BY TypeInit DEF Init, WatchInv, CallOfTask, CallOfToken, CallOfCancel, HolderOfLock, SoleWatcher,
     Running

LEMMA WatchInvStep ==
    ASSUME WatchInv, [Next]_vars
    PROVE  WatchInv'
<1>1. TypeOK'
  BY TypeStep DEF WatchInv
<1> USE <1>1 DEF WatchInv, TypeOK, CallOfTask, CallOfToken, CallOfCancel, HolderOfLock, SoleWatcher,
     Running, regVars, callVars, taskVars, joinVars
<1>2. ASSUME NEW c \in Calls, Start(c) PROVE WatchInv'
  BY <1>2 DEF Start, GoCall
<1>3. ASSUME NEW c \in Calls, CallStep(c) PROVE WatchInv'
  <2>1. CASE \/ CheckHit(c) \/ CheckMiss(c) \/ ListOk(c) \/ ListFromDisk(c) \/ ListErr(c)
             \/ ListBlank(c) \/ Insert(c) \/ EnsureRunning(c)
    <3>1. /\ call[c] \notin {"watch", "ok", "dropped"}
          /\ \E to \in CallStates : to # "watch" /\ call' = [call EXCEPT ![c] = to]
          /\ UNCHANGED <<task, cancelled, lock, active>>
      BY <2>1 DEF CheckHit, CheckMiss, ListOk, ListFromDisk, ListErr, ListBlank, Insert,
         EnsureRunning, GoCall, CallStates
    <3> QED BY <3>1
  <2>2. CASE EnsureNew(c)
    <3>1. /\ call[c] = "ensure" /\ call' = [call EXCEPT ![c] = "watch"]
          /\ lock = None /\ active = None /\ lock' = c /\ active' = c
          /\ task' = task /\ cancelled' = cancelled
      BY <2>2 DEF EnsureNew, GoCall
    <3>2. ~cancelled[c] /\ task[c] = "none" /\ c # None
      BY <3>1
    <3>3. \A w \in Calls : ~(Running(w) /\ ~cancelled[w])
      BY <3>1
    <3>4. SoleWatcher' /\ CallOfTask'
      BY <3>1, <3>2, <3>3
    <3>5. CallOfToken' /\ CallOfCancel'
      BY <3>1, <3>2
    <3>6. HolderOfLock'
      BY <3>1, <3>2
    <3> QED BY <3>4, <3>5, <3>6
  <2>3. CASE WatchOk(c)
    BY <2>3 DEF WatchOk, GoCall
  <2>4. CASE WatchErr(c)
    BY <2>4 DEF WatchErr, GoCall
  <2> QED BY <1>3, <2>1, <2>2, <2>3, <2>4 DEF CallStep
<1>4. ASSUME NEW c \in Calls, DropCall(c) PROVE WatchInv'
  BY <1>4 DEF DropCall, GoCall
<1>5. CASE Unwatch
  BY <1>5 DEF Unwatch
<1>6. CASE Shutdown
  BY <1>6 DEF Shutdown
<1>7. ASSUME NEW w \in Calls, TaskStep(w) PROVE WatchInv'
  <2>1. /\ task[w] # "none"
        /\ \E to \in TaskStates : to # "none" /\ task' = [task EXCEPT ![w] = to]
        /\ Running(w)
        /\ UNCHANGED <<call, cancelled, lock, active>>
    <3>1. CASE Top(w)
      BY <3>1 DEF Top, GoTask, TaskStates
    <3>2. CASE Answered(w) \/ ConnectErr(w) \/ BackoffEnd(w)
      BY <3>2 DEF Answered, Connect, TaskListOk, ConnectErr, BackoffEnd, GoTask, TaskStates
    <3>3. CASE Select(w)
      BY <3>3 DEF Select, LoopCancelled, TaskEvent, StreamEnd, GoTask, TaskStates
    <3>4. CASE Tick(w) \/ TaskListErr(w) \/ TaskListBlank(w) \/ Reset(w)
      BY <3>4 DEF Tick, TaskListErr, TaskListBlank, Reset, GoTask, TaskStates
    <3> QED BY <1>7, <3>1, <3>2, <3>3, <3>4 DEF TaskStep
  <2> QED BY <2>1
<1>8. CASE \/ \E r \in Registers : RegisterNow(r) \/ RegisterLater(r) \/ RegisterApply(r)
           \/ Change
           \/ \E w \in Calls : Break(w) \/ Lag(w)
  BY <1>8 DEF RegisterNow, RegisterLater, RegisterApply, Change, Break, Lag
<1>9. CASE UNCHANGED vars
  BY <1>9 DEF vars
<1> QED
  BY <1>2, <1>3, <1>4, <1>5, <1>6, <1>7, <1>8, <1>9 DEF Next

\* A watch task that nobody has cancelled is the one whose token is in active_watches, so that
\* unwatch and shutdown reach it and no two such tasks feed the snapshot.
THEOREM NoOrphanWatcher == Spec => []SoleWatcher
<1>1. WatchInv => SoleWatcher
  BY DEF WatchInv
<1> QED
  BY <1>1, WatchInvInit, WatchInvStep, PTL DEF Spec

\* Every call that returns Ok leaves a token in active_watches at that moment, however it raced.
THEOREM OkCallsAreWatched == Spec => OkMeansWatched
<1>1. ASSUME WatchInv, [Next]_vars, NEW c \in Calls, call[c] # "ok", call'[c] = "ok"
      PROVE  active' # None
  <2> USE <1>1 DEF WatchInv, TypeOK
  <2>1. CASE CallStep(c)
    <3>1. CheckHit(c) \/ EnsureRunning(c) => active' # None
      BY DEF CheckHit, EnsureRunning
    <3>2. WatchOk(c) \/ WatchErr(c) => call[c] = "watch" /\ active' = active
      BY DEF WatchOk, WatchErr, GoCall
    <3>3. call[c] = "watch" => active = c
      BY DEF HolderOfLock
    <3>4. ~ (\/ CheckMiss(c) \/ ListOk(c) \/ ListFromDisk(c) \/ ListErr(c) \/ ListBlank(c)
             \/ Insert(c) \/ EnsureNew(c))
      BY DEF CheckMiss, ListOk, ListFromDisk, ListErr, ListBlank, Insert, EnsureNew, GoCall
    <3> QED BY <2>1, <3>1, <3>2, <3>3, <3>4 DEF CallStep
  <2>2. ASSUME NEW d \in Calls, CallStep(d), d # c PROVE FALSE
    <3>1. \E to \in CallStates : call' = [call EXCEPT ![d] = to]
      BY <2>2 DEF CallStep, CheckHit, CheckMiss, ListOk, ListFromDisk, ListErr, ListBlank, Insert,
         EnsureRunning, EnsureNew, WatchOk, WatchErr, GoCall, CallStates
    <3> QED BY <2>2, <3>1
  <2>3. ASSUME NEW d \in Calls, Start(d) \/ DropCall(d) PROVE FALSE
    BY <2>3 DEF Start, DropCall, GoCall
  <2>4. ASSUME NEW w \in Calls, TaskStep(w) PROVE FALSE
    BY <2>4 DEF TaskStep, Top, Answered, Connect, TaskListOk, ConnectErr, BackoffEnd, Select,
       LoopCancelled, TaskEvent, StreamEnd, Tick, TaskListErr, TaskListBlank, Reset, callVars
  <2>5. CASE \/ Unwatch \/ Shutdown \/ Change
             \/ \E r \in Registers : RegisterNow(r) \/ RegisterLater(r) \/ RegisterApply(r)
             \/ \E w \in Calls : Break(w) \/ Lag(w)
             \/ UNCHANGED vars
    BY <2>5 DEF Unwatch, Shutdown, Change, RegisterNow, RegisterLater, RegisterApply, Break, Lag,
       vars, callVars
  <2> QED BY <2>1, <2>2, <2>3, <2>4, <2>5 DEF Next
<1>2. WatchInv /\ [Next]_vars =>
        \A c \in Calls : call[c] # "ok" /\ call'[c] = "ok" => active' # None
  BY <1>1
<1>3. WatchInv /\ [Next]_vars =>
        [\A c \in Calls : call[c] # "ok" /\ call'[c] = "ok" => active' # None]_vars
  BY <1>2
<1> QED
  BY <1>3, WatchInvInit, WatchInvStep, PTL DEF Spec, OkMeansWatched

-----------------------------------------------------------------------------
(* The watcher runs: when no caller drops the future of load_or_watch. *)

RunInv ==
    /\ WatchInv
    /\ \A c \in Calls : call[c] # "dropped"
    /\ active # None /\ call[active] = "ok" => Running(active)

LEMMA RunInvStep ==
    ASSUME ~MayDrop, RunInv, [Next]_vars
    PROVE  RunInv'
<1>1. WatchInv'
  BY WatchInvStep DEF RunInv
<1> USE <1>1 DEF RunInv, WatchInv, TypeOK, CallOfTask, CallOfToken, CallOfCancel, HolderOfLock,
     Running, regVars, callVars, taskVars, joinVars
<1>2. ASSUME NEW c \in Calls, Start(c) \/ CallStep(c) PROVE RunInv'
  <2>1. CASE EnsureNew(c)
    BY <2>1 DEF EnsureNew, GoCall
  <2>2. CASE WatchOk(c) \/ WatchErr(c)
    <3>1. /\ call[c] = "watch" /\ call' = [call EXCEPT ![c] = "ok"]
          /\ active' = active
          /\ \E to \in {"first", "top"} : task' = [task EXCEPT ![c] = to]
      BY <2>2 DEF WatchOk, WatchErr, GoCall
    <3>2. active = c
      BY <3>1
    <3> QED BY <3>1, <3>2
  <2>3. CASE \/ Start(c) \/ CheckHit(c) \/ CheckMiss(c) \/ ListOk(c) \/ ListFromDisk(c)
             \/ ListErr(c) \/ ListBlank(c) \/ Insert(c) \/ EnsureRunning(c)
    <3>1. /\ call[c] \notin {"watch", "ok", "dropped"}
          /\ \E to \in CallStates \ {"dropped"} : call' = [call EXCEPT ![c] = to]
          /\ UNCHANGED <<task, active>>
      BY <2>3 DEF Start, CheckHit, CheckMiss, ListOk, ListFromDisk, ListErr, ListBlank, Insert,
         EnsureRunning, GoCall, CallStates
    <3> QED BY <3>1
  <2> QED BY <1>2, <2>1, <2>2, <2>3 DEF CallStep
<1>3. ASSUME NEW c \in Calls, DropCall(c) PROVE FALSE
  BY <1>3 DEF DropCall
<1>4. CASE Unwatch \/ Shutdown
  BY <1>4 DEF Unwatch, Shutdown
<1>5. ASSUME NEW w \in Calls, TaskStep(w) PROVE RunInv'
  <2>1. /\ \E to \in TaskStates : /\ to = "done" => cancelled[w]
                                  /\ to # "none" /\ task' = [task EXCEPT ![w] = to]
        /\ UNCHANGED <<call, active>>
    <3>1. CASE Top(w)
      BY <3>1 DEF Top, GoTask, TaskStates
    <3>2. CASE Answered(w) \/ ConnectErr(w) \/ BackoffEnd(w)
      BY <3>2 DEF Answered, Connect, TaskListOk, ConnectErr, BackoffEnd, GoTask, TaskStates
    <3>3. CASE Select(w)
      BY <3>3 DEF Select, LoopCancelled, TaskEvent, StreamEnd, GoTask, TaskStates
    <3>4. CASE Tick(w) \/ TaskListErr(w) \/ TaskListBlank(w) \/ Reset(w)
      BY <3>4 DEF Tick, TaskListErr, TaskListBlank, Reset, GoTask, TaskStates
    <3> QED BY <1>5, <3>1, <3>2, <3>3, <3>4 DEF TaskStep
  <2> QED BY <2>1
<1>6. CASE \/ \E r \in Registers : RegisterNow(r) \/ RegisterLater(r) \/ RegisterApply(r)
           \/ Change
           \/ \E w \in Calls : Break(w) \/ Lag(w)
  BY <1>6 DEF RegisterNow, RegisterLater, RegisterApply, Change, Break, Lag
<1>7. CASE UNCHANGED vars
  BY <1>7 DEF vars
<1> QED
  BY <1>2, <1>3, <1>4, <1>5, <1>6, <1>7 DEF Next

\* When no caller drops its future, a token in active_watches stands for a watch task that runs,
\* or for the one its holder is about to spawn.
THEOREM WatcherRuns ==
    ASSUME ~MayDrop
    PROVE  Spec => []WatchedIsRunning
<1>1. Init => RunInv
  BY WatchInvInit DEF Init, RunInv
<1>2. RunInv /\ [Next]_vars => RunInv'
  BY RunInvStep
<1>3. RunInv => WatchedIsRunning
  BY DEF RunInv, WatchInv, CallOfToken, HolderOfLock, WatchedIsRunning, TypeOK
<1> QED
  BY <1>1, <1>2, <1>3, PTL DEF Spec

-----------------------------------------------------------------------------
(* Catching up: what a stream that misses nothing makes of a list. *)

\* A stream that takes every change at its end always holds the last word on what it mentions,
\* and a list that it settles stays settled.
LEMMA SettledAppend ==
    ASSUME NEW reg \in Lists, NEW list \in Lists, NEW s \in Seq(Events),
           NEW i \in Ids, NEW v \in Vals \cup {Absent}
    PROVE  /\ Current(reg, s)
                 => Current([reg EXCEPT ![i] = v], Append(s, [id |-> i, val |-> v]))
           /\ Settled(reg, list, s)
                 => Settled([reg EXCEPT ![i] = v], list, Append(s, [id |-> i, val |-> v]))
<1> DEFINE after == [reg EXCEPT ![i] = v]
           t     == Append(s, [id |-> i, val |-> v])
<1>1. /\ DOMAIN t = 1..(Len(s) + 1) /\ DOMAIN s = 1..Len(s) /\ Len(s) \in Nat
      /\ t[Len(s) + 1] = [id |-> i, val |-> v]
      /\ \A k \in 1..Len(s) : t[k] = s[k]
      /\ \A k \in 1..Len(s) : s[k] \in Events
  OBVIOUS
<1>2. after[i] = v /\ \A j \in Ids : j # i => after[j] = reg[j]
  BY DEF Lists
<1>3. ASSUME Current(reg, s) PROVE Current(after, t)
  <2> SUFFICES ASSUME NEW k \in DOMAIN t, \A m \in DOMAIN t : m > k => t[m].id # t[k].id
               PROVE  t[k].val = after[t[k].id]
    BY DEF Current
  <2>1. CASE k = Len(s) + 1
    BY <2>1, <1>1, <1>2
  <2>2. CASE k \in 1..Len(s)
    <3>1. t[k].id # i
      BY <2>2, <1>1
    <3>2. \A m \in DOMAIN s : m > k => s[m].id # s[k].id
      BY <2>2, <1>1
    <3>3. s[k].val = reg[s[k].id]
      BY <1>3, <2>2, <3>2, <1>1 DEF Current
    <3> QED BY <3>1, <3>3, <2>2, <1>1, <1>2 DEF Events
  <2> QED BY <2>1, <2>2, <1>1
<1>4. ASSUME Untouched(reg, list, s) PROVE Untouched(after, list, t)
  <2> SUFFICES ASSUME NEW j \in Ids, \A k \in DOMAIN t : t[k].id # j
               PROVE  list[j] = after[j]
    BY DEF Untouched
  <2>1. j # i
    BY <1>1
  <2>2. \A k \in DOMAIN s : s[k].id # j
    BY <1>1
  <2> QED BY <1>2, <1>4, <2>1, <2>2 DEF Untouched
<1> QED BY <1>3, <1>4 DEF Settled

\* Taking the oldest event off a stream, applied to the list or not.
LEMMA SettledTail ==
    ASSUME NEW reg \in Lists, NEW list \in Lists, NEW s \in Seq(Events), s # <<>>
    PROVE  /\ Current(reg, s) => Current(reg, Tail(s))
           /\ Settled(reg, list, s) => Settled(reg, Apply(list, Head(s)), Tail(s))
<1> DEFINE t == Tail(s)
<1>1. /\ DOMAIN t = 1..(Len(s) - 1) /\ DOMAIN s = 1..Len(s) /\ Len(s) \in Nat \ {0}
      /\ \A k \in 1..(Len(s) - 1) : t[k] = s[k + 1]
      /\ \A k \in 1..Len(s) : s[k] \in Events
      /\ Head(s) = s[1]
  OBVIOUS
<1>2. ASSUME Current(reg, s) PROVE Current(reg, t)
  <2> SUFFICES ASSUME NEW k \in DOMAIN t, \A m \in DOMAIN t : m > k => t[m].id # t[k].id
               PROVE  t[k].val = reg[t[k].id]
    BY DEF Current
  <2>1. k + 1 \in DOMAIN s /\ t[k] = s[k + 1]
    BY <1>1
  <2>2. ASSUME NEW m \in DOMAIN s, m > k + 1 PROVE s[m].id # s[k + 1].id
    <3>1. m - 1 \in DOMAIN t /\ m - 1 > k /\ t[m - 1] = s[m]
      BY <2>2, <1>1
    <3> QED BY <3>1, <2>1
  <2> QED BY <1>2, <2>1, <2>2 DEF Current
<1>3. list # None
  BY DEF Lists
<1>4. ASSUME Settled(reg, list, s) PROVE Untouched(reg, Apply(list, Head(s)), t)
  <2> SUFFICES ASSUME NEW j \in Ids, \A k \in DOMAIN t : t[k].id # j
               PROVE  Apply(list, Head(s))[j] = reg[j]
    BY DEF Untouched
  <2>1. \A k \in 2..Len(s) : s[k].id # j
    <3> SUFFICES ASSUME NEW k \in 2..Len(s) PROVE s[k].id # j
      OBVIOUS
    <3>1. k - 1 \in DOMAIN t /\ t[k - 1] = s[k]
      BY <1>1
    <3> QED BY <3>1
  <2>2. CASE s[1].id = j
    <3>1. s[1].val = reg[j]
      BY <1>4, <2>1, <2>2, <1>1 DEF Settled, Current
    <3> QED BY <3>1, <2>2, <1>1, <1>3 DEF Apply, Lists, Events
  <2>3. CASE s[1].id # j
    <3>1. list[j] = reg[j]
      BY <1>4, <2>1, <2>3, <1>1 DEF Settled, Untouched
    <3> QED BY <3>1, <2>3, <1>1, <1>3 DEF Apply, Lists, Events
  <2> QED BY <2>2, <2>3
<1>5. Apply(list, Head(s)) \in Lists
  BY <1>1, ApplyType
<1> QED BY <1>2, <1>4, <1>5 DEF Settled

\* The strengthening: a task outside its select loop has no stream; a stream that is fed holds the
\* last word on what it mentions; the answer a task is about to reset from is settled by its
\* stream if that missed nothing; and an aligned task is in its loop, on a stream that is fed.
NoStream == \A w \in Calls :
    task[w] \in {"none", "top", "connect", "backoff", "done"} => stream[w] = <<>> /\ ~open[w]
FedIsCurrent == \A w \in Calls : open[w] => Current(registry, stream[w])
FreshIsFed == \A w \in Calls : fresh[w] => open[w]
AnswerSettled == \A w \in Calls :
    task[w] = "reset" /\ fresh[w] => Settled(registry, answer[w], stream[w])
AlignedIsFed == \A w \in Calls :
    aligned = w => open[w] /\ task[w] \in {"loop", "list", "reset"}

StreamInv ==
    /\ TypeOK /\ CallOfTask
    /\ NoStream /\ FedIsCurrent /\ FreshIsFed /\ AnswerSettled /\ AlignedIsFed
    /\ CaughtUp

LEMMA StreamInvInit == Init => StreamInv
  BY TypeInit DEF Init, StreamInv, CallOfTask, NoStream, FedIsCurrent, FreshIsFed, AnswerSettled,
     AlignedIsFed, CaughtUp

\* A step that changes neither the registry nor a stream keeps what it says of the streams.
LEMMA StreamInvQuiet ==
    ASSUME StreamInv, TypeOK', CallOfTask',
           UNCHANGED <<registry, stream, answer>>,
           \A w \in Calls : open'[w] = open[w] /\ fresh'[w] = fresh[w],
           \A w \in Calls : task'[w] \in {"none", "top", "connect", "backoff", "done"}
                                => stream[w] = <<>> /\ ~open[w],
           \A w \in Calls : task'[w] = "reset" => task[w] = "reset",
           aligned' = None \/ /\ aligned' = aligned /\ snapshot' = snapshot
                              /\ \A w \in Calls : aligned = w =>
                                    task'[w] \in {"loop", "list", "reset"}
    PROVE  StreamInv'
<1> USE DEF StreamInv
<1>1. NoStream' /\ FedIsCurrent' /\ FreshIsFed'
  BY DEF NoStream, FedIsCurrent, FreshIsFed, TypeOK
<1>2. AnswerSettled'
  BY DEF AnswerSettled, TypeOK
<1>3. AlignedIsFed' /\ CaughtUp'
  BY DEF AlignedIsFed, CaughtUp, TypeOK
<1> QED BY <1>1, <1>2, <1>3

\* A change of the registry, told to every stream that is fed.
LEMMA StreamInvPublish ==
    ASSUME StreamInv, TypeOK', CallOfTask',
           NEW i \in Ids, NEW v \in Vals \cup {Absent}, Publish(i, v),
           UNCHANGED <<snapshot, task, answer, open, fresh, aligned>>
    PROVE  StreamInv'
<1> USE DEF StreamInv
<1>1. ASSUME NEW w \in Calls, open[w]
      PROVE  stream'[w] = Append(stream[w], [id |-> i, val |-> v])
  BY <1>1 DEF Publish
<1>2. registry' = [registry EXCEPT ![i] = v] /\ registry \in Lists
  BY DEF Publish, TypeOK
<1>3. ASSUME NEW w \in Calls, open[w]
      PROVE  /\ Current(registry', stream'[w])
             /\ \A list \in Lists :
                   Settled(registry, list, stream[w]) => Settled(registry', list, stream'[w])
  <2>1. stream[w] \in Seq(Events) /\ Current(registry, stream[w])
    BY <1>3 DEF FedIsCurrent, TypeOK
  <2>2. Current(registry', stream'[w])
    <3>1. Current([registry EXCEPT ![i] = v], Append(stream[w], [id |-> i, val |-> v]))
      BY <1>2, <2>1, SettledAppend
    <3> QED BY <1>1, <1>2, <1>3, <3>1
  <2>3. ASSUME NEW list \in Lists, Settled(registry, list, stream[w])
        PROVE  Settled(registry', list, stream'[w])
    <3>1. Settled([registry EXCEPT ![i] = v], list,
                  Append(stream[w], [id |-> i, val |-> v]))
      BY <1>2, <2>1, <2>3, SettledAppend
    <3> QED BY <1>1, <1>2, <1>3, <3>1
  <2> QED BY <2>2, <2>3
<1>4. FedIsCurrent'
  BY <1>3 DEF FedIsCurrent
<1>5. AnswerSettled'
  <2> SUFFICES ASSUME NEW w \in Calls, task[w] = "reset", fresh[w]
               PROVE  Settled(registry', answer[w], stream'[w])
    BY DEF AnswerSettled
  <2>1. open[w] /\ answer[w] \in Lists /\ Settled(registry, answer[w], stream[w])
    BY DEF AnswerSettled, FreshIsFed, TypeOK
  <2> QED BY <1>3, <2>1
<1>6. CaughtUp'
  <2> SUFFICES ASSUME NEW w \in Calls, aligned = w
               PROVE  Settled(registry', snapshot, stream'[w])
    BY DEF CaughtUp
  <2>1. open[w] /\ snapshot \in Lists /\ Settled(registry, snapshot, stream[w])
    BY DEF CaughtUp, AlignedIsFed, Settled
  <2> QED BY <1>3, <2>1
<1>7. NoStream' /\ FreshIsFed' /\ AlignedIsFed'
  BY DEF NoStream, FreshIsFed, AlignedIsFed, Publish, TypeOK
<1> QED BY <1>4, <1>5, <1>6, <1>7

\* A task that leaves its loop and drops its stream.
LEMMA StreamInvLeave ==
    ASSUME StreamInv, TypeOK', CallOfTask', NEW w \in Calls, LeaveStream(w),
           task' \in {[task EXCEPT ![w] = "done"], [task EXCEPT ![w] = "top"]},
           UNCHANGED <<registry, snapshot, answer>>
    PROVE  StreamInv'
<1> USE DEF StreamInv, LeaveStream
<1>1. NoStream' /\ FreshIsFed' /\ AlignedIsFed'
  BY DEF NoStream, FreshIsFed, AlignedIsFed, TypeOK
<1>2. FedIsCurrent'
  BY DEF FedIsCurrent, TypeOK
<1>3. AnswerSettled' /\ CaughtUp'
  BY DEF AnswerSettled, CaughtUp, TypeOK
<1> QED BY <1>1, <1>2, <1>3

LEMMA StreamInvTask ==
    ASSUME StreamInv, TypeOK', CallOfTask', NEW w \in Calls, TaskStep(w)
    PROVE  StreamInv'
<1> USE DEF StreamInv, regVars, callVars, joinVars
<1>1. CASE Top(w)
  <2>1. CASE GoTask(w, "first", "done") /\ LeaveStream(w)
    BY <1>1, <2>1, StreamInvLeave DEF Top, GoTask
  <2>2. CASE /\ GoTask(w, "top", "done") \/ GoTask(w, "first", "loop") \/ GoTask(w, "top", "connect")
             /\ UNCHANGED <<stream, open, fresh, aligned>>
    <3>1. \E to \in TaskStates :
            /\ task' = [task EXCEPT ![w] = to] /\ to \in {"done", "loop", "connect"}
            /\ to # "loop" => task[w] = "top"
            /\ task[w] \notin {"loop", "list", "reset"}
      BY <2>2 DEF GoTask, TaskStates
    <3>2. aligned' = aligned /\ aligned # w
      BY <2>2, <3>1 DEF AlignedIsFed
    <3>3. UNCHANGED <<registry, snapshot, answer>>
      BY <1>1 DEF Top
    <3>4. \A x \in Calls : task'[x] \in {"none", "top", "connect", "backoff", "done"}
                              => stream[x] = <<>> /\ ~open[x]
      BY <3>1 DEF NoStream, TypeOK
    <3>5. \A x \in Calls : /\ task'[x] = "reset" => task[x] = "reset"
                           /\ aligned = x => task'[x] \in {"loop", "list", "reset"}
      BY <3>1, <3>2 DEF AlignedIsFed, TypeOK
    <3> QED BY <2>2, <3>2, <3>3, <3>4, <3>5, StreamInvQuiet
  <2> QED BY <1>1, <2>1, <2>2 DEF Top
<1>2. CASE Connect(w)
  <2>1. /\ task[w] = "connect" /\ task' = [task EXCEPT ![w] = "loop"]
        /\ open' = [open EXCEPT ![w] = ~BornClosed]
        /\ UNCHANGED <<registry, snapshot, answer, stream, fresh, aligned>>
    BY <1>2 DEF Connect, GoTask
  <2>2. stream[w] = <<>> /\ ~open[w] /\ ~fresh[w] /\ aligned # w
    BY <2>1 DEF NoStream, FreshIsFed, AlignedIsFed
  <2>3. Current(registry, stream[w])
    BY <2>2 DEF Current
  <2> QED BY <2>1, <2>2, <2>3 DEF NoStream, FedIsCurrent, FreshIsFed, AnswerSettled, AlignedIsFed,
             CaughtUp, TypeOK
<1>3. CASE ConnectErr(w) \/ BackoffEnd(w) \/ Tick(w) \/ TaskListErr(w)
  <2>1. \E to \in TaskStates \ {"reset"} :
          /\ task' = [task EXCEPT ![w] = to]
          /\ to \in {"none", "top", "connect", "backoff", "done"}
                => task[w] \in {"connect", "backoff"}
          /\ aligned = w => to \in {"loop", "list"}
    BY <1>3 DEF ConnectErr, BackoffEnd, Tick, TaskListErr, GoTask, TaskStates, AlignedIsFed
  <2>2. UNCHANGED <<registry, snapshot, answer, stream, open, fresh, aligned>>
    BY <1>3 DEF ConnectErr, BackoffEnd, Tick, TaskListErr
  <2> QED BY <2>1, <2>2, StreamInvQuiet DEF NoStream, AlignedIsFed, TypeOK
<1>4. CASE LoopCancelled(w) \/ StreamEnd(w)
  BY <1>4, StreamInvLeave DEF LoopCancelled, StreamEnd, GoTask
<1>5. CASE TaskEvent(w)
  <2>1. /\ task[w] = "loop" /\ stream[w] # <<>> /\ stream[w] \in Seq(Events)
        /\ stream' = [stream EXCEPT ![w] = Tail(stream[w])]
        /\ snapshot' = Apply(snapshot, Head(stream[w]))
        /\ aligned' = IF aligned = w THEN w ELSE None
        /\ UNCHANGED <<registry, task, answer, open, fresh>>
    BY <1>5 DEF TaskEvent, TypeOK
  <2>2. registry \in Lists
    BY DEF TypeOK
  <2>3. open[w] => Current(registry, Tail(stream[w]))
    BY <2>1, <2>2, SettledTail DEF FedIsCurrent
  <2>4. aligned = w => Settled(registry, snapshot', Tail(stream[w]))
    BY <2>1, <2>2, SettledTail DEF CaughtUp, Settled
  <2>5. CaughtUp' /\ AlignedIsFed'
    BY <2>1, <2>4 DEF CaughtUp, AlignedIsFed, TypeOK
  <2>6. FedIsCurrent'
    BY <2>1, <2>3 DEF FedIsCurrent, TypeOK
  <2>7. NoStream' /\ FreshIsFed' /\ AnswerSettled'
    BY <2>1 DEF NoStream, FreshIsFed, AnswerSettled, TypeOK
  <2> QED BY <2>5, <2>6, <2>7
<1>6. CASE TaskListOk(w)
  <2>1. /\ task[w] = "list" /\ task' = [task EXCEPT ![w] = "reset"]
        /\ answer' = [answer EXCEPT ![w] = registry]
        /\ fresh' = [fresh EXCEPT ![w] = open[w]]
        /\ UNCHANGED <<registry, snapshot, stream, open, aligned>>
    BY <1>6 DEF TaskListOk, GoTask
  <2>2. open[w] => Settled(registry, registry, stream[w])
    BY DEF FedIsCurrent, Settled, Untouched, TypeOK
  <2>3. AnswerSettled'
    BY <2>1, <2>2 DEF AnswerSettled, TypeOK
  <2> QED BY <2>1, <2>3 DEF NoStream, FedIsCurrent, FreshIsFed, AlignedIsFed, CaughtUp, TypeOK
<1>7. CASE TaskListBlank(w)
  <2>1. /\ task[w] = "list" /\ task' = [task EXCEPT ![w] = "reset"]
        /\ answer' = [answer EXCEPT ![w] = Empty]
        /\ fresh' = [fresh EXCEPT ![w] = FALSE]
        /\ UNCHANGED <<registry, snapshot, stream, open, aligned>>
    BY <1>7 DEF TaskListBlank, GoTask
  <2> QED BY <2>1 DEF NoStream, FedIsCurrent, FreshIsFed, AnswerSettled, AlignedIsFed, CaughtUp,
             TypeOK
<1>8. CASE Reset(w)
  <2>1. /\ task[w] = "reset" /\ task' = [task EXCEPT ![w] = "loop"]
        /\ snapshot' = answer[w]
        /\ aligned' = IF fresh[w] THEN w ELSE None
        /\ UNCHANGED <<registry, answer, stream, open, fresh>>
    BY <1>8 DEF Reset, GoTask
  <2>2. CaughtUp' /\ AlignedIsFed'
    BY <2>1 DEF CaughtUp, AlignedIsFed, AnswerSettled, FreshIsFed, TypeOK
  <2> QED BY <2>1, <2>2 DEF NoStream, FedIsCurrent, FreshIsFed, AnswerSettled, TypeOK
<1> QED
  BY <1>1, <1>2, <1>3, <1>4, <1>5, <1>6, <1>7, <1>8 DEF TaskStep, Answered, Select

LEMMA StreamInvStep ==
    ASSUME StreamInv, TypeOK', CallOfTask', [Next]_vars
    PROVE  StreamInv'
<1> USE DEF StreamInv, regVars, callVars, taskVars, joinVars
<1>1. ASSUME NEW c \in Calls, WatchOk(c) PROVE StreamInv'
  <2>1. /\ call[c] = "watch" /\ task' = [task EXCEPT ![c] = "first"]
        /\ open' = [open EXCEPT ![c] = ~BornClosed]
        /\ UNCHANGED <<registry, snapshot, answer, stream, fresh, aligned>>
    BY <1>1 DEF WatchOk, GoCall
  <2>2. task[c] = "none"
    BY <2>1 DEF CallOfTask, TypeOK
  <2>3. stream[c] = <<>> /\ ~open[c] /\ ~fresh[c] /\ aligned # c
    BY <2>2 DEF NoStream, FreshIsFed, AlignedIsFed
  <2>4. Current(registry, stream[c])
    BY <2>3 DEF Current
  <2> QED BY <2>1, <2>3, <2>4 DEF NoStream, FedIsCurrent, FreshIsFed, AnswerSettled, AlignedIsFed,
             CaughtUp, TypeOK
<1>2. ASSUME NEW c \in Calls, WatchErr(c) PROVE StreamInv'
  <2>1. /\ call[c] = "watch" /\ task' = [task EXCEPT ![c] = "top"]
        /\ UNCHANGED <<registry, snapshot, answer, stream, open, fresh, aligned>>
    BY <1>2 DEF WatchErr, GoCall
  <2>2. task[c] = "none"
    BY <2>1 DEF CallOfTask, TypeOK
  <2> QED BY <2>1, <2>2 DEF NoStream, FedIsCurrent, FreshIsFed, AnswerSettled, AlignedIsFed,
             CaughtUp, TypeOK
<1>3. ASSUME NEW c \in Calls, Insert(c) PROVE StreamInv'
  BY <1>3, StreamInvQuiet DEF Insert, NoStream, AlignedIsFed
<1>4. CASE \E c \in Calls :
              \/ Start(c) \/ CheckHit(c) \/ CheckMiss(c) \/ ListOk(c) \/ ListFromDisk(c)
              \/ ListErr(c) \/ ListBlank(c) \/ EnsureRunning(c) \/ EnsureNew(c) \/ DropCall(c)
  <2>1. UNCHANGED <<registry, snapshot, task, answer, stream, open, fresh, aligned>>
    BY <1>4 DEF Start, CheckHit, CheckMiss, ListOk, ListFromDisk, ListErr, ListBlank, EnsureRunning,
       EnsureNew, DropCall
  <2> QED BY <2>1, StreamInvQuiet DEF NoStream, AlignedIsFed
<1>5. CASE Unwatch \/ Shutdown
  <2>1. /\ UNCHANGED <<registry, task, answer, stream, open, fresh>>
        /\ aligned' = None \/ (aligned' = aligned /\ snapshot' = snapshot)
    BY <1>5 DEF Unwatch, Shutdown
  <2> QED BY <2>1, StreamInvQuiet DEF NoStream, AlignedIsFed
<1>6. ASSUME NEW w \in Calls, TaskStep(w) PROVE StreamInv'
  BY <1>6, StreamInvTask
<1>7. ASSUME NEW r \in Registers, RegisterNow(r) PROVE StreamInv'
  <2>1. joiner[r].id \in Ids /\ joiner[r].val \in Vals \cup {Absent}
    BY DEF Events, TypeOK
  <2> QED BY <1>7, <2>1, StreamInvPublish DEF RegisterNow
<1>8. ASSUME NEW r \in Registers, RegisterLater(r) \/ RegisterApply(r) PROVE StreamInv'
  <2>1. /\ UNCHANGED <<registry, task, answer, stream, open, fresh>>
        /\ aligned' = None \/ (aligned' = aligned /\ snapshot' = snapshot)
    BY <1>8 DEF RegisterLater, RegisterApply
  <2> QED BY <2>1, StreamInvQuiet DEF NoStream, AlignedIsFed
<1>9. CASE Change
  <2>1. PICK i \in Ids, v \in Vals \cup {Absent} : Publish(i, v)
    BY <1>9 DEF Change
  <2> QED BY <1>9, <2>1, StreamInvPublish DEF Change
<1>10. ASSUME NEW w \in Calls, Break(w) PROVE StreamInv'
  <2>1. /\ open[w] /\ open' = [open EXCEPT ![w] = FALSE]
        /\ fresh' = [fresh EXCEPT ![w] = FALSE]
        /\ aligned' = IF aligned = w THEN None ELSE aligned
        /\ \A x \in Calls : x # w => stream'[x] = stream[x]
        /\ UNCHANGED <<registry, snapshot, task, answer>>
    BY <1>10 DEF Break, TypeOK
  <2> QED BY <2>1 DEF NoStream, FedIsCurrent, FreshIsFed, AnswerSettled, AlignedIsFed, CaughtUp,
             TypeOK
<1>11. ASSUME NEW w \in Calls, Lag(w) PROVE StreamInv'
  <2>1. /\ open[w] /\ stream[w] # <<>> /\ stream[w] \in Seq(Events)
        /\ stream' = [stream EXCEPT ![w] = Tail(stream[w])]
        /\ fresh' = [fresh EXCEPT ![w] = FALSE]
        /\ aligned' = IF aligned = w THEN None ELSE aligned
        /\ UNCHANGED <<registry, snapshot, task, answer, open>>
    BY <1>11 DEF Lag, TypeOK
  <2>2. registry \in Lists
    BY DEF TypeOK
  <2>3. Current(registry, Tail(stream[w]))
    BY <2>1, <2>2, SettledTail DEF FedIsCurrent
  <2> QED BY <2>1, <2>3 DEF NoStream, FedIsCurrent, FreshIsFed, AnswerSettled, AlignedIsFed,
             CaughtUp, TypeOK
<1>12. CASE UNCHANGED vars
  <2>1. UNCHANGED <<registry, snapshot, task, answer, stream, open, fresh, aligned>>
    BY <1>12 DEF vars
  <2> QED BY <2>1, StreamInvQuiet DEF NoStream, AlignedIsFed
<1> QED
  BY <1>1, <1>2, <1>3, <1>4, <1>5, <1>6, <1>7, <1>8, <1>9, <1>10, <1>11, <1>12 DEF Next, CallStep

\* After a Reset from a list, the events still on their way make the snapshot of a task that writes
\* it alone what the registry holds, whatever order the events and the list came in.
THEOREM SnapshotCatchesUp == Spec => []CaughtUp
<1>1. Init => WatchInv /\ StreamInv
  BY WatchInvInit, StreamInvInit
<1>2. WatchInv /\ StreamInv /\ [Next]_vars => (WatchInv /\ StreamInv)'
  BY WatchInvStep, StreamInvStep DEF WatchInv
<1>3. StreamInv => CaughtUp
  BY DEF StreamInv
<1> QED
  BY <1>1, <1>2, <1>3, PTL DEF Spec

\* In particular, once the stream of the task that made the snapshot is drained, the snapshot is
\* the list the registry holds.
COROLLARY DrainedIsCurrent ==
    Spec => [](\A w \in Calls : aligned = w /\ stream[w] = <<>> => snapshot = registry)
<1>1. ASSUME TypeOK, CaughtUp
      PROVE  \A w \in Calls : aligned = w /\ stream[w] = <<>> => snapshot = registry
  <2> SUFFICES ASSUME NEW w \in Calls, aligned = w, stream[w] = <<>>
               PROVE  snapshot = registry
    OBVIOUS
  <2>1. snapshot \in Lists /\ \A i \in Ids : snapshot[i] = registry[i]
    BY <1>1 DEF CaughtUp, Settled, Untouched
  <2> QED BY <1>1, <2>1 DEF TypeOK, Lists
<1> QED
  BY <1>1, TypeCorrect, SnapshotCatchesUp, PTL
=============================================================================
