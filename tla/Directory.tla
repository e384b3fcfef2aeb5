------------------------------ MODULE Directory ------------------------------
(***************************************************************************)
(* ServiceDirectory (src/src/directory.rs) for one service name.            *)
(*                                                                          *)
(* The directory keeps an in-memory snapshot of the instances of a service, *)
(* fed by three kinds of actors that interleave at every await:             *)
(*   - calls of load_or_watch, which list the registry, insert the answer   *)
(*     and start the watch task;                                            *)
(*   - watch tasks (run_watch_loop), which apply the events of a stream and *)
(*     reconcile with a full list once per interval;                        *)
(*   - RegistryService::register, which applies its own instance.           *)
(* unwatch and shutdown cancel the task.  Every map of the code is keyed by *)
(* service name and only shutdown spans names, so one name is modelled.     *)
(*                                                                          *)
(* A call makes at most one cancellation token and spawns at most one watch *)
(* task: both carry the name of the call.                                   *)
(***************************************************************************)
EXTENDS Naturals, Sequences

CONSTANTS
    Ids,          \* instance ids
    Vals,         \* what an instance carries (endpoints, weight, metadata)
    Calls,        \* one-shot calls of load_or_watch
    Registers,    \* one-shot calls of RegistryService::register
    DiskCache,    \* disk_cache_dir is set
    BornClosed,   \* the provider's watch returns a stream that has ended (Nacos, disabled etcd)
    MayDrop,      \* a caller may drop the future of load_or_watch at an await
    MayBlank,     \* list_instances may answer a failure with an empty list (Nacos)
    MaxChanges,   \* bound: changes of the registry, RegistryService::register included
    MaxLosses,    \* bound: broken streams, overrun buffers and failures that look like answers
    Absent,       \* an id that is not in a list
    None          \* no list, no token, no holder

ASSUME NamesAssumption ==
    Absent \notin Vals /\ None \notin Calls /\ None \notin [Ids -> Vals \cup {Absent}]
ASSUME SwitchAssumption == {DiskCache, BornClosed, MayDrop, MayBlank} \subseteq BOOLEAN
ASSUME BoundAssumption == MaxChanges \in Nat /\ MaxLosses \in Nat

VARIABLES
    registry,     \* what the registry holds
    changes,      \* changes of the registry so far
    losses,       \* broken streams, overrun buffers and hidden failures so far
    snapshot,     \* snapshots[service], or None
    active,       \* the token in active_watches[service], or None
    lock,         \* the call that holds the lock of active_watches across an await, or None
    call,         \* where each call of load_or_watch stands
    held,         \* the list a call carries: the snapshot it read, then the list it will insert
    task,         \* where each watch task stands
    cancelled,    \* tokens that have been cancelled
    answer,       \* the list a watch task carries from list_instances to Reset
    stream,       \* events a task's stream has yet to deliver
    open,         \* the stream is still fed; once it is not, it ends when it is drained
    joining,      \* where each RegistryService::register stands
    joiner,       \* the instance it registers
    persisted,    \* lists handed to persist_to_disk, in this life of the process or an earlier one
    \* History, read by no guard:
    fresh,        \* the task's stream has missed nothing since the task's last list
    aligned       \* the task whose Reset and later events alone made the snapshot, or None

callVars  == <<call, held>>
taskVars  == <<task, cancelled, answer, stream, open>>
joinVars  == <<joining, joiner>>
regVars   == <<registry, changes, losses>>
vars == <<regVars, snapshot, active, lock, callVars, taskVars, joinVars, persisted,
          fresh, aligned>>

Lists  == [Ids -> Vals \cup {Absent}]
Events == [id : Ids, val : Vals \cup {Absent}]     \* Absent: Delete; otherwise Upsert
Empty  == [i \in Ids |-> Absent]

CallStates == {"idle", "check", "list", "insert", "ensure", "watch", "ok", "err", "dropped"}
TaskStates == {"none", "first", "top", "connect", "backoff", "loop", "list", "reset", "done"}
JoinStates == {"idle", "apply", "done"}

TypeOK ==
    /\ registry \in Lists
    /\ changes \in 0..MaxChanges
    /\ losses \in 0..MaxLosses
    /\ snapshot \in Lists \cup {None}
    /\ active \in Calls \cup {None}
    /\ lock \in Calls \cup {None}
    /\ call \in [Calls -> CallStates]
    /\ held \in [Calls -> Lists \cup {None}]
    /\ task \in [Calls -> TaskStates]
    /\ cancelled \in [Calls -> BOOLEAN]
    /\ answer \in [Calls -> Lists]
    /\ stream \in [Calls -> Seq(Events)]
    /\ open \in [Calls -> BOOLEAN]
    /\ joining \in [Registers -> JoinStates]
    /\ joiner \in [Registers -> Events]
    /\ persisted \in SUBSET Lists
    /\ fresh \in [Calls -> BOOLEAN]
    /\ aligned \in Calls \cup {None}

Init ==
    /\ registry \in Lists
    /\ changes = 0 /\ losses = 0
    /\ snapshot = None
    /\ active = None /\ lock = None
    /\ call = [c \in Calls |-> "idle"]
    /\ held = [c \in Calls |-> None]
    /\ task = [w \in Calls |-> "none"]
    /\ cancelled = [w \in Calls |-> FALSE]
    /\ answer = [w \in Calls |-> Empty]
    /\ stream = [w \in Calls |-> <<>>]
    /\ open = [w \in Calls |-> FALSE]
    /\ joining = [r \in Registers |-> "idle"]
    /\ joiner \in [Registers -> {[id |-> i, val |-> v] : i \in Ids, v \in Vals}]
    /\ persisted \in {{}} \cup {{l} : l \in IF DiskCache THEN Lists ELSE {}}
    /\ fresh = [w \in Calls |-> FALSE]
    /\ aligned = None

-----------------------------------------------------------------------------
(* The parts the actions share. *)

\* Mutant of Apply: a deleted instance leaves a tombstone that is no value.
ApplyTombstone(list, e) ==
    [(IF list = None THEN Empty ELSE list) EXCEPT ![e.id] = IF e.val = Absent THEN None ELSE e.val]

\* Mutant of Apply: Delete is ignored.
ApplyUpsertOnly(list, e) ==
    IF e.val = Absent /\ list # None
    THEN list
    ELSE [(IF list = None THEN Empty ELSE list) EXCEPT ![e.id] = e.val]

\* The list part of apply_event for Upsert and Delete; a missing snapshot counts as empty.
Apply(list, e) == [(IF list = None THEN Empty ELSE list) EXCEPT ![e.id] = e.val]

\* persist_to_disk: what a later load_from_disk may find.
Persist(list) == persisted' = IF DiskCache THEN persisted \cup {list} ELSE persisted

\* The registry takes value v for id i and tells every open stream.
Publish(i, v) ==
    /\ changes < MaxChanges
    /\ changes' = changes + 1
    /\ registry' = [registry EXCEPT ![i] = v]
    /\ stream' = [w \in Calls |->
                    IF open[w] THEN Append(stream[w], [id |-> i, val |-> v]) ELSE stream[w]]

\* A task that leaves its select loop drops its stream.
LeaveStream(w) ==
    /\ stream' = [stream EXCEPT ![w] = <<>>]
    /\ open' = [open EXCEPT ![w] = FALSE]
    /\ fresh' = [fresh EXCEPT ![w] = FALSE]
    /\ aligned' = IF aligned = w THEN None ELSE aligned

-----------------------------------------------------------------------------
(* load_or_watch and ensure_watcher_started. *)

GoCall(c, from, to) == call[c] = from /\ call' = [call EXCEPT ![c] = to]

\* load_or_watch reads the snapshot; the lock of active_watches is asked for next.
Start(c) ==
    /\ GoCall(c, "idle", "check")
    /\ held' = [held EXCEPT ![c] = snapshot]
    /\ UNCHANGED <<regVars, snapshot, active, lock, taskVars, joinVars, persisted, fresh, aligned>>

\* A snapshot was there and a watcher is: return the snapshot as it was read.
CheckHit(c) ==
    /\ GoCall(c, "check", "ok")
    /\ lock = None /\ held[c] # None /\ active # None
    /\ UNCHANGED <<regVars, snapshot, active, lock, held, taskVars, joinVars, persisted, fresh,
                   aligned>>

CheckMiss(c) ==
    /\ GoCall(c, "check", "list")
    /\ lock = None /\ (held[c] = None \/ active = None)
    /\ UNCHANGED <<regVars, snapshot, active, lock, held, taskVars, joinVars, persisted, fresh,
                   aligned>>

\* list_instances answers; the answer is handed to persist_to_disk.
ListOk(c) ==
    /\ GoCall(c, "list", "insert")
    /\ held' = [held EXCEPT ![c] = registry]
    /\ Persist(registry)
    /\ UNCHANGED <<regVars, snapshot, active, lock, taskVars, joinVars, fresh, aligned>>

\* list_instances fails and the disk holds a snapshot, not always the last one persisted.
ListFromDisk(c) ==
    /\ GoCall(c, "list", "insert")
    /\ \E list \in persisted : held' = [held EXCEPT ![c] = list]
    /\ UNCHANGED <<regVars, snapshot, active, lock, taskVars, joinVars, persisted, fresh, aligned>>

\* list_instances fails and the disk holds nothing that can be read.
ListErr(c) ==
    /\ GoCall(c, "list", "err")
    /\ UNCHANGED <<regVars, snapshot, active, lock, held, taskVars, joinVars, persisted, fresh,
                   aligned>>

\* list_instances fails and says that there is nothing: the disk is not asked, it is overwritten.
ListBlank(c) ==
    /\ MayBlank /\ losses < MaxLosses
    /\ GoCall(c, "list", "insert")
    /\ losses' = losses + 1
    /\ held' = [held EXCEPT ![c] = Empty]
    /\ Persist(Empty)
    /\ UNCHANGED <<registry, changes, snapshot, active, lock, taskVars, joinVars, fresh, aligned>>

\* The insert into the snapshot, whatever was written to it since the list was taken.
Insert(c) ==
    /\ GoCall(c, "insert", "ensure")
    /\ snapshot' = held[c]
    /\ aligned' = None
    /\ UNCHANGED <<regVars, active, lock, held, taskVars, joinVars, persisted, fresh>>

\* Mutant of EnsureRunning: the call trusts an earlier look at active_watches.
EnsureRunningUnchecked(c) ==
    /\ GoCall(c, "ensure", "ok")
    /\ lock = None
    /\ UNCHANGED <<regVars, snapshot, active, lock, held, taskVars, joinVars, persisted, fresh,
                   aligned>>

\* Mutant of EnsureNew: no recheck under the lock.
EnsureNewUnchecked(c) ==
    /\ GoCall(c, "ensure", "watch")
    /\ lock = None
    /\ active' = c /\ lock' = c
    /\ UNCHANGED <<regVars, snapshot, held, taskVars, joinVars, persisted, fresh, aligned>>

\* ensure_watcher_started, lock taken: a token is there.
EnsureRunning(c) ==
    /\ GoCall(c, "ensure", "ok")
    /\ lock = None /\ active # None
    /\ UNCHANGED <<regVars, snapshot, active, lock, held, taskVars, joinVars, persisted, fresh,
                   aligned>>

\* No token is there: insert one and keep the lock while the first subscription is awaited.
EnsureNew(c) ==
    /\ GoCall(c, "ensure", "watch")
    /\ lock = None /\ active = None
    /\ active' = c /\ lock' = c
    /\ UNCHANGED <<regVars, snapshot, held, taskVars, joinVars, persisted, fresh, aligned>>

\* The first subscription is made; the task is spawned with its stream and the lock released.
WatchOk(c) ==
    /\ GoCall(c, "watch", "ok")
    /\ lock' = None
    /\ task' = [task EXCEPT ![c] = "first"]
    /\ open' = [open EXCEPT ![c] = ~BornClosed]
    /\ UNCHANGED <<regVars, snapshot, active, held, cancelled, answer, stream, joinVars,
                   persisted, fresh, aligned>>

\* Mutant of WatchErr: the error path leaves the lock taken.
WatchErrLocked(c) ==
    /\ GoCall(c, "watch", "ok")
    /\ task' = [task EXCEPT ![c] = "top"]
    /\ UNCHANGED <<regVars, snapshot, active, lock, held, cancelled, answer, stream, open, joinVars,
                   persisted, fresh, aligned>>

\* The first subscription fails; the task is spawned without a stream.
WatchErr(c) ==
    /\ GoCall(c, "watch", "ok")
    /\ lock' = None
    /\ task' = [task EXCEPT ![c] = "top"]
    /\ UNCHANGED <<regVars, snapshot, active, held, cancelled, answer, stream, open, joinVars,
                   persisted, fresh, aligned>>

\* The caller drops the future at one of its awaits: the lock goes, an inserted token stays.
DropCall(c) ==
    /\ MayDrop
    /\ \E from \in {"check", "list", "ensure", "watch"} : GoCall(c, from, "dropped")
    /\ lock' = IF lock = c THEN None ELSE lock
    /\ UNCHANGED <<regVars, snapshot, active, held, taskVars, joinVars, persisted, fresh, aligned>>

-----------------------------------------------------------------------------
(* unwatch and shutdown. *)

Unwatch ==
    /\ lock = None /\ active # None
    /\ active' = None
    /\ cancelled' = [cancelled EXCEPT ![active] = TRUE]
    /\ UNCHANGED <<regVars, snapshot, lock, callVars, task, answer, stream, open, joinVars,
                   persisted, fresh, aligned>>

\* The guard leaves out the calls that find nothing to do.
Shutdown ==
    /\ lock = None
    /\ active # None \/ snapshot # None
    /\ active' = None
    /\ cancelled' = [w \in Calls |-> cancelled[w] \/ w = active]
    /\ snapshot' = None
    /\ aligned' = None
    /\ UNCHANGED <<regVars, lock, callVars, task, answer, stream, open, joinVars, persisted, fresh>>

-----------------------------------------------------------------------------
(* run_watch_loop of the task w. *)

GoTask(w, from, to) == task[w] = from /\ task' = [task EXCEPT ![w] = to]

\* while !cancelled: stop, enter the loop with the first stream, or go and connect.
Top(w) ==
    /\ \/ cancelled[w] /\ GoTask(w, "first", "done") /\ LeaveStream(w)
       \/ cancelled[w] /\ GoTask(w, "top", "done") /\ UNCHANGED <<stream, open, fresh, aligned>>
       \/ /\ ~cancelled[w]
          /\ GoTask(w, "first", "loop") \/ GoTask(w, "top", "connect")
          /\ UNCHANGED <<stream, open, fresh, aligned>>
    /\ UNCHANGED <<regVars, snapshot, active, lock, callVars, cancelled, answer, joinVars, persisted>>

\* A new stream: it carries what happens from now on, and nothing is listed.
Connect(w) ==
    /\ GoTask(w, "connect", "loop")
    /\ open' = [open EXCEPT ![w] = ~BornClosed]
    /\ UNCHANGED <<regVars, snapshot, active, lock, callVars, cancelled, answer, stream,
                   joinVars, persisted, fresh, aligned>>

\* Mutant of ConnectErr: the task gives up.
ConnectErrGivesUp(w) ==
    /\ GoTask(w, "connect", "done")
    /\ UNCHANGED <<regVars, snapshot, active, lock, callVars, cancelled, answer, stream, open,
                   joinVars, persisted, fresh, aligned>>

\* The subscription fails, or the backoff ends: asleep, or back to the top of the loop.
ConnectErr(w) ==
    /\ GoTask(w, "connect", "backoff")
    /\ UNCHANGED <<regVars, snapshot, active, lock, callVars, cancelled, answer, stream, open,
                   joinVars, persisted, fresh, aligned>>

BackoffEnd(w) ==
    /\ \/ GoTask(w, "backoff", "top")
       \/ cancelled[w] /\ GoTask(w, "backoff", "done")
    /\ UNCHANGED <<regVars, snapshot, active, lock, callVars, cancelled, answer, stream, open,
                   joinVars, persisted, fresh, aligned>>

\* Mutants of LoopCancelled and Tick: the select has no such arm.
LoopDeaf(w) == FALSE
TickNever(w) == FALSE

\* The three arms of the select.  An arm that is ready may be taken whatever the others are.
LoopCancelled(w) ==
    /\ cancelled[w]
    /\ GoTask(w, "loop", "done")
    /\ LeaveStream(w)
    /\ UNCHANGED <<regVars, snapshot, active, lock, callVars, cancelled, answer, joinVars, persisted>>

Tick(w) ==
    /\ GoTask(w, "loop", "list")
    /\ UNCHANGED <<regVars, snapshot, active, lock, callVars, cancelled, answer, stream, open,
                   joinVars, persisted, fresh, aligned>>

TaskEvent(w) ==
    /\ task[w] = "loop" /\ stream[w] # <<>>
    /\ snapshot' = Apply(snapshot, Head(stream[w]))
    /\ Persist(Apply(snapshot, Head(stream[w])))
    /\ stream' = [stream EXCEPT ![w] = Tail(@)]
    /\ aligned' = IF aligned = w THEN w ELSE None
    /\ UNCHANGED <<regVars, active, lock, callVars, task, cancelled, answer, open, joinVars, fresh>>

\* The stream ends: break, and reconnect from the top.
StreamEnd(w) ==
    /\ GoTask(w, "loop", "top")
    /\ stream[w] = <<>> /\ ~open[w]
    /\ LeaveStream(w)
    /\ UNCHANGED <<regVars, snapshot, active, lock, callVars, cancelled, answer, joinVars, persisted>>

\* In the arm of the tick: list, then Reset.  No other arm is polled meanwhile.
TaskListOk(w) ==
    /\ GoTask(w, "list", "reset")
    /\ answer' = [answer EXCEPT ![w] = registry]
    /\ fresh' = [fresh EXCEPT ![w] = open[w]]
    /\ UNCHANGED <<regVars, snapshot, active, lock, callVars, cancelled, stream, open, joinVars,
                   persisted, aligned>>

TaskListErr(w) ==
    /\ GoTask(w, "list", "loop")
    /\ UNCHANGED <<regVars, snapshot, active, lock, callVars, cancelled, answer, stream, open,
                   joinVars, persisted, fresh, aligned>>

\* The list fails and looks like an answer: the Reset will empty the snapshot.
TaskListBlank(w) ==
    /\ MayBlank /\ losses < MaxLosses
    /\ GoTask(w, "list", "reset")
    /\ losses' = losses + 1
    /\ answer' = [answer EXCEPT ![w] = Empty]
    /\ fresh' = [fresh EXCEPT ![w] = FALSE]
    /\ UNCHANGED <<registry, changes, snapshot, active, lock, callVars, cancelled, stream, open,
                   joinVars, persisted, aligned>>

Reset(w) ==
    /\ GoTask(w, "reset", "loop")
    /\ snapshot' = answer[w]
    /\ Persist(answer[w])
    /\ aligned' = IF fresh[w] THEN w ELSE None
    /\ UNCHANGED <<regVars, active, lock, callVars, cancelled, answer, stream, open, joinVars, fresh>>

-----------------------------------------------------------------------------
(* RegistryService::register: the provider, then apply_event with its own instance. *)

\* The provider accepts: its registry holds the instance (nacos.rs, local.rs) ...
RegisterNow(r) ==
    /\ joining[r] = "idle"
    /\ joining' = [joining EXCEPT ![r] = "apply"]
    /\ Publish(joiner[r].id, joiner[r].val)
    /\ UNCHANGED <<losses, snapshot, active, lock, callVars, task, cancelled, answer, open,
                   joiner, persisted, fresh, aligned>>

\* ... or a task will put it there later (etcd.rs): that is a Change, if it comes.
RegisterLater(r) ==
    /\ joining[r] = "idle"
    /\ joining' = [joining EXCEPT ![r] = "apply"]
    /\ UNCHANGED <<regVars, snapshot, active, lock, callVars, taskVars, joiner, persisted, fresh,
                   aligned>>

RegisterApply(r) ==
    /\ joining[r] = "apply"
    /\ joining' = [joining EXCEPT ![r] = "done"]
    /\ snapshot' = Apply(snapshot, joiner[r])
    /\ Persist(Apply(snapshot, joiner[r]))
    /\ aligned' = None
    /\ UNCHANGED <<regVars, active, lock, callVars, taskVars, joiner, fresh>>

-----------------------------------------------------------------------------
(* The registry and the network. *)

\* Somebody registers, updates or removes an instance.
Change ==
    /\ \E i \in Ids, v \in Vals \cup {Absent} : v # registry[i] /\ Publish(i, v)
    /\ UNCHANGED <<losses, snapshot, active, lock, callVars, task, cancelled, answer, open,
                   joinVars, persisted, fresh, aligned>>

\* What a stream has yet to deliver is cut short: the connection breaks after n events ...
Break(w) ==
    /\ open[w] /\ losses < MaxLosses
    /\ losses' = losses + 1
    /\ open' = [open EXCEPT ![w] = FALSE]
    /\ \E n \in 0..Len(stream[w]) : stream' = [stream EXCEPT ![w] = SubSeq(@, 1, n)]
    /\ fresh' = [fresh EXCEPT ![w] = FALSE]
    /\ aligned' = IF aligned = w THEN None ELSE aligned
    /\ UNCHANGED <<registry, changes, snapshot, active, lock, callVars, task, cancelled, answer,
                   joinVars, persisted>>

\* ... or the reader lags behind a bounded buffer and the oldest event goes (local.rs).
Lag(w) ==
    /\ open[w] /\ losses < MaxLosses
    /\ stream[w] # <<>>
    /\ losses' = losses + 1
    /\ stream' = [stream EXCEPT ![w] = Tail(@)]
    /\ fresh' = [fresh EXCEPT ![w] = FALSE]
    /\ aligned' = IF aligned = w THEN None ELSE aligned
    /\ UNCHANGED <<registry, changes, snapshot, active, lock, callVars, task, cancelled, answer,
                   open, joinVars, persisted>>

-----------------------------------------------------------------------------
CallStep(c) ==
    \/ CheckHit(c) \/ CheckMiss(c)
    \/ ListOk(c) \/ ListFromDisk(c) \/ ListErr(c) \/ ListBlank(c)
    \/ Insert(c)
    \/ EnsureRunning(c) \/ EnsureNew(c)
    \/ WatchOk(c) \/ WatchErr(c)

Select(w)   == LoopCancelled(w) \/ TaskEvent(w) \/ StreamEnd(w)
Answered(w) == Connect(w) \/ TaskListOk(w)

TaskStep(w) ==
    \/ Top(w) \/ Answered(w) \/ ConnectErr(w) \/ BackoffEnd(w)
    \/ Select(w) \/ Tick(w) \/ TaskListErr(w) \/ TaskListBlank(w) \/ Reset(w)

Next ==
    \/ \E c \in Calls : Start(c) \/ CallStep(c) \/ DropCall(c)
    \/ Unwatch \/ Shutdown
    \/ \E w \in Calls : TaskStep(w)
    \/ \E r \in Registers : RegisterNow(r) \/ RegisterLater(r) \/ RegisterApply(r)
    \/ Change
    \/ \E w \in Calls : Break(w) \/ Lag(w)

Spec == Init /\ [][Next]_vars

(***************************************************************************)
(* Fairness.  The runtime polls what is ready: a call, a task or a register *)
(* that can step does.  tokio::select! picks at random among its ready arms,*)
(* so an arm that is ready time after time is taken (the tick is ready only *)
(* once its interval has elapsed, and is left out).  The registry does not  *)
(* fail every request of a task for ever.  Nothing is assumed of new calls, *)
(* of unwatch and shutdown, of changes and of losses.                       *)
(***************************************************************************)
Fairness ==
    /\ \A c \in Calls : WF_vars(CallStep(c))
    /\ \A r \in Registers : WF_vars(RegisterApply(r))
    /\ \A w \in Calls : WF_vars(TaskStep(w)) /\ SF_vars(Select(w)) /\ SF_vars(Answered(w))

LiveSpec == Spec /\ Fairness

-----------------------------------------------------------------------------
(* Properties. *)

Running(w) == task[w] \notin {"none", "done"}

\* unwatch and shutdown can reach every task that nobody has cancelled: no watch task goes on
\* without its token in active_watches, and so no two uncancelled tasks feed one snapshot,
\* however the calls race (directory.rs:170-187, the recheck under the lock).
SoleWatcher == \A w \in Calls : Running(w) /\ ~cancelled[w] => active = w

\* A token in active_watches stands for a running task, or for one about to be spawned by the
\* call that holds the lock (ensure_watcher_started: directory.rs:168-187).
WatchedIsRunning ==
    active # None => \/ Running(active)
                     \/ lock = active /\ call[active] = "watch"

\* A call that returns Ok leaves the service watched at that moment, however it raced with other
\* calls, with unwatch and with shutdown (directory.rs:123-163).
OkMeansWatched ==
    [][\A c \in Calls : call[c] # "ok" /\ call'[c] = "ok" => active' # None]_vars

\* s holds the last word of the registry on every id it mentions.
Current(reg, s) ==
    \A k \in DOMAIN s :
        (\A m \in DOMAIN s : m > k => s[m].id # s[k].id) => s[k].val = reg[s[k].id]

\* list is right on every id that s does not mention.
Untouched(reg, list, s) ==
    \A i \in Ids : (\A k \in DOMAIN s : s[k].id # i) => list[i] = reg[i]

Settled(reg, list, s) == list \in Lists /\ Current(reg, s) /\ Untouched(reg, list, s)

\* Once one task has reset the snapshot from a list, and as long as it alone writes it and its
\* stream misses nothing, the snapshot is what the registry holds up to the events still on
\* their way: the events queued before the list, which Reset overtakes and which are applied
\* after it, do no lasting harm (directory.rs:225-247, 253-289).
CaughtUp == \A w \in Calls : aligned = w => Settled(registry, snapshot, stream[w])

\* Every cancelled task ends, wherever the cancellation finds it (directory.rs:199, 207-209,
\* 226-229).  Tasks are as many as calls, so in the end none is left.
CancelledTaskEnds == <>[](\A w \in Calls : cancelled[w] => ~Running(w))

\* Every call of load_or_watch returns: nobody waits for ever for the lock that is held across
\* the first subscription (directory.rs:126, 170-179).
CallReturns == <>[](\A c \in Calls : call[c] \in {"idle", "ok", "err", "dropped"})

\* While a service stays watched its snapshot comes to equal the registry and stays so, whatever
\* was lost, overtaken or overwritten before: the periodic reconcile repairs it
\* (directory.rs:19, 230-235).
Converges == <>[](active # None) => <>[](snapshot = registry)

\* shutdown clears the snapshots: no snapshot comes back before somebody calls the directory
\* again (directory.rs:312, 313-319).
NobodyCalls ==
    /\ \A c \in Calls : call[c] \in {"idle", "ok", "err", "dropped"}
    /\ \A r \in Registers : joining[r] # "apply"
ShutdownStaysEmpty ==
    [][active = None /\ snapshot = None /\ NobodyCalls /\ NobodyCalls' => snapshot' = None]_vars
=============================================================================
