-------------------------- MODULE EtcdRegistration ---------------------------
(***************************************************************************)
(* EtcdRegistry::register, its heartbeat task and EtcdRegistry::deregister  *)
(* (src/src/provider/etcd.rs:98-306) for one instance and its key.          *)
(*                                                                          *)
(* register cancels the heartbeat task of the register before it and spawns *)
(* a new one.  A task asks for a lease, writes the key under it, notes both *)
(* in registered_key and lease_id, and keeps the lease alive; when that     *)
(* fails it starts over.  deregister cancels the task, takes what was noted *)
(* and deletes it.  The tasks of several registers and a deregister         *)
(* interleave at every await, and etcd drops a lease nobody renews together *)
(* with the key under it.  etcd is external and modelled from what the code *)
(* asks of it.                                                              *)
(***************************************************************************)
EXTENDS Naturals, FiniteSets

CONSTANTS
    MaxRegisters, \* bound: calls of register; the token and the task of the nth are named n
    Leases,       \* lease ids; one that everybody has forgotten may be granted again
    Racing,       \* two calls of register may be in progress at a time
    MaxDeregs,    \* bound: calls of deregister
    MaxStalls,    \* bound: leases that run out although a task renews them (a stalled process)
    None

Tasks == 1..MaxRegisters

ASSUME EtcdAssumption ==
    /\ MaxRegisters \in Nat
    /\ None \notin Nat \cup Leases
    /\ Racing \in BOOLEAN
    /\ MaxDeregs \in Nat /\ MaxStalls \in Nat

VARIABLES
    \* etcd
    alive,        \* the leases that exist
    key,          \* the lease the instance's key is written under, or None
    \* EtcdRegistry
    token,        \* cancel_token
    noted,        \* registered_key is Some
    leaseId,      \* lease_id
    \* the tasks
    task,         \* where each call of register, then its task, stands
    cancelled,    \* tokens that have been cancelled
    lease,        \* the lease of a task's present round, or None
    \* deregister
    dereg,        \* where it stands; "idle" between calls
    delKey,       \* it took a key to delete
    delLease,     \* the lease it took, or None
    deregs,       \* calls of deregister so far
    stalls,       \* leases that ran out under a task that renews them, so far
    \* History, read by no guard:
    crossed       \* a cancelled task wrote the key, or a deregister deleted under a new token

etcdVars  == <<alive, key>>
notedVars == <<noted, leaseId>>
deregVars == <<dereg, delKey, delLease, deregs>>
vars == <<etcdVars, token, notedVars, task, cancelled, lease, deregVars, stalls, crossed>>

TaskStates == {"idle", "swap", "top", "grant", "put", "key", "lease", "keep", "beat", "pause",
               "done"}

TypeOK ==
    /\ alive \in SUBSET Leases
    /\ key \in Leases \cup {None}
    /\ token \in Tasks \cup {None}
    /\ noted \in BOOLEAN
    /\ leaseId \in Leases \cup {None}
    /\ task \in [Tasks -> TaskStates]
    /\ cancelled \in [Tasks -> BOOLEAN]
    /\ lease \in [Tasks -> Leases \cup {None}]
    /\ dereg \in {"idle", "key", "lease", "delete", "revoke"}
    /\ delKey \in BOOLEAN
    /\ delLease \in Leases \cup {None}
    /\ deregs \in 0..MaxDeregs
    /\ stalls \in 0..MaxStalls
    /\ crossed \in BOOLEAN

Init ==
    /\ alive = {} /\ key = None
    /\ token = None
    /\ noted = FALSE /\ leaseId = None
    /\ task = [t \in Tasks |-> "idle"]
    /\ cancelled = [t \in Tasks |-> FALSE]
    /\ lease = [t \in Tasks |-> None]
    /\ dereg = "idle" /\ delKey = FALSE /\ delLease = None
    /\ deregs = 0 /\ stalls = 0
    /\ crossed = FALSE

Go(t, from, to) == task[t] = from /\ task' = [task EXCEPT ![t] = to]

\* A task ends its round: it forgets the lease and sleeps.
GiveUp(t, from) == Go(t, from, "pause") /\ lease' = [lease EXCEPT ![t] = None]

\* cancel_token.take(), and the cancellation of what was there.
TakeToken ==
    /\ cancelled' = [t \in Tasks |-> cancelled[t] \/ t = token]
    /\ token' = None

-----------------------------------------------------------------------------
(* register: the old token is taken under one lock, the new one put under another. *)

\* Mutant of RegisterBegin: the heartbeat of the register before goes on.
RegisterBeginKeeps(t) ==
    /\ \A u \in Tasks : u < t => task[u] # "idle"
    /\ Racing \/ \A u \in Tasks : task[u] # "swap"
    /\ Go(t, "idle", "swap")
    /\ token' = None
    /\ UNCHANGED <<etcdVars, notedVars, cancelled, lease, deregVars, stalls, crossed>>

\* Calls begin in the order of their numbers.
RegisterBegin(t) ==
    /\ \A u \in Tasks : u < t => task[u] # "idle"
    /\ Racing \/ \A u \in Tasks : task[u] # "swap"
    /\ Go(t, "idle", "swap")
    /\ TakeToken
    /\ UNCHANGED <<etcdVars, notedVars, lease, deregVars, stalls, crossed>>

RegisterSpawn(t) ==
    /\ Go(t, "swap", "top")
    /\ token' = t
    /\ UNCHANGED <<etcdVars, notedVars, cancelled, lease, deregVars, stalls, crossed>>

-----------------------------------------------------------------------------
(* The heartbeat task. *)

\* The top of the loop; connecting is the first part of "grant".
Top(t) ==
    /\ Go(t, "top", IF cancelled[t] THEN "done" ELSE "grant")
    /\ UNCHANGED <<etcdVars, token, notedVars, cancelled, lease, deregVars, stalls, crossed>>

Forgotten(l) ==
    l \notin alive /\ l # key /\ l # leaseId /\ l # delLease /\ \A t \in Tasks : lease[t] # l

\* A new lease, and one name for it is as good as another.
Grant(t) ==
    /\ Go(t, "grant", "put")
    /\ \E l \in Leases : Forgotten(l)
    /\ lease' = [lease EXCEPT ![t] = CHOOSE l \in Leases : Forgotten(l)]
    /\ alive' = alive \cup {lease'[t]}
    /\ UNCHANGED <<key, token, notedVars, cancelled, deregVars, stalls, crossed>>

\* etcd writes the key under the lease, if it still exists ...
Put(t) ==
    /\ lease[t] \in alive
    /\ Go(t, "put", "key")
    /\ key' = lease[t]
    /\ crossed' = (crossed \/ cancelled[t])
    /\ UNCHANGED <<alive, token, notedVars, cancelled, lease, deregVars, stalls>>

\* ... and the reply may be lost: the write counts as failed.
PutUnanswered(t) ==
    /\ lease[t] \in alive
    /\ GiveUp(t, "put")
    /\ key' = lease[t]
    /\ crossed' = (crossed \/ cancelled[t])
    /\ UNCHANGED <<alive, token, notedVars, cancelled, deregVars, stalls>>

\* registered_key and lease_id are written under a lock each.
NoteKey(t) ==
    /\ Go(t, "key", "lease")
    /\ noted' = TRUE
    /\ UNCHANGED <<etcdVars, token, leaseId, cancelled, lease, deregVars, stalls, crossed>>

\* Mutant of NoteLease: something else than the lease is noted.
NoteNumber(t) ==
    /\ Go(t, "lease", "keep")
    /\ leaseId' = t
    /\ UNCHANGED <<etcdVars, token, noted, cancelled, lease, deregVars, stalls, crossed>>

NoteLease(t) ==
    /\ Go(t, "lease", "keep")
    /\ leaseId' = lease[t]
    /\ UNCHANGED <<etcdVars, token, noted, cancelled, lease, deregVars, stalls, crossed>>

\* lease_keep_alive sends a first renewal and fails for a lease that does not exist.
KeepAlive(t) ==
    /\ lease[t] \in alive
    /\ Go(t, "keep", "beat")
    /\ UNCHANGED <<etcdVars, token, notedVars, cancelled, lease, deregVars, stalls, crossed>>

\* Connecting, the grant, the write or the first renewal fails or times out.
Failed(t) ==
    /\ \E from \in {"grant", "put", "keep"} : GiveUp(t, from)
    /\ UNCHANGED <<etcdVars, token, notedVars, cancelled, deregVars, stalls, crossed>>

\* Mutant of BeatBreaks: a broken heartbeat ends the task.
BeatBreaksEnds(t) ==
    /\ Go(t, "beat", "done") /\ lease' = [lease EXCEPT ![t] = None]
    /\ UNCHANGED <<etcdVars, token, notedVars, cancelled, deregVars, stalls, crossed>>

\* In the heartbeat loop a renewal cannot be sent or the stream of replies ends.  A reply that says
\* the lease has gone is a reply like any other: the loop goes on.
BeatBreaks(t) ==
    /\ GiveUp(t, "beat")
    /\ UNCHANGED <<etcdVars, token, notedVars, cancelled, deregVars, stalls, crossed>>

\* Mutant of Cancelled: the heartbeat loop has no arm for it.
CancelledAsleep(t) ==
    /\ cancelled[t]
    /\ Go(t, "pause", "done")
    /\ UNCHANGED <<etcdVars, token, notedVars, cancelled, lease, deregVars, stalls, crossed>>

\* The select of a sleep or of the heartbeat loop sees the cancellation.
Cancelled(t) ==
    /\ cancelled[t]
    /\ Go(t, "pause", "done") \/ Go(t, "beat", "done")
    /\ lease' = [lease EXCEPT ![t] = None]
    /\ UNCHANGED <<etcdVars, token, notedVars, cancelled, deregVars, stalls, crossed>>

\* The sleep is over.
Again(t) ==
    /\ Go(t, "pause", "top")
    /\ UNCHANGED <<etcdVars, token, notedVars, cancelled, lease, deregVars, stalls, crossed>>

-----------------------------------------------------------------------------
(* deregister, one call at a time. *)

Deregister ==
    /\ dereg = "idle" /\ dereg' = "key"
    /\ deregs < MaxDeregs /\ deregs' = deregs + 1
    /\ TakeToken
    /\ UNCHANGED <<etcdVars, notedVars, task, lease, delKey, delLease, stalls, crossed>>

DeregKey ==
    /\ dereg = "key" /\ dereg' = "lease"
    /\ delKey' = noted /\ noted' = FALSE
    /\ UNCHANGED <<etcdVars, token, leaseId, task, cancelled, lease, delLease, deregs, stalls, crossed>>

\* Without a connection nothing is deleted.
DeregLease ==
    /\ dereg = "lease" /\ dereg' \in {"delete", "idle"}
    /\ delLease' = IF dereg' = "idle" THEN None ELSE leaseId
    /\ delKey' = (delKey /\ dereg' = "delete")
    /\ leaseId' = None
    /\ UNCHANGED <<etcdVars, token, noted, task, cancelled, lease, deregs, stalls, crossed>>

\* The delete is made, or fails and the failure is ignored.
DeregDelete ==
    /\ dereg = "delete" /\ dereg' = "revoke"
    /\ key' \in {key} \cup (IF delKey THEN {None} ELSE {})
    /\ delKey' = FALSE
    /\ crossed' = (crossed \/ token # None)
    /\ UNCHANGED <<alive, token, notedVars, task, cancelled, lease, delLease, deregs, stalls>>

\* So is the revocation of the lease, and the key under it goes with it.
DeregRevoke ==
    /\ dereg = "revoke" /\ dereg' = "idle"
    /\ \/ alive' = alive \ {delLease} /\ key' = IF key = delLease THEN None ELSE key
       \/ UNCHANGED etcdVars
    /\ delLease' = None
    /\ crossed' = (crossed \/ token # None)
    /\ UNCHANGED <<token, notedVars, task, cancelled, lease, delKey, deregs, stalls>>

-----------------------------------------------------------------------------
(* etcd. *)

Renewed(l) == \E t \in Tasks : task[t] = "beat" /\ lease[t] = l

\* A lease that was not renewed for its TTL ends, and the key under it goes.
Expire(l) ==
    /\ l \in alive
    /\ alive' = alive \ {l}
    /\ key' = IF key = l THEN None ELSE key
    /\ IF Renewed(l) THEN stalls < MaxStalls /\ stalls' = stalls + 1 ELSE UNCHANGED stalls
    /\ UNCHANGED <<token, notedVars, task, cancelled, lease, deregVars, crossed>>

-----------------------------------------------------------------------------
TaskStep(t) ==
    \/ RegisterSpawn(t)
    \/ Top(t) \/ Grant(t) \/ Put(t) \/ PutUnanswered(t) \/ NoteKey(t) \/ NoteLease(t)
    \/ KeepAlive(t) \/ Failed(t) \/ Cancelled(t) \/ Again(t)

DeregStep == DeregKey \/ DeregLease \/ DeregDelete \/ DeregRevoke

Next ==
    \/ \E t \in Tasks : RegisterBegin(t) \/ TaskStep(t) \/ BeatBreaks(t)
    \/ Deregister \/ DeregStep
    \/ \E l \in Leases : Expire(l)

Spec == Init /\ [][Next]_vars

(***************************************************************************)
(* Fairness.  What is ready runs.  etcd does not refuse every request of a  *)
(* task for ever: grants, writes and first renewals that are asked for time *)
(* after time are made.  A lease that nobody renews ends.  A heartbeat that *)
(* works need not break, nobody need register or deregister.                *)
(***************************************************************************)
Fairness ==
    /\ \A t \in Tasks : /\ WF_vars(TaskStep(t))
                        /\ SF_vars(Grant(t)) /\ SF_vars(Put(t)) /\ SF_vars(KeepAlive(t))
    /\ WF_vars(DeregStep)
    /\ \A l \in Leases : WF_vars(Expire(l) /\ ~Renewed(l))

LiveSpec == Spec /\ Fairness

-----------------------------------------------------------------------------
(* Properties. *)

Beating(t) == task[t] \notin {"idle", "swap", "done"}

\* deregister can stop every heartbeat: a task that nobody has cancelled is the one whose token is
\* in cancel_token, unless two registers run at once (etcd.rs:145-151, 281-284).
SoleKeeper == \A t \in Tasks : Beating(t) /\ ~cancelled[t] => token = t

\* Once no registration is wanted any more the key goes and stays away, although a task may still
\* write it after the deregister has deleted it: its lease runs out (etcd.rs:165-275, 281-306).
GoneInTheEnd == <>[](token = None /\ \A t \in Tasks : task[t] # "swap") => <>[](key = None)

\* While a registration is wanted the key is there again and again, whatever requests fail and
\* however often the heartbeat breaks (etcd.rs:138, 164-275).  Left out are the crossings of calls
\* that "crossed" records.
KeptRegistered == <>[](token # None) /\ []~crossed => []<>(key # None)

=============================================================================
