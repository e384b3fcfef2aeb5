---------------------------- MODULE NacosRegistry ----------------------------
(***************************************************************************)
(* NacosRegistry::register and deregister (src/src/provider/nacos.rs), with *)
(* naming enabled.  Both ignore what comes of their request: a register     *)
(* that was refused and one whose reply was lost return Ok alike, and there *)
(* is neither a retry nor a heartbeat.  What a directory sees of this       *)
(* provider is in Directory: lists that hide failures (MayBlank) and        *)
(* streams that have ended at birth (BornClosed).  The server is external.  *)
(***************************************************************************)
EXTENDS RegistryCalls     \* the server tells instances apart by service, address and port

VARIABLES
    server,       \* the instances of this process that the server has
    noted,        \* registered_instance, or None
    posting,      \* where each register stands
    posted,       \* the instance it registers
    deleting,     \* where each deregister stands
    taken,        \* the instance it took, or None
    \* History, read by no guard:
    astray        \* a DELETE came to nothing, or calls overlapped or followed in a way that loses one

nacosVars == <<server, noted, posting, posted, deleting, taken, astray>>

NacosTypeOK ==
    /\ server \in SUBSET Ids
    /\ noted \in Ids \cup {None}
    /\ posting \in [Registers -> {"idle", "post", "done"}]
    /\ posted \in [Registers -> Ids]
    /\ deleting \in [Deregs -> {"idle", "delete", "done"}]
    /\ taken \in [Deregs -> Ids \cup {None}]
    /\ astray \in BOOLEAN

NacosInit ==
    /\ server = {}
    /\ noted = None
    /\ posting = [r \in Registers |-> "idle"]
    /\ posted \in [Registers -> Ids]
    /\ deleting = [d \in Deregs |-> "idle"]
    /\ taken = [d \in Deregs |-> None]
    /\ astray = FALSE

-----------------------------------------------------------------------------
(* register. *)

\* The instance is noted before it is posted.  Another one that was noted is forgotten.
Note(r) ==
    /\ posting[r] = "idle" /\ posting' = [posting EXCEPT ![r] = "post"]
    /\ noted' = posted[r]
    /\ astray' = (astray \/ noted \notin {None, posted[r]})
    /\ UNCHANGED <<server, posted, deleting, taken>>

\* Mutant of Posted: a register that is not answered forgets the instance.
PostedForgets(r) ==
    /\ posting[r] = "post" /\ posting' = [posting EXCEPT ![r] = "done"]
    /\ server' \in {server, server \cup {posted[r]}}
    /\ noted' \in {noted, None}
    /\ astray' = (astray \/ noted # posted[r])
    /\ UNCHANGED <<posted, deleting, taken>>

\* The server takes the instance and says so, or the answer is lost, or it takes nothing: all the
\* same to the caller.  A deregister may have forgotten the instance meanwhile.
Posted(r) ==
    /\ posting[r] = "post" /\ posting' = [posting EXCEPT ![r] = "done"]
    /\ server' \in {server, server \cup {posted[r]}}
    /\ astray' = (astray \/ noted # posted[r])
    /\ UNCHANGED <<noted, posted, deleting, taken>>

-----------------------------------------------------------------------------
(* deregister. *)

TakeNoted(d) ==
    /\ deleting[d] = "idle"
    /\ deleting' = [deleting EXCEPT ![d] = IF noted = None THEN "done" ELSE "delete"]
    /\ taken' = [taken EXCEPT ![d] = noted]
    /\ noted' = None
    /\ UNCHANGED <<server, posting, posted, astray>>

\* The server forgets the instance, or the DELETE comes to nothing: refused, unanswered, or about
\* another cluster than that of the POST, which names its own.
Deleted(d) ==
    /\ deleting[d] = "delete" /\ deleting' = [deleting EXCEPT ![d] = "done"]
    /\ server' \in {server, server \ {taken[d]}}
    /\ astray' = (astray \/ taken[d] \in server')
    /\ UNCHANGED <<noted, posting, posted, taken>>

\* The server drops an instance that sends no heartbeat.
Expire(i) ==
    /\ i \in server /\ server' = server \ {i}
    /\ UNCHANGED <<noted, posting, posted, deleting, taken, astray>>

-----------------------------------------------------------------------------
NacosNext ==
    \/ \E r \in Registers : Note(r) \/ Posted(r)
    \/ \E d \in Deregs : TakeNoted(d) \/ Deleted(d)
    \/ \E i \in Ids : Expire(i)

NacosSpec == NacosInit /\ [][NacosNext]_nacosVars

-----------------------------------------------------------------------------
(* Properties. *)

\* What this process may have put at the server can still be deleted: it is noted, or a deregister
\* is about to ask for its deletion.  A register whose answer was lost is no exception
\* (nacos.rs:127, 157-172, 194).
HeldIsNoted ==
    ~astray => \A i \in server : i = noted \/ \E d \in Deregs : deleting[d] = "delete" /\ taken[d] = i
=============================================================================
