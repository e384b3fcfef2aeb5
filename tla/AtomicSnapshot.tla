--------------------------- MODULE AtomicSnapshot ----------------------------
(***************************************************************************)
(* What the disk cache promises: snapshots are issued in order, and the     *)
(* file holds nothing or the whole of one of them.  It is replaced in one   *)
(* step by a snapshot that is pending, and several may be: the last issued  *)
(* need not be the last put there.  A snapshot that was pending together    *)
(* with another one may leave the file damaged; one that was alone never    *)
(* does, and puts an end to the damage.                                     *)
(***************************************************************************)
EXTENDS Naturals

VARIABLES
    issued,     \* snapshots handed to persist_to_disk
    pending,    \* those that may still come into the file
    joined,     \* those that were pending together with another one
    value       \* the one the file holds; 0 for none, or for what may be damaged

Init == issued = 0 /\ pending = {} /\ joined = {} /\ value = 0

Issue ==
    /\ issued' = issued + 1
    /\ pending' = pending \cup {issued + 1}
    /\ joined' = IF pending = {} THEN joined ELSE joined \cup pending'
    /\ UNCHANGED value

\* A snapshot takes the place of what was there.
Replace(n) ==
    /\ pending' = pending \ {n} /\ value' = n
    /\ UNCHANGED <<issued, joined>>

\* One that was not alone may put something else there.
Damage(n) ==
    /\ n \in joined /\ pending' = pending \ {n} /\ value' = 0
    /\ UNCHANGED <<issued, joined>>

\* Snapshots that never come into the file.
GiveUp ==
    /\ pending' \in SUBSET pending
    /\ UNCHANGED <<issued, joined, value>>

Next == Issue \/ (\E n \in pending : Replace(n) \/ Damage(n)) \/ GiveUp

Spec == Init /\ [][Next]_<<issued, pending, joined, value>>
=============================================================================
