----------------------------- MODULE MCDirectory -----------------------------
(* Small instances of Directory for TLC. *)
EXTENDS Directory, TLC

\* Calls are alike, and so are ids: sound for the runs that check no liveness.
CallSymmetry == Permutations(Calls) \cup Permutations(Ids)
=============================================================================
