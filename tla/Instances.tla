----------------------------- MODULE Instances -------------------------------
(***************************************************************************)
(* What the selectors of src/src/selector/ have in common: instances, the   *)
(* lists of them that callers bring, and the callers themselves.  A list is *)
(* a snapshot of the directory; callers may hold snapshots of different     *)
(* ages, so each call brings any list.                                      *)
(***************************************************************************)
EXTENDS Integers, FiniteSets, SequencesExt

CONSTANTS
    Ids,          \* instance ids
    Weights,      \* ServiceInstance::weight of each id, in hundredths
    Lists,        \* the lists of instances that callers bring, as sequences of ids
    Callers,      \* threads or tasks that select
    Arcs,         \* counter objects (Arc<AtomicUsize>) the selectors may create
    None

ASSUME InstancesAssumption ==
    /\ Weights \in [Ids -> Int]
    /\ \A list \in Lists : list \in Seq(Ids) /\ IsInjective(list)
    /\ IsFiniteSet(Callers)
    /\ None \notin Arcs /\ None \notin Ids

\* f32::max on a weight: nothing weighs less than the floor.
AtLeast(floor, id) == IF Weights[id] >= floor THEN Weights[id] ELSE floor

\* The numbers of a set in ascending order: each stands behind those that are less.
Ascending(S) ==
    [n \in 1..Cardinality(S) |-> CHOOSE x \in S : Cardinality({y \in S : y < x}) = n - 1]
=============================================================================
