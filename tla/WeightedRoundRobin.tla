------------------------- MODULE WeightedRoundRobin --------------------------
(***************************************************************************)
(* WeightedRoundRobinSelector (src/src/selector/weighted.rs): every select   *)
(* raises the current weight of each instance it is given by its weight,    *)
(* chooses the first of the greatest and takes the total from it.  The      *)
(* weights of instances that have left stay in the map and are found again  *)
(* when they return.                                                        *)
(***************************************************************************)
EXTENDS Instances

VARIABLES
    current,      \* id -> its current weight; an id that is not in the map has 0
    \* History, read by no guard:
    members,      \* the ids of the last select
    lead,         \* id -> total * times chosen - weight * selects, since the members changed
    carried       \* id -> its current weight when they did

wrrVars == <<current, members, lead, carried>>

Zero == [id \in Ids |-> 0]

WRRTypeOK ==
    /\ current \in [Ids -> Int]
    /\ members \in SUBSET Ids
    /\ lead \in [Ids -> Int]
    /\ carried \in [Ids -> Int]

WRRInit ==
    /\ current = Zero
    /\ members = {}
    /\ lead = Zero
    /\ carried = Zero

WRRWeight(id) == AtLeast(100, id)

SumOver(f, S) == MapThenSumSet(LAMBDA id : f[id], S)

Total(S) == SumOver([id \in Ids |-> WRRWeight(id)], S)

\* The map once every instance of the list has had its weight.
Raised(list) ==
    [id \in Ids |-> current[id] + (IF id \in ToSet(list) THEN WRRWeight(id) ELSE 0)]

\* The place of the first instance whose raised weight is greatest.
Best(list) ==
    SelectInSeq(list, LAMBDA id : \A other \in ToSet(list) : Raised(list)[other] <= Raised(list)[id])

\* Mutant of Charge: the instance chosen pays its own weight.
ChargeOwn(list) == WRRWeight(list[Best(list)])

\* What the instance chosen pays.
Charge(list) == Total(ToSet(list))

Select(list) ==
    LET S     == ToSet(list)
        best  == list[Best(list)]
        start == IF S = members THEN lead ELSE Zero
    IN
    /\ Len(list) > 1
    /\ current' = [Raised(list) EXCEPT ![best] = @ - Charge(list)]
    /\ members' = S
    /\ carried' = IF S = members THEN carried ELSE current
    /\ lead' = [id \in Ids |-> start[id] + (IF id = best THEN Total(S) ELSE 0)
                                         - (IF id \in S THEN WRRWeight(id) ELSE 0)]

WRRNext == \E list \in Lists : Select(list)

WRRSpec == WRRInit /\ [][WRRNext]_wrrVars

-----------------------------------------------------------------------------
\* What the weight an instance brought when the members became these owes it: times the number of
\* members, how far it is above their average.
Owed(id) == Cardinality(members) * carried[id] - SumOver(carried, members)

\* However instances come and go, with the weights they left behind, in any number of selects over
\* the same members none is further ahead of the share its weight gives it than one round, or one
\* round and what it was owed (weighted.rs:36-68).  The leads of the members add up to zero, so
\* none is further behind than the others may be ahead.
Proportional == \A id \in members :
    LET ahead == Cardinality(members) * (lead[id] - Total(members))
    IN  ahead <= 0 \/ ahead <= Owed(id)
=============================================================================
