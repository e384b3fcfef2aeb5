-------------------------------- MODULE P2C ----------------------------------
(***************************************************************************)
(* P2CSelector (src/src/selector/p2c.rs): pick two instances, choose the    *)
(* one that is less busy for its weight, and count the requests in flight   *)
(* with a guard.  Callers race: the scores are read one after the other,    *)
(* nothing is locked between the choice and the guard, and the counter of   *)
(* an instance is made by whoever first takes a guard on it, with a second  *)
(* look under the write lock (41-55).                                       *)
(***************************************************************************)
EXTENDS Instances

CONSTANT MaxSeed    \* bound: pick_two draws its seed (clock plus counter) from 0..MaxSeed

ASSUME P2CAssumption == MaxSeed \in Nat

VARIABLES
    inflight,     \* id -> the counter object of the map, or None
    count,        \* counter object -> its value
    step,         \* caller -> where it stands in select_with_guard
    pair,         \* caller -> the two instances to compare
    score,        \* caller -> requests in flight on the first of them, as read
    chosen,       \* caller -> the instance chosen
    arc,          \* caller -> the counter object it holds
    \* History, read by no guard:
    among,        \* caller -> the ids it selects among
    quiet         \* caller -> no counter has changed since it began to select

p2cVars == <<inflight, count, step, pair, score, chosen, arc, among, quiet>>

Steps == {"idle", "first", "second", "chosen", "insert", "add", "guard"}

P2CTypeOK ==
    /\ inflight \in [Ids -> Arcs \cup {None}]
    /\ count \in [Arcs -> Nat]
    /\ step \in [Callers -> Steps]
    /\ pair \in [Callers -> (Ids \X Ids) \cup {None}]
    /\ score \in [Callers -> Nat]
    /\ chosen \in [Callers -> Ids \cup {None}]
    /\ arc \in [Callers -> Arcs \cup {None}]
    /\ among \in [Callers -> SUBSET Ids]
    /\ quiet \in [Callers -> BOOLEAN]

P2CInit ==
    /\ inflight = [id \in Ids |-> None]
    /\ count = [a \in Arcs |-> 0]
    /\ step = [c \in Callers |-> "idle"]
    /\ pair = [c \in Callers |-> None]
    /\ score = [c \in Callers |-> 0]
    /\ chosen = [c \in Callers |-> None]
    /\ arc = [c \in Callers |-> None]
    /\ among = [c \in Callers |-> {}]
    /\ quiet = [c \in Callers |-> FALSE]

InFlight(id) == IF inflight[id] = None THEN 0 ELSE count[inflight[id]]

P2CWeight(id) == AtLeast(10, id)

\* compute_load_score compares (m + 1) / weight: is i with m requests no busier than j with n?
NoBusier(i, m, j, n) == (m + 1) * P2CWeight(j) <= (n + 1) * P2CWeight(i)

\* Mutant of PickTwo: the offset is drawn from 0..len - 2.
PickTwoSame(seed, len) ==
    LET idx1 == seed % len IN <<idx1 + 1, ((idx1 + ((seed \div len) % (len - 1))) % len) + 1>>

PickTwo(seed, len) ==
    LET idx1   == seed % len
        offset == 1 + ((seed \div len) % (len - 1))
    IN  <<idx1 + 1, ((idx1 + offset) % len) + 1>>

Picks(len) == IF len = 2 THEN {<<1, 2>>} ELSE {PickTwo(seed, len) : seed \in 0..MaxSeed}

-----------------------------------------------------------------------------
Go(c, from, to) == step[c] = from /\ step' = [step EXCEPT ![c] = to]

\* A list of one is chosen at once; a caller of acquire brings the id it wants.
SelectOnly(c, list) ==
    /\ Len(list) = 1
    /\ Go(c, "idle", "chosen")
    /\ chosen' = [chosen EXCEPT ![c] = list[1]]
    /\ among' = [among EXCEPT ![c] = ToSet(list)]
    /\ UNCHANGED <<inflight, count, pair, score, arc, quiet>>

SelectTwo(c, list) ==
    /\ Len(list) > 1
    /\ Go(c, "idle", "first")
    /\ \E pick \in Picks(Len(list)) :
          pair' = [pair EXCEPT ![c] = <<list[pick[1]], list[pick[2]]>>]
    /\ among' = [among EXCEPT ![c] = ToSet(list)]
    /\ quiet' = [quiet EXCEPT ![c] = TRUE]
    /\ UNCHANGED <<inflight, count, score, chosen, arc>>

ScoreFirst(c) ==
    /\ Go(c, "first", "second")
    /\ score' = [score EXCEPT ![c] = InFlight(pair[c][1])]
    /\ UNCHANGED <<inflight, count, pair, chosen, arc, among, quiet>>

ScoreSecond(c) ==
    /\ Go(c, "second", "chosen")
    /\ LET i == pair[c][1]
           j == pair[c][2]
       IN chosen' = [chosen EXCEPT ![c] = IF NoBusier(i, score[c], j, InFlight(j)) THEN i ELSE j]
    /\ pair' = [pair EXCEPT ![c] = None]
    /\ score' = [score EXCEPT ![c] = 0]
    /\ UNCHANGED <<inflight, count, arc, among, quiet>>

\* Selector::select ends here; RegistryService takes no guard.
Return(c) ==
    /\ Go(c, "chosen", "idle")
    /\ chosen' = [chosen EXCEPT ![c] = None]
    /\ among' = [among EXCEPT ![c] = {}]
    /\ quiet' = [quiet EXCEPT ![c] = FALSE]
    /\ UNCHANGED <<inflight, count, pair, score, arc>>

\* get_inflight_counter, under the read lock.
Lookup(c) ==
    /\ Go(c, "chosen", IF inflight[chosen[c]] = None THEN "insert" ELSE "add")
    /\ arc' = [arc EXCEPT ![c] = inflight[chosen[c]]]
    /\ among' = [among EXCEPT ![c] = {}]
    /\ quiet' = [quiet EXCEPT ![c] = FALSE]
    /\ UNCHANGED <<inflight, count, pair, score, chosen>>

Unused == Arcs \ ({inflight[id] : id \in Ids} \cup {arc[c] : c \in Callers})

\* Mutant of Insert: insert instead of entry().or_insert_with.
InsertAnew(c) ==
    /\ Go(c, "insert", "add")
    /\ \E a \in Unused : /\ inflight' = [inflight EXCEPT ![chosen[c]] = a]
                         /\ arc' = [arc EXCEPT ![c] = a]
    /\ UNCHANGED <<count, pair, score, chosen, among, quiet>>

\* get_inflight_counter, under the write lock: another caller may have been faster.
Insert(c) ==
    /\ Go(c, "insert", "add")
    /\ \E a \in IF inflight[chosen[c]] = None THEN Unused ELSE {inflight[chosen[c]]} :
          /\ inflight' = [inflight EXCEPT ![chosen[c]] = a]
          /\ arc' = [arc EXCEPT ![c] = a]
    /\ UNCHANGED <<count, pair, score, chosen, among, quiet>>

\* Mutant of Acquire: a guard without the fetch_add.
AcquireUncounted(c) ==
    /\ Go(c, "add", "guard")
    /\ quiet' = [d \in Callers |-> FALSE]
    /\ UNCHANGED <<inflight, count, pair, score, chosen, arc, among>>

\* acquire: the guard is there once the counter has been raised.
Acquire(c) ==
    /\ Go(c, "add", "guard")
    /\ count' = [count EXCEPT ![arc[c]] = @ + 1]
    /\ quiet' = [d \in Callers |-> FALSE]
    /\ UNCHANGED <<inflight, pair, score, chosen, arc, among>>

DropGuard(c) ==
    /\ Go(c, "guard", "idle")
    /\ count' = [count EXCEPT ![arc[c]] = @ - 1]
    /\ quiet' = [d \in Callers |-> FALSE]
    /\ arc' = [arc EXCEPT ![c] = None]
    /\ chosen' = [chosen EXCEPT ![c] = None]
    /\ UNCHANGED <<inflight, pair, score, among>>

P2CNext == \E c \in Callers :
    \/ \E list \in Lists : SelectOnly(c, list) \/ SelectTwo(c, list)
    \/ ScoreFirst(c) \/ ScoreSecond(c) \/ Return(c)
    \/ Lookup(c) \/ Insert(c) \/ Acquire(c) \/ DropGuard(c)

P2CSpec == P2CInit /\ [][P2CNext]_p2cVars

-----------------------------------------------------------------------------
Guards(id) == {c \in Callers : step[c] = "guard" /\ chosen[c] = id}

\* The requests in flight that get_inflight_counter shows for an instance are the guards alive
\* on it, however many callers made its counter at the same time (p2c.rs:41-62, 15-19).
InFlightIsGuards == \A id \in Ids : InFlight(id) = Cardinality(Guards(id))

\* As long as no request begins or ends during a select, it does not choose the one instance that
\* is busier for its weight than every other (p2c.rs:76-145).
BusiestLoses == \A c \in Callers : step[c] = "chosen" /\ quiet[c] =>
    \E other \in among[c] \ {chosen[c]} :
        NoBusier(chosen[c], InFlight(chosen[c]), other, InFlight(other))
=============================================================================
