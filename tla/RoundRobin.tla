----------------------------- MODULE RoundRobin ------------------------------
(***************************************************************************)
(* RoundRobinSelector (src/src/selector/round_robin.rs) and the             *)
(* TagFilterSelector around it (src/src/selector/canary.rs).  The counter   *)
(* of the service is made by whoever selects first, with a second look      *)
(* under the write lock, and drawn from by all callers; the filter only     *)
(* changes the list the counter is applied to.                              *)
(***************************************************************************)
EXTENDS Instances

CONSTANTS
    Tagged,       \* the ids that carry the tag a request may ask for
    MaxDraws      \* bound: draws from a counter

ASSUME RoundRobinAssumption == Tagged \subseteq Ids /\ MaxDraws \in Nat

VARIABLES
    fallback,     \* fallback_on_miss of the filter
    counter,      \* the counter object of the service, or None
    ticket,       \* counter object -> its value
    stage,        \* caller -> where it stands in select
    pool,         \* caller -> the list the round robin is given
    mine,         \* caller -> the counter object it holds
    \* History, read by no guard:
    lastPool,     \* the list of the last draw
    turns         \* the last instances drawn from it in a row, Len(lastPool) at most

rrVars == <<fallback, counter, ticket, stage, pool, mine, lastPool, turns>>

RRTypeOK ==
    /\ fallback \in BOOLEAN
    /\ counter \in Arcs \cup {None}
    /\ ticket \in [Arcs -> 0..MaxDraws]
    /\ stage \in [Callers -> {"idle", "get", "insert", "draw"}]
    /\ pool \in [Callers -> Seq(Ids)]
    /\ mine \in [Callers -> Arcs \cup {None}]
    /\ lastPool \in Seq(Ids) /\ turns \in Seq(Ids)

RRInit ==
    /\ fallback \in BOOLEAN
    /\ counter = None
    /\ ticket = [a \in Arcs |-> 0]
    /\ stage = [c \in Callers |-> "idle"]
    /\ pool = [c \in Callers |-> <<>>]
    /\ mine = [c \in Callers |-> None]
    /\ lastPool = <<>> /\ turns = <<>>

\* The list handed to the round robin: the tagged instances; all of them when the request asks for
\* no tag, or when nobody carries it and the filter falls back.
Filtered(l, tag) ==
    LET places == Ascending({n \in DOMAIN l : l[n] \in Tagged})
        match  == [n \in DOMAIN places |-> l[places[n]]]
    IN  IF ~tag \/ (match = <<>> /\ fallback) THEN l ELSE match

\* A list of one is served, and an empty one refused, without a draw.
Ask(c, l, tag) ==
    /\ stage[c] = "idle" /\ Len(Filtered(l, tag)) > 1
    /\ stage' = [stage EXCEPT ![c] = "get"]
    /\ pool' = [pool EXCEPT ![c] = Filtered(l, tag)]
    /\ UNCHANGED <<fallback, counter, ticket, mine, lastPool, turns>>

\* get_counter, under the read lock.
GetCounter(c) ==
    /\ stage[c] = "get"
    /\ stage' = [stage EXCEPT ![c] = IF counter = None THEN "insert" ELSE "draw"]
    /\ mine' = [mine EXCEPT ![c] = counter]
    /\ UNCHANGED <<fallback, counter, ticket, pool, lastPool, turns>>

\* Mutant of InsertCounter: insert instead of entry().or_insert_with.
InsertCounterAnew(c) ==
    /\ stage[c] = "insert"
    /\ stage' = [stage EXCEPT ![c] = "draw"]
    /\ \E a \in Arcs \ ({counter} \cup {mine[d] : d \in Callers}) :
          counter' = a /\ mine' = [mine EXCEPT ![c] = a]
    /\ UNCHANGED <<fallback, ticket, pool, lastPool, turns>>

\* get_counter, under the write lock: another caller may have been faster.
InsertCounter(c) ==
    /\ stage[c] = "insert"
    /\ stage' = [stage EXCEPT ![c] = "draw"]
    /\ \E a \in IF counter = None THEN Arcs ELSE {counter} :
          counter' = a /\ mine' = [mine EXCEPT ![c] = a]
    /\ UNCHANGED <<fallback, ticket, pool, lastPool, turns>>

\* fetch_add and the choice; the filter finds the same instance in the caller's own list.
Draw(c) ==
    LET got == pool[c][1 + (ticket[mine[c]] % Len(pool[c]))]
        row == IF pool[c] = lastPool THEN Append(turns, got) ELSE <<got>>
    IN
    /\ stage[c] = "draw" /\ ticket[mine[c]] < MaxDraws
    /\ ticket' = [ticket EXCEPT ![mine[c]] = @ + 1]
    /\ stage' = [stage EXCEPT ![c] = "idle"]
    /\ pool' = [pool EXCEPT ![c] = <<>>]
    /\ mine' = [mine EXCEPT ![c] = None]
    /\ lastPool' = pool[c]
    /\ turns' = IF Len(row) > Len(pool[c]) THEN Tail(row) ELSE row
    /\ UNCHANGED <<fallback, counter>>

RRNext == \E c \in Callers :
    \/ \E l \in Lists, tag \in BOOLEAN : Ask(c, l, tag)
    \/ GetCounter(c) \/ InsertCounter(c) \/ Draw(c)

RRSpec == RRInit /\ [][RRNext]_rrVars

-----------------------------------------------------------------------------
\* While callers draw from one list nobody is drawn twice before everybody has been drawn, also
\* when the first of them made the counter at the same time (round_robin.rs:23-55).
Rotation == IsInjective(turns)
=============================================================================
