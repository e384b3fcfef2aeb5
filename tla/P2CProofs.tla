----------------------------- MODULE P2CProofs -------------------------------
(***************************************************************************)
(* Proofs about P2C: pick_two gives two different places of the list        *)
(* whatever its seed and the list's length, and the requests in flight that *)
(* a counter shows are the guards alive, whatever callers race to make it.  *)
(***************************************************************************)
EXTENDS P2C, FiniteSetTheorems, TLAPS

USE InstancesAssumption, P2CAssumption

LEMMA ModSmall ==
    ASSUME NEW m \in Nat \ {0}, NEW x \in 0..(m - 1)
    PROVE  x % m = x
  OBVIOUS

LEMMA ModOver ==
    ASSUME NEW m \in Nat \ {0}, NEW x \in m..(2 * m - 1)
    PROVE  x % m = x - m
  OBVIOUS

\* Whatever the seed, pick_two gives two different places of a list of two or more
\* (p2c.rs:76-88).
THEOREM PickTwoDistinct ==
    ASSUME NEW seed \in Nat, NEW len \in Nat, len > 1
    PROVE  /\ PickTwo(seed, len) \in (1..len) \X (1..len)
           /\ PickTwo(seed, len)[1] # PickTwo(seed, len)[2]
<1> DEFINE idx1   == seed % len
           offset == 1 + ((seed \div len) % (len - 1))
           idx2   == (idx1 + offset) % len
<1>1. idx1 \in 0..(len - 1)
  OBVIOUS
<1>2. seed \div len \in Nat
  OBVIOUS
<1>3. offset \in 1..(len - 1)
  BY <1>2
<1>4. PickTwo(seed, len) = <<idx1 + 1, idx2 + 1>>
  BY DEF PickTwo
<1> HIDE DEF idx1, offset
<1>5. idx2 \in 0..(len - 1) /\ idx2 # idx1
  <2>1. CASE idx1 + offset < len
    BY <1>1, <1>3, <2>1, ModSmall
  <2>2. CASE idx1 + offset >= len
    <3>1. idx1 + offset \in len..(2 * len - 1)
      BY <1>1, <1>3, <2>2
    <3> QED BY <1>1, <1>3, <3>1, ModOver
  <2> QED BY <1>1, <1>3, <2>1, <2>2
<1> HIDE DEF idx2
<1> QED BY <1>1, <1>4, <1>5

LEMMA PicksInList ==
    ASSUME NEW list \in Lists, Len(list) > 1, NEW pick \in Picks(Len(list))
    PROVE  list[pick[1]] \in Ids /\ list[pick[2]] \in Ids
<1>1. list \in Seq(Ids)
  OBVIOUS
<1>2. pick[1] \in 1..Len(list) /\ pick[2] \in 1..Len(list)
  <2>1. CASE Len(list) = 2
    BY <2>1 DEF Picks
  <2>2. CASE Len(list) # 2
    <3>1. PICK seed \in Nat : pick = PickTwo(seed, Len(list))
      BY <2>2 DEF Picks
    <3> QED BY <1>1, <3>1, PickTwoDistinct
  <2> QED BY <2>1, <2>2
<1> QED BY <1>1, <1>2

-----------------------------------------------------------------------------
(* The counters. *)

\* Every caller on its way to or from a counter holds the one the map has for its instance, no two
\* instances share one, and a counter that is in nobody's hands reads zero.
OwnArc   == \A c \in Callers : step[c] \in {"add", "guard"} =>
                chosen[c] \in Ids /\ inflight[chosen[c]] # None /\ arc[c] = inflight[chosen[c]]
Chooses  == \A c \in Callers : step[c] \in {"chosen", "insert"} => chosen[c] \in Ids
Compares == \A c \in Callers : step[c] \in {"first", "second"} => pair[c] \in Ids \X Ids
OneEach  == \A i, j \in Ids : inflight[i] # None /\ inflight[i] = inflight[j] => i = j
NewZero  == \A a \in Arcs : (\A id \in Ids : inflight[id] # a) => count[a] = 0

\* The types without those of the history and of count, which is a number by InFlightIsGuards.
CounterTypes ==
    /\ inflight \in [Ids -> Arcs \cup {None}]
    /\ count \in [Arcs -> Int]
    /\ step \in [Callers -> Steps]
    /\ pair \in [Callers -> (Ids \X Ids) \cup {None}]
    /\ chosen \in [Callers -> Ids \cup {None}]
    /\ arc \in [Callers -> Arcs \cup {None}]

CounterInv ==
    /\ CounterTypes
    /\ OwnArc /\ Chooses /\ Compares /\ OneEach /\ NewZero
    /\ InFlightIsGuards

LEMMA GuardsFinite ==
    ASSUME NEW id PROVE IsFiniteSet(Guards(id))
<1>1. Guards(id) \in SUBSET Callers
  BY DEF Guards
<1> QED BY <1>1, FS_Subset

LEMMA CounterInit == P2CInit => CounterInv
<1> SUFFICES ASSUME P2CInit PROVE CounterInv
  OBVIOUS
<1>1. CounterTypes /\ OwnArc /\ Chooses /\ Compares /\ OneEach /\ NewZero
  BY DEF P2CInit, CounterTypes, Steps, OwnArc, Chooses, Compares, OneEach, NewZero
<1>2. InFlightIsGuards
  <2> SUFFICES ASSUME NEW id \in Ids PROVE InFlight(id) = Cardinality(Guards(id))
    BY DEF InFlightIsGuards
  <2>1. Guards(id) = {} /\ InFlight(id) = 0
    BY DEF P2CInit, Guards, InFlight
  <2> QED BY <2>1, FS_EmptySet
<1> QED BY <1>1, <1>2 DEF CounterInv

\* A step that neither counts nor changes the map, and neither takes nor gives up a guard.
LEMMA CountsKept ==
    ASSUME InFlightIsGuards, UNCHANGED <<inflight, count>>,
           \A id \in Ids : Guards(id)' = Guards(id)
    PROVE  InFlightIsGuards'
<1> QED BY DEF InFlightIsGuards, InFlight

LEMMA SelectStep ==
    ASSUME CounterInv, NEW c \in Callers, NEW list \in Lists, SelectOnly(c, list) \/ SelectTwo(c, list)
    PROVE  CounterInv'
<1>1. CASE SelectOnly(c, list)
  <2>1. list[1] \in Ids
    <3>1. list \in Seq(Ids)
      OBVIOUS
    <3>2. 1 \in 1..Len(list)
      BY <1>1, <3>1 DEF SelectOnly
    <3> QED BY <3>1, <3>2
  <2>2. (CounterTypes /\ OwnArc /\ Chooses /\ Compares /\ OneEach /\ NewZero)'
    BY <1>1, <2>1 DEF CounterInv, CounterTypes, Steps, OwnArc, Chooses, Compares, OneEach, NewZero, SelectOnly, Go
  <2>3. \A id \in Ids : Guards(id)' = Guards(id)
    BY <1>1 DEF CounterInv, CounterTypes, Guards, SelectOnly, Go
  <2> QED BY <1>1, <2>2, <2>3, CountsKept DEF CounterInv, SelectOnly
<1>2. CASE SelectTwo(c, list)
  <2>1. PICK pick \in Picks(Len(list)) : pair' = [pair EXCEPT ![c] = <<list[pick[1]], list[pick[2]]>>]
    BY <1>2 DEF SelectTwo
  <2>2. list[pick[1]] \in Ids /\ list[pick[2]] \in Ids
    BY <1>2, PicksInList DEF SelectTwo
  <2>3. pair' \in [Callers -> (Ids \X Ids) \cup {None}] /\ Compares'
    BY <1>2, <2>1, <2>2 DEF CounterInv, CounterTypes, Compares, SelectTwo, Go
  <2>4. (CounterTypes /\ OwnArc /\ Chooses /\ OneEach /\ NewZero)'
    BY <1>2, <2>3 DEF CounterInv, CounterTypes, Steps, OwnArc, Chooses, OneEach, NewZero, SelectTwo, Go
  <2>5. \A id \in Ids : Guards(id)' = Guards(id)
    BY <1>2 DEF CounterInv, CounterTypes, Guards, SelectTwo, Go
  <2> QED BY <1>2, <2>3, <2>4, <2>5, CountsKept DEF CounterInv, SelectTwo
<1> QED BY <1>1, <1>2

LEMMA ScoreStep ==
    ASSUME CounterInv, NEW c \in Callers, ScoreFirst(c) \/ ScoreSecond(c) \/ Return(c) \/ Lookup(c)
    PROVE  CounterInv'
<1> USE DEF CounterInv, CounterTypes, Steps, Go
<1>1. UNCHANGED <<inflight, count>>
  BY DEF ScoreFirst, ScoreSecond, Return, Lookup
<1>2. \A id \in Ids : Guards(id)' = Guards(id)
  BY DEF Guards, ScoreFirst, ScoreSecond, Return, Lookup
<1>3. InFlightIsGuards'
  BY <1>1, <1>2, CountsKept
<1>4. OneEach' /\ NewZero'
  BY <1>1 DEF OneEach, NewZero
<1>5. CASE ScoreFirst(c)
  BY <1>3, <1>4, <1>5 DEF ScoreFirst, OwnArc, Chooses, Compares
<1>6. CASE ScoreSecond(c)
  <2>1. pair[c][1] \in Ids /\ pair[c][2] \in Ids
    BY <1>6 DEF ScoreSecond, Compares
  <2>2. chosen' \in [Callers -> Ids \cup {None}] /\ chosen'[c] \in Ids
    BY <1>6, <2>1 DEF ScoreSecond
  <2>3. \A d \in Callers : d # c => chosen'[d] = chosen[d]
    BY <1>6 DEF ScoreSecond
  <2>4. /\ step' = [step EXCEPT ![c] = "chosen"] /\ pair' = [pair EXCEPT ![c] = None]
        /\ UNCHANGED <<inflight, count, arc>>
    BY <1>6 DEF ScoreSecond
  <2> QED BY <1>3, <1>4, <2>2, <2>3, <2>4 DEF OwnArc, Chooses, Compares
<1>7. CASE Return(c)
  BY <1>3, <1>4, <1>7 DEF Return, OwnArc, Chooses, Compares
<1>8. CASE Lookup(c)
  BY <1>3, <1>4, <1>8 DEF Lookup, OwnArc, Chooses, Compares
<1> QED BY <1>5, <1>6, <1>7, <1>8

LEMMA InsertStep ==
    ASSUME CounterInv, NEW c \in Callers, Insert(c)
    PROVE  CounterInv'
<1> USE DEF CounterInv, CounterTypes, Steps, Go
<1>0. PICK i \in Ids : i = chosen[c]
  BY DEF Insert, Chooses
<1>1. i \in Ids /\ i = chosen[c] /\ step[c] = "insert" /\ step' = [step EXCEPT ![c] = "add"]
  BY <1>0 DEF Insert
<1>2. PICK a \in IF inflight[i] = None THEN Unused ELSE {inflight[i]} :
          inflight' = [inflight EXCEPT ![i] = a] /\ arc' = [arc EXCEPT ![c] = a]
  BY <1>1 DEF Insert
<1>3. UNCHANGED <<count, pair, chosen>>
  BY DEF Insert
<1>4. a \in Arcs /\ a # None
  BY <1>1, <1>2 DEF Unused
<1>5. \A id \in Ids : Guards(id)' = Guards(id)
  BY <1>1, <1>3 DEF Guards
<1>6. CASE inflight[i] # None
  <2>1. inflight' = inflight
    BY <1>1, <1>2, <1>6
  <2>2. InFlightIsGuards'
    BY <1>3, <1>5, <2>1, CountsKept
  <2> QED BY <1>1, <1>2, <1>3, <1>4, <1>6, <2>1, <2>2 DEF OwnArc, Chooses, Compares, OneEach, NewZero
<1>7. CASE inflight[i] = None
  <2>1. a \in Unused
    BY <1>2, <1>7
  <2>2. \A id \in Ids : inflight[id] # a
    BY <2>1 DEF Unused
  <2>3. count[a] = 0
    BY <1>4, <2>2 DEF NewZero
  <2>4. InFlight(i) = 0 /\ InFlight(i)' = 0
    BY <1>1, <1>2, <1>3, <1>4, <1>7, <2>3 DEF InFlight
  <2>5. \A id \in Ids : id # i => InFlight(id)' = InFlight(id)
    BY <1>1, <1>2, <1>3 DEF InFlight
  <2>6. InFlightIsGuards'
    <3> SUFFICES ASSUME NEW id \in Ids PROVE InFlight(id)' = Cardinality(Guards(id)')
      BY DEF InFlightIsGuards
    <3>1. InFlight(id)' = InFlight(id)
      BY <2>4, <2>5
    <3> QED BY <1>5, <3>1 DEF InFlightIsGuards
  <2>7. OneEach' /\ NewZero'
    BY <1>1, <1>2, <1>3, <1>4, <2>2 DEF OneEach, NewZero
  <2>8. OwnArc'
    BY <1>1, <1>2, <1>3, <1>4, <1>7 DEF OwnArc
  <2>9. (CounterTypes /\ Chooses /\ Compares)'
    BY <1>1, <1>2, <1>3, <1>4 DEF Chooses, Compares
  <2> QED BY <2>6, <2>7, <2>8, <2>9
<1> QED BY <1>6, <1>7

\* A guard more or less on one instance is one more or less in flight on it, and no other.
LEMMA AcquireStep ==
    ASSUME CounterInv, NEW c \in Callers, Acquire(c)
    PROVE  CounterInv'
<1> USE DEF CounterInv, CounterTypes, Steps, Go
<1>0. PICK i \in Ids : i = chosen[c]
  BY DEF Acquire, OwnArc
<1>1. /\ i = chosen[c] /\ inflight[i] \in Arcs /\ inflight[i] # None /\ arc[c] = inflight[i]
      /\ step[c] = "add" /\ step' = [step EXCEPT ![c] = "guard"]
  BY <1>0 DEF Acquire, OwnArc
<1>2. count' = [count EXCEPT ![inflight[i]] = @ + 1] /\ UNCHANGED <<inflight, pair, chosen, arc>>
  BY <1>1 DEF Acquire
<1>3. Guards(i)' = Guards(i) \cup {c} /\ c \notin Guards(i)
  BY <1>1, <1>2 DEF Guards
<1>4. \A id \in Ids : id # i => Guards(id)' = Guards(id) /\ InFlight(id)' = InFlight(id)
  BY <1>1, <1>2 DEF Guards, InFlight, OneEach
<1>5. Cardinality(Guards(i) \cup {c}) = Cardinality(Guards(i)) + 1
  BY <1>3, GuardsFinite, FS_AddElement
<1>6. InFlight(i)' = InFlight(i) + 1
  BY <1>1, <1>2 DEF InFlight
<1>7. InFlightIsGuards'
  <2> SUFFICES ASSUME NEW id \in Ids PROVE InFlight(id)' = Cardinality(Guards(id)')
    BY DEF InFlightIsGuards
  <2>1. CASE id = i
    BY <1>3, <1>5, <1>6, <2>1 DEF InFlightIsGuards
  <2>2. CASE id # i
    BY <1>4, <2>2 DEF InFlightIsGuards
  <2> QED BY <2>1, <2>2
<1>8. (CounterTypes /\ OwnArc /\ Chooses /\ Compares /\ OneEach /\ NewZero)'
  BY <1>1, <1>2 DEF OwnArc, Chooses, Compares, OneEach, NewZero
<1> QED BY <1>7, <1>8

LEMMA DropStep ==
    ASSUME CounterInv, NEW c \in Callers, DropGuard(c)
    PROVE  CounterInv'
<1> USE DEF CounterInv, CounterTypes, Steps, Go
<1>0. PICK i \in Ids : i = chosen[c]
  BY DEF DropGuard, OwnArc
<1>1. /\ i = chosen[c] /\ inflight[i] \in Arcs /\ inflight[i] # None /\ arc[c] = inflight[i]
      /\ step[c] = "guard" /\ step' = [step EXCEPT ![c] = "idle"]
  BY <1>0 DEF DropGuard, OwnArc
<1>2. /\ count' = [count EXCEPT ![inflight[i]] = @ - 1]
      /\ arc' = [arc EXCEPT ![c] = None] /\ chosen' = [chosen EXCEPT ![c] = None]
      /\ UNCHANGED <<inflight, pair>>
  BY <1>1 DEF DropGuard
<1>3. Guards(i)' = Guards(i) \ {c} /\ c \in Guards(i)
  BY <1>1, <1>2 DEF Guards
<1>4. \A id \in Ids : id # i => Guards(id)' = Guards(id) /\ InFlight(id)' = InFlight(id)
  BY <1>1, <1>2 DEF Guards, InFlight, OneEach
<1>5. Cardinality(Guards(i) \ {c}) = Cardinality(Guards(i)) - 1
  BY <1>3, GuardsFinite, FS_RemoveElement
<1>6. InFlight(i)' = InFlight(i) - 1
  BY <1>1, <1>2 DEF InFlight
<1>7. InFlightIsGuards'
  <2> SUFFICES ASSUME NEW id \in Ids PROVE InFlight(id)' = Cardinality(Guards(id)')
    BY DEF InFlightIsGuards
  <2>1. CASE id = i
    BY <1>3, <1>5, <1>6, <2>1 DEF InFlightIsGuards
  <2>2. CASE id # i
    BY <1>4, <2>2 DEF InFlightIsGuards
  <2> QED BY <2>1, <2>2
<1>8. (CounterTypes /\ OwnArc /\ Chooses /\ Compares /\ OneEach /\ NewZero)'
  BY <1>1, <1>2 DEF OwnArc, Chooses, Compares, OneEach, NewZero
<1> QED BY <1>7, <1>8

LEMMA CounterStep ==
    ASSUME CounterInv, [P2CNext]_p2cVars
    PROVE  CounterInv'
<1>1. CASE UNCHANGED p2cVars
  <2>1. (CounterTypes /\ OwnArc /\ Chooses /\ Compares /\ OneEach /\ NewZero)'
    BY <1>1 DEF p2cVars, CounterInv, CounterTypes, OwnArc, Chooses, Compares, OneEach, NewZero
  <2>2. \A id \in Ids : Guards(id)' = Guards(id)
    BY <1>1 DEF p2cVars, Guards
  <2> QED BY <1>1, <2>1, <2>2, CountsKept DEF CounterInv, p2cVars
<1>2. CASE P2CNext
  BY <1>2, SelectStep, ScoreStep, InsertStep, AcquireStep, DropStep DEF P2CNext
<1> QED BY <1>1, <1>2

\* Whatever callers race for a counter, the requests in flight it shows are the guards alive.
THEOREM GuardsBalance == P2CSpec => []InFlightIsGuards
<1>1. CounterInv => InFlightIsGuards
  BY DEF CounterInv
<1> QED BY <1>1, CounterInit, CounterStep, PTL DEF P2CSpec

-----------------------------------------------------------------------------
(* The choice. *)

\* What is right for one caller: its history holds only between the first score and the guard, it
\* compares two instances of its list, and the score it has read is still the number in flight.
Choice(c) ==
    /\ quiet[c] => step[c] \in {"first", "second", "chosen"}
    /\ quiet[c] /\ step[c] \in {"first", "second"} =>
          pair[c][1] # pair[c][2] /\ pair[c][1] \in among[c] /\ pair[c][2] \in among[c]
    /\ quiet[c] /\ step[c] = "second" => score[c] = InFlight(pair[c][1])
    /\ quiet[c] /\ step[c] = "chosen" => \E other \in among[c] \ {chosen[c]} :
          NoBusier(chosen[c], InFlight(chosen[c]), other, InFlight(other))

ChoiceTypes ==
    /\ score \in [Callers -> Int]
    /\ among \in [Callers -> SUBSET Ids]
    /\ quiet \in [Callers -> BOOLEAN]

ChoiceInv == CounterInv /\ ChoiceTypes /\ \A c \in Callers : Choice(c)

LEMMA InFlightInt ==
    ASSUME CounterInv, NEW id \in Ids
    PROVE  InFlight(id) \in Int
  BY DEF CounterInv, CounterTypes, InFlight

LEMMA WeightInt ==
    ASSUME NEW id \in Ids
    PROVE  P2CWeight(id) \in Int
  BY DEF P2CWeight, AtLeast

\* Of two instances one is no busier than the other.
LEMMA OneNoBusier ==
    ASSUME NEW i \in Ids, NEW m \in Int, NEW j \in Ids, NEW n \in Int, ~NoBusier(i, m, j, n)
    PROVE  NoBusier(j, n, i, m)
<1> DEFINE v == (m + 1) * P2CWeight(j)
           w == (n + 1) * P2CWeight(i)
<1>1. v \in Int /\ w \in Int
  BY WeightInt
<1>2. ~(v <= w)
  BY DEF NoBusier
<1> HIDE DEF v, w
<1>3. w <= v
  BY <1>1, <1>2
<1> QED BY <1>3 DEF NoBusier, v, w

\* Two places of a list hold two of its instances.
LEMMA PicksApart ==
    ASSUME NEW list \in Lists, Len(list) > 1, NEW pick \in Picks(Len(list))
    PROVE  /\ list[pick[1]] # list[pick[2]]
           /\ list[pick[1]] \in ToSet(list) /\ list[pick[2]] \in ToSet(list)
<1>1. list \in Seq(Ids) /\ IsInjective(list)
  OBVIOUS
<1>2. pick[1] \in 1..Len(list) /\ pick[2] \in 1..Len(list) /\ pick[1] # pick[2]
  <2>1. CASE Len(list) = 2
    BY <2>1 DEF Picks
  <2>2. CASE Len(list) # 2
    <3>1. PICK seed \in Nat : pick = PickTwo(seed, Len(list))
      BY <2>2 DEF Picks
    <3> QED BY <1>1, <3>1, PickTwoDistinct
  <2> QED BY <2>1, <2>2
<1>3. DOMAIN list = 1..Len(list)
  BY <1>1
<1> QED BY <1>1, <1>2, <1>3 DEF IsInjective, ToSet

LEMMA ChoiceInit == P2CInit => ChoiceInv
<1> SUFFICES ASSUME P2CInit PROVE ChoiceInv
  OBVIOUS
<1>1. ChoiceTypes /\ \A c \in Callers : Choice(c)
  BY DEF P2CInit, ChoiceTypes, Choice
<1> QED BY <1>1, CounterInit DEF ChoiceInv

\* A step that changes no number in flight leaves alone a caller that it does not move.
LEMMA ChoiceKept ==
    ASSUME ChoiceInv, NEW d \in Callers,
           \A id \in Ids : InFlight(id)' = InFlight(id),
           step'[d] = step[d], pair'[d] = pair[d], score'[d] = score[d],
           chosen'[d] = chosen[d], among'[d] = among[d], quiet'[d] = quiet[d]
    PROVE  Choice(d)'
<1>1. Choice(d) /\ CounterTypes /\ among[d] \in SUBSET Ids
  BY DEF ChoiceInv, CounterInv, ChoiceTypes
<1>2. step[d] = "second" => InFlight(pair[d][1])' = InFlight(pair[d][1])
  <2> SUFFICES ASSUME step[d] = "second" PROVE InFlight(pair[d][1])' = InFlight(pair[d][1])
    OBVIOUS
  <2>1. PICK i \in Ids : i = pair[d][1]
    BY DEF ChoiceInv, CounterInv, Compares
  <2>2. pair'[d][1] = i
    BY <2>1
  <2> QED BY <2>1, <2>2 DEF InFlight
<1>3. step[d] = "chosen" /\ quiet[d] => \E other \in among'[d] \ {chosen'[d]} :
          NoBusier(chosen'[d], InFlight(chosen[d])', other, InFlight(other)')
  <2> SUFFICES ASSUME step[d] = "chosen", quiet[d]
               PROVE  \E other \in among'[d] \ {chosen'[d]} :
                         NoBusier(chosen'[d], InFlight(chosen[d])', other, InFlight(other)')
    OBVIOUS
  <2>1. PICK i \in Ids : i = chosen[d]
    BY DEF ChoiceInv, CounterInv, Chooses
  <2>2. InFlight(chosen[d])' = InFlight(i)
    BY <2>1 DEF InFlight
  <2>3. PICK other \in among[d] \ {i} : NoBusier(i, InFlight(i), other, InFlight(other))
    BY <1>1, <2>1 DEF Choice
  <2>4. InFlight(other)' = InFlight(other)
    BY <1>1, <2>3
  <2> QED BY <2>1, <2>2, <2>3, <2>4
<1> QED BY <1>1, <1>2, <1>3 DEF Choice

\* A step of c that changes no number in flight and is right for c.
LEMMA OneMoves ==
    ASSUME ChoiceInv, NEW c \in Callers, CounterInv', ChoiceTypes', Choice(c)',
           \A id \in Ids : InFlight(id)' = InFlight(id),
           \A d \in Callers \ {c} :
              /\ step'[d] = step[d] /\ pair'[d] = pair[d] /\ score'[d] = score[d]
              /\ chosen'[d] = chosen[d] /\ among'[d] = among[d] /\ quiet'[d] = quiet[d]
    PROVE  ChoiceInv'
<1>1. \A d \in Callers \ {c} : Choice(d)'
  BY ChoiceKept
<1> QED BY <1>1 DEF ChoiceInv

\* A step that ends the history of every caller it concerns.
LEMMA NobodyQuiet ==
    ASSUME CounterInv', ChoiceTypes', \A d \in Callers : ~quiet'[d]
    PROVE  ChoiceInv'
  BY DEF ChoiceInv, Choice

LEMMA ListIds ==
    ASSUME NEW list \in Lists
    PROVE  ToSet(list) \in SUBSET Ids
<1>1. list \in Seq(Ids)
  OBVIOUS
<1> QED BY <1>1 DEF ToSet

LEMMA ChoiceSelects ==
    ASSUME ChoiceInv, CounterInv', NEW c \in Callers, NEW list \in Lists,
           SelectOnly(c, list) \/ SelectTwo(c, list)
    PROVE  ChoiceInv'
<1> USE DEF Go
<1>1. \A id \in Ids : InFlight(id)' = InFlight(id)
  BY DEF SelectOnly, SelectTwo, InFlight
<1>2. \A d \in Callers \ {c} :
         /\ step'[d] = step[d] /\ pair'[d] = pair[d] /\ score'[d] = score[d]
         /\ chosen'[d] = chosen[d] /\ among'[d] = among[d] /\ quiet'[d] = quiet[d]
  BY DEF SelectOnly, SelectTwo, ChoiceInv, ChoiceTypes, CounterInv, CounterTypes
<1>3. ChoiceTypes'
  <2>1. ToSet(list) \in SUBSET Ids
    BY ListIds
  <2>2. /\ score' = score /\ among' = [among EXCEPT ![c] = ToSet(list)]
        /\ quiet' = quiet \/ quiet' = [quiet EXCEPT ![c] = TRUE]
    BY DEF SelectOnly, SelectTwo
  <2> QED BY <2>1, <2>2 DEF ChoiceInv, ChoiceTypes
<1>4. CASE SelectOnly(c, list)
  <2>1. ~quiet'[c]
    BY <1>4 DEF SelectOnly, ChoiceInv, Choice
  <2> QED BY <1>1, <1>2, <1>3, <2>1, OneMoves DEF Choice
<1>5. CASE SelectTwo(c, list)
  <2>1. PICK pick \in Picks(Len(list)) : pair' = [pair EXCEPT ![c] = <<list[pick[1]], list[pick[2]]>>]
    BY <1>5 DEF SelectTwo
  <2>2. /\ list[pick[1]] # list[pick[2]]
        /\ list[pick[1]] \in ToSet(list) /\ list[pick[2]] \in ToSet(list)
    BY <1>5, PicksApart DEF SelectTwo
  <2>3. pair'[c] = <<list[pick[1]], list[pick[2]]>>
    BY <2>1 DEF ChoiceInv, CounterInv, CounterTypes
  <2>4. step'[c] = "first" /\ among'[c] = ToSet(list)
    BY <1>5 DEF SelectTwo, ChoiceInv, ChoiceTypes, CounterInv, CounterTypes
  <2>5. Choice(c)'
    BY <2>2, <2>3, <2>4 DEF Choice
  <2> QED BY <1>1, <1>2, <1>3, <2>5, OneMoves
<1> QED BY <1>4, <1>5

LEMMA ChoiceScores ==
    ASSUME ChoiceInv, CounterInv', NEW c \in Callers, ScoreFirst(c) \/ ScoreSecond(c)
    PROVE  ChoiceInv'
<1> USE DEF Go
<1>1. \A id \in Ids : InFlight(id)' = InFlight(id)
  BY DEF ScoreFirst, ScoreSecond, InFlight
<1>2. \A d \in Callers \ {c} :
         /\ step'[d] = step[d] /\ pair'[d] = pair[d] /\ score'[d] = score[d]
         /\ chosen'[d] = chosen[d] /\ among'[d] = among[d] /\ quiet'[d] = quiet[d]
  BY DEF ScoreFirst, ScoreSecond, ChoiceInv, ChoiceTypes, CounterInv, CounterTypes
<1>3. /\ Choice(c) /\ c \in DOMAIN step /\ c \in DOMAIN pair /\ c \in DOMAIN chosen
      /\ c \in DOMAIN score /\ score[c] \in Int
  BY DEF ChoiceInv, ChoiceTypes, CounterInv, CounterTypes
<1>4. pair[c] \in Ids \X Ids
  BY DEF ScoreFirst, ScoreSecond, ChoiceInv, CounterInv, Compares
<1>5. PICK i \in Ids, j \in Ids : pair[c] = <<i, j>>
  BY <1>4
<1>6. InFlight(i) \in Int /\ InFlight(j) \in Int
  BY <1>5, InFlightInt DEF ChoiceInv
<1>7. CASE ScoreFirst(c)
  <2>1. ChoiceTypes'
    BY <1>5, <1>6, <1>7 DEF ScoreFirst, ChoiceInv, ChoiceTypes
  <2>2. Choice(c)'
    <3>1. score'[c] = InFlight(i) /\ step'[c] = "second"
      BY <1>3, <1>5, <1>7 DEF ScoreFirst
    <3>2. InFlight(i)' = InFlight(i) /\ pair'[c] = <<i, j>>
      BY <1>1, <1>5, <1>7 DEF ScoreFirst
    <3>3. score'[c] = InFlight(pair[c][1])'
      BY <3>1, <3>2, <1>7 DEF ScoreFirst, InFlight
    <3> QED BY <1>3, <1>5, <1>7, <3>1, <3>3 DEF ScoreFirst, Choice
  <2> QED BY <1>1, <1>2, <2>1, <2>2, OneMoves
<1>8. CASE ScoreSecond(c)
  <2>1. ChoiceTypes'
    BY <1>8 DEF ScoreSecond, ChoiceInv, ChoiceTypes
  <2>2. Choice(c)'
    <3> SUFFICES ASSUME quiet[c] PROVE Choice(c)'
      BY <1>8 DEF ScoreSecond, Choice
    <3>1. score[c] = InFlight(i) /\ i # j /\ i \in among[c] /\ j \in among[c]
      BY <1>3, <1>5, <1>8 DEF ScoreSecond, Choice
    <3>2. chosen'[c] = IF NoBusier(i, InFlight(i), j, InFlight(j)) THEN i ELSE j
      BY <1>3, <1>5, <1>8, <3>1 DEF ScoreSecond
    <3>3. step'[c] = "chosen" /\ among'[c] = among[c] /\ quiet'[c]
      BY <1>3, <1>8 DEF ScoreSecond
    <3>4. InFlight(i)' = InFlight(i) /\ InFlight(j)' = InFlight(j)
      BY <1>1
    <3>5. PICK me \in {i, j}, other \in {i, j} :
             chosen'[c] = me /\ other # me /\ NoBusier(me, InFlight(me), other, InFlight(other))
      BY <1>6, <3>1, <3>2, OneNoBusier
    <3>6. InFlight(chosen[c])' = InFlight(me) /\ InFlight(other)' = InFlight(other)
      BY <1>1, <3>5 DEF InFlight
    <3> QED BY <3>1, <3>3, <3>5, <3>6 DEF Choice
  <2> QED BY <1>1, <1>2, <2>1, <2>2, OneMoves
<1> QED BY <1>7, <1>8

LEMMA ChoiceEnds ==
    ASSUME ChoiceInv, CounterInv', NEW c \in Callers, Return(c) \/ Lookup(c)
    PROVE  ChoiceInv'
<1> USE DEF Go
<1>1. \A id \in Ids : InFlight(id)' = InFlight(id)
  BY DEF Return, Lookup, InFlight
<1>2. \A d \in Callers \ {c} :
         /\ step'[d] = step[d] /\ pair'[d] = pair[d] /\ score'[d] = score[d]
         /\ chosen'[d] = chosen[d] /\ among'[d] = among[d] /\ quiet'[d] = quiet[d]
  BY DEF Return, Lookup, ChoiceInv, ChoiceTypes, CounterInv, CounterTypes
<1>3. ChoiceTypes' /\ ~quiet'[c]
  BY DEF Return, Lookup, ChoiceInv, ChoiceTypes
<1> QED BY <1>1, <1>2, <1>3, OneMoves DEF Choice

\* A counter that is made has nothing in flight, like the instance that had none.
LEMMA ChoiceInserts ==
    ASSUME ChoiceInv, CounterInv', NEW c \in Callers, Insert(c)
    PROVE  ChoiceInv'
<1> USE DEF Go
<1>1. \A id \in Ids : InFlight(id)' = InFlight(id)
  <2>0. PICK i \in Ids : i = chosen[c]
    BY DEF Insert, ChoiceInv, CounterInv, Chooses
  <2>1. PICK a \in IF inflight[i] = None THEN Unused ELSE {inflight[i]} :
           inflight' = [inflight EXCEPT ![i] = a]
    BY <2>0 DEF Insert
  <2>2. count' = count /\ inflight \in [Ids -> Arcs \cup {None}]
    BY DEF Insert, ChoiceInv, CounterInv, CounterTypes
  <2>3. CASE inflight[i] # None
    <3>1. inflight' = inflight
      BY <2>1, <2>2, <2>3
    <3> QED BY <2>2, <3>1 DEF InFlight
  <2>4. CASE inflight[i] = None
    <3>1. a \in Arcs /\ a # None /\ \A id \in Ids : inflight[id] # a
      BY <2>1, <2>4 DEF Unused
    <3>2. count[a] = 0
      BY <3>1 DEF ChoiceInv, CounterInv, NewZero
    <3> QED BY <2>1, <2>2, <2>4, <3>1, <3>2 DEF InFlight
  <2> QED BY <2>3, <2>4
<1>2. \A d \in Callers \ {c} :
         /\ step'[d] = step[d] /\ pair'[d] = pair[d] /\ score'[d] = score[d]
         /\ chosen'[d] = chosen[d] /\ among'[d] = among[d] /\ quiet'[d] = quiet[d]
  BY DEF Insert
<1>3. ChoiceTypes' /\ ~quiet'[c]
  BY DEF Insert, ChoiceInv, ChoiceTypes, Choice
<1> QED BY <1>1, <1>2, <1>3, OneMoves DEF Choice

LEMMA ChoiceStep ==
    ASSUME ChoiceInv, [P2CNext]_p2cVars, CounterInv'
    PROVE  ChoiceInv'
<1>1. CASE UNCHANGED p2cVars
  <2>1. \A id \in Ids : InFlight(id)' = InFlight(id)
    BY <1>1 DEF p2cVars, InFlight
  <2>2. \A d \in Callers : Choice(d)'
    BY <1>1, <2>1, ChoiceKept DEF p2cVars
  <2> QED BY <1>1, <2>2 DEF ChoiceInv, ChoiceTypes, p2cVars
<1>2. ASSUME NEW c \in Callers, Acquire(c) \/ DropGuard(c)
      PROVE  ChoiceInv'
  BY <1>2, NobodyQuiet DEF Acquire, DropGuard, ChoiceInv, ChoiceTypes
<1> QED BY <1>1, <1>2, ChoiceSelects, ChoiceScores, ChoiceEnds, ChoiceInserts DEF P2CNext

\* A select during which no request begins or ends does not choose the one instance that is busier
\* for its weight than every other, whatever the weights and the list.
THEOREM BusiestIsNotChosen == P2CSpec => []BusiestLoses
<1>1. ChoiceInv /\ [P2CNext]_p2cVars => ChoiceInv'
  BY CounterStep, ChoiceStep DEF ChoiceInv
<1>2. ChoiceInv => BusiestLoses
  BY DEF ChoiceInv, Choice, BusiestLoses
<1> QED BY <1>1, <1>2, ChoiceInit, PTL DEF P2CSpec

-----------------------------------------------------------------------------
(* The types: no counter and no score falls below zero. *)

LEMMA InFlightNat ==
    ASSUME CounterInv, NEW id \in Ids
    PROVE  InFlight(id) \in Nat
<1>1. InFlight(id) = Cardinality(Guards(id))
  BY DEF CounterInv, InFlightIsGuards
<1> QED BY <1>1, GuardsFinite, FS_CardinalityType

LEMMA CountNat ==
    ASSUME CounterInv
    PROVE  count \in [Arcs -> Nat]
<1>1. ASSUME NEW a \in Arcs PROVE count[a] \in Nat
  <2>1. CASE \E id \in Ids : inflight[id] = a
    <3>1. PICK id \in Ids : inflight[id] = a
      BY <2>1
    <3>2. count[a] = InFlight(id)
      BY <3>1 DEF InFlight
    <3> QED BY <3>2, InFlightNat
  <2>2. CASE \A id \in Ids : inflight[id] # a
    BY <2>2 DEF CounterInv, NewZero
  <2> QED BY <2>1, <2>2
<1> QED BY <1>1 DEF CounterInv, CounterTypes

ScoresCount == score \in [Callers -> Nat]

LEMMA ScoreNat ==
    ASSUME CounterInv, ScoresCount, [P2CNext]_p2cVars
    PROVE  ScoresCount'
<1> USE DEF ScoresCount
<1>1. ASSUME NEW c \in Callers, ScoreFirst(c) PROVE score' \in [Callers -> Nat]
  <2>1. PICK i \in Ids, j \in Ids : pair[c] = <<i, j>>
    BY <1>1 DEF ScoreFirst, Go, CounterInv, Compares
  <2>2. score' = [score EXCEPT ![c] = InFlight(i)]
    BY <1>1, <2>1 DEF ScoreFirst
  <2> QED BY <2>2, InFlightNat
<1>2. ASSUME NEW c \in Callers, ScoreSecond(c) PROVE score' \in [Callers -> Nat]
  BY <1>2 DEF ScoreSecond
<1>3. ASSUME NEW c \in Callers, NEW list \in Lists,
             SelectOnly(c, list) \/ SelectTwo(c, list) \/ Return(c) \/ Lookup(c) \/ Insert(c)
             \/ Acquire(c) \/ DropGuard(c)
      PROVE  score' = score
  BY <1>3 DEF SelectOnly, SelectTwo, Return, Lookup, Insert, Acquire, DropGuard
<1>4. ASSUME NEW c \in Callers, Return(c) \/ Lookup(c) \/ Insert(c) \/ Acquire(c) \/ DropGuard(c)
      PROVE  score' = score
  BY <1>4 DEF Return, Lookup, Insert, Acquire, DropGuard
<1> QED BY <1>1, <1>2, <1>3, <1>4 DEF P2CNext, p2cVars

\* The type of every variable; a counter never falls below zero (p2c.rs:15-19).
THEOREM P2CTypeCorrect == P2CSpec => []P2CTypeOK
<1>1. P2CInit => ScoresCount
  BY DEF P2CInit, ScoresCount
<1>2. ChoiceInv /\ [P2CNext]_p2cVars => ChoiceInv'
  BY CounterStep, ChoiceStep DEF ChoiceInv
<1>3. ChoiceInv /\ ScoresCount => P2CTypeOK
  BY CountNat DEF ScoresCount, ChoiceInv, ChoiceTypes, CounterInv, CounterTypes, P2CTypeOK
<1>4. ChoiceInv => CounterInv
  BY DEF ChoiceInv
<1> QED BY <1>1, <1>2, <1>3, <1>4, ChoiceInit, ScoreNat, PTL DEF P2CSpec
=============================================================================
