--------------------------- MODULE DiscoverProofs ----------------------------
(***************************************************************************)
(* Discover: its type invariant, and that the consumer of a bridge follows  *)
(* the lists that were notified, for any lists, any number of appliers and  *)
(* every capacity of the channel.                                           *)
(***************************************************************************)
EXTENDS Discover, FeedsProofs

-----------------------------------------------------------------------------
(* The inductive invariant. *)

\* Nothing is to be sent when nobody sends, and the consumer has nothing before it has the bridge.
Resting ==
    /\ busy = None => todo = {}
    /\ busy # None => bridge = "ready" /\ pending[busy] # None
    /\ bridge # "send" => initial = {}
    /\ bridge # "ready" => view = Empty
    /\ bridge = "idle" => chan = <<>>

\* An id is inserted once at most, and all that is sent initially are Inserts.
LoneInserts ==
    /\ \A c \in initial : c.val # Absent
    /\ \A c, d \in initial \cup todo :
          c.id = d.id /\ c.val # Absent /\ d.val # Absent => c = d

\* What the consumer ends up with for an id, for either bridge.
Right(i, v) ==
    /\ v = Absent <=> Connectable(Followed)[i] = Absent
    /\ kind = "tonic" => v = Connectable(Followed)[i]

Follows == ~dropped => \A i \in Ids : \E v \in Vals \cup {Absent} : EndsUp(i, v) /\ Right(i, v)

IInv == TypeOK /\ Resting /\ LoneInserts /\ Follows

-----------------------------------------------------------------------------
(* What the bridges make of lists. *)

LEMMA ListTypes ==
    ASSUME NEW list \in Lists
    PROVE  /\ Known(list) \in Lists /\ Connectable(list) \in Lists
           /\ DOMAIN list = Ids /\ Members(list) \subseteq Ids
           /\ \A i \in Ids : Connectable(Known(list))[i] = Connectable(list)[i]
           /\ \A i \in Ids : Connectable(Connectable(list))[i] = Connectable(list)[i]
<1>1. DOMAIN list = Ids /\ \A i \in Ids : list[i] \in Vals \cup {Absent}
  BY DEF Lists
<1>2. Known(list) \in Lists /\ Connectable(list) \in Lists
  BY <1>1 DEF Known, Connectable, Lists
<1>3. DOMAIN Known(list) = Ids /\ DOMAIN Connectable(list) = Ids
  BY <1>2 DEF Lists
<1> QED BY <1>1, <1>2, <1>3 DEF Known, Connectable, Members

LEMMA InsertsShape ==
    ASSUME NEW list \in Lists, NEW S \in SUBSET Ids
    PROVE  /\ Inserts(S, list) \subseteq Changes
           /\ \A c \in Inserts(S, list) :
                 c.id \in S /\ c.val = list[c.id] /\ c.val = Connectable(list)[c.id] /\ c.val # Absent
           /\ \A i \in S : Connectable(list)[i] # Absent =>
                 [id |-> i, val |-> Connectable(list)[i]] \in Inserts(S, list)
<1>1. \A i \in Ids : /\ list[i] \in Vals \cup {Absent}
                     /\ Connectable(list)[i] # Absent => Connectable(list)[i] = list[i]
  BY DEF Lists, Connectable
<1> QED BY <1>1 DEF Inserts, InsertOf, Changes

LEMMA RemovesShape ==
    ASSUME NEW S \in SUBSET Ids
    PROVE  /\ Removes(S) \subseteq Changes
           /\ \A c \in Removes(S) : c.id \in S /\ c.val = Absent /\ c = RemoveOf(c.id)
           /\ \A i \in S : RemoveOf(i) \in Removes(S)
BY DEF Removes, RemoveOf, Changes

\* Of every id the differences say what it comes to, if that is not what it is known to be.
LEMMA DiffsShape ==
    ASSUME NEW list \in Lists, known \in Lists, kind \in {"tower", "tonic"}
    PROVE  /\ Diffs(list) \subseteq Changes
           /\ \A c \in Diffs(list) : \/ c = RemoveOf(c.id) /\ known[c.id] # Absent
                                     \/ c.val = Connectable(list)[c.id] /\ c.val # Absent
           /\ \A i \in Ids : Connectable(known)[i] = Absent /\ Connectable(list)[i] # Absent
                => [id |-> i, val |-> Connectable(list)[i]] \in Diffs(list)
           /\ \A i \in Ids : Connectable(known)[i] # Absent /\ Connectable(list)[i] = Absent
                => RemoveOf(i) \in Diffs(list)
           /\ kind = "tonic" => \A i \in Ids :
                Connectable(list)[i] \notin {Absent, Connectable(known)[i]}
                => [id |-> i, val |-> Connectable(list)[i]] \in Diffs(list)
           /\ \A i \in Ids : RemoveOf(i) \in Diffs(list)
                => \/ Connectable(list)[i] = Absent
                   \/ [id |-> i, val |-> Connectable(list)[i]] \in Diffs(list)
<1>1. /\ \A i \in Ids : list[i] \in Vals \cup {Absent} /\ known[i] \in Vals \cup {Absent}
      /\ DOMAIN list = Ids /\ DOMAIN known = Ids
      /\ Members(list) \subseteq Ids /\ Members(known) \subseteq Ids
  BY ListTypes DEF Lists
<1>2. CASE kind = "tower"
  <2> DEFINE gone == Members(known) \ Members(list)
             new  == Members(list) \ Members(known)
  <2>1. Diffs(list) = Removes(gone) \cup Inserts(new, list) /\ gone \subseteq Ids /\ new \subseteq Ids
    BY <1>1, <1>2 DEF Diffs, TowerDiffs
  <2>2. \A i \in Ids : /\ Connectable(list)[i] = list[i] /\ Connectable(known)[i] = known[i]
                       /\ i \in gone <=> known[i] # Absent /\ list[i] = Absent
                       /\ i \in new  <=> known[i] = Absent /\ list[i] # Absent
    BY <1>1, <1>2 DEF Connectable, Members
  <2> HIDE DEF gone, new
  <2>3. /\ Inserts(new, list) \subseteq Changes
        /\ \A c \in Inserts(new, list) :
              c.id \in new /\ c.val = Connectable(list)[c.id] /\ c.val # Absent
        /\ \A i \in new : Connectable(list)[i] # Absent =>
              [id |-> i, val |-> Connectable(list)[i]] \in Inserts(new, list)
    BY <2>1, InsertsShape
  <2>4. /\ Removes(gone) \subseteq Changes
        /\ \A c \in Removes(gone) : c.id \in gone /\ c.val = Absent /\ c = RemoveOf(c.id)
        /\ \A i \in gone : RemoveOf(i) \in Removes(gone)
    BY <2>1, RemovesShape
  <2>5. \A i : RemoveOf(i).id = i /\ RemoveOf(i).val = Absent
    BY DEF RemoveOf
  <2> QED BY <1>2, <2>1, <2>2, <2>3, <2>4, <2>5
<1>3. CASE kind = "tonic"
  <2> DEFINE other == {i \in DOMAIN list : known[i] # Known(list)[i]}
             gone == Members(known) \cap other
             new  == Members(Known(list)) \cap other
  <2>1. Diffs(list) = Removes(gone) \cup Inserts(new, list) /\ gone \subseteq Ids /\ new \subseteq Ids
    BY <1>1, <1>3 DEF Diffs, TonicDiffs
  <2>2. \A i \in Ids :
          /\ i \in gone <=> known[i] # Absent /\ known[i] # Known(list)[i]
          /\ i \in new  <=> Known(list)[i] # Absent /\ known[i] # Known(list)[i]
          /\ Connectable(list)[i] # Absent => Known(list)[i] = Connectable(list)[i]
          /\ known[i] = Known(list)[i] => Connectable(known)[i] = Connectable(list)[i]
          /\ known[i] = Absent => Connectable(known)[i] = Absent
    <3>1. DOMAIN Known(list) = Ids
      BY <1>1 DEF Known
    <3> QED BY <1>1, <1>3, <3>1 DEF Connectable, Members, Known
  <2> HIDE DEF gone, new
  <2>3. /\ Inserts(new, list) \subseteq Changes
        /\ \A c \in Inserts(new, list) :
              c.id \in new /\ c.val = Connectable(list)[c.id] /\ c.val # Absent
        /\ \A i \in new : Connectable(list)[i] # Absent =>
              [id |-> i, val |-> Connectable(list)[i]] \in Inserts(new, list)
    BY <2>1, InsertsShape
  <2>4. /\ Removes(gone) \subseteq Changes
        /\ \A c \in Removes(gone) : c.id \in gone /\ c.val = Absent /\ c = RemoveOf(c.id)
        /\ \A i \in gone : RemoveOf(i) \in Removes(gone)
    BY <2>1, RemovesShape
  <2>5. \A i : RemoveOf(i).id = i /\ RemoveOf(i).val = Absent
    BY DEF RemoveOf
  <2>6. \A i \in Ids : i \in gone /\ Connectable(list)[i] # Absent => i \in new
    BY <2>2
  <2> QED BY <1>3, <2>1, <2>2, <2>3, <2>4, <2>5, <2>6
<1> QED BY <1>2, <1>3

-----------------------------------------------------------------------------
(* What becomes of what the consumer ends up with. *)

LEMMA EndsUpType ==
    ASSUME TypeOK
    PROVE  chan \in Seq(Changes) /\ DOMAIN view = Ids /\ initial \cup todo \subseteq Changes
BY DEF TypeOK, Lists

\* A change is put into the channel: it was left, and its removal, if there is one, has gone.
LEMMA SendKeeps ==
    ASSUME TypeOK, LoneInserts, view' = view,
           NEW c \in initial \cup todo,
           initial' \cup todo' = (initial \cup todo) \ {c},
           chan' = Append(chan, c),
           c.val # Absent => RemoveOf(c.id) \notin initial \cup todo,
           NEW i \in Ids, NEW v \in Vals \cup {Absent}, EndsUp(i, v)
    PROVE  EndsUp(i, v)'
<1> DEFINE left == {d \in initial \cup todo : d.id = i}
           leftNext == {d \in initial' \cup todo' : d.id = i}
<1>1. leftNext = left \ {c}
  OBVIOUS
<1>2. chan \in Seq(Changes) /\ c \in Changes
  BY EndsUpType
<1>3. EndsWith(view', chan', i, v) <=> IF c.id = i THEN c.val = v ELSE EndsWith(view, chan, i, v)
  BY <1>2, EndsAppend
<1>4. CASE c.id # i
  <2>1. leftNext = left
    BY <1>1, <1>4
  <2> QED BY <2>1, <1>3, <1>4 DEF EndsUp
<1>5. CASE c.id = i
  <2>1. c \in left /\ [id |-> i, val |-> v] \in left /\ (v = Absent => left = {RemoveOf(i)})
    BY <1>5 DEF EndsUp
  <2>2. CASE c.val = v
    <3>1. leftNext = {}
      <4>1. CASE v = Absent
        BY <1>1, <2>1, <4>1
      <4>2. CASE v # Absent
        <5>1. ASSUME NEW d \in left PROVE d = c
          <6>1. d.val # Absent => d = c
            BY <1>5, <2>2, <4>2 DEF LoneInserts
          <6>2. d.val = Absent => d = RemoveOf(c.id)
            <7>1. d \in Changes /\ d.id = c.id
              BY <1>5, EndsUpType
            <7> QED BY <7>1 DEF Changes, RemoveOf
          <6> QED BY <6>1, <6>2, <2>2, <4>2
        <5> QED BY <1>1, <5>1
      <4> QED BY <4>1, <4>2
    <3> QED BY <1>3, <1>5, <2>2, <3>1 DEF EndsUp
  <2>3. CASE c.val # v
    <3>1. v # Absent
      BY <2>1, <2>3 DEF RemoveOf
    <3>2. [id |-> i, val |-> v] \in leftNext
      BY <1>1, <2>1, <2>3
    <3> QED BY <3>1, <3>2 DEF EndsUp
  <2> QED BY <2>2, <2>3
<1> QED BY <1>4, <1>5

\* The consumer reads a change.
LEMMA ReadKeeps ==
    ASSUME TypeOK, chan # <<>>, chan' = Tail(chan),
           view' = [view EXCEPT ![Head(chan).id] = Head(chan).val],
           UNCHANGED <<initial, todo>>,
           NEW i \in Ids, NEW v \in Vals \cup {Absent}, EndsUp(i, v)
    PROVE  EndsUp(i, v)'
<1>1. chan \in Seq(Changes) /\ DOMAIN view = Ids
  BY EndsUpType
<1>2. Head(chan) \in Changes
  BY <1>1
<1>3. view' = Patch(view, Head(chan))
  BY <1>1, <1>2 DEF Patch, Changes
<1>4. EndsWith(view, chan, i, v) => EndsWith(view', chan', i, v)
  BY <1>1, <1>3, EndsTail
<1> QED BY <1>4 DEF EndsUp

\* Nothing that is sent, on its way or read changes, and the list that is followed is as good.
LEMMA QuietKeeps ==
    ASSUME TypeOK, Follows, UNCHANGED <<initial, todo, chan, view, dropped, kind>>,
           \A i \in Ids : Connectable(Followed)'[i] = Connectable(Followed)[i]
    PROVE  Follows'
<1>1. \A i, v : EndsUp(i, v)' <=> EndsUp(i, v)
  BY DEF EndsUp
<1>2. \A i \in Ids : \A v : Right(i, v)' <=> Right(i, v)
  BY DEF Right
<1> QED BY <1>1, <1>2 DEF Follows

-----------------------------------------------------------------------------
(* The steps. *)

LEMMA InitOK == ASSUME Named PROVE Init => IInv
<1> SUFFICES ASSUME Init PROVE IInv
  OBVIOUS
<1>1. <<>> \in Seq(Changes) /\ Len(<<>>) = 0 /\ Empty \in Lists /\ Cap \in Nat /\ MaxWrites \in Nat
  BY DEF Empty, Lists, Named
<1>2. TypeOK
  <2>1. pending = [a \in Appliers |-> None] /\ pending \in [Appliers -> Lists \cup {None}]
    BY DEF Init
  <2>2. writes \in 0..MaxWrites /\ chan \in Seq(Changes) /\ Len(chan) <= Cap
    BY <1>1 DEF Init, Named
  <2>3. kind \in {"tower", "tonic"} /\ known \in Lists /\ view \in Lists
    BY <1>1 DEF Init
  <2> QED BY <2>1, <2>2, <2>3 DEF Init, TypeOK
<1>3. Resting /\ LoneInserts
  BY DEF Init, Resting, LoneInserts
<1>4. ASSUME NEW i \in Ids PROVE EndsUp(i, Absent) /\ Right(i, Absent)
  BY DEF Init, EndsUp, EndsWith, Empty, Right, Followed, Connectable
<1> QED BY <1>2, <1>3, <1>4 DEF IInv, Follows

LEMMA HandOK ==
    ASSUME Named, IInv, NEW a \in Appliers, NEW list \in Lists, Hand(a, list),
           writes' \in 0..MaxWrites
    PROVE  IInv'
<1>1. None \notin Lists /\ busy # a
  BY DEF Hand, IInv, Resting, Named, Lists
<1>2. TypeOK'
  BY DEF Hand, IInv, TypeOK
<1>3. Resting' /\ LoneInserts'
  BY <1>1 DEF Hand, IInv, TypeOK, Resting, LoneInserts
<1>4. Followed' = Followed /\ \A l : Connectable(l)' = Connectable(l)
  BY <1>1 DEF Hand, IInv, TypeOK, Followed, Connectable
<1>5. Connectable(Followed)' = Connectable(Followed)
  BY <1>4 DEF Hand, Connectable
<1>6. Follows'
  BY <1>5, QuietKeeps DEF Hand, IInv
<1> QED BY <1>2, <1>3, <1>6 DEF IInv

LEMMA NotifyNobodyOK ==
    ASSUME Named, IInv, NEW a \in Appliers, NotifyNobody(a) PROVE IInv'
<1>1. busy = None
  BY DEF NotifyNobody, IInv, Resting
<1>2. TypeOK'
  BY DEF NotifyNobody, IInv, TypeOK
<1>3. Resting' /\ LoneInserts'
  BY <1>1 DEF NotifyNobody, IInv, Resting, LoneInserts
<1>4. Connectable(Followed)' = Connectable(Followed)
  BY <1>1 DEF NotifyNobody, Followed, Connectable
<1>5. Follows'
  BY <1>4, QuietKeeps DEF NotifyNobody, IInv
<1> QED BY <1>2, <1>3, <1>5 DEF IInv

LEMMA NotifyBeginOK ==
    ASSUME Named, IInv, NEW a \in Appliers, NotifyBegin(a) PROVE IInv'
<1> DEFINE list == pending[a]
<1>1. /\ list \in Lists /\ known \in Lists /\ kind \in {"tower", "tonic"}
      /\ a # None /\ busy = None /\ todo = {} /\ initial = {}
  BY DEF NotifyBegin, IInv, TypeOK, Resting, Named
<1>2. busy' = a /\ todo' = Diffs(list) /\ UNCHANGED <<kind, pending, initial, known, chan, view, dropped>>
  BY DEF NotifyBegin
<1> HIDE DEF list
<1>3. TypeOK'
  BY <1>1, <1>2, DiffsShape DEF NotifyBegin, IInv, TypeOK
<1>4. Resting'
  BY <1>1, <1>2 DEF NotifyBegin, IInv, Resting
<1>5. \A c \in Diffs(list) : c \in Changes /\ (c.val # Absent => c.val = Connectable(list)[c.id])
  BY <1>1, DiffsShape DEF RemoveOf
<1>6. LoneInserts'
  <2>1. \A c, d \in Changes : c.id = d.id /\ c.val = d.val => c = d
    BY DEF Changes
  <2> QED BY <1>1, <1>2, <1>5, <2>1 DEF LoneInserts
<1>7. Followed' = list /\ Followed = known
  BY <1>1, <1>2 DEF Followed, list
<1>8. Connectable(Followed)' = Connectable(list)
  BY <1>2, <1>7 DEF Connectable
<1>9. ASSUME ~dropped', NEW i \in Ids
      PROVE  \E v \in Vals \cup {Absent} : EndsUp(i, v)' /\ Right(i, v)'
  <2>0. PICK w : w = Connectable(list)[i]
    OBVIOUS
  <2> DEFINE left == {c \in todo' : c.id = i}
  <2>1. PICK v \in Vals \cup {Absent} : EndsUp(i, v) /\ Right(i, v)
    BY <1>2, <1>9 DEF IInv, Follows
  <2>2. EndsWith(view, chan, i, v)
    BY <1>1, <2>1 DEF EndsUp
  <2>3. w \in Vals \cup {Absent} /\ Right(i, w)'
    <3>1. w \in Vals \cup {Absent} /\ w = Connectable(list)[i]
      BY <1>1, <2>0, ListTypes DEF Lists
    <3> QED BY <1>8, <3>1 DEF Right
  <2>4. \A u : EndsUp(i, u)' <=>
          IF left = {}
          THEN EndsWith(view, chan, i, u)
          ELSE [id |-> i, val |-> u] \in left /\ (u = Absent => left = {RemoveOf(i)})
    BY <1>1, <1>2 DEF EndsUp, RemoveOf
  <2>5. CASE left = {}
    <3>0. \A u : [id |-> i, val |-> u] \notin Diffs(list) /\ RemoveOf(i) \notin Diffs(list)
      <4>1. \A u : [id |-> i, val |-> u].id = i /\ RemoveOf(i).id = i
        BY DEF RemoveOf
      <4> QED BY <4>1, <1>2, <2>5
    <3>1. /\ Connectable(known)[i] = Absent <=> w = Absent
          /\ kind = "tonic" => w = Connectable(known)[i]
      BY <1>1, <2>0, <3>0, DiffsShape
    <3>2. Right(i, v)'
      BY <1>2, <1>7, <1>8, <2>0, <2>1, <3>1 DEF Right
    <3> QED BY <2>2, <2>4, <2>5, <3>2
  <2>6. CASE left # {} /\ w = Absent
    <3>1. ASSUME NEW c \in left PROVE c = RemoveOf(i)
      BY <1>1, <1>2, <2>0, <2>6, DiffsShape
    <3>2. left = {RemoveOf(i)} /\ RemoveOf(i) = [id |-> i, val |-> w]
      BY <2>6, <3>1 DEF RemoveOf
    <3>3. EndsUp(i, w)'
      BY <2>4, <2>6, <3>2
    <3> QED BY <2>3, <3>3
  <2>7. CASE left # {} /\ w # Absent
    <3>1. [id |-> i, val |-> w] \in Diffs(list)
      <4>1. PICK c \in left : TRUE
        BY <2>7
      <4>2. c \in Diffs(list) /\ c.id = i /\ c \in Changes
        BY <1>2, <1>5
      <4>3. CASE c = RemoveOf(c.id)
        BY <1>1, <2>0, <2>7, <4>2, <4>3, DiffsShape
      <4>4. CASE c.val = w
        BY <4>2, <4>4 DEF Changes
      <4> QED BY <1>1, <2>0, <4>2, <4>3, <4>4, DiffsShape
    <3>2. EndsUp(i, w)'
      BY <1>2, <2>4, <2>7, <3>1
    <3> QED BY <2>3, <3>2
  <2> QED BY <2>5, <2>6, <2>7
<1> QED BY <1>3, <1>4, <1>6, <1>9 DEF IInv, Follows

LEMMA TrySendOK == ASSUME Named, IInv, TrySend PROVE IInv'
<1>1. PICK c \in Due :
        /\ todo' = todo \ {c}
        /\ IF Len(chan) < Cap
           THEN chan' = Append(chan, c) /\ UNCHANGED dropped
           ELSE dropped' = TRUE /\ UNCHANGED chan
        /\ UNCHANGED <<kind, writes, pending, bridge, initial, known, busy, view>>
  BY DEF TrySend
<1>2. c \in todo /\ c \in Changes /\ chan \in Seq(Changes)
  BY DEF Due, Turned, IInv, TypeOK
<1>3. busy # None /\ initial = {}
  BY <1>2 DEF IInv, Resting
<1>4. TypeOK'
  <2>1. chan' \in Seq(Changes) /\ Len(chan') <= Cap
    BY <1>1, <1>2 DEF IInv, TypeOK, Named
  <2>2. dropped' \in BOOLEAN
    BY <1>1 DEF IInv, TypeOK
  <2> QED BY <1>1, <2>1, <2>2 DEF IInv, TypeOK
<1>5. Resting' /\ LoneInserts'
  BY <1>1, <1>3 DEF IInv, Resting, LoneInserts
<1>6. ASSUME c.val # Absent, RemoveOf(c.id) \in todo PROVE FALSE
  <2>1. c \notin Turned /\ \A d \in todo : ~Before(d, c)
    BY <1>6 DEF Due, Turned
  <2>2. RemoveOf(c.id).val = Absent
    BY DEF RemoveOf
  <2> QED BY <1>6, <2>1, <2>2 DEF Before
<1>7. ASSUME ~dropped', NEW i \in Ids
      PROVE  \E v \in Vals \cup {Absent} : EndsUp(i, v)' /\ Right(i, v)'
  <2>1. ~dropped /\ chan' = Append(chan, c)
    BY <1>1, <1>7
  <2>2. PICK v \in Vals \cup {Absent} : EndsUp(i, v) /\ Right(i, v)
    BY <2>1 DEF IInv, Follows
  <2>3. EndsUp(i, v)'
    <3>1. initial' \cup todo' = (initial \cup todo) \ {c} /\ c \in initial \cup todo
      BY <1>1, <1>2, <1>3
    <3> QED BY <1>1, <1>3, <1>6, <2>1, <2>2, <3>1, SendKeeps DEF IInv
  <2>4. Right(i, v)'
    BY <1>1, <2>2 DEF Right, Followed, Connectable
  <2> QED BY <2>3, <2>4
<1> QED BY <1>4, <1>5, <1>7 DEF IInv, Follows

LEMMA NotifyEndOK == ASSUME Named, IInv, NotifyEnd PROVE IInv'
<1> DEFINE list == pending[busy]
<1>1. busy \in Appliers /\ list \in Lists
  BY DEF NotifyEnd, IInv, TypeOK, Resting
<1>2. TypeOK'
  BY <1>1, ListTypes DEF NotifyEnd, IInv, TypeOK
<1>3. Resting' /\ LoneInserts'
  BY DEF NotifyEnd, IInv, Resting, LoneInserts
<1>4. Followed = list /\ Followed' = Known(list)
  BY DEF NotifyEnd, Followed
<1>5. \A i \in Ids : Connectable(Followed)'[i] = Connectable(Followed)[i]
  <2>1. Connectable(Followed)' = Connectable(Known(list))
    BY <1>4 DEF NotifyEnd, Connectable
  <2> QED BY <1>1, <1>4, <2>1, ListTypes
<1>6. Follows'
  BY <1>5, QuietKeeps DEF NotifyEnd, IInv
<1> QED BY <1>2, <1>3, <1>6 DEF IInv

LEMMA LoadListOK ==
    ASSUME Named, IInv, NEW list \in Lists, LoadList(list) PROVE IInv'
<1>1. /\ busy = None /\ todo = {} /\ chan = <<>> /\ view = Empty
      /\ UNCHANGED <<kind, writes, pending, busy, todo, chan, view, dropped>>
      /\ known' = Connectable(list) /\ initial' = Inserts(Ids, list) /\ bridge' = "send"
  BY ListTypes DEF LoadList, IInv, Resting
<1>2. /\ initial' \subseteq Changes
      /\ \A c \in initial' : c.val = Connectable(list)[c.id] /\ c.val # Absent /\ c.id \in Ids
      /\ \A i \in Ids : Connectable(list)[i] # Absent =>
            [id |-> i, val |-> Connectable(list)[i]] \in initial'
  BY <1>1, InsertsShape
<1>3. TypeOK'
  BY <1>1, <1>2, ListTypes DEF IInv, TypeOK
<1>4. Resting' /\ LoneInserts'
  <2>1. \A c, d \in Changes : c.id = d.id /\ c.val = d.val => c = d
    BY DEF Changes
  <2> QED BY <1>1, <1>2, <2>1 DEF Resting, LoneInserts
<1>5. Connectable(Followed)' = Connectable(Connectable(list))
  BY <1>1 DEF Followed, Connectable
<1>6. ASSUME NEW i \in Ids
      PROVE  \E v \in Vals \cup {Absent} : EndsUp(i, v)' /\ Right(i, v)'
  <2>0. PICK v : v = Connectable(list)[i]
    OBVIOUS
  <2> DEFINE left == {c \in initial' : c.id = i}
  <2>1. v \in Vals \cup {Absent} /\ Right(i, v)'
    <3>1. Connectable(list) \in Lists /\ Connectable(Connectable(list))[i] = v
      BY <2>0, ListTypes
    <3>2. v \in Vals \cup {Absent}
      BY <2>0, <3>1 DEF Lists
    <3> QED BY <1>5, <3>1, <3>2 DEF Right
  <2>2. EndsUp(i, v)' <=>
          IF left = {}
          THEN EndsWith(view, chan, i, v)
          ELSE [id |-> i, val |-> v] \in left /\ (v = Absent => left = {RemoveOf(i)})
    BY <1>1 DEF EndsUp, RemoveOf
  <2>3. CASE v = Absent
    <3>1. left = {}
      BY <1>2, <2>0, <2>3
    <3>2. EndsWith(view, chan, i, v)
      BY <1>1, <2>3 DEF EndsWith, Empty
    <3>3. EndsUp(i, v)'
      BY <2>2, <3>1, <3>2
    <3> QED BY <2>1, <3>3
  <2>4. CASE v # Absent
    <3>1. [id |-> i, val |-> v] \in left
      BY <1>2, <2>0, <2>4
    <3>2. EndsUp(i, v)'
      BY <2>2, <2>4, <3>1
    <3> QED BY <2>1, <3>2
  <2> QED BY <2>3, <2>4
<1> QED BY <1>3, <1>4, <1>6 DEF IInv, Follows

LEMMA SendInitialOK == ASSUME Named, IInv, SendInitial PROVE IInv'
<1>1. PICK c \in initial : chan' = Append(chan, c) /\ initial' = initial \ {c}
  BY DEF SendInitial
<1>2. /\ busy = None /\ todo = {} /\ Len(chan) < Cap /\ bridge = "send"
      /\ UNCHANGED <<kind, writes, pending, bridge, known, busy, todo, view, dropped>>
  BY DEF SendInitial, IInv, Resting
<1>3. c \in Changes /\ c.val # Absent /\ chan \in Seq(Changes)
  BY DEF IInv, TypeOK, LoneInserts
<1>4. TypeOK'
  <2>1. chan' \in Seq(Changes) /\ Len(chan') <= Cap
    BY <1>1, <1>2, <1>3 DEF Named
  <2> QED BY <1>1, <1>2, <2>1 DEF IInv, TypeOK
<1>5. Resting' /\ LoneInserts'
  BY <1>1, <1>2 DEF IInv, Resting, LoneInserts
<1>6. RemoveOf(c.id) \notin initial \cup todo
  BY <1>2 DEF IInv, LoneInserts, RemoveOf
<1>7. ASSUME ~dropped', NEW i \in Ids
      PROVE  \E v \in Vals \cup {Absent} : EndsUp(i, v)' /\ Right(i, v)'
  <2>1. PICK v \in Vals \cup {Absent} : EndsUp(i, v) /\ Right(i, v)
    BY <1>2, <1>7 DEF IInv, Follows
  <2>2. EndsUp(i, v)'
    <3>1. initial' \cup todo' = (initial \cup todo) \ {c} /\ c \in initial \cup todo
      BY <1>1, <1>2
    <3> QED BY <1>1, <1>2, <1>6, <2>1, <3>1, SendKeeps DEF IInv
  <2>3. Right(i, v)'
    BY <1>2, <2>1 DEF Right, Followed, Connectable
  <2> QED BY <2>2, <2>3
<1> QED BY <1>4, <1>5, <1>7 DEF IInv, Follows

LEMMA BridgeOK == ASSUME Named, IInv, AllSent \/ Listen PROVE IInv'
<1>1. TypeOK'
  BY DEF AllSent, Listen, IInv, TypeOK
<1>2. Resting' /\ LoneInserts'
  BY DEF AllSent, Listen, IInv, Resting, LoneInserts
<1>3. Connectable(Followed)' = Connectable(Followed)
  BY DEF AllSent, Listen, Followed, Connectable
<1>4. Follows'
  BY <1>3, QuietKeeps DEF AllSent, Listen, IInv
<1> QED BY <1>1, <1>2, <1>4 DEF IInv

LEMMA RecvOK == ASSUME Named, IInv, Recv PROVE IInv'
<1>1. /\ chan # <<>> /\ chan' = Tail(chan) /\ bridge = "ready"
      /\ view' = [view EXCEPT ![Head(chan).id] = Head(chan).val]
      /\ UNCHANGED <<kind, writes, pending, bridge, initial, known, busy, todo, dropped>>
  BY DEF Recv
<1>2. Head(chan) \in Changes /\ Tail(chan) \in Seq(Changes) /\ Len(Tail(chan)) <= Cap
  BY <1>1 DEF IInv, TypeOK, Named
<1>3. TypeOK'
  <2>1. view' \in Lists
    BY <1>1, <1>2 DEF IInv, TypeOK, Lists, Changes
  <2> QED BY <1>1, <1>2, <2>1 DEF IInv, TypeOK
<1>4. Resting' /\ LoneInserts'
  BY <1>1 DEF IInv, Resting, LoneInserts
<1>5. ASSUME ~dropped', NEW i \in Ids
      PROVE  \E v \in Vals \cup {Absent} : EndsUp(i, v)' /\ Right(i, v)'
  <2>1. PICK v \in Vals \cup {Absent} : EndsUp(i, v) /\ Right(i, v)
    BY <1>1, <1>5 DEF IInv, Follows
  <2>2. EndsUp(i, v)'
    BY <1>1, <2>1, ReadKeeps DEF IInv
  <2>3. Right(i, v)'
    BY <1>1, <2>1 DEF Right, Followed, Connectable
  <2> QED BY <2>2, <2>3
<1> QED BY <1>3, <1>4, <1>5 DEF IInv, Follows

LEMMA RestOK == ASSUME IInv, UNCHANGED vars PROVE IInv'
<1>1. TypeOK' /\ Resting' /\ LoneInserts'
  BY DEF vars, IInv, TypeOK, Resting, LoneInserts
<1>2. Connectable(Followed)' = Connectable(Followed)
  BY DEF vars, Followed, Connectable
<1>3. Follows'
  BY <1>2, QuietKeeps DEF vars, IInv
<1> QED BY <1>1, <1>3 DEF IInv

LEMMA StepOK == ASSUME Named PROVE IInv /\ [Next]_vars => IInv'
<1> SUFFICES ASSUME IInv, [Next]_vars PROVE IInv'
  OBVIOUS
<1>1. ASSUME NEW a \in Appliers, ApplyEvent(a) PROVE IInv'
  <2>1. PICK list \in Lists : Hand(a, list)
    BY <1>1 DEF ApplyEvent
  <2>2. writes' \in 0..MaxWrites
    BY <1>1 DEF ApplyEvent, IInv, TypeOK, Named
  <2> QED BY <2>1, <2>2, HandOK
<1>2. CASE Load
  BY <1>2, LoadListOK DEF Load
<1> QED BY <1>1, <1>2, NotifyNobodyOK, NotifyBeginOK, TrySendOK, NotifyEndOK, SendInitialOK, BridgeOK,
           RecvOK, RestOK DEF Next, Notify, BridgeStep

-----------------------------------------------------------------------------
(* The theorems. *)

LEMMA FollowsWell == ASSUME IInv PROVE TypeOK /\ MembersFollow /\ EndpointsFollow
<1>1. DOMAIN view = Ids
  BY DEF IInv, TypeOK, Lists
<1>2. MembersFollow
  BY <1>1 DEF IInv, Follows, Right, MembersFollow
<1>3. EndpointsFollow
  BY <1>1 DEF IInv, Follows, Right, EndpointsFollow
<1> QED BY <1>2, <1>3 DEF IInv

\* For any lists: whoever notifies in whatever order, and however far behind the consumer is, as
\* long as no try_send fails it ends up with the members and, for Tonic, with the endpoints of the
\* list that was last compared (discover.rs:51-101, 124-213).
THEOREM ConsumerFollows ==
    ASSUME Named
    PROVE  Spec => [](TypeOK /\ MembersFollow /\ EndpointsFollow)
BY InitOK, StepOK, FollowsWell, PTL DEF Spec
=============================================================================
