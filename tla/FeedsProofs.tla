----------------------------- MODULE FeedsProofs -----------------------------
(***************************************************************************)
(* What an event at the end of a stream, one taken off its front and one    *)
(* left out of its middle do to what the stream ends with.                  *)
(***************************************************************************)
EXTENDS Feeds, SequenceTheorems, TLAPS

\* An event at the end has the last word on its id and none on the others.
LEMMA EndsAppend ==
    ASSUME NEW S, NEW s \in Seq(S), NEW e, NEW list, NEW i, NEW v
    PROVE  EndsWith(list, Append(s, e), i, v)
              <=> IF e.id = i THEN e.val = v ELSE EndsWith(list, s, i, v)
<1> DEFINE t == Append(s, e)
<1>1. /\ DOMAIN t = 1..(Len(s) + 1) /\ DOMAIN s = 1..Len(s) /\ Len(s) \in Nat
      /\ t[Len(s) + 1] = e
      /\ \A k \in 1..Len(s) : t[k] = s[k]
  OBVIOUS
<1>2. CASE e.id = i
  <2>1. Len(s) + 1 \in DOMAIN t /\ IsLast(t, Len(s) + 1, i)
    BY <1>1, <1>2 DEF IsLast
  <2>2. ASSUME NEW k \in DOMAIN t, IsLast(t, k, i)
        PROVE  k = Len(s) + 1
    BY <2>2, <1>1, <1>2 DEF IsLast
  <2> QED BY <2>1, <2>2, <1>1, <1>2 DEF EndsWith
<1>3. CASE e.id # i
  <2>1. (\A k \in DOMAIN t : t[k].id # i) <=> (\A k \in DOMAIN s : s[k].id # i)
    BY <1>1, <1>3
  <2>2. ASSUME NEW k \in DOMAIN s
        PROVE  k \in DOMAIN t /\ t[k] = s[k] /\ (IsLast(t, k, i) <=> IsLast(s, k, i))
    BY <1>1, <1>3 DEF IsLast
  <2>3. ASSUME NEW k \in DOMAIN t, IsLast(t, k, i)
        PROVE  k \in DOMAIN s
    BY <2>3, <1>1, <1>3 DEF IsLast
  <2> QED BY <2>1, <2>2, <2>3, <1>3 DEF EndsWith
<1> QED BY <1>2, <1>3

\* The front event can be applied to the list, and it can go if the list ends up as it is.
LEMMA EndsTail ==
    ASSUME NEW S, NEW s \in Seq(S), s # <<>>, NEW list, NEW i \in DOMAIN list, NEW v,
           EndsWith(list, s, i, v)
    PROVE  /\ EndsWith(Patch(list, Head(s)), Tail(s), i, v)
           /\ v = list[i] => EndsWith(list, Tail(s), i, v)
<1> DEFINE t == Tail(s)
<1>1. /\ DOMAIN t = 1..(Len(s) - 1) /\ DOMAIN s = 1..Len(s) /\ Len(s) \in Nat \ {0}
      /\ \A k \in 1..(Len(s) - 1) : t[k] = s[k + 1]
      /\ Head(s) = s[1]
  OBVIOUS
<1>2. CASE \A k \in DOMAIN t : t[k].id # i
  <2>1. \A k \in DOMAIN s : k # 1 => s[k].id # i
    <3> SUFFICES ASSUME NEW k \in DOMAIN s, k # 1 PROVE s[k].id # i
      OBVIOUS
    <3>1. k - 1 \in DOMAIN t /\ t[k - 1] = s[k]
      BY <1>1
    <3> QED BY <3>1, <1>2
  <2>2. CASE s[1].id = i
    <3>1. s[1].val = v
      BY <2>1, <2>2, <1>1 DEF EndsWith, IsLast
    <3>2. Patch(list, Head(s))[i] = v
      BY <3>1, <2>2, <1>1 DEF Patch
    <3> QED BY <3>2, <1>2 DEF EndsWith
  <2>3. CASE s[1].id # i
    <3>1. list[i] = v
      BY <2>1, <2>3, <1>1 DEF EndsWith
    <3>2. Patch(list, Head(s))[i] = v
      BY <3>1, <2>3, <1>1 DEF Patch
    <3> QED BY <3>1, <3>2, <1>2 DEF EndsWith
  <2> QED BY <2>2, <2>3
<1>3. CASE \E k \in DOMAIN t : t[k].id = i
  <2>1. PICK k \in DOMAIN t : t[k].id = i
    BY <1>3
  <2>2. k + 1 \in DOMAIN s /\ s[k + 1].id = i
    BY <2>1, <1>1
  <2>3. PICK n \in DOMAIN s : IsLast(s, n, i) /\ s[n].val = v
    BY <2>2 DEF EndsWith
  <2>4. n # 1
    BY <2>2, <2>3, <1>1, <2>1 DEF IsLast
  <2>5. n - 1 \in DOMAIN t /\ t[n - 1] = s[n]
    BY <2>4, <1>1
  <2>6. ASSUME NEW m \in DOMAIN t, m > n - 1 PROVE t[m].id # i
    <3>1. m + 1 \in DOMAIN s /\ m + 1 > n /\ t[m] = s[m + 1]
      BY <2>6, <1>1
    <3> QED BY <3>1, <2>3 DEF IsLast
  <2> QED BY <2>3, <2>5, <2>6 DEF EndsWith, IsLast
<1> QED BY <1>2, <1>3
=============================================================================
