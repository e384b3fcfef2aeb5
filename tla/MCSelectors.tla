----------------------------- MODULE MCSelectors -----------------------------
(* A small instance of Selectors for TLC: three instances that come and go. *)
EXTENDS Selectors

\* Callers are alike, and so are counter objects: sound, no liveness is checked.
Alike == Permutations(Callers) \cup Permutations(Arcs)

MCIds == {"a", "b", "c"}

\* A weight below the floors of P2C and of the weighted round robin, and two that differ by more
\* than the floor.
MCWeights == [id \in MCIds |-> CASE id = "a" -> 0 [] id = "b" -> 200 [] id = "c" -> 500]

\* The lists of any of the instances, each of more than one in two orders.
MCLists ==
    {<<>>, <<"a">>, <<"b">>, <<"c">>, <<"a", "b">>, <<"b", "a">>, <<"a", "c">>, <<"c", "a">>,
     <<"b", "c">>, <<"c", "b">>, <<"a", "b", "c">>, <<"c", "a", "b">>}

MCTagged == {"a", "b"}

\* Hashes of twelve values: two places of each instance, one key before, one between and one
\* behind all of them.
MCModulus == 12
MCVirtualNodes == {0, 1}
MCKeys == {"first", "between", "last"}
MCKeyHash == [k \in MCKeys |-> CASE k = "first" -> 0 [] k = "between" -> 5 [] k = "last" -> 11]
MCNodeHash == [n \in MCIds \X MCVirtualNodes |->
    CASE n = <<"a", 0>> -> 2 [] n = <<"b", 0>> -> 4 [] n = <<"c", 0>> -> 5
      [] n = <<"b", 1>> -> 7 [] n = <<"a", 1>> -> 8 [] n = <<"c", 1>> -> 10]

\* Ids of one byte: fingerprints of different lists differ.
MCBytes == [id \in MCIds |-> <<id>>]

ASSUME BytesAssumption == FingerprintsTell
=============================================================================
