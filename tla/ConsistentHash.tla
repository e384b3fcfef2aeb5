--------------------------- MODULE ConsistentHash ----------------------------
(***************************************************************************)
(* ConsistentHashSelector (src/src/selector/consistent_hash.rs): every      *)
(* instance stands at several places of a ring of hashes and serves the     *)
(* keys whose hashes lie before them.  One ring is kept for the service,    *)
(* under a fingerprint of the list it was built from; callers with lists of *)
(* different ages look for it under a read lock and replace it under a      *)
(* write lock, so they take it from each other.                             *)
(***************************************************************************)
EXTENDS Instances

CONSTANTS
    Keys,         \* routing keys: ctx.key, else the client's ip, else the service name
    VirtualNodes, \* places of each instance on the ring, 1..virtual_nodes
    Modulus,      \* number of hashes (2^64)
    KeyHash,      \* fnv1a_hash of each key
    NodeHash,     \* fnv1a_hash of each "id#v" pair
    Bytes         \* the bytes of each service id

\* That no two places have the same hash is what the ring's stability rests on; the code leaves
\* ties to the order of the list and to the binary search.
ASSUME HashAssumption ==
    /\ Modulus \in Nat \ {0}
    /\ VirtualNodes # {} /\ IsFiniteSet(VirtualNodes)
    /\ KeyHash \in [Keys -> 0..(Modulus - 1)]
    /\ NodeHash \in [Ids \X VirtualNodes -> 0..(Modulus - 1)]
    /\ IsInjective(NodeHash)

VARIABLES
    rings,        \* the ring kept for the service with its fingerprint, or None
    at,           \* caller -> "idle", "read" or "write": before which lock it stands
    list,         \* caller -> the list it brought
    key,          \* caller -> its routing key
    result        \* caller -> the instance its last select chose, or None

ringVars == <<rings, at, list, key, result>>

-----------------------------------------------------------------------------
Place(hash, id) == [hash |-> hash, id |-> id]

\* compute_fingerprint goes over the bytes of all the ids, one after the other; the hash itself is
\* left out, so that fingerprints differ where these bytes do.
Fingerprint(l) == FlattenSeq([n \in DOMAIN l |-> Bytes[l[n]]])

\* Places in the order of their hashes.
Around(places) ==
    LET hashes == Ascending({p.hash : p \in places})
    IN  [n \in DOMAIN hashes |-> CHOOSE p \in places : p.hash = hashes[n]]

\* Mutant of RingOf: a place is hashed by the instance's position in the list.
RingByPosition(l) ==
    Around({Place(NodeHash[<<l[1 + (n % Len(l))], v>>], l[n]) : n \in DOMAIN l, v \in VirtualNodes})

RingOf(l) == Around({Place(NodeHash[<<id, v>>], id) : id \in ToSet(l), v \in VirtualNodes})

\* The binary search: the first place at or after the hash, around the ring.
Locate(ring, hash) ==
    LET n == SelectInSeq(ring, LAMBDA p : p.hash >= hash)
    IN  IF n = 0 THEN ring[1].id ELSE ring[n].id

\* The instance found on the ring, if the list has it, else the first of the list.
Serve(ring, l, k) ==
    LET id == Locate(ring, KeyHash[k]) IN IF id \in ToSet(l) THEN id ELSE l[1]

Kept(l) == rings # None /\ rings.fingerprint = Fingerprint(l)

\* What the one ring for all lists rests on: no two lists with other instances have one fingerprint.
\* The code does not see to it (consistent_hash.rs:39), ids that run into each other break it.
FingerprintsTell == \A l, m \in Lists : Fingerprint(l) = Fingerprint(m) => ToSet(l) = ToSet(m)

-----------------------------------------------------------------------------
RingTypeOK ==
    /\ rings # None => ToSet(rings.ring) \subseteq [hash : 0..(Modulus - 1), id : Ids]
    /\ at \in [Callers -> {"idle", "read", "write"}]
    /\ list \in [Callers -> Lists \cup {<<>>}]
    /\ key \in [Callers -> Keys \cup {None}]
    /\ result \in [Callers -> Ids \cup {None}]

RingInit ==
    /\ rings = None
    /\ at = [c \in Callers |-> "idle"]
    /\ list = [c \in Callers |-> <<>>]
    /\ key = [c \in Callers |-> None]
    /\ result = [c \in Callers |-> None]

\* A list of one is served without a ring.
Begin(c, l, k) ==
    /\ at[c] = "idle" /\ Len(l) > 0
    /\ list' = [list EXCEPT ![c] = l]
    /\ key' = [key EXCEPT ![c] = k]
    /\ at' = [at EXCEPT ![c] = IF Len(l) = 1 THEN "idle" ELSE "read"]
    /\ result' = [result EXCEPT ![c] = IF Len(l) = 1 THEN l[1] ELSE None]
    /\ UNCHANGED rings

Answer(c, ring) ==
    /\ at' = [at EXCEPT ![c] = "idle"]
    /\ result' = [result EXCEPT ![c] = Serve(ring, list[c], key[c])]
    /\ UNCHANGED <<list, key>>

ReadHit(c) ==
    /\ at[c] = "read" /\ Kept(list[c])
    /\ Answer(c, rings.ring)
    /\ UNCHANGED rings

ReadMiss(c) ==
    /\ at[c] = "read" /\ ~Kept(list[c])
    /\ at' = [at EXCEPT ![c] = "write"]
    /\ UNCHANGED <<rings, list, key, result>>

\* Mutant of WriteHit: under the write lock any ring is taken for the one another caller built.
WriteHitAny(c) ==
    /\ at[c] = "write" /\ rings # None
    /\ Answer(c, rings.ring)
    /\ UNCHANGED rings

\* Another caller built the ring between the two locks.
WriteHit(c) ==
    /\ at[c] = "write" /\ Kept(list[c])
    /\ Answer(c, rings.ring)
    /\ UNCHANGED rings

Build(c) ==
    /\ at[c] = "write" /\ ~Kept(list[c])
    /\ rings' = [fingerprint |-> Fingerprint(list[c]), ring |-> RingOf(list[c])]
    /\ Answer(c, rings'.ring)

RingNext == \E c \in Callers :
    \/ \E l \in Lists, k \in Keys : Begin(c, l, k)
    \/ ReadHit(c) \/ ReadMiss(c) \/ WriteHit(c) \/ Build(c)

RingSpec == RingInit /\ [][RingNext]_ringVars

-----------------------------------------------------------------------------
\* Reference: how far a place lies behind a key on the ring, and the instance whose place lies
\* closest behind it.
Distance(k, id, v) == (NodeHash[<<id, v>>] - KeyHash[k]) % Modulus

IsOwner(k, S, id) ==
    /\ id \in S
    /\ \E v \in VirtualNodes : \A j \in S, u \in VirtualNodes : Distance(k, id, v) <= Distance(k, j, u)

\* Whatever lists other callers bring meanwhile, a key is served by the instance that owns it among
\* the instances of the caller's own list, in whatever order they are listed
\* (consistent_hash.rs:74-117, 146-174).
OwnerServes == \A c \in Callers :
    at[c] = "idle" /\ result[c] # None => IsOwner(key[c], ToSet(list[c]), result[c])

\* Of two callers with the same key, one of which knows of one more instance, the second is served
\* by the same instance as the first or by the newcomer (consistent_hash.rs:53).
Served(c) == at[c] = "idle" /\ result[c] # None
OnlyNewcomerGains == \A c, d \in Callers, id \in Ids :
    /\ Served(c) /\ Served(d) /\ key[c] = key[d]
    /\ ToSet(list[d]) = ToSet(list[c]) \cup {id}
    => result[d] \in {result[c], id}
=============================================================================
