------------------------------ MODULE Selectors ------------------------------
(***************************************************************************)
(* The selector of a RegistryService: the builder is given one, or takes    *)
(* round robin (src/src/builder.rs:114-126), and it serves every caller     *)
(* from then on.  RandomSelector keeps no state and is left out.            *)
(***************************************************************************)
EXTENDS P2C, WeightedRoundRobin, ConsistentHash, RoundRobin

VARIABLE selector    \* the kind of the selector

vars == <<selector, p2cVars, wrrVars, ringVars, rrVars>>

TypeOK ==
    /\ selector \in {"p2c", "weighted", "ring", "roundrobin"}
    /\ P2CTypeOK /\ WRRTypeOK /\ RingTypeOK /\ RRTypeOK

Init ==
    /\ selector \in {"p2c", "weighted", "ring", "roundrobin"}
    /\ selector # "roundrobin" => fallback = TRUE
    /\ P2CInit /\ WRRInit /\ RingInit /\ RRInit

Next ==
    /\ UNCHANGED selector
    /\ \/ selector = "p2c" /\ P2CNext /\ UNCHANGED <<wrrVars, ringVars, rrVars>>
       \/ selector = "weighted" /\ WRRNext /\ UNCHANGED <<p2cVars, ringVars, rrVars>>
       \/ selector = "ring" /\ RingNext /\ UNCHANGED <<p2cVars, wrrVars, rrVars>>
       \/ selector = "roundrobin" /\ RRNext /\ UNCHANGED <<p2cVars, wrrVars, ringVars>>

Spec == Init /\ [][Next]_vars
=============================================================================
