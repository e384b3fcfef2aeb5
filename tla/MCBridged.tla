------------------------------ MODULE MCBridged ------------------------------
(* A bridge for TLC, fed by a directory (Bridged) or, with more ids, by any lists (Discover). *)
EXTENDS Bridged

CONSTANTS AnyIds, AnyVals, MaxWrites

VARIABLES
    feed,         \* "any" or "directory", for good
    writes

A == INSTANCE Discover WITH Ids <- AnyIds, Vals <- AnyVals, Appliers <- Calls

ASSUME NamedAssumption == A!Named /\ B!Named

allVars == <<feed, writes, bridgedVars>>

\* Without a directory the variables of one are at rest.
MCInit ==
    /\ writes = 0
    /\ \/ feed = "any" /\ Init /\ registry = Empty /\ A!Init
       \/ feed = "directory" /\ BridgedInit

\* A step of the bridge that is fed with any lists, or of the one that is fed by a directory.
Either(any, fed) ==
    \/ feed = "any" /\ any /\ UNCHANGED <<feed, vars>>
    \/ feed = "directory" /\ fed /\ UNCHANGED <<feed, writes>>

MCNext == Either(A!Next, BridgedNext)

\* LiveSpec of Discover, and BridgedFairness.
MCSpec ==
    /\ MCInit /\ [][MCNext]_allVars
    /\ WF_allVars(Either(A!BridgeStep, Opened \/ BridgeMoves))
    /\ WF_allVars(Either(A!TrySend \/ A!NotifyEnd, ListenerMoves))
    /\ \A a \in Calls : SF_allVars(Either(A!Notify(a), Notifies(a)))
    /\ \A c \in Calls :
          /\ WF_allVars(Either(FALSE, CallStep(c) /\ UNCHANGED bridgeVars))
          /\ WF_allVars(Either(FALSE, TaskMoves(c) \/ TaskApplies(c)))
          /\ SF_allVars(Either(FALSE, Selects(c)))
          /\ SF_allVars(Either(FALSE, IsAnswered(c)))
    /\ \A r \in Registers :
          WF_allVars(Either(FALSE, RegisterEnds(r))) /\ SF_allVars(Either(FALSE, Notifies(r)))
    /\ WF_allVars(Either(FALSE, Reads))

BothTypeOK == TypeOK /\ IF feed = "any" THEN A!TypeOK ELSE B!TypeOK

\* The properties of Discover.
MembersFollow   == IF feed = "any" THEN A!MembersFollow ELSE B!MembersFollow
EndpointsFollow == IF feed = "any" THEN A!EndpointsFollow ELSE B!EndpointsFollow
BridgeReturns   == A!BridgeReturns
IsFree(a)       == a \in DOMAIN pending => Free(a)
AppliersGoOn    == \A a \in Calls \cup Registers : []<>IsFree(a)
=============================================================================
