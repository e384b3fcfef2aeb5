------------------------------ MODULE MCSources ------------------------------
(* Where the lists and events of a directory come from, each source by itself: the file of         *)
(* DiskSnapshot, LocalRegistry, the watch of EtcdRegistry, and Nacos.  A run is about one of them. *)
EXTENDS MCDiskSnapshot, LocalRegistry, EtcdWatch, NacosRegistry

\* Of these ids the second names what the key of the third ends with.  The prefix of the keys,
\* which they share, is left out.
MCIds     == {"a", "c", "b/c/"}
MCKeyOf   == [i \in MCIds |-> IF i = "b/c/" THEN "b/c" ELSE i]
MCSegment == [k \in {"a", "c", "b/c"} |-> IF k = "b/c" THEN "c" ELSE k]

VARIABLE source   \* "disk", "local", "etcd" or "nacos", for good

allVars == <<source, vars, localVars, watchVars, nacosVars>>

AnyOf(S) == CHOOSE x \in S : TRUE

\* LocalRegistry only compares ids: its two registers have one or two of them, whichever they are.
ItemsNamed == item[AnyOf(Registers)].id = "a" /\ \A r \in Registers : item[r].id \in {"a", "c"}

\* Where a source is not the one of the run, one initial state of it is enough.
MCInit ==
    /\ source \in {"disk", "local", "etcd", "nacos"}
    /\ Init /\ LocalInit /\ WatchInit /\ NacosInit
    /\ IF source = "local" THEN ItemsNamed ELSE item = AnyOf([Registers -> Upserts])
    /\ source = "etcd" \/ \A k \in Keys : keys[k].val = Absent
    /\ source = "nacos" \/ posted = AnyOf([Registers -> Ids])

Etcd(A) == source = "etcd" /\ A /\ UNCHANGED <<source, vars, localVars, nacosVars>>

MCNext ==
    \/ source = "disk" /\ Next /\ UNCHANGED <<source, localVars, watchVars, nacosVars>>
    \/ source = "local" /\ LocalNext /\ UNCHANGED <<source, vars, watchVars, nacosVars>>
    \/ Etcd(WatchNext)
    \/ source = "nacos" /\ NacosNext /\ UNCHANGED <<source, vars, localVars, watchVars>>

\* The fairness of WatchLive.
MCSpec ==
    /\ MCInit /\ [][MCNext]_allVars
    /\ WF_allVars(Etcd(Pump)) /\ WF_allVars(Etcd(Reader))

SourcesTypeOK == TypeOK /\ LocalTypeOK /\ WatchTypeOK /\ NacosTypeOK
=============================================================================
