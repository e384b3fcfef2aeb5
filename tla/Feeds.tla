-------------------------------- MODULE Feeds --------------------------------
(***************************************************************************)
(* What the streams of the providers are for: a reader lists the registry   *)
(* once it has subscribed and patches the list with the events it reads     *)
(* (run_watch_loop, src/src/directory.rs:219-291).  An event is a record of *)
(* an id and the value the id takes.                                        *)
(***************************************************************************)
EXTENDS Naturals, Sequences

CONSTANTS
    Ids,          \* instance ids, as in Directory
    Vals,         \* what an instance carries
    Absent,       \* of a list: no such instance; of an event: it is deleted
    None

\* The kth of the events s is the last about the id i.
IsLast(s, k, i) == s[k].id = i /\ \A m \in DOMAIN s : m > k => s[m].id # i

\* After the events s a reader that had list holds v for the id i.
EndsWith(list, s, i, v) ==
    IF \A k \in DOMAIN s : s[k].id # i
    THEN list[i] = v
    ELSE \E k \in DOMAIN s : IsLast(s, k, i) /\ s[k].val = v

\* After the events s a reader that had list is right on every one of ids.
Tells(list, s, registry, ids) == \A i \in ids : EndsWith(list, s, i, registry[i])

\* The reader applies an event; one about something else changes nothing.
Patch(list, e) == IF e.id \in DOMAIN list THEN [list EXCEPT ![e.id] = e.val] ELSE list
=============================================================================
