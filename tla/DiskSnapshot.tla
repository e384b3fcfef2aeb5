---------------------------- MODULE DiskSnapshot -----------------------------
(***************************************************************************)
(* persist_to_disk and load_from_disk (src/src/directory.rs:77-103) for one *)
(* service, at the level of the files.                                      *)
(*                                                                          *)
(* Every call of persist_to_disk spawns a task that creates or truncates    *)
(* the temporary file, writes its bytes into it and renames it over the     *)
(* service's file.  The temporary file is named after the service and the   *)
(* process, so two tasks of one process share it.  A file is an inode: a    *)
(* task writes into the inode it opened, whatever that inode is called by   *)
(* then.  The code the file system runs is external and modelled as POSIX   *)
(* has it.  Two history variables, which no step of the code reads, tell    *)
(* apart what tasks do that get in each other's way.                        *)
(***************************************************************************)
EXTENDS Naturals, Sequences, FiniteSets

CONSTANTS
    MaxPersists,  \* bound: calls of persist_to_disk; task n is spawned by the nth
    Size,         \* Size[n]: how many writes the bytes of the nth snapshot take
    MaxCrashes,   \* bound: crashes of the process
    Nothing

Tasks == 1..MaxPersists

ASSUME DiskAssumption ==
    /\ MaxPersists \in Nat /\ MaxCrashes \in Nat
    /\ Size \in [Tasks -> Nat \ {0}]
    /\ Nothing \notin Nat

VARIABLES
    calls,        \* calls of persist_to_disk so far
    crashes,      \* crashes so far
    step,         \* where each task stands
    inode,        \* the inode a task has opened, or Nothing
    written,      \* how many of its writes a task has made
    data,         \* the content of each inode: its kth block is the task that wrote it last
    tmp,          \* the inode the temporary name leads to, or Nothing
    file          \* the inode the service's name leads to, or Nothing

\* History.
VARIABLES
    mixed,        \* inodes opened by two tasks at once, or renamed by a task that did not write them
    joined        \* tasks that were at work at once with another one

history == <<mixed, joined>>
vars == <<calls, crashes, step, inode, written, data, tmp, file, history>>

\* A task that creates a file gives the inode its own number.
Inodes == Tasks
Steps  == {"none", "create", "write", "rename", "done"}

TypeOK ==
    /\ calls \in 0..MaxPersists
    /\ crashes \in 0..MaxCrashes
    /\ step \in [Tasks -> Steps]
    /\ inode \in [Tasks -> Inodes \cup {Nothing}]
    /\ written \in [Tasks -> Nat] /\ \A n \in Tasks : written[n] <= Size[n]
    /\ data \in [Inodes -> Seq(Tasks \cup {Nothing})]
    /\ tmp \in Inodes \cup {Nothing}
    /\ file \in Inodes \cup {Nothing}
    /\ mixed \subseteq Inodes /\ joined \subseteq Tasks

Init ==
    /\ calls = 0 /\ crashes = 0
    /\ step = [n \in Tasks |-> "none"]
    /\ inode = [n \in Tasks |-> Nothing]
    /\ written = [n \in Tasks |-> 0]
    /\ data = [i \in Inodes |-> <<>>]
    /\ tmp = Nothing /\ file = Nothing
    /\ mixed = {} /\ joined = {}

Go(n, from, to) == step[n] = from /\ step' = [step EXCEPT ![n] = to]

Working == {n \in Tasks : step[n] \notin {"none", "done"}}

\* The tasks that hold the inode i open, or have still to rename it.
Users(i) == {n \in Tasks : step[n] \in {"write", "rename"} /\ inode[n] = i}

\* persist_to_disk: the task is spawned and the caller goes on, whether or not earlier ones have ended.
Persist ==
    /\ calls < MaxPersists
    /\ calls' = calls + 1
    /\ Go(calls + 1, "none", "create")
    /\ joined' = IF Working = {} THEN joined ELSE joined \cup Working \cup {calls + 1}
    /\ UNCHANGED <<crashes, inode, written, data, tmp, file, mixed>>

\* Mutant of Create: no temporary file, the service's file is truncated and written in place.
CreateInPlace(n) ==
    /\ Go(n, "create", "write")
    /\ LET i == IF file = Nothing THEN n ELSE file
       IN  /\ inode' = [inode EXCEPT ![n] = i]
           /\ data' = [data EXCEPT ![i] = <<>>]
           /\ file' = i
    /\ UNCHANGED <<calls, crashes, written, tmp, history>>

\* tokio::fs::write opens: the file there is truncated, or a new one is made.
Create(n) ==
    /\ Go(n, "create", "write")
    /\ LET i == IF tmp = Nothing THEN n ELSE tmp
       IN  /\ inode' = [inode EXCEPT ![n] = i]
           /\ data' = [data EXCEPT ![i] = <<>>]
           /\ tmp' = i
           /\ mixed' = IF Users(i) = {} THEN mixed \ {i} ELSE mixed \cup {i}
    /\ UNCHANGED <<calls, crashes, written, file, joined>>

\* A content after task n has written block k.  Behind the end, where another task has truncated
\* the file meanwhile, the write leaves a hole: zeros, which are nobody's.
Overwrite(content, k, n) ==
    [b \in 1..(IF Len(content) < k THEN k ELSE Len(content)) |->
        IF b = k THEN n ELSE IF b <= Len(content) THEN content[b] ELSE Nothing]

\* Mutant of Write: one block too many.
WriteBeyond(n) ==
    /\ step[n] = "write" /\ written[n] <= Size[n]
    /\ written' = [written EXCEPT ![n] = written[n] + 1]
    /\ data' = [data EXCEPT ![inode[n]] = Overwrite(data[inode[n]], written[n] + 1, n)]
    /\ UNCHANGED <<calls, crashes, step, inode, tmp, file, history>>

\* It writes its next block, at its own offset.
Write(n) ==
    /\ step[n] = "write" /\ written[n] < Size[n]
    /\ written' = [written EXCEPT ![n] = written[n] + 1]
    /\ data' = [data EXCEPT ![inode[n]] = Overwrite(data[inode[n]], written[n] + 1, n)]
    /\ UNCHANGED <<calls, crashes, step, inode, tmp, file, history>>

\* Mutant of WriteEnd: the rename does not wait for the bytes.
WriteEndEarly(n) ==
    /\ Go(n, "write", "rename")
    /\ UNCHANGED <<calls, crashes, inode, written, data, tmp, file, history>>

WriteEnd(n) ==
    /\ written[n] = Size[n]
    /\ Go(n, "write", "rename")
    /\ UNCHANGED <<calls, crashes, inode, written, data, tmp, file, history>>

\* The rename; it fails if the temporary name has gone, and the failure is ignored.
Rename(n) ==
    /\ Go(n, "rename", "done")
    /\ IF tmp = Nothing
       THEN UNCHANGED <<tmp, file>>
       ELSE file' = tmp /\ tmp' = Nothing
    /\ mixed' = IF tmp \in {Nothing, inode[n]} THEN mixed ELSE mixed \cup {tmp}
    /\ UNCHANGED <<calls, crashes, inode, written, data, joined>>

\* An operation fails (no space, no permission): the task ends where it is.
Fail(n) ==
    /\ n \in Working
    /\ step' = [step EXCEPT ![n] = "done"]
    /\ UNCHANGED <<calls, crashes, inode, written, data, tmp, file, history>>

\* The process ends and starts anew.  Its successor has another process id, and so another
\* temporary name, or the same one (in a container).
Crash ==
    /\ crashes < MaxCrashes
    /\ crashes' = crashes + 1
    /\ step' = [n \in Tasks |-> IF n \in Working THEN "done" ELSE step[n]]
    /\ tmp' \in {tmp, Nothing}
    /\ UNCHANGED <<calls, inode, written, data, file, history>>

Next ==
    \/ Persist
    \/ \E n \in Tasks : Create(n) \/ Write(n) \/ WriteEnd(n) \/ Rename(n) \/ Fail(n)
    \/ Crash

Spec == Init /\ [][Next]_vars

-----------------------------------------------------------------------------
(* Properties. *)

\* The whole of the nth snapshot.
Whole(n) == [k \in 1..Size[n] |-> n]

\* load_from_disk gets a snapshot whenever one was ever put there: the service's file is always the
\* whole of one snapshot, in the middle of a write, after a failure and after a crash
\* (directory.rs:89-90, 98-103, 290).  Overlapping tasks break it.
Readable == file # Nothing => \E n \in 1..calls : data[file] = Whole(n)

\* They break it only by opening one inode at once, or by renaming one that another still writes.
\* Any other file is whole: a task that finds nobody in its way puts an end to the damage, whatever
\* its predecessors left behind when they failed or when the process ended.
ReadableUnlessMixed == file \notin mixed => Readable

\* The snapshot load_from_disk finds; 0 for none, and for a file that need not be the whole of one.
Version ==
    IF file # Nothing /\ file \notin mixed /\ \E n \in Tasks : data[file] = Whole(n)
    THEN data[file][1] ELSE 0

\* The file behaves as one that is replaced in one step by the snapshot of a task at work, and only
\* a task that was at work together with another one can put something else there.
Abstract == INSTANCE AtomicSnapshot WITH issued <- calls, pending <- Working, value <- Version
ReplacedAtOnce == Abstract!Spec
=============================================================================
