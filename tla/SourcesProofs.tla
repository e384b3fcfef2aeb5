---------------------------- MODULE SourcesProofs ----------------------------
(***************************************************************************)
(* Where a directory's lists and events come from: the type invariants of   *)
(* LocalRegistry, EtcdWatch, NacosRegistry and DiskSnapshot and what each   *)
(* promises, for every capacity and any number of calls, readers and ids,   *)
(* and the type invariant of MCSources, whose runs are about one source     *)
(* each.                                                                    *)
(***************************************************************************)
EXTENDS MCSources, FeedsProofs

-----------------------------------------------------------------------------
(* LocalRegistry. *)

(* The inductive invariant: StreamTells is about readers that have listed.  *)
(* A list may be taken at any time, so the events of every receiver must be *)
(* right for the list that the map would answer now.                        *)

\* Whoever is about to remove has taken an id.
TakenOK == \A d \in Deregs : leaving[d] \in {"remove", "send"} => gone[d] \in Ids

\* Who has not subscribed has nothing.
FreshOK == \A w \in Watchers : w \notin watching => queue[w] = <<>> /\ view[w] = None

\* Of an id that is not untold one call at most has still to send, and it sends what the map holds.
LoneOK == \A p \in Unsent : p[2].id \notin untold =>
            /\ p[2].val = instances[p[2].id]
            /\ \A q \in Unsent : q[2].id = p[2].id => q = p

\* Of that id nothing is under way.
Quiet(i) == i \notin untold /\ UnsentOf(i) = {}

QueueOK == \A w \in Watchers, i \in Ids :
    Quiet(i) => EndsWith(instances, queue[w], i, instances[i])

ViewOK == \A w \in Watchers, i \in Ids :
    view[w] # None /\ w \notin missed /\ Quiet(i) => EndsWith(view[w], queue[w], i, instances[i])

LocalInv == LocalTypeOK /\ TakenOK /\ FreshOK /\ LoneOK /\ QueueOK /\ ViewOK

-----------------------------------------------------------------------------
LEMMA LocalInitOK == ASSUME Distinct PROVE LocalInit => LocalInv
<1> SUFFICES ASSUME LocalInit PROVE LocalInv
  OBVIOUS
<1>1. LocalTypeOK
  BY DEF Distinct, LocalInit, LocalTypeOK, Lists, Upserts, Events, Gone
<1>2. Unsent = {}
  BY DEF LocalInit, Unsent
<1>3. QueueOK
  BY DEF LocalInit, QueueOK, EndsWith
<1> QED BY <1>1, <1>2, <1>3 DEF LocalInit, LocalInv, TakenOK, FreshOK, LoneOK, ViewOK

-----------------------------------------------------------------------------
(* What Send does to a queue. *)

LEMMA SendShape ==
    ASSUME Distinct, LocalTypeOK, NEW e \in Events, Send(e), NEW w \in watching
    PROVE  \E s \in Seq(Events) :
              /\ queue'[w] = Append(s, e) /\ Len(s) < RingCap
              /\ \/ s = queue[w]
                 \/ queue[w] # <<>> /\ s = Tail(queue[w]) /\ w \in missed'
<1>1. w \in Watchers /\ queue[w] \in Seq(Events) /\ Len(queue[w]) <= RingCap
      /\ RingCap \in Nat \ {0}
  BY DEF LocalTypeOK, Distinct
<1>2. CASE Len(queue[w]) = RingCap
  <2>1. queue'[w] = Append(Tail(queue[w]), e) /\ w \in missed'
    BY <1>1, <1>2 DEF Send
  <2>2. queue[w] # <<>> /\ Tail(queue[w]) \in Seq(Events) /\ Len(Tail(queue[w])) < RingCap
    BY <1>1, <1>2
  <2> QED BY <2>1, <2>2
<1>3. CASE Len(queue[w]) # RingCap
  <2>1. queue'[w] = Append(queue[w], e) /\ Len(queue[w]) < RingCap
    BY <1>1, <1>3 DEF Send
  <2> QED BY <2>1, <1>1
<1> QED BY <1>2, <1>3

LEMMA SendType ==
    ASSUME Distinct, LocalTypeOK, NEW e \in Events, Send(e)
    PROVE  /\ queue' \in [Watchers -> Seq(Events)]
           /\ \A w \in Watchers : Len(queue'[w]) <= RingCap
           /\ missed' \in SUBSET Watchers /\ missed \subseteq missed'
           /\ watching' = watching /\ view' = view
           /\ \A w \in Watchers \ watching : queue'[w] = queue[w]
<1>1. ASSUME NEW w \in Watchers
      PROVE  queue'[w] \in Seq(Events) /\ Len(queue'[w]) <= RingCap
             /\ (w \notin watching => queue'[w] = queue[w])
  <2>1. CASE w \in watching
    <3>1. PICK s \in Seq(Events) : queue'[w] = Append(s, e) /\ Len(s) < RingCap
      BY <2>1, SendShape
    <3> QED BY <3>1, <2>1 DEF Distinct
  <2>2. CASE w \notin watching
    BY <2>2 DEF Send, LocalTypeOK
  <2> QED BY <2>1, <2>2
<1>2. queue' = [w \in Watchers |-> queue'[w]]
  BY DEF Send
<1>3. missed' \in SUBSET Watchers /\ missed \subseteq missed' /\ watching' = watching /\ view' = view
  BY DEF Send, LocalTypeOK
<1> QED BY <1>1, <1>2, <1>3

\* The event is the last word on its id for every receiver.
LEMMA SendLast ==
    ASSUME Distinct, LocalTypeOK, NEW e \in Events, Send(e), NEW w \in watching, NEW list
    PROVE  EndsWith(list, queue'[w], e.id, e.val)
<1>1. PICK s \in Seq(Events) : queue'[w] = Append(s, e)
  BY SendShape
<1> QED BY <1>1, EndsAppend

\* What the map would answer stays right on the other ids, whatever is lost.
LEMMA SendQueue ==
    ASSUME Distinct, LocalTypeOK, NEW e \in Events, Send(e), NEW w \in Watchers,
           NEW i \in Ids, e.id # i, EndsWith(instances, queue[w], i, instances[i])
    PROVE  EndsWith(instances, queue'[w], i, instances[i])
<1>1. CASE w \in watching
  <2>1. PICK s \in Seq(Events) : /\ queue'[w] = Append(s, e)
                                 /\ s = queue[w] \/ (queue[w] # <<>> /\ s = Tail(queue[w]))
    BY <1>1, SendShape
  <2>2. i \in DOMAIN instances /\ queue[w] \in Seq(Events)
    BY DEF LocalTypeOK, Lists
  <2>3. EndsWith(instances, s, i, instances[i])
    BY <2>1, <2>2, EndsTail
  <2> QED BY <2>1, <2>3, EndsAppend
<1>2. CASE w \notin watching
  BY <1>2, SendType
<1> QED BY <1>1, <1>2

\* A reader that loses nothing stays right on them.
LEMMA SendView ==
    ASSUME Distinct, LocalTypeOK, NEW e \in Events, Send(e), NEW w \in Watchers, w \notin missed',
           NEW i \in Ids, e.id # i, NEW v, EndsWith(view[w], queue[w], i, v)
    PROVE  EndsWith(view'[w], queue'[w], i, v)
<1>1. view' = view
  BY SendType
<1>2. CASE w \in watching
  <2>1. PICK s \in Seq(Events) : queue'[w] = Append(s, e) /\ (s = queue[w] \/ w \in missed')
    BY <1>2, SendShape
  <2>2. EndsWith(view[w], s, i, v)
    BY <2>1
  <2> QED BY <1>1, <2>1, <2>2, EndsAppend
<1>3. CASE w \notin watching
  BY <1>1, <1>3, SendType
<1> QED BY <1>2, <1>3

-----------------------------------------------------------------------------
(* The queues and the lists, by kind of step. *)

\* A step that sends the last word on its id, and changes no other that is quiet after it.
LEMMA SendStep ==
    ASSUME Distinct, LocalInv, NEW e \in Events, Send(e),
           \A j \in Ids : Quiet(j)' =>
               IF j = e.id THEN instances'[j] = e.val
               ELSE Quiet(j) /\ instances'[j] = instances[j]
    PROVE  QueueOK' /\ ViewOK'
<1> USE DEF LocalInv
<1>1. ASSUME NEW w \in Watchers, NEW i \in Ids, Quiet(i)'
      PROVE  EndsWith(instances', queue'[w], i, instances'[i])
  <2>1. CASE w \notin watching
    <3>1. queue'[w] = <<>>
      BY <2>1, SendType DEF FreshOK
    <3> QED BY <3>1 DEF EndsWith
  <2>2. CASE w \in watching /\ i = e.id
    BY <1>1, <2>2, SendLast
  <2>3. CASE w \in watching /\ i # e.id
    <3>1. EndsWith(instances, queue[w], i, instances[i]) /\ instances'[i] = instances[i]
      BY <1>1, <2>3 DEF QueueOK
    <3>2. EndsWith(instances, queue'[w], i, instances[i])
      BY <3>1, <2>3, SendQueue
    <3> QED BY <3>1, <3>2 DEF EndsWith
  <2> QED BY <2>1, <2>2, <2>3
<1>2. ASSUME NEW w \in Watchers, NEW i \in Ids, Quiet(i)', view'[w] # None, w \notin missed'
      PROVE  EndsWith(view'[w], queue'[w], i, instances'[i])
  <2>1. w \in watching /\ view' = view /\ w \notin missed
    BY <1>2, SendType DEF FreshOK
  <2>2. CASE i = e.id
    BY <1>2, <2>1, <2>2, SendLast
  <2>3. CASE i # e.id
    <3>1. EndsWith(view[w], queue[w], i, instances[i]) /\ instances'[i] = instances[i]
      BY <1>2, <2>1, <2>3 DEF ViewOK
    <3> QED BY <1>2, <2>3, <3>1, SendView
  <2> QED BY <2>2, <2>3
<1> QED BY <1>1, <1>2 DEF QueueOK, ViewOK

\* A step that sends nothing, and changes none that is quiet after it.
LEMMA SilentStep ==
    ASSUME Distinct, LocalInv, UNCHANGED readVars,
           \A j \in Ids : Quiet(j)' => Quiet(j) /\ instances'[j] = instances[j]
    PROVE  QueueOK' /\ ViewOK'
<1>1. ASSUME NEW w \in Watchers, NEW i \in Ids, Quiet(i)'
      PROVE  /\ EndsWith(instances', queue'[w], i, instances'[i])
             /\ view'[w] # None /\ w \notin missed' =>
                   EndsWith(view'[w], queue'[w], i, instances'[i])
  <2>1. Quiet(i) /\ instances'[i] = instances[i]
        /\ queue' = queue /\ view' = view /\ missed' = missed
    BY <1>1 DEF readVars
  <2>2. EndsWith(instances, queue[w], i, instances[i])
    BY <2>1 DEF LocalInv, QueueOK
  <2>3. EndsWith(instances', queue[w], i, instances[i])
    BY <2>1, <2>2 DEF EndsWith
  <2>4. view[w] # None /\ w \notin missed => EndsWith(view[w], queue[w], i, instances[i])
    BY <2>1 DEF LocalInv, ViewOK
  <2> QED BY <2>1, <2>3, <2>4
<1> QED BY <1>1 DEF QueueOK, ViewOK

-----------------------------------------------------------------------------
(* The map and the calls that have still to send. *)

\* The map changes and the call has still to say so.
LEMMA SetStep ==
    ASSUME Distinct, LocalInv, NEW c, NEW i \in Ids, NEW v \in Vals \cup {Absent}, Set(i, v),
           Unsent' = Unsent \cup {<<c, [id |-> i, val |-> v]>>}
    PROVE  /\ LoneOK'
           /\ \A j \in Ids : Quiet(j)' => Quiet(j) /\ instances'[j] = instances[j]
<1> DEFINE p == <<c, [id |-> i, val |-> v]>>
<1>1. p[2].id = i /\ p[2].val = v /\ instances'[i] = v
      /\ \A j \in Ids \ {i} : instances'[j] = instances[j]
  BY DEF Set, LocalInv, LocalTypeOK, Lists
<1>2. \A q \in Unsent : q[2].id \in Ids
  BY DEF Unsent, LocalInv, LocalTypeOK, TakenOK, Upserts, Gone
<1>3. \A j \in Ids : j # i => (j \in untold' <=> j \in untold)
  BY DEF Set
<1>4. i \notin untold' => \A q \in Unsent : q[2].id # i
  BY DEF Set, UnsentOf
<1>5. LoneOK'
  BY <1>1, <1>2, <1>3, <1>4 DEF LocalInv, LoneOK
<1>6. ASSUME NEW j \in Ids, Quiet(j)'
      PROVE  Quiet(j) /\ instances'[j] = instances[j]
  <2>1. j \notin untold' /\ (\A q \in Unsent' : q[2].id # j)
    BY <1>6 DEF Quiet, UnsentOf
  <2>2. j # i
    BY <2>1, <1>1
  <2> QED BY <2>1, <2>2, <1>1, <1>3 DEF Quiet, UnsentOf
<1> QED BY <1>5, <1>6

\* A call sends what it had still to send, and the map stays.
LEMMA TellStep ==
    ASSUME Distinct, LocalInv, NEW p \in Unsent, Send(p[2]), UNCHANGED mapVars,
           Unsent' = Unsent \ {p}
    PROVE  LoneOK' /\ QueueOK' /\ ViewOK'
<1>1. instances' = instances /\ untold' = untold
  BY DEF mapVars
<1>2. p[2] \in Events
  BY DEF Unsent, LocalInv, LocalTypeOK, TakenOK, Events
<1>3. LoneOK'
  BY <1>1 DEF LocalInv, LoneOK
<1>4. ASSUME NEW j \in Ids, Quiet(j)'
      PROVE  IF j = p[2].id THEN instances'[j] = p[2].val
             ELSE Quiet(j) /\ instances'[j] = instances[j]
  <2>1. j \notin untold /\ (\A q \in Unsent \ {p} : q[2].id # j)
    BY <1>1, <1>4 DEF Quiet, UnsentOf
  <2> QED BY <2>1, <1>1 DEF LocalInv, LoneOK, Quiet, UnsentOf
<1> QED BY <1>2, <1>3, <1>4, SendStep

-----------------------------------------------------------------------------
(* The actions. *)

LEMMA RegisterOK ==
    ASSUME Distinct, LocalInv, NEW r \in Registers, Register(r) PROVE LocalInv'
<1> USE DEF Register
<1>1. LocalTypeOK' /\ TakenOK' /\ FreshOK'
  BY DEF LocalInv, LocalTypeOK, TakenOK, FreshOK, Set, Lists, Upserts, readVars
<1>2. item[r].id \in Ids /\ item[r].val \in Vals /\ item[r] = [id |-> item[r].id, val |-> item[r].val]
  BY DEF LocalInv, LocalTypeOK, Upserts
<1>3. {q \in Registers : joining'[q] \in {"key", "send"}}
        = {q \in Registers : joining[q] \in {"key", "send"}} \cup {r}
  BY DEF LocalInv, LocalTypeOK
<1>4. Unsent' = Unsent \cup {<<r, item[r]>>}
  BY <1>3 DEF Unsent
<1>5. LoneOK' /\ \A j \in Ids : Quiet(j)' => Quiet(j) /\ instances'[j] = instances[j]
  BY <1>2, <1>4, SetStep
<1> QED BY <1>1, <1>5, SilentStep DEF LocalInv

LEMMA RegisterKeyOK ==
    ASSUME Distinct, LocalInv, NEW r \in Registers, RegisterKey(r) PROVE LocalInv'
<1> USE DEF RegisterKey, mapVars
<1>1. LocalTypeOK' /\ TakenOK' /\ FreshOK'
  BY DEF LocalInv, LocalTypeOK, TakenOK, FreshOK, Upserts, readVars
<1>2. {q \in Registers : joining'[q] \in {"key", "send"}}
        = {q \in Registers : joining[q] \in {"key", "send"}}
  BY DEF LocalInv, LocalTypeOK
<1>3. Unsent' = Unsent
  BY <1>2 DEF Unsent
<1>4. LoneOK'
  BY <1>3 DEF LocalInv, LoneOK
<1>5. \A j \in Ids : Quiet(j)' => Quiet(j) /\ instances'[j] = instances[j]
  BY <1>3 DEF Quiet, UnsentOf
<1> QED BY <1>1, <1>4, <1>5, SilentStep DEF LocalInv

LEMMA RegisterSendOK ==
    ASSUME Distinct, LocalInv, NEW r \in Registers, RegisterSend(r) PROVE LocalInv'
<1> USE DEF RegisterSend
<1>1. item[r] \in Events
  BY DEF LocalInv, LocalTypeOK, Events
<1>2. LocalTypeOK' /\ TakenOK' /\ FreshOK'
  BY <1>1, SendType DEF LocalInv, LocalTypeOK, TakenOK, FreshOK, mapVars
<1>3. {q \in Registers : joining'[q] \in {"key", "send"}}
        = {q \in Registers : joining[q] \in {"key", "send"}} \ {r}
  BY DEF LocalInv, LocalTypeOK
<1>4. Unsent' = Unsent \ {<<r, item[r]>>} /\ <<r, item[r]>> \in Unsent
  BY <1>3 DEF Unsent, Distinct
<1>5. LoneOK' /\ QueueOK' /\ ViewOK'
  BY <1>4, TellStep
<1> QED BY <1>2, <1>5 DEF LocalInv

LEMMA DeregisterOK ==
    ASSUME Distinct, LocalInv, NEW d \in Deregs, Deregister(d) PROVE LocalInv'
<1> USE DEF Deregister, mapVars
<1>1. LocalTypeOK' /\ TakenOK' /\ FreshOK'
  BY DEF LocalInv, LocalTypeOK, TakenOK, FreshOK, readVars
<1>2. \A q \in Deregs : (leaving'[q] = "send" <=> leaving[q] = "send")
        /\ (leaving[q] = "send" => gone'[q] = gone[q])
  BY DEF LocalInv, LocalTypeOK
<1>3. Unsent' = Unsent
  BY <1>2 DEF Unsent, Gone
<1>4. LoneOK'
  BY <1>3 DEF LocalInv, LoneOK
<1>5. \A j \in Ids : Quiet(j)' => Quiet(j) /\ instances'[j] = instances[j]
  BY <1>3 DEF Quiet, UnsentOf
<1> QED BY <1>1, <1>4, <1>5, SilentStep DEF LocalInv

LEMMA DeregRemoveOK ==
    ASSUME Distinct, LocalInv, NEW d \in Deregs, DeregRemove(d) PROVE LocalInv'
<1> USE DEF DeregRemove
<1>1. gone[d] \in Ids
  BY DEF LocalInv, TakenOK
<1>2. LocalTypeOK' /\ TakenOK' /\ FreshOK'
  BY <1>1 DEF LocalInv, LocalTypeOK, TakenOK, FreshOK, Set, Lists, readVars
<1>3. {q \in Deregs : leaving'[q] = "send"} = {q \in Deregs : leaving[q] = "send"} \cup {d}
  BY DEF LocalInv, LocalTypeOK
<1>4. Unsent' = Unsent \cup {<<d, [id |-> gone[d], val |-> Absent]>>}
  BY <1>3 DEF Unsent, Gone
<1>5. LoneOK' /\ \A j \in Ids : Quiet(j)' => Quiet(j) /\ instances'[j] = instances[j]
  BY <1>1, <1>4, SetStep
<1> QED BY <1>2, <1>5, SilentStep DEF LocalInv

LEMMA DeregSendOK ==
    ASSUME Distinct, LocalInv, NEW d \in Deregs, DeregSend(d) PROVE LocalInv'
<1> USE DEF DeregSend
<1>1. Gone(gone[d]) \in Events
  BY DEF LocalInv, TakenOK, Events
<1>2. LocalTypeOK' /\ TakenOK' /\ FreshOK'
  BY <1>1, SendType DEF LocalInv, LocalTypeOK, TakenOK, FreshOK, mapVars
<1>3. {q \in Deregs : leaving'[q] = "send"} = {q \in Deregs : leaving[q] = "send"} \ {d}
  BY DEF LocalInv, LocalTypeOK
<1>4. Unsent' = Unsent \ {<<d, Gone(gone[d])>>} /\ <<d, Gone(gone[d])>> \in Unsent
  BY <1>3 DEF Unsent, Distinct
<1>5. LoneOK' /\ QueueOK' /\ ViewOK'
  BY <1>4, TellStep
<1> QED BY <1>2, <1>5 DEF LocalInv

LEMMA AddOrRemoveOK ==
    ASSUME Distinct, LocalInv, NEW e \in Upserts \cup {Gone(i) : i \in Ids}, AddOrRemove(e)
    PROVE  LocalInv'
<1> USE DEF AddOrRemove, Edit, callVars
<1>1. e \in Events /\ e.id \in Ids /\ e.val \in Vals \cup {Absent}
  BY DEF Events, Upserts, Gone
<1>2. LocalTypeOK' /\ TakenOK' /\ FreshOK'
  BY <1>1, SendType DEF LocalInv, LocalTypeOK, TakenOK, FreshOK, Set, Lists, Distinct
<1>3. Unsent' = Unsent
  BY DEF Unsent
<1>4. /\ instances'[e.id] = e.val
      /\ \A j \in Ids : j # e.id => instances'[j] = instances[j] /\ (j \in untold' <=> j \in untold)
      /\ e.id \notin untold' => UnsentOf(e.id) = {}
  BY <1>1 DEF Set, LocalInv, LocalTypeOK, Lists
<1>5. \A q \in Unsent : q[2].id \in Ids
  BY DEF Unsent, LocalInv, LocalTypeOK, TakenOK, Upserts, Gone
<1>6. LoneOK'
  BY <1>3, <1>4, <1>5 DEF LocalInv, LoneOK, UnsentOf
<1>7. \A j \in Ids : Quiet(j)' =>
          IF j = e.id THEN instances'[j] = e.val ELSE Quiet(j) /\ instances'[j] = instances[j]
  BY <1>3, <1>4 DEF Quiet, UnsentOf
<1>8. QueueOK' /\ ViewOK'
  BY <1>1, <1>7, SendStep
<1> QED BY <1>2, <1>6, <1>8 DEF LocalInv

LEMMA ClearOK == ASSUME Distinct, LocalInv, Clear PROVE LocalInv'
<1> USE DEF Clear, Edit, callVars
<1>1. LocalTypeOK' /\ TakenOK' /\ FreshOK'
  BY DEF LocalInv, LocalTypeOK, TakenOK, FreshOK, Lists, Distinct, readVars
<1>2. Unsent' = Unsent
  BY DEF Unsent
<1>3. \A q \in Unsent : q[2].id \in Ids
  BY DEF Unsent, LocalInv, LocalTypeOK, TakenOK, Upserts, Gone
<1>4. LoneOK'
  BY <1>2, <1>3 DEF LoneOK, UnsentOf
<1>5. \A j \in Ids : Quiet(j)' => Quiet(j) /\ instances'[j] = instances[j]
  BY <1>2 DEF Quiet, UnsentOf
<1> QED BY <1>1, <1>4, <1>5, SilentStep DEF LocalInv

LEMMA OtherServiceOK == ASSUME Distinct, LocalInv, OtherService PROVE LocalInv'
<1> USE DEF OtherService, Edit, callVars, mapVars
<1>1. Other \in Events /\ Other.id \notin Ids
  BY DEF Other, Events, Gone, Distinct
<1>2. LocalTypeOK' /\ TakenOK' /\ FreshOK'
  BY <1>1, SendType DEF LocalInv, LocalTypeOK, TakenOK, FreshOK, Distinct
<1>3. Unsent' = Unsent
  BY DEF Unsent
<1>4. LoneOK'
  BY <1>3 DEF LocalInv, LoneOK
<1>5. \A j \in Ids : Quiet(j)' =>
          IF j = Other.id THEN instances'[j] = Other.val ELSE Quiet(j) /\ instances'[j] = instances[j]
  BY <1>1, <1>3 DEF Quiet, UnsentOf
<1>6. QueueOK' /\ ViewOK'
  BY <1>1, <1>5, SendStep
<1> QED BY <1>2, <1>4, <1>6 DEF LocalInv

\* A receiver starts with no events and its reader with no list.
LEMMA WatchOK == ASSUME Distinct, LocalInv, NEW w \in Watchers, Watch(w) PROVE LocalInv'
<1> USE DEF Watch, mapVars, callVars
<1>1. LocalTypeOK' /\ TakenOK' /\ FreshOK'
  BY DEF LocalInv, LocalTypeOK, TakenOK, FreshOK
<1>2. Unsent' = Unsent
  BY DEF Unsent
<1> QED BY <1>1, <1>2 DEF LocalInv, LoneOK, QueueOK, ViewOK, Quiet, UnsentOf

\* The list is the map, for which the events of every receiver are right.
LEMMA LocalListOK == ASSUME Distinct, LocalInv, NEW w \in Watchers, List(w) PROVE LocalInv'
<1> USE DEF List, mapVars, callVars
<1>1. LocalTypeOK' /\ TakenOK' /\ FreshOK'
  BY DEF LocalInv, LocalTypeOK, TakenOK, FreshOK
<1>2. Unsent' = Unsent /\ \A i : Quiet(i)' <=> Quiet(i)
  BY DEF Unsent, Quiet, UnsentOf
<1>3. LoneOK' /\ QueueOK'
  BY <1>2 DEF LocalInv, LoneOK, QueueOK
<1>4. ASSUME NEW u \in Watchers, NEW i \in Ids, Quiet(i), view'[u] # None, u \notin missed'
      PROVE  EndsWith(view'[u], queue'[u], i, instances'[i])
  <2>1. CASE u = w
    BY <1>4, <2>1 DEF LocalInv, QueueOK, LocalTypeOK
  <2>2. CASE u # w
    BY <1>4, <2>2 DEF LocalInv, ViewOK, LocalTypeOK
  <2> QED BY <2>1, <2>2
<1> QED BY <1>1, <1>2, <1>3, <1>4 DEF LocalInv, ViewOK

LEMMA LocalReadOK == ASSUME Distinct, LocalInv, NEW w \in Watchers, Read(w) PROVE LocalInv'
<1> USE DEF Read, mapVars, callVars
<1>1. /\ queue[w] \in Seq(Events) /\ queue[w] # <<>>
      /\ Head(queue[w]) \in Events /\ Tail(queue[w]) \in Seq(Events)
      /\ Len(Tail(queue[w])) = Len(queue[w]) - 1 /\ Len(queue[w]) \in Nat
      /\ instances \in Lists /\ view[w] \in Lists \cup {None}
  BY DEF LocalInv, LocalTypeOK
<1>2. Head(queue[w]).id \in Ids => Head(queue[w]).val \in Vals \cup {Absent}
  BY <1>1 DEF Events, Upserts, Gone
<1>3. view[w] # None => Patch(view[w], Head(queue[w])) \in Lists
  BY <1>1, <1>2 DEF Patch, Lists
<1>4. LocalTypeOK' /\ TakenOK' /\ FreshOK'
  BY <1>1, <1>3 DEF LocalInv, LocalTypeOK, TakenOK, FreshOK, Distinct
<1>5. Unsent' = Unsent /\ \A i : Quiet(i)' <=> Quiet(i)
  BY DEF Unsent, Quiet, UnsentOf
<1>6. ASSUME NEW u \in Watchers, NEW i \in Ids, Quiet(i)
      PROVE  /\ EndsWith(instances', queue'[u], i, instances'[i])
             /\ view'[u] # None /\ u \notin missed' =>
                   EndsWith(view'[u], queue'[u], i, instances'[i])
  <2>1. CASE u = w
    <3>1. queue'[w] = Tail(queue[w]) /\ instances' = instances
      BY DEF LocalInv, LocalTypeOK
    <3>2. i \in DOMAIN instances /\ EndsWith(instances, queue[w], i, instances[i])
      BY <1>1, <1>6 DEF LocalInv, QueueOK, Lists
    <3>3. EndsWith(instances, Tail(queue[w]), i, instances[i])
      BY <1>1, <3>2, EndsTail
    <3>4. ASSUME view'[w] # None, w \notin missed'
          PROVE  EndsWith(view'[w], queue'[w], i, instances'[i])
      <4>1. view[w] # None /\ view'[w] = Patch(view[w], Head(queue[w]))
        BY <3>4 DEF LocalInv, LocalTypeOK
      <4>2. i \in DOMAIN view[w] /\ EndsWith(view[w], queue[w], i, instances[i])
        BY <1>1, <1>6, <3>4, <4>1 DEF LocalInv, ViewOK, Lists
      <4>3. EndsWith(Patch(view[w], Head(queue[w])), Tail(queue[w]), i, instances[i])
        BY <1>1, <4>2, EndsTail
      <4> QED BY <3>1, <4>1, <4>3
    <3> QED BY <2>1, <3>1, <3>3, <3>4
  <2>2. CASE u # w
    BY <1>6, <2>2 DEF LocalInv, QueueOK, ViewOK, LocalTypeOK
  <2> QED BY <2>1, <2>2
<1>7. LoneOK'
  BY <1>5 DEF LocalInv, LoneOK
<1> QED BY <1>4, <1>5, <1>6, <1>7 DEF LocalInv, QueueOK, ViewOK

-----------------------------------------------------------------------------
LEMMA LocalStepOK == ASSUME Distinct PROVE LocalInv /\ [LocalNext]_localVars => LocalInv'
<1> SUFFICES ASSUME LocalInv, [LocalNext]_localVars PROVE LocalInv'
  OBVIOUS
<1>1. CASE UNCHANGED localVars
  BY <1>1 DEF localVars, mapVars, callVars, readVars, LocalInv, LocalTypeOK, TakenOK, FreshOK, LoneOK,
     QueueOK, ViewOK, Quiet, UnsentOf, Unsent
<1>2. CASE LocalNext
  BY <1>2, RegisterOK, RegisterKeyOK, RegisterSendOK, DeregisterOK, DeregRemoveOK, DeregSendOK,
     AddOrRemoveOK, ClearOK, OtherServiceOK, WatchOK, LocalListOK, LocalReadOK DEF LocalNext
<1> QED BY <1>1, <1>2

LEMMA LocalInductive == LocalSpec => []LocalInv
<1>1. LocalInit => LocalInv
  BY LocalInitOK, LocalAssumption
<1>2. LocalInv /\ [LocalNext]_localVars => LocalInv'
  BY LocalStepOK, LocalAssumption
<1> QED BY <1>1, <1>2, PTL DEF LocalSpec

\* Every variable of LocalRegistry has its type, and no receiver holds more than the capacity.
THEOREM LocalTypeCorrect == LocalSpec => []LocalTypeOK
<1>1. LocalInv => LocalTypeOK
  BY DEF LocalInv
<1> QED BY <1>1, LocalInductive, PTL

\* A reader that loses nothing after its list ends up with what the map holds (local.rs:55-155).
THEOREM StreamsTell == LocalSpec => []StreamTells
<1>1. LocalInv => StreamTells
  BY DEF LocalInv, LoneOK, ViewOK, Quiet, UnsentOf, StreamTells
<1> QED BY <1>1, LocalInductive, PTL

-----------------------------------------------------------------------------
(* EtcdWatch. *)

\* What the reader has still to get.
Stream == chan \o ToldAll(hand) \o ToldAll(wire)

\* What is there under the key of an id.
Now(i) == keys[KeyOf[i]].val

\* Before watch there is nothing, and the task has events in hand when it passes them on.
PumpOK ==
    /\ reader = "none" => pump = "none"
    /\ pump = "none" => reader # "reads" /\ chan = <<>> /\ hand = <<>> /\ wire = <<>> /\ seen = None
    /\ pump = "recv" => hand = <<>>
    /\ pump = "pass" => hand # <<>>

\* The events are right for the list that list_instances would answer now, and for the reader's.
StreamOK == reader = "reads" /\ ~cut =>
    \A i \in Legible :
        /\ EndsWith(Parsed, Stream, i, Now(i))
        /\ seen # None => EndsWith(seen, Stream, i, Now(i))

WatchInv == WatchTypeOK /\ PumpOK /\ StreamOK

-----------------------------------------------------------------------------
(* Streams. *)

LEMMA ToldType == ASSUME KeysNamed, NEW e \in KeyEvents PROVE Told(e) \in Messages
BY DEF KeysNamed, KeyEvents, Messages, Told, Keys

LEMMA ToldAllType ==
    ASSUME KeysNamed, NEW s \in Seq(KeyEvents)
    PROVE  /\ ToldAll(s) \in Seq(Messages) /\ Len(ToldAll(s)) = Len(s)
           /\ \A k \in 1..Len(s) : ToldAll(s)[k] = Told(s[k])
<1>1. \A k \in 1..Len(s) : Told(s[k]) \in Messages
  BY ToldType
<1>2. ToldAll(s) = [k \in 1..Len(s) |-> Told(s[k])] /\ Len(s) \in Nat
  BY DEF ToldAll
<1> QED BY <1>1, <1>2, SeqDef

\* The messages of changes one after the other are those of each.
LEMMA ToldConcat ==
    ASSUME KeysNamed, NEW s \in Seq(KeyEvents), NEW t \in Seq(KeyEvents)
    PROVE  ToldAll(s \o t) = ToldAll(s) \o ToldAll(t)
<1>1. /\ s \o t \in Seq(KeyEvents) /\ Len(s \o t) = Len(s) + Len(t)
      /\ \A k \in 1..(Len(s) + Len(t)) : (s \o t)[k] = IF k <= Len(s) THEN s[k] ELSE t[k - Len(s)]
  BY ConcatProperties
<1> DEFINE p == ToldAll(s)
           q == ToldAll(t)
           l == ToldAll(s \o t)
<1>2. /\ p \in Seq(Messages) /\ Len(p) = Len(s) /\ \A k \in 1..Len(s) : p[k] = Told(s[k])
      /\ q \in Seq(Messages) /\ Len(q) = Len(t) /\ \A k \in 1..Len(t) : q[k] = Told(t[k])
      /\ l \in Seq(Messages) /\ Len(l) = Len(s) + Len(t)
      /\ \A k \in 1..(Len(s) + Len(t)) : l[k] = Told((s \o t)[k])
  BY <1>1, ToldAllType
<1> HIDE DEF p, q, l
<1>3. /\ p \o q \in Seq(Messages) /\ Len(p \o q) = Len(s) + Len(t)
      /\ \A k \in 1..(Len(s) + Len(t)) : (p \o q)[k] = IF k <= Len(s) THEN p[k] ELSE q[k - Len(s)]
  <2>1. p \o q \in Seq(Messages) /\ Len(p \o q) = Len(p) + Len(q)
        /\ \A k \in 1..(Len(p) + Len(q)) : (p \o q)[k] = IF k <= Len(p) THEN p[k] ELSE q[k - Len(p)]
    <3>1. p \in Seq(Messages) /\ q \in Seq(Messages)
      BY <1>2
    <3> QED BY <3>1, ConcatProperties
  <2> QED BY <1>2, <2>1
<1>4. ASSUME NEW k \in 1..(Len(s) + Len(t)) PROVE l[k] = (p \o q)[k]
  <2>1. Len(s) \in Nat /\ Len(t) \in Nat
    OBVIOUS
  <2>2. CASE k <= Len(s)
    <3>1. (s \o t)[k] = s[k] /\ (p \o q)[k] = p[k] /\ k \in 1..Len(s)
      BY <1>1, <1>3, <2>1, <2>2
    <3> QED BY <1>2, <3>1
  <2>3. CASE ~(k <= Len(s))
    <3>1. (s \o t)[k] = t[k - Len(s)] /\ (p \o q)[k] = q[k - Len(s)] /\ k - Len(s) \in 1..Len(t)
      BY <1>1, <1>3, <2>1, <2>3
    <3> QED BY <1>2, <3>1
  <2> QED BY <2>2, <2>3
<1>5. l = p \o q
  BY <1>2, <1>3, <1>4, SeqEqual
<1> QED BY <1>5 DEF p, q, l

LEMMA ToldAppend ==
    ASSUME KeysNamed, NEW s \in Seq(KeyEvents), NEW e \in KeyEvents
    PROVE  ToldAll(Append(s, e)) = Append(ToldAll(s), Told(e))
<1>1. <<e>> \in Seq(KeyEvents) /\ Append(s, e) = s \o <<e>>
  BY AppendIsConcat
<1>2. ToldAll(<<e>>) = <<Told(e)>>
  <2>1. /\ ToldAll(<<e>>) \in Seq(Messages) /\ Len(ToldAll(<<e>>)) = 1
        /\ ToldAll(<<e>>)[1] = Told(e)
    <3> DEFINE s1 == <<e>>
    <3>1. s1 \in Seq(KeyEvents) /\ Len(s1) = 1 /\ 1 \in 1..Len(s1) /\ s1[1] = e
      BY <1>1
    <3> HIDE DEF s1
    <3>2. ToldAll(s1) \in Seq(Messages) /\ Len(ToldAll(s1)) = 1 /\ ToldAll(s1)[1] = Told(e)
      BY <3>1, ToldAllType
    <3> QED BY <3>2 DEF s1
  <2>2. <<Told(e)>> \in Seq(Messages) /\ Len(<<Told(e)>>) = 1 /\ <<Told(e)>>[1] = Told(e)
    BY ToldType
  <2> QED BY <2>1, <2>2, SeqEqual
<1>3. ToldAll(s) \in Seq(Messages) /\ Told(e) \in Messages
  BY ToldAllType, ToldType
<1>4. Append(ToldAll(s), Told(e)) = ToldAll(s) \o <<Told(e)>>
  BY <1>3, AppendIsConcat
<1> QED BY <1>1, <1>2, <1>4, ToldConcat

\* The message of the first change comes first.
LEMMA ToldHead ==
    ASSUME KeysNamed, NEW s \in Seq(KeyEvents), s # <<>>
    PROVE  /\ ToldAll(s) # <<>> /\ Head(ToldAll(s)) = Told(Head(s))
           /\ ToldAll(Tail(s)) = Tail(ToldAll(s))
<1>1. /\ Len(s) \in Nat \ {0} /\ Head(s) = s[1] /\ Tail(s) \in Seq(KeyEvents)
      /\ Len(Tail(s)) = Len(s) - 1 /\ \A k \in 1..(Len(s) - 1) : Tail(s)[k] = s[k + 1]
  OBVIOUS
<1> DEFINE p == ToldAll(s)
           q == ToldAll(Tail(s))
<1>2. /\ p \in Seq(Messages) /\ Len(p) = Len(s) /\ \A k \in 1..Len(s) : p[k] = Told(s[k])
      /\ q \in Seq(Messages) /\ Len(q) = Len(s) - 1
      /\ \A k \in 1..(Len(s) - 1) : q[k] = Told(Tail(s)[k])
  BY <1>1, ToldAllType
<1> HIDE DEF p, q
<1>3. /\ p # <<>> /\ Head(p) = p[1] /\ Tail(p) \in Seq(Messages) /\ Len(Tail(p)) = Len(s) - 1
      /\ \A k \in 1..(Len(s) - 1) : Tail(p)[k] = p[k + 1]
  BY <1>1, <1>2
<1>4. \A k \in 1..(Len(s) - 1) : q[k] = Tail(p)[k]
  <2> SUFFICES ASSUME NEW k \in 1..(Len(s) - 1) PROVE q[k] = Tail(p)[k]
    OBVIOUS
  <2>1. k + 1 \in 1..Len(s)
    BY <1>1
  <2> QED BY <1>1, <1>2, <1>3, <2>1
<1>5. q = Tail(p)
  BY <1>2, <1>3, <1>4, SeqEqual
<1> QED BY <1>1, <1>2, <1>3, <1>5 DEF p, q

LEMMA StreamType == ASSUME KeysNamed, WatchTypeOK PROVE Stream \in Seq(Messages)
<1>1. ToldAll(hand) \in Seq(Messages) /\ ToldAll(wire) \in Seq(Messages)
  BY ToldAllType DEF WatchTypeOK
<1> QED BY <1>1, ConcatProperties DEF WatchTypeOK, Stream

LEMMA Associative == \A a, b, c \in Seq(Messages) : (a \o b) \o c = a \o (b \o c)
BY ConcatAssociative

\* An id that ends its own key and no other shares the key with none.
LEMMA PlainAlone ==
    ASSUME NEW i \in Plain, NEW j \in Ids
    PROVE  /\ i \in Ids
           /\ KeyOf[j] = KeyOf[i] => j = i
           /\ Segment[KeyOf[j]] = i <=> j = i
BY DEF Plain

LEMMA ParsedLists == ASSUME WatchTypeOK
    PROVE Parsed \in KeyLists /\ Legible \subseteq Ids /\ \A i \in Legible : Parsed[i] = Now(i)
<1>1. ASSUME NEW i \in Ids
      PROVE  KeyOf[i] \in Keys /\ keys[KeyOf[i]] \in KeyEvents
             /\ KeyOf[keys[KeyOf[i]].id] = KeyOf[i]
  BY DEF WatchTypeOK, Keys
<1>2. Parsed \in KeyLists
  BY <1>1 DEF Parsed, KeyLists, KeyEvents, Values
<1>3. ASSUME NEW i \in Legible PROVE i \in Ids /\ Parsed[i] = Now(i)
  <2>1. i \in Plain /\ i \in Ids /\ keys[KeyOf[i]].val # Junk
    BY DEF Legible, Plain
  <2>2. keys[KeyOf[i]].id \in Ids
    BY <1>1, <2>1 DEF KeyEvents
  <2>3. keys[KeyOf[i]].id = i
    BY <1>1, <2>1, <2>2, PlainAlone
  <2> QED BY <2>1, <2>3 DEF Parsed, Now
<1> QED BY <1>2, <1>3

\* An event that does not parse can be left out of a stream that ends with a value that does.
LEMMA EndsDrop ==
    ASSUME NEW S, NEW a \in Seq(S), NEW b \in Seq(S), b # <<>>, NEW list, NEW i, NEW v,
           Head(b).val # v, EndsWith(list, a \o b, i, v)
    PROVE  EndsWith(list, a \o Tail(b), i, v)
<1> DEFINE s == a \o b
           t == a \o Tail(b)
           n == Len(a)
<1>1. /\ n \in Nat /\ Len(b) \in Nat \ {0} /\ Tail(b) \in Seq(S) /\ Len(Tail(b)) = Len(b) - 1
      /\ \A k \in 1..(Len(b) - 1) : Tail(b)[k] = b[k + 1]
      /\ Head(b) = b[1]
  BY HeadTailProperties
<1>2. /\ s \in Seq(S) /\ Len(s) = n + Len(b) /\ DOMAIN s = 1..(n + Len(b))
      /\ t \in Seq(S) /\ Len(t) = n + Len(b) - 1 /\ DOMAIN t = 1..(n + Len(b) - 1)
  BY <1>1, ConcatProperties
<1>3. \A k \in 1..n : s[k] = a[k] /\ t[k] = a[k]
  BY <1>1, ConcatProperties
<1>4. s[n + 1] = Head(b)
  BY <1>1, ConcatProperties
<1>5. \A k \in DOMAIN t : k > n => t[k] = s[k + 1]
  <2> SUFFICES ASSUME NEW k \in DOMAIN t, k > n PROVE t[k] = s[k + 1]
    OBVIOUS
  <2>1. t[k] = Tail(b)[k - n] /\ k - n \in 1..(Len(b) - 1)
    BY <1>1, <1>2, ConcatProperties
  <2>2. s[k + 1] = b[k + 1 - n]
    BY <1>1, <1>2, ConcatProperties
  <2>3. Tail(b)[k - n] = b[(k - n) + 1]
    BY <2>1, <1>1
  <2> QED BY <2>1, <2>2, <2>3, <1>1, <1>2
<1> HIDE DEF s, t, n
<1>6. CASE \A k \in DOMAIN s : s[k].id # i
  <2>1. \A k \in DOMAIN t : t[k].id # i
    BY <1>6, <1>1, <1>2, <1>3, <1>5
  <2> QED BY <1>6, <2>1 DEF EndsWith, s, t
<1>7. CASE \E k \in DOMAIN s : s[k].id = i
  <2>1. PICK k \in DOMAIN s : IsLast(s, k, i) /\ s[k].val = v
    BY <1>7 DEF EndsWith, s
  <2>2. k # n + 1
    BY <2>1, <1>4
  <2>3. CASE k <= n
    <3>1. k \in DOMAIN t /\ t[k] = s[k]
      BY <2>1, <2>3, <1>1, <1>2, <1>3
    <3>2. ASSUME NEW m \in DOMAIN t, m > k PROVE t[m].id # i
      <4>1. CASE m <= n
        <5>1. m \in DOMAIN s /\ t[m] = s[m]
          BY <4>1, <1>1, <1>2, <1>3
        <5> QED BY <5>1, <3>2, <2>1 DEF IsLast
      <4>2. CASE m > n
        <5>1. m + 1 \in DOMAIN s /\ m + 1 > k /\ t[m] = s[m + 1]
          BY <4>2, <2>3, <1>1, <1>2, <1>5
        <5> QED BY <5>1, <2>1 DEF IsLast
      <4> QED BY <4>1, <4>2, <1>1, <1>2
    <3> QED BY <3>1, <3>2, <2>1 DEF EndsWith, IsLast, t
  <2>4. CASE k > n + 1
    <3>1. k - 1 \in DOMAIN t /\ t[k - 1] = s[k]
      BY <2>1, <2>4, <1>1, <1>2, <1>5, SMTT(30)
    <3>2. ASSUME NEW m \in DOMAIN t, m > k - 1 PROVE t[m].id # i
      <4>1. m + 1 \in DOMAIN s /\ m + 1 > k /\ t[m] = s[m + 1]
        BY <3>2, <2>4, <1>1, <1>2, <1>5
      <4> QED BY <4>1, <2>1 DEF IsLast
    <3> QED BY <3>1, <3>2, <2>1 DEF EndsWith, IsLast, t
  <2> QED BY <2>1, <2>2, <2>3, <2>4, <1>1, <1>2
<1> QED BY <1>6, <1>7

\* The same of an event at the front of the middle part.
LEMMA EndsDropMiddle ==
    ASSUME NEW a \in Seq(Messages), NEW h \in Seq(Messages), NEW r \in Seq(Messages), NEW w \in Seq(Messages),
           h # <<>>, r = Tail(h), NEW list, NEW i, NEW v, Head(h).val # v,
           EndsWith(list, (a \o h) \o w, i, v)
    PROVE  EndsWith(list, (a \o r) \o w, i, v)
<1>1. h \o w \in Seq(Messages) /\ h \o w # <<>> /\ Head(h \o w) = Head(h) /\ Tail(h \o w) = r \o w
  OBVIOUS
<1>2. (a \o h) \o w = a \o (h \o w)
  BY Associative, ZenonT(30)
<1>3. (a \o r) \o w = a \o (r \o w)
  BY Associative, ZenonT(30)
<1> DEFINE b == h \o w
<1>4. EndsWith(list, a \o b, i, v)
  BY <1>2
<1>5. b \in Seq(Messages) /\ b # <<>> /\ Head(b).val # v /\ Tail(b) = r \o w
  BY <1>1
<1> HIDE DEF b
<1>6. EndsWith(list, a \o Tail(b), i, v)
  BY <1>4, <1>5, EndsDrop
<1> QED BY <1>3, <1>5, <1>6

-----------------------------------------------------------------------------
LEMMA WatchInitOK == ASSUME KeysNamed PROVE WatchInit => WatchInv
<1> SUFFICES ASSUME WatchInit PROVE WatchInv
  OBVIOUS
<1>1. Len(chan) = 0 /\ chan \in Seq(Messages) /\ wire \in Seq(KeyEvents) /\ hand \in Seq(KeyEvents)
  BY DEF WatchInit
<1>2. WatchTypeOK
  <2>1. puts \in 0..MaxPuts /\ Len(chan) <= ChanCap
    BY <1>1 DEF WatchInit, KeysNamed
  <2> QED BY <1>1, <2>1 DEF WatchInit, WatchTypeOK
<1> QED BY <1>2 DEF WatchInit, WatchInv, PumpOK, StreamOK

\* Steps that leave what is under way as it is, or what it consists of.
LEMMA SameStream ==
    ASSUME KeysNamed, WatchInv, WatchTypeOK', Stream' = Stream, keys' = keys,
           reader' = "reads" /\ ~cut' => reader = "reads" /\ ~cut /\ seen' \in {seen, Parsed}
    PROVE  StreamOK'
<1>1. Legible' = Legible /\ Parsed' = Parsed /\ \A i \in Ids : Now(i)' = Now(i)
  BY DEF Legible, Parsed, Now
<1>2. None # Parsed
  BY ParsedLists DEF WatchInv, KeysNamed
<1> QED BY <1>1, <1>2, ParsedLists DEF WatchInv, StreamOK

LEMMA ChangeOK ==
    ASSUME KeysNamed, WatchInv, NEW i \in Ids, NEW v \in Values, ChangeKey(i, v) PROVE WatchInv'
<1> USE DEF ChangeKey
<1> DEFINE e == [id |-> i, val |-> v]
<1>1. e \in KeyEvents /\ KeyOf[i] \in Keys /\ KeyOf[e.id] = KeyOf[i]
  BY DEF KeyEvents, Keys
<1>2. WatchTypeOK' /\ PumpOK'
  BY <1>1 DEF WatchInv, WatchTypeOK, PumpOK, KeysNamed
<1>3. ASSUME reader' = "reads", ~cut', NEW j \in Legible'
      PROVE  /\ EndsWith(Parsed', Stream', j, Now(j)')
             /\ seen' # None => EndsWith(seen', Stream', j, Now(j)')
  <2>1. /\ reader = "reads" /\ ~cut /\ pump # "none" /\ seen' = seen
        /\ j \in Plain /\ j \in Ids /\ Now(j)' # Junk
    BY <1>3 DEF WatchInv, PumpOK, Legible, Plain, Now
  <2>2. Stream' = Append(Stream, Told(e))
    <3> DEFINE a == chan \o ToldAll(hand)
    <3>1. a \in Seq(Messages) /\ wire \in Seq(KeyEvents) /\ ToldAll(wire) \in Seq(Messages)
          /\ <<Told(e)>> \in Seq(Messages) /\ Told(e) \in Messages
          /\ a' = a /\ wire' = Append(wire, e)
      <4>1. ToldAll(hand) \in Seq(Messages) /\ ToldAll(wire) \in Seq(Messages) /\ Told(e) \in Messages
        BY <1>1, ToldAllType, ToldType DEF WatchInv, WatchTypeOK
      <4> QED BY <1>1, <2>1, <4>1, ConcatProperties DEF WatchInv, WatchTypeOK
    <3>2. Stream = a \o ToldAll(wire) /\ Stream' = a' \o ToldAll(wire')
      BY DEF Stream
    <3> HIDE DEF a
    <3>3. ToldAll(wire') = ToldAll(wire) \o <<Told(e)>>
      BY <1>1, <3>1, ToldAppend, AppendIsConcat
    <3>4. Append(Stream, Told(e)) = (a \o ToldAll(wire)) \o <<Told(e)>>
      <4>1. a \o ToldAll(wire) \in Seq(Messages)
        BY <3>1, ConcatProperties
      <4> QED BY <3>1, <3>2, <4>1, AppendIsConcat
    <3>5. Stream' = a \o (ToldAll(wire) \o <<Told(e)>>)
      BY <3>1, <3>2, <3>3
    <3> QED BY <3>1, <3>4, <3>5, Associative
  <2>3. Stream \in Seq(Messages)
    BY StreamType DEF WatchInv
  <2>4. Told(e).val = v /\ (Told(e).id = j <=> i = j)
    BY <2>1, PlainAlone DEF Told
  <2>5. CASE j = i
    <3>1. Now(j)' = v
      BY <1>1, <2>1, <2>5 DEF WatchInv, WatchTypeOK, Now
    <3> QED BY <2>2, <2>3, <2>4, <2>5, <3>1, EndsAppend
  <2>6. CASE j # i
    <3>1. KeyOf[j] # KeyOf[i] /\ KeyOf[j] \in Keys
      BY <2>1, <2>6, PlainAlone DEF Keys
    <3>2. keys'[KeyOf[j]] = keys[KeyOf[j]]
      BY <3>1 DEF WatchInv, WatchTypeOK
    <3>3. Now(j)' = Now(j) /\ j \in Legible /\ Parsed'[j] = Parsed[j]
      BY <2>1, <3>2 DEF Now, Legible, Parsed
    <3>4. /\ EndsWith(Parsed, Stream, j, Now(j))
          /\ seen # None => EndsWith(seen, Stream, j, Now(j))
      BY <2>1, <3>3 DEF WatchInv, StreamOK
    <3>5. EndsWith(Parsed', Stream, j, Now(j))
      BY <3>3, <3>4 DEF EndsWith
    <3> QED BY <2>1, <2>2, <2>3, <2>4, <2>6, <3>3, <3>4, <3>5, EndsAppend
  <2> QED BY <2>5, <2>6
<1> QED BY <1>2, <1>3 DEF WatchInv, StreamOK

LEMMA CutOK == ASSUME KeysNamed, WatchInv, Cut PROVE WatchInv'
<1> USE DEF Cut
<1>1. wire' \in Seq(KeyEvents)
  <2>1. PICK n \in 0..Len(wire) : wire' = SubSeq(wire, 1, n)
    OBVIOUS
  <2>2. wire \in Seq(KeyEvents)
    BY DEF WatchInv, WatchTypeOK
  <2> QED BY <2>1, <2>2
<1> QED BY <1>1 DEF WatchInv, WatchTypeOK, PumpOK, StreamOK

LEMMA ReceiveOK == ASSUME KeysNamed, WatchInv, Receive PROVE WatchInv'
<1> USE DEF Receive
<1>1. /\ wire \in Seq(KeyEvents) /\ chan \in Seq(Messages) /\ hand = <<>>
  BY DEF WatchInv, WatchTypeOK, PumpOK
<1>2. PICK n \in 1..Len(wire) :
         hand' = SubSeq(wire, 1, n) /\ wire' = SubSeq(wire, n + 1, Len(wire))
  OBVIOUS
<1>3. hand' \in Seq(KeyEvents) /\ wire' \in Seq(KeyEvents) /\ hand' # <<>>
  BY <1>1, <1>2
<1>4. hand' \o wire' = wire
  <2>1. 1 \in 1..(Len(wire) + 1) /\ n \in (1 - 1)..Len(wire) /\ Len(wire) \in n..Len(wire)
    BY <1>1
  <2>2. SubSeq(wire, 1, n) \o SubSeq(wire, n + 1, Len(wire)) = SubSeq(wire, 1, Len(wire))
    BY <1>1, <2>1, ConcatAdjacentSubSeq
  <2> QED BY <1>1, <1>2, <2>2, SubSeqFull
<1>5. Stream' = Stream
  <2>1. /\ ToldAll(hand') \in Seq(Messages) /\ ToldAll(wire') \in Seq(Messages)
        /\ ToldAll(wire) = ToldAll(hand') \o ToldAll(wire')
    BY <1>3, <1>4, ToldAllType, ToldConcat
  <2>2. ToldAll(hand) = <<>>
    BY <1>1 DEF ToldAll
  <2>3. Stream' = (chan \o ToldAll(hand')) \o ToldAll(wire') /\ Stream = (chan \o <<>>) \o ToldAll(wire)
    BY <2>2 DEF Stream
  <2>4. (chan \o ToldAll(hand')) \o ToldAll(wire') = chan \o (ToldAll(hand') \o ToldAll(wire'))
    BY <1>1, <2>1, Associative
  <2>5. chan \o <<>> = chan
    BY <1>1, ConcatEmptySeq
  <2> QED BY <2>1, <2>3, <2>4, <2>5
<1>6. WatchTypeOK' /\ PumpOK'
  BY <1>3 DEF WatchInv, WatchTypeOK, PumpOK
<1> QED BY <1>5, <1>6, SameStream DEF WatchInv

\* What HandOver leaves in hand.
LEMMA HandType ==
    ASSUME WatchInv, HandOver
    PROVE  /\ hand \in Seq(KeyEvents) /\ hand # <<>> /\ Head(hand) \in KeyEvents
           /\ hand' = Tail(hand) /\ hand' \in Seq(KeyEvents)
           /\ pump' = IF hand' = <<>> THEN "recv" ELSE "pass"
BY DEF WatchInv, WatchTypeOK, PumpOK, HandOver

LEMMA PassOK == ASSUME KeysNamed, WatchInv, Pass PROVE WatchInv'
<1> USE DEF Pass
<1>1. hand \in Seq(KeyEvents) /\ hand # <<>> /\ Head(hand) \in KeyEvents
      /\ hand' = Tail(hand) /\ hand' \in Seq(KeyEvents)
      /\ pump' = IF hand' = <<>> THEN "recv" ELSE "pass"
  BY HandType
<1>2. /\ chan \in Seq(Messages) /\ wire \in Seq(KeyEvents) /\ wire' = wire
      /\ Told(Head(hand)) \in Messages
      /\ chan' = Append(chan, Told(Head(hand))) /\ chan' \in Seq(Messages) /\ Len(chan') <= ChanCap
  <2>1. Told(Head(hand)) \in Messages
    BY <1>1, ToldType
  <2> QED BY <2>1 DEF WatchInv, WatchTypeOK, KeysNamed, HandOver
<1>3. chan' \o ToldAll(hand') = chan \o ToldAll(hand)
  <2> DEFINE h == ToldAll(hand)
  <2>1. h \in Seq(Messages) /\ h # <<>> /\ Head(h) = Told(Head(hand)) /\ ToldAll(hand') = Tail(h)
    BY <1>1, ToldAllType, ToldHead
  <2> HIDE DEF h
  <2>2. h = <<Head(h)>> \o Tail(h) /\ Tail(h) \in Seq(Messages) /\ <<Head(h)>> \in Seq(Messages)
    BY <2>1
  <2>3. chan' = chan \o <<Head(h)>>
    BY <1>2, <2>1, AppendIsConcat
  <2>4. (chan \o <<Head(h)>>) \o Tail(h) = chan \o (<<Head(h)>> \o Tail(h))
    BY <1>2, <2>2, Associative
  <2> QED BY <2>1, <2>2, <2>3, <2>4 DEF h
<1>4. Stream' = Stream
  BY <1>2, <1>3 DEF Stream
<1>5. WatchTypeOK' /\ PumpOK'
  BY <1>1, <1>2 DEF WatchInv, WatchTypeOK, PumpOK, HandOver
<1> QED BY <1>4, <1>5, SameStream DEF WatchInv, HandOver

\* What is dropped while the reader reads does not parse.
LEMMA PassNothingOK == ASSUME KeysNamed, WatchInv, PassNothing PROVE WatchInv'
<1> USE DEF PassNothing
<1>1. hand \in Seq(KeyEvents) /\ hand # <<>> /\ hand' = Tail(hand) /\ hand' \in Seq(KeyEvents)
      /\ pump' = IF hand' = <<>> THEN "recv" ELSE "pass"
  BY HandType
<1>2. WatchTypeOK' /\ PumpOK'
  BY <1>1 DEF WatchInv, WatchTypeOK, PumpOK, HandOver
<1>3. ASSUME reader' = "reads", ~cut', NEW j \in Legible'
      PROVE  /\ EndsWith(Parsed', Stream', j, Now(j)')
             /\ seen' # None => EndsWith(seen', Stream', j, Now(j)')
  <2>1. /\ reader = "reads" /\ ~cut /\ seen' = seen /\ j \in Legible
        /\ Parsed' = Parsed /\ Now(j)' = Now(j) /\ chan' = chan /\ wire' = wire
    BY <1>3 DEF HandOver, Legible, Parsed, Now
  <2> DEFINE h == ToldAll(hand)
             w == ToldAll(wire)
  <2>2. /\ h \in Seq(Messages) /\ h # <<>> /\ ToldAll(hand') = Tail(h) /\ Tail(h) \in Seq(Messages)
        /\ Head(h) = Told(Head(hand)) /\ chan \in Seq(Messages) /\ w \in Seq(Messages)
    BY <1>1, ToldAllType, ToldHead DEF WatchInv, WatchTypeOK
  <2>3. Head(h).val # Now(j)
    <3>1. Head(hand).val = Junk /\ Now(j) # Junk
      BY <2>1 DEF Legible, Now
    <3> QED BY <2>2, <3>1 DEF Told
  <2>4. Stream = (chan \o h) \o w /\ Stream' = (chan \o Tail(h)) \o w
    BY <2>1, <2>2 DEF Stream
  <2>5. /\ EndsWith(Parsed, Stream, j, Now(j))
        /\ seen # None => EndsWith(seen, Stream, j, Now(j))
    BY <2>1 DEF WatchInv, StreamOK
  <2> HIDE DEF h, w
  <2> QED BY <2>1, <2>2, <2>3, <2>4, <2>5, EndsDropMiddle
<1> QED BY <1>2, <1>3 DEF WatchInv, StreamOK

\* The reader patches its list with the first of the events that are under way.
LEMMA WatchReadOK == ASSUME KeysNamed, WatchInv, ReadEvent PROVE WatchInv'
<1> USE DEF ReadEvent
<1> DEFINE h == ToldAll(hand)
           w == ToldAll(wire)
<1>1. chan \in Seq(Messages) /\ chan # <<>> /\ Head(chan) \in Messages /\ Tail(chan) \in Seq(Messages)
      /\ Len(Tail(chan)) = Len(chan) - 1 /\ Len(chan) \in Nat /\ Len(chan) <= ChanCap
      /\ h \in Seq(Messages) /\ w \in Seq(Messages)
  BY ToldAllType DEF WatchInv, WatchTypeOK
<1>2. seen # None => Patch(seen, Head(chan)) \in KeyLists
  BY <1>1 DEF WatchInv, WatchTypeOK, Patch, KeyLists, Messages
<1>3. WatchTypeOK' /\ PumpOK'
  BY <1>1, <1>2 DEF WatchInv, WatchTypeOK, PumpOK, KeysNamed
<1>4. ASSUME reader' = "reads", ~cut', NEW j \in Legible'
      PROVE  /\ EndsWith(Parsed', Stream', j, Now(j)')
             /\ seen' # None => EndsWith(seen', Stream', j, Now(j)')
  <2>1. /\ reader = "reads" /\ ~cut /\ j \in Legible /\ j \in Ids
        /\ Parsed' = Parsed /\ Now(j)' = Now(j) /\ j \in DOMAIN Parsed /\ Parsed[j] = Now(j)
    BY <1>4, ParsedLists DEF WatchInv, Legible, Parsed, Now
  <2>2. Stream \in Seq(Messages) /\ Stream # <<>> /\ Head(Stream) = Head(chan) /\ Stream' = Tail(Stream)
    <3> DEFINE b == h \o w
    <3>1. b \in Seq(Messages)
      BY <1>1, ConcatProperties
    <3>2. Stream = chan \o b /\ Stream' = Tail(chan) \o b
      <4>1. Stream' = (Tail(chan) \o h) \o w /\ Stream = (chan \o h) \o w
        BY DEF Stream
      <4> HIDE DEF h, w
      <4> QED BY <1>1, <4>1, Associative, ZenonT(30)
    <3> HIDE DEF b
    <3> QED BY <1>1, <3>1, <3>2, SMTT(30)
  <2>3. /\ EndsWith(Parsed, Stream, j, Now(j))
        /\ seen # None => EndsWith(seen, Stream, j, Now(j))
    BY <2>1 DEF WatchInv, StreamOK
  <2>4. EndsWith(Parsed', Stream', j, Now(j)')
    BY <2>1, <2>2, <2>3, EndsTail
  <2>5. ASSUME seen' # None PROVE EndsWith(seen', Stream', j, Now(j)')
    <3>1. seen # None /\ seen' = Patch(seen, Head(Stream)) /\ j \in DOMAIN seen
      BY <2>1, <2>2, <2>5 DEF WatchInv, WatchTypeOK, KeyLists
    <3> QED BY <2>1, <2>2, <2>3, <3>1, EndsTail
  <2> QED BY <2>4, <2>5
<1> QED BY <1>3, <1>4 DEF WatchInv, StreamOK

LEMMA WatchListOK == ASSUME KeysNamed, WatchInv, ListKeys PROVE WatchInv'
<1> USE DEF ListKeys
<1>1. WatchTypeOK' /\ PumpOK'
  BY ParsedLists DEF WatchInv, WatchTypeOK, PumpOK
<1>2. Stream' = Stream
  BY DEF Stream
<1> QED BY <1>1, <1>2, SameStream DEF WatchInv

-----------------------------------------------------------------------------
LEMMA WatchStepOK == ASSUME KeysNamed PROVE WatchInv /\ [WatchNext]_watchVars => WatchInv'
<1> SUFFICES ASSUME WatchInv, [WatchNext]_watchVars PROVE WatchInv'
  OBVIOUS
<1>1. CASE UNCHANGED watchVars
  BY <1>1 DEF watchVars, WatchInv, WatchTypeOK, PumpOK, StreamOK, Stream, Legible, Parsed, Now
<1>2. CASE Open
  <2>1. WatchTypeOK' /\ PumpOK' /\ seen' = None
    BY <1>2 DEF Open, WatchInv, WatchTypeOK, PumpOK
  <2>2. Stream' = <<>>
    BY <1>2 DEF Open, WatchInv, PumpOK, Stream, ToldAll
  <2>3. \A i \in Legible' : Parsed'[i] = Now(i)'
    BY <1>2, ParsedLists DEF Open, WatchInv, Legible, Parsed, Now
  <2>4. \A i \in Legible' : EndsWith(Parsed', Stream', i, Now(i)')
    BY <2>2, <2>3 DEF EndsWith
  <2> QED BY <2>1, <2>4 DEF WatchInv, StreamOK
<1>3. CASE WatchFails
  BY <1>3 DEF WatchFails, WatchInv, WatchTypeOK, PumpOK, StreamOK
<1>5. CASE SeesEnd
  BY <1>5 DEF SeesEnd, WatchInv, WatchTypeOK, PumpOK, StreamOK
<1>6. CASE Leave
  <2>1. chan' \in Seq(Messages) /\ Len(chan') <= ChanCap
    BY <1>6 DEF Leave, KeysNamed
  <2> QED BY <1>6, <2>1 DEF Leave, WatchInv, WatchTypeOK, PumpOK, StreamOK
<1>4. CASE PumpStops
  BY <1>4, SameStream DEF PumpStops, WatchInv, WatchTypeOK, PumpOK, Stream
<1> QED BY <1>1, <1>2, <1>3, <1>4, <1>5, <1>6, ChangeOK, CutOK, ReceiveOK, PassOK, PassNothingOK, WatchReadOK, WatchListOK
     DEF WatchNext, Pump, Reader

LEMMA WatchInductive == WatchSpec => []WatchInv
<1>1. WatchInit => WatchInv
  BY WatchInitOK, WatchAssumption
<1>2. WatchInv /\ [WatchNext]_watchVars => WatchInv'
  BY WatchStepOK, WatchAssumption
<1> QED BY <1>1, <1>2, PTL DEF WatchSpec

\* Every variable of EtcdWatch has its type, and the channel never holds more than its capacity.
THEOREM WatchTypeCorrect == WatchSpec => []WatchTypeOK
<1>1. WatchInv => WatchTypeOK
  BY DEF WatchInv
<1> QED BY <1>1, WatchInductive, PTL

\* The stream of a watch tells what list_instances would answer (etcd.rs:308-409).
THEOREM WatchTellsTheList == WatchSpec => []WatchTells
<1>1. WatchInv => WatchTells
  <2> SUFFICES ASSUME WatchInv, reader = "reads", seen # None, ~cut
               PROVE  Tells(seen, Stream, Parsed, Legible)
    BY DEF WatchTells, Stream
  <2>1. \A i \in Legible : EndsWith(seen, Stream, i, Now(i)) /\ Parsed[i] = Now(i)
    BY ParsedLists DEF WatchInv, StreamOK
  <2> QED BY <2>1 DEF Tells
<1> QED BY <1>1, WatchInductive, PTL

-----------------------------------------------------------------------------
(* NacosRegistry. *)

NacosInv == NacosTypeOK /\ HeldIsNoted

LEMMA NacosInitOK == NacosInit => NacosInv
BY DEF NacosInit, NacosInv, NacosTypeOK, HeldIsNoted

LEMMA NacosStepOK == NacosInv /\ [NacosNext]_nacosVars => NacosInv'
<1> SUFFICES ASSUME NacosInv, [NacosNext]_nacosVars PROVE NacosInv'
  OBVIOUS
<1> USE CallsAssumption DEF NacosInv, NacosTypeOK, HeldIsNoted
<1>1. ASSUME NEW r \in Registers, Note(r) PROVE NacosInv'
  BY <1>1 DEF Note
<1>2. ASSUME NEW r \in Registers, Posted(r) PROVE NacosInv'
  <2>1. NacosTypeOK'
    <3>1. server' \in SUBSET Ids /\ posting' \in [Registers -> {"idle", "post", "done"}]
      BY <1>2 DEF Posted
    <3>2. astray' \in BOOLEAN
      BY <1>2, Zenon DEF Posted
    <3> QED BY <1>2, <3>1, <3>2 DEF Posted
  <2>2. ASSUME ~astray', NEW i \in server'
        PROVE  i = noted' \/ \E e \in Deregs : deleting'[e] = "delete" /\ taken'[e] = i
    <3>1. ~astray /\ noted = posted[r]
      BY <1>2, <2>2 DEF Posted
    <3> QED BY <1>2, <2>2, <3>1 DEF Posted
  <2> QED BY <2>1, <2>2
<1>3. ASSUME NEW d \in Deregs, TakeNoted(d) PROVE NacosInv'
  <2>1. NacosTypeOK'
    BY <1>3 DEF TakeNoted
  <2>2. ASSUME ~astray', NEW i \in server'
        PROVE  i = noted' \/ \E e \in Deregs : deleting'[e] = "delete" /\ taken'[e] = i
    <3>1. i \in server /\ i \in Ids /\ ~astray /\ deleting[d] = "idle"
      BY <1>3, <2>2 DEF TakeNoted
    <3>2. CASE i = noted
      BY <1>3, <3>1, <3>2 DEF TakeNoted
    <3>3. CASE \E e \in Deregs : deleting[e] = "delete" /\ taken[e] = i
      BY <1>3, <3>1, <3>3 DEF TakeNoted
    <3> QED BY <3>1, <3>2, <3>3
  <2> QED BY <2>1, <2>2
<1>4. ASSUME NEW d \in Deregs, Deleted(d) PROVE NacosInv'
  <2>1. NacosTypeOK'
    BY <1>4 DEF Deleted
  <2>2. ASSUME ~astray', NEW i \in server'
        PROVE  i = noted' \/ \E e \in Deregs : deleting'[e] = "delete" /\ taken'[e] = i
    <3>1. i \in server /\ i # taken[d] /\ ~astray
      BY <1>4, <2>2 DEF Deleted
    <3> QED BY <1>4, <3>1 DEF Deleted
  <2> QED BY <2>1, <2>2
<1>5. ASSUME NEW i \in Ids, Expire(i) PROVE NacosInv'
  BY <1>5 DEF Expire
<1>6. CASE UNCHANGED nacosVars
  BY <1>6 DEF nacosVars
<1> QED BY <1>1, <1>2, <1>3, <1>4, <1>5, <1>6 DEF NacosNext

\* Every variable of NacosRegistry has its type.
THEOREM NacosTypeCorrect == NacosSpec => []NacosTypeOK
<1>1. NacosInv => NacosTypeOK
  BY DEF NacosInv
<1> QED BY <1>1, NacosInitOK, NacosStepOK, PTL DEF NacosSpec

\* However registers, deregisters, lost answers and the server's expiry interleave: unless calls
\* went astray, what the server may have can still be deleted (nacos.rs:127-194).
THEOREM ServerHoldsTheNoted == NacosSpec => []HeldIsNoted
<1>1. NacosInv => HeldIsNoted
  BY DEF NacosInv
<1> QED BY <1>1, NacosInitOK, NacosStepOK, PTL DEF NacosSpec

-----------------------------------------------------------------------------
(* DiskSnapshot: whatever the number of persist tasks, the sizes of the snapshots, the failures *)
(* and the crashes, a file that no two tasks opened at once is the whole of one snapshot, and   *)
(* the file behaves as one that is replaced at once by tasks that are alone.                    *)

USE DiskAssumption

\* What a task has written of its snapshot.
Part(n, k) == [b \in 1..k |-> n]

Writes(n) == step[n] \in {"write", "rename"}
Spawned   == \A n \in Tasks : step[n] # "none" <=> n <= calls

\* A task that writes has opened a file.
Opened == \A n \in Tasks : Writes(n) => inode[n] # Nothing

\* A task that has not opened a file owns no inode.
NoInodeYet == \A n \in Tasks : step[n] \in {"none", "create"} =>
    written[n] = 0 /\ tmp # n /\ file # n /\ \A m \in Tasks : inode[m] # n

\* An inode that two tasks write is mixed.
Sole == \A m, n \in Tasks : Writes(m) /\ Writes(n) /\ inode[m] = inode[n] /\ m # n => inode[n] \in mixed

\* An inode that is not mixed, and is written, is the one that the temporary name leads to, and holds
\* what its task has written.
Content == \A n \in Tasks : Writes(n) =>
    /\ step[n] = "rename" => written[n] = Size[n]
    /\ inode[n] \notin mixed => inode[n] = tmp /\ data[tmp] = Part(n, written[n])

\* A file that is not mixed is the whole of a snapshot.
FileWhole == file # Nothing =>
    /\ file # tmp
    /\ file \notin mixed => \E n \in 1..calls : data[file] = Whole(n)

\* A task that has been alone since it was spawned is alone, and shares no inode.
Lonely == \A n \in Working \ joined : Working = {n} /\ (Writes(n) => inode[n] \notin mixed)

DiskInv == TypeOK /\ Opened /\ Spawned /\ NoInodeYet /\ Sole /\ Content /\ FileWhole /\ Lonely

LEMMA DiskInit == Init => DiskInv
<1> SUFFICES ASSUME Init PROVE DiskInv
  OBVIOUS
<1>1. <<>> \in Seq(Tasks \cup {Nothing})
  OBVIOUS
<1>2. TypeOK
  BY <1>1 DEF Init, TypeOK, Inodes, Steps, Tasks
<1>3. \A n \in Tasks : step[n] = "none" /\ inode[n] = Nothing /\ written[n] = 0 /\ n # Nothing /\ ~(n <= 0)
  BY DEF Init, Tasks
<1> QED
  BY <1>2, <1>3 DEF Init, DiskInv, Opened, Spawned, NoInodeYet, Sole, Content, FileWhole, Lonely,
                    Working, Writes

\* One more block behind what is written.
LEMMA PartGrows ==
    ASSUME NEW n \in Tasks, NEW k \in Nat
    PROVE  /\ Part(n, k) \in Seq(Tasks \cup {Nothing})
           /\ Overwrite(Part(n, k), k + 1, n) = Part(n, k + 1)
<1>1. Part(n, k) \in Seq(Tasks \cup {Nothing}) /\ Len(Part(n, k)) = k
  BY DEF Part
<1>2. \A b \in 1..k : Part(n, k)[b] = n
  BY DEF Part
<1>3. Overwrite(Part(n, k), k + 1, n) =
        [b \in 1..(k + 1) |-> IF b = k + 1 THEN n ELSE IF b <= k THEN Part(n, k)[b] ELSE Nothing]
  BY <1>1 DEF Overwrite
<1> QED BY <1>1, <1>2, <1>3 DEF Part

LEMMA OverwriteType ==
    ASSUME NEW content \in Seq(Tasks \cup {Nothing}), NEW k \in Nat \ {0}, NEW n \in Tasks
    PROVE  Overwrite(content, k, n) \in Seq(Tasks \cup {Nothing})
<1> DEFINE L == IF Len(content) < k THEN k ELSE Len(content)
           F(b) == IF b = k THEN n ELSE IF b <= Len(content) THEN content[b] ELSE Nothing
<1>1. L \in Nat /\ \A b \in 1..L : F(b) \in Tasks \cup {Nothing}
  OBVIOUS
<1>2. Overwrite(content, k, n) = [b \in 1..L |-> F(b)]
  BY DEF Overwrite
<1> HIDE DEF L, F
<1>3. [b \in 1..L |-> F(b)] \in Seq(Tasks \cup {Nothing})
  BY <1>1, SeqDef
<1> QED BY <1>2, <1>3

LEMMA DiskTypeStep ==
    ASSUME TypeOK, Opened, [Next]_vars
    PROVE  TypeOK' /\ Opened'
<1> USE DEF TypeOK, Steps, Opened, Writes, history
<1>1. CASE Persist
  <2>1. calls + 1 \in Tasks /\ Working \subseteq Tasks
    BY <1>1 DEF Persist, Tasks, Working
  <2>2. joined' \subseteq Tasks
    BY <1>1, <2>1 DEF Persist
  <2>3. Opened'
    BY <1>1, <2>1 DEF Persist, Go
  <2>4. step' \in [Tasks -> Steps] /\ calls' \in 0..MaxPersists
    BY <1>1, <2>1 DEF Persist, Go, Tasks
  <2>5. UNCHANGED <<crashes, inode, written, data, tmp, file, mixed>>
    BY <1>1 DEF Persist
  <2> QED BY <2>2, <2>3, <2>4, <2>5
<1>2. ASSUME NEW n \in Tasks, Create(n) PROVE TypeOK' /\ Opened'
  <2>1. <<>> \in Seq(Tasks \cup {Nothing})
    OBVIOUS
  <2> DEFINE i == IF tmp = Nothing THEN n ELSE tmp
  <2>2. i \in Inodes /\ i # Nothing
    BY DEF Inodes, Tasks
  <2>3. mixed' \subseteq Inodes
    BY <1>2, <2>2 DEF Create
  <2> QED BY <1>2, <2>1, <2>2, <2>3 DEF Create, Go
<1>3. ASSUME NEW n \in Tasks, Write(n) PROVE TypeOK' /\ Opened'
  <2> DEFINE i == inode[n]
             more == Overwrite(data[i], written[n] + 1, n)
  <2>1. /\ i \in Inodes /\ written[n] < Size[n] /\ written[n] \in Nat /\ Size[n] \in Nat
        /\ written' = [written EXCEPT ![n] = written[n] + 1]
        /\ data' = [data EXCEPT ![i] = more]
        /\ UNCHANGED <<calls, crashes, step, inode, tmp, file, mixed, joined>>
    BY <1>3 DEF Write
  <2>2. more \in Seq(Tasks \cup {Nothing})
    <3>1. data[i] \in Seq(Tasks \cup {Nothing}) /\ written[n] + 1 \in Nat \ {0}
      BY <2>1
    <3> HIDE DEF TypeOK, i
    <3> QED BY <3>1, OverwriteType
  <2>3. written[n] + 1 \in Nat /\ written[n] + 1 <= Size[n]
    BY <2>1
  <2> HIDE DEF i, more
  <2>4. data' \in [Inodes -> Seq(Tasks \cup {Nothing})]
    BY <2>1, <2>2
  <2>5. written' \in [Tasks -> Nat] /\ \A m \in Tasks : written'[m] <= Size[m]
    BY <2>1, <2>3
  <2> QED BY <2>1, <2>4, <2>5
<1>4. ASSUME NEW n \in Tasks, WriteEnd(n) \/ Rename(n) \/ Fail(n) PROVE TypeOK' /\ Opened'
  BY <1>4 DEF WriteEnd, Rename, Fail, Go
<1>5. CASE Crash
  BY <1>5 DEF Crash
<1>6. CASE UNCHANGED vars
  BY <1>6 DEF vars
<1> QED
  BY <1>1, <1>2, <1>3, <1>4, <1>5, <1>6 DEF Next

LEMMA DiskTypeInit == Init => TypeOK /\ Opened
<1>1. <<>> \in Seq(Tasks \cup {Nothing})
  OBVIOUS
<1> QED BY <1>1 DEF Init, TypeOK, Opened, Writes, Inodes, Steps, Tasks

\* Every variable of DiskSnapshot has its type.
THEOREM DiskTypeCorrect == Spec => []TypeOK
BY DiskTypeInit, DiskTypeStep, PTL DEF Spec

-----------------------------------------------------------------------------
(* The steps of the tasks. *)

\* What a write does.
LEMMA WriteEffect ==
    ASSUME DiskInv, NEW n \in Tasks, Write(n)
    PROVE  /\ step[n] = "write" /\ Writes(n) /\ inode[n] \in Inodes
           /\ written[n] \in Nat /\ written[n] + 1 \in Nat
           /\ written' = [written EXCEPT ![n] = written[n] + 1]
           /\ \A i \in Inodes \ {inode[n]} : data'[i] = data[i]
           /\ inode[n] \notin mixed => inode[n] = tmp /\ data'[tmp] = Part(n, written[n] + 1)
           /\ UNCHANGED <<calls, step, inode, tmp, file, mixed, joined>>
<1>1. /\ step[n] = "write" /\ Writes(n) /\ inode[n] \in Inodes /\ written[n] \in Nat
      /\ data' = [data EXCEPT ![inode[n]] = Overwrite(data[inode[n]], written[n] + 1, n)]
      /\ written' = [written EXCEPT ![n] = written[n] + 1]
      /\ UNCHANGED <<calls, step, inode, tmp, file, mixed, joined>>
  BY DEF DiskInv, TypeOK, Opened, Write, Writes, history
<1>2. ASSUME inode[n] \notin mixed
      PROVE  inode[n] = tmp /\ data'[tmp] = Part(n, written[n] + 1)
  <2>1. inode[n] = tmp /\ data[tmp] = Part(n, written[n])
    BY <1>1, <1>2 DEF DiskInv, Content
  <2>2. data'[tmp] = Overwrite(Part(n, written[n]), written[n] + 1, n)
    BY <1>1, <2>1 DEF DiskInv, TypeOK
  <2> QED BY <1>1, <2>1, <2>2, PartGrows
<1>3. \A i \in Inodes \ {inode[n]} : data'[i] = data[i]
  BY <1>1 DEF DiskInv, TypeOK
<1> QED BY <1>1, <1>2, <1>3

\* What a task that opens the temporary file finds and leaves.
LEMMA CreateEffect ==
    ASSUME DiskInv, NEW n \in Tasks, Create(n)
    PROVE  /\ step[n] = "create" /\ written[n] = 0
           /\ step' = [step EXCEPT ![n] = "write"] /\ inode' = [inode EXCEPT ![n] = tmp']
           /\ tmp' \in Inodes /\ tmp' # file
           /\ tmp' = tmp \/ (tmp' = n /\ tmp = Nothing)
           /\ tmp' # tmp => \A m \in Tasks : inode[m] # tmp'
           /\ data'[tmp'] = Part(n, 0) /\ \A i \in Inodes \ {tmp'} : data'[i] = data[i]
           /\ mixed' = IF Users(tmp') = {} THEN mixed \ {tmp'} ELSE mixed \cup {tmp'}
           /\ UNCHANGED <<calls, written, file, joined>>
<1> USE DEF DiskInv
<1>1. /\ step[n] = "create" /\ step' = [step EXCEPT ![n] = "write"]
      /\ inode' = [inode EXCEPT ![n] = tmp'] /\ data' = [data EXCEPT ![tmp'] = <<>>]
      /\ tmp' = IF tmp = Nothing THEN n ELSE tmp
      /\ mixed' = IF Users(tmp') = {} THEN mixed \ {tmp'} ELSE mixed \cup {tmp'}
      /\ UNCHANGED <<calls, written, file, joined>>
  BY DEF Create, Go
<1>2. written[n] = 0 /\ tmp # n /\ file # n /\ \A m \in Tasks : inode[m] # n
  BY <1>1 DEF NoInodeYet
<1>3. tmp' \in Inodes
  BY <1>1 DEF TypeOK, Inodes
<1>4. tmp' # file
  BY <1>1, <1>2, <1>3 DEF FileWhole, Inodes, Tasks
<1>5. data'[tmp'] = Part(n, 0) /\ \A i \in Inodes \ {tmp'} : data'[i] = data[i]
  <2>1. Part(n, 0) = <<>>
    BY DEF Part
  <2> QED BY <1>1, <1>3, <2>1 DEF TypeOK
<1> QED BY <1>1, <1>2, <1>3, <1>4, <1>5

\* What a rename puts in place: the task's own snapshot, or what is mixed.
LEMMA RenameEffect ==
    ASSUME DiskInv, NEW n \in Tasks, Rename(n)
    PROVE  /\ step[n] = "rename" /\ step' = [step EXCEPT ![n] = "done"]
           /\ IF tmp = Nothing THEN file' = file ELSE file' = tmp
           /\ tmp' = Nothing
           /\ tmp # Nothing /\ tmp \notin mixed' => data[tmp] = Whole(n)
           /\ \A m \in Tasks : m # n /\ Writes(m) /\ inode[m] = tmp => tmp = Nothing \/ tmp \in mixed'
           /\ mixed \subseteq mixed' /\ mixed' \subseteq mixed \cup {tmp}
           /\ n \notin joined => tmp # Nothing /\ tmp \notin mixed'
           /\ UNCHANGED <<calls, inode, written, data, joined>>
<1> USE DEF DiskInv
<1>1. /\ step[n] = "rename" /\ step' = [step EXCEPT ![n] = "done"] /\ Writes(n) /\ n \in Working
      /\ IF tmp = Nothing THEN tmp' = tmp /\ file' = file ELSE file' = tmp /\ tmp' = Nothing
      /\ mixed' = IF tmp \in {Nothing, inode[n]} THEN mixed ELSE mixed \cup {tmp}
      /\ UNCHANGED <<calls, inode, written, data, joined>>
  BY DEF Rename, Go, Writes, Working
<1>2. inode[n] # Nothing
  BY <1>1 DEF Opened
<1>3. ASSUME tmp # Nothing, tmp \notin mixed' PROVE data[tmp] = Whole(n)
  <2>1. inode[n] = tmp /\ inode[n] \notin mixed
    BY <1>1, <1>3
  <2> QED BY <1>1, <2>1 DEF Content, Part, Whole
<1>4. ASSUME NEW m \in Tasks, m # n, Writes(m), inode[m] = tmp, tmp # Nothing PROVE tmp \in mixed'
  <2>1. CASE inode[n] = tmp
    BY <1>1, <1>4, <2>1 DEF Sole
  <2>2. CASE inode[n] # tmp
    BY <1>1, <1>4, <2>2
  <2> QED BY <2>1, <2>2
<1>5. ASSUME n \notin joined PROVE tmp # Nothing /\ tmp \notin mixed'
  <2>1. inode[n] \notin mixed /\ inode[n] = tmp
    BY <1>1, <1>5 DEF Lonely, Content
  <2> QED BY <1>1, <1>2, <2>1
<1> QED BY <1>1, <1>3, <1>4, <1>5

\* A step after which no more tasks are at work or write leaves those alone that were.
LEMMA StillLonely ==
    ASSUME Lonely, Working' \subseteq Working, \A n \in Tasks : Writes(n)' => Writes(n),
           UNCHANGED <<inode, mixed, joined>>
    PROVE  Lonely'
<1> SUFFICES ASSUME NEW n \in Working', n \notin joined'
             PROVE  Working' = {n} /\ (Writes(n)' => inode'[n] \notin mixed')
  BY DEF Lonely
<1>1. n \in Working \ joined /\ n \in Tasks
  BY DEF Working
<1> QED BY <1>1 DEF Lonely

LEMMA PersistOK == ASSUME DiskInv, Persist PROVE Spawned' /\ NoInodeYet' /\ Sole' /\ Content' /\ FileWhole' /\ Lonely'
<1> USE DEF DiskInv
<1>1. /\ calls \in Nat /\ calls' = calls + 1 /\ calls + 1 \in Tasks
      /\ step[calls + 1] = "none" /\ step' = [step EXCEPT ![calls + 1] = "create"]
      /\ joined' = IF Working = {} THEN joined ELSE joined \cup Working \cup {calls + 1}
      /\ UNCHANGED <<inode, written, data, tmp, file, mixed>>
  BY DEF Persist, Go, Tasks, TypeOK
<1>2. /\ \A m \in Tasks : Writes(m)' <=> Writes(m)
      /\ \A m \in Tasks : step'[m] = "rename" <=> step[m] = "rename"
      /\ Working' = Working \cup {calls + 1}
  BY <1>1 DEF Writes, TypeOK, Working
<1>3. Spawned'
  BY <1>1 DEF Spawned, Tasks, TypeOK
<1>4. NoInodeYet'
  BY <1>1 DEF NoInodeYet, TypeOK
<1>5. Sole' /\ Content'
  BY <1>1, <1>2 DEF Sole, Content
<1>6. FileWhole'
  BY <1>1 DEF FileWhole
<1>7. Lonely'
  <2>1. ~Writes(calls + 1)
    BY <1>1 DEF Writes
  <2>2. CASE Working = {}
    BY <1>1, <1>2, <2>1, <2>2 DEF Lonely
  <2>3. CASE Working # {}
    BY <1>1, <1>2, <2>3 DEF Lonely
  <2> QED BY <2>2, <2>3
<1> QED BY <1>3, <1>4, <1>5, <1>6, <1>7

LEMMA CreateOK ==
    ASSUME DiskInv, NEW n \in Tasks, Create(n)
    PROVE  Spawned' /\ NoInodeYet' /\ Sole' /\ Content' /\ FileWhole' /\ Lonely'
<1> USE DEF DiskInv
<1>1. /\ step[n] = "create" /\ written[n] = 0
      /\ step' = [step EXCEPT ![n] = "write"] /\ inode' = [inode EXCEPT ![n] = tmp']
      /\ tmp' \in Inodes /\ tmp' # file
      /\ tmp' = tmp \/ (tmp' = n /\ tmp = Nothing)
      /\ tmp' # tmp => \A m \in Tasks : inode[m] # tmp'
      /\ data'[tmp'] = Part(n, 0) /\ \A i \in Inodes \ {tmp'} : data'[i] = data[i]
      /\ mixed' = IF Users(tmp') = {} THEN mixed \ {tmp'} ELSE mixed \cup {tmp'}
      /\ UNCHANGED <<calls, written, file, joined>>
  BY CreateEffect
<1>2. /\ inode'[n] = tmp' /\ \A m \in Tasks : m # n => inode'[m] = inode[m] /\ step'[m] = step[m]
      /\ step'[n] = "write" /\ step[n] = "create" /\ ~Writes(n)
      /\ \A m \in Tasks : m # n => (Writes(m)' <=> Writes(m))
      /\ Working' = Working /\ n \in Working
  BY <1>1 DEF TypeOK, Writes, Working
<1>3. \A m \in Tasks : Writes(m) /\ inode[m] = tmp' => tmp' \in mixed' /\ mixed' = mixed \cup {tmp'}
  BY <1>1 DEF Users, Writes
<1>4. \A i \in Inodes : i # tmp' => (i \in mixed' <=> i \in mixed)
  BY <1>1
<1>5. \A m \in Tasks : Writes(m) => inode[m] \in Inodes
  BY DEF TypeOK, Opened
<1>6. Spawned'
  BY <1>1, <1>2 DEF Spawned
<1>7. NoInodeYet'
  <2> SUFFICES ASSUME NEW m \in Tasks, step'[m] \in {"none", "create"}
               PROVE  written'[m] = 0 /\ tmp' # m /\ file' # m /\ \A k \in Tasks : inode'[k] # m
    BY DEF NoInodeYet
  <2>1. m # n /\ step[m] \in {"none", "create"}
    BY <1>2
  <2>2. written[m] = 0 /\ tmp # m /\ file # m /\ \A k \in Tasks : inode[k] # m
    BY <2>1 DEF NoInodeYet
  <2>3. tmp' # m
    BY <1>1, <2>1, <2>2
  <2> QED BY <1>1, <1>2, <2>2, <2>3
<1>8. Sole'
  <2> SUFFICES ASSUME NEW k \in Tasks, NEW m \in Tasks, Writes(k)', Writes(m)', inode'[k] = inode'[m], k # m
               PROVE  inode'[m] \in mixed'
    BY DEF Sole
  <2>1. CASE k = n \/ m = n
    BY <1>2, <1>3, <2>1
  <2>2. CASE k # n /\ m # n
    <3>1. Writes(k) /\ Writes(m) /\ inode[k] = inode[m] /\ inode'[m] = inode[m]
      BY <1>2, <2>2
    <3>2. inode[m] \in mixed
      BY <3>1 DEF Sole
    <3> QED BY <1>3, <1>4, <1>5, <3>1, <3>2
  <2> QED BY <2>1, <2>2
<1>9. Content'
  <2> SUFFICES ASSUME NEW m \in Tasks, Writes(m)'
               PROVE  /\ step'[m] = "rename" => written'[m] = Size[m]
                      /\ inode'[m] \notin mixed' => inode'[m] = tmp' /\ data'[tmp'] = Part(m, written'[m])
    BY DEF Content
  <2>1. CASE m = n
    BY <1>1, <1>2, <2>1
  <2>2. CASE m # n
    <3>1. Writes(m) /\ inode'[m] = inode[m] /\ step'[m] = step[m]
      BY <1>2, <2>2
    <3>2. step[m] = "rename" => written[m] = Size[m]
      BY <3>1 DEF Content
    <3>3. ASSUME inode[m] \notin mixed' PROVE FALSE
      <4>1. inode[m] # tmp' /\ inode[m] \in Inodes
        BY <1>3, <1>5, <3>1, <3>3
      <4>2. inode[m] \notin mixed
        BY <1>4, <3>3, <4>1
      <4>3. inode[m] = tmp /\ tmp # Nothing
        BY <3>1, <4>2 DEF Content, Opened
      <4> QED BY <1>1, <4>1, <4>3
    <3> QED BY <1>1, <3>1, <3>2, <3>3
  <2> QED BY <2>1, <2>2
<1>10. FileWhole'
  <2>1. file # Nothing => file \in Inodes
    BY DEF TypeOK
  <2> QED BY <1>1, <1>4, <2>1 DEF FileWhole
<1>11. Lonely'
  <2> SUFFICES ASSUME NEW m \in Working', m \notin joined'
               PROVE  Working' = {m} /\ (Writes(m)' => inode'[m] \notin mixed')
    BY DEF Lonely
  <2>1. Working = {m} /\ m = n
    BY <1>1, <1>2 DEF Lonely
  <2>2. Users(tmp') = {}
    BY <1>2, <2>1 DEF Users, Working, Writes
  <2> QED BY <1>1, <1>2, <2>1, <2>2
<1> QED BY <1>6, <1>7, <1>8, <1>9, <1>10, <1>11

LEMMA WriteOK ==
    ASSUME DiskInv, NEW n \in Tasks, Write(n)
    PROVE  Spawned' /\ NoInodeYet' /\ Sole' /\ Content' /\ FileWhole' /\ Lonely'
<1> USE DEF DiskInv
<1>1. /\ step[n] = "write" /\ Writes(n) /\ inode[n] \in Inodes
      /\ written[n] \in Nat /\ written[n] + 1 \in Nat
      /\ written' = [written EXCEPT ![n] = written[n] + 1]
      /\ \A i \in Inodes \ {inode[n]} : data'[i] = data[i]
      /\ inode[n] \notin mixed => inode[n] = tmp /\ data'[tmp] = Part(n, written[n] + 1)
      /\ UNCHANGED <<calls, step, inode, tmp, file, mixed, joined>>
  BY WriteEffect
<1>2. /\ written'[n] = written[n] + 1 /\ \A m \in Tasks : m # n => written'[m] = written[m]
      /\ \A m \in Tasks : Writes(m)' <=> Writes(m)
      /\ Working' = Working
  BY <1>1 DEF TypeOK, Writes, Working
<1>3. Spawned' /\ Sole' /\ Lonely'
  <2>1. Spawned'
    BY <1>1 DEF Spawned
  <2>2. Sole'
    BY <1>1, <1>2 DEF Sole
  <2>3. Lonely'
    BY <1>1, <1>2, StillLonely
  <2> QED BY <2>1, <2>2, <2>3
<1>4. NoInodeYet'
  BY <1>1, <1>2 DEF NoInodeYet
<1>5. Content'
  <2> SUFFICES ASSUME NEW m \in Tasks, Writes(m)
               PROVE  /\ step[m] = "rename" => written'[m] = Size[m]
                      /\ inode[m] \notin mixed => inode[m] = tmp /\ data'[tmp] = Part(m, written'[m])
    BY <1>1, <1>2 DEF Content
  <2>1. CASE m = n
    BY <1>1, <1>2, <2>1
  <2>2. CASE m # n
    <3>1. inode[m] \notin mixed => inode[m] # inode[n] /\ inode[m] \in Inodes
      BY <1>1, <2>2 DEF Sole, TypeOK, Opened
    <3>2. /\ step[m] = "rename" => written[m] = Size[m]
          /\ inode[m] \notin mixed => inode[m] = tmp /\ data[tmp] = Part(m, written[m])
      BY DEF Content
    <3> QED BY <1>1, <1>2, <2>2, <3>1, <3>2
  <2> QED BY <2>1, <2>2
<1>6. FileWhole'
  <2>1. file # Nothing /\ file \notin mixed => file \in Inodes /\ file # inode[n]
    BY <1>1 DEF FileWhole, TypeOK
  <2> QED BY <1>1, <2>1 DEF FileWhole
<1> QED BY <1>3, <1>4, <1>5, <1>6

LEMMA RenameOK ==
    ASSUME DiskInv, NEW n \in Tasks, Rename(n)
    PROVE  Spawned' /\ NoInodeYet' /\ Sole' /\ Content' /\ FileWhole' /\ Lonely'
<1> USE DEF DiskInv
<1>1. /\ step[n] = "rename" /\ step' = [step EXCEPT ![n] = "done"]
      /\ IF tmp = Nothing THEN file' = file ELSE file' = tmp
      /\ tmp' = Nothing
      /\ tmp # Nothing /\ tmp \notin mixed' => data[tmp] = Whole(n)
      /\ \A m \in Tasks : m # n /\ Writes(m) /\ inode[m] = tmp => tmp = Nothing \/ tmp \in mixed'
      /\ mixed \subseteq mixed' /\ mixed' \subseteq mixed \cup {tmp}
      /\ UNCHANGED <<calls, inode, written, data, joined>>
  BY RenameEffect
<1>2. /\ ~Writes(n)' /\ \A m \in Tasks : m # n => (Writes(m)' <=> Writes(m)) /\ step'[m] = step[m]
      /\ Working' = Working \ {n} /\ n \in Working /\ n \in 1..calls /\ step'[n] = "done"
  <2>1. n \in 1..calls
    BY <1>1 DEF Spawned, Tasks, TypeOK
  <2> QED BY <1>1, <2>1 DEF TypeOK, Writes, Working
<1>3. Spawned'
  BY <1>1, <1>2 DEF Spawned
<1>4. NoInodeYet'
  <2> SUFFICES ASSUME NEW m \in Tasks, step'[m] \in {"none", "create"}
               PROVE  written'[m] = 0 /\ tmp' # m /\ file' # m /\ \A k \in Tasks : inode'[k] # m
    BY DEF NoInodeYet
  <2>1. step[m] \in {"none", "create"} /\ m # Nothing
    BY <1>2 DEF Tasks
  <2> QED BY <1>1, <2>1 DEF NoInodeYet
<1>5. Sole'
  BY <1>1, <1>2 DEF Sole
<1>6. Content'
  <2> SUFFICES ASSUME NEW m \in Tasks, Writes(m), m # n
               PROVE  /\ step[m] = "rename" => written[m] = Size[m]
                      /\ inode[m] \in mixed'
    BY <1>1, <1>2 DEF Content
  <2>1. inode[m] # Nothing
    BY DEF Opened
  <2>2. inode[m] \notin mixed => inode[m] = tmp
    BY DEF Content
  <2> QED BY <1>1, <2>1, <2>2 DEF Content
<1>7. FileWhole'
  <2>1. CASE tmp = Nothing
    BY <1>1, <2>1 DEF FileWhole
  <2>2. CASE tmp # Nothing
    BY <1>1, <1>2, <2>2 DEF FileWhole
  <2> QED BY <2>1, <2>2
<1>8. Lonely'
  BY <1>1, <1>2 DEF Lonely
<1> QED BY <1>3, <1>4, <1>5, <1>6, <1>7, <1>8

LEMMA DiskStep ==
    ASSUME DiskInv, [Next]_vars
    PROVE  DiskInv'
<1>1. TypeOK' /\ Opened'
  BY DiskTypeStep DEF DiskInv
<1>2. CASE Persist
  BY <1>1, <1>2, PersistOK DEF DiskInv
<1>3. ASSUME NEW n \in Tasks, Create(n) PROVE DiskInv'
  BY <1>1, <1>3, CreateOK DEF DiskInv
<1>4. ASSUME NEW n \in Tasks, Write(n) PROVE DiskInv'
  BY <1>1, <1>4, WriteOK DEF DiskInv
<1>5. ASSUME NEW n \in Tasks, Rename(n) PROVE DiskInv'
  BY <1>1, <1>5, RenameOK DEF DiskInv
<1>6. ASSUME NEW n \in Tasks, WriteEnd(n) PROVE DiskInv'
  <2>1. /\ step[n] = "write" /\ written[n] = Size[n] /\ step' = [step EXCEPT ![n] = "rename"]
        /\ UNCHANGED <<calls, inode, written, data, tmp, file, mixed, joined>>
    BY <1>6 DEF WriteEnd, Go, history
  <2>2. /\ \A m \in Tasks : Writes(m)' <=> Writes(m)
        /\ \A m \in Tasks : m # n => step'[m] = step[m]
        /\ step'[n] = "rename" /\ Working' = Working
    BY <2>1 DEF DiskInv, TypeOK, Writes, Working
  <2>3. Spawned' /\ NoInodeYet'
    BY <2>1, <2>2 DEF DiskInv, Spawned, NoInodeYet
  <2>4. Sole' /\ FileWhole'
    BY <2>1, <2>2 DEF DiskInv, Sole, FileWhole
  <2>6. Lonely'
    BY <2>1, <2>2, StillLonely DEF DiskInv
  <2>5. Content'
    BY <2>1, <2>2 DEF DiskInv, Content
  <2> QED BY <1>1, <2>3, <2>4, <2>5, <2>6 DEF DiskInv
<1>7. ASSUME NEW n \in Tasks, Fail(n) PROVE DiskInv'
  <2>1. /\ n \in Working /\ step' = [step EXCEPT ![n] = "done"]
        /\ UNCHANGED <<calls, inode, written, data, tmp, file, mixed, joined>>
    BY <1>7 DEF Fail, history
  <2>2. /\ \A m \in Tasks : Writes(m)' => Writes(m) /\ step'[m] = step[m]
        /\ \A m \in Tasks : m # n => step'[m] = step[m]
        /\ step'[n] = "done" /\ step[n] # "none" /\ Working' = Working \ {n}
    BY <2>1 DEF DiskInv, TypeOK, Writes, Working
  <2>3. Spawned' /\ NoInodeYet'
    BY <2>1, <2>2 DEF DiskInv, Spawned, NoInodeYet
  <2>4. Sole' /\ FileWhole' /\ Content'
    BY <2>1, <2>2 DEF DiskInv, Sole, FileWhole, Content
  <2>5. Lonely'
    BY <2>1, <2>2 DEF DiskInv, Lonely
  <2> QED BY <1>1, <2>3, <2>4, <2>5 DEF DiskInv
<1>8. CASE Crash
  <2>1. /\ step' = [n \in Tasks |-> IF n \in Working THEN "done" ELSE step[n]]
        /\ tmp' \in {tmp, Nothing} /\ UNCHANGED <<calls, inode, written, data, file, mixed, joined>>
    BY <1>8 DEF Crash, history
  <2>2. /\ \A n \in Tasks : ~Writes(n)' /\ (step'[n] = "none" <=> step[n] = "none") /\ step'[n] # "create"
        /\ Working' = {} /\ \A n \in Tasks : n # Nothing
    BY <2>1 DEF Working, Writes, Tasks
  <2>3. Spawned' /\ NoInodeYet'
    BY <2>1, <2>2 DEF DiskInv, Spawned, NoInodeYet
  <2>4. Sole' /\ Content' /\ Lonely'
    BY <2>1, <2>2 DEF Sole, Content, Lonely
  <2>5. FileWhole'
    BY <2>1 DEF DiskInv, FileWhole
  <2> QED BY <1>1, <2>3, <2>4, <2>5 DEF DiskInv
<1>9. CASE UNCHANGED vars
  <2>1. UNCHANGED <<calls, step, inode, written, data, tmp, file, mixed, joined>>
    BY <1>9 DEF vars, history
  <2>2. Working' = Working /\ \A n \in Tasks : Writes(n)' <=> Writes(n)
    BY <2>1 DEF Working, Writes
  <2>3. Spawned' /\ NoInodeYet' /\ FileWhole'
    BY <2>1 DEF DiskInv, Spawned, NoInodeYet, FileWhole
  <2>4. Sole' /\ Content'
    BY <2>1, <2>2 DEF DiskInv, Sole, Content
  <2>5. Lonely'
    BY <2>1, <2>2, StillLonely DEF DiskInv
  <2> QED BY <1>1, <2>3, <2>4, <2>5 DEF DiskInv
<1> QED
  BY <1>2, <1>3, <1>4, <1>5, <1>6, <1>7, <1>8, <1>9 DEF Next

\* load_from_disk finds none or the whole of one snapshot in a file that no two tasks opened at once
\* and that was renamed by the task that wrote it (directory.rs:77-103).
THEOREM AlwaysReadable == Spec => []ReadableUnlessMixed
<1>1. DiskInv => ReadableUnlessMixed
  BY DEF DiskInv, FileWhole, ReadableUnlessMixed, Readable
<1> QED
  BY <1>1, DiskInit, DiskStep, PTL DEF Spec

-----------------------------------------------------------------------------
(* The abstract snapshot. *)

\* The files implement the abstract snapshot: every step puts the snapshot of a task at work in
\* place, at once, or leaves what is there, except that a task that was at work together with
\* another one may put something else there.
THEOREM ImplementsAbstract == Spec => ReplacedAtOnce
<1>1. Init => Abstract!Init
  <2> SUFFICES ASSUME Init PROVE calls = 0 /\ Working = {} /\ joined = {} /\ Version = 0
    BY DEF Abstract!Init
  <2> QED BY DEF Init, Version, Working
<1>2. DiskInv /\ DiskInv' /\ [Next]_vars => [Abstract!Next]_<<calls, Working, joined, Version>>
  <2> SUFFICES ASSUME DiskInv, DiskInv', [Next]_vars
               PROVE  [Abstract!Next]_<<calls, Working, joined, Version>>
    OBVIOUS
  <2> DEFINE Stutter == UNCHANGED <<calls, Working, joined, Version>>
  <2>1. CASE Persist
    <3>1. /\ calls' = calls + 1 /\ step' = [step EXCEPT ![calls + 1] = "create"]
          /\ joined' = IF Working = {} THEN joined ELSE joined \cup Working \cup {calls + 1}
          /\ calls + 1 \in Tasks /\ UNCHANGED <<data, file, mixed>>
      BY <2>1 DEF Persist, Go, DiskInv, TypeOK, Tasks
    <3>2. Working' = Working \cup {calls + 1}
      BY <3>1 DEF Working, DiskInv, TypeOK
    <3>3. Version' = Version
      BY <3>1 DEF Version
    <3> QED BY <3>1, <3>2, <3>3 DEF Abstract!Next, Abstract!Issue
  <2>2. ASSUME NEW n \in Tasks, Create(n) PROVE Stutter
    <3>1. /\ step[n] = "create" /\ step' = [step EXCEPT ![n] = "write"]
          /\ tmp' # file /\ tmp' \in Inodes
          /\ \A i \in Inodes \ {tmp'} : data'[i] = data[i]
          /\ mixed' = IF Users(tmp') = {} THEN mixed \ {tmp'} ELSE mixed \cup {tmp'}
          /\ UNCHANGED <<calls, file, joined>>
      BY <2>2, CreateEffect
    <3>2. file # Nothing => data'[file] = data[file] /\ (file \in mixed' <=> file \in mixed)
      BY <3>1 DEF DiskInv, TypeOK
    <3>3. Version' = Version
      BY <3>1, <3>2 DEF Version
    <3>4. Working' = Working
      BY <3>1 DEF Working, DiskInv, TypeOK
    <3> QED BY <3>1, <3>3, <3>4
  <2>3. ASSUME NEW n \in Tasks, Write(n) PROVE Stutter
    <3>1. /\ inode[n] \notin mixed => inode[n] = tmp
          /\ \A i \in Inodes \ {inode[n]} : data'[i] = data[i]
          /\ UNCHANGED <<calls, step, file, mixed, joined>>
      BY <2>3, WriteEffect
    <3>2. file # Nothing /\ file \notin mixed => data'[file] = data[file]
      <4>1. file # Nothing /\ file \notin mixed => file \in Inodes /\ file # inode[n]
        BY <3>1 DEF DiskInv, TypeOK, FileWhole
      <4> QED BY <3>1, <4>1
    <3>3. Version' = Version
      BY <3>1, <3>2 DEF Version
    <3>4. Working' = Working
      BY <3>1 DEF Working
    <3> QED BY <3>1, <3>3, <3>4
  <2>4. ASSUME NEW n \in Tasks, Rename(n) PROVE Abstract!Next
    <3>1. /\ step[n] = "rename" /\ step' = [step EXCEPT ![n] = "done"]
          /\ IF tmp = Nothing THEN file' = file ELSE file' = tmp
          /\ tmp # Nothing /\ tmp \notin mixed' => data[tmp] = Whole(n)
          /\ mixed \subseteq mixed' /\ mixed' \subseteq mixed \cup {tmp}
          /\ n \notin joined => tmp # Nothing /\ tmp \notin mixed'
          /\ UNCHANGED <<calls, data, joined>>
      BY <2>4, RenameEffect
    <3>2. Working' = Working \ {n} /\ n \in Working
      BY <3>1 DEF Working, DiskInv, TypeOK
    <3>3. CASE tmp = Nothing
      <4>1. file' = file /\ (file # Nothing => (file \in mixed' <=> file \in mixed))
        BY <3>1, <3>3
      <4>2. Version' = Version
        BY <3>1, <4>1 DEF Version
      <4> QED BY <3>1, <3>2, <4>2 DEF Abstract!Next, Abstract!GiveUp
    <3>4. CASE tmp # Nothing /\ tmp \notin mixed'
      <4>1. file' = tmp /\ data'[file'] = Whole(n)
        BY <3>1, <3>4
      <4>2. Version' = n
        <5>1. Size[n] \in Nat /\ Size[n] >= 1
          OBVIOUS
        <5> QED BY <3>4, <4>1, <5>1 DEF Whole, Version
      <4> QED BY <3>1, <3>2, <4>2 DEF Abstract!Next, Abstract!Replace
    <3>5. CASE tmp # Nothing /\ tmp \in mixed'
      <4>1. n \in joined /\ Version' = 0
        BY <3>1, <3>5 DEF Version
      <4> QED BY <3>1, <3>2, <4>1 DEF Abstract!Next, Abstract!Damage
    <3> QED BY <3>3, <3>4, <3>5
  <2>5. ASSUME NEW n \in Tasks, WriteEnd(n) PROVE Stutter
    <3>1. step[n] = "write" /\ step' = [step EXCEPT ![n] = "rename"]
          /\ UNCHANGED <<calls, data, file, mixed, joined>>
      BY <2>5 DEF WriteEnd, Go, history
    <3>2. Working' = Working /\ Version' = Version
      BY <3>1 DEF Working, Version, DiskInv, TypeOK
    <3> QED BY <3>1, <3>2
  <2>6. ASSUME NEW n \in Tasks, Fail(n) PROVE Abstract!Next
    <3>1. step' = [step EXCEPT ![n] = "done"] /\ UNCHANGED <<calls, data, file, mixed, joined>>
      BY <2>6 DEF Fail, history
    <3>2. Working' \subseteq Working /\ Version' = Version
      BY <3>1 DEF Working, Version, DiskInv, TypeOK
    <3> QED BY <3>1, <3>2 DEF Abstract!Next, Abstract!GiveUp
  <2>7. CASE Crash
    <3>1. /\ step' = [n \in Tasks |-> IF n \in Working THEN "done" ELSE step[n]]
          /\ UNCHANGED <<calls, data, file, mixed, joined>>
      BY <2>7 DEF Crash, history
    <3>2. Working' \subseteq Working /\ Version' = Version
      BY <3>1 DEF Working, Version
    <3> QED BY <3>1, <3>2 DEF Abstract!Next, Abstract!GiveUp
  <2>8. CASE UNCHANGED vars
    BY <2>8 DEF vars, history, Working, Version
  <2> QED
    BY <2>1, <2>2, <2>3, <2>4, <2>5, <2>6, <2>7, <2>8 DEF Next
<1> QED
  BY <1>1, <1>2, DiskInit, DiskStep, PTL DEF Spec, ReplacedAtOnce, Abstract!Spec

-----------------------------------------------------------------------------
(* The sources side by side. *)

SourcesInv == TypeOK /\ Opened /\ LocalInv /\ WatchInv /\ NacosInv

LEMMA SourcesInductive == MCSpec => []SourcesInv
<1>1. MCInit => SourcesInv
  <2> SUFFICES ASSUME MCInit PROVE SourcesInv
    OBVIOUS
  <2>1. Init /\ LocalInit /\ WatchInit /\ NacosInit
    BY DEF MCInit
  <2> QED BY <2>1, DiskTypeInit, LocalInitOK, WatchInitOK, NacosInitOK, LocalAssumption, WatchAssumption
       DEF SourcesInv
<1>2. SourcesInv /\ [MCNext]_allVars => SourcesInv'
  <2> SUFFICES ASSUME SourcesInv, [MCNext]_allVars PROVE SourcesInv'
    OBVIOUS
  <2>1. [Next]_vars /\ [LocalNext]_localVars /\ [WatchNext]_watchVars /\ [NacosNext]_nacosVars
    BY DEF MCNext, Etcd, allVars
  <2>2. TypeOK' /\ Opened'
    BY <2>1, DiskTypeStep DEF SourcesInv
  <2> QED BY <2>1, <2>2, LocalStepOK, WatchStepOK, NacosStepOK, LocalAssumption, WatchAssumption
       DEF SourcesInv
<1> QED BY <1>1, <1>2, PTL DEF MCSpec

\* Every variable of every source has its type, whichever source the run is about.
THEOREM SourcesTypeCorrect == MCSpec => []SourcesTypeOK
<1>1. SourcesInv => SourcesTypeOK
  BY DEF SourcesInv, LocalInv, WatchInv, NacosInv, SourcesTypeOK
<1> QED BY <1>1, SourcesInductive, PTL
=============================================================================
