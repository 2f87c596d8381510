-------------------------- MODULE PodManager_proofs --------------------------
(***************************************************************************)
(* Proofs about the pod manager: the runtime loop is never left with a     *)
(* stale word about a pod, for any number of pods, shards, reconcile tasks *)
(* and worker threads and any capacity of the channel.                     *)
(***************************************************************************)
EXTENDS PodManager, SequenceTheorems, WellFoundedInduction, TLAPS

----------------------------------------------------------------------------
(***************************************************************************)
(* The channel as a sequence.                                              *)
(***************************************************************************)
\* A message put at the end is the last one about its pod, and changes
\* nothing about the other pods.
LEMMA AppendWord ==
  ASSUME NEW s \in Seq(Update), NEW m \in Update
  PROVE  /\ LastAbout(Append(s, m), m.pod, m.entry)
         /\ \A p : Mentions(Append(s, m), p) <=> Mentions(s, p) \/ m.pod = p
         /\ \A p, e : p # m.pod /\ LastAbout(s, p, e) => LastAbout(Append(s, m), p, e)
  <1> DEFINE a == Append(s, m)
  <1>1. /\ Len(s) \in Nat /\ Len(a) = Len(s) + 1 /\ a[Len(s) + 1] = m
        /\ \A i \in 1..Len(s) : a[i] = s[i]
    OBVIOUS
  <1> HIDE DEF a
  <1>2. LastAbout(a, m.pod, m.entry)
    BY <1>1 DEF LastAbout
  <1>3. \A p : Mentions(a, p) <=> Mentions(s, p) \/ m.pod = p
    BY <1>1 DEF Mentions
  <1>4. ASSUME NEW p, NEW e, p # m.pod, LastAbout(s, p, e)
        PROVE  LastAbout(a, p, e)
    <2> SUFFICES ASSUME NEW i \in 1..Len(a), a[i].pod = p,
                        \A j \in i+1..Len(a) : a[j].pod # p
                 PROVE  a[i].entry = e
      BY DEF LastAbout
    <2>1. i \in 1..Len(s) /\ s[i] = a[i]
      BY <1>1, <1>4
    <2>2. \A j \in i+1..Len(s) : s[j].pod # p
      BY <1>1, <2>1
    <2> QED
      BY <1>4, <2>1, <2>2 DEF LastAbout
  <1> QED
    BY <1>2, <1>3, <1>4 DEF a

\* Taking the first message off keeps the last words, and the message taken
\* is the last word about its pod if no other is left.
LEMMA TailWord ==
  ASSUME NEW s \in Seq(Update), s # <<>>
  PROVE  /\ \A p : Mentions(s, p) <=> Mentions(Tail(s), p) \/ Head(s).pod = p
         /\ \A p, e : LastAbout(s, p, e) => LastAbout(Tail(s), p, e)
         /\ \A p, e : /\ LastAbout(s, p, e)
                      /\ Head(s).pod = p
                      /\ ~ Mentions(Tail(s), p)
                      => Head(s).entry = e
  <1> DEFINE r == Tail(s)
             h == Head(s)
  <1>1. /\ Len(r) \in Nat /\ Len(s) = Len(r) + 1 /\ s[1] = h
        /\ \A i \in 1..Len(r) : r[i] = s[i + 1]
    OBVIOUS
  <1>2. \A i \in 2..Len(s) : i - 1 \in 1..Len(r) /\ r[i - 1] = s[i]
    BY <1>1
  <1> HIDE DEF r, h
  <1>3. \A p : Mentions(s, p) <=> Mentions(r, p) \/ h.pod = p
    <2>1. ASSUME NEW p, Mentions(s, p)
          PROVE  Mentions(r, p) \/ h.pod = p
      <3>1. PICK i \in 1..Len(s) : s[i].pod = p
        BY <2>1 DEF Mentions
      <3>2. CASE i = 1
        BY <3>1, <3>2, <1>1
      <3>3. CASE i # 1
        <4>1. i \in 2..Len(s)
          BY <3>3, <1>1
        <4> QED
          BY <4>1, <3>1, <1>2 DEF Mentions
      <3> QED
        BY <3>2, <3>3
    <2>2. ASSUME NEW p, Mentions(r, p)
          PROVE  Mentions(s, p)
      <3>1. PICK i \in 1..Len(r) : r[i].pod = p
        BY <2>2 DEF Mentions
      <3>2. i + 1 \in 1..Len(s) /\ s[i + 1].pod = p
        BY <3>1, <1>1
      <3> QED
        BY <3>2 DEF Mentions
    <2>3. ASSUME NEW p, h.pod = p
          PROVE  Mentions(s, p)
      <3>1. 1 \in 1..Len(s)
        BY <1>1
      <3> QED
        BY <3>1, <2>3, <1>1 DEF Mentions
    <2> QED
      BY <2>1, <2>2, <2>3
  <1>4. ASSUME NEW p, NEW e, LastAbout(s, p, e)
        PROVE  LastAbout(r, p, e)
    <2> SUFFICES ASSUME NEW i \in 1..Len(r), r[i].pod = p,
                        \A j \in i+1..Len(r) : r[j].pod # p
                 PROVE  r[i].entry = e
      BY DEF LastAbout
    <2>1. i + 1 \in 1..Len(s) /\ s[i + 1] = r[i]
      BY <1>1
    <2>2. ASSUME NEW j \in (i+1)+1..Len(s)
          PROVE  s[j].pod # p
      <3>1. j \in 2..Len(s) /\ j - 1 \in i+1..Len(r)
        BY <1>1
      <3> QED
        BY <3>1, <1>2
    <2> QED
      BY <1>4, <2>1, <2>2 DEF LastAbout
  <1>5. ASSUME NEW p, NEW e, LastAbout(s, p, e), h.pod = p, ~ Mentions(r, p)
        PROVE  h.entry = e
    <2>1. 1 \in 1..Len(s) /\ s[1] = h
      BY <1>1
    <2>2. ASSUME NEW j \in 1+1..Len(s)
          PROVE  s[j].pod # p
      <3>1. j - 1 \in 1..Len(r) /\ r[j - 1] = s[j]
        BY <1>1, <1>2
      <3> QED
        BY <3>1, <1>5 DEF Mentions
    <2> QED
      BY <1>5, <2>1, <2>2 DEF LastAbout
  <1> QED
    BY <1>3, <1>4, <1>5 DEF r, h
----------------------------------------------------------------------------
(***************************************************************************)
(* Typing.                                                                 *)
(***************************************************************************)
LEMMA Records ==
  /\ Absent \in Entry
  /\ \A e \in Entry : e # Absent => e \in Spec_
  /\ \A e \in Entry : e.al \in Aliases
  /\ \A e \in Spec_, al \in Aliases : [e EXCEPT !.al = al] \in Spec_
  /\ \A p \in Pods, e \in Entry : [pod |-> p, entry |-> e] \in Update
  BY PodManagerAssumption DEF Entry, Spec_, Absent, Update

\* What upsert and remove store is a spec or nothing, under the UID of a pod.
LEMMA StoreType ==
  ASSUME TypeOK, NEW p \in Pods, NEW e \in Entry, Store(p, e)
  PROVE  /\ desired' \in [Pods -> Entry]
         /\ dispOut' \in Update
         /\ dispPc' = "send"
  BY Records DEF TypeOK, Store

\* An upsert ends in a Store of a well-typed spec, or changes nothing.
LEMMA UpsertStores ==
  ASSUME TypeOK, DispatchUpsert
  PROVE  \/ \E p \in Pods, e \in Entry : Store(p, e)
         \/ dispPc' = "idle" /\ UNCHANGED <<desired, dispOut>>
  <1>1. /\ dispIn.pod \in Pods
        /\ dispIn.entry \in Spec_
        /\ \A q \in Pods : desired[q] \in Entry
    BY Records DEF TypeOK, DispatchUpsert, Update
  <1>2. CASE UpsertMerge
    <2>1. PICK q \in Twins(dispIn.pod) :
            \/ Store(q, [desired[q] EXCEPT !.al = dispIn.entry.al])
            \/ dispPc' = "idle" /\ UNCHANGED <<desired, dispOut>>
      BY <1>2 DEF UpsertMerge
    <2>2. q \in Pods /\ desired[q] \in Spec_
      BY <1>1, Records DEF Twins, Known
    <2>3. dispIn.entry.al \in Aliases
      BY <1>1, Records DEF Entry
    <2>4. [desired[q] EXCEPT !.al = dispIn.entry.al] \in Entry
      BY <2>2, <2>3, Records DEF Entry
    <2> QED
      BY <2>1, <2>2, <2>4
  <1>3. CASE UpsertInsert
    <2> DEFINE p == dispIn.pod
               Inherit == IF dispIn.entry.al # 0 THEN {dispIn.entry.al}
                          ELSE IF Known(p) THEN {desired[p].al}
                          ELSE IF Twins(p) # {} THEN {desired[q].al : q \in Twins(p)}
                          ELSE {0}
    <2>1. PICK al \in Inherit : Store(p, [dispIn.entry EXCEPT !.al = al])
      BY <1>3 DEF UpsertInsert
    <2>2. Inherit \subseteq Aliases
      BY <1>1, Records, PodManagerAssumption DEF Twins, Entry
    <2>3. [dispIn.entry EXCEPT !.al = al] \in Entry
      BY <1>1, <2>2, Records DEF Entry
    <2> QED
      BY <1>1, <2>1, <2>3
  <1> QED
    BY <1>2, <1>3 DEF DispatchUpsert

\* Every step keeps the types.
LEMMA TypeStep == TypeOK /\ [Next]_vars => TypeOK'
  <1> SUFFICES ASSUME TypeOK, [Next]_vars
               PROVE  TypeOK'
    OBVIOUS
  <1> USE PodManagerAssumption
  <1>1. ASSUME NEW u \in Update, DispatchRecv(u)
        PROVE  TypeOK'
    BY <1>1 DEF TypeOK, DispatchRecv, recVars
  <1>2. CASE DispatchUpsert
    <2>1. /\ desired' \in [Pods -> Entry]
          /\ dispPc' \in {"idle", "send"}
          /\ dispOut' \in Update \cup {NoUpdate}
          /\ dispPc' = "send" => dispOut' \in Update
      BY <1>2, UpsertStores, StoreType DEF TypeOK
    <2> QED
      BY <1>2, <2>1 DEF TypeOK, DispatchUpsert, recVars
  <1>3. CASE DispatchRemove
    <2>1. dispIn.pod \in Pods
      BY <1>3 DEF TypeOK, DispatchRemove, Update
    <2>2. desired' \in [Pods -> Entry] /\ dispOut' \in Update /\ dispPc' = "send"
      BY <1>3, <2>1, Records, StoreType DEF DispatchRemove
    <2> QED
      BY <1>3, <2>2 DEF TypeOK, DispatchRemove, recVars
  <1>4. CASE DispatchSend
    <2>1. dispOut \in Update /\ Len(queue) + 1 =< Cap
      BY <1>4 DEF TypeOK, DispatchSend
    <2>2. queue' \in Seq(Update) /\ Len(queue') =< Cap
      BY <1>4, <2>1 DEF TypeOK, DispatchSend
    <2> QED
      BY <1>4, <2>2 DEF TypeOK, DispatchSend, recVars
  <1>5. ASSUME NEW r \in Reconcilers, Reconcile(r)
        PROVE  TypeOK'
    <2>1. CASE ReconcileStart(r)
      BY <2>1 DEF TypeOK, ReconcileStart, dispVars
    <2>2. CASE ReconcileShard(r)
      BY <2>2 DEF TypeOK, ReconcileShard, dispVars
    <2>3. CASE ReconcileClone(r)
      BY <2>3 DEF TypeOK, ReconcileClone, dispVars
    <2>4. CASE ReconcileSend(r)
      <3> DEFINE m == [pod |-> recPod[r], entry |-> recSpec[r]]
      <3>1. m \in Update
        BY <2>4, Records DEF TypeOK, ReconcileSend
      <3>2. queue' = Append(queue, m) /\ Len(queue) < Cap
        BY <2>4 DEF ReconcileSend
      <3> HIDE DEF m
      <3>3. queue' \in Seq(Update) /\ Len(queue') =< Cap
        BY <3>1, <3>2 DEF TypeOK
      <3> QED
        BY <2>4, <3>3, Records DEF TypeOK, ReconcileSend, dispVars
    <2>5. CASE ReconcileEnd(r)
      BY <2>5 DEF TypeOK, ReconcileEnd, dispVars
    <2> QED
      BY <1>5, <2>1, <2>2, <2>3, <2>4, <2>5 DEF Reconcile, ReconcileScan
  <1>6. CASE Receive
    <2>1. Head(queue) \in Update /\ queue' \in Seq(Update) /\ Len(queue') =< Cap
      BY <1>6 DEF TypeOK, Receive
    <2>2. Head(queue).pod \in Pods /\ Head(queue).entry \in Entry
      BY <2>1 DEF Update
    <2> QED
      BY <1>6, <2>1, <2>2 DEF TypeOK, Receive, dispVars, recVars
  <1>7. CASE UNCHANGED vars
    BY <1>7 DEF TypeOK, vars, dispVars, recVars
  <1> QED
    BY <1>1, <1>2, <1>3, <1>4, <1>5, <1>6, <1>7 DEF Next, Dispatch

\* The types hold at the start.
LEMMA TypeInit == Init => TypeOK
  BY PodManagerAssumption, Records DEF Init, TypeOK

\* The dispatcher, the reconcile tasks and the channel are well typed, and
\* the channel never holds more than its capacity.
THEOREM Typing == Spec => []TypeOK
  BY TypeInit, TypeStep, PTL DEF Spec

----------------------------------------------------------------------------
(***************************************************************************)
(* The last word.  The clone a reconcile task is sending is current as     *)
(* long as the task holds the guard of its shard, and so is the update the *)
(* dispatcher is sending.                                                  *)
(***************************************************************************)
SenderIsCurrent == dispPc = "send" => dispOut.entry = desired[dispOut.pod]

CloneIsCurrent ==
  \A r \in Reconcilers :
    /\ \A p \in recTodo[r] : ShardOf[p] = recShard[r]
    /\ recPc[r] = "send" => /\ ShardOf[recPod[r]] = recShard[r]
                            /\ recSpec[r] = desired[recPod[r]]

Inv == TypeOK /\ SenderIsCurrent /\ CloneIsCurrent /\ LastWordIsDesired /\ FeedAgrees

\* A write of the map leaves the clones being sent current, and everything
\* about the other pods as it was.
LEMMA StoreKeeps ==
  ASSUME Inv, NEW p \in Pods, NEW e \in Entry, Store(p, e), dispPc = "apply",
         UNCHANGED <<queue, recVars, told>>
  PROVE  SenderIsCurrent' /\ CloneIsCurrent' /\ LastWordIsDesired' /\ FeedAgrees'
  <1>1. /\ dispPc' = "send"
        /\ dispOut'.pod = p /\ dispOut'.entry = e
        /\ desired'[p] = e
        /\ \A q \in Pods \ {p} : desired'[q] = desired[q]
    BY DEF Store, Inv, TypeOK
  <1>2. SenderIsCurrent'
    BY <1>1 DEF SenderIsCurrent
  <1>3. CloneIsCurrent'
    BY <1>1 DEF CloneIsCurrent, Inv, TypeOK, Store, WriteFree, recVars
  <1>4. ASSUME NEW q \in Pods, ~ InHand(q)'
        PROVE  q # p /\ ~ InHand(q)
    BY <1>1, <1>4 DEF InHand
  <1>5. LastWordIsDesired'
    BY <1>1, <1>4 DEF LastWordIsDesired, Inv
  <1>6. FeedAgrees'
    BY <1>1, <1>4 DEF FeedAgrees, Inv
  <1> QED
    BY <1>2, <1>3, <1>5, <1>6

\* Sending the current entry of a pod makes it the last word about the pod.
LEMMA SendKeeps ==
  ASSUME Inv, NEW p \in Pods,
         queue' = Append(queue, [pod |-> p, entry |-> desired[p]]),
         \A q \in Pods : q # p => (InHand(q)' <=> InHand(q)),
         UNCHANGED <<desired, told>>
  PROVE  LastWordIsDesired' /\ FeedAgrees'
  <1> DEFINE m == [pod |-> p, entry |-> desired[p]]
  <1>1. m \in Update /\ m.pod = p /\ m.entry = desired[p]
    BY Records DEF Inv, TypeOK
  <1>2. queue \in Seq(Update) /\ queue' = Append(queue, m)
    BY DEF Inv, TypeOK
  <1> HIDE DEF m
  <1>3. /\ LastAbout(queue', p, desired[p])
        /\ \A q : Mentions(queue', q) <=> Mentions(queue, q) \/ q = p
        /\ \A q, e : q # p /\ LastAbout(queue, q, e) => LastAbout(queue', q, e)
    BY <1>1, <1>2, AppendWord
  <1>4. LastWordIsDesired'
    BY <1>3 DEF LastWordIsDesired, Inv
  <1>5. FeedAgrees'
    BY <1>3 DEF FeedAgrees, Inv
  <1> QED
    BY <1>4, <1>5

\* Inv is inductive.
LEMMA InvStep == Inv /\ [Next]_vars => Inv'
  <1> SUFFICES ASSUME Inv, [Next]_vars
               PROVE  SenderIsCurrent' /\ CloneIsCurrent' /\ LastWordIsDesired' /\ FeedAgrees'
    BY TypeStep DEF Inv
  <1>1. ASSUME NEW u \in Update, DispatchRecv(u)
        PROVE  SenderIsCurrent' /\ CloneIsCurrent' /\ LastWordIsDesired' /\ FeedAgrees'
    BY <1>1 DEF Inv, DispatchRecv, SenderIsCurrent, CloneIsCurrent, LastWordIsDesired,
                FeedAgrees, InHand, recVars
  <1>2. CASE DispatchUpsert
    <2>1. CASE \E p \in Pods, e \in Entry : Store(p, e)
      BY <1>2, <2>1, StoreKeeps DEF DispatchUpsert
    <2>2. CASE dispPc' = "idle" /\ UNCHANGED <<desired, dispOut>>
      BY <1>2, <2>2 DEF Inv, DispatchUpsert, SenderIsCurrent, CloneIsCurrent,
                        LastWordIsDesired, FeedAgrees, InHand, recVars
    <2> QED
      BY <1>2, <2>1, <2>2, UpsertStores DEF Inv
  <1>3. CASE DispatchRemove
    <2>1. dispIn.pod \in Pods
      BY <1>3 DEF Inv, TypeOK, DispatchRemove, Update
    <2> QED
      BY <1>3, <2>1, Records, StoreKeeps DEF DispatchRemove
  <1>4. CASE DispatchSend
    <2>1. dispOut.pod \in Pods /\ dispOut = [pod |-> dispOut.pod, entry |-> desired[dispOut.pod]]
      BY <1>4 DEF Inv, TypeOK, SenderIsCurrent, DispatchSend, Update
    <2>2. \A q \in Pods : q # dispOut.pod => (InHand(q)' <=> InHand(q))
      BY <1>4 DEF DispatchSend, InHand
    <2>3. LastWordIsDesired' /\ FeedAgrees'
      <3>1. queue' = Append(queue, [pod |-> dispOut.pod, entry |-> desired[dispOut.pod]])
        BY <1>4, <2>1 DEF DispatchSend
      <3>2. UNCHANGED <<desired, told>>
        BY <1>4 DEF DispatchSend
      <3> QED
        BY <2>1, <2>2, <3>1, <3>2, SendKeeps
    <2> QED
      BY <1>4, <2>3 DEF Inv, DispatchSend, SenderIsCurrent, CloneIsCurrent, recVars
  <1>5. ASSUME NEW r \in Reconcilers, Reconcile(r)
        PROVE  SenderIsCurrent' /\ CloneIsCurrent' /\ LastWordIsDesired' /\ FeedAgrees'
    <2>1. CASE ReconcileSend(r)
      <3>1. recPod[r] \in Pods /\ recSpec[r] = desired[recPod[r]]
        BY <2>1 DEF Inv, TypeOK, CloneIsCurrent, ReconcileSend
      <3>2. /\ queue' = Append(queue, [pod |-> recPod[r], entry |-> desired[recPod[r]]])
            /\ UNCHANGED <<desired, told>>
        BY <2>1, <3>1 DEF ReconcileSend
      <3>3. \A q \in Pods : InHand(q)' <=> InHand(q)
        BY <2>1 DEF ReconcileSend, InHand, dispVars
      <3>4. LastWordIsDesired' /\ FeedAgrees'
        BY <3>1, <3>2, <3>3, SendKeeps
      <3>5. CloneIsCurrent'
        BY <2>1 DEF Inv, TypeOK, CloneIsCurrent, ReconcileSend
      <3> QED
        BY <2>1, <3>4, <3>5 DEF Inv, ReconcileSend, SenderIsCurrent, dispVars
    <2>2. ASSUME ReconcileStart(r) \/ ReconcileScan(r)
          PROVE  SenderIsCurrent' /\ CloneIsCurrent' /\ LastWordIsDesired' /\ FeedAgrees'
      <3>1. UNCHANGED <<desired, queue, dispVars, told>>
        BY <2>2 DEF ReconcileStart, ReconcileScan, ReconcileShard, ReconcileClone, ReconcileEnd
      <3>2. CloneIsCurrent'
        <4>1. CASE ReconcileStart(r)
          BY <4>1 DEF Inv, TypeOK, CloneIsCurrent, ReconcileStart
        <4>2. CASE ReconcileShard(r)
          BY <4>2 DEF Inv, TypeOK, CloneIsCurrent, ReconcileShard
        <4>3. CASE ReconcileClone(r)
          BY <4>3 DEF Inv, TypeOK, CloneIsCurrent, ReconcileClone
        <4>4. CASE ReconcileEnd(r)
          BY <4>4 DEF Inv, TypeOK, CloneIsCurrent, ReconcileEnd
        <4> QED
          BY <2>2, <4>1, <4>2, <4>3, <4>4 DEF ReconcileScan
      <3> QED
        BY <3>1, <3>2 DEF Inv, SenderIsCurrent, LastWordIsDesired, FeedAgrees, InHand, dispVars
    <2> QED
      BY <1>5, <2>1, <2>2 DEF Reconcile
  <1>6. CASE Receive
    <2>1. queue \in Seq(Update) /\ queue # <<>> /\ queue' = Tail(queue)
      BY <1>6 DEF Inv, TypeOK, Receive
    <2>2. \A p \in Pods : InHand(p)' <=> InHand(p)
      BY <1>6 DEF Receive, InHand, dispVars
    <2>3. LastWordIsDesired'
      <3> SUFFICES ASSUME NEW p \in Pods, ~ InHand(p)
                   PROVE  LastAbout(queue, p, desired[p])'
        BY <2>2 DEF LastWordIsDesired
      <3>1. LastAbout(queue, p, desired[p])
        BY DEF Inv, LastWordIsDesired
      <3>2. LastAbout(Tail(queue), p, desired[p])
        BY <2>1, <3>1, TailWord
      <3> QED
        BY <1>6, <2>1, <3>2 DEF Receive
    <2>4. FeedAgrees'
      <3> SUFFICES ASSUME NEW p \in Pods, ~ Mentions(Tail(queue), p), ~ InHand(p)
                   PROVE  told'[p] = desired[p]
        BY <1>6, <2>1, <2>2 DEF FeedAgrees, Receive
      <3>1. CASE Head(queue).pod = p
        <4>1. Head(queue).entry = desired[p]
          BY <2>1, <3>1, TailWord DEF Inv, LastWordIsDesired
        <4> QED
          BY <1>6, <3>1, <4>1 DEF Receive, Inv, TypeOK
      <3>2. CASE Head(queue).pod # p
        <4>1. ~ Mentions(queue, p)
          BY <2>1, <3>2, TailWord
        <4> QED
          BY <1>6, <3>2, <4>1 DEF Receive, Inv, TypeOK, FeedAgrees
      <3> QED
        BY <3>1, <3>2
    <2> QED
      BY <1>6, <2>3, <2>4 DEF Inv, Receive, SenderIsCurrent, CloneIsCurrent, dispVars, recVars
  <1>7. CASE UNCHANGED vars
    BY <1>7 DEF Inv, vars, dispVars, recVars, SenderIsCurrent, CloneIsCurrent,
                LastWordIsDesired, FeedAgrees, InHand
  <1> QED
    BY <1>1, <1>2, <1>3, <1>4, <1>5, <1>6, <1>7 DEF Next, Dispatch

\* So does the invariant.
LEMMA InvInit == Init => Inv
  BY TypeInit DEF Init, Inv, SenderIsCurrent, CloneIsCurrent, LastWordIsDesired, FeedAgrees,
                  InHand, Mentions, LastAbout

\* A message that is the last one about a pod carries what is desired, so a
\* reconcile never undoes an update or a removal.
THEOREM LastWord == Spec => []LastWordIsDesired
  <1>1. Inv => LastWordIsDesired
    BY DEF Inv
  <1> QED
    BY <1>1, InvInit, InvStep, PTL DEF Spec

\* A pod about which nothing is on its way runs what is desired.
THEOREM Agreement == Spec => []FeedAgrees
  <1>1. Inv => FeedAgrees
    BY DEF Inv
  <1> QED
    BY <1>1, InvInit, InvStep, PTL DEF Spec

\* Both: what reaches the runtime manager is current, for any channel, any
\* sharding and any number of reconciles.
THEOREM FeedIsSound == Spec => []FeedSound
  <1>1. Inv => FeedSound
    BY DEF Inv, FeedSound
  <1> QED
    BY <1>1, InvInit, InvStep, PTL DEF Spec
----------------------------------------------------------------------------
\* A store that keeps the aliases of its pod keeps those of every pod.
LEMMA StoreAliases ==
  ASSUME TypeOK, NEW q \in Pods, NEW e, Store(q, e), e # Absent,
         desired[q].al # 0 => e.al # 0, NEW p \in Pods, desired[p].al # 0
  PROVE  desired'[p].al # 0
  BY DEF TypeOK, Store

\* Aliases once stored stay stored until the pod is removed.
THEOREM AliasesSurvive == Spec => AliasesKept
  <1> DEFINE Keeps == \A p \in Pods : desired[p].al # 0 /\ desired'[p] # Absent
                                        => desired'[p].al # 0
  <1>1. TypeOK /\ [Next]_vars => [Keeps]_vars
    <2> SUFFICES ASSUME TypeOK, Next, NEW p \in Pods, desired[p].al # 0,
                        desired'[p] # Absent
                 PROVE  desired'[p].al # 0
      BY DEF vars
    <2>1. CASE DispatchUpsert
      <3>1. CASE UpsertMerge
        <4>1. PICK q \in Twins(dispIn.pod) :
                \/ Store(q, [desired[q] EXCEPT !.al = dispIn.entry.al])
                \/ UNCHANGED desired
          BY <3>1 DEF UpsertMerge
        <4>2. dispIn.entry.al # 0 /\ q \in Pods /\ desired[q] \in Spec_
          BY <3>1, Records DEF UpsertMerge, Merges, Twins, Known, TypeOK
        <4>3. CASE Store(q, [desired[q] EXCEPT !.al = dispIn.entry.al])
          <5> DEFINE e == [desired[q] EXCEPT !.al = dispIn.entry.al]
          <5>1. e.al = dispIn.entry.al
            BY <4>2 DEF Spec_
          <5>2. e # Absent
            BY <5>1, <4>2 DEF Absent
          <5> HIDE DEF e
          <5> QED
            BY <5>1, <5>2, <4>2, <4>3, StoreAliases DEF e
        <4> QED
          BY <4>1, <4>3
      <3>2. CASE UpsertInsert
        <4>1. dispIn.pod \in Pods /\ dispIn.entry \in Spec_
          BY <2>1, Records DEF TypeOK, DispatchUpsert, Update
        <4>2. PICK al : /\ Store(dispIn.pod, [dispIn.entry EXCEPT !.al = al])
                        /\ desired[dispIn.pod].al # 0 => al # 0
          BY <3>2 DEF UpsertInsert, Known, Absent
        <4>3. dispIn.entry.ver # 0
          BY <4>1, PodManagerAssumption DEF Spec_
        <4> DEFINE e == [dispIn.entry EXCEPT !.al = al]
        <4>4. e.al = al /\ e.ver # 0
          BY <4>1, <4>3 DEF Spec_
        <4>5. e # Absent
          BY <4>4 DEF Absent
        <4> HIDE DEF e
        <4> QED
          BY <4>1, <4>2, <4>4, <4>5, StoreAliases DEF e
      <3> QED
        BY <2>1, <3>1, <3>2 DEF DispatchUpsert
    <2>2. CASE DispatchRemove
      BY <2>2 DEF DispatchRemove, Store, TypeOK
    <2>3. ASSUME ~ DispatchUpsert, ~ DispatchRemove
          PROVE  UNCHANGED desired
      BY <2>3 DEF Next, Dispatch, DispatchRecv, DispatchSend, Reconcile, ReconcileScan,
                  ReconcileStart, ReconcileShard, ReconcileClone, ReconcileSend,
                  ReconcileEnd, Receive
    <2> QED
      BY <2>1, <2>2, <2>3
  <1> QED
    BY <1>1, Typing, PTL DEF Spec, AliasesKept
----------------------------------------------------------------------------
(***************************************************************************)
(* Refinement.  What is said about a pod in a sequence of messages is      *)
(* found by going through it; f is what has been found up to each message. *)
(***************************************************************************)
Finds(f, s, p) ==
  \A n \in 0..Len(s) :
     f[n] = IF n = 0 THEN <<>>
            ELSE IF s[n].pod = p THEN Append(f[n-1], s[n].entry)
            ELSE f[n-1]

\* Every set of numbers has a least element.
LEMMA LeastNumber ==
  ASSUME NEW S \in SUBSET Nat, S # {}
  PROVE  \E n \in S : \A m \in S : n =< m
  <1>1. PICK n \in S : \A m \in S : ~ (<<m, n>> \in OpToRel(<, Nat))
    BY NatLessThanWellFounded, WFMin
  <1>2. \A m \in S : ~ (m < n)
    BY <1>1 DEF OpToRel
  <1> QED
    BY <1>2

\* There is such an f for each sequence, ...
LEMMA FindsExists ==
  ASSUME NEW s \in Seq(Update), NEW p
  PROVE  \E f \in [0..Len(s) -> Seq(Entry)] : Finds(f, s, p)
  <1> DEFINE Good(k, f) ==
               \A n \in 0..k : f[n] = IF n = 0 THEN <<>>
                                      ELSE IF s[n].pod = p THEN Append(f[n-1], s[n].entry)
                                      ELSE f[n-1]
             Able(k) == \E f \in [0..k -> Seq(Entry)] : Good(k, f)
  <1>1. Able(0)
    <2>1. [n \in 0..0 |-> <<>>] \in [0..0 -> Seq(Entry)] /\ Good(0, [n \in 0..0 |-> <<>>])
      OBVIOUS
    <2> QED
      BY <2>1
  <1>2. ASSUME NEW k \in Nat, k < Len(s), Able(k)
        PROVE  Able(k + 1)
    <2>1. PICK f \in [0..k -> Seq(Entry)] : Good(k, f)
      BY <1>2
    <2> DEFINE x == IF s[k+1].pod = p THEN Append(f[k], s[k+1].entry) ELSE f[k]
               g == [n \in 0..k+1 |-> IF n = k + 1 THEN x ELSE f[n]]
    <2>2. s[k+1] \in Update /\ f[k] \in Seq(Entry)
      <3>1. k + 1 \in 1..Len(s) /\ k \in 0..k
        BY <1>2
      <3> QED
        BY <3>1
    <2>3. s[k+1].entry \in Entry
      BY <2>2 DEF Update
    <2>4. x \in Seq(Entry)
      BY <2>2, <2>3
    <2>5. g \in [0..k+1 -> Seq(Entry)]
      <3> HIDE DEF x
      <3> QED
        BY <2>4
    <2>6. Good(k + 1, g)
      <3> SUFFICES ASSUME NEW n \in 0..k+1
                   PROVE  g[n] = IF n = 0 THEN <<>>
                                 ELSE IF s[n].pod = p THEN Append(g[n-1], s[n].entry)
                                 ELSE g[n-1]
        OBVIOUS
      <3>1. CASE n = k + 1
        <4>1. g[n] = x /\ n # 0 /\ g[n-1] = f[k]
          BY <3>1
        <4> QED
          BY <3>1, <4>1
      <3>2. CASE n # k + 1
        <4>1. n \in 0..k /\ g[n] = f[n] /\ (n # 0 => g[n-1] = f[n-1])
          BY <3>2
        <4> QED
          BY <2>1, <4>1
      <3> QED
        BY <3>1, <3>2
    <2> QED
      BY <2>5, <2>6
  <1>3. ASSUME NEW m \in 0..Len(s)
        PROVE  Able(m)
    <2> HIDE DEF Able
    <2> DEFINE bad == {n \in 0..Len(s) : ~ Able(n)}
    <2> SUFFICES ASSUME bad # {} PROVE FALSE
      OBVIOUS
    <2>1. PICK n \in bad : \A k \in bad : n =< k
      <3>1. bad \in SUBSET Nat
        OBVIOUS
      <3> QED
        BY <3>1, LeastNumber
    <2>2. n \in Nat /\ n # 0 /\ n =< Len(s) /\ Len(s) \in Nat
      BY <1>1
    <2>3. n - 1 \in Nat /\ n - 1 < Len(s) /\ (n - 1) + 1 = n /\ n - 1 \notin bad
      BY <2>1, <2>2
    <2>4. Able(n - 1)
      BY <2>2, <2>3
    <2> QED
      BY <1>2, <2>1, <2>3, <2>4
  <1>4. PICK f \in [0..Len(s) -> Seq(Entry)] : Good(Len(s), f)
    <2>1. Len(s) \in 0..Len(s)
      OBVIOUS
    <2> QED
      BY <1>3, <2>1
  <1> QED
    BY <1>4 DEF Finds

\* ... which gives what OnTheirWay is made of, ...
LEMMA AboutFinds ==
  ASSUME NEW s \in Seq(Update), NEW p
  PROVE  \E f \in [0..Len(s) -> Seq(Entry)] : Finds(f, s, p) /\ EntriesAbout(s, p) = f[Len(s)]
  <1> DEFINE Is(f) == f = [n \in 0..Len(s) |-> IF n = 0 THEN <<>>
                                               ELSE IF s[n].pod = p THEN Append(f[n-1], s[n].entry)
                                               ELSE f[n-1]]
             it == CHOOSE f : Is(f)
  <1>1. ASSUME NEW f \in [0..Len(s) -> Seq(Entry)], Finds(f, s, p)
        PROVE  Is(f)
    BY <1>1 DEF Finds
  <1>2. Is(it)
    BY <1>1, FindsExists
  <1>3. EntriesAbout(s, p) = it[Len(s)]
    BY DEF EntriesAbout
  <1> HIDE DEF it
  <1>4. Finds(it, s, p)
    BY <1>2 DEF Finds
  <1>5. \A n \in 0..Len(s) : it[n] \in Seq(Entry)
    <2> DEFINE bad == {n \in 0..Len(s) : it[n] \notin Seq(Entry)}
    <2> SUFFICES ASSUME bad # {} PROVE FALSE
      OBVIOUS
    <2>1. PICK n \in bad : \A k \in bad : n =< k
      <3>1. bad \in SUBSET Nat
        OBVIOUS
      <3> HIDE DEF bad
      <3> QED
        BY <3>1, LeastNumber
    <2>2. CASE n = 0
      <3>1. it[n] = <<>> /\ <<>> \in Seq(Entry)
        BY <1>4, <2>1, <2>2 DEF Finds
      <3> QED
        BY <2>1, <3>1
    <2>3. CASE n # 0
      <3>1. n \in 1..Len(s) /\ n - 1 \in 0..Len(s) /\ n - 1 \notin bad
        <4>1. n \in Nat /\ n =< Len(s) /\ Len(s) \in Nat
          BY <2>1
        <4>2. n \in 1..Len(s) /\ n - 1 \in 0..Len(s) /\ n - 1 < n
          BY <4>1, <2>3
        <4> HIDE DEF bad
        <4>3. ASSUME n - 1 \in bad PROVE FALSE
          BY <2>1, <4>1, <4>2, <4>3
        <4> QED
          BY <4>2, <4>3
      <3>2. it[n-1] \in Seq(Entry)
        BY <3>1
      <3>5. s[n] \in Update
        BY <3>1
      <3>6. s[n].entry \in Entry
        BY <3>5 DEF Update
      <3>3. it[n] = IF s[n].pod = p THEN Append(it[n-1], s[n].entry) ELSE it[n-1]
        BY <1>4, <2>3, <3>1 DEF Finds
      <3>4. it[n] \in Seq(Entry)
        BY <3>2, <3>6, <3>3
      <3> QED
        BY <2>1, <3>4
    <2> QED
      BY <2>2, <2>3
  <1>6. it \in [0..Len(s) -> Seq(Entry)]
    BY <1>2, <1>5
  <1> QED
    BY <1>3, <1>4, <1>6

\* a begins with the messages of s.
Begins(a, s) == Len(s) =< Len(a) /\ \A i \in 1..Len(s) : a[i] = s[i]

\* ... and is the same for sequences that begin with the same messages.
LEMMA FindsLike ==
  ASSUME NEW s \in Seq(Update), NEW a \in Seq(Update), NEW p, NEW f, NEW g,
         Finds(f, s, p), Finds(g, a, p), Begins(a, s)
  PROVE  \A n \in 0..Len(s) : g[n] = f[n]
  <1> DEFINE bad == {n \in 0..Len(s) : g[n] # f[n]}
  <1> SUFFICES ASSUME bad # {} PROVE FALSE
    OBVIOUS
  <1>1. PICK n \in bad : \A k \in bad : n =< k
    <2>1. bad \in SUBSET Nat
      OBVIOUS
    <2> HIDE DEF bad
    <2> QED
      BY <2>1, LeastNumber
  <1>2. n \in Nat /\ n =< Len(s) /\ Len(s) \in Nat /\ Len(a) \in Nat /\ g[n] # f[n]
    BY <1>1
  <1> USE DEF Begins
  <1>3. n \in 0..Len(s) /\ n \in 0..Len(a)
    BY <1>2
  <1>4. n # 0
    BY <1>2, <1>3 DEF Finds
  <1>5. n \in 1..Len(s) /\ n - 1 \in 0..Len(s) /\ n - 1 < n
    BY <1>2, <1>4
  <1>6. n - 1 \notin bad
    <2> HIDE DEF bad
    <2> QED
      BY <1>1, <1>2, <1>5
  <1>7. g[n-1] = f[n-1] /\ a[n] = s[n]
    BY <1>5, <1>6
  <1>8. /\ g[n] = IF a[n].pod = p THEN Append(g[n-1], a[n].entry) ELSE g[n-1]
        /\ f[n] = IF s[n].pod = p THEN Append(f[n-1], s[n].entry) ELSE f[n-1]
    BY <1>3, <1>4 DEF Finds
  <1> QED
    BY <1>2, <1>7, <1>8

\* What a message at the end adds.
LEMMA AboutAppend ==
  ASSUME NEW s \in Seq(Update), NEW m \in Update, NEW p
  PROVE  EntriesAbout(Append(s, m), p)
            = IF m.pod = p THEN Append(EntriesAbout(s, p), m.entry) ELSE EntriesAbout(s, p)
  <1> DEFINE a == Append(s, m)
  <1>1. /\ a \in Seq(Update) /\ Len(s) \in Nat /\ Len(a) = Len(s) + 1 /\ a[Len(s) + 1] = m
        /\ \A i \in 1..Len(s) : a[i] = s[i]
    OBVIOUS
  <1> HIDE DEF a
  <1>2. PICK f \in [0..Len(s) -> Seq(Entry)] : Finds(f, s, p) /\ EntriesAbout(s, p) = f[Len(s)]
    BY AboutFinds
  <1>3. PICK g \in [0..Len(a) -> Seq(Entry)] : Finds(g, a, p) /\ EntriesAbout(a, p) = g[Len(a)]
    BY <1>1, AboutFinds
  <1>4. \A n \in 0..Len(s) : g[n] = f[n]
    <2>1. a \in Seq(Update) /\ Begins(a, s)
      BY <1>1 DEF Begins
    <2>2. Finds(f, s, p) /\ Finds(g, a, p)
      BY <1>2, <1>3
    <2> QED
      BY <2>1, <2>2, FindsLike
  <1>5. g[Len(s)] = f[Len(s)]
    BY <1>1, <1>4
  <1>6. Len(a) \in 0..Len(a) /\ Len(a) # 0 /\ Len(a) - 1 = Len(s) /\ a[Len(a)] = m
    BY <1>1
  <1>7. g[Len(a)] = IF a[Len(a)].pod = p THEN Append(g[Len(a)-1], a[Len(a)].entry)
                    ELSE g[Len(a)-1]
    BY <1>3, <1>6 DEF Finds
  <1>8. EntriesAbout(a, p)
           = IF m.pod = p THEN Append(EntriesAbout(s, p), m.entry) ELSE EntriesAbout(s, p)
    BY <1>2, <1>3, <1>5, <1>6, <1>7
  <1> QED
    BY <1>8 DEF a

\* An element put at the end of a concatenation is put at the end of its
\* second part.
LEMMA ConcatAppend ==
  ASSUME NEW s \in Seq(Entry), NEW t \in Seq(Entry), NEW x \in Entry
  PROVE  Append(s \o t, x) = s \o Append(t, x)
  <1>1. <<x>> \in Seq(Entry)
    OBVIOUS
  <1>2. s \o t \in Seq(Entry)
    OBVIOUS
  <1>3. Append(s \o t, x) = (s \o t) \o <<x>> /\ Append(t, x) = t \o <<x>>
    BY <1>2, AppendIsConcat
  <1> DEFINE y == <<x>>
  <1>4. y \in Seq(Entry)
    BY <1>1
  <1> HIDE DEF y
  <1>5. (s \o t) \o y = s \o (t \o y)
    BY <1>4, ConcatAssociative
  <1> QED
    BY <1>3, <1>5 DEF y

\* What taking the first message off takes away.
LEMMA AboutTail ==
  ASSUME NEW s \in Seq(Update), s # <<>>, NEW p
  PROVE  EntriesAbout(s, p) = IF Head(s).pod = p
                              THEN <<Head(s).entry>> \o EntriesAbout(Tail(s), p)
                              ELSE EntriesAbout(Tail(s), p)
  <1> DEFINE r == Tail(s)
             h == Head(s)
  <1>1. /\ r \in Seq(Update) /\ h \in Update
        /\ Len(r) \in Nat /\ Len(s) = Len(r) + 1 /\ s[1] = h
        /\ \A i \in 1..Len(r) : r[i] = s[i + 1]
    OBVIOUS
  <1> HIDE DEF r, h
  <1>2. PICK f \in [0..Len(s) -> Seq(Entry)] : Finds(f, s, p) /\ EntriesAbout(s, p) = f[Len(s)]
    BY AboutFinds
  <1>3. PICK g \in [0..Len(r) -> Seq(Entry)] : Finds(g, r, p) /\ EntriesAbout(r, p) = g[Len(r)]
    BY <1>1, AboutFinds
  <1> DEFINE pre == IF h.pod = p THEN <<h.entry>> ELSE <<>>
             bad == {n \in 0..Len(r) : f[n+1] # pre \o g[n]}
  <1>4. pre \in Seq(Entry) /\ h.entry \in Entry
    BY <1>1 DEF Update
  <1>5. f[1] = pre /\ f[0] = <<>> /\ g[0] = <<>>
    <2>1. 0 \in 0..Len(s) /\ 1 \in 0..Len(s) /\ 0 \in 0..Len(r)
      BY <1>1
    <2>2. f[0] = <<>> /\ g[0] = <<>>
      BY <1>2, <1>3, <2>1 DEF Finds
    <2>3. f[1] = IF s[1].pod = p THEN Append(f[1-1], s[1].entry) ELSE f[1-1]
      BY <1>2, <2>1 DEF Finds
    <2>4. Append(<<>>, h.entry) = <<h.entry>>
      OBVIOUS
    <2>5. f[1-1] = <<>>
      BY <2>2
    <2>6. f[1] = IF h.pod = p THEN Append(<<>>, h.entry) ELSE <<>>
      BY <1>1, <2>3, <2>5
    <2> QED
      BY <2>2, <2>4, <2>6
  <1>6. bad = {}
    <2> SUFFICES ASSUME bad # {} PROVE FALSE
      OBVIOUS
    <2>1. PICK n \in bad : \A k \in bad : n =< k
      <3>1. bad \in SUBSET Nat
        OBVIOUS
      <3> HIDE DEF bad
      <3> QED
        BY <3>1, LeastNumber
    <2>2. n \in Nat /\ n =< Len(r) /\ f[n+1] # pre \o g[n]
      BY <2>1
    <2> HIDE DEF pre
    <2>3. n # 0
      <3>1. pre \o <<>> = pre
        BY <1>4, ConcatEmptySeq
      <3>2. n = 0 => n + 1 = 1
        OBVIOUS
      <3>3. f[1] = pre /\ g[0] = <<>>
        BY <1>5
      <3> QED
        BY <2>2, <3>1, <3>2, <3>3
    <2>4. /\ n \in 1..Len(r) /\ n \in 0..Len(r) /\ n - 1 \in 0..Len(r) /\ n - 1 < n
          /\ n + 1 \in 0..Len(s) /\ (n - 1) + 1 = n /\ (n + 1) - 1 = n /\ n + 1 # 0
      <3>1. Len(r) \in Nat /\ Len(s) = Len(r) + 1
        BY <1>1
      <3> QED
        BY <3>1, <2>2, <2>3
    <2>5. n - 1 \notin bad
      <3> HIDE DEF bad
      <3> QED
        BY <2>1, <2>2, <2>4
    <2>6. f[n] = pre \o g[n-1] /\ r[n] = s[n+1]
      BY <1>1, <2>4, <2>5
    <2>7. /\ f[n+1] = IF r[n].pod = p THEN Append(f[n], r[n].entry) ELSE f[n]
          /\ g[n] = IF r[n].pod = p THEN Append(g[n-1], r[n].entry) ELSE g[n-1]
      <3>1. f[n+1] = IF s[n+1].pod = p THEN Append(f[(n+1)-1], s[n+1].entry) ELSE f[(n+1)-1]
        BY <1>2, <2>4 DEF Finds
      <3>2. g[n] = IF r[n].pod = p THEN Append(g[n-1], r[n].entry) ELSE g[n-1]
        BY <1>3, <2>3, <2>4 DEF Finds
      <3> QED
        BY <3>1, <3>2, <2>4, <2>6
    <2>8. g[n-1] \in Seq(Entry) /\ r[n].entry \in Entry
      <3>1. r[n] \in Update
        BY <1>1, <2>4
      <3> QED
        BY <3>1, <1>3, <2>4 DEF Update
    <2>9. Append(pre \o g[n-1], r[n].entry) = pre \o Append(g[n-1], r[n].entry)
      <3> DEFINE x == r[n].entry
                 c == g[n-1]
      <3>1. x \in Entry /\ c \in Seq(Entry)
        BY <2>8
      <3> HIDE DEF x, c
      <3>2. Append(pre \o c, x) = pre \o Append(c, x)
        <4>1. pre \in Seq(Entry)
          BY <1>4
        <4> QED
          BY <3>1, <4>1, ConcatAppend
      <3> QED
        BY <3>2 DEF x, c
    <2> QED
      BY <2>2, <2>6, <2>7, <2>9
  <1>7. f[Len(s)] = pre \o g[Len(r)]
    <2>1. Len(r) \in 0..Len(r)
      BY <1>1
    <2> HIDE DEF pre
    <2>2. f[Len(r)+1] = pre \o g[Len(r)]
      BY <1>6, <2>1
    <2> QED
      BY <1>1, <2>2
  <1>8. EntriesAbout(r, p) \in Seq(Entry) /\ EntriesAbout(s, p) = pre \o EntriesAbout(r, p)
    <2>1. Len(r) \in 0..Len(r)
      BY <1>1
    <2> HIDE DEF pre
    <2> QED
      BY <2>1, <1>2, <1>3, <1>7
  <1>9. EntriesAbout(s, p) = IF h.pod = p THEN <<h.entry>> \o EntriesAbout(r, p)
                             ELSE EntriesAbout(r, p)
    <2> DEFINE e == EntriesAbout(r, p)
    <2> HIDE DEF e
    <2>1. <<>> \o e = e
      BY <1>8 DEF e
    <2> QED
      BY <1>8, <2>1 DEF e
  <1> QED
    BY <1>9 DEF r, h

\* It is a sequence of entries, empty for the empty sequence.
LEMMA AboutType ==
  ASSUME NEW s \in Seq(Update), NEW p
  PROVE  EntriesAbout(s, p) \in Seq(Entry) /\ (s = <<>> => EntriesAbout(s, p) = <<>>)
  <1>1. PICK f \in [0..Len(s) -> Seq(Entry)] : Finds(f, s, p) /\ EntriesAbout(s, p) = f[Len(s)]
    BY AboutFinds
  <1>2. Len(s) \in 0..Len(s) /\ (s = <<>> => Len(s) = 0)
    OBVIOUS
  <1> QED
    BY <1>1, <1>2 DEF Finds

----------------------------------------------------------------------------
(***************************************************************************)
(* The steps of PodFeed.                                                   *)
(***************************************************************************)
Owed == [p \in Pods |-> OnTheirWay(p)]

\* What is on the way about a pod before and after a step.
LEMMA OwedValue ==
  ASSUME TypeOK
  PROVE  \A p \in Pods :
           /\ Owed[p] = IF InHand(p) THEN Append(EntriesAbout(queue, p), dispOut.entry)
                        ELSE EntriesAbout(queue, p)
           /\ Owed'[p] = IF InHand(p)' THEN Append(EntriesAbout(queue', p), dispOut'.entry)
                         ELSE EntriesAbout(queue', p)
           /\ EntriesAbout(queue, p) \in Seq(Entry)
  <1>1. \A p \in Pods : EntriesAbout(queue, p) \in Seq(Entry)
    BY AboutType DEF TypeOK
  <1> QED
    BY <1>1 DEF Owed, OnTheirWay

\* A write of the map is a wish.
LEMMA StoreIsWish ==
  ASSUME Inv, NEW p \in Pods, NEW e \in Entry, Store(p, e), dispPc = "apply",
         UNCHANGED <<queue, told>>
  PROVE  /\ desired' = [desired EXCEPT ![p] = e]
         /\ Owed' = [Owed EXCEPT ![p] = Append(@, e)]
  <1>1. /\ \A q \in Pods : ~ InHand(q) /\ (InHand(q)' <=> q = p)
        /\ dispOut'.entry = e /\ queue' = queue
    BY DEF Store, InHand
  <1>2. \A q \in Pods : /\ q = p => Owed'[q] = Append(Owed[q], e)
                        /\ q # p => Owed'[q] = Owed[q]
    BY <1>1, OwedValue DEF Inv
  <1>3. Owed' = [q \in Pods |-> Owed'[q]] /\ Owed = [q \in Pods |-> Owed[q]]
    BY DEF Owed
  <1> HIDE DEF Owed
  <1> QED
    BY <1>2, <1>3 DEF Store

\* A message put into the channel.
LEMMA QueueGrows ==
  ASSUME TypeOK, NEW m \in Update, queue' = Append(queue, m), NEW p
  PROVE  EntriesAbout(queue', p)
            = IF m.pod = p THEN Append(EntriesAbout(queue, p), m.entry)
              ELSE EntriesAbout(queue, p)
  <1>1. queue \in Seq(Update)
    BY DEF TypeOK
  <1> QED
    BY <1>1, AboutAppend

\* The dispatcher's message goes from its hand into the channel.
LEMMA SendIsStutter ==
  ASSUME Inv, DispatchSend
  PROVE  Owed' = Owed
  <1>1. dispOut \in Update /\ queue' = Append(queue, dispOut)
    BY DEF Inv, TypeOK, DispatchSend
  <1>2. \A q \in Pods : ~ InHand(q)' /\ (InHand(q) <=> dispOut.pod = q)
    BY DEF DispatchSend, InHand
  <1>3. \A q \in Pods : Owed'[q] = Owed[q]
    BY <1>1, <1>2, OwedValue, QueueGrows DEF Inv
  <1>4. Owed' = [q \in Pods |-> Owed'[q]] /\ Owed = [q \in Pods |-> Owed[q]]
    BY DEF Owed
  <1> HIDE DEF Owed
  <1> QED
    BY <1>3, <1>4

\* A reconcile repeats the latest wish, also when the dispatcher has that one
\* in hand.
LEMMA ReconcileIsReminder ==
  ASSUME Inv, NEW r \in Reconcilers, ReconcileSend(r)
  PROVE  Owed' = [Owed EXCEPT ![recPod[r]] = Append(@, desired[recPod[r]])]
  <1> DEFINE p == recPod[r]
             d == desired[p]
             m == [pod |-> p, entry |-> d]
  <1>1. p \in Pods /\ d \in Entry /\ recSpec[r] = d
    BY DEF Inv, TypeOK, CloneIsCurrent, ReconcileSend
  <1>2. m \in Update /\ m.pod = p /\ m.entry = d /\ queue' = Append(queue, m)
    BY <1>1, Records DEF ReconcileSend
  <1>3. \A q \in Pods : (InHand(q)' <=> InHand(q)) /\ dispOut' = dispOut
    BY DEF ReconcileSend, InHand, dispVars
  <1>4. InHand(p) => dispOut.entry = d
    BY DEF Inv, SenderIsCurrent, InHand
  <1> HIDE DEF m
  <1>5. \A q \in Pods : EntriesAbout(queue', q)
            = IF p = q THEN Append(EntriesAbout(queue, q), d) ELSE EntriesAbout(queue, q)
    BY <1>2, QueueGrows DEF Inv
  <1> HIDE DEF p, d
  <1>6. \A q \in Pods : /\ q = p => Owed'[q] = Append(Owed[q], d)
                        /\ q # p => Owed'[q] = Owed[q]
    BY <1>1, <1>3, <1>4, <1>5, OwedValue DEF Inv
  <1>7. Owed' = [q \in Pods |-> Owed'[q]] /\ Owed = [q \in Pods |-> Owed[q]]
    BY DEF Owed
  <1> HIDE DEF Owed
  <1>8. Owed' = [Owed EXCEPT ![p] = Append(@, d)]
    BY <1>1, <1>6, <1>7
  <1> QED
    BY <1>8 DEF p, d

\* The loop hears what was first on its way about the pod.
LEMMA ReceiveIsHearing ==
  ASSUME Inv, Receive
  PROVE  LET p == Head(queue).pod
         IN  /\ p \in Pods
             /\ Owed[p] # <<>>
             /\ told' = [told EXCEPT ![p] = Head(Owed[p])]
             /\ Owed' = [Owed EXCEPT ![p] = Tail(@)]
  <1> DEFINE h == Head(queue)
             p == h.pod
             e == h.entry
             Rest(q) == EntriesAbout(Tail(queue), q)
  <1>1. /\ queue \in Seq(Update) /\ queue # <<>> /\ queue' = Tail(queue)
        /\ h \in Update /\ Tail(queue) \in Seq(Update)
    BY DEF Inv, TypeOK, Receive
  <1>2. p \in Pods /\ e \in Entry
    BY <1>1 DEF Update
  <1>3. \A q \in Pods : (InHand(q)' <=> InHand(q)) /\ dispOut' = dispOut
    BY DEF Receive, InHand, dispVars
  <1>4. \A q \in Pods : /\ EntriesAbout(queue, q) = IF p = q THEN <<e>> \o Rest(q) ELSE Rest(q)
                        /\ EntriesAbout(queue', q) = Rest(q)
    BY <1>1, AboutTail
  <1>5. Rest(p) \in Seq(Entry)
    BY <1>1, AboutType
  <1>6. InHand(p) => dispOut.entry \in Entry
    BY DEF Inv, TypeOK, InHand, Update
  <1>7. told' = [told EXCEPT ![p] = e]
    BY DEF Receive
  <1> HIDE DEF h, p, e, Rest
  <1>8. Owed[p] # <<>> /\ Head(Owed[p]) = e /\ Owed'[p] = Tail(Owed[p])
    <2>1. <<e>> \o Rest(p) # <<>> /\ Head(<<e>> \o Rest(p)) = e /\ Tail(<<e>> \o Rest(p)) = Rest(p)
      BY <1>2, <1>5
    <2>2. CASE ~ InHand(p)
      BY <1>2, <1>3, <1>4, <2>1, <2>2, OwedValue DEF Inv
    <2>3. CASE InHand(p)
      <3> DEFINE a == <<e>> \o Rest(p)
                 x == dispOut.entry
      <3>1. a \in Seq(Entry) /\ x \in Entry /\ a # <<>> /\ Head(a) = e /\ Tail(a) = Rest(p)
        BY <1>2, <1>5, <1>6, <2>1, <2>3
      <3>2. Owed[p] = Append(a, x) /\ Owed'[p] = Append(Rest(p), x)
        BY <1>2, <1>3, <1>4, <2>3, OwedValue DEF Inv
      <3> HIDE DEF a, x
      <3>3. Append(a, x) # <<>> /\ Head(Append(a, x)) = e /\ Tail(Append(a, x)) = Append(Rest(p), x)
        BY <3>1, HeadTailAppend, AppendProperties
      <3> QED
        BY <3>2, <3>3
    <2> QED
      BY <2>2, <2>3
  <1>9. \A q \in Pods : q # p => Owed'[q] = Owed[q]
    BY <1>3, <1>4, OwedValue DEF Inv
  <1>10. Owed' = [q \in Pods |-> Owed'[q]] /\ Owed = [q \in Pods |-> Owed[q]]
    BY DEF Owed
  <1> HIDE DEF Owed
  <1>11. Owed' = [Owed EXCEPT ![p] = Tail(@)]
    BY <1>2, <1>8, <1>9, <1>10
  <1> QED
    BY <1>2, <1>7, <1>8, <1>11 DEF p, h

\* No other step changes what is on the way.
LEMMA OwedStays ==
  ASSUME TypeOK, UNCHANGED queue, \A q \in Pods : InHand(q)' <=> InHand(q),
         \A q \in Pods : InHand(q) => dispOut'.entry = dispOut.entry
  PROVE  Owed' = Owed
  <1>1. \A q \in Pods : Owed'[q] = Owed[q]
    BY OwedValue
  <1>2. Owed' = [q \in Pods |-> Owed'[q]] /\ Owed = [q \in Pods |-> Owed[q]]
    BY DEF Owed
  <1> HIDE DEF Owed
  <1> QED
    BY <1>1, <1>2

\* A step of PodFeed, its history variable named.
LEMMA FeedSteps ==
  /\ \A p \in Pods, e \in Entry :
       /\ desired' = [desired EXCEPT ![p] = e]
       /\ Owed' = [Owed EXCEPT ![p] = Append(@, e)]
       /\ UNCHANGED told
       => Feed!FeedNext
  /\ \A p \in Pods :
       /\ Owed' = [Owed EXCEPT ![p] = Append(@, desired[p])]
       /\ UNCHANGED <<desired, told>>
       => Feed!FeedNext
  /\ \A p \in Pods :
       /\ Owed[p] # <<>>
       /\ told' = [told EXCEPT ![p] = Head(Owed[p])]
       /\ Owed' = [Owed EXCEPT ![p] = Tail(@)]
       /\ UNCHANGED desired
       => Feed!FeedNext
  /\ UNCHANGED <<desired, Owed, told>> => UNCHANGED Feed!feedVars
  BY DEF Owed, Feed!FeedNext, Feed!Wish, Feed!Remind, Feed!Hear, Feed!feedVars

\* Every step of the pod manager is a step of PodFeed or changes nothing there.
LEMMA StepIsFeedStep == Inv /\ [Next]_vars => [Feed!FeedNext]_(Feed!feedVars)
  <1> SUFFICES ASSUME Inv, [Next]_vars
               PROVE  Feed!FeedNext \/ UNCHANGED Feed!feedVars
    OBVIOUS
  <1> DEFINE Stutters == UNCHANGED <<desired, Owed, told>>
  <1>1. ASSUME NEW u \in Update, DispatchRecv(u)
        PROVE  Stutters
    <2>1. \A q \in Pods : ~ InHand(q) /\ ~ InHand(q)'
      BY <1>1 DEF DispatchRecv, InHand
    <2>2. UNCHANGED <<desired, queue, told>>
      BY <1>1 DEF DispatchRecv
    <2> QED
      BY <2>1, <2>2, OwedStays DEF Inv
  <1>2. CASE DispatchUpsert
    <2>1. dispPc = "apply" /\ UNCHANGED <<queue, told>>
      BY <1>2 DEF DispatchUpsert
    <2>2. CASE \E p \in Pods, e \in Entry : Store(p, e)
      BY <2>1, <2>2, StoreIsWish, FeedSteps
    <2>3. CASE dispPc' = "idle" /\ UNCHANGED <<desired, dispOut>>
      <3>1. \A q \in Pods : ~ InHand(q) /\ ~ InHand(q)'
        BY <2>1, <2>3 DEF InHand
      <3>2. UNCHANGED Owed
        BY <2>1, <3>1, OwedStays DEF Inv
      <3> QED
        BY <2>1, <2>3, <3>2, FeedSteps
    <2> QED
      BY <1>2, <2>2, <2>3, UpsertStores DEF Inv
  <1>3. CASE DispatchRemove
    <2>1. /\ dispIn.pod \in Pods /\ Store(dispIn.pod, Absent) /\ dispPc = "apply"
          /\ UNCHANGED <<queue, told>>
      BY <1>3 DEF Inv, TypeOK, DispatchRemove, Update
    <2> QED
      BY <2>1, Records, StoreIsWish, FeedSteps
  <1>4. CASE DispatchSend
    <2>1. UNCHANGED Owed
      BY <1>4, SendIsStutter
    <2> QED
      BY <1>4, <2>1, FeedSteps DEF DispatchSend
  <1>5. ASSUME NEW r \in Reconcilers, ReconcileSend(r)
        PROVE  Feed!FeedNext
    <2>1. recPod[r] \in Pods /\ UNCHANGED <<desired, told>>
      BY <1>5 DEF Inv, TypeOK, ReconcileSend
    <2> QED
      BY <1>5, <2>1, ReconcileIsReminder, FeedSteps
  <1>6. ASSUME NEW r \in Reconcilers, ReconcileStart(r) \/ ReconcileScan(r)
        PROVE  Stutters
    <2>1. UNCHANGED <<desired, queue, dispVars, told>>
      BY <1>6 DEF ReconcileStart, ReconcileScan, ReconcileShard, ReconcileClone, ReconcileEnd
    <2>2. \A q \in Pods : (InHand(q)' <=> InHand(q)) /\ dispOut' = dispOut
      BY <2>1 DEF InHand, dispVars
    <2> QED
      BY <2>1, <2>2, OwedStays DEF Inv
  <1>7. CASE Receive
    <2>1. UNCHANGED desired
      BY <1>7 DEF Receive
    <2> QED
      BY <1>7, <2>1, ReceiveIsHearing, FeedSteps
  <1>8. CASE UNCHANGED vars
    <2>1. UNCHANGED <<desired, queue, dispVars, told>>
      BY <1>8 DEF vars
    <2>2. \A q \in Pods : (InHand(q)' <=> InHand(q)) /\ dispOut' = dispOut
      BY <2>1 DEF InHand, dispVars
    <2>3. Stutters
      BY <2>1, <2>2, OwedStays DEF Inv
    <2> QED
      BY <2>3, FeedSteps
  <1> QED
    BY <1>1, <1>2, <1>3, <1>4, <1>5, <1>6, <1>7, <1>8, FeedSteps
       DEF Next, Dispatch, Reconcile

\* The pod manager passes on every state of a pod once, in order, with
\* repetitions of the latest one only: the safety part of FeedImplemented.
THEOREM ImplementsPodFeed == Spec => Feed!FeedInit /\ [][Feed!FeedNext]_(Feed!feedVars)
  <1>1. Init => Feed!FeedInit
    <2> SUFFICES ASSUME Init PROVE Feed!FeedInit
      OBVIOUS
    <2>1. \A p \in Pods : ~ InHand(p) /\ EntriesAbout(queue, p) = <<>>
      <3>1. queue = <<>> /\ queue \in Seq(Update)
        BY DEF Init
      <3> QED
        BY <3>1, AboutType DEF Init, InHand
    <2>2. [p \in Pods |-> OnTheirWay(p)] = [p \in Pods |-> <<>>]
      BY <2>1 DEF OnTheirWay
    <2> QED
      BY <2>2 DEF Init, Feed!FeedInit
  <1> QED
    BY <1>1, InvInit, InvStep, StepIsFeedStep, PTL DEF Spec

=============================================================================
