------------------------------ MODULE PodManager ------------------------------
(***************************************************************************)
(* The pod manager (crates/kubelet-core/src/pod/manager.rs) between its    *)
(* two users: the dispatcher task that applies what the pod sources send   *)
(* (crates/kubelet-app/src/lib.rs) and the runtime loop that receives      *)
(* PodUpdates from the bounded channel, with the reconcile_all tasks that  *)
(* re-send every desired pod.                                              *)
(*                                                                         *)
(* desired is a DashMap: reconcile_all iterates it shard by shard and      *)
(* holds the read guard of a shard, also while it waits for room in the    *)
(* channel; a writer of that shard blocks its worker thread, not only its  *)
(* task, until the guard is gone.                                          *)
(***************************************************************************)
EXTENDS Naturals, Sequences

CONSTANTS Pods,        \* pod UIDs
          NoPod,       \* no pod
          Versions,    \* the contents a pod's spec may have, positive numbers
          Aliases,     \* the host alias lists a spec may carry, 0 the empty one
          Equivalent,  \* pairs of UIDs that name one static pod
          Shards,      \* the number of shards of the DashMap
          ShardOf,     \* the shard that holds a UID
          Reconcilers, \* reconcile_all tasks that may overlap
          Cap,         \* capacity of the channel (512 in the code)
          Workers      \* worker threads of the tokio runtime

ASSUME PodManagerAssumption ==
          /\ NoPod \notin Pods
          /\ Versions \subseteq Nat \ {0}
          /\ Aliases \subseteq Nat
          /\ 0 \in Aliases
          /\ Equivalent \subseteq Pods \X Pods
          /\ Shards \in Nat \ {0}
          /\ ShardOf \in [Pods -> 1..Shards]
          /\ Cap \in Nat \ {0}
          /\ Workers \in Nat \ {0}

VARIABLES
  desired,  \* the DashMap: spec of each pod, Absent if it has none
  queue,    \* the channel: pods with the spec to run, Absent to remove
  dispPc,   \* the dispatcher: idle, about to write the map, or sending
  dispIn,   \* the update it took from the sources
  dispOut,  \* the PodUpdate it is sending
  recPc,    \* a reconcile_all task: idle, between two entries, or sending
  recShard, \* the shard whose guard it holds, 0 for none
  recTodo,  \* the entries of that shard it has yet to send
  recPod, recSpec, \* the clone it is sending
  told      \* what the runtime loop was last told about a pod

dispVars == <<dispPc, dispIn, dispOut>>
recVars  == <<recPc, recShard, recTodo, recPod, recSpec>>
vars == <<desired, queue, dispVars, recVars, told>>

----------------------------------------------------------------------------
Spec_ == [ver : Versions, al : Aliases]
Absent == [ver |-> 0, al |-> 0]
Entry == Spec_ \cup {Absent}

\* A PodUpdate; the operation is Remove when the entry is Absent.
Update == [pod : Pods, entry : Entry]
NoUpdate == [pod |-> NoPod, entry |-> Absent]

TypeOK ==
  /\ desired \in [Pods -> Entry]
  /\ queue \in Seq(Update)
  /\ Len(queue) =< Cap
  /\ dispPc \in {"idle", "apply", "send"}
  /\ dispIn \in Update \cup {NoUpdate}
  /\ dispPc = "apply" => dispIn \in Update
  /\ dispOut \in Update \cup {NoUpdate}
  /\ dispPc = "send" => dispOut \in Update
  /\ recPc \in [Reconcilers -> {"idle", "scan", "send"}]
  /\ recShard \in [Reconcilers -> 0..Shards]
  /\ recTodo \in [Reconcilers -> SUBSET Pods]
  /\ recPod \in [Reconcilers -> Pods \cup {NoPod}]
  /\ recSpec \in [Reconcilers -> Entry]
  /\ \A r \in Reconcilers : recPc[r] = "send" => recPod[r] \in Pods
  /\ told \in [Pods -> Entry]

Init ==
  /\ desired = [p \in Pods |-> Absent]
  /\ queue = <<>>
  /\ dispPc = "idle"
  /\ dispIn = NoUpdate
  /\ dispOut = NoUpdate
  /\ recPc = [r \in Reconcilers |-> "idle"]
  /\ recShard = [r \in Reconcilers |-> 0]
  /\ recTodo = [r \in Reconcilers |-> {}]
  /\ recPod = [r \in Reconcilers |-> NoPod]
  /\ recSpec = [r \in Reconcilers |-> Absent]
  /\ told = [p \in Pods |-> Absent]

----------------------------------------------------------------------------
(***************************************************************************)
(* Locks and threads.                                                      *)
(***************************************************************************)
Known(p) == desired[p] # Absent

\* Mutant of WriteFree: reconcile_all clones an entry and lets its guard go.
WriteFreeAlways(p) == p \in Pods

\* No reconcile_all holds the guard of p's shard.
WriteFree(p) == \A r \in Reconcilers : recShard[r] # ShardOf[p]

\* A desired entry under another UID that is the same static pod.
Twins(p) == {q \in Pods \ {p} : <<p, q>> \in Equivalent /\ Known(q)}

\* upsert of a UID that is not known, with aliases, while a twin is: the
\* twin gets the aliases and the UID is not inserted.
Merges(u) ==
  ~ Known(u.pod) /\ u.entry.al # 0 /\ Twins(u.pod) # {}

\* The dispatcher waits for a shard lock, and its worker thread with it.
Blocked ==
  /\ dispPc = "apply"
  /\ IF dispIn.entry # Absent /\ Merges(dispIn)
     THEN \A q \in Twins(dispIn.pod) : ~ WriteFree(q)
     ELSE ~ WriteFree(dispIn.pod)

\* Some worker thread can run the other tasks.
Runnable == Workers > 1 \/ ~ Blocked

----------------------------------------------------------------------------
(***************************************************************************)
(* The dispatcher.                                                         *)
(***************************************************************************)
\* source_rx.recv(): an Add, Update or Reconcile with a spec, or a Remove.
DispatchRecv(u) ==
  /\ dispPc = "idle"
  /\ Runnable
  /\ dispPc' = "apply"
  /\ dispIn' = u
  /\ UNCHANGED <<desired, queue, dispOut, recVars, told>>

\* The update to send and the write it follows, in one go: only the
\* dispatcher writes the map.
Store(p, e) ==
  /\ WriteFree(p)
  /\ desired' = [desired EXCEPT ![p] = e]
  /\ dispOut' = [pod |-> p, entry |-> e]
  /\ dispPc' = "send"

\* upsert, new UID with aliases and a twin: the aliases go to the twin, and an
\* Update is sent only if they differ.
UpsertMerge ==
  /\ Merges(dispIn)
  /\ \E q \in Twins(dispIn.pod) :
       \/ /\ desired[q].al # dispIn.entry.al
          /\ Store(q, [desired[q] EXCEPT !.al = dispIn.entry.al])
       \/ /\ desired[q].al = dispIn.entry.al
          /\ dispPc' = "idle"
          /\ UNCHANGED <<desired, dispOut>>

\* Mutant of UpsertInsert: the spec is stored without the known aliases.
UpsertInsertPlain ==
  /\ ~ Merges(dispIn)
  /\ Store(dispIn.pod, dispIn.entry)

\* Mutant of UpsertInsert: the spec is sent as it came, before the aliases
\* were added to it.
UpsertInsertSendsIncoming ==
  /\ ~ Merges(dispIn)
  /\ WriteFree(dispIn.pod)
  /\ \E al \in Aliases \ {0} :
       desired' = [desired EXCEPT ![dispIn.pod] = [dispIn.entry EXCEPT !.al = al]]
  /\ dispOut' = dispIn
  /\ dispPc' = "send"

\* upsert in every other case: a spec without aliases inherits those of the
\* stored entry, or those of a twin if the UID is new.
UpsertInsert ==
  LET p == dispIn.pod
      e == dispIn.entry
      Inherit == IF e.al # 0 THEN {e.al}
                 ELSE IF Known(p) THEN {desired[p].al}
                 ELSE IF Twins(p) # {} THEN {desired[q].al : q \in Twins(p)}
                 ELSE {0}
  IN  /\ ~ Merges(dispIn)
      /\ \E al \in Inherit : Store(p, [e EXCEPT !.al = al])

DispatchUpsert ==
  /\ dispPc = "apply"
  /\ dispIn.entry # Absent
  /\ UpsertMerge \/ UpsertInsert
  /\ dispIn' = NoUpdate
  /\ UNCHANGED <<queue, recVars, told>>

\* remove: also a UID that is not known is passed on, with the spec the
\* source supplied.
DispatchRemove ==
  /\ dispPc = "apply"
  /\ dispIn.entry = Absent
  /\ Store(dispIn.pod, Absent)
  /\ dispIn' = NoUpdate
  /\ UNCHANGED <<queue, recVars, told>>

\* update_tx.send of upsert and remove, once there is room.
DispatchSend ==
  /\ dispPc = "send"
  /\ Runnable
  /\ Len(queue) < Cap
  /\ queue' = Append(queue, dispOut)
  /\ dispPc' = "idle"
  /\ dispOut' = NoUpdate
  /\ UNCHANGED <<desired, dispIn, recVars, told>>

----------------------------------------------------------------------------
(***************************************************************************)
(* reconcile_all, spawned by each reconcile tick.                          *)
(***************************************************************************)
ReconcileStart(r) ==
  /\ recPc[r] = "idle"
  /\ Runnable
  /\ recPc' = [recPc EXCEPT ![r] = "scan"]
  /\ UNCHANGED <<desired, queue, dispVars, recShard, recTodo, recPod, recSpec,
                 told>>

\* The iterator takes the guard of the next shard and gives up the last one.
\* A task gives its worker thread up in a send only, so between two entries
\* it goes on whatever the other threads do.
ReconcileShard(r) ==
  /\ recPc[r] = "scan"
  /\ recTodo[r] = {}
  /\ recShard[r] < Shards
  /\ recShard' = [recShard EXCEPT ![r] = @ + 1]
  /\ recTodo' = [recTodo EXCEPT
                   ![r] = {p \in Pods : Known(p) /\ ShardOf[p] = recShard[r] + 1}]
  /\ UNCHANGED <<desired, queue, dispVars, recPc, recPod, recSpec, told>>

\* The next entry of the shard is cloned and its send begins.
ReconcileClone(r) ==
  /\ recPc[r] = "scan"
  /\ \E p \in recTodo[r] :
       /\ recTodo' = [recTodo EXCEPT ![r] = @ \ {p}]
       /\ recPod' = [recPod EXCEPT ![r] = p]
       /\ recSpec' = [recSpec EXCEPT ![r] = desired[p]]
  /\ recPc' = [recPc EXCEPT ![r] = "send"]
  /\ UNCHANGED <<desired, queue, dispVars, recShard, told>>

\* The send completes; the guard stays with the iterator.
ReconcileSend(r) ==
  /\ recPc[r] = "send"
  /\ Runnable
  /\ Len(queue) < Cap
  /\ queue' = Append(queue, [pod |-> recPod[r], entry |-> recSpec[r]])
  /\ recPc' = [recPc EXCEPT ![r] = "scan"]
  /\ recPod' = [recPod EXCEPT ![r] = NoPod]
  /\ recSpec' = [recSpec EXCEPT ![r] = Absent]
  /\ UNCHANGED <<desired, dispVars, recShard, recTodo, told>>

\* The iterator is dropped after the last shard.
ReconcileEnd(r) ==
  /\ recPc[r] = "scan"
  /\ recTodo[r] = {}
  /\ recShard[r] = Shards
  /\ recPc' = [recPc EXCEPT ![r] = "idle"]
  /\ recShard' = [recShard EXCEPT ![r] = 0]
  /\ UNCHANGED <<desired, queue, dispVars, recTodo, recPod, recSpec, told>>

----------------------------------------------------------------------------
\* The runtime loop: update_rx.recv() and handle_update, which spawns and
\* does not wait.
Receive ==
  /\ queue # <<>>
  /\ Runnable
  /\ told' = [told EXCEPT ![Head(queue).pod] = Head(queue).entry]
  /\ queue' = Tail(queue)
  /\ UNCHANGED <<desired, dispVars, recVars>>

Dispatch == DispatchUpsert \/ DispatchRemove \/ DispatchSend

ReconcileScan(r) == ReconcileShard(r) \/ ReconcileClone(r) \/ ReconcileEnd(r)

Reconcile(r) == ReconcileStart(r) \/ ReconcileScan(r) \/ ReconcileSend(r)

Next ==
  \/ \E u \in Update : DispatchRecv(u)
  \/ Dispatch
  \/ \E r \in Reconcilers : Reconcile(r)
  \/ Receive

Spec == Init /\ [][Next]_vars

\* The runtime loop and a dispatcher that has work always go on; waiting
\* senders get room in the order they asked, so none of them starves.
Fairness ==
  /\ WF_vars(Receive)
  /\ SF_vars(DispatchUpsert)
  /\ SF_vars(DispatchRemove)
  /\ SF_vars(DispatchSend)
  /\ \A r \in Reconcilers : WF_vars(ReconcileScan(r)) /\ SF_vars(ReconcileSend(r))

FairSpec == Spec /\ Fairness

----------------------------------------------------------------------------
(***************************************************************************)
(* Properties.                                                             *)
(***************************************************************************)
\* The channel s holds a message about p.
Mentions(s, p) == \E i \in 1..Len(s) : s[i].pod = p

\* The last message about p in s, if any, carries e.
LastAbout(s, p, e) ==
  \A i \in 1..Len(s) :
     s[i].pod = p /\ (\A j \in i+1..Len(s) : s[j].pod # p) => s[i].entry = e

\* The dispatcher is about to send a message about p.
InHand(p) == dispPc = "send" /\ dispOut.pod = p

\* What the runtime loop was last told about a pod is what is desired, as
\* soon as nothing about the pod is on its way: a reconcile never overtakes
\* or outlives an update or a removal.
FeedAgrees ==
  \A p \in Pods : ~ Mentions(queue, p) /\ ~ InHand(p) => told[p] = desired[p]

\* The last message of the channel about a pod carries what is desired,
\* unless the dispatcher has a newer one in hand: a stale spec is never the
\* last word, and a removed pod is not brought back by a late reconcile.
LastWordIsDesired ==
  \A p \in Pods : ~ InHand(p) => LastAbout(queue, p, desired[p])

\* The two together.  Both are what keeps the runtime manager from syncing a
\* spec that upsert or remove (manager.rs) has replaced.
FeedSound == FeedAgrees /\ LastWordIsDesired

\* Host aliases merged from the static manifest are not lost while the pod
\* stays desired, though the API server's copies of its spec carry none.
AliasesKept ==
  [][\A p \in Pods : desired[p].al # 0 /\ desired'[p] # Absent
                        => desired'[p].al # 0]_vars

----------------------------------------------------------------------------
(***************************************************************************)
(* Refinement.                                                             *)
(***************************************************************************)
\* What the messages of s say about p, oldest first.
EntriesAbout(s, p) ==
  LET upTo[n \in 0..Len(s)] ==
        IF n = 0 THEN <<>>
        ELSE IF s[n].pod = p THEN Append(upTo[n-1], s[n].entry)
        ELSE upTo[n-1]
  IN  upTo[Len(s)]

\* What the channel holds about p, and what the dispatcher has in its hand.
OnTheirWay(p) ==
  IF InHand(p) THEN Append(EntriesAbout(queue, p), dispOut.entry)
  ELSE EntriesAbout(queue, p)

Feed == INSTANCE PodFeed
          WITH Wishes <- Entry, Nothing <- Absent, wish <- desired,
               owed <- [p \in Pods |-> OnTheirWay(p)], heard <- told

\* Through shard locks, a full channel and reconciles that overlap upserts,
\* the pod manager passes on every state of a pod once, in order, with
\* repetitions of the latest one only, and all of them arrive.
FeedImplemented == Feed!FeedSpec

----------------------------------------------------------------------------
(***************************************************************************)
(* Values of the model checker's instance: the pods are twins of each      *)
(* other, an API pod and its static copy, and lie in shards of their own.  *)
(***************************************************************************)
EveryTwo == {pq \in Pods \X Pods : pq[1] # pq[2]}
OwnShards == CHOOSE s \in [Pods -> 1..Shards] : \A pq \in EveryTwo : s[pq[1]] # s[pq[2]]
=============================================================================
