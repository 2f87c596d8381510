----------------------------- MODULE SourceFeed -----------------------------
(***************************************************************************)
(* Where the pod sources meet: MergedPodSource                             *)
(* (crates/kubelet-ports/src/driven/pod_source.rs) runs each of them as a  *)
(* task that sends into one bounded channel, and the dispatcher            *)
(* (crates/kubelet-app/src/lib.rs) applies what it receives to the pod     *)
(* manager.  How the pod manager passes it on is PodManager; here a pod    *)
(* that is removed is torn down some time later.                           *)
(***************************************************************************)
EXTENDS Naturals, Sequences

CONSTANTS Uids,      \* pod UIDs, of the API server and of manifests
          ApiPods,   \* those of the API server
          NoUid,     \* no UID
          Versions,  \* the contents a pod's spec may have, positive numbers
          Cap        \* capacity of the channel (512 in the code)

ASSUME FeedAssumption ==
          /\ NoUid \notin Uids
          /\ ApiPods \subseteq Uids
          /\ Versions \subseteq Nat \ {0}
          /\ Cap \in Nat \ {0}

VARIABLES chan,     \* the channel
          desired,  \* the pod manager: the spec of a pod, 0 if it has none
          reaping,  \* pods whose teardown is under way
          removed   \* history: API pods that the pod manager has removed

feedVars == <<chan, desired, reaping, removed>>

\* A PodUpdate: the spec, or 0 to remove the pod.
Update == [uid : Uids, ver : Versions \cup {0}]
Upsert(u, v) == [uid |-> u, ver |-> v]
Remove(u) == [uid |-> u, ver |-> 0]

FeedTypeOK ==
  /\ chan \in Seq(Update)
  /\ Len(chan) =< Cap
  /\ desired \in [Uids -> Versions \cup {0}]
  /\ reaping \subseteq Uids
  /\ removed \subseteq ApiPods

FeedInit ==
  /\ chan = <<>>
  /\ desired = [u \in Uids |-> 0]
  /\ reaping = {}
  /\ removed = {}

\* tx.send
Put(m) ==
  /\ Len(chan) < Cap
  /\ chan' = Append(chan, m)
  /\ UNCHANGED <<desired, reaping, removed>>

\* The dispatcher: upsert or remove.
Dispatch ==
  LET m == Head(chan)
  IN  /\ chan # <<>>
      /\ chan' = Tail(chan)
      /\ desired' = [desired EXCEPT ![m.uid] = m.ver]
      /\ reaping' = IF m.ver = 0 THEN reaping \cup {m.uid} ELSE reaping
      /\ removed' = IF m.ver = 0 THEN removed \cup ({m.uid} \cap ApiPods) ELSE removed

\* The channel holds m.
InChan(m) == \E k \in 1..Len(chan) : chan[k] = m
=============================================================================
