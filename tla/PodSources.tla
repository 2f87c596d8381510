----------------------------- MODULE PodSources -----------------------------
(***************************************************************************)
(* The pod sources of a node: those that are configured run side by side   *)
(* and share the channel to the dispatcher.  With the file source alone    *)
(* the node is standalone: no pods in an API server, no calls of it.       *)
(***************************************************************************)
EXTENDS ManifestSources

CONSTANT Configurations  \* the sets of sources that may be configured

ASSUME ConfigurationsAssumption == Configurations \subseteq SUBSET {"kube", "file", "url"}

VARIABLE conf  \* the sources of this node

allVars == <<conf, feedVars, kubeVars, fileVars, urlVars>>

SourcesTypeOK ==
  /\ conf \in Configurations
  /\ FeedTypeOK
  /\ KubeTypeOK
  /\ FileTypeOK
  /\ UrlTypeOK

SourcesInit ==
  /\ conf \in Configurations
  /\ FeedInit
  /\ KubeInit
  /\ FileInit
  /\ UrlInit

\* The node has an API server.
Connected == conf # {"file"}

\* The dispatcher, and the teardown of what it removes.
Runtime ==
  \/ Dispatch /\ UNCHANGED kubeVars
  \/ \E u \in Uids : Reaped(u) \/ (Connected /\ ReapFails(u))

SourcesNext ==
  /\ \/ Runtime /\ UNCHANGED <<fileVars, urlVars>>
     \/ Connected /\ Api /\ UNCHANGED <<fileVars, urlVars>>
     \/ "kube" \in conf /\ KubeSource /\ UNCHANGED <<fileVars, urlVars>>
     \/ "file" \in conf /\ (FileSource \/ Directory) /\ UNCHANGED <<kubeVars, urlVars>>
     \/ "url" \in conf /\ (UrlSource \/ Endpoint) /\ UNCHANGED fileVars
  /\ UNCHANGED conf

SourcesSpec == SourcesInit /\ [][SourcesNext]_allVars

\* Every task gets its turn, a send that waits for room is served in the order
\* of the waiters, the dispatcher takes what is sent, and a list or a watch
\* that is tried again and again goes through in the end.
Kube(A) == "kube" \in conf /\ A /\ UNCHANGED <<conf, fileVars, urlVars>>
File(A) == "file" \in conf /\ A /\ UNCHANGED <<conf, kubeVars, urlVars>>
Url(A)  == "url" \in conf /\ A /\ UNCHANGED <<conf, fileVars>>

Fairness ==
  /\ WF_allVars(Dispatch /\ UNCHANGED <<conf, kubeVars, fileVars, urlVars>>)
  /\ \A u \in Uids : WF_allVars((Reaped(u) \/ (Connected /\ ReapFails(u))) /\ UNCHANGED <<conf, fileVars, urlVars>>)
  /\ WF_allVars(Kube(KubeSent \/ Reconnect))
  /\ SF_allVars(Kube(KubeSend))
  /\ SF_allVars(Kube(WatchList))
  /\ SF_allVars(Kube(Relist))
  /\ SF_allVars(Kube(NextEvent))
  /\ WF_allVars(File(\/ ReadDir \/ ScanEnd \/ FileSleep
                     \/ \E f \in Files : NextEntry(f) \/ ReadManifest(f) \/ ReadFails(f)))
  /\ SF_allVars(File(FileSend \/ \E f \in Files : FileRemove(f)))
  /\ WF_allVars(Url(Fetch \/ (\E i \in Items : Resolve(i)) \/ ItemsEnd \/ UrlSleep))
  /\ SF_allVars(Url(UrlSend \/ \E u \in Uids : UrlRemove(u)))

FairSpec == SourcesSpec /\ Fairness

----------------------------------------------------------------------------
\* The API pods come from the API server alone.
ApiAlone == "kube" \in conf /\ "url" \notin conf

\* A pod that the API server no longer has is desired only while its removal
\* is on the way, or for good when it was erased while the watch was down.
GhostOnlyIfMissed ==
  ApiAlone => \A p \in ApiPods : desired[p] # 0 /\ api[p] = Gone => RemovalUnderway(p) \/ p \in missed

\* A pod that was removed does not come back, whatever relists, late events
\* and reconnects still send: API UIDs are not used twice.
NoResurrection == [][ApiAlone => \A p \in removed : desired'[p] = 0]_allVars

\* The spec that a pod keeps in the API server becomes and stays desired, though
\* a relist overtakes the events of the stream.
ApiIsDesired ==
  ApiAlone => \A p \in ApiPods, v \in Versions :
     <>[](api[p] = [st |-> "live", ver |-> v]) => <>[](desired[p] = v)

\* A graceful deletion is carried out, although relists pass over pods that are
\* being deleted and the stream may break before it tells; only a delete_pod
\* that fails may leave the object behind.
DeletionCompletes ==
  ApiAlone => \A p \in ApiPods : api[p] = Deleting ~> api[p] = Gone \/ p \in undeleted

\* An item that is gone from the endpoint is in the end not desired under any
\* UID it had, where the API source does not bring its mirror pod.
UrlRemovalCompletes ==
  "kube" \notin conf => \A i \in Items : <>[](page[i] = NoItem)
                           => \A u \in Candidates(i) \cup ItemUids : <>[](desired[u] = 0)

\* The safety of the sources: what was removed stays removed, what is not in
\* the API server goes, and a manifest is one pod.
SourcesSound == []GhostOnlyIfMissed /\ []OneUidPerItem /\ NoResurrection

\* Their liveness: what a source keeps becomes desired and what it drops is
\* let go of, for each of the three.
SourcesDeliver ==
  /\ ApiIsDesired /\ DeletionCompletes
  /\ FileIsDesired /\ FileRemovalCompletes
  /\ UrlIsDesired /\ UrlRemovalCompletes
=============================================================================
