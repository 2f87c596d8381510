---------------------------- MODULE KubePodSource ----------------------------
(***************************************************************************)
(* KubePodSource (crates/kubelet-adapters/src/kube_reporter/mod.rs): a     *)
(* task that lists the node's pods at every tick and between the ticks     *)
(* follows a watch stream that may break at any time.  The API server is   *)
(* modelled with it: pods are created, changed, marked for deletion, and   *)
(* erased by the kubelet when it has torn them down or by force.  A UID is *)
(* never used twice, but a name is.                                        *)
(***************************************************************************)
EXTENDS SourceFeed

CONSTANTS NameOf,     \* the name of a pod
          MaxEvents   \* bound: events the watch stream holds

ASSUME KubeAssumption ==
          /\ DOMAIN NameOf = Uids
          /\ MaxEvents \in Nat \ {0}

VARIABLES
  api,      \* the API server's objects
  kubePc,   \* the source: waiting in select!, sending, or asleep
  listed,   \* the watcher has done its list and follows the changes
  stream,   \* events that it has not delivered yet
  batch,    \* updates the source has yet to send
  missed,   \* history: pods erased where the stream could not tell
  undeleted \* history: pods whose delete_pod failed

sourceVars == <<kubePc, listed, stream, batch, missed>>
kubeVars == <<api, sourceVars, undeleted>>

----------------------------------------------------------------------------
\* An object: not there yet, with a spec, with a deletionTimestamp, erased.
Object == [st : {"live"}, ver : Versions]
            \cup [st : {"none", "deleting", "gone"}, ver : {0}]
None == [st |-> "none", ver |-> 0]
Deleting == [st |-> "deleting", ver |-> 0]
Gone == [st |-> "gone", ver |-> 0]

There(o) == o.st \in {"live", "deleting"}

\* An event gives the objects it is about: Applied and Deleted one, Restarted
\* all of them.
Event == UNION {[S -> Object] : S \in SUBSET ApiPods}

KubeTypeOK ==
  /\ api \in [ApiPods -> Object]
  /\ kubePc \in {"select", "send", "sleep"}
  /\ listed \in BOOLEAN
  /\ stream \in Seq(Event)
  /\ batch \subseteq Update
  /\ missed \subseteq ApiPods
  /\ undeleted \subseteq ApiPods

KubeInit ==
  /\ api = [p \in ApiPods |-> None]
  /\ kubePc = "select"
  /\ listed = FALSE
  /\ stream = <<>>
  /\ batch = {}
  /\ missed = {}
  /\ undeleted = {}

----------------------------------------------------------------------------
(***************************************************************************)
(* The API server.                                                         *)
(***************************************************************************)
\* p becomes o, and a watcher that is up will be told.
Write(p, o) ==
  /\ listed => Len(stream) < MaxEvents
  /\ api' = [api EXCEPT ![p] = o]
  /\ stream' = IF listed THEN Append(stream, [q \in {p} |-> o]) ELSE stream
  /\ missed' = IF o = Gone /\ ~ listed THEN missed \cup {p} ELSE missed
  /\ UNCHANGED <<kubePc, listed, batch, undeleted>>

\* A pod is created, its name being free, or its spec is changed.
ApiApply(p, v) ==
  /\ \/ api[p] = None /\ \A q \in ApiPods : NameOf[q] = NameOf[p] => ~ There(api[q])
     \/ api[p].st = "live" /\ api[p].ver # v
  /\ Write(p, [st |-> "live", ver |-> v])
  /\ UNCHANGED feedVars

ApiDelete(p) ==
  /\ api[p].st = "live"
  /\ Write(p, Deleting)
  /\ UNCHANGED feedVars

ApiErase(p) ==
  /\ There(api[p])
  /\ Write(p, Gone)
  /\ UNCHANGED feedVars

\* KubeNodeReporter::delete_pod, when the pod u has been torn down: what has
\* the pod's name now is erased; a 404 is as good.
Reaped(u) ==
  /\ u \in reaping
  /\ reaping' = reaping \ {u}
  /\ \/ \E q \in ApiPods : /\ NameOf[q] = NameOf[u]
                           /\ There(api[q])
                           /\ Write(q, Gone)
     \/ /\ \A q \in ApiPods : NameOf[q] = NameOf[u] => ~ There(api[q])
        /\ UNCHANGED kubeVars
  /\ UNCHANGED <<chan, desired, removed>>

\* delete_pod fails: the runtime manager logs it and does not try again.
ReapFails(u) ==
  /\ u \in reaping
  /\ reaping' = reaping \ {u}
  /\ undeleted' = undeleted \cup ({u} \cap ApiPods)
  /\ UNCHANGED <<chan, desired, removed, api, sourceVars>>

----------------------------------------------------------------------------
(***************************************************************************)
(* KubePodSource::run.                                                     *)
(***************************************************************************)
\* The watcher's own list: a Restarted event, after which every change of an
\* object gives an Applied or a Deleted event.
WatchList ==
  /\ kubePc # "sleep"
  /\ ~ listed
  /\ listed' = TRUE
  /\ stream' = <<[p \in {q \in ApiPods : There(api[q])} |-> api[p]]>>
  /\ UNCHANGED <<api, undeleted, kubePc, batch, missed, feedVars>>

\* pod_to_spec
PodToSpec(p, o) == Upsert(p, o.ver)

\* Mutant of RelistUpdates: pods that are being deleted are not skipped.
RelistUpdatesAll == {Upsert(p, IF api[p].ver = 0 THEN 1 ELSE api[p].ver) :
                       p \in {q \in ApiPods : There(api[q])}}

\* What a relist sends: the pods that are not being deleted.
RelistUpdates == {PodToSpec(p, api[p]) : p \in {q \in ApiPods : api[q].st = "live"}}

\* relist_tick: list the pods and send a Reconcile for each.
Relist ==
  /\ kubePc = "select"
  /\ batch' = RelistUpdates
  /\ kubePc' = "send"
  /\ UNCHANGED <<api, undeleted, listed, stream, missed, feedVars>>

\* pod_event_to_updates: a pod with a deletionTimestamp, or one that is gone,
\* is removed.
EventUpdates(e) ==
  {IF e[p].st = "live" THEN PodToSpec(p, e[p]) ELSE Remove(p) : p \in DOMAIN e}

\* stream.next()
NextEvent ==
  /\ kubePc = "select"
  /\ stream # <<>>
  /\ batch' = EventUpdates(Head(stream))
  /\ stream' = Tail(stream)
  /\ kubePc' = "send"
  /\ UNCHANGED <<api, undeleted, listed, missed, feedVars>>

KubeSend ==
  /\ kubePc = "send"
  /\ \E m \in batch : Put(m) /\ batch' = batch \ {m}
  /\ UNCHANGED <<api, undeleted, kubePc, listed, stream, missed>>

KubeSent ==
  /\ kubePc = "send"
  /\ batch = {}
  /\ kubePc' = "select"
  /\ UNCHANGED <<api, undeleted, listed, stream, batch, missed, feedVars>>

\* The stream ends or fails, or a relist times out: the watcher is dropped
\* with what it had not delivered.
Break ==
  /\ kubePc = "select"
  /\ kubePc' = "sleep"
  /\ listed' = FALSE
  /\ stream' = <<>>
  /\ missed' = missed \cup {p \in ApiPods : \E k \in 1..Len(stream) :
                              p \in DOMAIN stream[k] /\ stream[k][p] = Gone}
  /\ UNCHANGED <<api, undeleted, batch, feedVars>>

\* Mutant of Reconnect: the source ends with its first watcher.
ReconnectNever ==
  /\ kubePc = "sleep"
  /\ UNCHANGED <<kubeVars, feedVars>>

\* The next turn of the outer loop.
Reconnect ==
  /\ kubePc = "sleep"
  /\ kubePc' = "select"
  /\ UNCHANGED <<api, undeleted, listed, stream, batch, missed, feedVars>>

----------------------------------------------------------------------------
Api == \E p \in ApiPods : \/ \E v \in Versions : ApiApply(p, v)
                          \/ ApiDelete(p)
                          \/ ApiErase(p)

KubeSource ==
  WatchList \/ Relist \/ NextEvent \/ KubeSend \/ KubeSent \/ Break \/ Reconnect

----------------------------------------------------------------------------
\* A removal of p is on its way to the pod manager.
RemovalUnderway(p) ==
  \/ InChan(Remove(p))
  \/ Remove(p) \in batch
  \/ \E k \in 1..Len(stream) : p \in DOMAIN stream[k] /\ Remove(p) \in EventUpdates(stream[k])
=============================================================================
