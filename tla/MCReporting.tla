------------------------------ MODULE MCReporting ------------------------------
(***************************************************************************)
(* Instance of Reporting for TLC. The manifests are grouped by the aspect  *)
(* they vary: those of one group set some of the fields of that aspect.    *)
(***************************************************************************)
EXTENDS Reporting, TLC

Base == ("uid" :> "u") @@ ("name" :> "n") @@ ("namespace" :> "ns")

\* The manifests that set at most k of the fields f of values to a member of
\* values[f].
Some(values, k) ==
  {g @@ Base : g \in UNION {{h \in [S -> UNION {values[f] : f \in S}] : \A f \in S : h[f] \in values[f]} :
                              S \in {T \in SUBSET DOMAIN values : Cardinality(T) <= k}}}

Identity == {[f \in S |-> f] : S \in SUBSET {"uid", "name", "namespace", "mirror"}}

Policies ==
  ("restartPolicy" :> {"Never", "OnFailure", "Always"}) @@ ("container.restartPolicy" :> {"Never", "OnFailure", "Always"})
  @@ ("dnsPolicy" :> {"Default", "ClusterFirst", "None"}) @@ ("dnsConfig" :> {"options"}) @@ ("imagePullPolicy" :> {"Always", "Never", "IfNotPresent"})
  @@ ("hostname" :> {"h"}) @@ ("nodeName" :> {"elsewhere"}) @@ ("serviceAccountName" :> {"default", "sa"})
Switches == [f \in Flags \cup {"shareProcessNamespace", "tty", "stdin", "automountToken"} |-> BOOLEAN]
Identities ==
  [f \in {"runAsUser", "runAsGroup", "pod.runAsUser", "pod.runAsGroup", "pod.fsGroup"} |-> {0, 7}]
Privileges ==
  [f \in {"privileged", "readOnlyRootFilesystem", "allowPrivilegeEscalation"} |-> BOOLEAN]
Sets == [f \in {"capAdd", "capDrop", "pod.groups"} |-> {{}, {9}}]
ProfileNames == [f \in {"seccomp", "pod.seccomp", "apparmor"} |-> {"RuntimeDefault", "Unconfined", "Localhost"}]

Q(n, s) == [num |-> n, suffix |-> s]
Quantities == {Q(1, ""), Q(250, "m"), Q(1500, "m"), Q(1000, "m"), Q(3, "Ki"), Q(2, "Mi"), Q(1, "Ti"), Q(2, "Ti"), Q(5, "k"), Q(2, "P")}
Resources ==
  {("resources" :> r) @@ Base :
     r \in {("requests.cpu" :> p) @@ ("limits.cpu" :> q) : p, q \in {Q(1, ""), Q(250, "m"), Q(1, "m")}}
          \cup {("requests.memory" :> p) @@ ("limits.memory" :> q) : p, q \in Quantities \ {Q(250, "m"), Q(1500, "m"), Q(1000, "m")}}
          \cup {k :> q : k \in {"requests.cpu", "limits.cpu"}, q \in {Q(1, ""), Q(250, "m"), Q(1500, "m"), Q(1000, "m"), Q(2, "P")}}}

Port(n, k) == [name |-> n, num |-> k]
Probing ==
  {("probe" :> (h :> p)) @@ ("ports" :> <<Port("http", 8080), Port("", 9090)>>) @@ Base :
     h \in {"exec", "httpGet", "tcpSocket", "grpc"}, p \in {Port("http", 0), Port("", 70)}}
  \cup {("probe" :> ("httpGet" :> Port("gone", 0))) @@ Base}
Hooking == {("hook" :> (h :> p)) @@ Base : h \in {"exec", "httpGet", "tcpSocket", "sleep"}, p \in {Port("http", 0), Port("", 70)}}

Environment ==
  {("env" :> e) @@ Base : e \in {"value" :> "v"} \cup {r :> "x" : r \in {"fieldRef", "resourceFieldRef", "configMapKeyRef", "secretKeyRef"}}}
VolumeKinds == {"hostPath", "emptyDir", "configMap", "secret", "persistentVolumeClaim", "projected", "downwardAPI", "nfs"}
Volumes_ ==
  {("volume" :> (k :> v)) @@ Base :
     k \in VolumeKinds,
     v \in {("name" :> "cm"), ("name" :> "cm") @@ ("optional" :> TRUE) @@ ("items" :> <<"k">>), ("readOnly" :> TRUE) @@ ("defaultMode" :> 420),
            ("secret" :> "x"), ("downwardAPI" :> "x") @@ ("configMap" :> "y")}}

Path(p, h) == [path |-> p, host |-> h]
Mounts ==
  {("volumeMounts" :> <<p, q>>) @@ Base :
     p, q \in {Path(<<"a">>, "h1"), Path(<<"a", "b">>, "h2"), Path(<<"a", "b", "c">>, "h3"), Path(<<"d">>, "h4")}}

MCSpecCases ==
  Identity \cup Some(Policies, 2) \cup Some(Switches, 2) \cup Some(Identities, 2) \cup Some(Privileges, 2) \cup Some(Sets, 2)
  \cup Some(ProfileNames, 2) \cup Resources \cup Probing \cup Hooking \cup Environment \cup Volumes_ \cup Mounts

MCCriCases ==
  Some(Switches, 3) \cup Some(Identities, 3) \cup Some(Privileges, 3) \cup Some(Sets, 2) \cup Some(ProfileNames, 2) \cup Mounts
  \cup {Base}

MCResizes == {("requests.cpu" :> Q(250, "m")) @@ ("limits.cpu" :> Q(1, "")), ("requests.cpu" :> Q(1, "m")) @@ ("limits.memory" :> Q(2, "Mi")),
              ("limits.cpu" :> Q(250, "m"))}

Shape(p, i, c) == [policy |-> p, init |-> i, probes |-> c]
MCShapes == {Shape("Always", "none", {"app"}), Shape("OnFailure", "plain", {}), Shape("Never", "plain", {}),
             Shape("Never", "sidecar", {"init"})}
=============================================================================
