------------------------------- MODULE PodSpecs -------------------------------
(***************************************************************************)
(* From a pod manifest to a PodSpec: the four converters of the pod        *)
(* sources. The API watcher converts typed objects (pod_to_spec), the      *)
(* watcher of JSON objects reads maps (pod_spec_from_map), and the file    *)
(* and URL sources deserialize manifests of a smaller schema. A manifest   *)
(* is a function from the fields it sets to their values; an optional      *)
(* value of a spec is a sequence of at most one element.                   *)
(*                                                                         *)
(* Numbers are in the range the API server admits, so that the casts to    *)
(* smaller widths keep them. Ki and Kilo stand for 1024 and 1000, MaxLong  *)
(* for the bound of i64 at which the products saturate.                    *)
(***************************************************************************)
EXTENDS Integers, Sequences, FiniteSets

CONSTANTS
  Node,       \* the node's name
  Ki,         \* 1024 in the code
  Kilo,       \* 1000 in the code
  MaxLong     \* i64::MAX in the code

ASSUME UnitsAssumption == Ki \in Nat \ {0} /\ Kilo \in Nat \ {0} /\ MaxLong \in Nat

VARIABLES
  source,    \* the source the manifest comes from
  manifest,  \* the manifest
  spec       \* the PodSpec, once converted: <<>> if it was dropped

specVars == <<source, manifest, spec>>

Sources == {"api", "map", "file", "url"}

Get(m, f) == IF f \in DOMAIN m THEN <<m[f]>> ELSE <<>>
Or(o, default) == IF o = <<>> THEN default ELSE o[1]
OrElse(o, p) == IF o = <<>> THEN p ELSE o

\* The first member of the sequence s that is in S, if there is one.
First(s, S) ==
  LET at == {i \in DOMAIN s : s[i] \in S}
  IN  IF at = {} THEN <<>> ELSE <<s[CHOOSE i \in at : \A j \in at : i <= j]>>

\* The first member of order that v sets: the chains of `else if let`.
FirstOf(order, v) == First(order, DOMAIN v)

----------------------------------------------------------------------------
\* The fields of a pod, and of its container, that the converters know.
Flags == {"hostNetwork", "hostPID", "hostIPC"}
PodSecurity == {"pod.runAsUser", "pod.runAsGroup", "pod.runAsNonRoot", "pod.fsGroup", "pod.groups", "pod.seccomp", "pod.sysctls"}
PodFields ==
  Flags \cup PodSecurity \cup
  {"nodeName", "restartPolicy", "serviceAccountName", "terminationGracePeriodSeconds", "activeDeadlineSeconds", "dnsPolicy",
   "dnsConfig", "hostname", "subdomain", "automountToken", "enableServiceLinks", "shareProcessNamespace", "runtimeClassName",
   "priority", "readinessGates", "imagePullSecrets", "hostAliases", "nodeSelector", "generation", "startTime", "labels",
   "ephemeralContainers", "resourceClaims", "tolerations"}
Security ==
  {"runAsUser", "runAsGroup", "runAsNonRoot", "privileged", "readOnlyRootFilesystem", "allowPrivilegeEscalation",
   "capAdd", "capDrop"}
Profiles == {"seccomp", "apparmor", "procMount"}
ContainerFields ==
  Security \cup Profiles \cup
  {"command", "imagePullPolicy", "env", "envFrom", "volumeMounts", "subPathExpr", "resources", "workingDir", "stdin", "stdinOnce",
   "tty", "terminationMessage", "ports", "probe", "hook", "container.restartPolicy"}

RestartPolicy(o) == IF o \in {<<"Never">>, <<"OnFailure">>} THEN o[1] ELSE "Always"
PullPolicy(o) == IF o \in {<<"Never">>, <<"Always">>} THEN o[1] ELSE "IfNotPresent"
DnsPolicy(o) == IF o \in {<<"Default">>, <<"None">>, <<"ClusterFirstWithHostNet">>} THEN o[1] ELSE "ClusterFirst"
NonEmpty(o) == IF o = <<"">> THEN <<>> ELSE o

\* What field f of a pod is for the value o in the manifest; account is what the
\* converter takes for an absent service account.
PodField(f, o, account) ==
  CASE f = "restartPolicy" -> RestartPolicy(o)
    [] f = "dnsPolicy" -> DnsPolicy(o)
    [] f \in Flags -> Or(o, FALSE)
    [] f = "nodeName" -> Or(o, Node)
    [] f = "serviceAccountName" -> Or(o, account)
    [] f = "terminationGracePeriodSeconds" -> Or(o, 30)
    [] f \in {"hostname", "subdomain"} -> NonEmpty(o)
    [] OTHER -> o

\* The pod's fields of manifest m for a converter that reads these of them.
Pod(m, reads, account) == [f \in PodFields |-> PodField(f, IF f \in reads THEN Get(m, f) ELSE <<>>, account)]

----------------------------------------------------------------------------
(* Quantities: [num, suffix]. *)

Units(suffix) ==
  CASE suffix = "Ki" -> Ki [] suffix = "Mi" -> Ki * Ki [] suffix = "Gi" -> Ki * Ki * Ki [] suffix = "Ti" -> Ki * Ki * Ki * Ki
    [] suffix = "k" -> Kilo [] suffix = "M" -> Kilo * Kilo [] suffix = "G" -> Kilo * Kilo * Kilo
    [] OTHER -> 1
Bounded(n) == IF n > MaxLong THEN MaxLong ELSE n
ByteSuffixes == {"Ki", "Mi", "Gi", "Ti", "k", "M", "G"}

\* parse_k8s_quantity: a suffix it does not know, or a fraction, is no quantity.
ParseQuantity(q) ==
  CASE q.suffix \in ByteSuffixes -> <<[value |-> Bounded(q.num * Units(q.suffix)), unit |-> "bytes"]>>
    [] q.suffix = "m" -> <<[value |-> q.num, unit |-> "millicores"]>>
    [] q.suffix = "" -> <<[value |-> q.num, unit |-> "count"]>>
    [] OTHER -> <<>>

\* parse_k8s_quantity_for_key: plain cpus are made millicores.
ForKey(key, o) ==
  IF o # <<>> /\ key = "cpu" /\ o[1].unit = "count"
  THEN <<[value |-> Bounded(o[1].value * 1000), unit |-> "millicores"]>>
  ELSE o

\* The resources of a container: those keys of requests and limits that have
\* a quantity.
Amounts(r) ==
  LET parsed == [k \in DOMAIN r |-> ForKey(IF k \in {"requests.cpu", "limits.cpu"} THEN "cpu" ELSE "memory", ParseQuantity(r[k]))]
  IN [k \in {x \in DOMAIN r : parsed[x] # <<>>} |-> parsed[k][1]]
ApiResources(o) == IF o = <<>> THEN <<>> ELSE Amounts(o[1])

\* parse_k8s_quantity of the JSON watcher knows the same suffixes.
MapQuantity(q) == ParseQuantity(q)
\* parse_resource_requirements: a value that is no string is passed over too.
MapResources(o) ==
  IF o = <<>> THEN <<>>
  ELSE LET r == o[1]
           kept == {k \in DOMAIN r : MapQuantity(r[k]) # <<>>}
       IN [k \in kept |-> ForKey(IF k \in {"requests.cpu", "limits.cpu"} THEN "cpu" ELSE "memory", MapQuantity(r[k]))[1]]

----------------------------------------------------------------------------
(* Probes and hooks. A port is [name, num]: a number if its name is "". *)

Declared(ports, name) == First(ports, {p \in {ports[i] : i \in DOMAIN ports} : p.name = name})

\* resolve_intorstring_port: an unknown name is port 0.
ApiPort(port, ports) ==
  IF port.name = "" THEN port.num ELSE IF Declared(ports, port.name) = <<>> THEN 0 ELSE Declared(ports, port.name)[1].num

\* resolve_port of the JSON watcher: an unknown name leaves no probe.
MapPort(port, ports) ==
  IF port.name = "" THEN <<port.num>>
  ELSE IF Declared(ports, port.name) = <<>> THEN <<>> ELSE <<Declared(ports, port.name)[1].num>>

Timing(p) == [initial |-> Or(Get(p, "initialDelaySeconds"), 0), period |-> Or(Get(p, "periodSeconds"), 10),
              timeout |-> Or(Get(p, "timeoutSeconds"), 1), failures |-> Or(Get(p, "failureThreshold"), 3)]

ApiHandlers == <<"exec", "httpGet", "tcpSocket", "grpc">>
\* k8s_probe_to_spec.
ApiProbe(p, ports) ==
  LET kind == FirstOf(ApiHandlers, p)
  IN IF kind = <<>> THEN <<>>
     ELSE <<[kind |-> kind[1], port |-> IF kind[1] = "exec" THEN 0 ELSE ApiPort(p[kind[1]], ports), timing |-> Timing(p)]>>

MapHandlers == <<"httpGet", "tcpSocket", "exec", "grpc">>
\* parse_probe of the JSON watcher.
MapProbe(p, ports) ==
  LET kind == FirstOf(MapHandlers, p)
      port == IF kind = <<>> \/ kind[1] = "exec" THEN <<0>> ELSE MapPort(p[kind[1]], ports)
  IN IF kind = <<>> \/ port = <<>> THEN <<>> ELSE <<[kind |-> kind[1], port |-> port[1], timing |-> Timing(p)]>>

HookHandlers == <<"exec", "httpGet", "tcpSocket", "sleep">>
\* k8s_lifecycle_handler_to_spec: a named port is not looked up, it is 80 for
\* HTTP and 0 for TCP.
ApiHook(h) ==
  LET kind == FirstOf(HookHandlers, h)
  IN IF kind = <<>> THEN <<>>
     ELSE <<[kind |-> kind[1],
             port |-> CASE kind[1] = "httpGet" -> IF h["httpGet"].name = "" THEN h["httpGet"].num ELSE 80
                        [] kind[1] = "tcpSocket" -> IF h["tcpSocket"].name = "" THEN h["tcpSocket"].num ELSE 0
                        [] OTHER -> 0]>>

----------------------------------------------------------------------------
(* Environment and volumes. *)

Refs == <<"fieldRef", "resourceFieldRef", "configMapKeyRef", "secretKeyRef">>
Reference(e) ==
  LET kind == FirstOf(Refs, e) IN IF kind = <<>> THEN <<>> ELSE <<[kind |-> kind[1], optional |-> Or(Get(e, "optional"), FALSE)]>>

\* env of k8s_container_to_spec: the value and the reference are both kept.
ApiEnv(e) == <<[value |-> Get(e, "value"), from |-> Reference(e)]>>
\* parse_env_vars of the JSON watcher does the same; an incomplete reference,
\* which the API server does not admit, would drop the variable.
MapEnv(e) == <<[value |-> Get(e, "value"), from |-> Reference(e)]>>

\* A volume of the first kind of order that v sets; a projected volume has
\* sources, each of the first kind of parts. Any other is dropped.
Volume(v, order, parts) ==
  LET kind == FirstOf(order, v)
  IN IF kind = <<>> THEN <<>>
     ELSE <<[kind |-> kind[1],
             name |-> IF kind[1] \in {"configMap", "secret"} THEN Or(Get(v[kind[1]], "name"), "") ELSE "",
             optional |-> kind[1] \in {"configMap", "secret"} /\ Or(Get(v[kind[1]], "optional"), FALSE),
             readOnly |-> kind[1] = "persistentVolumeClaim" /\ Or(Get(v[kind[1]], "readOnly"), FALSE),
             items |-> IF kind[1] \in {"configMap", "secret"} THEN Get(v[kind[1]], "items") ELSE <<>>,
             mode |-> IF kind[1] \in {"configMap", "secret", "projected", "downwardAPI"} THEN Get(v[kind[1]], "defaultMode") ELSE <<>>,
             parts |-> IF kind[1] = "projected" THEN FirstOf(parts, v["projected"]) ELSE <<>>]>>

ApiParts == <<"serviceAccountToken", "configMap", "secret", "downwardAPI">>
\* k8s_volume_to_spec.
ApiVolume(v) == Volume(v, <<"hostPath", "emptyDir", "configMap", "secret", "persistentVolumeClaim", "projected", "downwardAPI">>, ApiParts)

MapParts == <<"serviceAccountToken", "configMap", "secret", "downwardAPI">>
\* parse_volumes of the JSON watcher.
MapVolume(v) == Volume(v, <<"hostPath", "emptyDir", "configMap", "secret", "persistentVolumeClaim", "projected", "downwardAPI", "nfs">>, MapParts)

\* The volumes of the file source have no downward API.
FileKinds == <<"hostPath", "emptyDir", "configMap", "secret", "persistentVolumeClaim", "projected">>
FileVolume(v) == Volume(v, FileKinds, <<"serviceAccountToken", "configMap", "secret">>)

\* Nor have those of the URL source, which looks for projected ones first.
UrlKinds == <<"hostPath", "emptyDir", "configMap", "secret", "projected", "persistentVolumeClaim">>
UrlVolume(v) == Volume(v, UrlKinds, <<"serviceAccountToken", "configMap", "secret">>)

----------------------------------------------------------------------------
(* Containers. *)

Ports(m) == Or(Get(m, "ports"), <<>>)

\* The restart policy of a container, which makes a sidecar of an init
\* container: typed objects know three values.
ApiRestart(o) == IF o \in {<<"Never">>, <<"OnFailure">>, <<"Always">>} THEN o ELSE <<>>

\* Mutant of MapRestart: an absent policy defaults as that of a pod does.
MapRestartAlways(o) == <<RestartPolicy(o)>>

\* In JSON any other text is Always.
MapRestart(o) == IF o = <<>> THEN <<>> ELSE <<RestartPolicy(o)>>

\* k8s_container_to_spec: all but stdinOnce is read.
ApiContainer(m) ==
  [f \in ContainerFields |->
     LET o == Get(m, f)
     IN CASE f = "imagePullPolicy" -> PullPolicy(o)
          [] f = "resources" -> ApiResources(o)
          [] f = "container.restartPolicy" -> ApiRestart(o)
          [] f = "env" /\ o # <<>> -> ApiEnv(o[1])
          [] f = "probe" /\ o # <<>> -> ApiProbe(o[1], Ports(m))
          [] f = "hook" /\ o # <<>> -> ApiHook(o[1])
          [] f = "stdinOnce" -> <<>>
          [] OTHER -> o]

\* k8s_ephemeral_container_to_spec: it has no resources, ports, probes, hooks
\* or restart policy of its own.
ApiEphemeral(m) ==
  [f \in ContainerFields |-> IF f \in {"resources", "ports", "probe", "hook", "container.restartPolicy"} THEN <<>> ELSE ApiContainer(m)[f]]

\* parse_container_security_context knows every setting of a container.
MapSecurityReads == Security \cup Profiles
MapContainerReads == MapSecurityReads \cup (ContainerFields \ (Security \cup Profiles \cup {"hook", "stdin", "stdinOnce", "tty"}))
\* build_container_spec of the JSON watcher: hooks and streams are not read.
MapContainer(m) ==
  [f \in ContainerFields |->
     LET o == IF f \in MapContainerReads THEN Get(m, f) ELSE <<>>
     IN CASE f = "imagePullPolicy" -> PullPolicy(o)
          [] f = "resources" -> MapResources(o)
          [] f = "container.restartPolicy" -> MapRestart(o)
          [] f = "env" /\ o # <<>> -> MapEnv(o[1])
          [] f = "probe" /\ o # <<>> -> MapProbe(o[1], Ports(m))
          [] OTHER -> o]

\* What the schema of a manifest file knows of a container,
FileContainerReads == {"command", "imagePullPolicy", "volumeMounts"}
\* and what parse_manifest makes of it.
FileContainer(m) ==
  [f \in ContainerFields |->
     LET o == IF f \in FileContainerReads THEN Get(m, f) ELSE <<>> IN IF f = "imagePullPolicy" THEN PullPolicy(o) ELSE o]

\* What the schema of a manifest of a URL knows of a container,
UrlContainerReads == {"command", "imagePullPolicy", "volumeMounts", "env"} \cup Security
\* and what parse_containers makes of it.
UrlContainer(m) ==
  [f \in ContainerFields |->
     LET o == IF f \in UrlContainerReads THEN Get(m, f) ELSE <<>>
     IN CASE f = "imagePullPolicy" -> PullPolicy(o)
          [] f = "env" /\ o # <<>> -> ApiEnv(o[1])
          [] OTHER -> o]

----------------------------------------------------------------------------
(* Pods. *)

ApiPodReads == PodFields \ {"resourceClaims", "tolerations"}
\* parse_pod_security_context knows every setting of a pod.
MapPodSecurityReads == PodSecurity
MapPodReads ==
  MapPodSecurityReads \cup
  (PodFields \ (PodSecurity \cup {"priority", "readinessGates", "nodeSelector", "startTime", "ephemeralContainers", "tolerations"}))
FilePodReads == {"nodeName", "restartPolicy", "hostNetwork", "hostAliases", "labels"}
UrlPodReads == {"nodeName", "restartPolicy", "hostNetwork", "hostPID", "hostIPC", "hostAliases", "labels"}

Volumes(m, Conv(_)) == IF "volume" \in DOMAIN m THEN Conv(m["volume"]) ELSE <<>>

\* pod_to_spec: an object without uid or name is none, nor is the mirror of a
\* static pod.
ApiSpec(m) ==
  IF ~ {"uid", "name"} \subseteq DOMAIN m \/ "mirror" \in DOMAIN m THEN <<>>
  ELSE <<[uid |-> m["uid"], name |-> <<m["name"]>>, namespace |-> Or(Get(m, "namespace"), "default"),
          pod |-> Pod(m, ApiPodReads, ""), container |-> ApiContainer(m), volumes |-> Volumes(m, ApiVolume),
          ephemeral |-> IF "ephemeralContainers" \in DOMAIN m THEN <<ApiEphemeral(m)>> ELSE <<>>]>>

\* pod_spec_from_map: the DNS options are read only with a policy other than
\* the default one.
MapPod(m) ==
  [Pod(m, MapPodReads, "default") EXCEPT !["dnsConfig"] = IF DnsPolicy(Get(m, "dnsPolicy")) = "ClusterFirst" THEN <<>> ELSE @]
MapSpec(m) ==
  IF ~ {"uid", "name"} \subseteq DOMAIN m THEN <<>>
  ELSE <<[uid |-> m["uid"], name |-> <<m["name"]>>, namespace |-> Or(Get(m, "namespace"), "default"),
          pod |-> MapPod(m), container |-> MapContainer(m), volumes |-> Volumes(m, MapVolume)]>>

\* parse_manifest of the file source: the name defaults to the file's and the
\* uid to one made of its path; the node's name is appended.
FileSpec(m) ==
  <<[uid |-> Or(Get(m, "uid"), "of the path"), name |-> <<Or(Get(m, "name"), "of the file"), Node>>,
     namespace |-> Or(Get(m, "namespace"), "default"),
     pod |-> Pod(m, FilePodReads, "default"), container |-> FileContainer(m), volumes |-> Volumes(m, FileVolume)]>>

\* parse_pod of the URL source.
UrlSpec(m) ==
  <<[uid |-> Or(Get(m, "uid"), "of the name"), name |-> <<Or(Get(m, "name"), "unknown"), Node>>,
     namespace |-> Or(Get(m, "namespace"), "kube-system"),
     pod |-> Pod(m, UrlPodReads, "default"), container |-> UrlContainer(m), volumes |-> Volumes(m, UrlVolume)]>>

Convert(s, m) == CASE s = "api" -> ApiSpec(m) [] s = "map" -> MapSpec(m) [] s = "file" -> FileSpec(m) [] s = "url" -> UrlSpec(m)

PodReads(s) == CASE s = "api" -> ApiPodReads [] s = "map" -> MapPodReads [] s = "file" -> FilePodReads [] s = "url" -> UrlPodReads
ContainerReads(s) ==
  CASE s = "api" -> ContainerFields \ {"stdinOnce"} [] s = "map" -> MapContainerReads
    [] s = "file" -> FileContainerReads [] s = "url" -> UrlContainerReads

\* The manifests that are converted: a container's restart policy is one of the
\* three, a volume has one kind and a probe one handler, as the API server has
\* it, and amounts are within their range, cpus in units or thousandths of them
\* and memory in bytes.
AmountsAdmitted(r) ==
  \A k \in DOMAIN r :
    /\ r[k].num \in 0 .. MaxLong
    /\ r[k].suffix \notin IF k \in {"requests.cpu", "limits.cpu"} THEN ByteSuffixes ELSE {"m"}
SpecAdmitted(m) ==
  /\ "container.restartPolicy" \in DOMAIN m => m["container.restartPolicy"] \in {"Never", "OnFailure", "Always"}
  /\ "volume" \in DOMAIN m => \A k, l \in DOMAIN m["volume"] : k = l
  /\ "probe" \in DOMAIN m => \A k, l \in DOMAIN m["probe"] \cap {"exec", "httpGet", "tcpSocket", "grpc"} : k = l
  /\ "resources" \in DOMAIN m => AmountsAdmitted(m["resources"])

SpecInit(S, M) == source \in S /\ manifest \in M /\ spec = <<>>

\* The source takes the manifest in.
Receive == spec = <<>> /\ spec' = Convert(source, manifest) /\ UNCHANGED <<source, manifest>>

----------------------------------------------------------------------------
\* Whatever source a pod comes from, it is the same pod: what two converters
\* both read they read alike, a volume both know is the same volume, and only
\* the name of a static pod tells its node. Three things differ in the code:
\* the service account of a pod that names none, the DNS options the JSON
\* watcher leaves out with the default policy, and a probe of a port nobody
\* declares, which it leaves out, too.
SourcesAgree ==
  \A s \in Sources :
    (source # "map" /\ spec # <<>> /\ Convert(s, manifest) # <<>>) =>
      LET a == spec[1]
          b == Convert(s, manifest)[1]
      IN /\ {"uid", "namespace"} \subseteq DOMAIN manifest => a.uid = b.uid /\ a.namespace = b.namespace
         /\ "name" \in DOMAIN manifest => a.name[1] = b.name[1]
         /\ \A f \in PodReads(source) \cap PodReads(s) :
              \/ a.pod[f] = b.pod[f]
              \/ f = "serviceAccountName" /\ f \notin DOMAIN manifest
              \/ f = "dnsConfig" /\ "map" \in {source, s} /\ a.pod["dnsPolicy"] = "ClusterFirst"
         /\ \A f \in ContainerReads(source) \cap ContainerReads(s) :
              a.container[f] = b.container[f] \/ (f = "probe" /\ a.container[f] # <<>> /\ b.container[f] = <<>> /\ a.container[f][1].port = 0)
         /\ (a.volumes # <<>> /\ b.volumes # <<>>) =>
              [a.volumes[1] EXCEPT !.parts = <<>>] = [b.volumes[1] EXCEPT !.parts = <<>>]
=============================================================================
