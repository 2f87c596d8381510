------------------------------ MODULE CriRequest ------------------------------
(***************************************************************************)
(* From a PodSpec to the calls of the container runtime: the sandbox and   *)
(* the container the CRI client asks for, and the resizes of a running     *)
(* container. The pod has one container; it may exit and is started anew   *)
(* by the next sync, while the API server changes its resources.           *)
(***************************************************************************)
EXTENDS PodSpecs

CONSTANTS
  Resizes,     \* the resources the API server may give the pod later
  MaxResizes   \* bound of their number

VARIABLES
  sandbox,    \* <<>>, or the sandbox that was asked for
  container,  \* <<>>, or the container that was asked for
  alive,      \* the container runs
  cgroup,     \* [shares, quota, memory] in force for it; 0 is no limit
  applied,    \* applied_resources: <<>>, or the key of the last resize
  synced,     \* the last sync found it running and no call of it failed
  resizes     \* number of changes of the resources

criVars == <<sandbox, container, alive, cgroup, applied, synced, resizes>>

CriInit ==
  /\ sandbox = <<>> /\ container = <<>> /\ alive = FALSE /\ cgroup = <<>> /\ applied = <<>> /\ synced = FALSE /\ resizes = 0

\* The manifests that the API server admits: what the settings that reach the
\* runtime may be.
Profile == {"RuntimeDefault", "Unconfined", "Localhost"}
Mount == [path : Seq(STRING), host : STRING]
Admitted(m) ==
  /\ \A f \in DOMAIN m \cap (Flags \cup {"shareProcessNamespace", "privileged", "readOnlyRootFilesystem", "allowPrivilegeEscalation"}) :
       m[f] \in BOOLEAN
  /\ \A f \in DOMAIN m \cap {"seccomp", "pod.seccomp"} : m[f] \in Profile
  /\ "pod.fsGroup" \in DOMAIN m => m["pod.fsGroup"] \in Nat
  /\ "volumeMounts" \in DOMAIN m => m["volumeMounts"] \in Seq(Mount)

PodOf == spec[1].pod
ContainerOf == spec[1].container
Shared == PodOf["shareProcessNamespace"] = <<TRUE>>

----------------------------------------------------------------------------
(* Resources. *)

Amount(r, key) == IF key \in DOMAIN r THEN r[key].value ELSE 0
Clamp(n) == IF n < 2 THEN 2 ELSE IF n > 262144 THEN 262144 ELSE n

\* spec_to_linux_resources.
LinuxResources(r) ==
  [shares |-> IF Amount(r, "requests.cpu") > 0 THEN Clamp((Amount(r, "requests.cpu") * 1024) \div 1000) ELSE 2,
   quota |-> Amount(r, "limits.cpu") * 100,
   memory |-> Amount(r, "limits.memory")]

\* The values a resize sends, and the key they are remembered by.
ResizeValues(r) ==
  [shares |-> Clamp((Amount(r, "requests.cpu") * 1024) \div 1000),
   quota |-> IF Amount(r, "limits.cpu") > 0 THEN Amount(r, "limits.cpu") * 100 ELSE -1,
   memory |-> Amount(r, "limits.memory")]
Key(r) == <<Amount(r, "requests.cpu"), Amount(r, "limits.cpu"), Amount(r, "limits.memory")>>

\* What the runtime makes of an update: a negative quota lifts it, and a
\* memory limit of 0 is none to set.
Updated(g, v) ==
  [shares |-> v.shares, quota |-> IF v.quota < 0 THEN 0 ELSE v.quota, memory |-> IF v.memory = 0 THEN g.memory ELSE v.memory]

----------------------------------------------------------------------------
(* Security and namespaces. *)

\* build_container_security: the container's settings come before the pod's.
ContainerSecurity ==
  [user |-> OrElse(ContainerOf["runAsUser"], PodOf["pod.runAsUser"]),
   group |-> OrElse(ContainerOf["runAsGroup"], PodOf["pod.runAsGroup"]),
   groups |-> {g \in {Or(PodOf["pod.fsGroup"], -1)} : g # -1} \cup Or(PodOf["pod.groups"], {}),
   privileged |-> Or(ContainerOf["privileged"], FALSE),
   readonly |-> Or(ContainerOf["readOnlyRootFilesystem"], FALSE),
   escalation |-> ContainerOf["allowPrivilegeEscalation"],
   add |-> Or(ContainerOf["capAdd"], {}), drop |-> Or(ContainerOf["capDrop"], {}),
   seccomp |-> OrElse(ContainerOf["seccomp"], PodOf["pod.seccomp"]),
   apparmor |-> ContainerOf["apparmor"]]

\* Mutant of HasSettings: a seccomp profile alone is no setting.
HasSettingsUnconfined(sec) ==
  \/ sec.user # <<>> \/ sec.group # <<>> \/ sec.groups # {} \/ sec.privileged \/ sec.readonly \/ sec.escalation # <<>>
  \/ sec.add # {} \/ sec.drop # {}

\* build_optional_security_context: without any setting only the namespaces
\* are sent.
HasSettings(sec) ==
  \/ sec.user # <<>> \/ sec.group # <<>> \/ sec.groups # {} \/ sec.privileged \/ sec.readonly \/ sec.escalation # <<>>
  \/ sec.add # {} \/ sec.drop # {} \/ sec.seccomp # <<>>

PidMode == IF Shared THEN "pod" ELSE "container"

\* build_security_context: no AppArmor profile is sent.
SecurityContext(sec) ==
  [user |-> sec.user, group |-> sec.group, groups |-> sec.groups, privileged |-> sec.privileged, readonly |-> sec.readonly,
   noNewPrivs |-> sec.escalation = <<FALSE>>, add |-> sec.add, drop |-> sec.drop,
   seccomp |-> IF sec.seccomp # <<>> /\ sec.seccomp[1] \notin {"Unconfined", "Localhost"} THEN <<"RuntimeDefault">> ELSE sec.seccomp,
   pid |-> PidMode]
NoSettings ==
  [user |-> <<>>, group |-> <<>>, groups |-> {}, privileged |-> FALSE, readonly |-> FALSE, noNewPrivs |-> FALSE, add |-> {},
   drop |-> {}, seccomp |-> <<>>, pid |-> PidMode]
SentContext == IF HasSettings(ContainerSecurity) THEN SecurityContext(ContainerSecurity) ELSE NoSettings

\* build_namespace_options.
NamespaceOptions ==
  [network |-> IF PodOf["hostNetwork"] THEN "node" ELSE "pod",
   pid |-> IF PodOf["hostPID"] THEN "node" ELSE IF Shared THEN "pod" ELSE "container",
   ipc |-> IF PodOf["hostIPC"] THEN "node" ELSE "pod"]

\* The runtime gives a container a PID namespace of its own, or its sandbox's.
Effective(mode, sandboxMode) == IF mode = "container" THEN "container" ELSE sandboxMode

----------------------------------------------------------------------------
(* Mounts: sequences of [path, host], a path being its components. *)

Inside(p, c) == Len(p) < Len(c) /\ SubSeq(c, 1, Len(p)) = p
From(c, n) == SubSeq(c, n + 1, Len(c))

\* spec_to_cri_mounts: the mount points inside another mount are made in its
\* host path, and the deeper mounts come first.
CriMounts(ms) ==
  LET pairs == {x \in (DOMAIN ms) \X (DOMAIN ms) : x[1] # x[2]}
  IN [order |-> {x \in pairs : \/ Len(ms[x[1]].path) > Len(ms[x[2]].path)
                               \/ Len(ms[x[1]].path) = Len(ms[x[2]].path) /\ x[1] < x[2]},
      made |-> {<<ms[x[1]].host, From(ms[x[2]].path, Len(ms[x[1]].path))>> :
                  x \in {y \in pairs : Inside(ms[y[1]].path, ms[y[2]].path)}}]

----------------------------------------------------------------------------
(* The calls. *)

\* create_sandbox and run_pod_sandbox.
RunPodSandbox ==
  /\ spec # <<>> /\ sandbox = <<>>
  /\ sandbox' = <<[ns |-> NamespaceOptions, privileged |-> Or(ContainerOf["privileged"], FALSE),
                   groups |-> ContainerSecurity.groups, handler |-> Or(PodOf["runtimeClassName"], "runc"),
                   sysctls |-> PodOf["pod.sysctls"],
                   hostname |-> IF PodOf["hostNetwork"] THEN "" ELSE Or(PodOf["hostname"], "of the pod")]>>
  /\ UNCHANGED <<container, alive, cgroup, applied, synced, resizes>>

\* create_container and start_container, in a sync that finds the container
\* absent or exited: what a resize has applied before is not forgotten.
CreateContainer ==
  /\ sandbox # <<>> /\ ~ alive
  /\ SentContext.privileged => sandbox[1].privileged
  /\ container' = <<[context |-> SentContext, mounts |-> CriMounts(Or(ContainerOf["volumeMounts"], <<>>)),
                     stdin |-> Or(ContainerOf["stdin"], FALSE), tty |-> Or(ContainerOf["tty"], FALSE)]>>
  /\ alive' = TRUE
  /\ cgroup' = LinuxResources(ContainerOf["resources"])
  /\ synced' = FALSE
  /\ UNCHANGED <<sandbox, applied, resizes>>

\* apply_container_resize_if_needed, in a sync that finds it running.
SkipResize ==
  /\ alive /\ applied = <<Key(ContainerOf["resources"])>>
  /\ synced' = TRUE
  /\ UNCHANGED <<sandbox, container, alive, cgroup, applied, resizes>>

Resize ==
  /\ alive /\ applied # <<Key(ContainerOf["resources"])>>
  /\ \/ /\ cgroup' = Updated(cgroup, ResizeValues(ContainerOf["resources"]))
        /\ applied' = <<Key(ContainerOf["resources"])>>
        /\ synced' = TRUE
     \/ synced' = FALSE /\ UNCHANGED <<cgroup, applied>>
  /\ UNCHANGED <<sandbox, container, alive, resizes>>

ContainerExits == alive /\ alive' = FALSE /\ synced' = FALSE /\ UNCHANGED <<sandbox, container, cgroup, applied, resizes>>

\* A restart of the kubelet loses what was applied.
KubeletRestarts == container # <<>> /\ applied' = <<>> /\ synced' = FALSE /\ UNCHANGED <<sandbox, container, alive, cgroup, resizes>>

\* The API server gives the pod other resources: an update of its spec.
NewResources(r) ==
  /\ source = "api" /\ container # <<>> /\ resizes < MaxResizes
  /\ manifest' = [f \in DOMAIN manifest \cup {"resources"} |-> IF f = "resources" THEN r ELSE manifest[f]]
  /\ spec' = Convert(source, manifest')
  /\ resizes' = resizes + 1
  /\ synced' = FALSE
  /\ UNCHANGED <<sandbox, container, alive, cgroup, applied, source>>

CriSteps == RunPodSandbox \/ CreateContainer \/ SkipResize \/ Resize \/ ContainerExits \/ KubeletRestarts

----------------------------------------------------------------------------
DeclaredPod(f) == IF f \in PodReads(source) THEN Get(manifest, f) ELSE <<>>
DeclaredContainer(f) == IF f \in ContainerReads(source) THEN Get(manifest, f) ELSE <<>>

\* The container runs with what its manifest declares, as far as its source
\* reads it: identity, privileges and seccomp profile, the container's own
\* settings before the pod's; the namespaces of the node where they are asked
\* for; and no mount whose mount point inside another mount is missing. The
\* code leaves out four settings that it reads: hostPID never reaches the
\* container, and AppArmor profiles, runAsNonRoot and procMount are not sent.
RunsAsDeclared ==
  container # <<>> =>
    LET c == container[1].context
        ms == Or(DeclaredContainer("volumeMounts"), <<>>)
    IN /\ c.user = OrElse(DeclaredContainer("runAsUser"), DeclaredPod("pod.runAsUser"))
       /\ c.group = OrElse(DeclaredContainer("runAsGroup"), DeclaredPod("pod.runAsGroup"))
       /\ \A g \in Or(DeclaredPod("pod.groups"), {}) : g \in c.groups
       /\ DeclaredPod("pod.fsGroup") # <<>> => DeclaredPod("pod.fsGroup")[1] \in c.groups
       /\ c.privileged = (DeclaredContainer("privileged") = <<TRUE>>)
       /\ c.readonly = (DeclaredContainer("readOnlyRootFilesystem") = <<TRUE>>)
       /\ c.noNewPrivs = (DeclaredContainer("allowPrivilegeEscalation") = <<FALSE>>)
       /\ c.add = Or(DeclaredContainer("capAdd"), {}) /\ c.drop = Or(DeclaredContainer("capDrop"), {})
       /\ c.seccomp = OrElse(DeclaredContainer("seccomp"), DeclaredPod("pod.seccomp"))
       /\ sandbox[1].ns.network = (IF DeclaredPod("hostNetwork") = <<TRUE>> THEN "node" ELSE "pod")
       /\ sandbox[1].ns.ipc = (IF DeclaredPod("hostIPC") = <<TRUE>> THEN "node" ELSE "pod")
       /\ DeclaredPod("hostPID") # <<TRUE>> =>
            (Effective(c.pid, sandbox[1].ns.pid) = "pod" <=> DeclaredPod("shareProcessNamespace") = <<TRUE>>)
       /\ \A i, j \in DOMAIN ms :
            Inside(ms[i].path, ms[j].path) => \E x \in container[1].mounts.made : x[1] = ms[i].host /\ ms[i].path \o x[2] = ms[j].path

\* "Apply in-place container resize if the desired resources differ from what
\* was last applied": after a sync that found the container running, and whose
\* call did not fail, the resources in force are those of the spec.
ResizeHolds ==
  synced => cgroup = [LinuxResources(ContainerOf["resources"]) EXCEPT !.memory = IF @ = 0 THEN cgroup.memory ELSE @]
=============================================================================
