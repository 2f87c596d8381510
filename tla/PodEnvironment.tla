---------------------------- MODULE PodEnvironment ----------------------------
(***************************************************************************)
(* What a pod worker prepares for containers and keeps up around them:     *)
(* volumes, images, environment and probes.  The four share no state; the  *)
(* one that is followed is chosen at the start.                            *)
(***************************************************************************)
EXTENDS PodVolumes, Probes, ImagePull, ContainerEnv

VARIABLE part

vars == <<part, volumeVars, probeVars, pullVars, envVars>>

TypeOK ==
  /\ part \in {"volumes", "probes", "images", "env"}
  /\ VolumeTypeOK /\ ProbeTypeOK /\ PullTypeOK /\ EnvTypeOK

Init ==
  /\ part \in {"volumes", "probes", "images", "env"}
  /\ VolumeInit /\ ProbeInit /\ PullInit /\ EnvInit
  \* the parts that are not followed start in one state
  /\ part # "volumes" => /\ declared = CHOOSE d \in Pods : TRUE
                         /\ \A o \in Objects : object[o] = NoData
                         /\ client
  /\ part # "images" => imageThere /\ registry = CHOOSE r \in Registries : TRUE
  /\ part # "env" => /\ spec = CHOOSE s \in EnvSpecs : TRUE
                     /\ \A o \in EnvObjects : store[o] = Absent
                     /\ podIp = <<>>

Volume(A) == part = "volumes" /\ A /\ UNCHANGED <<part, probeVars, pullVars, envVars>>
Probe(A)  == part = "probes" /\ A /\ UNCHANGED <<part, volumeVars, pullVars, envVars>>
Pull(A)   == part = "images" /\ A /\ UNCHANGED <<part, volumeVars, probeVars, envVars>>
Env(A)    == part = "env" /\ A /\ UNCHANGED <<part, volumeVars, probeVars, pullVars>>

Next == Volume(VolumeNext) \/ Probe(ProbeNext) \/ Pull(PullNext) \/ Env(EnvNext)

\* Syncs come again and again and the probe tasks are scheduled.
Spec ==
  /\ Init /\ [][Next]_vars
  /\ WF_vars(Probe(ArmProbes))
  /\ \A k \in AllKinds, c \in Cids : WF_vars(Probe(TaskOf(k, c)))
  /\ WF_vars(Pull(PullSteps))

----------------------------------------------------------------------------
\* A private image gets there in the end if the first credentials for it, among
\* those of the pod's secrets and then of its service account's, are good,
\* whatever lookups, exchanges and pulls failed before: each sync resolves the
\* credentials anew.
ImageArrives == part = "images" /\ pullPc = "idle" /\ FirstIsGood ~> pullPc = "present"
=============================================================================
