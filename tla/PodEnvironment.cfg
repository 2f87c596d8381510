SPECIFICATION Spec
CONSTANTS
  Volumes = {"mem", "claim", "proj", "conf", "down"}
  Pods <- MCPods
  Later = "mem"
  Kind <- MCKind
  PvKind <- MCPvKind
  Sources <- MCSources
  Objects = {"cm", "sec"}
  Contents <- MCContents
  NoData = NoData
  Paths = {"a", "b", "f", "tok"}
  DefaultDriver = TRUE
  MaxStops = 1
  ProbeKinds = {"startup", "liveness", "readiness"}
  SuccessThreshold = 1
  FailureThreshold = 2
  MaxContainers = 2
  PodSecrets <- MCPodSecrets
  SaSecrets <- MCSaSecrets
  Auths <- MCAuths
  Registries = {"docker.io", "gcr.io", "quay.io"}
  MaxFaults = 4
  EnvSpecs <- MCEnvSpecs
  EnvObjects = {"cm", "sec"}
  IsSecret <- MCIsSecret
  EnvContents <- MCEnvContents
  Absent = Absent
  Kubernetes <- MCKubernetes
  Services <- MCServices
  Upper <- MCUpper
  Fields <- MCFields
  HOSTNAME <- MCHOSTNAME
  Hostname <- MCHostname
  NodeIp <- MCNodeIp
  Chars <- MCChars
  Inputs <- MCInputs
INVARIANTS
  VolumesSound
  StartupFirst
  
  EnvSound
PROPERTIES
  TokenKept
  HungIsKilled
  ImageArrives
CHECK_DEADLOCK FALSE
