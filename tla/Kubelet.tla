------------------------------- MODULE Kubelet -------------------------------
(***************************************************************************)
(* The life of the kubelet process: the container runtime it settles on,   *)
(* the TLS bootstrap, the serving certificate, the tasks it spawns and the *)
(* ones whose end it notices.  Files survive a crash, the process is       *)
(* started again.                                                          *)
(***************************************************************************)
EXTENDS Integers, FiniteSets

CONSTANTS
  SocketPolls,   \* polls for the CRI socket: 15 s, one every 500 ms
  ConnectTries,  \* tries to connect to it: one and five repetitions
  CsrPolls,      \* polls of the CSR: 60 s, one every 2 s
  MaxStarts,     \* bound: starts of the process
  MaxEnded       \* bound: tasks that end in one life of the process

ASSUME KubeletAssumption == {SocketPolls, ConnectTries, CsrPolls} \subseteq Nat \ {0}

Supervised   == {"runtime", "server", "healthz", "source", "dispatch"}
Unsupervised == {"pleg", "nodeStatus", "lease"}
Detached     == {"imageGc", "eviction", "plugins"}
TaskNames    == Supervised \cup Unsupervised \cup Detached

Steps == {"down", "socket", "connect", "csr", "pem", "kubeconfig", "client", "run", "network", "cert", "key", "spawn", "tasks", "exit"}

None == 0   \* no file
Torn == -1  \* a file that was created and not written

VARIABLES
  step,          \* where the process is
  starts,        \* starts so far, also the generation of what this process creates
  polls,         \* polls or tries in the present step
  runtimeKind,   \* "none", "cri" or "mock"
  tasks,         \* each task: "off", "on" or "ended"
  kubeconfig,    \* the kubeconfig file: None or the generation of the key it belongs to
  clientPem,     \* kubelet-client-current.pem, likewise
  csr,           \* the CSR of this process: "none", "pending", "issued" or "denied"
  connected,     \* the process has a client of the API server
  servingCert,   \* kubelet-serving.crt: None, Torn or a generation
  servingKey,    \* kubelet-serving.key: None, Torn or a generation
  dummies        \* sandboxes made to initialise the network and still there

\* what outlives the process
durable == <<kubeconfig, clientPem, servingCert, servingKey, dummies>>
kubeletVars == <<step, starts, polls, runtimeKind, tasks, kubeconfig, clientPem, csr, connected, servingCert, servingKey, dummies>>

Off == [t \in TaskNames |-> "off"]

KubeletTypeOK ==
  /\ step \in Steps
  /\ starts \in 0 .. MaxStarts
  /\ polls \in 0 .. SocketPolls + ConnectTries + CsrPolls
  /\ runtimeKind \in {"none", "cri", "mock"}
  /\ tasks \in [TaskNames -> {"off", "on", "ended"}]
  /\ {kubeconfig, clientPem} \subseteq 0 .. MaxStarts
  /\ csr \in {"none", "pending", "issued", "denied"}
  /\ connected \in BOOLEAN
  /\ {servingCert, servingKey} \subseteq -1 .. MaxStarts
  /\ dummies \in 0 .. MaxStarts

KubeletInit ==
  /\ step = "down"
  /\ starts = 0
  /\ polls = 0
  /\ runtimeKind = "none"
  /\ tasks = Off
  /\ kubeconfig = None
  /\ clientPem = None
  /\ csr = "none"
  /\ connected = FALSE
  /\ servingCert = None
  /\ servingKey = None
  /\ dummies = 0

GoTo(s) == step' = s /\ polls' = 0

\* The service manager starts the process.
Start ==
  /\ step = "down" /\ starts < MaxStarts
  /\ GoTo("socket")
  /\ starts' = starts + 1
  /\ csr' = "none"
  /\ UNCHANGED <<runtimeKind, tasks, connected, durable>>

----------------------------------------------------------------------------
\* Kubelet::new

\* The socket is waited for, and given up for the mock runtime.
AwaitSocket ==
  /\ step = "socket"
  /\ \/ GoTo("connect") /\ UNCHANGED runtimeKind
     \/ polls < SocketPolls /\ polls' = polls + 1 /\ UNCHANGED <<step, runtimeKind>>
     \/ polls = SocketPolls /\ GoTo("csr") /\ runtimeKind' = "mock"
  /\ UNCHANGED <<starts, tasks, csr, connected, durable>>

\* Connecting is repeated after 0.5, 1, 2, 4 and 8 s, and then the mock
\* runtime is taken, for the life of the process.
Connect ==
  /\ step = "connect"
  /\ \/ GoTo("csr") /\ runtimeKind' = "cri"
     \/ polls < ConnectTries - 1 /\ polls' = polls + 1 /\ UNCHANGED <<step, runtimeKind>>
     \/ polls = ConnectTries - 1 /\ GoTo("csr") /\ runtimeKind' = "mock"
  /\ UNCHANGED <<starts, tasks, csr, connected, durable>>

\* ensure_kubeconfig: nothing to do if there is one; else a key is made and a
\* CSR submitted, which may fail at any of its steps.
SubmitCsr ==
  /\ step = "csr" /\ csr = "none"
  /\ \/ kubeconfig # None /\ GoTo("client") /\ UNCHANGED csr
     \/ kubeconfig = None /\ csr' = "pending" /\ UNCHANGED <<step, polls>>
     \/ kubeconfig = None /\ GoTo("client") /\ UNCHANGED csr
  /\ UNCHANGED <<starts, runtimeKind, tasks, connected, durable>>

\* poll_for_issued_certificate: a poll that fails is one that sees nothing.
PollCsr ==
  /\ step = "csr" /\ csr # "none"
  /\ \/ csr = "issued" /\ GoTo("pem")
     \/ csr = "denied" /\ GoTo("client")
     \/ polls < CsrPolls /\ polls' = polls + 1 /\ UNCHANGED step
     \/ polls = CsrPolls /\ GoTo("client")
  /\ UNCHANGED <<starts, runtimeKind, tasks, csr, connected, durable>>

\* The API server, external.
CsrDecided ==
  /\ csr = "pending"
  /\ csr' \in {"issued", "denied"}
  /\ UNCHANGED <<step, starts, polls, runtimeKind, tasks, connected, durable>>

\* The certificate and the key go into one file, by way of a temporary one.
WriteClientPem ==
  /\ step = "pem"
  /\ \/ GoTo("kubeconfig") /\ clientPem' = starts
     \/ GoTo("client") /\ UNCHANGED clientPem
  /\ UNCHANGED <<starts, runtimeKind, tasks, csr, connected, kubeconfig, servingCert, servingKey, dummies>>

\* write_kubeconfig, likewise; a failure is left to the next start.
WriteKubeconfig ==
  /\ step = "kubeconfig"
  /\ GoTo("client")
  /\ kubeconfig' \in {kubeconfig, starts}
  /\ UNCHANGED <<starts, runtimeKind, tasks, csr, connected, clientPem, servingCert, servingKey, dummies>>

\* try_connect: without a usable kubeconfig the process is standalone for good.
MakeClient ==
  /\ step = "client"
  /\ GoTo("run")
  /\ connected' \in {FALSE, kubeconfig # None}
  /\ UNCHANGED <<starts, runtimeKind, tasks, csr, durable>>

----------------------------------------------------------------------------
\* Kubelet::run

\* The configuration is refused, or the directories are made.
CheckConfig ==
  /\ step = "run"
  /\ \/ GoTo("exit")
     \/ GoTo("network")
  /\ UNCHANGED <<starts, runtimeKind, tasks, csr, connected, durable>>

\* initialize_network: a sandbox of its own makes the runtime set up CNI.  It
\* is stopped, and not removed; failures are passed over.
InitializeNetwork ==
  /\ step = "network"
  /\ GoTo("cert")
  /\ dummies' \in {dummies, dummies + 1}
  /\ UNCHANGED <<starts, runtimeKind, tasks, csr, connected, kubeconfig, clientPem, servingCert, servingKey>>

\* ensure_dev_tls_config: a pair that is not complete is made anew.
MustGenerate == ~(servingCert # None /\ servingKey # None)

\* fs::write creates the file and then writes it.
WriteServingCert ==
  /\ step = "cert"
  /\ IF MustGenerate
     THEN IF servingCert = Torn THEN servingCert' = starts /\ GoTo("key") ELSE servingCert' = Torn /\ UNCHANGED <<step, polls>>
     ELSE UNCHANGED servingCert /\ GoTo("spawn")
  /\ UNCHANGED <<starts, runtimeKind, tasks, csr, connected, kubeconfig, clientPem, servingKey, dummies>>

WriteServingKey ==
  /\ step = "key"
  /\ IF servingKey = Torn THEN servingKey' = starts /\ GoTo("spawn") ELSE servingKey' = Torn /\ UNCHANGED <<step, polls>>
  /\ UNCHANGED <<starts, runtimeKind, tasks, csr, connected, kubeconfig, clientPem, servingCert, dummies>>

\* The checkpoint directory may be refused; else every task is spawned.
SpawnTasks ==
  /\ step = "spawn"
  /\ \/ GoTo("exit") /\ UNCHANGED tasks
     \/ GoTo("tasks") /\ tasks' = [t \in TaskNames |-> "on"]
  /\ UNCHANGED <<starts, runtimeKind, csr, connected, durable>>

\* A task returns or panics; the server does so at once with a pair it cannot
\* use.  The loops of the runtime manager's other tasks do not return.
TaskEnds(t) ==
  /\ step = "tasks" /\ tasks[t] = "on"
  /\ Cardinality({u \in TaskNames : tasks[u] = "ended"}) < MaxEnded
  /\ tasks' = [tasks EXCEPT ![t] = "ended"]
  /\ UNCHANGED <<step, starts, polls, runtimeKind, csr, connected, durable>>

\* Mutant of Noticed: the runtime loop is not among the branches.
NoticedSome == {"server", "healthz", "source", "dispatch"}

\* The branches of the select! at the end of run.
Noticed == Supervised

\* A signal, or one of these tasks has ended: run returns.
Leave ==
  /\ step = "tasks"
  /\ GoTo("exit")
  /\ UNCHANGED <<starts, runtimeKind, tasks, csr, connected, durable>>

LeaveNoticed == (\E t \in Noticed : tasks[t] = "ended") /\ Leave

\* main returns: the tokio runtime and every task in it are dropped.
Exit ==
  /\ step = "exit"
  /\ GoTo("down")
  /\ tasks' = Off
  /\ runtimeKind' = "none"
  /\ connected' = FALSE
  /\ UNCHANGED <<starts, csr, durable>>

Crash ==
  /\ step # "down"
  /\ GoTo("down")
  /\ tasks' = Off
  /\ runtimeKind' = "none"
  /\ connected' = FALSE
  /\ UNCHANGED <<starts, csr, durable>>

KubeletSteps ==
  \/ AwaitSocket \/ Connect \/ SubmitCsr \/ PollCsr \/ WriteClientPem \/ WriteKubeconfig \/ MakeClient
  \/ CheckConfig \/ InitializeNetwork \/ WriteServingCert \/ WriteServingKey \/ SpawnTasks \/ LeaveNoticed \/ Exit

KubeletNext ==
  \/ Start \/ KubeletSteps \/ Leave \/ CsrDecided \/ Crash
  \/ \E t \in TaskNames : TaskEnds(t)

----------------------------------------------------------------------------
\* What is on disk fits together whenever the process starts: a kubeconfig
\* names a client certificate that is there and belongs to it, and a serving
\* certificate with a complete key is the one made with that key, wherever an
\* earlier process was interrupted.
CredentialsMatch ==
  /\ kubeconfig # None => clientPem = kubeconfig
  /\ servingCert > None /\ servingKey > None => servingCert = servingKey

\* A node whose runtime loop has ended does not go on renewing its lease: the
\* process that cannot sync pods any more leaves and takes the lease task along.
LeaseEndsWithLoop == tasks["runtime"] = "ended" ~> tasks["lease"] = "off"

\* The two together: what a life of the process leaves behind is fit for the
\* next one, on disk and in the API server.
ProcessSound == []CredentialsMatch /\ LeaseEndsWithLoop
=============================================================================
