------------------------------ MODULE ImagePull ------------------------------
(***************************************************************************)
(* ensure_image of the pod worker for one image: the pull secrets of the   *)
(* pod and of its service account, the exchange of GCP keys, the check     *)
(* whether the image is there, and the pull, with the retries of each.     *)
(* The registry and the runtime are external.                              *)
(***************************************************************************)
EXTENDS Naturals, Sequences, SequencesExt

CONSTANTS
  PodSecrets,    \* imagePullSecrets of the pod, in order
  SaSecrets,     \* those of its service account
  Auths,         \* for each secret the sequence of its entries: [host, user, parses, valid]
  Registries,    \* registries that want credentials
  MaxFaults      \* bound: calls that fail

ASSUME PullAssumption ==
          /\ PodSecrets \in Seq(DOMAIN Auths)
          /\ SaSecrets \in Seq(DOMAIN Auths)
          /\ \A n \in DOMAIN Auths :
               Auths[n] \in Seq([host : STRING, user : STRING, parses : BOOLEAN, valid : BOOLEAN])

RETRY_ATTEMPTS == 3

VARIABLES
  registry,   \* the registry host in the image's name, "docker.io" if it has none
  pullPc,     \* "idle", "status", "pull" or "present"
  attempt,    \* the attempt of the loop, from 1
  pullSecrets, \* the sequence of credentials for PullImage
  imageThere, \* the image is on the node
  faults      \* calls that failed so far

pullVars == <<registry, pullPc, attempt, pullSecrets, imageThere, faults>>

PullTypeOK ==
  /\ pullPc \in {"idle", "status", "pull", "present"}
  /\ attempt \in 1 .. RETRY_ATTEMPTS
  /\ registry \in Registries
  /\ \A s \in ToSet(pullSecrets) : s.host \in {a.host : a \in UNION {ToSet(Auths[n]) : n \in DOMAIN Auths}}
  /\ imageThere \in BOOLEAN
  /\ faults \in 0 .. MaxFaults

PullInit ==
  /\ registry \in Registries
  /\ pullPc = "idle"
  /\ attempt = 1
  /\ pullSecrets = <<>>
  /\ imageThere \in BOOLEAN
  /\ faults = 0

----------------------------------------------------------------------------
\* Mutant of HostMatchesRegistry: Docker Hub has one name only.
HostMatchesExactly(host) == host = registry

\* Mutant of HostMatchesRegistry: every entry matches.
HostMatchesAll(host) == host = host

DockerHub == {"docker.io", "index.docker.io"}

\* host_matches_registry, on normalized hosts
HostMatchesRegistry(host) == host = registry \/ {host, registry} \subseteq DockerHub

\* The members of s that are in S, in their order.
Among(s, S) ==
  LET upTo[n \in 0 .. Len(s)] ==
        IF n = 0 THEN <<>>
        ELSE IF s[n] \in S THEN Append(upTo[n - 1], s[n]) ELSE upTo[n - 1]
  IN  upTo[Len(s)]

\* docker_auths_from_secret: an entry that cannot be parsed is passed over.
DockerAuths(n) == Among(Auths[n], {a \in ToSet(Auths[n]) : a.parses})

\* The secrets looked up: those of the service account come behind the pod's,
\* if it can be fetched, and each name counts once.
SecretNames(saFetched) ==
  PodSecrets \o (IF saFetched THEN Among(SaSecrets, ToSet(SaSecrets) \ ToSet(PodSecrets)) ELSE <<>>)

\* resolve_image_pull_secrets, when the secrets in F cannot be fetched
ResolveImagePullSecrets(saFetched, F) ==
  LET names == Among(SecretNames(saFetched), DOMAIN Auths \ F)
      entries == FlattenSeq([i \in DOMAIN names |-> DockerAuths(names[i])])
  IN  Among(entries, {a \in ToSet(entries) : HostMatchesRegistry(a.host)})

\* gcp_sa_json_to_oauth2_token: the request is sent up to three times, while
\* there is no answer at all; a key that is no good is refused.
GcpToken(a, answers) ==
  a.valid /\ \E i \in DOMAIN answers : answers[i] = "token" /\ \A j \in 1 .. i - 1 : answers[j] = "none"

\* exchange_gcp_credentials: a key becomes a token, or stays as it is when the
\* exchange fails.
ExchangeGcpCredentials(s, answers) ==
  [i \in DOMAIN s |-> IF s[i].user = "_json_key_base64" /\ GcpToken(s[i], answers) THEN [s[i] EXCEPT !.user = "oauth2accesstoken"] ELSE s[i]]

\* Credentials are resolved anew in every sync.  No client, a service account
\* or a secret that cannot be had only means fewer of them.
Resolve ==
  /\ pullPc = "idle"
  /\ \E client, saFetched \in BOOLEAN, answers \in [1 .. 3 -> {"none", "refused", "token"}], F \in SUBSET ToSet(SecretNames(TRUE)) :
       LET failed == ~client \/ ~saFetched \/ F # {} \/ ~GcpToken([valid |-> TRUE], answers)
       IN  /\ failed => faults < MaxFaults
           /\ faults' = IF failed THEN faults + 1 ELSE faults
           /\ pullSecrets' = IF client THEN ExchangeGcpCredentials(ResolveImagePullSecrets(saFetched, F), answers) ELSE <<>>
  /\ pullPc' = "status"
  /\ attempt' = 1
  /\ UNCHANGED <<registry, imageThere>>

\* A call of the runtime fails: is_transient_runtime_connection_error is tried
\* again in this loop, up to the third attempt; anything else ends the sync.
CallFails(pc) ==
  /\ pullPc = pc /\ faults < MaxFaults
  /\ faults' = faults + 1
  /\ \/ attempt < RETRY_ATTEMPTS /\ attempt' = attempt + 1 /\ UNCHANGED pullPc
     \/ attempt' = 1 /\ pullPc' = "idle"
  /\ UNCHANGED <<registry, pullSecrets, imageThere>>

ImageStatus ==
  /\ pullPc = "status"
  /\ pullPc' = IF imageThere THEN "present" ELSE "pull"
  /\ attempt' = 1
  /\ UNCHANGED <<registry, pullSecrets, imageThere, faults>>

\* pull_image of the CRI client sends the first of the credentials, without the
\* host they are for, or none.
FirstOf(s) == IF s = <<>> THEN {} ELSE {Head(s)}
Sent == FirstOf(pullSecrets)

\* The registry takes good credentials of its own but no raw GCP key.
Own(s) == s.host = registry \/ {s.host, registry} \subseteq DockerHub
Accepted == \E s \in Sent : s.valid /\ s.user # "_json_key_base64" /\ Own(s)

PullImage ==
  /\ pullPc = "pull"
  /\ attempt' = 1
  /\ IF Accepted THEN imageThere' = TRUE /\ pullPc' = "present" ELSE imageThere' = imageThere /\ pullPc' = "idle"
  /\ UNCHANGED <<registry, pullSecrets, faults>>

\* The next sync looks again; the image may have been removed by then.
NextPull ==
  /\ pullPc = "present"
  /\ pullPc' = "idle"
  /\ imageThere' \in BOOLEAN /\ (imageThere' => imageThere)
  /\ UNCHANGED <<registry, attempt, pullSecrets, faults>>

PullSteps == Resolve \/ ImageStatus \/ PullImage

PullNext == PullSteps \/ CallFails("status") \/ CallFails("pull") \/ NextPull

----------------------------------------------------------------------------
\* Credentials are sent to no registry but the one they are for.
SecretsStayHome == \A s \in ToSet(pullSecrets) : Own(s)

\* The image can be had: the first credentials of its registry are good.
FirstIsGood ==
  LET names == SecretNames(TRUE)
      entries == FlattenSeq([i \in DOMAIN names |-> DockerAuths(names[i])])
  IN  \E s \in FirstOf(Among(entries, {a \in ToSet(entries) : Own(a)})) : s.valid
=============================================================================
