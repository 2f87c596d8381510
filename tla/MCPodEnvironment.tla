--------------------------- MODULE MCPodEnvironment ---------------------------
(***************************************************************************)
(* Instance of PodEnvironment for TLC.                                     *)
(***************************************************************************)
EXTENDS PodEnvironment, TLC

\* A tmpfs, a claim with a local volume, and a projected volume of a ConfigMap
\* with every key, an optional Secret with one item, a token and a label.
MCKind == [mem |-> "tmpfs", claim |-> "pvc", proj |-> "projected", conf |-> "configMap", down |-> "downward"]
MCPvKind == [v \in {"claim"} |-> "local"]
Src(t, o, opt, items, path) == [type |-> t, object |-> o, optional |-> opt, items |-> items, path |-> path]
MCSources ==
  [mem |-> <<>>, claim |-> <<>>,
   proj |-> <<Src("configMap", "cm", FALSE, <<>>, "-"), Src("secret", "sec", TRUE, "f" :> "a", "-"), Src("token", "-", TRUE, <<>>, "tok")>>,
   conf |-> <<Src("configMap", "sec", TRUE, <<>>, "-")>>,
   down |-> <<Src("downward", "-", TRUE, <<>>, "f")>>]
MCPods == {{"claim", "down"}, {"proj"}, {"conf"}}
MCContents == {[a |-> 1, b |-> 0], [a |-> 1, b |-> 1]}

\* Credentials for Docker Hub under its other name, a key for gcr.io behind an
\* entry that does not parse, and for quay.io old ones before good ones.
Auth(host, user, parses, valid) == [host |-> host, user |-> user, parses |-> parses, valid |-> valid]
MCAuths ==
  [hub |-> <<Auth("index.docker.io", "u", TRUE, TRUE), Auth("quay.io", "u", TRUE, FALSE)>>,
   gcp |-> <<Auth("docker.io", "u", FALSE, TRUE), Auth("gcr.io", "_json_key_base64", TRUE, TRUE), Auth("quay.io", "u", TRUE, TRUE)>>]

MCPodSecrets == <<"hub">>
MCSaSecrets == <<"gcp">>

A == <<"A">>
B == <<"B">>
AB == <<"A", "B">>
HN == <<"H">>
From(o, opt, prefix) == [object |-> o, optional |-> opt, prefix |-> prefix]
Var(n, from) == [name |-> n, from |-> from, raw |-> <<>>, object |-> "cm", key |-> A, optional |-> FALSE, field |-> "cpu"]
MCEnvSpecs ==
  { [envFrom |-> <<From("cm", TRUE, <<>>), From("sec", FALSE, A)>>,
     env |-> <<Var(B, "podIP"), [Var(A, "value") EXCEPT !.raw = <<"$", "(", "A", "B", ")">>]>>,
     hostNetwork |-> TRUE, links |-> TRUE],
    [envFrom |-> <<From("sec", TRUE, <<>>)>>,
     env |-> <<[Var(AB, "key") EXCEPT !.object = "sec", !.key = B, !.optional = TRUE], Var(B, "key"), Var(HN, "cpu"), [Var(A, "field") EXCEPT !.field = "label"]>>,
     hostNetwork |-> FALSE, links |-> FALSE] }
AHost == <<"A", "_SERVICE_HOST">>
MCEnvContents == {A :> <<"1">>, (A :> <<"$", "(", "B", ")">>) @@ (B :> <<"$">>) @@ (AHost :> <<"4">>)}
MCKubernetes == [name |-> <<"k">>, ip |-> <<"1">>, ports |-> <<[port |-> "443", proto |-> "tcp", name |-> <<"-">>]>>]
MCServices ==
  <<[MCKubernetes EXCEPT !.ip = <<"2">>, !.ports = <<>>], [name |-> <<"h">>, ip |-> <<"None">>, ports |-> <<>>],
    [name |-> <<"a">>, ip |-> <<"3">>, ports |-> <<>>]>>
MCUpper == "a" :> "A" @@ "k" :> "K" @@ "h" :> "H" @@ "-" :> "_" @@ "tcp" :> "TCP"
MCFields == [cpu |-> 1500, name |-> <<"p">>]
MCIsSecret == [cm |-> FALSE, sec |-> TRUE]
MCInputs == [1 .. 2 -> {"$", "(", "A", ")"}] \cup [1 .. 3 -> {"$", "("}]
MCChars == {"$", "(", ")", "?", ":", "://", "_", "_SERVICE_HOST", "_SERVICE_PORT", "_SERVICE_PORT_", "_PORT", "_PORT_",
            "_PROTO", "_ADDR", "-", "0", "1", "2", "3", "4", "9", "443", "A", "B", "H", "K", "TCP", "a", "h", "k", "p", "tcp", "None"}
MCHOSTNAME == HN
MCHostname == <<"h">>
MCNodeIp == <<"0">>
=============================================================================
