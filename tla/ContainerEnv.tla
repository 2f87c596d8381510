----------------------------- MODULE ContainerEnv -----------------------------
(***************************************************************************)
(* The environment of one container: what resolve_container_env fetches,   *)
(* one call after the other while objects change and calls fail, how       *)
(* assemble_container_env lays it out, and the expansion of the arguments. *)
(* Names and values are sequences of characters.                           *)
(***************************************************************************)
EXTENDS Naturals, Sequences, SequencesExt

CONSTANTS
  EnvSpecs,     \* the containers: [envFrom, env, hostNetwork, links]
  EnvObjects,   \* the ConfigMaps and Secrets
  IsSecret,     \* for each of them
  EnvContents,  \* what an object may hold: [names -> values]
  Absent,       \* there is no such object
  Kubernetes,   \* the service "kubernetes": [name, ip, ports], a port being [port, proto, name]
  Services,     \* the sequence of services in the pod's namespace
  Upper,        \* what to_service_env_name makes of each character
  Fields,       \* what a fieldRef or resourceFieldRef gives: [fields -> values]
  HOSTNAME, Hostname, NodeIp,
  Chars,        \* the characters of texts
  Inputs        \* arguments to expand

\* A name has any characters but a closing bracket.
Letter == Chars \ {")"}
EnvNames == Seq(Letter)

\* References are [object, optional, prefix] in envFrom; in env a variable has
\* a raw value, names an object and a key, or names a field.
FromRef == [object : EnvObjects, optional : BOOLEAN, prefix : EnvNames]
EnvVar == [name : EnvNames, from : {"value", "podIP", "cpu", "field", "key"}, raw : Seq(Chars),
           object : EnvObjects, key : EnvNames, optional : BOOLEAN, field : STRING]
Service == [name : Seq(DOMAIN Upper), ip : Seq(Chars),
            ports : Seq([port : Letter, proto : DOMAIN Upper, name : Seq(DOMAIN Upper)])]

ASSUME EnvAssumption ==
  /\ {"$", "(", ")", "?", ":", "://", "_", "_SERVICE_HOST", "_SERVICE_PORT", "_SERVICE_PORT_",
      "_PORT", "_PORT_", "_PROTO", "_ADDR", "9"} \subseteq Chars
  /\ \A s \in EnvSpecs : /\ s.envFrom \in Seq(FromRef)
                         /\ s.env \in Seq(EnvVar)
                         /\ \A i \in DOMAIN s.env : s.env[i].from = "cpu" => Fields[s.env[i].field] \in Nat
                         /\ \A i \in DOMAIN s.env : s.env[i].from = "field" /\ s.env[i].field \in DOMAIN Fields
                                                       => Fields[s.env[i].field] \in Seq(Chars)
  /\ Absent \notin EnvContents
  /\ \A c \in EnvContents : DOMAIN c \subseteq EnvNames /\ \A k \in DOMAIN c : c[k] \in Seq(Chars)
  /\ DOMAIN Upper \subseteq Chars /\ \A x \in DOMAIN Upper : Upper[x] \in Letter
  /\ Kubernetes \in Service /\ Services \in Seq(Service)
  /\ HOSTNAME \in EnvNames /\ Hostname \in Seq(Chars) /\ NodeIp \in Seq(Chars)
  /\ Inputs \subseteq Seq(Chars)

VARIABLES
  envPc,      \* "start", "load", "services", "assemble", "created" or "failed"
  spec,       \* the container
  store,      \* the API server: what each object holds
  loaded,     \* configmaps and secrets, as far as they were fetched
  loads,      \* the references left to load, in order
  services,   \* service_envs
  podIp,      \* the address of the sandbox, <<>> if it has none
  envOut,     \* what the container is created with
  arg, argOut \* one of its arguments, raw and expanded

envVars == <<envPc, spec, store, loaded, loads, services, podIp, envOut, arg, argOut>>

EnvTypeOK ==
  /\ envPc \in {"start", "load", "services", "assemble", "created", "failed"}
  /\ spec \in EnvSpecs
  /\ store \in [EnvObjects -> EnvContents \cup {Absent}]
  /\ loaded \in [EnvObjects -> EnvContents \cup {Absent}]
  /\ Len(loads) <= Len(spec.envFrom) + Len(spec.env)

EnvInit ==
  /\ envPc = "start"
  /\ spec \in EnvSpecs
  /\ store \in [EnvObjects -> EnvContents \cup {Absent}]
  /\ loaded = [o \in EnvObjects |-> Absent]
  /\ loads = <<>>
  /\ services = <<>>
  /\ podIp \in {<<>>, <<"9">>}
  /\ envOut = <<>>
  /\ arg = <<>> /\ argOut = <<>>

----------------------------------------------------------------------------
\* Variables f, and those of g over them; one variable.
Over(f, g) == [n \in DOMAIN f \cup DOMAIN g |-> IF n \in DOMAIN g THEN g[n] ELSE f[n]]
One(n, v)  == [m \in {n} |-> v]

\* base with each of the sequence s over what comes before it.
OverAll(base, s) ==
  LET upTo[i \in 0 .. Len(s)] == IF i = 0 THEN base ELSE Over(upTo[i - 1], s[i])
  IN  upTo[Len(s)]

Refs == [i \in 1 .. Len(spec.envFrom) |-> [object |-> spec.envFrom[i].object, optional |-> spec.envFrom[i].optional]]
        \o LET keyRefs == SelectSeq(spec.env, LAMBDA v : v.from = "key")
           IN  [i \in 1 .. Len(keyRefs) |-> [object |-> keyRefs[i].object, optional |-> keyRefs[i].optional]]

\* load_container_configmaps, then load_container_secrets
LoadOrder == SelectSeq(Refs, LAMBDA r : ~IsSecret[r.object]) \o SelectSeq(Refs, LAMBDA r : IsSecret[r.object])

\* Without a client a container that refers to objects is not created.
Begin ==
  /\ envPc = "start"
  /\ loads' = LoadOrder
  /\ \/ envPc' = "load"
     \/ envPc' = IF LoadOrder = <<>> THEN "assemble" ELSE "failed"   \* no client
  /\ UNCHANGED <<spec, store, loaded, services, podIp, envOut, arg, argOut>>

\* load_single_configmap and load_single_secret: an object that was fetched is
\* not fetched again; an error and a missing object are the same.
LoadSingle(r) ==
  \/ loaded[r.object] # Absent /\ loads' = Tail(loads) /\ UNCHANGED <<loaded, envPc>>
  \/ /\ loaded[r.object] = Absent /\ store[r.object] # Absent
     /\ loaded' = [loaded EXCEPT ![r.object] = store[r.object]]
     /\ loads' = Tail(loads) /\ UNCHANGED envPc
  \/ loaded[r.object] = Absent /\ r.optional /\ loads' = Tail(loads) /\ UNCHANGED <<loaded, envPc>>
  \/ loaded[r.object] = Absent /\ ~r.optional /\ envPc' = "failed" /\ UNCHANGED <<loaded, loads>>

Load ==
  /\ envPc = "load" /\ loads # <<>>
  /\ LoadSingle(Head(loads))
  /\ UNCHANGED <<spec, store, services, podIp, envOut, arg, argOut>>

Loaded ==
  /\ envPc = "load" /\ loads = <<>>
  /\ envPc' = "services"
  /\ UNCHANGED <<spec, store, loaded, loads, services, podIp, envOut, arg, argOut>>

ToServiceEnvName(name) == [i \in DOMAIN name |-> Upper[name[i]]]

\* service_env_vars_from_service: nothing for a headless service; the first of
\* the ports is the service's, and a later variable replaces one of its name.
ServicePrefix(svc) == ToServiceEnvName(svc.name)
PortUrl(svc, x) == <<x.proto, "://">> \o svc.ip \o <<":", x.port>>

MainPort(svc, x) == <<One(ServicePrefix(svc) \o <<"_SERVICE_PORT">>, <<x.port>>), One(ServicePrefix(svc) \o <<"_PORT">>, PortUrl(svc, x))>>

PortEnv(svc, x) ==
  LET p == ServicePrefix(svc) \o <<"_PORT_", x.port, "_", Upper[x.proto]>>
  IN  OverAll(One(p, PortUrl(svc, x)),
              <<One(p \o <<"_PROTO">>, <<x.proto>>), One(p \o <<"_PORT">>, <<x.port>>), One(p \o <<"_ADDR">>, svc.ip),
                IF x.name = <<>> THEN <<>>
                ELSE One(ServicePrefix(svc) \o <<"_SERVICE_PORT_">> \o ToServiceEnvName(x.name), <<x.port>>)>>)

ServiceEnvVars(svc) ==
  IF svc.ip \in {<<>>, <<"None">>} THEN <<>>
  ELSE OverAll(One(ServicePrefix(svc) \o <<"_SERVICE_HOST">>, svc.ip),
               (IF svc.ports = <<>> THEN <<>> ELSE MainPort(svc, svc.ports[1]))
                 \o [i \in DOMAIN svc.ports |-> PortEnv(svc, svc.ports[i])])

\* The services of the namespace: what is there is kept.
NamespaceEnv == OverAll(<<>>, [i \in DOMAIN Services |-> ServiceEnvVars(Services[Len(Services) + 1 - i])])

\* load_service_env_vars: the master service always, the namespace's when links
\* are enabled, and neither if it cannot be had.  What is there is kept.
LoadServices ==
  /\ envPc = "services"
  /\ \E master \in {ServiceEnvVars(Kubernetes), <<>>}, own \in {NamespaceEnv, <<>>} :
       services' = Over(IF spec.links THEN own ELSE <<>>, master)
  /\ envPc' = "assemble"
  /\ UNCHANGED <<spec, store, loaded, loads, podIp, envOut, arg, argOut>>

----------------------------------------------------------------------------
\* Mutant of TryReadVariableName: "$$" is not an escape.
TryReadVariableNamePlain(s, i) ==
  LET close == {j \in i + 1 .. Len(s) : s[j] = ")"}
  IN  IF s[i] = "(" /\ close # {}
      THEN LET j == CHOOSE j \in close : \A k \in close : j <= k
           IN  [read |-> SubSeq(s, i + 1, j - 1), isVar |-> TRUE, next |-> j + 1]
      ELSE [read |-> <<"$", s[i]>>, isVar |-> FALSE, next |-> i + 1]

\* try_read_variable_name at position i, behind a "$": what is read, and the
\* position that follows it.  An opening bracket that is not closed comes back
\* with a "$" of its own.
TryReadVariableName(s, i) ==
  LET close == {j \in i + 1 .. Len(s) : s[j] = ")"}
      plain(r) == [read |-> r, isVar |-> FALSE, next |-> i + 1]
  IN  CASE s[i] = "$" -> plain(<<"$">>)
        [] s[i] = "(" /\ close # {} ->
             LET j == CHOOSE j \in close : \A k \in close : j <= k
             IN  [read |-> SubSeq(s, i + 1, j - 1), isVar |-> TRUE, next |-> j + 1]
        [] s[i] = "(" /\ close = {} -> plain(<<"$", "$", "(">>)
        [] OTHER -> plain(<<"$", s[i]>>)

VarRef(n) == <<"$", "(">> \o n \o <<")">>

\* What comes out for the position i, and the next position: for "$(NAME)" the
\* value of NAME, if it is set.
Piece(s, i, env) ==
  IF s[i] # "$" \/ i = Len(s) THEN [text |-> <<s[i]>>, next |-> i + 1]
  ELSE LET r == TryReadVariableName(s, i + 1)
       IN  [text |-> CASE ~r.isVar -> r.read
                       [] r.isVar /\ r.read \in DOMAIN env -> env[r.read]
                       [] OTHER -> VarRef(r.read),
            next |-> r.next]

\* expand_env_value.  A value that is put in is not expanded again.
Expand(s, env) ==
  LET expanded[i \in 1 .. Len(s) + 1] ==
        LET piece == Piece(s, i, env)
        IN  IF i > Len(s) THEN <<>> ELSE piece.text \o expanded[piece.next]
  IN  expanded[1]

\* apply_resource_divisor of millicores, the divisor being "1"
Cores(m) == (m + 999) \div 1000

\* resolve_field_ref: a label or an annotation that is not there is empty.
ResolveFieldRef(field) == IF field \in DOMAIN Fields THEN Fields[field] ELSE <<>>

\* resolve_env_var_source; the address is the node's for a pod on its network.
PodIpValue == IF podIp # <<>> THEN podIp ELSE IF spec.hostNetwork THEN NodeIp ELSE <<>>
Missing(v) == v.from = "key" /\ (loaded[v.object] = Absent \/ v.key \notin DOMAIN loaded[v.object])

EnvValue(v, env) ==
  CASE v.from = "value" -> Expand(v.raw, env)
    [] v.from = "podIP" -> PodIpValue
    [] v.from = "cpu"   -> <<Cores(Fields[v.field])>>
    [] v.from = "field" -> ResolveFieldRef(v.field)
    [] v.from = "key"   -> IF Missing(v) THEN <<>> ELSE loaded[v.object][v.key]

\* One entry of envFrom: its keys with the prefix in front.
FromObject(f) ==
  IF loaded[f.object] = Absent THEN <<>>
  ELSE LET names == {f.prefix \o k : k \in DOMAIN loaded[f.object]}
       IN  [n \in names |-> loaded[f.object][SubSeq(n, Len(f.prefix) + 1, Len(n))]]

\* assemble_container_env: services, envFrom in its order, env in its order;
\* HOSTNAME only if none of them sets it.
EnvFrom == OverAll(services, [i \in DOMAIN spec.envFrom |-> FromObject(spec.envFrom[i])])

AssembleContainerEnv ==
  LET own[i \in 0 .. Len(spec.env)] ==
        IF i = 0 THEN EnvFrom
        ELSE Over(own[i - 1], One(spec.env[i].name, EnvValue(spec.env[i], own[i - 1])))
  IN  Over(One(HOSTNAME, Hostname), own[Len(spec.env)])

\* The container is created, its arguments expanded, or an error is returned for
\* a required key or object.
Assemble ==
  /\ envPc = "assemble"
  /\ LET lacks == \/ \E i \in DOMAIN spec.envFrom : loaded[spec.envFrom[i].object] = Absent /\ ~spec.envFrom[i].optional
                  \/ \E i \in DOMAIN spec.env : Missing(spec.env[i]) /\ ~spec.env[i].optional
     IN  IF lacks THEN envPc' = "failed" /\ UNCHANGED <<envOut, arg, argOut>>
         ELSE /\ envPc' = "created"
              /\ envOut' = AssembleContainerEnv
              /\ arg' \in Inputs /\ argOut' = Expand(arg', AssembleContainerEnv)
  /\ UNCHANGED <<spec, store, loaded, loads, services, podIp>>

\* The next sync tries again.
TryAgain ==
  /\ envPc = "failed"
  /\ envPc' = "start"
  /\ loaded' = [o \in EnvObjects |-> Absent]
  /\ loads' = <<>> /\ services' = <<>>
  /\ UNCHANGED <<spec, store, podIp, envOut, arg, argOut>>

StoreChanges ==
  /\ envPc \in {"start", "load", "services"}
  /\ \E o \in EnvObjects, c \in EnvContents \cup {Absent} : store' = [store EXCEPT ![o] = c]
  /\ UNCHANGED <<envPc, spec, loaded, loads, services, podIp, envOut, arg, argOut>>

EnvNext == Begin \/ Load \/ Loaded \/ LoadServices \/ Assemble \/ TryAgain \/ StoreChanges

----------------------------------------------------------------------------
\* What a container is created with: each variable has the value of the last
\* of its definitions (services, envFrom, env), and every required reference
\* was resolved, however the objects came and went while they were fetched.
OwnAt(n)  == {i \in DOMAIN spec.env : spec.env[i].name = n}
FromAt(n) == {i \in DOMAIN spec.envFrom : n \in DOMAIN FromObject(spec.envFrom[i])}
LastOf(S) == CHOOSE i \in S : \A j \in S : j <= i

EnvIsAsSpecified ==
  envPc = "created" =>
    /\ \A n \in DOMAIN services \cup {spec.env[i].name : i \in DOMAIN spec.env} \cup {HOSTNAME} : n \in DOMAIN envOut
    /\ \A i \in DOMAIN spec.envFrom : ~spec.envFrom[i].optional => loaded[spec.envFrom[i].object] # Absent
    /\ \A i \in DOMAIN spec.env : spec.env[i].from = "key" /\ ~spec.env[i].optional => loaded[spec.env[i].object] # Absent
    /\ \A n \in DOMAIN envOut :
         LET v == spec.env[LastOf(OwnAt(n))]
         IN  CASE OwnAt(n) # {} -> v.from = "key" /\ ~Missing(v) => envOut[n] = loaded[v.object][v.key]
               [] OwnAt(n) = {} /\ FromAt(n) # {} -> envOut[n] = FromObject(spec.envFrom[LastOf(FromAt(n))])[n]
               [] OwnAt(n) = {} /\ FromAt(n) = {} /\ n \in DOMAIN services -> envOut[n] = services[n]
               [] OTHER -> n = HOSTNAME /\ envOut[n] = Hostname

Escape(s) == FlattenSeq([i \in 1 .. Len(s) |-> IF s[i] = "$" THEN <<"$", "$">> ELSE <<s[i]>>])

\* Any text can be passed to a container: doubled dollar signs come out as they
\* were meant, a reference behind it is replaced by its value or left alone,
\* and what a value contains is not expanded again.
ExpansionIsExact ==
  envPc = "created" =>
    /\ Expand(Escape(arg), envOut) = arg
    /\ \A n \in DOMAIN envOut : Expand(Escape(arg) \o VarRef(n), envOut) = arg \o envOut[n]
    /\ <<"?">> \notin DOMAIN envOut => Expand(Escape(arg) \o VarRef(<<"?">>), envOut) = arg \o VarRef(<<"?">>)

\* The two together: environment, command and arguments of a container are what
\* its spec says.
EnvSound == EnvIsAsSpecified /\ ExpansionIsExact
=============================================================================
