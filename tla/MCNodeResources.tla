--------------------------- MODULE MCNodeResources ---------------------------
(***************************************************************************)
(* Instance of NodeResources for TLC.                                      *)
(***************************************************************************)
EXTENDS NodeResources

k1 == <<"p", "c1">>
k2 == <<"p", "c2">>
k3 == <<"q", "c1">>
MCKeys == {k1, k2, k3}
MCDemand == k1 :> 1 @@ k2 :> 0 @@ k3 :> 1
MCCtrSpec ==
  k1 :> [guaranteed |-> TRUE, cpu |-> 2000, memory |-> 2] @@
  k2 :> [guaranteed |-> TRUE, cpu |-> 1500, memory |-> 1] @@
  k3 :> [guaranteed |-> TRUE, cpu |-> 1000, memory |-> 3]
Policy(c, m, t) == [cpu |-> c, memory |-> m, topology |-> t]
MCPolicies == {Policy("static", "Static", "single-numa-node"), Policy("static", "None", "none")}
MCNumaTotal == 0 :> 2 @@ 1 :> 4

Ctr(c, m, p) == [cpu |-> c, memory |-> m, ports |-> p]
Adm(cs, rc) == [containers |-> cs, runtimeClass |-> rc, selector |-> {}, tolerations |-> {}, claims |-> {}]
MCNodeTaints == {[key |-> "gpu", value |-> "yes", effect |-> "NoSchedule"], [key |-> "old", value |-> "yes", effect |-> "PreferNoSchedule"]}
Tolerant(a, k, v) == [a EXCEPT !.tolerations = {[key |-> k, operator |-> "Equal", value |-> v]}]
All(a) == [a EXCEPT !.tolerations = {[key |-> "any", operator |-> "Exists", value |-> ""]}]
MCAdmSpec ==
  [a |-> Tolerant(Adm(<<Ctr(2, 1, {80}), Ctr(-1, 1, {})>>, NoClass), "gpu", "yes"),
   b |-> All(Adm(<<Ctr(1, 1, {443, 80})>>, "kata")),
   c |-> All(Adm(<<Ctr(1, 2, {443})>>, "runc")),
   d |-> [All(Adm(<<Ctr(1, 1, {})>>, NoClass)) EXCEPT !.selector = {"ssd"}, !.claims = {[allocated |-> TRUE, prepared |-> TRUE]}],
   e |-> All(Adm(<<Ctr(1, 1, {}), Ctr(1, 0, {})>>, NoClass)),
   f |-> Tolerant(Adm(<<Ctr(0, 0, {})>>, NoClass), "gpu", "no"),
   g |-> All(Adm(<<Ctr(0, 1, {22})>>, "kata")),
   h |-> [All(Adm(<<Ctr(0, 0, {})>>, NoClass)) EXCEPT !.claims = {[allocated |-> TRUE, prepared |-> FALSE]}]]
MCOverhead == [kata |-> [cpu |-> 1, memory |-> 1]]
MCAllocatable == [cpu |-> 5, memory |-> 5, maxPods |-> 3]
=============================================================================
