--------------------------- MODULE Streaming_proofs ---------------------------
(***************************************************************************)
(* What holds of the streaming server for every number of requests, frames,*)
(* chunks and log lines, every limit and every window: the rate limiter    *)
(* bounds what it lets through, a session's client is told the outcome,    *)
(* ports and client are relayed in order, a log request is answered with   *)
(* the lines of the run it asks for, and what is written to the streams of *)
(* a session is read back.                                                 *)
(***************************************************************************)
EXTENDS Streaming, FiniteSetTheorems, SequenceTheorems, WellFoundedInduction, TLAPS

(***************************************************************************)
(* The rate limiter.                                                       *)
(***************************************************************************)
\* Every set of numbers has a least element.
LEMMA LeastNumber ==
  ASSUME NEW S \in SUBSET Nat, S # {}
  PROVE  \E n \in S : \A m \in S : n =< m
  <1>1. PICK n \in S : \A m \in S : ~ (<<m, n>> \in OpToRel(<, Nat))
    BY NatLessThanWellFounded, WFMin
  <1>2. \A m \in S : ~ (m < n)
    BY <1>1 DEF OpToRel
  <1> QED
    BY <1>2

\* What is popped is older than the window.
LEMMA RecentIsSuffix ==
  ASSUME NEW q \in Seq(Nat), now \in Nat
  PROVE  \E n \in 0 .. Len(q) :
           /\ \A i \in 1 .. n : now - q[i] > Window
           /\ Recent(q) = SubSeq(q, n + 1, Len(q))
  <1> DEFINE Stops(k) == (\A i \in 1 .. k : now - q[i] > Window) /\ (k < Len(q) => now - q[k + 1] <= Window)
             young == {i \in 1 .. Len(q) : now - q[i] <= Window}
  <1>0. Len(q) \in Nat /\ Window \in Nat /\ \A i \in 1 .. Len(q) : q[i] \in Nat
    BY GateAssumption
  <1>1. \E k \in 0 .. Len(q) : Stops(k)
    <2>1. CASE young = {}
      <3>1. \A i \in 1 .. Len(q) : now - q[i] > Window
        BY <2>1, <1>0
      <3> QED
        BY <3>1, <1>0
    <2>2. CASE young # {}
      <3>1. PICK m \in young : \A i \in young : m =< i
        <4>1. young \in SUBSET Nat
          BY <1>0
        <4> HIDE DEF young
        <4> QED
          BY <2>2, <4>1, LeastNumber
      <3>2. m \in 1 .. Len(q) /\ now - q[m] <= Window
        OBVIOUS
      <3>3. \A i \in 1 .. m - 1 : now - q[i] > Window
        BY <3>1, <3>2, <1>0
      <3>4. m - 1 \in 0 .. Len(q) /\ (m - 1) + 1 = m
        BY <3>2, <1>0
      <3>5. Stops(m - 1)
        BY <3>2, <3>3, <3>4
      <3> QED
        BY <3>4, <3>5
    <2> QED
      BY <2>1, <2>2
  <1> DEFINE n == CHOOSE k \in 0 .. Len(q) : Stops(k)
  <1>2. n \in 0 .. Len(q) /\ Stops(n)
    BY <1>1
  <1>3. Recent(q) = SubSeq(q, n + 1, Len(q))
    BY DEF Recent, PopOlder
  <1> HIDE DEF n
  <1> QED
    BY <1>2, <1>3

Pcs == {"new", "client", "review", "access", "granted", "refused"}

\* The requests of user u that the limiter has let through less than a window
\* ago, and all those of a span of one window.
Counted(u) == {r \in Requests : req[r].user = u /\ passed[r] # -1 /\ now - passed[r] <= Window}
InSpan(u, t) == {r \in Requests : passed[r] \in t .. t + Window /\ req[r].user = u}

\* Each of those counts in the queue, at a place of its own.
Placed(C, q, p) == \E f \in Injection(C, DOMAIN q) : \A x \in C : q[f[x]] = p[x]
Recorded(u) == Placed(Counted(u), entries[u], passed)

GateTypes ==
  /\ now \in Nat
  /\ req \in [Requests -> [pc : Pcs, cred : {"cert", "token", "none"}, user : Users]]
  /\ entries \in [Users -> Seq(Nat)]
  /\ passed \in [Requests -> Nat \cup {-1}]

\* The inductive invariant: the queue has every request of the last window,
\* and never more than its number.
GateInv ==
  /\ GateTypes
  /\ \A r \in Requests : passed[r] # -1 => req[r].pc \in {"access", "granted", "refused"} /\ passed[r] <= now
  /\ \A u \in Users : Len(entries[u]) <= MaxEvents
  /\ \A u \in Users : Recorded(u)
  /\ \A u \in Users, t \in Nat : Cardinality(InSpan(u, t)) <= MaxEvents

\* It says all that a run shows of the limiter.
LEMMA GateInvBounds ==
  ASSUME GateInv
  PROVE  RateBounded
  BY GateAssumption DEF GateInv, RateBounded, InSpan

\* An injection into an interval bounds a set.
LEMMA FewOf ==
  ASSUME NEW S, NEW n \in Nat, NEW T \in SUBSET S, NEW f \in Injection(S, 1 .. n)
  PROVE  Cardinality(T) \in Nat /\ Cardinality(T) <= n
  <1> DEFINE g == [r \in T |-> f[r]]
  <1>a. f \in [S -> 1 .. n] /\ \A a, b \in S : f[a] = f[b] => a = b
    BY DEF Injection, IsInjective
  <1>b. g \in [T -> 1 .. n] /\ \A a, b \in T : g[a] = g[b] => a = b
    BY <1>a
  <1>1. g \in Injection(T, 1 .. n)
    BY <1>b DEF Injection, IsInjective
  <1>2. IsFiniteSet(1 .. n) /\ Cardinality(1 .. n) = n
    BY FS_Interval
  <1> HIDE DEF g
  <1>3. Cardinality(T) <= Cardinality(1 .. n) /\ IsFiniteSet(T)
    BY <1>1, <1>2, FS_Injection
  <1> QED
    BY <1>2, <1>3, FS_CardinalityType

\* Injections, spelled out.
LEMMA Injects ==
  ASSUME NEW S, NEW T, NEW f
  PROVE  f \in Injection(S, T) <=> f \in [S -> T] /\ \A a, b \in S : f[a] = f[b] => a = b
  BY DEF Injection, IsInjective

\* What is recent has its place in the queue after the older events are popped.
LEMMA RecentKeeps ==
  ASSUME NEW q \in Seq(Nat), now \in Nat, NEW C, NEW p, Placed(C, q, p),
         \A x \in C : p[x] \in Nat /\ now - p[x] <= Window
  PROVE  Recent(q) \in Seq(Nat) /\ Len(Recent(q)) <= Len(q) /\ Placed(C, Recent(q), p)
  <1>1. PICK n \in 0 .. Len(q) :
          /\ \A i \in 1 .. n : now - q[i] > Window
          /\ Recent(q) = SubSeq(q, n + 1, Len(q))
    BY RecentIsSuffix
  <1>2. PICK f \in Injection(C, DOMAIN q) : \A x \in C : q[f[x]] = p[x]
    BY DEF Placed
  <1>3. f \in [C -> 1 .. Len(q)] /\ \A a, b \in C : f[a] = f[b] => a = b
    BY <1>2, Injects
  <1>4. Len(q) \in Nat /\ Window \in Nat
    BY GateAssumption
  <1> DEFINE rest == SubSeq(q, n + 1, Len(q))
             g == [x \in C |-> f[x] - n]
  <1>5. rest \in Seq(Nat) /\ Len(rest) = Len(q) - n /\ \A i \in 1 .. Len(rest) : rest[i] = q[n + i]
    BY <1>1, <1>4
  <1>6. ASSUME NEW x \in C
        PROVE  f[x] \in n + 1 .. Len(q)
    <2>1. f[x] \in 1 .. Len(q) /\ now - q[f[x]] <= Window
      BY <1>2, <1>3
    <2>2. ~ (f[x] \in 1 .. n)
      <3>1. q[f[x]] \in Nat
        BY <2>1
      <3> QED
        BY <1>1, <1>4, <2>1, <3>1
    <2> QED
      BY <2>1, <2>2, <1>1
  <1>7. g \in [C -> 1 .. Len(rest)]
    BY <1>5, <1>6, <1>4
  <1>8. \A a, b \in C : g[a] = g[b] => a = b
    BY <1>3, <1>6, <1>4
  <1>9. \A x \in C : rest[g[x]] = p[x]
    <2> SUFFICES ASSUME NEW x \in C PROVE rest[g[x]] = p[x]
      OBVIOUS
    <2>1. g[x] \in 1 .. Len(rest) /\ n + g[x] = f[x]
      BY <1>7, <1>6, <1>4
    <2> HIDE DEF rest, g
    <2> QED
      BY <1>5, <2>1, <1>2
  <1>10. DOMAIN rest = 1 .. Len(rest)
    BY <1>5
  <1> HIDE DEF rest, g
  <1>11. g \in Injection(C, DOMAIN rest)
    BY <1>7, <1>8, <1>10, Injects
  <1>a. Placed(C, rest, p)
    BY <1>9, <1>11 DEF Placed
  <1>12. Recent(q) = rest
    BY <1>1 DEF rest
  <1>13. Len(rest) <= Len(q) /\ rest \in Seq(Nat)
    BY <1>4, <1>5
  <1> QED
    BY <1>a, <1>12, <1>13

\* A new request has a place of its own.
LEMMA AppendKeeps ==
  ASSUME NEW q \in Seq(Nat), NEW n \in Nat, NEW C, NEW r, r \notin C, NEW p, Placed(C, q, p),
         NEW np, np[r] = n, \A x \in C : np[x] = p[x]
  PROVE  Placed(C \cup {r}, Append(q, n), np)
  <1>1. PICK g \in Injection(C, DOMAIN q) : \A x \in C : q[g[x]] = np[x]
    BY DEF Placed
  <1>2. g \in [C -> 1 .. Len(q)] /\ \A a, b \in C : g[a] = g[b] => a = b
    BY <1>1, Injects
  <1> DEFINE w == Append(q, n)
             h == [x \in C \cup {r} |-> IF x = r THEN Len(q) + 1 ELSE g[x]]
  <1>3. Len(q) \in Nat /\ Len(w) = Len(q) + 1 /\ DOMAIN w = 1 .. Len(q) + 1 /\ w[Len(q) + 1] = n /\ \A i \in 1 .. Len(q) : w[i] = q[i]
    OBVIOUS
  <1> HIDE DEF w
  <1>4. h \in [C \cup {r} -> 1 .. Len(q) + 1]
    BY <1>2, <1>3
  <1>5. \A a, b \in C \cup {r} : h[a] = h[b] => a = b
    BY <1>2, <1>3
  <1>6. \A x \in C \cup {r} : w[h[x]] = np[x]
    BY <1>1, <1>2, <1>3
  <1> HIDE DEF h
  <1>7. h \in Injection(C \cup {r}, DOMAIN w)
    BY <1>3, <1>4, <1>5, Injects
  <1> QED
    BY <1>6, <1>7 DEF w, Placed

\* Of a request that the limiter has not let through anything may change.
LEMMA GotoStep ==
  ASSUME GateInv, NEW r \in Requests, NEW pc \in Pcs, Goto(r, pc), UNCHANGED <<entries, now, passed>>,
         passed[r] # -1 => pc \in {"access", "granted", "refused"}
  PROVE  GateInv'
  <1>1. GateTypes'
    BY DEF GateInv, GateTypes, Goto
  <1>2. \A x \in Requests : req'[x].user = req[x].user /\ (x # r => req'[x] = req[x]) /\ req'[r].pc = pc
    BY DEF GateInv, GateTypes, Goto
  <1>3. \A x \in Requests : (passed[x] # -1)' => req'[x].pc \in {"access", "granted", "refused"} /\ passed'[x] <= now'
    BY <1>2 DEF GateInv
  <1>4. \A u \in Users : Counted(u)' = Counted(u)
    BY <1>2 DEF Counted
  <1>5. \A u \in Users, t \in Nat : InSpan(u, t)' = InSpan(u, t)
    BY <1>2 DEF InSpan
  <1>6. \A u \in Users : Recorded(u)'
    BY <1>4 DEF GateInv, Recorded
  <1> QED
    BY <1>1, <1>3, <1>5, <1>6 DEF GateInv

\* The limiter refuses a request or lets it through.
LEMMA LimitedStep ==
  ASSUME GateInv, NEW r \in Requests, NEW u \in Users, NEW then \in {"access", "granted"},
         req[r].pc \in {"new", "review"}, Limited(r, u, then), UNCHANGED now
  PROVE  GateInv'
  <1> DEFINE q == Recent(entries[u])
             C == Counted(u)
  <1>1. GateTypes /\ passed[r] = -1
    BY DEF GateInv
  <1>2. /\ entries[u] \in Seq(Nat) /\ now \in Nat /\ Window \in Nat /\ MaxEvents \in Nat
        /\ Len(entries[u]) \in Nat /\ Len(entries[u]) <= MaxEvents
    BY <1>1, GateAssumption DEF GateTypes, GateInv
  <1>3. r \notin C /\ \A x \in C : x \in Requests /\ passed[x] \in Nat /\ now - passed[x] <= Window
    BY <1>1 DEF Counted, GateTypes
  <1>4. q \in Seq(Nat) /\ Len(q) <= Len(entries[u]) /\ Placed(C, q, passed)
    <2>1. Placed(C, entries[u], passed)
      BY DEF GateInv, Recorded
    <2> HIDE DEF C
    <2> QED
      BY <1>2, <1>3, <2>1, RecentKeeps
  <1>5. /\ req' \in [Requests -> [pc : Pcs, cred : {"cert", "token", "none"}, user : Users]]
        /\ req'[r].user = u /\ req'[r].pc \in {"access", "granted", "refused"}
        /\ \A x \in Requests : x # r => req'[x] = req[x]
    <2>1. PICK y \in {"access", "granted", "refused"} : req' = [req EXCEPT ![r].pc = y, ![r].user = u]
      BY DEF Limited
    <2>2. req'[r] = [req[r] EXCEPT !.pc = y, !.user = u]
      BY <2>1, <1>1 DEF GateTypes
    <2>3. req'[r].user = u /\ req'[r].pc = y /\ y \in Pcs
      BY <2>2, <1>1 DEF GateTypes, Pcs
    <2>a. req'[r] = [pc |-> y, cred |-> req[r].cred, user |-> u]
      BY <2>2, <1>1 DEF GateTypes
    <2>4. req'[r] \in [pc : Pcs, cred : {"cert", "token", "none"}, user : Users]
      BY <2>a, <2>3, <1>1 DEF GateTypes
    <2> QED
      BY <2>1, <2>3, <2>4, <1>1 DEF GateTypes
  <1>6. \A v \in Users : v # u => entries'[v] = entries[v]
    BY <1>1 DEF GateTypes, Limited
  <1>7. \A x \in Requests : x # r => passed'[x] = passed[x]
    BY <1>1 DEF GateTypes, Limited
  <1>8. \A v \in Users : v # u => Counted(v)' = Counted(v) /\ \A t \in Nat : InSpan(v, t)' = InSpan(v, t)
    <2>1. \A t \in Nat : ~ (-1 \in t .. t + Window)
      BY <1>2
    <2> QED
      BY <1>1, <1>5, <1>7, <2>1 DEF Counted, InSpan
  <1>9. ASSUME NEW v \in Users, v # u
        PROVE  Recorded(v)' /\ Len(entries'[v]) <= MaxEvents
    <2>1. Recorded(v)
      BY DEF GateInv
    <2>2. Counted(v)' = Counted(v) /\ entries'[v] = entries[v]
      BY <1>6, <1>8, <1>9
    <2>3. \A x \in Counted(v) : passed'[x] = passed[x]
      BY <1>1, <1>7 DEF Counted
    <2>4. Recorded(v)'
      BY <2>1, <2>2, <2>3 DEF Recorded, Placed
    <2> QED
      BY <2>2, <2>4 DEF GateInv
  <1>a. \A x \in Requests : (passed[x] # -1)' => req'[x].pc \in {"access", "granted", "refused"}
    BY <1>5, <1>7 DEF GateInv
  <1>10. CASE UNCHANGED passed /\ entries' = [entries EXCEPT ![u] = q]
    <2>1. entries'[u] = q /\ entries' \in [Users -> Seq(Nat)]
      BY <1>1, <1>4, <1>10 DEF GateTypes
    <2>2. Counted(u)' = C /\ \A t \in Nat : InSpan(u, t)' = InSpan(u, t)
      <3>1. \A t \in Nat : ~ (-1 \in t .. t + Window)
        BY <1>2
      <3> QED
        BY <1>1, <1>5, <1>10, <3>1 DEF Counted, InSpan
    <2>3. Recorded(u)'
      BY <1>4, <1>10, <2>1, <2>2 DEF Recorded
    <2>4. Len(entries'[u]) <= MaxEvents
      BY <1>2, <1>4, <2>1
    <2>5. GateTypes'
      BY <1>1, <1>5, <1>10, <2>1 DEF GateTypes
    <2>6. \A v \in Users : Recorded(v)' /\ Len(entries'[v]) <= MaxEvents
      BY <2>3, <2>4, <1>9
    <2>7. \A v \in Users, t \in Nat : Cardinality(InSpan(v, t)') <= MaxEvents
      BY <2>2, <1>8 DEF GateInv
    <2>8. \A x \in Requests : (passed[x] # -1)' => passed'[x] <= now'
      BY <1>10 DEF GateInv
    <2> QED
      BY <2>5, <2>6, <2>7, <2>8, <1>a DEF GateInv
  <1>11. CASE /\ Len(q) < MaxEvents
              /\ passed' = [passed EXCEPT ![r] = now]
              /\ entries' = [entries EXCEPT ![u] = Append(q, now)]
    <2> DEFINE w == Append(q, now)
    <2>1. w \in Seq(Nat) /\ Len(w) <= MaxEvents /\ Len(w) \in Nat /\ DOMAIN w = 1 .. Len(w)
      <3> HIDE DEF q
      <3> QED
        BY <1>2, <1>4, <1>11
    <2>2. entries'[u] = w /\ entries' \in [Users -> Seq(Nat)]
      BY <1>1, <1>11, <2>1 DEF GateTypes
    <2>3. passed'[r] = now /\ passed' \in [Requests -> Nat \cup {-1}]
      BY <1>1, <1>2, <1>11 DEF GateTypes
    <2>4. Counted(u)' = C \cup {r}
      BY <1>1, <1>2, <1>5, <1>7, <2>3 DEF Counted
    <2>5. Placed(C \cup {r}, w, passed')
      <3>1. \A x \in C : passed'[x] = passed[x]
        BY <1>3, <1>7
      <3> HIDE DEF C, q
      <3> QED
        BY <1>2, <1>3, <1>4, <2>3, <3>1, AppendKeeps
    <2> HIDE DEF w, q, C
    <2>6. Recorded(u)'
      BY <2>2, <2>4, <2>5 DEF Recorded
    <2>7. \A v \in Users : Recorded(v)' /\ Len(entries'[v]) <= MaxEvents
      BY <2>1, <2>2, <2>6, <1>9
    <2>8. GateTypes'
      BY <1>1, <1>5, <2>2, <2>3 DEF GateTypes
    <2>9. ASSUME NEW t \in Nat
          PROVE  Cardinality(InSpan(u, t)') <= MaxEvents
      <3>1. CASE now \in t .. t + Window
        <4>1. PICK h \in Injection(C \cup {r}, 1 .. Len(w)) : TRUE
          BY <2>1, <2>5 DEF Placed
        <4>2. InSpan(u, t)' \subseteq C \cup {r}
          <5>1. ASSUME NEW x \in InSpan(u, t)'
                PROVE  x \in Counted(u)'
            <6>1. x \in Requests /\ passed'[x] \in t .. t + Window /\ req'[x].user = u
              BY <5>1 DEF InSpan
            <6>2. passed'[x] # -1 /\ now' - passed'[x] <= Window
              BY <6>1, <3>1, <1>2
            <6> QED
              BY <6>1, <6>2 DEF Counted
          <5> QED
            BY <5>1, <2>4
        <4>3. Cardinality(InSpan(u, t)') \in Nat /\ Cardinality(InSpan(u, t)') <= Len(w)
          BY <2>1, <4>1, <4>2, FewOf
        <4> QED
          BY <2>1, <4>3, <1>2
      <3>2. CASE now \notin t .. t + Window
        <4>1. InSpan(u, t)' = InSpan(u, t)
          <5>1. ~ (-1 \in t .. t + Window)
            BY <1>2
          <5>2. r \notin InSpan(u, t) /\ r \notin InSpan(u, t)'
            BY <1>1, <2>3, <3>2, <5>1 DEF InSpan
          <5>3. \A x \in Requests : x # r => (x \in InSpan(u, t)' <=> x \in InSpan(u, t))
            BY <1>5, <1>7 DEF InSpan
          <5>4. InSpan(u, t)' \subseteq Requests /\ InSpan(u, t) \subseteq Requests
            BY DEF InSpan
          <5> QED
            BY <5>2, <5>3, <5>4
        <4> QED
          BY <4>1 DEF GateInv
      <3> QED
        BY <3>1, <3>2
    <2>10. \A v \in Users, t \in Nat : Cardinality(InSpan(v, t)') <= MaxEvents
      BY <2>9, <1>8 DEF GateInv
    <2>11. \A x \in Requests : (passed[x] # -1)' => passed'[x] <= now'
      <3>1. now' <= now' /\ now' = now
        BY <1>2
      <3> QED
        BY <3>1, <1>7, <2>3 DEF GateInv
    <2> QED
      BY <2>7, <2>8, <2>10, <2>11, <1>a DEF GateInv
  <1> QED
    BY <1>10, <1>11 DEF Limited

\* At the start nothing has been let through.
LEMMA GateInit == Init => GateInv
  <1> SUFFICES ASSUME Init PROVE GateInv
    OBVIOUS
  <1>1. /\ req \in [Requests -> [pc : {"new"}, cred : {"cert", "token", "none"}, user : {"system:anonymous"}]]
        /\ entries = [u \in Users |-> <<>>] /\ now = 0 /\ passed = [r \in Requests |-> -1]
    <2>1. CASE part = "gate"
      BY <2>1 DEF Init, AuthInit
    <2>2. CASE part # "gate"
      <3>1. req \in [Requests -> [pc : {"new"}, cred : {"cert"}, user : {"system:anonymous"}]]
        BY <2>2 DEF Init, AuthInit
      <3>2. req \in [Requests -> [pc : {"new"}, cred : {"cert", "token", "none"}, user : {"system:anonymous"}]]
        BY <3>1
      <3> QED
        BY <2>2, <3>2 DEF Init, AuthInit
    <2> QED
      BY <2>1, <2>2
  <1>2. GateTypes
    <2>1. req \in [Requests -> [pc : Pcs, cred : {"cert", "token", "none"}, user : Users]]
      BY <1>1 DEF Pcs, Users
    <2>2. entries \in [Users -> Seq(Nat)]
      BY <1>1
    <2> QED
      BY <1>1, <2>1, <2>2 DEF GateTypes
  <1>3. \A u \in Users : Len(entries[u]) <= MaxEvents
    BY <1>1, GateAssumption
  <1>4. ASSUME NEW u \in Users
        PROVE  Recorded(u)
    <2>1. Counted(u) = {}
      BY <1>1 DEF Counted
    <2> DEFINE f == [x \in {} |-> 0]
    <2>2. f \in Injection({}, DOMAIN entries[u])
      BY Injects
    <2> HIDE DEF f
    <2> QED
      BY <2>1, <2>2 DEF Recorded, Placed
  <1>5. ASSUME NEW u \in Users, NEW t \in Nat
        PROVE  Cardinality(InSpan(u, t)) <= MaxEvents
    <2>1. ~ (-1 \in t .. t + Window)
      BY GateAssumption
    <2>2. InSpan(u, t) = {}
      BY <1>1, <2>1 DEF InSpan
    <2>3. Cardinality(InSpan(u, t)) = 0
      BY <2>2, FS_EmptySet
    <2> QED
      BY <2>3, GateAssumption
  <1> QED
    BY <1>1, <1>2, <1>3, <1>4, <1>5 DEF GateInv

\* Time goes on: fewer requests count.
LEMMA WaitStep ==
  ASSUME GateInv, Wait
  PROVE  GateInv'
  <1>1. now' = now + 1 /\ now \in Nat /\ Window \in Nat /\ UNCHANGED <<req, entries, passed>>
    BY GateAssumption DEF Wait, GateInv, GateTypes
  <1>2. ASSUME NEW u \in Users
        PROVE  Recorded(u)'
    <2>1. Counted(u)' \subseteq Counted(u)
      BY <1>1 DEF Counted, GateInv, GateTypes
    <2>2. PICK f \in Injection(Counted(u), DOMAIN entries[u]) : \A x \in Counted(u) : entries[u][f[x]] = passed[x]
      BY DEF GateInv, Recorded, Placed
    <2>3. f \in [Counted(u) -> DOMAIN entries[u]] /\ \A a, b \in Counted(u) : f[a] = f[b] => a = b
      BY <2>2, Injects
    <2> DEFINE g == [x \in Counted(u)' |-> f[x]]
    <2>4. g \in [Counted(u)' -> DOMAIN entries[u]] /\ \A a, b \in Counted(u)' : g[a] = g[b] => a = b
      BY <2>1, <2>3
    <2>5. \A x \in Counted(u)' : entries[u][g[x]] = passed[x]
      BY <2>1, <2>2
    <2> HIDE DEF g
    <2>6. g \in Injection(Counted(u)', DOMAIN entries[u])
      BY <2>4, Injects
    <2>7. Placed(Counted(u)', entries[u], passed)
      BY <2>5, <2>6 DEF Placed
    <2> QED
      BY <1>1, <2>7 DEF Recorded
  <1>3. GateTypes'
    BY <1>1 DEF GateInv, GateTypes
  <1>4. \A r \in Requests : (passed[r] # -1)' => (req[r].pc \in {"access", "granted", "refused"} /\ passed[r] <= now)'
    BY <1>1 DEF GateInv, GateTypes
  <1>5. \A u \in Users : (Len(entries[u]) <= MaxEvents)'
    BY <1>1 DEF GateInv
  <1>6. \A u \in Users, t \in Nat : (Cardinality(InSpan(u, t)) <= MaxEvents)'
    BY <1>1 DEF GateInv, InSpan
  <1> QED
    BY <1>2, <1>3, <1>4, <1>5, <1>6 DEF GateInv

\* What a request goes through, and what does not concern the gate.
LEMMA GateStep ==
  ASSUME GateInv, [Next]_vars
  PROVE  GateInv'
  <1>0. \A r \in Requests : req[r].pc \in {"new", "client", "review"} => passed[r] = -1
    BY DEF GateInv
  <1>1. ASSUME NEW r \in Requests, Arrive(r)
        PROVE  GateInv'
    <2>1. req[r].pc = "new" /\ UNCHANGED now /\ passed[r] = -1
      BY <1>0, <1>1 DEF Arrive
    <2>2. CASE \E pc \in {"granted", "refused", "client"} : Goto(r, pc) /\ UNCHANGED <<entries, passed>>
      <3>1. PICK pc \in {"granted", "refused", "client"} : Goto(r, pc) /\ UNCHANGED <<entries, passed>>
        BY <2>2
      <3>2. pc \in Pcs
        BY DEF Pcs
      <3> QED
        BY <2>1, <3>1, <3>2, GotoStep
    <2>3. CASE Limited(r, "system:anonymous", "granted")
      <3>1. "system:anonymous" \in Users
        BY DEF Users
      <3> QED
        BY <2>1, <2>3, <3>1, LimitedStep
    <2> QED
      BY <1>1, <2>2, <2>3 DEF Arrive
  <1>2. ASSUME NEW r \in Requests, KubeClient(r)
        PROVE  GateInv'
    <2>1. Goto(r, "review") /\ UNCHANGED <<entries, now, passed>> /\ passed[r] = -1 /\ "review" \in Pcs
      BY <1>0, <1>2 DEF KubeClient, Pcs
    <2> QED
      BY <2>1, GotoStep
  <1>3. ASSUME NEW r \in Requests, NoClient(r)
        PROVE  GateInv'
    <2>1. PICK pc \in {"granted", "refused"} : Goto(r, pc)
      BY <1>3 DEF NoClient
    <2>2. UNCHANGED <<entries, now, passed>> /\ passed[r] = -1 /\ pc \in Pcs
      BY <1>0, <1>3 DEF NoClient, Pcs
    <2> QED
      BY <2>1, <2>2, GotoStep
  <1>4. ASSUME NEW r \in Requests, TokenReview(r)
        PROVE  GateInv'
    <2>1. req[r].pc = "review" /\ UNCHANGED now /\ passed[r] = -1
      BY <1>0, <1>4 DEF TokenReview
    <2>2. CASE Goto(r, "refused") /\ UNCHANGED <<entries, passed>>
      <3>1. "refused" \in Pcs
        BY DEF Pcs
      <3> QED
        BY <2>1, <2>2, <3>1, GotoStep
    <2>3. CASE \E then \in {"access", "granted"} : Limited(r, "user", then)
      <3>1. "user" \in Users
        BY DEF Users
      <3> QED
        BY <2>1, <2>3, <3>1, LimitedStep
    <2> QED
      BY <1>4, <2>2, <2>3 DEF TokenReview, ReviewedUsers
  <1>5. ASSUME NEW r \in Requests, SubjectAccessReview(r)
        PROVE  GateInv'
    <2>1. PICK pc \in {"granted", "refused"} : Goto(r, pc)
      BY <1>5 DEF SubjectAccessReview, Verdicts
    <2>2. UNCHANGED <<entries, now, passed>> /\ pc \in Pcs
      BY <1>5 DEF SubjectAccessReview, Pcs
    <2> QED
      BY <2>1, <2>2, GotoStep
  <1>6. CASE UNCHANGED authVars
    <2>1. UNCHANGED <<req, entries, now, passed>>
      BY <1>6 DEF authVars
    <2>2. \A u \in Users : Recorded(u)' = Recorded(u)
      BY <2>1 DEF Recorded, Counted
    <2>3. \A u \in Users, t \in Nat : InSpan(u, t)' = InSpan(u, t)
      BY <2>1 DEF InSpan
    <2> QED
      BY <2>1, <2>2, <2>3 DEF GateInv, GateTypes
  <1> QED
    BY <1>1, <1>2, <1>3, <1>4, <1>5, <1>6, WaitStep DEF Next, Exec, Forward, Log, Gate, AuthNext, vars

\* The rate limiter keeps its promise: in no window does it let through more
\* than its number of requests of one user, for any number of requests, however
\* long their reviews take and however they overlap (FixedWindowRateLimiter).
THEOREM LimiterBounds == Spec => []RateBounded
  <1>1. Init => GateInv
    BY GateInit
  <1>2. GateInv /\ [Next]_vars => GateInv'
    BY GateStep
  <1>3. GateInv => RateBounded
    BY GateInvBounds
  <1> QED
    BY <1>1, <1>2, <1>3, PTL DEF Spec

(***************************************************************************)
(* The outcome of an exec or attach session.                               *)
(***************************************************************************)
Marks == {"output", "close", "goAway", "failure", "success", "exit"} \X Nat
Names == {"stdout", "stderr", "error", "session"}
Message == [stream : Names, what : Marks]

\* What may come before the outcome, and what behind it.
Shown == {Msg("stdout", Output), Msg("stderr", Output)}
Ends == {GoAway, Msg("stdout", CloseMark), Msg("stderr", CloseMark), Msg("error", CloseMark)}

\* That the frames q tell an outcome, of whatever state it is one.
TellsOf(q, told, legacy) ==
  \/ legacy /\ told = <<"success", 200>> /\ StatusAt(q) = {}
  \/ \E i \in DOMAIN q : StatusAt(q) = {i} /\ q[i].what = told /\ After(q, i) \subseteq {GoAwayMark, CloseMark}

Outcomes == {Failure(c) : c \in {404, 500}} \cup {ExitStatus(e) : e \in 0 .. 1}

\* The inductive invariant: what the client got and what is still to be
\* written make up together what it is to be told.
ExecInv ==
  /\ epc \in {"request", "rejected", "start", "negotiate", "decide", "drain", "find", "exec", "send", "closed"}
  /\ conn \in BOOLEAN
  /\ out \in Seq(Message) /\ toSend \in Seq(Message)
  /\ epc \notin {"request", "rejected"} => transport \in {"spdy", "ws"}
  /\ epc \in {"negotiate", "decide"} => transport = "spdy"
  /\ epc = "drain" => transport = "ws"
  /\ epc \notin {"send", "closed"} => finished = 0 /\ runs = 0 /\ result = NoResult /\ out = <<>>
  /\ epc \in {"send", "closed"} =>
       /\ finished = 1 /\ runs \in 0 .. 1
       /\ conn /\ (transport = "ws" \/ Open("error")) => Tells(out \o toSend)
  /\ epc = "closed" => toSend = <<>>

\* It says all that a run shows.
LEMMA ExecInvTells ==
  ASSUME ExecInv
  PROVE  OutcomeIsTold
  <1> SUFFICES ASSUME epc = "closed" PROVE OutcomeIsTold
    BY DEF OutcomeIsTold
  <1>1. finished = 1 /\ runs \in 0 .. 1 /\ toSend = <<>> /\ out \in Seq(Message)
    BY DEF ExecInv
  <1>2. out \o toSend = out
    BY <1>1
  <1> QED
    BY <1>1, <1>2 DEF ExecInv, OutcomeIsTold

\* No outcome is the mark of an end.
LEMMA OutcomeMarks == Outcomes \subseteq Marks /\ CloseMark \notin Outcomes
  <1>1. \A x, y : <<"failure", x>> # <<"close", y>> /\ <<"success", x>> # <<"close", y>> /\ <<"exit", x>> # <<"close", y>>
    <2>1. \A x, y : <<"failure", x>>[1] = "failure" /\ <<"success", x>>[1] = "success" /\ <<"exit", x>>[1] = "exit" /\ <<"close", y>>[1] = "close"
      OBVIOUS
    <2> QED
      BY <2>1
  <1>2. ASSUME NEW o \in Outcomes
        PROVE  o \in Marks /\ \/ \E x : o = <<"failure", x>>
                              \/ \E x : o = <<"success", x>>
                              \/ \E x : o = <<"exit", x>>
    BY DEF Outcomes, Failure, ExitStatus, Marks
  <1> QED
    BY <1>1, <1>2 DEF CloseMark

\* Output, the outcome and the end of the session, in that order, tell it.
LEMMA TellsWhen ==
  ASSUME NEW a \in Seq(Shown), NEW b \in Seq(Ends), NEW told \in Outcomes, NEW legacy
  PROVE  TellsOf((a \o <<Msg("error", told)>>) \o b, told, legacy)
  <1> DEFINE m == Msg("error", told)
             q == (a \o <<m>>) \o b
             i == Len(a) + 1
  <1>1. /\ Len(a) \in Nat /\ Len(b) \in Nat
        /\ DOMAIN q = 1 .. Len(a) + 1 + Len(b)
        /\ \A k \in 1 .. Len(a) : q[k] = a[k]
        /\ q[i] = m
        /\ \A k \in i + 1 .. Len(a) + 1 + Len(b) : q[k] = b[k - i]
    <2> HIDE DEF m
    <2> QED
      OBVIOUS
  <1>2. \A k \in 1 .. Len(a) : a[k] \in Shown
    OBVIOUS
  <1>3. \A k \in 1 .. Len(b) : b[k] \in Ends
    OBVIOUS
  <1>4. m.stream = "error" /\ m.what = told /\ told # CloseMark
    BY OutcomeMarks DEF Msg
  <1>5. \A x \in Shown : x.stream # "error"
    BY DEF Shown, Msg
  <1>6. \A x \in Ends : x.what \in {GoAwayMark, CloseMark} /\ (x.stream = "error" => x.what = CloseMark)
    BY DEF Ends, Msg, GoAway
  <1> HIDE DEF q, m
  <1>7. \A k \in DOMAIN q : k \in 1 .. Len(a) \/ k = i \/ (k \in i + 1 .. Len(a) + 1 + Len(b) /\ k - i \in 1 .. Len(b))
    BY <1>1
  <1>8. StatusAt(q) = {i}
    <2>1. \A k \in DOMAIN q : k # i => ~ (q[k].stream = "error" /\ q[k].what # CloseMark)
      BY <1>1, <1>2, <1>3, <1>5, <1>6, <1>7
    <2>2. i \in DOMAIN q
      BY <1>1
    <2> QED
      BY <2>1, <2>2, <1>1, <1>4 DEF StatusAt
  <1>9. After(q, i) \subseteq {GoAwayMark, CloseMark}
    <2>1. \A k \in DOMAIN q : k > i => q[k].what \in {GoAwayMark, CloseMark}
      BY <1>1, <1>3, <1>6, <1>7
    <2> QED
      BY <2>1 DEF After
  <1>10. i \in DOMAIN q /\ q[i].what = told
    BY <1>1, <1>4
  <1>11. TellsOf(q, told, legacy)
    BY <1>8, <1>9, <1>10 DEF TellsOf
  <1> QED
    BY <1>11 DEF q, m

\* An old WebSocket protocol has no word for success.
LEMMA SilentWhen ==
  ASSUME NEW a \in Seq(Shown)
  PROVE  StatusAt(a) = {}
  <1>1. \A k \in DOMAIN a : a[k] \in Shown
    OBVIOUS
  <1>2. \A x \in Shown : x.stream # "error"
    BY DEF Shown, Msg
  <1> QED
    BY <1>1, <1>2 DEF StatusAt

\* An outcome of which nothing is shown before.
LEMMA TellsAlone ==
  ASSUME NEW b \in Seq(Ends), NEW told \in Outcomes, NEW legacy
  PROVE  TellsOf(<<Msg("error", told)>> \o b, told, legacy)
  <1> DEFINE m == Msg("error", told)
  <1>1. (<<>> \o <<m>>) \o b = <<m>> \o b /\ <<>> \in Seq(Shown)
    <2> HIDE DEF m
    <2> QED
      OBVIOUS
  <1> QED
    BY <1>1, TellsWhen

\* What is sent are messages.
LEMMA Messages ==
  /\ \A s \in Seq(Shown) : s \in Seq(Message)
  /\ \A s \in Seq(Ends) : s \in Seq(Message)
  /\ \A o \in Outcomes : Msg("error", o) \in Message
  /\ GoAway \in Message
  <1>1. Output \in Marks /\ CloseMark \in Marks /\ GoAwayMark \in Marks
    BY DEF Output, CloseMark, GoAwayMark, Marks
  <1>2. \A x \in Marks, k \in Names : Msg(k, x) \in Message
    BY DEF Msg, Message
  <1>3. Shown \subseteq Message /\ Ends \subseteq Message
    BY <1>1, <1>2 DEF Shown, Ends, GoAway, Names
  <1>4. \A o \in Outcomes : Msg("error", o) \in Message
    BY <1>2, OutcomeMarks DEF Names
  <1>5. GoAway \in Message
    BY <1>1, <1>2 DEF GoAway, Names
  <1> QED
    BY <1>3, <1>4, <1>5

\* A part that may be left out.
LEMMA Parts ==
  ASSUME NEW S, NEW m \in S, NEW on
  PROVE  Part(on, m) \in Seq(S) /\ (on => Part(on, m) = <<m>>) /\ (~ on => Part(on, m) = <<>>)
  BY DEF Part

Results == [code : {200}, exit : 0 .. 1, stdout : BOOLEAN, stderr : BOOLEAN]

\* What is sent over SPDY after a run tells its outcome if anything can.
LEMMA SpdyTells ==
  ASSUME NEW r \in Results
  PROVE  /\ SendExecResultSpdy(r) \o <<GoAway>> \in Seq(Message)
         /\ Open("error") => TellsOf(SendExecResultSpdy(r) \o <<GoAway>>, ExitStatus(r.exit), query.legacy)
  <1> DEFINE a1 == Part(Open("stdout") /\ r.stdout, Msg("stdout", Output))
             a2 == Part(Open("stderr") /\ r.stderr, Msg("stderr", Output))
             told == ExitStatus(r.exit)
             m == Msg("error", told)
             b == <<GoAway>>
  <1>1. a1 \in Seq(Shown) /\ a2 \in Seq(Shown)
    <2>1. Msg("stdout", Output) \in Shown /\ Msg("stderr", Output) \in Shown
      BY DEF Shown
    <2> QED
      BY <2>1, Parts
  <1>2. told \in Outcomes
    BY DEF Outcomes, Results
  <1>3. b \in Seq(Ends)
    <2>1. GoAway \in Ends
      BY DEF Ends
    <2> QED
      BY <2>1
  <1>4. m \in Message /\ Part(Open("error"), m) \in Seq(Message) /\ (Open("error") => Part(Open("error"), m) = <<m>>)
    BY <1>2, Messages, Parts
  <1>5. SendExecResultSpdy(r) = (a1 \o a2) \o Part(Open("error"), m)
    BY DEF SendExecResultSpdy
  <1> HIDE DEF a1, a2, told, b
  <1>6. a1 \o a2 \in Seq(Shown)
    BY <1>1
  <1>7. (a1 \o a2) \o Part(Open("error"), m) \in Seq(Message)
    BY <1>4, <1>6, Messages
  <1>8. ((a1 \o a2) \o Part(Open("error"), m)) \o b \in Seq(Message)
    BY <1>3, <1>7, Messages
  <1>9. TellsOf(((a1 \o a2) \o <<m>>) \o b, told, query.legacy)
    BY <1>2, <1>3, <1>6, TellsWhen
  <1> HIDE DEF m
  <1>10. Open("error") => TellsOf(SendExecResultSpdy(r) \o b, told, query.legacy)
    BY <1>4, <1>5, <1>9
  <1> QED
    BY <1>5, <1>8, <1>10 DEF b, told

\* Over a WebSocket there is no need of a stream.
LEMMA WsTells ==
  ASSUME NEW r \in Results
  PROVE  SendExecResultWs(r) \in Seq(Message) /\ TellsOf(SendExecResultWs(r), ExitStatus(r.exit), query.legacy)
  <1> DEFINE a1 == Part(r.stdout, Msg("stdout", Output))
             a2 == Part(r.stderr, Msg("stderr", Output))
             told == ExitStatus(r.exit)
             m == Msg("error", told)
             b == IF query.legacy THEN <<>> ELSE <<Msg("stdout", CloseMark), Msg("stderr", CloseMark), Msg("error", CloseMark)>>
             tells == Part(~ query.legacy \/ r.exit # 0, m)
  <1>1. a1 \in Seq(Shown) /\ a2 \in Seq(Shown)
    <2>1. Msg("stdout", Output) \in Shown /\ Msg("stderr", Output) \in Shown
      BY DEF Shown
    <2> QED
      BY <2>1, Parts
  <1>2. told \in Outcomes
    BY DEF Outcomes, Results
  <1>3. b \in Seq(Ends)
    <2> DEFINE x == Msg("stdout", CloseMark)
               y == Msg("stderr", CloseMark)
               z == Msg("error", CloseMark)
    <2>1. x \in Ends /\ y \in Ends /\ z \in Ends
      BY DEF Ends
    <2> HIDE DEF x, y, z
    <2>2. <<x, y, z>> \in Seq(Ends) /\ <<>> \in Seq(Ends)
      BY <2>1
    <2> QED
      BY <2>2 DEF x, y, z
  <1>4. m \in Message /\ tells \in Seq(Message)
    BY <1>2, Messages, Parts
  <1>5. SendExecResultWs(r) = ((a1 \o a2) \o tells) \o b
    BY DEF SendExecResultWs
  <1>6. (~ query.legacy \/ r.exit # 0) => tells = <<m>>
    BY <1>4, Parts
  <1>7. ~ (~ query.legacy \/ r.exit # 0) => tells = <<>> /\ b = <<>> /\ query.legacy /\ told = <<"success", 200>>
    <2> SUFFICES ASSUME ~ (~ query.legacy \/ r.exit # 0)
                 PROVE  tells = <<>> /\ b = <<>> /\ query.legacy /\ told = <<"success", 200>>
      OBVIOUS
    <2>1. query.legacy /\ r.exit = 0
      OBVIOUS
    <2>2. tells = <<>>
      BY <1>4, Parts
    <2>3. b = <<>>
      BY <2>1
    <2>4. told = <<"success", 200>>
      BY <2>1 DEF ExitStatus
    <2> QED
      BY <2>1, <2>2, <2>3, <2>4
  <1> HIDE DEF a1, a2, told, b, tells
  <1>8. a1 \o a2 \in Seq(Shown)
    BY <1>1
  <1>9. (a1 \o a2) \o tells \in Seq(Message)
    BY <1>4, <1>8, Messages
  <1>10. ((a1 \o a2) \o tells) \o b \in Seq(Message)
    BY <1>3, <1>9, Messages
  <1>11. TellsOf(((a1 \o a2) \o <<m>>) \o b, told, query.legacy)
    BY <1>2, <1>3, <1>8, TellsWhen
  <1> HIDE DEF m
  <1>12. TellsOf(((a1 \o a2) \o tells) \o b, told, query.legacy)
    <2>1. CASE ~ query.legacy \/ r.exit # 0
      BY <2>1, <1>6, <1>11
    <2>2. CASE ~ (~ query.legacy \/ r.exit # 0)
      <3>1. ((a1 \o a2) \o tells) \o b = a1 \o a2
        BY <2>2, <1>7, <1>8
      <3>2. StatusAt(a1 \o a2) = {}
        BY <1>8, SilentWhen
      <3> QED
        BY <2>2, <3>1, <3>2, <1>7 DEF TellsOf
    <2> QED
      BY <2>1, <2>2
  <1> QED
    BY <1>5, <1>10, <1>12 DEF told

\* An error is told alone.
LEMMA ErrorTells ==
  ASSUME NEW c \in {404, 500}
  PROVE  /\ ErrorFrames(c) \in Seq(Message)
         /\ transport = "ws" \/ Open("error") => TellsOf(ErrorFrames(c), Failure(c), query.legacy)
  <1> DEFINE m == Msg("error", Failure(c))
  <1>1. Failure(c) \in Outcomes
    BY DEF Outcomes
  <1>2. m \in Message /\ GoAway \in Message /\ GoAway \in Ends
    BY <1>1, Messages DEF Ends
  <1>3. Part(Open("error"), m) \in Seq(Message) /\ (Open("error") => Part(Open("error"), m) = <<m>>)
    BY <1>2, Parts
  <1>4. <<>> \in Seq(Ends) /\ <<GoAway>> \in Seq(Ends) /\ <<GoAway>> \in Seq(Message)
    BY <1>2
  <1>5. TellsOf(<<m>> \o <<>>, Failure(c), query.legacy) /\ TellsOf(<<m>> \o <<GoAway>>, Failure(c), query.legacy)
    <2>1. Failure(c) \in Outcomes /\ <<>> \in Seq(Ends) /\ <<GoAway>> \in Seq(Ends)
      BY <1>1, <1>4
    <2>2. \A b \in Seq(Ends), told \in Outcomes : TellsOf(<<Msg("error", told)>> \o b, told, query.legacy)
      BY TellsAlone
    <2> QED
      BY <2>1, <2>2
  <1> HIDE DEF m
  <1>6. <<m>> \o <<>> = <<m>> /\ <<m>> \in Seq(Message)
    BY <1>2
  <1>7. CASE transport = "ws"
    <2>1. ErrorFrames(c) = <<m>>
      BY <1>7 DEF ErrorFrames, m
    <2> QED
      BY <2>1, <1>5, <1>6
  <1>8. CASE transport # "ws"
    <2>1. ErrorFrames(c) = Part(Open("error"), m) \o <<GoAway>>
      BY <1>8 DEF ErrorFrames, m
    <2>2. Part(Open("error"), m) \o <<GoAway>> \in Seq(Message)
      BY <1>3, <1>4
    <2> QED
      BY <1>8, <2>1, <2>2, <1>3, <1>5
  <1> QED
    BY <1>7, <1>8

\* What a state tells, and its outcome, hang on these variables alone.
LEMMA TellsIs == Tells(out \o toSend) <=> TellsOf(out \o toSend, Told, query.legacy)
  BY DEF Tells, TellsOf

\* A step that sends nothing yet.
LEMMA QuietStep ==
  ASSUME ExecInv, epc \notin {"request", "rejected", "send", "closed"},
         UNCHANGED <<transport, result, runs, out, toSend, finished>>, conn' \in BOOLEAN,
         \/ epc' = epc
         \/ epc' = "decide" /\ epc = "negotiate"
         \/ epc' = "negotiate" /\ transport = "spdy"
         \/ epc' \in {"find", "exec"}
  PROVE  ExecInv'
  BY DEF ExecInv

\* The session ends with the frames q to be sent, which tell the outcome.
LEMMA EndStep ==
  ASSUME ExecInv, epc \notin {"request", "rejected", "send", "closed"}, UNCHANGED <<transport, out, conn, query, streams>>,
         epc' = "send", finished' = finished + 1, runs' \in 0 .. 1, toSend' \in Seq(Message),
         transport = "ws" \/ Open("error") => TellsOf(toSend', Told', query.legacy)
  PROVE  ExecInv'
  <1>1. out = <<>> /\ finished = 0 /\ out' = <<>>
    BY DEF ExecInv
  <1>2. out' \o toSend' = toSend'
    BY <1>1
  <1>3. (transport = "ws" \/ Open("error"))' => Tells(out \o toSend)'
    <2>1. Open("error")' = Open("error")
      BY DEF Open
    <2>2. Tells(out \o toSend)' <=> TellsOf(out' \o toSend', Told', query'.legacy)
      BY DEF Tells, TellsOf
    <2> QED
      BY <1>2, <2>1, <2>2
  <1> QED
    BY <1>1, <1>3 DEF ExecInv

\* The outcome of an error is that error.
LEMMA FailStep ==
  ASSUME ExecInv, epc \in {"find", "exec"}, NEW c \in {404, 500}, Fail(c), runs' \in 0 .. 1,
         UNCHANGED <<transport, out, conn, query, streams>>
  PROVE  ExecInv'
  <1>1. result' = [NoResult EXCEPT !.code = c] /\ toSend' = ErrorFrames(c) /\ epc' = "send" /\ finished' = finished + 1
    BY DEF Fail
  <1>2. result'.code = c
    BY <1>1 DEF NoResult
  <1>3. Told' = Failure(c)
    BY <1>2 DEF Told
  <1>4. toSend' \in Seq(Message) /\ (transport = "ws" \/ Open("error") => TellsOf(toSend', Told', query.legacy))
    BY <1>1, <1>3, ErrorTells
  <1> QED
    BY <1>1, <1>4, EndStep

\* The step that runs the command.
LEMMA RunStep ==
  ASSUME ExecInv, ExecSync
  PROVE  ExecInv'
  <1>1. epc = "exec" /\ UNCHANGED <<transport, out, conn, query, streams>> /\ runs = 0 /\ transport \in {"spdy", "ws"}
    BY DEF ExecSync, ExecInv
  <1>2. CASE Fail(500) /\ runs' \in {runs, runs + 1}
    <2>1. runs' \in 0 .. 1
      BY <1>1, <1>2
    <2> QED
      BY <1>1, <1>2, <2>1, FailStep
  <1>3. CASE \E r \in Results :
               /\ result' = r
               /\ toSend' = IF transport = "ws" THEN SendExecResultWs(r) ELSE SendExecResultSpdy(r) \o <<GoAway>>
               /\ runs' = runs + 1 /\ epc' = "send" /\ finished' = finished + 1
    <2>1. PICK r \in Results :
            /\ result' = r
            /\ toSend' = IF transport = "ws" THEN SendExecResultWs(r) ELSE SendExecResultSpdy(r) \o <<GoAway>>
            /\ runs' = runs + 1 /\ epc' = "send" /\ finished' = finished + 1
      BY <1>3
    <2>2. Told' = ExitStatus(r.exit)
      <3>1. result'.code = 200 /\ result'.exit = r.exit
        BY <2>1 DEF Results
      <3> QED
        BY <3>1 DEF Told
    <2>3. toSend' \in Seq(Message) /\ (transport = "ws" \/ Open("error") => TellsOf(toSend', Told', query.legacy))
      <3>1. CASE transport = "ws"
        BY <2>1, <2>2, <3>1, WsTells
      <3>2. CASE transport # "ws"
        BY <2>1, <2>2, <3>2, SpdyTells
      <3> QED
        BY <3>1, <3>2
    <2>4. runs' \in 0 .. 1
      BY <1>1, <2>1
    <2> QED
      BY <1>1, <2>1, <2>3, <2>4, EndStep
  <1> QED
    BY <1>2, <1>3 DEF ExecSync, Results

\* A session ends without having run anything.
LEMMA UnrunStep ==
  ASSUME ExecInv, StartWs \/ Decide
  PROVE  ExecInv'
  <1>1. result = NoResult /\ NoResult.code = 0 /\ epc \in {"start", "negotiate", "decide"} /\ runs = 0
    BY DEF ExecInv, StartWs, Decide, NoResult
  <1>2. <<GoAway>> \in Seq(Ends) /\ <<>> \in Seq(Ends)
    BY DEF Ends
  <1>3. CASE StartWs
    <2>1. transport = "ws" /\ UNCHANGED <<query, transport, streams, result, runs, out, conn>>
      BY <1>3 DEF StartWs
    <2>2. CASE epc' \in {"find", "drain"} /\ UNCHANGED finished /\ toSend' = <<>>
      BY <1>1, <2>1, <2>2 DEF ExecInv
    <2>3. CASE epc' = "send" /\ finished' = finished + 1 /\ toSend' = Part(TRUE, Msg("error", Failure(404)))
      <3>1. Told' = Failure(404)
        BY <1>1, <2>1 DEF Told
      <3>2. Failure(404) \in Outcomes /\ ErrorFrames(404) \in Seq(Message) /\ TellsOf(ErrorFrames(404), Failure(404), query.legacy)
        BY <2>1, ErrorTells DEF Outcomes
      <3>3. toSend' = ErrorFrames(404)
        BY <2>1, <2>3 DEF Part, ErrorFrames
      <3>4. runs' \in 0 .. 1
        BY <1>1, <2>1
      <3> QED
        BY <1>1, <2>1, <2>3, <3>1, <3>2, <3>3, <3>4, EndStep
    <2>4. CASE epc' = "find" /\ UNCHANGED <<toSend, finished>>
      BY <1>1, <2>1, <2>4 DEF ExecInv
    <2> QED
      BY <1>3, <2>1, <2>2, <2>3, <2>4 DEF StartWs, Part
  <1>4. CASE Decide
    <2>1. UNCHANGED <<query, transport, streams, result, runs, out, conn>> /\ transport = "spdy"
      BY <1>4 DEF Decide, ExecInv
    <2>2. CASE epc' = "find" /\ UNCHANGED <<toSend, finished>>
      BY <1>1, <2>1, <2>2 DEF ExecInv
    <2>3. CASE epc' = "send" /\ finished' = finished + 1 /\ toSend' = Part(Open("error"), Msg("error", Failure(500))) \o <<GoAway>>
      <3>1. Told' = Failure(500)
        BY <1>1, <2>1 DEF Told
      <3>2. toSend' = ErrorFrames(500)
        BY <2>1, <2>3 DEF ErrorFrames
      <3>3. toSend' \in Seq(Message) /\ (transport = "ws" \/ Open("error") => TellsOf(toSend', Told', query.legacy))
        BY <3>1, <3>2, ErrorTells
      <3>4. runs' \in 0 .. 1
        BY <1>1, <2>1
      <3> QED
        BY <1>1, <2>1, <2>3, <3>3, <3>4, EndStep
    <2> QED
      BY <1>4, <2>2, <2>3 DEF Decide
  <1> QED
    BY <1>3, <1>4

\* A message is written, or lost with the client.
LEMMA SendStep ==
  ASSUME ExecInv, Send
  PROVE  ExecInv'
  <1>1. epc = "send" /\ UNCHANGED <<query, transport, streams, result, runs, conn, finished>> /\ toSend \in Seq(Message) /\ out \in Seq(Message)
    BY DEF Send, ExecInv
  <1>2. CASE toSend = <<>> /\ epc' = "closed" /\ UNCHANGED <<toSend, out>>
    BY <1>1, <1>2 DEF ExecInv, Tells, Told, Open
  <1>3. CASE toSend # <<>> /\ toSend' = Tail(toSend) /\ epc' = epc /\ out' = IF conn THEN Append(out, Head(toSend)) ELSE out
    <2>1. toSend' \in Seq(Message) /\ out' \in Seq(Message)
      BY <1>1, <1>3
    <2>2. conn => out' \o toSend' = out \o toSend
      BY <1>1, <1>3
    <2>3. Tells(out \o toSend)' <=> TellsOf(out' \o toSend', Told, query.legacy)
      BY <1>1 DEF Tells, TellsOf, Told
    <2>4. (conn /\ (transport = "ws" \/ Open("error")))' => conn /\ (transport = "ws" \/ Open("error"))
      BY <1>1 DEF Open
    <2>5. conn /\ (transport = "ws" \/ Open("error")) => TellsOf(out \o toSend, Told, query.legacy)
      BY <1>1, TellsIs DEF ExecInv
    <2> QED
      BY <1>1, <1>3, <2>1, <2>2, <2>3, <2>4, <2>5 DEF ExecInv
  <1> QED
    BY <1>2, <1>3 DEF Send

\* A step of the session, its client or its container, or none of them.
LEMMA ExecStep ==
  ASSUME ExecInv, [Next]_vars
  PROVE  ExecInv'
  <1>1. CASE Dispatch
    <2>1. transport' \in {"ws", "spdy", Nothing} /\ Nothing \notin {"ws", "spdy"}
      BY <1>1 DEF Dispatch, TransportOf, Nothing
    <2> QED
      BY <1>1, <2>1 DEF Dispatch, ExecInv
  <1>2. CASE StartSpdy
    BY <1>2, QuietStep DEF StartSpdy, ExecInv
  <1>3. CASE Syn \/ OtherFrame \/ Terminate \/ ReadTimeout
    BY <1>3, QuietStep DEF Syn, OtherFrame, Terminate, ReadTimeout, Negotiating, ExecInv
  <1>4. CASE Drain
    BY <1>4, QuietStep DEF Drain, ExecInv
  <1>5. CASE Find
    <2>1. epc = "find" /\ UNCHANGED <<transport, out, conn, query, streams, runs>> /\ runs = 0
      BY <1>5 DEF Find, ExecInv
    <2>2. CASE Fail(404)
      <3>1. runs' \in 0 .. 1
        BY <2>1
      <3> QED
        BY <2>1, <2>2, <3>1, FailStep
    <2>3. CASE epc' = "exec" /\ UNCHANGED <<result, toSend, finished>>
      BY <2>1, <2>3, QuietStep DEF ExecInv
    <2> QED
      BY <1>5, <2>2, <2>3 DEF Find
  <1>6. CASE Hangup
    BY <1>6 DEF Hangup, ExecInv
  <1>7. CASE Restart
    BY <1>7 DEF Restart, ExecInv, Tells, Told, Open
  <1>8. CASE UNCHANGED execVars
    BY <1>8 DEF execVars, ExecInv, Tells, Told, Open
  <1> QED
    BY <1>1, <1>2, <1>3, <1>4, <1>5, <1>6, <1>7, <1>8, RunStep, SendStep, UnrunStep
    DEF Next, Exec, Forward, Log, Gate, ExecNext, SessionSteps, vars

\* The client of an exec or attach session that is still there at its end has
\* been told the outcome, once and last, whatever streams were opened, however
\* many frames were read, and whenever the container ended
\* (send_exec_result_spdy, send_exec_result_ws and the error paths).
THEOREM OutcomeReachesClient == Spec => []OutcomeIsTold
  <1>1. Init => ExecInv
    BY DEF Init, ExecInit, ExecInv, Nothing
  <1>2. ExecInv /\ [Next]_vars => ExecInv'
    BY ExecStep
  <1>3. ExecInv => OutcomeIsTold
    BY ExecInvTells
  <1> QED
    BY <1>1, <1>2, <1>3, PTL DEF Spec

(***************************************************************************)
(* The relay of a port-forward session.                                    *)
(***************************************************************************)
Frames == Nat \X Nat

\* Frame i of q carries a chunk on channel ch.
OnChannel(q, ch, i) == i \in DOMAIN q /\ q[i][1] = ch /\ q[i][2] # 0

\* What it is to carry chunks, element by element.
LEMMA CarriesIs ==
  ASSUME NEW q, NEW ch, NEW a, NEW b
  PROVE  Carries(q, ch, a, b) <=>
           /\ \A i : OnChannel(q, ch, i) => q[i][2] \in a + 1 .. b
           /\ \A v \in a + 1 .. b : \E i : OnChannel(q, ch, i) /\ q[i][2] = v
           /\ \A i, j : OnChannel(q, ch, i) /\ OnChannel(q, ch, j) => (i < j => q[i][2] < q[j][2])
  <1>1. \A i : i \in ChunksAt(q, ch) <=> OnChannel(q, ch, i)
    BY DEF ChunksAt, OnChannel
  <1> QED
    BY <1>1 DEF Carries

\* What the frames of q and of q with one more are.
LEMMA Appended ==
  ASSUME NEW q \in Seq(Frames), NEW x \in Frames
  PROVE  /\ Append(q, x) \in Seq(Frames) /\ Len(q) \in Nat
         /\ \A i : i \in DOMAIN Append(q, x) <=> i \in DOMAIN q \/ i = Len(q) + 1
         /\ \A i \in DOMAIN q : Append(q, x)[i] = q[i] /\ i \in Nat /\ i < Len(q) + 1
         /\ Append(q, x)[Len(q) + 1] = x
  OBVIOUS

\* A frame of another channel, or one that is no chunk, changes nothing.
LEMMA AppendOther ==
  ASSUME NEW q \in Seq(Frames), NEW x \in Frames, NEW ch, NEW a, NEW b, x[1] # ch \/ x[2] = 0, Carries(q, ch, a, b)
  PROVE  Carries(Append(q, x), ch, a, b)
  <1> DEFINE w == Append(q, x)
  <1>1. \A i : OnChannel(w, ch, i) <=> OnChannel(q, ch, i)
    BY Appended DEF OnChannel
  <1>2. \A i : OnChannel(q, ch, i) => w[i] = q[i]
    BY Appended DEF OnChannel
  <1> HIDE DEF w
  <1>3. Carries(w, ch, a, b)
    BY <1>1, <1>2, CarriesIs
  <1> QED
    BY <1>3 DEF w

\* The next chunk comes behind.
LEMMA AppendNext ==
  ASSUME NEW q \in Seq(Frames), NEW ch \in Nat, NEW a \in Nat, NEW b \in Nat, a <= b, Carries(q, ch, a, b)
  PROVE  Carries(Append(q, <<ch, b + 1>>), ch, a, b + 1)
  <1> DEFINE x == <<ch, b + 1>>
             w == Append(q, x)
             n == Len(q) + 1
  <1>0. x \in Frames /\ x[1] = ch /\ x[2] = b + 1 /\ b + 1 # 0
    BY DEF Frames
  <1> HIDE DEF x
  <1>1. /\ \A i : i \in DOMAIN w <=> i \in DOMAIN q \/ i = n
        /\ \A i \in DOMAIN q : w[i] = q[i] /\ i \in Nat /\ i < n
        /\ w[n] = x /\ n \in Nat
    BY <1>0, Appended
  <1> HIDE DEF w, n
  <1>2. \A i : OnChannel(w, ch, i) <=> OnChannel(q, ch, i) \/ i = n
    BY <1>0, <1>1 DEF OnChannel
  <1>3. \A i : OnChannel(q, ch, i) => w[i] = q[i] /\ i \in Nat /\ i < n
    BY <1>1 DEF OnChannel
  <1>4. /\ \A i : OnChannel(q, ch, i) => q[i][2] \in a + 1 .. b
        /\ \A v \in a + 1 .. b : \E i : OnChannel(q, ch, i) /\ q[i][2] = v
        /\ \A i, j : OnChannel(q, ch, i) /\ OnChannel(q, ch, j) => (i < j => q[i][2] < q[j][2])
    BY CarriesIs
  <1>5. \A i : OnChannel(w, ch, i) => w[i][2] \in a + 1 .. b + 1
    BY <1>0, <1>1, <1>2, <1>3, <1>4
  <1>6. ASSUME NEW v \in a + 1 .. b + 1
        PROVE  \E i : OnChannel(w, ch, i) /\ w[i][2] = v
    <2>1. CASE v = b + 1
      BY <2>1, <1>0, <1>1, <1>2
    <2>2. CASE v # b + 1
      <3>1. v \in a + 1 .. b
        BY <2>2
      <3> QED
        BY <3>1, <1>2, <1>3, <1>4
    <2> QED
      BY <2>1, <2>2
  <1>7. ASSUME NEW i, NEW j, OnChannel(w, ch, i), OnChannel(w, ch, j), i < j
        PROVE  w[i][2] < w[j][2]
    <2>1. CASE i = n
      BY <2>1, <1>1, <1>2, <1>3, <1>7
    <2>2. CASE i # n /\ j = n
      <3>1. OnChannel(q, ch, i) /\ w[i] = q[i] /\ q[i][2] \in a + 1 .. b
        BY <2>2, <1>2, <1>3, <1>4, <1>7
      <3> QED
        BY <3>1, <2>2, <1>0, <1>1
    <2>3. CASE i # n /\ j # n
      BY <2>3, <1>2, <1>3, <1>4, <1>7
    <2> QED
      BY <2>1, <2>2, <2>3
  <1>8. Carries(w, ch, a, b + 1)
    BY <1>5, <1>6, <1>7, CarriesIs
  <1> QED
    BY <1>8 DEF w, x

\* What the frames of q without the first are.
LEMMA Shifted ==
  ASSUME NEW q \in Seq(Frames), q # <<>>
  PROVE  /\ Tail(q) \in Seq(Frames) /\ Head(q) = q[1] /\ Head(q) \in Frames /\ 1 \in DOMAIN q
         /\ \A i : i \in DOMAIN Tail(q) => i \in Nat \ {0} /\ i + 1 \in DOMAIN q /\ Tail(q)[i] = q[i + 1]
         /\ \A i \in DOMAIN q : i # 1 => i \in Nat /\ i > 1 /\ i - 1 \in DOMAIN Tail(q) /\ (i - 1) + 1 = i
  OBVIOUS

\* A first frame that is no chunk of the channel may go ...
LEMMA TailOther ==
  ASSUME NEW q \in Seq(Frames), q # <<>>, NEW ch, NEW a, NEW b, Head(q)[1] # ch \/ Head(q)[2] = 0, Carries(q, ch, a, b)
  PROVE  Carries(Tail(q), ch, a, b)
  <1> DEFINE w == Tail(q)
  <1>1. /\ \A i : i \in DOMAIN w => i \in Nat \ {0} /\ i + 1 \in DOMAIN q /\ w[i] = q[i + 1]
        /\ \A i \in DOMAIN q : i # 1 => i \in Nat /\ i > 1 /\ i - 1 \in DOMAIN w /\ (i - 1) + 1 = i
        /\ Head(q) = q[1]
    BY Shifted
  <1> HIDE DEF w
  <1>2. /\ \A i : OnChannel(q, ch, i) => q[i][2] \in a + 1 .. b
        /\ \A v \in a + 1 .. b : \E i : OnChannel(q, ch, i) /\ q[i][2] = v
        /\ \A i, j : OnChannel(q, ch, i) /\ OnChannel(q, ch, j) => (i < j => q[i][2] < q[j][2])
    BY CarriesIs
  <1>3. \A i : OnChannel(w, ch, i) => OnChannel(q, ch, i + 1) /\ w[i] = q[i + 1] /\ i \in Nat
    BY <1>1 DEF OnChannel
  <1>4. \A i : OnChannel(q, ch, i) => OnChannel(w, ch, i - 1) /\ w[i - 1] = q[i]
    BY <1>1 DEF OnChannel
  <1>5. \A i : OnChannel(w, ch, i) => w[i][2] \in a + 1 .. b
    BY <1>2, <1>3
  <1>6. \A v \in a + 1 .. b : \E i : OnChannel(w, ch, i) /\ w[i][2] = v
    BY <1>2, <1>4
  <1>7. ASSUME NEW i, NEW j, OnChannel(w, ch, i), OnChannel(w, ch, j), i < j
        PROVE  w[i][2] < w[j][2]
    <2>1. OnChannel(q, ch, i + 1) /\ OnChannel(q, ch, j + 1) /\ w[i] = q[i + 1] /\ w[j] = q[j + 1] /\ i \in Nat /\ j \in Nat
      BY <1>7, <1>3
    <2>2. i + 1 < j + 1
      BY <1>7, <2>1
    <2>3. q[i + 1][2] < q[j + 1][2]
      BY <2>1, <2>2, <1>2
    <2> QED
      BY <2>1, <2>3
  <1>8. Carries(w, ch, a, b)
    BY <1>5, <1>6, <1>7, CarriesIs
  <1> QED
    BY <1>8 DEF w

\* ... and one that is a chunk is the next.
LEMMA TailNext ==
  ASSUME NEW q \in Seq(Frames), q # <<>>, NEW ch, NEW a \in Nat, NEW b \in Nat, Carries(q, ch, a, b),
         Head(q)[1] = ch, Head(q)[2] # 0
  PROVE  Head(q)[2] = a + 1 /\ a + 1 <= b /\ Carries(Tail(q), ch, a + 1, b)
  <1> DEFINE w == Tail(q)
  <1>1. /\ \A i : i \in DOMAIN w => i \in Nat \ {0} /\ i + 1 \in DOMAIN q /\ w[i] = q[i + 1]
        /\ \A i \in DOMAIN q : i # 1 => i \in Nat /\ i > 1 /\ i - 1 \in DOMAIN w /\ (i - 1) + 1 = i
        /\ Head(q) = q[1] /\ 1 \in DOMAIN q
    BY Shifted
  <1> HIDE DEF w
  <1>2. /\ \A i : OnChannel(q, ch, i) => q[i][2] \in a + 1 .. b
        /\ \A v \in a + 1 .. b : \E i : OnChannel(q, ch, i) /\ q[i][2] = v
        /\ \A i, j : OnChannel(q, ch, i) /\ OnChannel(q, ch, j) => (i < j => q[i][2] < q[j][2])
    BY CarriesIs
  <1>3. OnChannel(q, ch, 1) /\ q[1][2] \in a + 1 .. b
    BY <1>1, <1>2 DEF OnChannel
  <1>4. a + 1 \in a + 1 .. b
    BY <1>3
  <1>5. q[1][2] = a + 1
    <2>1. PICK i : OnChannel(q, ch, i) /\ q[i][2] = a + 1
      BY <1>2, <1>4
    <2>2. CASE i = 1
      BY <2>1, <2>2
    <2>3. CASE i # 1
      <3>1. 1 < i
        BY <2>1, <2>3, <1>1 DEF OnChannel
      <3>2. q[1][2] < a + 1
        BY <2>1, <3>1, <1>2, <1>3
      <3> QED
        BY <3>2, <1>3
    <2> QED
      BY <2>2, <2>3
  <1>6. \A i : OnChannel(w, ch, i) => OnChannel(q, ch, i + 1) /\ w[i] = q[i + 1] /\ i \in Nat /\ 1 < i + 1
    BY <1>1 DEF OnChannel
  <1>7. \A i : OnChannel(q, ch, i) /\ i # 1 => OnChannel(w, ch, i - 1) /\ w[i - 1] = q[i]
    BY <1>1 DEF OnChannel
  <1>8. \A i : OnChannel(w, ch, i) => w[i][2] \in (a + 1) + 1 .. b
    <2> SUFFICES ASSUME NEW i, OnChannel(w, ch, i) PROVE w[i][2] \in (a + 1) + 1 .. b
      OBVIOUS
    <2>1. OnChannel(q, ch, i + 1) /\ w[i] = q[i + 1] /\ 1 < i + 1
      BY <1>6
    <2>2. q[i + 1][2] \in a + 1 .. b /\ q[1][2] < q[i + 1][2]
      BY <2>1, <1>2, <1>3
    <2> QED
      BY <2>1, <2>2, <1>5
  <1>9. ASSUME NEW v \in (a + 1) + 1 .. b
        PROVE  \E i : OnChannel(w, ch, i) /\ w[i][2] = v
    <2>1. v \in a + 1 .. b /\ v # a + 1
      OBVIOUS
    <2>2. PICK i : OnChannel(q, ch, i) /\ q[i][2] = v
      BY <2>1, <1>2
    <2>3. i # 1
      BY <2>1, <2>2, <1>5
    <2> QED
      BY <2>2, <2>3, <1>7
  <1>10. ASSUME NEW i, NEW j, OnChannel(w, ch, i), OnChannel(w, ch, j), i < j
        PROVE  w[i][2] < w[j][2]
    <2>1. OnChannel(q, ch, i + 1) /\ OnChannel(q, ch, j + 1) /\ w[i] = q[i + 1] /\ w[j] = q[j + 1] /\ i \in Nat /\ j \in Nat
      BY <1>10, <1>6
    <2>2. i + 1 < j + 1
      BY <1>10, <2>1
    <2>3. q[i + 1][2] < q[j + 1][2]
      BY <2>1, <2>2, <1>2
    <2> QED
      BY <2>1, <2>3
  <1>11. Carries(w, ch, a + 1, b)
    BY <1>8, <1>9, <1>10, CarriesIs
  <1> QED
    BY <1>1, <1>3, <1>5, <1>11 DEF w

\* Of the chunks up to m the client got those up to n, the queue has those
\* after k; between the two some are lost only once the client has gone.
Flow(g, r, ch, left, m) ==
  \E n, k \in Nat : n <= k /\ k <= m /\ Carries(g, ch, 0, n) /\ Carries(r, ch, k, m) /\ (~ left => n = k)

\* A relay task puts its chunk in the queue.
LEMMA FlowPush ==
  ASSUME NEW g, NEW r \in Seq(Frames), NEW ch \in Nat, NEW left, NEW m \in Nat, Flow(g, r, ch, left, m)
  PROVE  Flow(g, Append(r, <<ch, m + 1>>), ch, left, m + 1)
  <1>1. PICK n, k \in Nat : n <= k /\ k <= m /\ Carries(g, ch, 0, n) /\ Carries(r, ch, k, m) /\ (~ left => n = k)
    BY DEF Flow
  <1>2. Carries(Append(r, <<ch, m + 1>>), ch, k, m + 1)
    BY <1>1, AppendNext
  <1>3. k <= m + 1
    BY <1>1
  <1> QED
    BY <1>1, <1>2, <1>3 DEF Flow

\* What is put in the queue on another channel, or is no chunk, is not in the way.
LEMMA FlowPushOther ==
  ASSUME NEW g, NEW r \in Seq(Frames), NEW ch, NEW left, NEW m \in Nat, Flow(g, r, ch, left, m),
         NEW x \in Frames, x[1] # ch \/ x[2] = 0
  PROVE  Flow(g, Append(r, x), ch, left, m)
  <1>1. PICK n, k \in Nat : n <= k /\ k <= m /\ Carries(g, ch, 0, n) /\ Carries(r, ch, k, m) /\ (~ left => n = k)
    BY DEF Flow
  <1>2. Carries(Append(r, x), ch, k, m)
    BY <1>1, AppendOther
  <1> QED
    BY <1>1, <1>2 DEF Flow

\* The first frame of the queue goes to the client, or is lost when it has left.
LEMMA FlowPop ==
  ASSUME NEW g \in Seq(Frames), NEW r \in Seq(Frames), r # <<>>, NEW ch \in Nat, NEW left \in BOOLEAN, NEW m \in Nat,
         Flow(g, r, ch, left, m)
  PROVE  Flow(IF left THEN g ELSE Append(g, Head(r)), Tail(r), ch, left, m)
  <1>1. PICK n, k \in Nat : n <= k /\ k <= m /\ Carries(g, ch, 0, n) /\ Carries(r, ch, k, m) /\ (~ left => n = k)
    BY DEF Flow
  <1>2. Head(r) \in Frames
    BY Shifted
  <1>3. CASE Head(r)[1] # ch \/ Head(r)[2] = 0
    <2>1. Carries(Tail(r), ch, k, m)
      BY <1>1, <1>3, TailOther
    <2>2. Carries(Append(g, Head(r)), ch, 0, n)
      BY <1>1, <1>2, <1>3, AppendOther
    <2> QED
      BY <1>1, <2>1, <2>2 DEF Flow
  <1>4. CASE Head(r)[1] = ch /\ Head(r)[2] # 0
    <2>1. Head(r)[2] = k + 1 /\ k + 1 <= m /\ Carries(Tail(r), ch, k + 1, m)
      BY <1>1, <1>4, TailNext
    <2>2. CASE left
      <3>1. n <= k + 1 /\ k + 1 \in Nat
        BY <1>1
      <3> QED
        BY <1>1, <2>1, <2>2, <3>1 DEF Flow
    <2>3. CASE ~ left
      <3>1. Head(r) = <<ch, n + 1>>
        BY <1>1, <1>2, <1>4, <2>1, <2>3 DEF Frames
      <3>2. Carries(Append(g, Head(r)), ch, 0, n + 1)
        <4>1. 0 \in Nat /\ 0 <= n
          BY <1>1
        <4> QED
          BY <1>1, <3>1, <4>1, AppendNext
      <3>3. n + 1 \in Nat /\ n + 1 <= k + 1 /\ k + 1 \in Nat /\ n + 1 = k + 1
        BY <1>1, <2>3
      <3> QED
        BY <2>1, <2>3, <3>2, <3>3 DEF Flow
    <2> QED
      BY <2>2, <2>3
  <1> QED
    BY <1>3, <1>4

\* Nothing has been sent.
LEMMA FlowEmpty == \A ch, left : Flow(<<>>, <<>>, ch, left, 0)
  <1>1. ASSUME NEW ch
        PROVE  Carries(<<>>, ch, 0, 0)
    <2>1. ChunksAt(<<>>, ch) = {}
      BY DEF ChunksAt
    <2>2. 0 + 1 .. 0 = {}
      OBVIOUS
    <2> QED
      BY <2>1, <2>2 DEF Carries
  <1> QED
    BY <1>1 DEF Flow

Stages == {"request", "lookup", "connect", "loop", "closed"}

PfTypes ==
  /\ pfTransport \in {"spdy", "ws", "other"} /\ ppc \in Stages /\ next \in 1 .. Ports + 1
  /\ sock \in [Conns -> {"none", "open", "failed"}] /\ task \in [Conns -> {"none", "read", "send", "done"}]
  /\ backend \in [Conns -> Nat] /\ asked \in [Conns -> Nat] /\ wrote \in [Conns -> Seq(Nat)]
  /\ relay \in Seq(Frames) /\ got \in Seq(Frames)
  /\ half \in 0 .. Ports /\ torn \in BOOLEAN /\ gone \in BOOLEAN

\* What comes of a connection before it is made and after the session's end,
\* and what the client may have sent by then.
Staged ==
  /\ \A c \in Conns : c >= next => task[c] = "none" /\ sock[c] = "none"
  /\ ppc \in {"request", "lookup"} => next = 1
  /\ ppc = "closed" => \A c \in Conns : task[c] \in {"none", "done"}
  /\ ppc \in {"request", "lookup", "connect"} => half = 0 /\ \A c \in Conns : asked[c] = 0 /\ wrote[c] = <<>>
  /\ pfTransport # "spdy" => half = 0
  /\ pfTransport = "spdy" => \A c \in Conns : c >= next => asked[c] = 0 /\ wrote[c] = <<>>
  /\ half # 0 => half < next /\ asked[half] >= 1

FromPort(c) ==
  \E m \in 0 .. backend[c] : Flow(got, relay, Channel(c), gone, m) /\ (ppc # "closed" => m = backend[c] - InHand(c))
ToPort(c) ==
  ~torn /\ ppc # "closed" /\ sock[c] = "open" => wrote[c] = Count(asked[c] - HalfRead(c))

\* The inductive invariant.
PfInv == PfTypes /\ Staged /\ \A c \in Conns : FromPort(c) /\ ToPort(c)

\* It says all that a run shows.
LEMMA PfInvRelays ==
  ASSUME PfInv
  PROVE  RelayedInOrder
  <1> SUFFICES ASSUME NEW c \in Conns
               PROVE  /\ \E n \in 0 .. backend[c] :
                           /\ Carries(got, Channel(c), 0, n)
                           /\ ~gone /\ ppc = "loop" => Carries(relay, Channel(c), n, backend[c] - InHand(c))
                      /\ ~torn /\ sock[c] = "open" /\ ppc # "closed" => wrote[c] = Count(asked[c] - HalfRead(c))
    BY DEF RelayedInOrder
  <1>1. PICK m \in 0 .. backend[c] : Flow(got, relay, Channel(c), gone, m) /\ (ppc # "closed" => m = backend[c] - InHand(c))
    BY DEF PfInv, FromPort
  <1>2. PICK n, k \in Nat : /\ n <= k /\ k <= m /\ Carries(got, Channel(c), 0, n) /\ Carries(relay, Channel(c), k, m)
                            /\ ~ gone => n = k
    BY <1>1 DEF Flow
  <1>3. n \in 0 .. backend[c]
    BY <1>1, <1>2 DEF PfInv, PfTypes
  <1>4. ~gone /\ ppc = "loop" => Carries(relay, Channel(c), n, backend[c] - InHand(c))
    BY <1>1, <1>2
  <1> QED
    BY <1>2, <1>3, <1>4 DEF PfInv, ToPort

\* The channels of the connections. A WebSocket has a byte to number them,
\* which is enough for 128 ports.
LEMMA ChannelsDiffer ==
  ASSUME Ports <= 128, NEW c \in Conns, NEW d \in Conns
  PROVE  Channel(c) \in Nat /\ ErrChannel(c) \in Nat /\ (Channel(c) = Channel(d) => c = d)
  <1>1. c \in 1 .. 128 /\ d \in 1 .. 128
    BY PortForwardAssumption DEF Conns
  <1>2. \A n \in 1 .. 128 : ((n - 1) % 256) * 2 % 256 = 2 * (n - 1)
    <2>1. \A n \in 1 .. 128 : (n - 1) % 256 = n - 1
      OBVIOUS
    <2>2. \A n \in 1 .. 128 : (2 * (n - 1)) % 256 = 2 * (n - 1)
      OBVIOUS
    <2> QED
      BY <2>1, <2>2
  <1>3. DataChannel(c) = 2 * (c - 1) /\ DataChannel(d) = 2 * (d - 1)
    BY <1>1, <1>2 DEF DataChannel
  <1> QED
    BY <1>1, <1>3 DEF Channel, ErrChannel

\* Counting goes on.
LEMMA CountNext ==
  /\ Count(0) = <<>>
  /\ \A n \in Nat : Count(n) \in Seq(Nat) /\ Append(Count(n), n + 1) = Count(n + 1)
  <1>1. Count(0) = <<>>
    BY DEF Count
  <1>2. ASSUME NEW n \in Nat
        PROVE  Count(n) \in Seq(Nat) /\ Append(Count(n), n + 1) = Count(n + 1)
    <2>1. Count(n) \in Seq(Nat) /\ Len(Count(n)) = n /\ Count(n + 1) \in Seq(Nat) /\ Len(Count(n + 1)) = n + 1
      BY DEF Count
    <2>2. \A i \in 1 .. n + 1 : Append(Count(n), n + 1)[i] = Count(n + 1)[i]
      BY <2>1 DEF Count
    <2>3. Append(Count(n), n + 1) \in Seq(Nat) /\ Len(Append(Count(n), n + 1)) = n + 1
      BY <2>1
    <2> HIDE DEF Count
    <2> QED
      BY <2>1, <2>2, <2>3, SeqEqual
  <1> QED
    BY <1>1, <1>2

\* Steps that leave alone what concerns the port's direction.
LEMMA FromKept ==
  ASSUME PfInv, NEW c \in Conns, UNCHANGED <<pfTransport, backend, got, relay, gone>>,
         ppc' # "closed" => ppc # "closed" /\ InHand(c)' = InHand(c)
  PROVE  FromPort(c)'
  BY DEF PfInv, FromPort, Channel

\* The same for the client's direction.
LEMMA ToKept ==
  ASSUME PfInv, NEW c \in Conns, UNCHANGED <<asked, wrote, torn, half>>, sock'[c] = sock[c],
         ppc' # "closed" => ppc # "closed"
  PROVE  ToPort(c)'
  BY DEF PfInv, ToPort, HalfRead

\* The session's own task goes on to its loop.
LEMMA StageStep ==
  ASSUME PfInv, DispatchForward \/ Lookup \/ AllConnected
  PROVE  PfInv'
  <1>1. /\ ppc \in {"request", "lookup", "connect"} /\ ppc' \in {"lookup", "connect", "loop", "closed"}
        /\ ppc' = "lookup" => ppc = "request"
        /\ UNCHANGED <<pfTransport, next, sock, task, backend, relay, got, asked, wrote, half, torn, gone>>
    BY DEF DispatchForward, Lookup, AllConnected, Stages
  <1>2. PfTypes'
    BY <1>1 DEF PfInv, PfTypes, Stages
  <1>3. ppc' = "closed" => \A c \in Conns : task[c] \in {"none", "done"}
    <2>1. CASE DispatchForward \/ Lookup
      <3>1. ppc \in {"request", "lookup"}
        BY <2>1 DEF DispatchForward, Lookup
      <3>2. \A c \in Conns : c >= next
        BY <3>1, PortForwardAssumption DEF PfInv, Staged, Conns
      <3> QED
        BY <3>2 DEF PfInv, Staged
    <2>2. CASE AllConnected
      BY <2>2 DEF AllConnected
    <2> QED
      BY <2>1, <2>2
  <1>4. Staged'
    BY <1>1, <1>3 DEF PfInv, Staged
  <1>5. \A c \in Conns : FromPort(c)' /\ ToPort(c)'
    BY <1>1, FromKept, ToKept DEF InHand
  <1> QED
    BY <1>2, <1>4, <1>5 DEF PfInv

\* A port is connected to before the loop.
LEMMA ConnectStep ==
  ASSUME PfInv, ConnectPort, Ports <= 128
  PROVE  PfInv'
  <1>1. /\ ppc = "connect" /\ ppc' = ppc /\ next \in Conns /\ next' = next + 1
        /\ UNCHANGED <<pfTransport, backend, got, asked, wrote, half, torn, gone>>
        /\ PfTypes /\ Staged
    BY PortForwardAssumption DEF ConnectPort, PfInv, PfTypes, Conns
  <1>2. task[next] = "none" /\ sock[next] = "none" /\ half = 0 /\ \A c \in Conns : asked[c] = 0 /\ wrote[c] = <<>>
    BY <1>1 DEF Staged, PfTypes, Conns
  <1> DEFINE x == <<ErrChannel(next), 0>>
  <1>3. x \in Frames /\ x[2] = 0
    BY <1>1, ChannelsDiffer DEF Frames
  <1> HIDE DEF x
  <1>4. \/ Connected(next) /\ UNCHANGED relay
        \/ sock' = [sock EXCEPT ![next] = "failed"] /\ relay' = Append(relay, x) /\ UNCHANGED task
    BY DEF ConnectPort, x
  <1>5. /\ sock' \in [Conns -> {"none", "open", "failed"}] /\ task' \in [Conns -> {"none", "read", "send", "done"}]
        /\ \A c \in Conns : c # next => sock'[c] = sock[c] /\ task'[c] = task[c]
        /\ task'[next] \in {"none", "read"}
    BY <1>1, <1>2, <1>4 DEF Connected, PfTypes
  <1>6. relay' \in Seq(Frames)
    <2>1. relay \in Seq(Frames) /\ (relay' = relay \/ relay' = Append(relay, x))
      BY <1>1, <1>4 DEF PfTypes
    <2> QED
      BY <1>3, <2>1, Appended
  <1>7. PfTypes'
    <2>1. next' \in 1 .. Ports + 1
      BY <1>1, PortForwardAssumption DEF Conns
    <2> QED
      BY <1>1, <1>5, <1>6, <2>1 DEF PfTypes
  <1>8. Staged'
    <2>1. \A c \in Conns : c >= next + 1 => c # next /\ c >= next
      BY <1>1 DEF Conns
    <2> QED
      BY <1>1, <1>2, <1>5, <2>1 DEF Staged
  <1>9. ASSUME NEW c \in Conns
        PROVE  FromPort(c)'
    <2>1. PICK m \in 0 .. backend[c] : Flow(got, relay, Channel(c), gone, m) /\ m = backend[c] - InHand(c)
      BY <1>1 DEF PfInv, FromPort
    <2>2. Flow(got, relay', Channel(c), gone, m)
      <3>1. m \in Nat /\ relay \in Seq(Frames)
        BY <1>1, <2>1 DEF PfTypes
      <3> QED
        BY <1>3, <1>4, <2>1, <3>1, FlowPushOther
    <2>3. InHand(c)' = InHand(c) /\ Channel(c)' = Channel(c)
      BY <1>1, <1>2, <1>5 DEF InHand, Channel
    <2> QED
      BY <1>1, <2>1, <2>2, <2>3 DEF FromPort
  <1>10. ASSUME NEW c \in Conns
         PROVE  ToPort(c)'
    <2>1. asked'[c] = 0 /\ wrote'[c] = <<>> /\ half' = 0 /\ c # 0
      BY <1>1, <1>2 DEF Conns
    <2>2. HalfRead(c)' = 0
      BY <2>1 DEF HalfRead
    <2> QED
      BY <2>1, <2>2, CountNext DEF ToPort
  <1> QED
    BY <1>7, <1>8, <1>9, <1>10 DEF PfInv

\* The facts about the state that every step starts from.
LEMMA PfFacts ==
  ASSUME PfInv
  PROVE  /\ PfTypes /\ Staged
         /\ \A c \in Conns : FromPort(c) /\ ToPort(c) /\ c \in Nat \ {0} /\ backend[c] \in Nat /\ asked[c] \in Nat
         /\ Ports \in Nat /\ next \in Nat
  BY PortForwardAssumption DEF PfInv, PfTypes, Conns

\* A relay task reads a chunk: it is in its hands.
LEMMA PortSendsStep ==
  ASSUME PfInv, NEW d \in Conns, PortSends(d)
  PROVE  PfInv'
  <1>1. /\ task[d] = "read" /\ backend' = [backend EXCEPT ![d] = @ + 1] /\ task' = [task EXCEPT ![d] = "send"]
        /\ UNCHANGED <<pfTransport, ppc, next, sock, relay, got, asked, wrote, half, torn, gone>>
    BY DEF PortSends
  <1>2. PfTypes' /\ backend[d] \in Nat /\ backend'[d] = backend[d] + 1 /\ task'[d] = "send"
    BY <1>1, PfFacts DEF PfTypes
  <1>3. \A c \in Conns : c # d => task'[c] = task[c] /\ backend'[c] = backend[c]
    BY <1>1, PfFacts DEF PfTypes
  <1>4. ppc # "closed" /\ ~ (d >= next)
    BY <1>1, PfFacts DEF Staged
  <1>5. Staged'
    BY <1>1, <1>3, <1>4, PfFacts DEF Staged
  <1>6. ASSUME NEW c \in Conns
        PROVE  FromPort(c)' /\ ToPort(c)'
    <2>1. PICK m \in 0 .. backend[c] : Flow(got, relay, Channel(c), gone, m) /\ m = backend[c] - InHand(c)
      BY <1>4, PfFacts DEF FromPort
    <2>2. m \in 0 .. backend'[c] /\ m = backend'[c] - InHand(c)'
      <3>1. CASE c = d
        BY <1>1, <1>2, <2>1, <3>1 DEF InHand
      <3>2. CASE c # d
        BY <1>3, <2>1, <3>2 DEF InHand
      <3> QED
        BY <3>1, <3>2
    <2>3. FromPort(c)'
      BY <1>1, <2>1, <2>2 DEF FromPort, Channel
    <2> QED
      BY <1>1, <2>3, ToKept
  <1> QED
    BY <1>2, <1>5, <1>6 DEF PfInv

\* It puts the chunk in the queue.
LEMMA RelaySendStep ==
  ASSUME PfInv, NEW d \in Conns, RelaySend(d), Ports <= 128
  PROVE  PfInv'
  <1> DEFINE x == <<Channel(d), backend[d]>>
  <1>1. /\ task[d] = "send" /\ relay' = Append(relay, x) /\ task' = [task EXCEPT ![d] = "read"]
        /\ UNCHANGED <<pfTransport, ppc, next, sock, backend, got, asked, wrote, half, torn, gone>>
    BY DEF RelaySend
  <1>2. x \in Frames /\ x[1] = Channel(d) /\ relay \in Seq(Frames)
    BY ChannelsDiffer, PfFacts DEF Frames, PfTypes
  <1>3. task'[d] = "read" /\ task' \in [Conns -> {"none", "read", "send", "done"}] /\ \A c \in Conns : c # d => task'[c] = task[c]
    BY <1>1, PfFacts DEF PfTypes
  <1>4. ppc # "closed" /\ ~ (d >= next)
    BY <1>1, PfFacts DEF Staged
  <1>5. PfTypes'
    <2> HIDE DEF x
    <2>1. relay' \in Seq(Frames)
      BY <1>1, <1>2, Appended
    <2> QED
      BY <1>1, <1>3, <2>1, PfFacts DEF PfTypes
  <1>6. Staged'
    BY <1>1, <1>3, <1>4, PfFacts DEF Staged
  <1>7. ASSUME NEW c \in Conns
        PROVE  FromPort(c)' /\ ToPort(c)'
    <2>1. PICK m \in 0 .. backend[c] : Flow(got, relay, Channel(c), gone, m) /\ m = backend[c] - InHand(c)
      BY <1>4, PfFacts DEF FromPort
    <2>2. CASE c = d
      <3>1. m \in Nat /\ backend[c] = m + 1 /\ Channel(c) \in Nat
        BY <1>1, <2>1, <2>2, PfFacts, ChannelsDiffer DEF InHand
      <3>2. Flow(got, relay', Channel(c), gone, m + 1)
        BY <1>1, <1>2, <2>1, <2>2, <3>1, FlowPush
      <3>3. m + 1 \in 0 .. backend[c] /\ m + 1 = backend[c] - InHand(c)'
        BY <1>3, <2>2, <3>1 DEF InHand
      <3> QED
        BY <1>1, <3>2, <3>3, ToKept DEF FromPort, Channel
    <2>3. CASE c # d
      <3>1. m \in Nat /\ Channel(d) # Channel(c)
        BY <2>1, <2>3, PfFacts, ChannelsDiffer
      <3>2. Flow(got, relay', Channel(c), gone, m)
        <4> HIDE DEF x
        <4> QED
          BY <1>1, <1>2, <2>1, <3>1, FlowPushOther
      <3>3. m = backend[c] - InHand(c)'
        BY <1>3, <2>1, <2>3 DEF InHand
      <3> QED
        BY <1>1, <2>1, <3>2, <3>3, ToKept DEF FromPort, Channel
    <2> QED
      BY <2>2, <2>3
  <1> QED
    BY <1>5, <1>6, <1>7 DEF PfInv

\* It ends, and may tell why.
LEMMA PortEndsStep ==
  ASSUME PfInv, NEW d \in Conns, PortEnds(d), Ports <= 128
  PROVE  PfInv'
  <1> DEFINE x == <<ErrChannel(d), 0>>
  <1>1. /\ task[d] = "read" /\ (relay' = relay \/ relay' = Append(relay, x)) /\ task' = [task EXCEPT ![d] = "done"]
        /\ UNCHANGED <<pfTransport, ppc, next, sock, backend, got, asked, wrote, half, torn, gone>>
    BY DEF PortEnds
  <1>2. x \in Frames /\ x[2] = 0 /\ relay \in Seq(Frames)
    BY ChannelsDiffer, PfFacts DEF Frames, PfTypes
  <1> HIDE DEF x
  <1>3. task'[d] = "done" /\ task' \in [Conns -> {"none", "read", "send", "done"}] /\ \A c \in Conns : c # d => task'[c] = task[c]
    BY <1>1, PfFacts DEF PfTypes
  <1>4. ppc # "closed" /\ ~ (d >= next)
    BY <1>1, PfFacts DEF Staged
  <1>5. PfTypes'
    <2>1. relay' \in Seq(Frames)
      BY <1>1, <1>2, Appended
    <2> QED
      BY <1>1, <1>3, <2>1, PfFacts DEF PfTypes
  <1>6. Staged'
    BY <1>1, <1>3, <1>4, PfFacts DEF Staged
  <1>7. ASSUME NEW c \in Conns
        PROVE  FromPort(c)' /\ ToPort(c)'
    <2>1. PICK m \in 0 .. backend[c] : Flow(got, relay, Channel(c), gone, m) /\ m = backend[c] - InHand(c)
      BY <1>4, PfFacts DEF FromPort
    <2>2. Flow(got, relay', Channel(c), gone, m)
      <3>1. m \in Nat
        BY <2>1, PfFacts
      <3> QED
        BY <1>1, <1>2, <2>1, <3>1, FlowPushOther
    <2>3. m = backend[c] - InHand(c)'
      BY <1>1, <1>3, <2>1 DEF InHand
    <2> QED
      BY <1>1, <2>1, <2>2, <2>3, ToKept DEF FromPort, Channel
  <1> QED
    BY <1>5, <1>6, <1>7 DEF PfInv

\* The end of a session leaves no task that has something in its hands.
LEMMA Ended ==
  ASSUME PfInv, EndSession
  PROVE  /\ ppc' = "closed" /\ task' \in [Conns -> {"none", "read", "send", "done"}]
         /\ \A c \in Conns : task'[c] \in {"none", "done"} /\ (c >= next => task'[c] = "none")
  <1>1. ppc' = "closed" /\ \A c \in Conns : task'[c] = IF task[c] = "none" THEN "none" ELSE "done"
    BY DEF EndSession
  <1>2. task' \in [Conns -> {"none", "read", "send", "done"}]
    BY DEF EndSession
  <1> QED
    BY <1>1, <1>2, PfFacts DEF Staged

\* The loop serves the queue.
LEMMA OutboundStep ==
  ASSUME PfInv, Outbound, Ports <= 128
  PROVE  PfInv'
  <1>1. /\ ppc = "loop" /\ relay # <<>> /\ relay' = Tail(relay) /\ half' = 0 /\ torn' = (torn \/ half # 0)
        /\ got' = IF gone THEN got ELSE Append(got, Head(relay))
        /\ EndSession \/ UNCHANGED <<ppc, task>>
        /\ UNCHANGED <<pfTransport, next, sock, backend, asked, wrote, gone>>
    BY DEF Outbound
  <1>2. relay \in Seq(Frames) /\ got \in Seq(Frames) /\ gone \in BOOLEAN /\ torn \in BOOLEAN
    BY PfFacts DEF PfTypes
  <1>3. Tail(relay) \in Seq(Frames) /\ got' \in Seq(Frames)
    BY <1>1, <1>2, Shifted, Appended
  <1>4. PfTypes'
    <2>1. torn' \in BOOLEAN /\ half' \in 0 .. Ports
      BY <1>1, <1>2, PfFacts
    <2>2. ppc' \in Stages /\ task' \in [Conns -> {"none", "read", "send", "done"}]
      BY <1>1, Ended, PfFacts DEF PfTypes, Stages
    <2> QED
      BY <1>1, <1>3, <2>1, <2>2, PfFacts DEF PfTypes
  <1>5. Staged'
    <2>1. ppc' \in {"loop", "closed"}
      BY <1>1, Ended
    <2>2. ppc' = "closed" => EndSession
      BY <1>1
    <2>3. \A c \in Conns : c >= next => task'[c] = "none"
      BY <1>1, Ended, PfFacts DEF Staged
    <2> QED
      BY <1>1, <2>1, <2>2, <2>3, Ended, PfFacts DEF Staged
  <1>6. ASSUME NEW c \in Conns
        PROVE  FromPort(c)' /\ ToPort(c)'
    <2>1. PICK m \in 0 .. backend[c] : Flow(got, relay, Channel(c), gone, m) /\ m = backend[c] - InHand(c)
      BY <1>1, PfFacts DEF FromPort
    <2>2. Flow(got', relay', Channel(c), gone, m)
      <3>1. m \in Nat /\ Channel(c) \in Nat
        BY <2>1, PfFacts, ChannelsDiffer
      <3> QED
        BY <1>1, <1>2, <2>1, <3>1, FlowPop
    <2>3. ppc' # "closed" => m = backend[c] - InHand(c)'
      BY <1>1, <2>1, Ended DEF InHand
    <2>4. FromPort(c)'
      BY <1>1, <2>1, <2>2, <2>3 DEF FromPort, Channel
    <2>5. ~ torn' => half = 0 /\ ~ torn
      BY <1>1, <1>2
    <2>6. ToPort(c)'
      BY <1>1, <2>5, PfFacts DEF ToPort, HalfRead
    <2> QED
      BY <2>4, <2>6
  <1> QED
    BY <1>4, <1>5, <1>6 DEF PfInv

\* The loop ends the session.
LEMMA CloseStep ==
  ASSUME PfInv, Close
  PROVE  PfInv'
  <1>1. EndSession /\ UNCHANGED <<pfTransport, next, sock, backend, relay, got, asked, wrote, half, torn, gone>>
    BY DEF Close
  <1>2. ppc' = "closed"
    BY <1>1, Ended
  <1>3. PfTypes' /\ Staged'
    BY <1>1, Ended, PfFacts DEF PfTypes, Staged, Stages
  <1>4. \A c \in Conns : FromPort(c)' /\ ToPort(c)'
    BY <1>1, <1>2, PfFacts, FromKept DEF ToPort
  <1> QED
    BY <1>3, <1>4 DEF PfInv

\* The client may leave at any time.
LEMMA LeaveStep ==
  ASSUME PfInv, Leave
  PROVE  PfInv'
  <1>1. gone' = TRUE /\ UNCHANGED <<pfTransport, ppc, next, sock, task, backend, relay, got, asked, wrote, half, torn>>
    BY DEF Leave
  <1>2. PfTypes' /\ Staged'
    BY <1>1, PfFacts DEF PfTypes, Staged
  <1>3. ASSUME NEW c \in Conns
        PROVE  FromPort(c)' /\ ToPort(c)'
    <2>1. PICK m \in 0 .. backend[c] : Flow(got, relay, Channel(c), gone, m) /\ (ppc # "closed" => m = backend[c] - InHand(c))
      BY PfFacts DEF FromPort
    <2>2. Flow(got, relay, Channel(c), gone', m)
      BY <1>1, <2>1 DEF Flow
    <2>3. FromPort(c)'
      BY <1>1, <2>1, <2>2 DEF FromPort, Channel, InHand
    <2> QED
      BY <1>1, <2>3, ToKept
  <1> QED
    BY <1>2, <1>3 DEF PfInv

\* A SPDY client opens a stream.
LEMMA OpenStreamStep ==
  ASSUME PfInv, OpenStream
  PROVE  PfInv'
  <1>1. /\ ppc = "loop" /\ pfTransport = "spdy" /\ half = 0 /\ next \in Conns /\ next' = next + 1
        /\ \/ Connected(next)
           \/ sock' = [sock EXCEPT ![next] = "failed"] /\ UNCHANGED task
           \/ UNCHANGED <<sock, task>>
        /\ UNCHANGED <<pfTransport, ppc, backend, relay, got, asked, wrote, half, torn, gone>>
    BY PfFacts DEF OpenStream, PfTypes, Conns
  <1>2. task[next] = "none" /\ sock[next] = "none" /\ asked[next] = 0 /\ wrote[next] = <<>>
    BY <1>1, PfFacts DEF Staged
  <1>3. /\ sock' \in [Conns -> {"none", "open", "failed"}] /\ task' \in [Conns -> {"none", "read", "send", "done"}]
        /\ \A c \in Conns : c # next => sock'[c] = sock[c] /\ task'[c] = task[c]
        /\ task'[next] \in {"none", "read"}
    BY <1>1, <1>2, PfFacts DEF Connected, PfTypes
  <1>4. PfTypes'
    <2>1. next' \in 1 .. Ports + 1
      BY <1>1, PfFacts DEF Conns
    <2> QED
      BY <1>1, <1>3, <2>1, PfFacts DEF PfTypes
  <1>5. Staged'
    <2>1. \A c \in Conns : c >= next + 1 => c # next /\ c >= next
      BY <1>1, PfFacts
    <2> QED
      BY <1>1, <1>3, <2>1, PfFacts DEF Staged
  <1>6. ASSUME NEW c \in Conns
        PROVE  FromPort(c)' /\ ToPort(c)'
    <2>1. InHand(c)' = InHand(c)
      BY <1>2, <1>3 DEF InHand
    <2>2. FromPort(c)'
      BY <1>1, <2>1, FromKept
    <2>3. CASE c = next
      <3>1. HalfRead(c)' = 0
        BY <1>1, PfFacts DEF HalfRead
      <3>2. asked'[c] = 0 /\ wrote'[c] = <<>>
        BY <1>1, <1>2, <2>3
      <3>3. wrote'[c] = Count(asked'[c] - HalfRead(c)')
        BY <3>1, <3>2, CountNext
      <3> QED
        BY <2>2, <3>3 DEF ToPort
    <2>4. CASE c # next
      BY <1>1, <1>3, <2>2, <2>4, ToKept
    <2> QED
      BY <2>3, <2>4
  <1> QED
    BY <1>4, <1>5, <1>6 DEF PfInv

\* The first part of a frame.
LEMMA ClientHalfStep ==
  ASSUME PfInv, NEW d \in Conns, ClientHalf(d)
  PROVE  PfInv'
  <1>1. /\ ppc = "loop" /\ pfTransport = "spdy" /\ half = 0 /\ d < next /\ half' = d /\ asked' = [asked EXCEPT ![d] = @ + 1]
        /\ UNCHANGED <<pfTransport, ppc, next, sock, task, backend, relay, got, wrote, torn, gone>>
    BY DEF ClientHalf
  <1>2. asked' \in [Conns -> Nat] /\ asked'[d] = asked[d] + 1 /\ \A c \in Conns : c # d => asked'[c] = asked[c]
    BY <1>1, PfFacts DEF PfTypes
  <1>3. PfTypes'
    <2>1. half' \in 0 .. Ports
      BY <1>1, PfFacts DEF Conns
    <2> QED
      BY <1>1, <1>2, <2>1, PfFacts DEF PfTypes
  <1>4. Staged'
    <2>1. ~ (d >= next) /\ asked'[d] >= 1
      BY <1>1, <1>2, PfFacts
    <2> QED
      BY <1>1, <1>2, <2>1, PfFacts DEF Staged
  <1>5. ASSUME NEW c \in Conns
        PROVE  FromPort(c)' /\ ToPort(c)'
    <2>1. FromPort(c)'
      BY <1>1, FromKept DEF InHand
    <2>2. asked'[c] - HalfRead(c)' = asked[c] - HalfRead(c)
      BY <1>1, <1>2, PfFacts DEF HalfRead
    <2> QED
      BY <1>1, <2>1, <2>2, PfFacts DEF ToPort
  <1> QED
    BY <1>3, <1>4, <1>5 DEF PfInv

\* What is written to a connection.
LEMMA Delivered ==
  ASSUME PfInv, NEW d \in Conns, NEW n \in Nat, Deliver(d, n)
  PROVE  /\ wrote' \in [Conns -> Seq(Nat)]
         /\ \A c \in Conns : c # d => wrote'[c] = wrote[c]
         /\ sock[d] = "open" => wrote'[d] = Append(wrote[d], n)
         /\ sock[d] # "open" => wrote'[d] = wrote[d]
  <1>1. wrote \in [Conns -> Seq(Nat)] /\ Append(wrote[d], n) \in Seq(Nat)
    BY PfFacts DEF PfTypes
  <1> QED
    BY <1>1 DEF Deliver

\* The rest of a frame.
LEMMA SpdyDataStep ==
  ASSUME PfInv, SpdyData
  PROVE  PfInv'
  <1>1. /\ ppc = "loop" /\ half # 0 /\ half' = 0
        /\ UNCHANGED <<pfTransport, ppc, next, sock, task, backend, relay, got, asked, torn, gone>>
    BY DEF SpdyData
  <1>2. pfTransport = "spdy" /\ half \in Conns /\ half < next /\ asked[half] \in Nat /\ asked[half] >= 1
    BY <1>1, PfFacts DEF Staged, PfTypes, Conns
  <1>3. PICK d \in Conns, n \in Nat : Deliver(d, n) /\ (~ torn => d = half /\ n = asked[half]) /\ (torn => n = 0)
    BY <1>2, PfFacts DEF SpdyData, PfTypes
  <1>4. /\ wrote' \in [Conns -> Seq(Nat)]
        /\ \A c \in Conns : c # d => wrote'[c] = wrote[c]
        /\ sock[d] = "open" => wrote'[d] = Append(wrote[d], n)
        /\ sock[d] # "open" => wrote'[d] = wrote[d]
    BY <1>3, Delivered
  <1>5. PfTypes'
    <2>1. half' \in 0 .. Ports
      BY <1>1, PfFacts
    <2> QED
      BY <1>1, <1>4, <2>1, PfFacts DEF PfTypes
  <1>6. Staged'
    <2>1. \A c \in Conns : c >= next => sock[c] = "none" /\ wrote'[c] = wrote[c]
      BY <1>4, PfFacts DEF Staged
    <2> QED
      BY <1>1, <1>2, <2>1, PfFacts DEF Staged
  <1>7. ASSUME NEW c \in Conns
        PROVE  FromPort(c)' /\ ToPort(c)'
    <2>1. FromPort(c)'
      BY <1>1, FromKept DEF InHand
    <2>2. HalfRead(c)' = 0
      BY <1>1, PfFacts DEF HalfRead
    <2>3. ASSUME ~ torn, sock[c] = "open"
          PROVE  wrote'[c] = Count(asked[c])
      <3>1. wrote[c] = Count(asked[c] - HalfRead(c))
        BY <1>1, <2>3, PfFacts DEF ToPort
      <3>2. CASE c = half
        <4>1. wrote[c] = Count(asked[c] - 1) /\ asked[c] - 1 \in Nat /\ (asked[c] - 1) + 1 = asked[c]
          BY <1>2, <3>1, <3>2 DEF HalfRead
        <4>2. wrote'[c] = Append(wrote[c], asked[c])
          BY <1>3, <1>4, <2>3, <3>2
        <4> QED
          BY <4>1, <4>2, CountNext
      <3>3. CASE c # half
        <4>1. wrote[c] = Count(asked[c]) /\ wrote'[c] = wrote[c]
          BY <1>3, <1>4, <2>3, <3>1, <3>3, PfFacts DEF HalfRead
        <4> QED
          BY <4>1
      <3> QED
        BY <3>2, <3>3
    <2>4. asked'[c] - HalfRead(c)' = asked[c]
      BY <1>1, <2>2, PfFacts
    <2> QED
      BY <1>1, <2>1, <2>3, <2>4 DEF ToPort
  <1> QED
    BY <1>5, <1>6, <1>7 DEF PfInv

\* A whole message.
LEMMA WsDataStep ==
  ASSUME PfInv, NEW d \in Conns, WsData(d)
  PROVE  PfInv'
  <1>1. /\ ppc = "loop" /\ pfTransport = "ws" /\ half = 0 /\ asked' = [asked EXCEPT ![d] = @ + 1]
        /\ UNCHANGED <<pfTransport, next, sock, backend, relay, got, half, torn, gone>>
    BY PfFacts DEF WsData, Staged
  <1>2. asked' \in [Conns -> Nat] /\ asked'[d] = asked[d] + 1 /\ \A c \in Conns : c # d => asked'[c] = asked[c]
    BY <1>1, PfFacts DEF PfTypes
  <1>3. CASE EndSession /\ UNCHANGED wrote
    <2>1. PfTypes' /\ Staged'
      BY <1>1, <1>2, <1>3, Ended, PfFacts DEF PfTypes, Staged, Stages
    <2>2. \A c \in Conns : FromPort(c)' /\ ToPort(c)'
      BY <1>1, <1>3, Ended, PfFacts, FromKept DEF ToPort
    <2> QED
      BY <2>1, <2>2 DEF PfInv
  <1>4. CASE Deliver(d, asked[d] + 1) /\ UNCHANGED <<ppc, task>>
    <2>1. /\ wrote' \in [Conns -> Seq(Nat)]
          /\ \A c \in Conns : c # d => wrote'[c] = wrote[c]
          /\ sock[d] = "open" => wrote'[d] = Append(wrote[d], asked[d] + 1)
      <3>1. asked[d] + 1 \in Nat
        BY PfFacts
      <3> QED
        BY <1>4, <3>1, Delivered
    <2>2. PfTypes'
      BY <1>1, <1>2, <1>4, <2>1, PfFacts DEF PfTypes
    <2>3. Staged'
      BY <1>1, <1>4, PfFacts DEF Staged
    <2>4. ASSUME NEW c \in Conns
          PROVE  FromPort(c)' /\ ToPort(c)'
      <3>1. FromPort(c)'
        BY <1>1, <1>4, FromKept DEF InHand
      <3>2. HalfRead(c)' = 0 /\ HalfRead(c) = 0
        BY <1>1, PfFacts DEF HalfRead
      <3>3. asked'[c] - HalfRead(c)' = asked'[c] /\ asked[c] - HalfRead(c) = asked[c]
        BY <1>2, <3>2, PfFacts DEF PfTypes
      <3>4. ~ torn /\ sock[c] = "open" => wrote[c] = Count(asked[c])
        BY <1>1, <3>3, PfFacts DEF ToPort
      <3>5. ~ torn /\ sock[c] = "open" => wrote'[c] = Count(asked'[c])
        <4>1. CASE c = d
          <5>1. asked[c] \in Nat
            BY PfFacts
          <5> QED
            BY <1>2, <2>1, <3>4, <4>1, <5>1, CountNext
        <4>2. CASE c # d
          BY <1>2, <2>1, <3>4, <4>2
        <4> QED
          BY <4>1, <4>2
      <3> QED
        BY <1>1, <3>1, <3>3, <3>5 DEF ToPort
    <2> QED
      BY <2>2, <2>3, <2>4 DEF PfInv
  <1> QED
    BY <1>3, <1>4 DEF WsData

\* Every step keeps the invariant.
LEMMA PfStep ==
  ASSUME PfInv, [Next]_vars, Ports <= 128
  PROVE  PfInv'
  <1>1. CASE UNCHANGED pfVars
    <2>1. PfTypes' /\ Staged'
      BY <1>1, PfFacts DEF PfTypes, Staged, pfVars
    <2>2. \A c \in Conns : FromPort(c)' /\ ToPort(c)'
      BY <1>1, FromKept, ToKept DEF pfVars, InHand
    <2> QED
      BY <2>1, <2>2 DEF PfInv
  <1>2. CASE PfNext
    BY <1>2, StageStep, ConnectStep, OutboundStep, SpdyDataStep, CloseStep, PortSendsStep, RelaySendStep, PortEndsStep,
       ClientHalfStep, WsDataStep, OpenStreamStep, LeaveStep
    DEF PfNext, LoopSteps
  <1> QED
    BY <1>1, <1>2 DEF Next, Exec, Forward, Log, Gate, vars

\* What a port sends reaches the client of a port-forward session on the
\* port's channel, whole and in order, and what the client sends reaches the
\* port in order, for every number of ports, chunks and places in the queue,
\* and wherever a connection fails or ends (run_port_forward_spdy,
\* run_port_forward_ws and their relay tasks).  The one assumption: a
\* WebSocket has a byte to number the channels of the ports, two for each, so
\* that with more than 128 ports two of them would share a channel.
THEOREM RelayIsInOrder ==
  ASSUME Ports <= 128
  PROVE  Spec => []RelayedInOrder
  <1>1. Init => PfInv
    <2> SUFFICES ASSUME Init PROVE PfInv
      OBVIOUS
    <2>1. /\ pfTransport \in {"spdy", "ws", "other"} /\ ppc = "request" /\ next = 1
          /\ sock = [c \in Conns |-> "none"] /\ task = [c \in Conns |-> "none"]
          /\ backend = [c \in Conns |-> 0] /\ asked = [c \in Conns |-> 0] /\ wrote = [c \in Conns |-> <<>>]
          /\ relay = <<>> /\ got = <<>> /\ half = 0 /\ torn = FALSE /\ gone = FALSE
      BY DEF Init, PfInit
    <2>2. PfTypes
      <3>1. next \in 1 .. Ports + 1 /\ half \in 0 .. Ports
        BY <2>1, PortForwardAssumption
      <3>2. backend \in [Conns -> Nat] /\ asked \in [Conns -> Nat] /\ wrote \in [Conns -> Seq(Nat)]
        BY <2>1
      <3>3. relay \in Seq(Frames) /\ got \in Seq(Frames)
        BY <2>1
      <3>4. sock \in [Conns -> {"none", "open", "failed"}] /\ task \in [Conns -> {"none", "read", "send", "done"}]
        BY <2>1
      <3> QED
        BY <2>1, <3>1, <3>2, <3>3, <3>4 DEF PfTypes, Stages
    <2>3. Staged
      BY <2>1 DEF Staged
    <2>4. ASSUME NEW c \in Conns
          PROVE  FromPort(c) /\ ToPort(c)
      BY <2>1, FlowEmpty DEF FromPort, ToPort, InHand
    <2> QED
      BY <2>2, <2>3, <2>4 DEF PfInv
  <1>2. PfInv /\ [Next]_vars => PfInv'
    BY PfStep
  <1>3. PfInv => RelayedInOrder
    BY PfInvRelays
  <1> QED
    BY <1>1, <1>2, <1>3, PTL DEF Spec

----------------------------------------------------------------------------
(***************************************************************************)
(* Sequences made step by step.                                            *)
(***************************************************************************)
\* f begins with base and goes on by steps, on k..m.
Iterates(f, k, m, base, step) ==
  \A n \in k .. m : f[n] = IF n = k THEN base ELSE step[n][f[n - 1]]

\* g does so too, where the steps are defined.
Follows(g, k, N, X, base, step) ==
  g[k] = base /\ \A n \in k + 1 .. N : g[n - 1] \in X => g[n] = step[n][g[n - 1]]

\* Such steps, and that there is such a function and only one.
Steps(k, N, X, base, step) ==
  k \in Nat /\ N \in Nat /\ k =< N /\ base \in X /\ step \in [k + 1 .. N -> [X -> X]]

Iterated(k, N, X, base, step) ==
  \E f \in [k .. N -> X] :
    /\ Iterates(f, k, N, base, step)
    /\ \A g : Follows(g, k, N, X, base, step) => \A n \in k .. N : g[n] = f[n]

\* There always is.
LEMMA Iteration ==
  ASSUME NEW k, NEW N, NEW X, NEW base, NEW step, Steps(k, N, X, base, step)
  PROVE  Iterated(k, N, X, base, step)
  <1> USE DEF Steps
  <1> DEFINE Able(m) == \E f \in [k .. m -> X] : Iterates(f, k, m, base, step)
             bad == {n \in k .. N : ~ Able(n)}
  <1>1. Able(k)
    <2> DEFINE f == [n \in k .. k |-> base]
    <2>1. f \in [k .. k -> X] /\ Iterates(f, k, k, base, step)
      BY DEF Iterates
    <2> QED
      BY <2>1
  <1>2. ASSUME NEW m \in k .. N, m + 1 \in k .. N, Able(m)
        PROVE  Able(m + 1)
    <2>1. PICK f \in [k .. m -> X] : Iterates(f, k, m, base, step)
      BY <1>2
    <2> DEFINE x == step[m + 1][f[m]]
               g == [n \in k .. m + 1 |-> IF n = m + 1 THEN x ELSE f[n]]
    <2>2. m + 1 \in k + 1 .. N /\ m \in k .. m
      BY <1>2
    <2>3. step[m + 1] \in [X -> X] /\ f[m] \in X
      BY <2>2
    <2>4. x \in X
      BY <2>3
    <2> HIDE DEF x
    <2>5. g \in [k .. m + 1 -> X]
      BY <2>4
    <2>6. Iterates(g, k, m + 1, base, step)
      <3> SUFFICES ASSUME NEW n \in k .. m + 1
                   PROVE  g[n] = IF n = k THEN base ELSE step[n][g[n - 1]]
        BY DEF Iterates
      <3>1. CASE n = m + 1
        <4>1. g[n] = x /\ n # k /\ g[n - 1] = f[m]
          BY <3>1, <2>2
        <4> QED
          BY <3>1, <4>1 DEF x
      <3>2. CASE n # m + 1
        <4>1. n \in k .. m /\ g[n] = f[n] /\ (n # k => g[n - 1] = f[n - 1])
          BY <3>2
        <4> QED
          BY <2>1, <4>1 DEF Iterates
      <3> QED
        BY <3>1, <3>2
    <2> QED
      BY <2>5, <2>6
  <1>3. Able(N)
    <2> HIDE DEF Able
    <2>1. bad = {}
      <3> SUFFICES ASSUME bad # {} PROVE FALSE
        OBVIOUS
      <3>1. PICK n \in bad : \A m \in bad : n =< m
        <4>1. bad \in SUBSET Nat
          OBVIOUS
        <4> HIDE DEF bad
        <4> QED
          BY <4>1, LeastNumber
      <3>2. n \in k .. N /\ ~ Able(n)
        BY <3>1
      <3>3. n # k
        BY <1>1, <3>2
      <3>4. n - 1 \in k .. N /\ n - 1 < n /\ (n - 1) + 1 = n
        BY <3>2, <3>3
      <3>5. n - 1 \notin bad
        <4> HIDE DEF bad
        <4> QED
          BY <3>1, <3>2, <3>4
      <3>6. Able(n - 1)
        BY <3>4, <3>5
      <3> QED
        BY <1>2, <3>2, <3>4, <3>6
    <2>2. N \in k .. N
      OBVIOUS
    <2> QED
      BY <2>1, <2>2
  <1>4. PICK f \in [k .. N -> X] : Iterates(f, k, N, base, step)
    BY <1>3
  <1>5. ASSUME NEW g, Follows(g, k, N, X, base, step)
        PROVE  \A n \in k .. N : g[n] = f[n]
    <2> DEFINE off == {n \in k .. N : g[n] # f[n]}
    <2> SUFFICES ASSUME off # {} PROVE FALSE
      OBVIOUS
    <2>1. PICK n \in off : \A m \in off : n =< m
      <3>1. off \in SUBSET Nat
        OBVIOUS
      <3> HIDE DEF off
      <3> QED
        BY <3>1, LeastNumber
    <2>2. n \in k .. N /\ g[n] # f[n]
      BY <2>1
    <2>3. n # k
      BY <1>4, <1>5, <2>2 DEF Iterates, Follows
    <2>4. n - 1 \in k .. N /\ n - 1 < n /\ n \in k + 1 .. N
      BY <2>2, <2>3
    <2>5. n - 1 \notin off
      <3> HIDE DEF off
      <3> QED
        BY <2>1, <2>2, <2>4
    <2>6. g[n - 1] = f[n - 1] /\ f[n - 1] \in X
      BY <2>4, <2>5
    <2>7. g[n] = step[n][g[n - 1]]
      BY <1>5, <2>4, <2>6 DEF Follows
    <2>8. f[n] = step[n][f[n - 1]]
      BY <1>4, <2>2, <2>3 DEF Iterates
    <2> QED
      BY <2>2, <2>6, <2>7, <2>8
  <1> QED
    BY <1>4, <1>5 DEF Iterated

\* How the members of s that are in S are found: f[n] are those of the first n.
Gathers(f, s, S) ==
  /\ f[0] = <<>>
  /\ \A n \in 1 .. Len(s) : f[n] = IF s[n] \in S THEN Append(f[n - 1], s[n]) ELSE f[n - 1]

LEMMA AmongGathers ==
  ASSUME NEW T, NEW s \in Seq(T), NEW S
  PROVE  \E f \in [0 .. Len(s) -> Seq(T)] : Gathers(f, s, S) /\ Among(s, S) = f[Len(s)]
  <1> DEFINE N == Len(s)
             X == Seq(T)
             step == [n \in 1 .. N |-> [x \in X |-> IF s[n] \in S THEN Append(x, s[n]) ELSE x]]
             body_(f) == [n \in 0 .. N |-> IF n = 0 THEN <<>>
                                         ELSE IF s[n] \in S THEN Append(f[n - 1], s[n]) ELSE f[n - 1]]
             it == CHOOSE f : f = body_(f)
  <1>1. N \in Nat /\ <<>> \in X /\ \A n \in 1 .. N : s[n] \in T
    OBVIOUS
  <1>2. step \in [0 + 1 .. N -> [X -> X]]
    <2>1. ASSUME NEW n \in 1 .. N, NEW x \in X
          PROVE  (IF s[n] \in S THEN Append(x, s[n]) ELSE x) \in X
      BY <1>1
    <2> HIDE DEF X, N
    <2>2. step \in [1 .. N -> [X -> X]]
      BY <2>1
    <2> QED
      BY <2>2
  <1>3. Among(s, S) = it[N]
    BY DEF Among
  <1> HIDE DEF X, N, step
  <1>4. PICK f \in [0 .. N -> X] :
           /\ Iterates(f, 0, N, <<>>, step)
           /\ \A g : Follows(g, 0, N, X, <<>>, step) => \A n \in 0 .. N : g[n] = f[n]
    <2>1. Steps(0, N, X, <<>>, step)
      BY <1>1, <1>2 DEF Steps
    <2>2. Iterated(0, N, X, <<>>, step)
      BY <2>1, Iteration
    <2> QED
      BY <2>2 DEF Iterated
  <1>5. \A n \in 1 .. N : f[n] = IF s[n] \in S THEN Append(f[n - 1], s[n]) ELSE f[n - 1]
    <2> SUFFICES ASSUME NEW n \in 1 .. N
                 PROVE  f[n] = IF s[n] \in S THEN Append(f[n - 1], s[n]) ELSE f[n - 1]
      OBVIOUS
    <2>1. n \in 0 .. N /\ n # 0 /\ n - 1 \in 0 .. N
      BY <1>1
    <2>2. f[n] = step[n][f[n - 1]] /\ f[n - 1] \in X
      BY <1>4, <2>1 DEF Iterates
    <2> QED
      BY <2>2 DEF step
  <1>6. f[0] = <<>>
    <2>1. 0 \in 0 .. N
      BY <1>1
    <2> QED
      BY <1>4, <2>1 DEF Iterates
  <1>7. f = body_(f)
    <2>1. ASSUME NEW n \in 0 .. N
          PROVE  f[n] = IF n = 0 THEN <<>>
                        ELSE IF s[n] \in S THEN Append(f[n - 1], s[n]) ELSE f[n - 1]
      <3>1. n # 0 => n \in 1 .. N
        BY <1>1
      <3> QED
        BY <1>5, <1>6, <3>1
    <2> QED
      BY <2>1
  <1>8. it = body_(it)
    BY <1>7
  <1> HIDE DEF it
  <1>9. Follows(it, 0, N, X, <<>>, step)
    <2>1. it[0] = <<>>
      BY <1>1, <1>8
    <2>2. ASSUME NEW n \in 0 + 1 .. N, it[n - 1] \in X
          PROVE  it[n] = step[n][it[n - 1]]
      <3>1. n \in 0 .. N /\ n # 0 /\ n \in 1 .. N
        BY <1>1, <2>2
      <3>2. it[n] = IF s[n] \in S THEN Append(it[n - 1], s[n]) ELSE it[n - 1]
        BY <1>8, <3>1
      <3> QED
        BY <2>2, <3>1, <3>2 DEF step
    <2> QED
      BY <2>1, <2>2 DEF Follows
  <1>10. N \in 0 .. N
    BY <1>1
  <1>11. it[N] = f[N]
    BY <1>4, <1>9, <1>10
  <1>12. Gathers(f, s, S)
    BY <1>5, <1>6 DEF Gathers, N
  <1>13. Among(s, S) = f[N]
    BY <1>3, <1>11
  <1> HIDE DEF Gathers
  <1> QED
    BY <1>12, <1>13 DEF N, X

\* What has been found in the first n messages is what of S there is in them,
\* and the last of it is found last.
Found(f, s, S, n) ==
  /\ \A i \in 1 .. Len(f[n]) : \E k \in 1 .. n : f[n][i] = s[k] /\ s[k] \in S
  /\ \A k \in 1 .. n : s[k] \in S => \E i \in 1 .. Len(f[n]) : f[n][i] = s[k]
  /\ \A k \in 1 .. n : s[k] \in S /\ (\A j \in k + 1 .. n : s[j] \notin S)
                     => Len(f[n]) > 0 /\ f[n][Len(f[n])] = s[k]

LEMMA AlwaysFound ==
  ASSUME NEW T, NEW s \in Seq(T), NEW S, NEW f \in [0 .. Len(s) -> Seq(T)], Gathers(f, s, S)
  PROVE  \A n \in 0 .. Len(s) : Found(f, s, S, n)
  <1> DEFINE N == Len(s)
             bad == {n \in 0 .. N : ~ Found(f, s, S, n)}
  <1>1. N \in Nat /\ \A n \in 1 .. N : s[n] \in T
    OBVIOUS
  <1>2. Found(f, s, S, 0)
    BY DEF Found, Gathers
  <1>3. ASSUME NEW n \in 1 .. N, Found(f, s, S, n - 1)
        PROVE  Found(f, s, S, n)
    <2> DEFINE a == f[n - 1]
               b == f[n]
               x == s[n]
    <2>1. n \in Nat /\ n - 1 \in 0 .. N /\ a \in Seq(T) /\ x \in T
      BY <1>1
    <2>2. CASE x \in S
      <3>1. b = Append(a, x)
        BY <2>2 DEF Gathers
      <3>2. /\ Len(a) \in Nat /\ Len(b) = Len(a) + 1 /\ b[Len(a) + 1] = x
            /\ \A i \in 1 .. Len(a) : b[i] = a[i]
        <4> HIDE DEF a, b, x
        <4> QED
          BY <2>1, <3>1
      <3> HIDE DEF a, b, x
      <3>3. \A i \in 1 .. Len(b) : \E k \in 1 .. n : b[i] = s[k] /\ s[k] \in S
        <4> SUFFICES ASSUME NEW i \in 1 .. Len(b)
                     PROVE  \E k \in 1 .. n : b[i] = s[k] /\ s[k] \in S
          OBVIOUS
        <4>1. CASE i = Len(b)
          <5>1. b[i] = s[n] /\ s[n] \in S /\ n \in 1 .. n
            BY <2>1, <2>2, <3>2, <4>1 DEF x
          <5> QED
            BY <5>1
        <4>2. CASE i # Len(b)
          <5>1. i \in 1 .. Len(a) /\ b[i] = a[i]
            BY <3>2, <4>2
          <5>2. PICK k \in 1 .. n - 1 : a[i] = s[k] /\ s[k] \in S
            BY <1>3, <5>1 DEF Found, a
          <5>3. k \in 1 .. n
            BY <2>1
          <5> QED
            BY <5>1, <5>2, <5>3
        <4> QED
          BY <4>1, <4>2
      <3>4. \A k \in 1 .. n : s[k] \in S => \E i \in 1 .. Len(b) : b[i] = s[k]
        <4> SUFFICES ASSUME NEW k \in 1 .. n, s[k] \in S
                     PROVE  \E i \in 1 .. Len(b) : b[i] = s[k]
          OBVIOUS
        <4>1. CASE k = n
          <5>1. Len(b) \in 1 .. Len(b) /\ b[Len(b)] = s[k]
            BY <3>2, <4>1 DEF x
          <5> QED
            BY <5>1
        <4>2. CASE k # n
          <5>1. k \in 1 .. n - 1
            BY <2>1, <4>2
          <5>2. PICK i \in 1 .. Len(a) : a[i] = s[k]
            BY <1>3, <5>1 DEF Found, a
          <5>3. i \in 1 .. Len(b) /\ b[i] = s[k]
            BY <3>2, <5>2
          <5> QED
            BY <5>3
        <4> QED
          BY <4>1, <4>2
      <3>5. \A k \in 1 .. n : s[k] \in S /\ (\A j \in k + 1 .. n : s[j] \notin S)
                             => Len(b) > 0 /\ b[Len(b)] = s[k]
        <4> SUFFICES ASSUME NEW k \in 1 .. n, \A j \in k + 1 .. n : s[j] \notin S
                     PROVE  Len(b) > 0 /\ b[Len(b)] = s[k]
          OBVIOUS
        <4>1. k = n
          <5>1. k # n => n \in k + 1 .. n
            BY <2>1
          <5> QED
            BY <2>2, <5>1 DEF x
        <4> QED
          BY <3>2, <4>1 DEF x
      <3> QED
        BY <3>3, <3>4, <3>5 DEF Found, b
    <2>3. CASE x \notin S
      <3>1. b = a
        BY <2>3 DEF Gathers
      <3> HIDE DEF a, b, x
      <3>2. \A k \in 1 .. n - 1 : k \in 1 .. n
        BY <2>1
      <3>3. \A k \in 1 .. n : s[k] \in S => k \in 1 .. n - 1
        BY <2>1, <2>3 DEF x
      <3>4. \A k \in 1 .. n : \A j \in k + 1 .. n - 1 : j \in k + 1 .. n
        BY <2>1
      <3>5. /\ \A i \in 1 .. Len(a) : \E k \in 1 .. n - 1 : a[i] = s[k] /\ s[k] \in S
            /\ \A k \in 1 .. n - 1 : s[k] \in S => \E i \in 1 .. Len(a) : a[i] = s[k]
            /\ \A k \in 1 .. n - 1 : s[k] \in S /\ (\A j \in k + 1 .. n - 1 : s[j] \notin S)
                                   => Len(a) > 0 /\ a[Len(a)] = s[k]
        BY <1>3 DEF Found, a
      <3>6. \A i \in 1 .. Len(a) : \E k \in 1 .. n : a[i] = s[k] /\ s[k] \in S
        BY <3>2, <3>5
      <3>7. \A k \in 1 .. n : s[k] \in S => \E i \in 1 .. Len(a) : a[i] = s[k]
        BY <3>3, <3>5
      <3>8. ASSUME NEW k \in 1 .. n, s[k] \in S, \A j \in k + 1 .. n : s[j] \notin S
            PROVE  Len(a) > 0 /\ a[Len(a)] = s[k]
        BY <3>3, <3>4, <3>5, <3>8
      <3> QED
        BY <3>1, <3>6, <3>7, <3>8 DEF Found, b
    <2> QED
      BY <2>2, <2>3
  <1>4. bad = {}
    <2> SUFFICES ASSUME bad # {} PROVE FALSE
      OBVIOUS
    <2> HIDE DEF Found
    <2>1. PICK n \in bad : \A k \in bad : n =< k
      <3>1. bad \in SUBSET Nat
        OBVIOUS
      <3> HIDE DEF bad
      <3> QED
        BY <3>1, LeastNumber
    <2>2. n \in 0 .. N /\ ~ Found(f, s, S, n)
      BY <2>1
    <2>3. n # 0
      BY <1>2, <2>2
    <2>4. n \in 1 .. N /\ n - 1 \in 0 .. N /\ n - 1 < n
      BY <1>1, <2>2, <2>3
    <2>5. n - 1 \notin bad
      <3> HIDE DEF bad
      <3> QED
        BY <2>1, <2>2, <2>4
    <2> QED
      BY <1>3, <2>2, <2>4, <2>5
  <1> QED
    BY <1>4

\* What a sequence g of the members of s that are in S has of s.
Gathered(g, s, S) ==
  /\ \A i \in 1 .. Len(g) : g[i] \in S
  /\ \A k \in 1 .. Len(s) : s[k] \in S => \E i \in 1 .. Len(g) : g[i] = s[k]
  /\ \A i \in 1 .. Len(g) : \E k \in 1 .. Len(s) : g[i] = s[k]
  /\ \A k \in 1 .. Len(s) : s[k] \in S /\ (\A j \in k + 1 .. Len(s) : s[j] \notin S)
                         => Len(g) > 0 /\ g[Len(g)] = s[k]

\* Among gathers all of them, and the last of them last.
LEMMA AmongFacts ==
  ASSUME NEW T, NEW s \in Seq(T), NEW S
  PROVE  Among(s, S) \in Seq(T) /\ Gathered(Among(s, S), s, S)
  <1>1. PICK f \in [0 .. Len(s) -> Seq(T)] : Gathers(f, s, S) /\ Among(s, S) = f[Len(s)]
    BY AmongGathers
  <1>2. Len(s) \in 0 .. Len(s)
    OBVIOUS
  <1>3. Found(f, s, S, Len(s))
    <2>1. \A n \in 0 .. Len(s) : Found(f, s, S, n)
      <3> HIDE DEF Found
      <3> QED
        BY <1>1, AlwaysFound
    <2> QED
      BY <1>2, <2>1
  <1>4. Among(s, S) \in Seq(T)
    BY <1>1, <1>2
  <1> QED
    BY <1>1, <1>3, <1>4 DEF Found, Gathered

----------------------------------------------------------------------------
(***************************************************************************)
(* Log requests.  The times of a run's lines lie behind the end of the     *)
(* runs before it and little before its own start, and the runs come in    *)
(* the order of the files.                                                 *)
(***************************************************************************)
LogLine == [run : 1 .. 2, time : Nat]

LogTypes ==
  /\ clock \in Nat /\ run \in 0 .. 2 /\ status \in 0 .. run /\ start \in 0 .. run
  /\ begun \in [1 .. 2 -> Nat]
  /\ log \in Seq(LogLine)
  /\ lq \in [ws : BOOLEAN, previous : BOOLEAN, tail : Int, since : Int]
  /\ lpc \in {"start", "scan", "answered", "refused", "done"}

RunTimes ==
  /\ run > 0 => begun[run] <= clock + Skew
  /\ run = 2 => begun[1] <= begun[2]

LineTimes ==
  \A i \in 1 .. Len(log) :
    /\ log[i].run <= run
    /\ log[i].time <= clock
    /\ begun[log[i].run] <= log[i].time + Skew
    /\ run = 2 /\ log[i].run = 1 => log[i].time < begun[2]

RunsInOrder == \A i, j \in 1 .. Len(log) : i < j => log[i].run <= log[j].run

Answered ==
  \/ lpc = "answered"
  \/ lpc = "done" /\ reply = "text"

LogInv ==
  /\ LogTypes /\ RunTimes /\ LineTimes /\ RunsInOrder
  /\ Answered => body = LastLines(KeptSince(start))

\* It holds when the request comes.
LEMMA LogInvInit == Init => LogInv
  <1> SUFFICES ASSUME Init PROVE LogInv
    OBVIOUS
  <1>1. /\ clock = 0 /\ run = 0 /\ begun = [r \in 1 .. 2 |-> 0] /\ log = <<>> /\ status = 0 /\ start = 0
        /\ lpc = "start"
    BY DEF Init, LogInit
  <1>6. lq \in LogQueries
    <2>1. LogQueries # {}
      <3>1. PICK n \in Tails : TRUE
        BY LogAssumption
      <3>2. [ws |-> TRUE, previous |-> TRUE, tail |-> n, since |-> -1] \in LogQueries
        BY DEF LogQueries
      <3> QED
        BY <3>2
    <2>2. OneLogQuery \in LogQueries
      BY <2>1 DEF OneLogQuery
    <2> QED
      BY <2>2 DEF Init, LogInit
  <1>2. lq \in [ws : BOOLEAN, previous : BOOLEAN, tail : Int, since : Int]
    <2>1. Tails \subseteq Int /\ MaxTime - 1 \in Int /\ -1 \in Int
      BY LogAssumption
    <2> QED
      BY <1>6, <2>1 DEF LogQueries
  <1>3. Len(log) = 0 /\ log \in Seq(LogLine)
    BY <1>1
  <1>4. LogTypes
    BY <1>1, <1>2, <1>3 DEF LogTypes
  <1>5. RunTimes /\ LineTimes /\ RunsInOrder /\ ~ Answered
    BY <1>1, <1>3 DEF RunTimes, LineTimes, RunsInOrder, Answered
  <1> QED
    BY <1>4, <1>5 DEF LogInv

\* Nothing changes in the files once the request is answered.
LEMMA AnswerStays ==
  ASSUME UNCHANGED <<log, begun, lq, start>>
  PROVE  LastLines(KeptSince(start))' = LastLines(KeptSince(start))
  BY DEF LastLines, KeptSince, KeptLines, Kept, Since

\* Every step of the runtime, of the clock and of the request keeps it.
LEMMA LogStep ==
  ASSUME LogInv, LogNext \/ UNCHANGED logVars
  PROVE  LogInv'
  <1>0. /\ LogTypes /\ RunTimes /\ LineTimes /\ RunsInOrder
        /\ Skew \in Nat /\ MaxTime \in Nat /\ Len(log) \in Nat
        /\ \A i \in 1 .. Len(log) : log[i] \in LogLine /\ log[i].run \in 1 .. 2 /\ log[i].time \in Nat
    <2>1. log \in Seq(LogLine)
      BY DEF LogInv, LogTypes
    <2>2. \A i \in 1 .. Len(log) : log[i] \in LogLine
      BY <2>1
    <2>3. \A i \in 1 .. Len(log) : log[i].run \in 1 .. 2 /\ log[i].time \in Nat
      BY <2>2 DEF LogLine
    <2> QED
      BY <2>1, <2>2, <2>3, LogAssumption DEF LogInv
  <1>1. CASE LookUp
    <2>1. /\ start' \in {status, 0, start} /\ lpc' \in {"scan", "refused"}
          /\ UNCHANGED <<clock, run, begun, log, status, lq>>
      BY <1>1 DEF LookUp
    <2>2. LogTypes'
      BY <1>0, <2>1 DEF LogTypes
    <2>3. RunTimes' /\ LineTimes' /\ RunsInOrder'
      BY <1>0, <2>1 DEF RunTimes, LineTimes, RunsInOrder
    <2> QED
      BY <2>1, <2>2, <2>3 DEF LogInv, Answered
  <1>2. CASE Scan
    <2>1. /\ UNCHANGED <<clock, run, begun, log, status, lq, start, reply>>
          /\ \/ lpc' = "answered" /\ body' = LastLines(KeptSince(start))
             \/ lpc' \in {"refused", "scan"}
      BY <1>2 DEF Scan
    <2>2. LogTypes'
      BY <1>0, <2>1 DEF LogTypes
    <2>3. RunTimes' /\ LineTimes' /\ RunsInOrder'
      BY <1>0, <2>1 DEF RunTimes, LineTimes, RunsInOrder
    <2>4. Answered' => body' = LastLines(KeptSince(start))'
      BY <2>1, AnswerStays DEF Answered
    <2> QED
      BY <2>2, <2>3, <2>4 DEF LogInv
  <1>3. CASE Reply
    <2>1. /\ UNCHANGED <<clock, run, begun, log, status, lq, start, body>>
          /\ lpc' = "done" /\ (reply' = "text" => lpc = "answered")
      BY <1>3 DEF Reply
    <2>5. LastLines(KeptSince(start))' = LastLines(KeptSince(start))
      BY <2>1, AnswerStays
    <2>6. Answered' => Answered
      BY <2>1 DEF Answered
    <2>7. Answered => body = LastLines(KeptSince(start))
      BY DEF LogInv
    <2>2. LogTypes'
      BY <1>0, <2>1 DEF LogTypes
    <2>3. RunTimes' /\ LineTimes' /\ RunsInOrder'
      BY <1>0, <2>1 DEF RunTimes, LineTimes, RunsInOrder
    <2>4. Answered' => body' = LastLines(KeptSince(start))'
      BY <2>1, <2>5, <2>6, <2>7
    <2> QED
      BY <2>2, <2>3, <2>4 DEF LogInv
  <1>4. CASE StartRun
    <2>1. /\ run < 2 /\ run' = run + 1 /\ clock' = clock + 1
          /\ begun' = [begun EXCEPT ![run + 1] = clock + Skew + 1]
          /\ lpc \in {"start", "scan"} /\ UNCHANGED <<log, status, lq, lpc, start>>
      BY <1>4 DEF StartRun
    <2>2. run + 1 \in 1 .. 2 /\ clock + Skew + 1 \in Nat
      BY <1>0, <2>1 DEF LogTypes
    <2>3. /\ begun' \in [1 .. 2 -> Nat] /\ begun'[run + 1] = clock + Skew + 1
          /\ \A r \in 1 .. 2 : r # run + 1 => begun'[r] = begun[r]
      BY <1>0, <2>1, <2>2 DEF LogTypes
    <2>4. LogTypes'
      <3>1. clock' \in Nat /\ run' \in 0 .. 2 /\ status' \in 0 .. run' /\ start' \in 0 .. run'
        BY <1>0, <2>1 DEF LogTypes
      <3> QED
        BY <1>0, <2>1, <2>3, <3>1 DEF LogTypes
    <2>5. RunTimes'
      BY <1>0, <2>1, <2>2, <2>3 DEF RunTimes, LogTypes
    <2>6. LineTimes'
      <3> SUFFICES ASSUME NEW i \in 1 .. Len(log)
                   PROVE  /\ log[i].run <= run' /\ log[i].time <= clock'
                          /\ begun'[log[i].run] <= log[i].time + Skew
                          /\ run' = 2 /\ log[i].run = 1 => log[i].time < begun'[2]
        BY <2>1 DEF LineTimes
      <3>1. /\ log[i].run \in 1 .. 2 /\ log[i].time \in Nat /\ log[i].run <= run /\ log[i].time <= clock
            /\ begun[log[i].run] <= log[i].time + Skew
        BY <1>0 DEF LineTimes
      <3>2. begun'[log[i].run] = begun[log[i].run]
        BY <1>0, <2>1, <2>3, <3>1 DEF LogTypes
      <3> QED
        BY <1>0, <2>1, <2>3, <3>1, <3>2 DEF LogTypes
    <2>7. RunsInOrder'
      BY <1>0, <2>1 DEF RunsInOrder
    <2> QED
      BY <2>1, <2>4, <2>5, <2>6, <2>7 DEF LogInv, Answered
  <1>5. CASE WriteLine
    <2> DEFINE e == [run |-> run, time |-> clock]
               n == Len(log) + 1
    <2>1. /\ run > 0 /\ log' = Append(log, e) /\ lpc \in {"start", "scan"}
          /\ UNCHANGED <<clock, run, begun, status, lq, lpc, start>>
      BY <1>5 DEF WriteLine
    <2>2. e \in LogLine /\ e.run = run /\ e.time = clock
      BY <1>0, <2>1 DEF LogTypes, LogLine
    <2> HIDE DEF e
    <2>3. log' \in Seq(LogLine) /\ Len(log') = n /\ log'[n] = e /\ \A i \in 1 .. Len(log) : log'[i] = log[i]
      BY <1>0, <2>1, <2>2 DEF LogTypes
    <2>4. LogTypes'
      BY <1>0, <2>1, <2>3 DEF LogTypes
    <2>5. RunTimes'
      BY <1>0, <2>1 DEF RunTimes
    <2>6. LineTimes'
      <3> SUFFICES ASSUME NEW i \in 1 .. n
                   PROVE  /\ log'[i].run <= run /\ log'[i].time <= clock
                          /\ begun[log'[i].run] <= log'[i].time + Skew
                          /\ run = 2 /\ log'[i].run = 1 => log'[i].time < begun[2]
        BY <2>1, <2>3 DEF LineTimes
      <3>1. CASE i = n
        <4>1. log'[i].run = run /\ log'[i].time = clock
          BY <2>2, <2>3, <3>1
        <4>2. begun[run] <= clock + Skew /\ run \in 0 .. 2 /\ clock \in Nat
          BY <1>0, <2>1 DEF RunTimes, LogTypes
        <4> QED
          BY <4>1, <4>2
      <3>2. CASE i # n
        <4>1. i \in 1 .. Len(log)
          BY <1>0, <3>2
        <4> QED
          BY <1>0, <2>3, <4>1 DEF LineTimes
      <3> QED
        BY <3>1, <3>2
    <2>7. RunsInOrder'
      <3> SUFFICES ASSUME NEW i \in 1 .. n, NEW j \in 1 .. n, i < j
                   PROVE  log'[i].run <= log'[j].run
        BY <2>3 DEF RunsInOrder
      <3>1. i \in 1 .. Len(log)
        BY <1>0
      <3>2. CASE j = n
        BY <1>0, <2>2, <2>3, <3>1, <3>2 DEF LineTimes
      <3>3. CASE j # n
        <4>1. j \in 1 .. Len(log)
          BY <1>0, <3>3
        <4> QED
          BY <1>0, <2>3, <3>1, <4>1 DEF RunsInOrder
      <3> QED
        BY <3>2, <3>3
    <2> QED
      BY <2>1, <2>4, <2>5, <2>6, <2>7 DEF LogInv, Answered
  <1>6. CASE Tick
    <2>1. clock' = clock + 1 /\ lpc \in {"start", "scan"} /\ UNCHANGED <<run, begun, log, status, lq, lpc, start>>
      BY <1>6 DEF Tick
    <2>2. LogTypes'
      BY <1>0, <2>1 DEF LogTypes
    <2>3. RunTimes'
      BY <1>0, <2>1 DEF RunTimes, LogTypes
    <2>4. LineTimes' /\ RunsInOrder'
      BY <1>0, <2>1 DEF LineTimes, RunsInOrder, LogTypes
    <2> QED
      BY <2>1, <2>2, <2>3, <2>4 DEF LogInv, Answered
  <1>7. CASE Report
    <2>1. status' = run /\ lpc \in {"start", "scan"} /\ UNCHANGED <<clock, run, begun, log, lq, lpc, start>>
      BY <1>7 DEF Report
    <2>2. LogTypes'
      BY <1>0, <2>1 DEF LogTypes
    <2>3. RunTimes' /\ LineTimes' /\ RunsInOrder'
      BY <1>0, <2>1 DEF RunTimes, LineTimes, RunsInOrder
    <2> QED
      BY <2>1, <2>2, <2>3 DEF LogInv, Answered
  <1>8. CASE UNCHANGED logVars
    <2>1. UNCHANGED <<clock, run, begun, log, status, lq, lpc, start, body, reply>>
      BY <1>8 DEF logVars
    <2>2. LogTypes' /\ RunTimes' /\ LineTimes' /\ RunsInOrder'
      BY <1>0, <2>1 DEF LogTypes, RunTimes, LineTimes, RunsInOrder
    <2>3. Answered' => body' = LastLines(KeptSince(start))'
      BY <2>1, AnswerStays DEF Answered, LogInv
    <2> QED
      BY <2>2, <2>3 DEF LogInv
  <1> QED
    BY <1>1, <1>2, <1>3, <1>4, <1>5, <1>6, <1>7, <1>8 DEF LogNext

\* The lines of the run asked for are all kept by their times, and any line
\* that is kept behind one of them is one of them, too.
LEMMA WantedIsKept ==
  ASSUME LogInv, start # 0, NEW i \in 1 .. Len(log), Since(log[i]),
         IF lq.previous THEN log[i].run < start ELSE log[i].run >= start
  PROVE  Kept(log[i], start)
  <1>1. /\ start \in 1 .. run /\ run \in 1 .. 2 /\ begun \in [1 .. 2 -> Nat] /\ log \in Seq(LogLine)
    BY DEF LogInv, LogTypes
  <1>2. log[i] \in LogLine
    BY <1>1
  <1>3. log[i].run \in 1 .. 2 /\ log[i].time \in Nat
    BY <1>2 DEF LogLine
  <1>4. /\ log[i].run <= run /\ begun[log[i].run] <= log[i].time + Skew
        /\ run = 2 /\ log[i].run = 1 => log[i].time < begun[2]
        /\ run = 2 => begun[1] <= begun[2]
    BY DEF LogInv, LineTimes, RunTimes
  <1>5. Skew \in Nat /\ Tolerance \in Nat /\ Skew <= Tolerance
    BY LogAssumption
  <1>6. CASE lq.previous
    <2>1. start = 2 /\ run = 2 /\ log[i].run = 1
      BY <1>1, <1>3, <1>6
    <2> QED
      BY <1>4, <1>6, <2>1 DEF Kept
  <1>7. CASE ~ lq.previous
    <2>1. begun[start] <= begun[log[i].run]
      BY <1>1, <1>3, <1>4, <1>7
    <2>2. begun[start] \in Nat /\ begun[log[i].run] \in Nat
      BY <1>1, <1>3
    <2>3. log[i].time >= begun[start] - Tolerance
      BY <1>3, <1>4, <1>5, <2>1, <2>2
    <2> QED
      BY <1>7, <2>3, <1>1 DEF Kept
  <1> QED
    BY <1>6, <1>7

\* The end of a sequence, as long as is asked for.
LEMMA LastLinesEnd ==
  ASSUME NEW x \in Seq(LogLine), lq.tail \in Int
  PROVE  \E m \in 0 .. Len(x) :
           /\ LastLines(x) = SubSeq(x, m + 1, Len(x))
           /\ lq.tail = -1 => m = 0
  <1>1. Len(x) \in Nat
    OBVIOUS
  <1>2. CASE lq.tail >= 0 /\ Len(x) > lq.tail
    <2>1. LastLines(x) = SubSeq(x, (Len(x) - lq.tail) + 1, Len(x))
      BY <1>2 DEF LastLines
    <2>2. Len(x) - lq.tail \in 0 .. Len(x) /\ lq.tail # -1
      BY <1>1, <1>2
    <2> QED
      BY <2>1, <2>2
  <1>3. CASE ~ (lq.tail >= 0 /\ Len(x) > lq.tail)
    <2>1. LastLines(x) = x
      BY <1>3 DEF LastLines
    <2>2. SubSeq(x, 1, Len(x)) = x
      BY SubSeqFull
    <2>3. 0 \in 0 .. Len(x) /\ 0 + 1 = 1
      BY <1>1
    <2> QED
      BY <2>1, <2>2, <2>3
  <1> QED
    BY <1>2, <1>3

\* Such an end is a suffix, and its last element that of the whole.
LEMMA EndOf ==
  ASSUME NEW x \in Seq(LogLine), NEW m \in 0 .. Len(x), NEW b, b = SubSeq(x, m + 1, Len(x))
  PROVE  /\ b \in Seq(LogLine)
         /\ Len(b) = Len(x) - m
         /\ \A i \in 1 .. Len(b) : m + i \in 1 .. Len(x) /\ b[i] = x[m + i]
         /\ IsSuffix(b, x)
  <1>1. Len(x) \in Nat /\ m \in Nat /\ m <= Len(x)
    OBVIOUS
  <1>2. b \in Seq(LogLine) /\ Len(b) = Len(x) - m /\ \A i \in 1 .. Len(b) : b[i] = x[m + i]
    <2>1. \A i \in m + 1 .. Len(x) : x[i] \in LogLine
      BY <1>1
    <2>2. m + 1 \in Int /\ Len(x) \in Int
      BY <1>1
    <2>3. /\ b \in Seq(LogLine)
          /\ Len(b) = IF m + 1 <= Len(x) THEN Len(x) - (m + 1) + 1 ELSE 0
          /\ \A i \in 1 .. Len(x) - (m + 1) + 1 : b[i] = x[(m + 1) + i - 1]
      BY <2>1, <2>2, SubSeqProperties
    <2>4. Len(b) = Len(x) - m
      BY <1>1, <2>3
    <2>5. \A i \in 1 .. Len(b) : i \in 1 .. Len(x) - (m + 1) + 1 /\ (m + 1) + i - 1 = m + i
      BY <1>1, <2>4
    <2> QED
      BY <2>3, <2>4, <2>5
  <1>3. \A i \in 1 .. Len(b) : m + i \in 1 .. Len(x)
    BY <1>1, <1>2
  <1>4. IsSuffix(b, x)
    <2> DEFINE rb == Reverse(b)
               rx == Reverse(x)
               n == Len(b)
    <2>1. n \in Nat /\ n <= Len(x)
      BY <1>1, <1>2
    <2>2. rb = [i \in 1 .. n |-> b[(n - i) + 1]] /\ rx = [i \in 1 .. Len(x) |-> x[(Len(x) - i) + 1]]
      BY DEF Reverse
    <2>3. \A i \in 1 .. n : (n - i) + 1 \in 1 .. n /\ i \in 1 .. Len(x) /\ m + ((n - i) + 1) = (Len(x) - i) + 1
      BY <1>1, <1>2, <2>1
    <2>4. \A i \in 1 .. n : rb[i] = rx[i]
      <3> HIDE DEF rb, rx, n
      <3> QED
        BY <1>2, <2>2, <2>3 DEF n
    <2>5. Len(rb) = n /\ Len(rx) = Len(x)
      BY <1>1, <2>1 DEF Reverse
    <2>6. SubSeq(rb, 1, n) = SubSeq(rx, 1, n)
      <3> HIDE DEF rb, rx, n
      <3>1. \A i \in 1 .. n : rb[1 + i - 1] = rx[1 + i - 1]
        BY <2>1, <2>4
      <3> QED
        BY <2>1, <2>4
    <2> HIDE DEF rb, rx
    <2> QED
      BY <2>1, <2>5, <2>6 DEF IsSuffix, IsPrefix, rb, rx
  <1> QED
    BY <1>2, <1>3, <1>4

\* What the invariant says of an answer.
LEMMA LogInvComplete == LogInv => LogsComplete
  <1> SUFFICES ASSUME LogInv, lpc = "done", reply = "text", start # 0
               PROVE  /\ \A e \in ToSet(body) : Since(e)
                      /\ lq.tail = -1 => \A i \in DOMAIN Wanted : Contains(body, Wanted[i])
                      /\ body # <<>> /\ ~lq.previous /\ Wanted # <<>> => Last(body) = Last(Wanted)
                      /\ IsSuffix(body, KeptSince(start))
    BY DEF LogsComplete
  <1> DEFINE K == {e \in KeptLines(start) : Since(e)}
             OfRun(e) == IF lq.previous THEN e.run < start ELSE e.run >= start
             W == {e \in ToSet(log) : Since(e) /\ OfRun(e)}
             x == KeptSince(start)
             w == Wanted
             N == Len(log)
  <1>1. log \in Seq(LogLine) /\ N \in Nat /\ lq.tail \in Int
    BY DEF LogInv, LogTypes
  <1>2. body = LastLines(x)
    BY DEF LogInv, Answered
  <1>3. x = Among(log, K) /\ w = Among(log, W)
    BY DEF KeptSince, Wanted
  <1>4. \A i \in 1 .. N : log[i] \in ToSet(log)
    BY <1>1 DEF ToSet
  <1>5. \A i \in 1 .. N : log[i] \in W => log[i] \in K
    <2> SUFFICES ASSUME NEW i \in 1 .. N, log[i] \in W
                 PROVE  log[i] \in K
      OBVIOUS
    <2>1. Since(log[i]) /\ OfRun(log[i])
      <3> HIDE DEF OfRun
      <3> QED
        OBVIOUS
    <2>2. Kept(log[i], start)
      BY <2>1, WantedIsKept
    <2> QED
      BY <1>4, <2>1, <2>2 DEF KeptLines
  <1>6. ASSUME ~ lq.previous, NEW i \in 1 .. N, NEW j \in 1 .. N, i < j, log[i] \in W, log[j] \in K
        PROVE  log[j] \in W
    <2>1. log[i].run >= start /\ Since(log[j]) /\ log[i].run <= log[j].run
      BY <1>6 DEF LogInv, RunsInOrder
    <2>2. log[i] \in LogLine /\ log[j] \in LogLine
      BY <1>1
    <2>3. log[i].run \in Nat /\ log[j].run \in Nat /\ start \in Nat
      <3>1. \A e \in LogLine : e.run \in Nat
        BY DEF LogLine
      <3>2. start \in Nat
        <4>1. run \in 0 .. 2 /\ start \in 0 .. run
          BY DEF LogInv, LogTypes
        <4> QED
          BY <4>1
      <3> QED
        BY <2>2, <3>1, <3>2
    <2>4. log[j].run >= start
      BY <2>1, <2>3
    <2> QED
      BY <1>4, <1>6, <2>1, <2>4
  <1>7. \A e \in K : Since(e)
    OBVIOUS
  <1> HIDE DEF K, W
  <1>8. x \in Seq(LogLine) /\ Gathered(x, log, K)
    BY <1>1, <1>3, AmongFacts
  <1>9. w \in Seq(LogLine) /\ Gathered(w, log, W)
    BY <1>1, <1>3, AmongFacts
  <1> HIDE DEF x, w, N
  <1>10. PICK m \in 0 .. Len(x) : body = SubSeq(x, m + 1, Len(x)) /\ (lq.tail = -1 => m = 0)
    BY <1>1, <1>2, <1>8, LastLinesEnd
  <1>11. /\ body \in Seq(LogLine)
         /\ Len(body) = Len(x) - m
         /\ \A i \in 1 .. Len(body) : m + i \in 1 .. Len(x) /\ body[i] = x[m + i]
         /\ IsSuffix(body, x)
    BY <1>8, <1>10, EndOf
  <1>12. Len(x) \in Nat /\ Len(body) \in Nat /\ DOMAIN body = 1 .. Len(body) /\ Len(w) \in Nat /\ DOMAIN w = 1 .. Len(w)
    BY <1>8, <1>9, <1>11
  <1>13. \A e \in ToSet(body) : Since(e)
    <2>1. \A i \in 1 .. Len(body) : body[i] \in K
      BY <1>8, <1>11 DEF Gathered
    <2> QED
      BY <1>7, <1>12, <2>1 DEF ToSet
  <1>14. ASSUME lq.tail = -1, NEW i \in 1 .. Len(w)
         PROVE  Contains(body, w[i])
    <2>1. PICK k \in 1 .. N : w[i] = log[k]
      BY <1>9 DEF Gathered, N
    <2>2. log[k] \in K
      BY <1>5, <1>9, <2>1 DEF Gathered
    <2>3. PICK j \in 1 .. Len(x) : x[j] = w[i]
      BY <1>8, <2>1, <2>2 DEF Gathered, N
    <2>4. j \in 1 .. Len(body) /\ body[j] = x[j]
      BY <1>10, <1>11, <1>12, <1>14
    <2> QED
      BY <2>3, <2>4 DEF Contains
  <1>15. ASSUME body # <<>>, ~ lq.previous, w # <<>>
         PROVE  Last(body) = Last(w)
    <2>1. Len(w) > 0 /\ Len(body) > 0
      BY <1>9, <1>11, <1>15
    <2> DEFINE back == {N - k : k \in {i \in 1 .. N : log[i] \in W}}
    <2>2. back # {} /\ back \in SUBSET Nat
      <3>1. 1 \in 1 .. Len(w)
        BY <1>12, <2>1
      <3>2. PICK k \in 1 .. N : w[1] = log[k]
        BY <1>9, <3>1 DEF Gathered, N
      <3>3. log[k] \in W
        BY <1>9, <3>1, <3>2 DEF Gathered
      <3>4. N \in Nat
        BY <1>1 DEF N
      <3>5. \A i \in 1 .. N : N - i \in Nat
        BY <3>4
      <3>6. k \in {i \in 1 .. N : log[i] \in W}
        BY <3>3
      <3>7. back # {}
        BY <3>6
      <3>8. back \in SUBSET Nat
        BY <3>5
      <3> QED
        BY <3>7, <3>8
    <2>3. PICK d \in back : \A c \in back : d =< c
      <3> HIDE DEF back
      <3> QED
        BY <2>2, LeastNumber
    <2>4. PICK k \in 1 .. N : log[k] \in W /\ d = N - k
      BY <2>3
    <2>5. \A j \in k + 1 .. N : log[j] \notin W
      <3> SUFFICES ASSUME NEW j \in k + 1 .. N, log[j] \in W PROVE FALSE
        OBVIOUS
      <3>1. N \in Nat
        BY <1>1 DEF N
      <3>2. j \in 1 .. N /\ N - j < d
        BY <2>4, <3>1
      <3>3. N - j \in back
        BY <3>2
      <3>4. d =< N - j /\ d \in Int /\ N - j \in Int
        <4> HIDE DEF back
        <4>1. d =< N - j
          BY <2>3, <3>3
        <4>2. k \in 1 .. N /\ j \in 1 .. N
          BY <3>2
        <4> QED
          BY <2>4, <3>1, <4>1, <4>2
      <3> QED
        BY <3>2, <3>4
    <2>6. \A j \in k + 1 .. N : log[j] \notin K
      <3> SUFFICES ASSUME NEW j \in k + 1 .. N, log[j] \in K PROVE FALSE
        OBVIOUS
      <3>1. j \in 1 .. N /\ k < j
        BY <1>1 DEF N
      <3>2. log[j] \in W
        BY <1>6, <1>15, <2>4, <3>1 DEF N
      <3> QED
        BY <2>5, <3>2
    <2>7. log[k] \in K
      BY <1>5, <2>4
    <2>8. w[Len(w)] = log[k]
      BY <1>9, <2>4, <2>5 DEF Gathered, N
    <2>9. x[Len(x)] = log[k]
      BY <1>8, <2>4, <2>6, <2>7 DEF Gathered, N
    <2>10. body[Len(body)] = x[Len(x)]
      <3>1. Len(body) \in 1 .. Len(body) /\ m + Len(body) = Len(x)
        BY <1>10, <1>11, <1>12, <2>1
      <3> QED
        BY <1>11, <3>1
    <2> QED
      BY <2>8, <2>9, <2>10 DEF Last
  <1> QED
    BY <1>11, <1>12, <1>13, <1>14, <1>15 DEF x, w

\* A log request is answered with every line of the run it asks for, in order
\* and up to the last, for any number of lines, any times within the skew the
\* tolerance allows for, any tail, and however the container is started again
\* between two attempts (collect_logs_body).
THEOREM LogsAreComplete == Spec => []LogsComplete
  <1>1. LogInv /\ [Next]_vars => LogInv'
    BY LogStep DEF Next, Exec, Forward, Log, Gate, vars
  <1> QED
    BY <1>1, LogInvInit, LogInvComplete, PTL DEF Spec

(***************************************************************************)
(* The conversions.                                                        *)
(***************************************************************************)
\* A sequence of parts, put together.
LEMMA FlattenIs ==
  ASSUME NEW T, NEW ss \in Seq(Seq(T)), NEW g, g[0] = <<>>,
         \A k \in 1 .. Len(ss) : g[k - 1] \in Seq(T) /\ g[k] = g[k - 1] \o ss[k]
  PROVE  FlattenSeq(ss) = g[Len(ss)]
  <1> DEFINE N == Len(ss)
             X == Seq(T)
             unfold(f) == [n \in 1 .. N |-> IF n = 1 THEN ss[n] ELSE f[n - 1] \o ss[n]]
             it == CHOOSE f : f = unfold(f)
             h == [n \in 1 .. N |-> g[n]]
  <1>1. N \in Nat /\ (N = 0 <=> ss = <<>>) /\ \A n \in 1 .. N : ss[n] \in X
    OBVIOUS
  <1>2. CASE N = 0
    <2>1. ss = <<>> /\ Len(ss) = 0
      BY <1>1, <1>2
    <2>2. FlattenSeq(ss) = ss
      BY <2>1 DEF FlattenSeq
    <2> QED
      BY <2>1, <2>2
  <1>3. CASE N # 0
    <2>1. FlattenSeq(ss) = it[N]
      BY <1>1, <1>3 DEF FlattenSeq
    <2>2. ASSUME NEW n \in 1 .. N
          PROVE  g[n] = IF n = 1 THEN ss[n] ELSE h[n - 1] \o ss[n]
      <3>1. g[n] = g[n - 1] \o ss[n] /\ ss[n] \in X
        BY <1>1, <2>2
      <3>2. CASE n = 1
        <4>1. <<>> \o ss[n] = ss[n]
          BY <3>1
        <4>2. n - 1 = 0
          BY <3>2
        <4>3. g[n] = ss[n]
          BY <3>1, <4>1, <4>2
        <4> QED
          BY <3>2, <4>3
      <3>3. CASE n # 1
        <4>1. n - 1 \in 1 .. N
          BY <1>1, <3>3
        <4> QED
          BY <3>1, <3>3, <4>1
      <3> QED
        BY <3>2, <3>3
    <2>3. h = unfold(h)
      BY <2>2
    <2>4. it = unfold(it)
      BY <2>3
    <2> HIDE DEF it, h, X
    <2>5. \A n \in 1 .. N : it[n] = h[n]
      <3> DEFINE off == {n \in 1 .. N : it[n] # h[n]}
      <3> SUFFICES ASSUME off # {} PROVE FALSE
        OBVIOUS
      <3>1. PICK n \in off : \A m \in off : n =< m
        <4>1. off \in SUBSET Nat
          OBVIOUS
        <4> HIDE DEF off
        <4> QED
          BY <4>1, LeastNumber
      <3>2. n \in 1 .. N /\ it[n] # h[n]
        BY <3>1
      <3>3. n # 1
        BY <3>2, <2>3, <2>4
      <3>4. n - 1 \in 1 .. N /\ n - 1 < n
        BY <1>1, <3>2, <3>3
      <3>5. n - 1 \notin off
        <4> HIDE DEF off
        <4> QED
          BY <3>1, <3>2, <3>4
      <3>6. it[n - 1] = h[n - 1]
        BY <3>4, <3>5
      <3>7. it[n] = it[n - 1] \o ss[n] /\ h[n] = h[n - 1] \o ss[n]
        BY <3>2, <3>3, <2>3, <2>4
      <3> QED
        BY <3>2, <3>6, <3>7
    <2>6. N \in 1 .. N
      BY <1>1, <1>3
    <2>7. it[N] = g[N]
      BY <2>5, <2>6 DEF h
    <2> QED
      BY <2>1, <2>7
  <1> QED
    BY <1>2, <1>3

\* What is put together of the first k parts, for each k.
LEMMA FlattenSteps ==
  ASSUME NEW T, NEW ss \in Seq(Seq(T))
  PROVE  \E f \in [0 .. Len(ss) -> Seq(T)] :
            /\ f[0] = <<>>
            /\ \A n \in 1 .. Len(ss) : f[n] = f[n - 1] \o ss[n]
            /\ FlattenSeq(ss) = f[Len(ss)]
  <1> DEFINE N == Len(ss)
             X == Seq(T)
             step == [n \in 1 .. N |-> [x \in X |-> x \o ss[n]]]
  <1>1. N \in Nat /\ <<>> \in X /\ \A n \in 1 .. N : ss[n] \in X
    OBVIOUS
  <1>2. step \in [0 + 1 .. N -> [X -> X]]
    <2>1. ASSUME NEW n \in 1 .. N, NEW x \in X
          PROVE  x \o ss[n] \in X
      <3>1. ss[n] \in X
        BY <1>1
      <3> QED
        BY <3>1
    <2> HIDE DEF X, N
    <2> QED
      BY <2>1
  <1> HIDE DEF X, N
  <1>3. PICK f \in [0 .. N -> X] : Iterates(f, 0, N, <<>>, step)
    <2>1. 0 \in Nat /\ N \in Nat /\ 0 =< N
      BY <1>1
    <2> HIDE DEF step
    <2>2. Steps(0, N, X, <<>>, step)
      BY <1>1, <1>2, <2>1 DEF Steps
    <2>3. Iterated(0, N, X, <<>>, step)
      BY <2>2, Iteration
    <2> QED
      BY <2>3 DEF Iterated
  <1>4. f[0] = <<>>
    <2>1. 0 \in 0 .. N
      BY <1>1
    <2> QED
      BY <1>3, <2>1 DEF Iterates
  <1>5. ASSUME NEW n \in 1 .. N
        PROVE  f[n - 1] \in X /\ f[n] = f[n - 1] \o ss[n]
    <2>1. n \in 0 .. N /\ n - 1 \in 0 .. N /\ n # 0
      BY <1>1
    <2>2. f[n] = step[n][f[n - 1]]
      BY <1>3, <2>1 DEF Iterates
    <2>3. f[n - 1] \in X
      BY <1>3, <2>1
    <2> QED
      BY <2>2, <2>3
  <1>6. FlattenSeq(ss) = f[N]
    <2>1. \A k \in 1 .. Len(ss) : f[k - 1] \in Seq(T) /\ f[k] = f[k - 1] \o ss[k]
      BY <1>5 DEF N, X
    <2> HIDE DEF step
    <2> QED
      BY <1>4, <2>1, FlattenIs DEF N
  <1> QED
    BY <1>4, <1>5, <1>6 DEF N, X

\* It is a sequence of what the parts are made of, and as long as there are
\* parts, if none is empty.
LEMMA FlattenLong ==
  ASSUME NEW T, NEW ss \in Seq(Seq(T)), \A i \in 1 .. Len(ss) : ss[i] # <<>>
  PROVE  FlattenSeq(ss) \in Seq(T) /\ Len(ss) <= Len(FlattenSeq(ss))
  <1> DEFINE X == Seq(T)
             N == Len(ss)
  <1>1. N \in Nat /\ \A i \in 1 .. N : ss[i] \in X
    OBVIOUS
  <1>2. PICK f \in [0 .. N -> X] :
           /\ f[0] = <<>>
           /\ \A n \in 1 .. N : f[n] = f[n - 1] \o ss[n]
           /\ FlattenSeq(ss) = f[N]
    BY FlattenSteps
  <1> HIDE DEF N
  <1>3. \A n \in 0 .. N : f[n] \in X /\ n <= Len(f[n])
    <2> DEFINE bad == {n \in 0 .. N : ~ (n <= Len(f[n]))}
    <2>1. bad = {}
      <3> SUFFICES ASSUME bad # {} PROVE FALSE
        OBVIOUS
      <3>1. PICK n \in bad : \A m \in bad : n =< m
        <4>1. bad \in SUBSET Nat
          BY <1>1
        <4> HIDE DEF bad
        <4> QED
          BY <4>1, LeastNumber
      <3>2. n \in 0 .. N /\ ~ (n <= Len(f[n]))
        BY <3>1
      <3>3. n # 0
        <4>1. Len(f[0]) = 0
          BY <1>2
        <4> QED
          BY <3>2, <4>1
      <3>4. n - 1 \in 0 .. N /\ n - 1 < n /\ n \in 1 .. N
        BY <1>1, <3>2, <3>3
      <3>5. n - 1 \notin bad
        <4> HIDE DEF bad
        <4> QED
          BY <3>1, <3>2, <3>4
      <3>6. n - 1 <= Len(f[n - 1])
        BY <3>4, <3>5
      <3>7. ss[n] \in X /\ f[n - 1] \in X /\ ss[n] # <<>> /\ f[n] = f[n - 1] \o ss[n]
        BY <1>1, <1>2, <3>4 DEF N
      <3>8. Len(f[n]) = Len(f[n - 1]) + Len(ss[n]) /\ Len(ss[n]) \in Nat \ {0} /\ Len(f[n - 1]) \in Nat
        <4> DEFINE a == f[n - 1]
                   b == ss[n]
        <4>1. a \in Seq(T) /\ b \in Seq(T) /\ b # <<>> /\ f[n] = a \o b
          BY <3>7
        <4> HIDE DEF a, b
        <4>2. Len(a \o b) = Len(a) + Len(b) /\ Len(b) \in Nat \ {0} /\ Len(a) \in Nat
          BY <4>1
        <4> QED
          BY <4>1, <4>2 DEF a, b
      <3> DEFINE u == Len(f[n - 1])
                 v == Len(ss[n])
                 w == Len(f[n])
      <3>9. u \in Nat /\ v \in Nat \ {0} /\ w = u + v /\ n - 1 <= u /\ ~ (n <= w) /\ n \in 0 .. N
        BY <3>2, <3>6, <3>8
      <3> HIDE DEF u, v, w
      <3> QED
        BY <1>1, <3>9
    <2>2. \A n \in 0 .. N : n <= Len(f[n])
      BY <2>1
    <2> QED
      BY <1>2, <2>2
  <1>4. N \in 0 .. N
    BY <1>1
  <1> QED
    BY <1>2, <1>3, <1>4 DEF N

LEMMA FlattenType ==
  ASSUME NEW T, NEW ss \in Seq(Seq(T))
  PROVE  FlattenSeq(ss) \in Seq(T)
  <1>1. PICK f \in [0 .. Len(ss) -> Seq(T)] : FlattenSeq(ss) = f[Len(ss)]
    BY FlattenSteps
  <1>2. Len(ss) \in 0 .. Len(ss)
    OBVIOUS
  <1> DEFINE X == Seq(T)
             N == Len(ss)
  <1> HIDE DEF X, N
  <1>3. f \in [0 .. N -> X] /\ N \in 0 .. N /\ FlattenSeq(ss) = f[N]
    BY <1>1, <1>2 DEF X, N
  <1>4. FlattenSeq(ss) \in X
    BY <1>3
  <1> QED
    BY <1>4 DEF X

\* What is left of it after each part.
LEMMA FlattenRest ==
  ASSUME NEW T, NEW ss \in Seq(Seq(T))
  PROVE  \E r \in [0 .. Len(ss) -> Seq(T)] :
            /\ r[0] = FlattenSeq(ss)
            /\ r[Len(ss)] = <<>>
            /\ \A n \in 1 .. Len(ss) : r[n - 1] = ss[n] \o r[n]
  <1> DEFINE X == Seq(T)
             N == Len(ss)
             s == FlattenSeq(ss)
  <1>1. N \in Nat /\ \A i \in 1 .. N : ss[i] \in X
    OBVIOUS
  <1>2. PICK f \in [0 .. N -> X] :
           /\ f[0] = <<>>
           /\ \A n \in 1 .. N : f[n] = f[n - 1] \o ss[n]
           /\ s = f[N]
    BY FlattenSteps
  <1>3. s \in X
    BY FlattenType
  <1> HIDE DEF N, s, X
  <1> DEFINE Splits(n) == \E y \in X : s = f[n] \o y
             bad == {m \in 0 .. N : ~ Splits(N - m)}
  <1>4. \A n \in 0 .. N : Splits(n)
    <2>1. bad = {}
      <3> SUFFICES ASSUME bad # {} PROVE FALSE
        OBVIOUS
      <3> HIDE DEF Splits
      <3>1. PICK m \in bad : \A k \in bad : m =< k
        <4>1. bad \in SUBSET Nat
          BY <1>1
        <4> HIDE DEF bad
        <4> QED
          BY <4>1, LeastNumber
      <3>2. m \in 0 .. N /\ ~ Splits(N - m)
        BY <3>1
      <3>3. m # 0
        <4>1. <<>> \in X /\ s \o <<>> = s
          BY <1>3 DEF X
        <4>2. Splits(N)
          BY <1>2, <4>1 DEF Splits
        <4>3. N - 0 = N
          BY <1>1
        <4> QED
          BY <3>2, <4>2, <4>3
      <3>4. m - 1 \in 0 .. N /\ m - 1 < m /\ N - (m - 1) \in 1 .. N /\ (N - (m - 1)) - 1 = N - m
        BY <1>1, <3>2, <3>3
      <3>5. m - 1 \notin bad
        <4> HIDE DEF bad
        <4> QED
          BY <3>1, <3>2, <3>4
      <3>6. Splits(N - (m - 1))
        BY <3>4, <3>5
      <3> DEFINE n == N - (m - 1)
      <3>7. n \in 1 .. N /\ n - 1 = N - m /\ Splits(n)
        BY <3>4, <3>6
      <3> HIDE DEF n
      <3>8. PICK y \in X : s = f[n] \o y
        BY <3>7 DEF Splits
      <3>9. f[n] = f[n - 1] \o ss[n] /\ f[n - 1] \in X /\ ss[n] \in X
        <4>1. n - 1 \in 0 .. N
          BY <1>1, <3>7
        <4> QED
          BY <1>1, <1>2, <3>7, <4>1
      <3>10. ss[n] \o y \in X /\ f[n - 1] \o (ss[n] \o y) = (f[n - 1] \o ss[n]) \o y
        <4> DEFINE a == f[n - 1]
                   b == ss[n]
        <4>1. a \in Seq(T) /\ b \in Seq(T) /\ y \in Seq(T)
          BY <3>8, <3>9 DEF X
        <4> HIDE DEF a, b
        <4>2. b \o y \in Seq(T) /\ a \o (b \o y) = (a \o b) \o y
          <5>1. b \o y \in Seq(T)
            BY <4>1, ConcatProperties
          <5>2. a \o (b \o y) = (a \o b) \o y
            BY <4>1, ConcatAssociative, SMTT(30)
          <5> QED
            BY <5>1, <5>2
        <4> QED
          BY <4>2 DEF a, b, X
      <3>11. Splits(n - 1)
        BY <3>8, <3>9, <3>10 DEF Splits
      <3> QED
        BY <3>2, <3>7, <3>11
    <2>2. ASSUME NEW n \in 0 .. N
          PROVE  Splits(n)
      <3> HIDE DEF Splits
      <3>1. N - n \in 0 .. N /\ N - (N - n) = n
        BY <1>1
      <3>2. N - n \notin bad
        BY <2>1
      <3>3. Splits(N - (N - n))
        BY <3>1, <3>2
      <3> QED
        BY <3>1, <3>3
    <2> QED
      BY <2>2
  <1> DEFINE r == [n \in 0 .. N |-> CHOOSE y \in X : s = f[n] \o y]
  <1>5. \A n \in 0 .. N : r[n] \in X /\ s = f[n] \o r[n] /\ f[n] \in X
    BY <1>2, <1>4
  <1>6. r \in [0 .. N -> X]
    BY <1>5
  <1> HIDE DEF r, bad, Splits
  <1>7. 0 \in 0 .. N /\ N \in 0 .. N
    BY <1>1
  <1>8. r[0] = s
    <2>1. r[0] \in Seq(T) /\ s = <<>> \o r[0]
      BY <1>2, <1>5, <1>7 DEF X
    <2> QED
      BY <2>1
  <1>9. r[N] = <<>>
    <2> DEFINE a == r[N]
    <2>1. a \in Seq(T) /\ s = s \o a /\ s \in Seq(T)
      BY <1>2, <1>3, <1>5, <1>7 DEF X
    <2> HIDE DEF a
    <2>2. Len(s) = Len(s) + Len(a) /\ Len(s) \in Nat /\ Len(a) \in Nat
      <3>1. Len(s \o a) = Len(s) + Len(a)
        BY <2>1
      <3> QED
        BY <2>1, <3>1
    <2>3. Len(a) = 0
      BY <2>2
    <2> QED
      BY <2>1, <2>3 DEF a
  <1>10. ASSUME NEW n \in 1 .. N
         PROVE  r[n - 1] = ss[n] \o r[n]
    <2>1. n - 1 \in 0 .. N /\ n \in 0 .. N
      BY <1>1
    <2> DEFINE a == f[n - 1]
               b == ss[n]
               c == r[n]
               d == r[n - 1]
    <2>2. a \in Seq(T) /\ b \in Seq(T) /\ c \in Seq(T) /\ d \in Seq(T)
      BY <1>1, <1>5, <2>1 DEF X
    <2>3. a \o d = (a \o b) \o c
      BY <1>2, <1>5, <2>1
    <2> HIDE DEF a, b, c, d
    <2>4. b \o c \in Seq(T)
      BY <2>2
    <2>5. (a \o b) \o c = a \o (b \o c)
      BY <2>2, ConcatAssociative, SMTT(30)
    <2>6. a \o d = a \o (b \o c)
      BY <2>3, <2>5
    <2>7. d = b \o c
      BY <2>2, <2>4, <2>6, ConcatSimplifications
    <2> QED
      BY <2>7 DEF b, c, d
  <1> QED
    BY <1>6, <1>8, <1>9, <1>10 DEF N, s, X

\* Each turn of a reader takes one part, and gives what that part stands for.
Takes(one, bytes, gives) == \A y \in Seq(Nat) : one[bytes \o y] = [out |-> gives, rest |-> y]

\* A reader that takes a turn for each part has read them all; it may have more
\* turns when it stays at the end.
LEMMA TurnsIs ==
  ASSUME NEW U, NEW ss \in Seq(Seq(Nat)), NEW os \in Seq(Seq(U)), Len(os) = Len(ss), NEW one,
         \A i \in 1 .. Len(ss) : Takes(one, ss[i], os[i]),
         NEW n \in Nat, n = Len(ss) \/ (n >= Len(ss) /\ one[<<>>] = None(<<>>))
  PROVE  Turns(FlattenSeq(ss), n, one) = [out |-> FlattenSeq(os), rest |-> <<>>]
  <1> DEFINE N == Len(ss)
             s == FlattenSeq(ss)
             O == Seq(U)
             X == Seq(Nat)
             turn(before) == [out |-> before.out \o one[before.rest].out, rest |-> one[before.rest].rest]
             unfold(f) == [k \in 0 .. n |-> IF k = 0 THEN None(s) ELSE turn(f[k - 1])]
             it == CHOOSE f : f = unfold(f)
  <1>1. PICK r \in [0 .. N -> X] :
           /\ r[0] = s
           /\ r[N] = <<>>
           /\ \A k \in 1 .. N : r[k - 1] = ss[k] \o r[k]
    BY FlattenRest
  <1>2. PICK o \in [0 .. N -> O] :
           /\ o[0] = <<>>
           /\ \A k \in 1 .. N : o[k] = o[k - 1] \o os[k]
           /\ FlattenSeq(os) = o[N]
    <2>1. \E o \in [0 .. Len(os) -> Seq(U)] :
            /\ o[0] = <<>>
            /\ \A k \in 1 .. Len(os) : o[k] = o[k - 1] \o os[k]
            /\ FlattenSeq(os) = o[Len(os)]
      BY FlattenSteps
    <2> HIDE DEF O
    <2> QED
      BY <2>1 DEF O
  <1>3. N \in Nat /\ n \in Nat /\ N <= n /\ 0 \in 0 .. n /\ n \in 0 .. n
    OBVIOUS
  <1>4. Turns(s, n, one) = it[n]
    BY DEF Turns
  <1> DEFINE g == [k \in 0 .. n |-> IF k <= N THEN [out |-> o[k], rest |-> r[k]] ELSE [out |-> o[N], rest |-> <<>>]]
  <1>5. ASSUME NEW k \in 1 .. N
        PROVE  one[r[k - 1]] = [out |-> os[k], rest |-> r[k]]
    <2>1. k \in 0 .. N
      BY <1>3
    <2>2. r[k] \in X
      <3> HIDE DEF X, N
      <3> QED
        BY <1>1, <2>1
    <2>3. Takes(one, ss[k], os[k])
      OBVIOUS
    <2>4. one[ss[k] \o r[k]] = [out |-> os[k], rest |-> r[k]]
      BY <2>2, <2>3 DEF Takes
    <2>5. r[k - 1] = ss[k] \o r[k]
      BY <1>1
    <2> QED
      BY <2>4, <2>5
  <1>6. ASSUME NEW k \in 0 .. n
        PROVE  g[k] = IF k = 0 THEN None(s) ELSE turn(g[k - 1])
    <2>0. \A a, x, b, y : one[x] = [out |-> b, rest |-> y] => turn([out |-> a, rest |-> x]) = [out |-> a \o b, rest |-> y]
      <3> SUFFICES ASSUME NEW a, NEW x, NEW b, NEW y, one[x] = [out |-> b, rest |-> y]
                   PROVE  turn([out |-> a, rest |-> x]) = [out |-> a \o b, rest |-> y]
        OBVIOUS
      <3> DEFINE was == [out |-> a, rest |-> x]
                 made == one[x]
      <3>1. was.out = a /\ was.rest = x
        OBVIOUS
      <3>2. made.out = b /\ made.rest = y
        OBVIOUS
      <3>3. one[was.rest] = made
        BY <3>1
      <3> HIDE DEF was, made
      <3>4. turn(was) = [out |-> a \o b, rest |-> y]
        BY <3>1, <3>2, <3>3
      <3> QED
        BY <3>4 DEF was
    <2> HIDE DEF turn
    <2>1. CASE k = 0
      <3>1. g[0] = [out |-> o[0], rest |-> r[0]]
        BY <1>3
      <3> QED
        BY <1>1, <1>2, <2>1, <3>1 DEF None
    <2>2. CASE k \in 1 .. N
      <3>1. k # 0 /\ k - 1 \in 0 .. n /\ k <= N /\ k - 1 <= N
        BY <1>3, <2>2
      <3>2. g[k] = [out |-> o[k], rest |-> r[k]] /\ g[k - 1] = [out |-> o[k - 1], rest |-> r[k - 1]]
        BY <3>1
      <3>3. one[r[k - 1]] = [out |-> os[k], rest |-> r[k]] /\ o[k] = o[k - 1] \o os[k]
        BY <1>2, <1>5, <2>2
      <3> HIDE DEF g
      <3>4. turn(g[k - 1]) = [out |-> o[k - 1] \o os[k], rest |-> r[k]]
        <4>1. turn([out |-> o[k - 1], rest |-> r[k - 1]]) = [out |-> o[k - 1] \o os[k], rest |-> r[k]]
          <5> DEFINE a == o[k - 1]
                     x == r[k - 1]
                     b == os[k]
                     y == r[k]
          <5>1. one[x] = [out |-> b, rest |-> y]
            BY <3>3
          <5> HIDE DEF a, x, b, y
          <5>2. turn([out |-> a, rest |-> x]) = [out |-> a \o b, rest |-> y]
            BY ONLY <2>0, <5>1
          <5> QED
            BY <5>2 DEF a, x, b, y
        <4> QED
          BY <3>2, <4>1
      <3> QED
        BY <3>1, <3>2, <3>3, <3>4
    <2>3. CASE k > N
      <3>1. k # 0 /\ k - 1 \in 0 .. n /\ ~ (k <= N) /\ n # N
        BY <1>3, <2>3
      <3>2. one[<<>>] = None(<<>>)
        BY <3>1
      <3>3. o[N] \in Seq(U) /\ o[N] \o <<>> = o[N]
        <4> DEFINE a == o[N]
        <4>1. N \in 0 .. N
          BY <1>3
        <4>2. a \in Seq(U)
          BY <1>2, <4>1
        <4> HIDE DEF a
        <4>3. a \o <<>> = a
          BY <4>2
        <4> QED
          BY <4>2, <4>3 DEF a
      <3>4. g[k] = [out |-> o[N], rest |-> <<>>]
        BY <3>1
      <3>5. g[k - 1] = [out |-> o[N], rest |-> <<>>]
        <4>1. CASE k - 1 = N
          <5>1. g[k - 1] = [out |-> o[N], rest |-> r[N]]
            BY <1>3, <3>1, <4>1
          <5> QED
            BY <1>1, <5>1
        <4>2. CASE k - 1 # N
          <5>1. ~ (k - 1 <= N)
            BY <1>3, <2>3, <4>2
          <5> QED
            BY <3>1, <5>1
        <4> QED
          BY <4>1, <4>2
      <3> HIDE DEF g
      <3>6. turn(g[k - 1]) = [out |-> o[N] \o <<>>, rest |-> <<>>]
        BY <2>0, <3>2, <3>5 DEF None
      <3> QED
        BY <3>1, <3>3, <3>4, <3>6
    <2>4. k = 0 \/ k \in 1 .. N \/ k > N
      BY <1>3
    <2> HIDE DEF g
    <2> QED
      BY <2>1, <2>2, <2>3, <2>4
  <1>7. g = unfold(g)
    <2> DEFINE h(f, k) == IF k = 0 THEN None(s) ELSE turn(f[k - 1])
    <2>1. \A k \in 0 .. n : g[k] = h(g, k)
      BY <1>6
    <2>2. g = [k \in 0 .. n |-> g[k]]
      OBVIOUS
    <2> HIDE DEF g, h
    <2>3. [k \in 0 .. n |-> g[k]] = [k \in 0 .. n |-> h(g, k)]
      BY <2>1
    <2> QED
      BY <2>2, <2>3 DEF h
  <1>8. it = unfold(it)
    <2> HIDE DEF g, unfold
    <2> QED
      BY <1>7
  <1>9. g[n] = [out |-> o[N], rest |-> <<>>]
    <2>1. CASE n = N
      <3>1. g[n] = [out |-> o[N], rest |-> r[N]]
        BY <1>3, <2>1
      <3> QED
        BY <1>1, <3>1
    <2>2. CASE n # N
      <3>1. ~ (n <= N)
        BY <1>3, <2>2
      <3> QED
        BY <1>3, <3>1
    <2> QED
      BY <2>1, <2>2
  <1> HIDE DEF it, g
  <1>10. \A k \in 0 .. n : it[k] = g[k]
    <2> DEFINE off == {k \in 0 .. n : it[k] # g[k]}
    <2> SUFFICES ASSUME off # {} PROVE FALSE
      OBVIOUS
    <2>1. PICK k \in off : \A m \in off : k =< m
      <3>1. off \in SUBSET Nat
        OBVIOUS
      <3> HIDE DEF off
      <3> QED
        BY <3>1, LeastNumber
    <2>2. k \in 0 .. n /\ it[k] # g[k]
      BY <2>1
    <2> DEFINE h(f, i) == IF i = 0 THEN None(s) ELSE turn(f[i - 1])
    <2>3. it[k] = h(it, k) /\ g[k] = h(g, k)
      <3>1. it = [i \in 0 .. n |-> h(it, i)] /\ g = [i \in 0 .. n |-> h(g, i)]
        BY <1>7, <1>8
      <3> HIDE DEF h
      <3> QED
        BY <2>2, <3>1
    <2>4. k # 0
      BY <2>2, <2>3
    <2>5. k - 1 \in 0 .. n /\ k - 1 < k
      BY <1>3, <2>2, <2>4
    <2>6. k - 1 \notin off
      <3> HIDE DEF off
      <3> QED
        BY <2>1, <2>2, <2>5
    <2>7. it[k - 1] = g[k - 1]
      BY <2>5, <2>6
    <2> QED
      BY <2>2, <2>3, <2>7
  <1>11. it[n] = g[n]
    BY <1>3, <1>10
  <1> QED
    BY <1>2, <1>4, <1>9, <1>11

\* A function on 1 .. N is a sequence.
LEMMA IsSequence ==
  ASSUME NEW n \in Nat, NEW S, NEW q, q = [i \in 1 .. n |-> q[i]], \A i \in 1 .. n : q[i] \in S
  PROVE  q \in Seq(S) /\ Len(q) = n
  OBVIOUS

\* What was taken apart into elements.
LEMMA Singles ==
  ASSUME NEW T, NEW s \in Seq(T)
  PROVE  FlattenSeq([i \in 1 .. Len(s) |-> <<s[i]>>]) = s
  <1> DEFINE ss == [i \in 1 .. Len(s) |-> <<s[i]>>]
             g == [k \in 0 .. Len(s) |-> SubSeq(s, 1, k)]
  <1>1. Len(s) \in Nat /\ \A i \in 1 .. Len(s) : s[i] \in T
    OBVIOUS
  <1>2. ss \in Seq(Seq(T)) /\ Len(ss) = Len(s)
    <2>1. \A i \in 1 .. Len(s) : <<s[i]>> \in Seq(T)
      BY <1>1
    <2> DEFINE X == Seq(T)
    <2>2. \A i \in 1 .. Len(s) : <<s[i]>> \in X
      BY <2>1
    <2> HIDE DEF X
    <2>3. ss \in Seq(X) /\ Len(ss) = Len(s)
      BY <1>1, <2>2
    <2> QED
      BY <2>3 DEF X
  <1>3. g[0] = <<>>
    <2>1. 0 \in 0 .. Len(s) /\ SubSeq(s, 1, 0) = <<>>
      BY <1>1
    <2> QED
      BY <2>1
  <1>4. ASSUME NEW k \in 1 .. Len(s)
        PROVE  g[k - 1] \in Seq(T) /\ g[k] = g[k - 1] \o ss[k]
    <2>1. k - 1 \in 0 .. Len(s) /\ k \in 0 .. Len(s)
      BY <1>1
    <2>2. g[k - 1] = SubSeq(s, 1, k - 1) /\ g[k] = SubSeq(s, 1, k) /\ ss[k] = <<s[k]>>
      BY <2>1
    <2> DEFINE a == SubSeq(s, 1, k - 1)
               b == SubSeq(s, 1, k)
    <2>3. a \in Seq(T) /\ Len(a) = k - 1 /\ \A i \in 1 .. k - 1 : a[i] = s[i]
      BY <1>1
    <2>4. b \in Seq(T) /\ Len(b) = k /\ \A i \in 1 .. k : b[i] = s[i]
      BY <1>1
    <2> HIDE DEF a, b, g, ss
    <2>5. b = a \o <<s[k]>>
      <3> DEFINE c == a \o <<s[k]>>
      <3>1. s[k] \in T
        BY <1>1
      <3>2. c \in Seq(T) /\ Len(c) = k /\ \A i \in 1 .. k : c[i] = IF i <= k - 1 THEN a[i] ELSE s[k]
        BY <2>3, <3>1
      <3> HIDE DEF c
      <3>3. \A i \in 1 .. k : c[i] = b[i]
        BY <2>3, <2>4, <3>2
      <3>4. b = c
        BY <2>4, <3>2, <3>3, SeqEqual
      <3> QED
        BY <3>4 DEF c
    <2> QED
      BY <2>2, <2>3, <2>5 DEF a, b
  <1>5. g[Len(s)] = s
    <2>1. Len(s) \in 0 .. Len(s) /\ SubSeq(s, 1, Len(s)) = s
      BY <1>1
    <2> QED
      BY <2>1
  <1> HIDE DEF ss, g
  <1>6. FlattenSeq(ss) = g[Len(ss)]
    <2>1. ss \in Seq(Seq(T)) /\ \A k \in 1 .. Len(ss) : g[k - 1] \in Seq(T) /\ g[k] = g[k - 1] \o ss[k]
      BY <1>2, <1>4
    <2> QED
      BY <1>3, <2>1, FlattenIs
  <1> QED
    BY <1>2, <1>5, <1>6 DEF ss

\* What comes before and after the end of p in p \o y.
LEMMA FromBehind ==
  ASSUME NEW p \in Seq(Nat), NEW y \in Seq(Nat)
  PROVE  /\ p \o y \in Seq(Nat) /\ Len(p \o y) = Len(p) + Len(y)
         /\ \A i \in 1 .. Len(p) : (p \o y)[i] = p[i]
         /\ From(p \o y, Len(p) + 1) = y
  <1> DEFINE x == p \o y
             c == SubSeq(x, Len(p) + 1, Len(x))
  <1>1. Len(p) \in Nat /\ Len(y) \in Nat
    OBVIOUS
  <1>2. /\ x \in Seq(Nat) /\ Len(x) = Len(p) + Len(y)
        /\ \A i \in 1 .. Len(p) + Len(y) : x[i] = IF i <= Len(p) THEN p[i] ELSE y[i - Len(p)]
    BY ConcatProperties
  <1> HIDE DEF x
  <1>3. c \in Seq(Nat) /\ Len(c) = Len(y) /\ \A i \in 1 .. Len(y) : c[i] = x[Len(p) + i]
    BY <1>1, <1>2, SMTT(30)
  <1> HIDE DEF c
  <1>4. \A i \in 1 .. Len(y) : c[i] = y[i]
    <2> SUFFICES ASSUME NEW i \in 1 .. Len(y)
                 PROVE  c[i] = y[i]
      OBVIOUS
    <2>1. Len(p) + i \in 1 .. Len(p) + Len(y) /\ ~ (Len(p) + i <= Len(p)) /\ (Len(p) + i) - Len(p) = i
      BY <1>1
    <2> QED
      BY <1>2, <1>3, <2>1
  <1>5. c = y
    BY <1>3, <1>4, SeqEqual
  <1>6. \A i \in 1 .. Len(p) : x[i] = p[i]
    BY <1>1, <1>2
  <1> QED
    BY <1>2, <1>5, <1>6 DEF From, c, x

\* A hex digit is read as what it was written for.
LEMMA HexBack ==
  ASSUME NEW d \in 0 .. 15
  PROVE  Hex[d] \in Nat /\ HexValue(Hex[d]) = d
  <1>1. Hex[d] = IF d < 10 THEN 48 + d ELSE 55 + d
    BY DEF Hex
  <1> DEFINE b == Hex[d]
  <1>2. CASE d < 10
    <2>1. b \in 48 .. 57 /\ b \in Nat /\ b - 48 = d
      BY <1>1, <1>2
    <2> HIDE DEF b
    <2>2. HexValue(b) = d
      BY <2>1 DEF HexValue
    <2> QED
      BY <2>1, <2>2 DEF b
  <1>3. CASE ~ (d < 10)
    <2>1. b \in 65 .. 70 /\ b \notin 48 .. 57 /\ b \in Nat /\ b - 55 = d /\ b \notin 97 .. 102
      BY <1>1, <1>3
    <2> HIDE DEF b
    <2>2. HexValue(b) = d
      BY <2>1 DEF HexValue
    <2> QED
      BY <2>1, <2>2 DEF b
  <1> QED
    BY <1>2, <1>3

\* One turn of percent_decode takes back what a character was escaped to.
PercentOne == [x \in Seq(Nat) |-> PercentDecodeOne(x)]

LEMMA PercentTakes ==
  ASSUME NEW b \in Ascii
  PROVE  /\ PercentEscape(b) \in Seq(Nat) /\ PercentEscape(b) # <<>>
         /\ Takes(PercentOne, PercentEscape(b), <<b>>)
  <1>0. b \in 0 .. 127
    BY DEF Ascii
  <1>1. CASE b \in 65 .. 90
    <2>1. PercentEscape(b) = <<b>> /\ <<b>> \in Seq(Nat) /\ <<b>> # <<>> /\ Len(<<b>>) = 1 /\ <<b>>[1] = b
      BY <1>0, <1>1 DEF PercentEscape
    <2>2. ASSUME NEW y \in Seq(Nat)
          PROVE  PercentOne[<<b>> \o y] = [out |-> <<b>>, rest |-> y]
      <3> DEFINE p == <<b>>
                 x == p \o y
      <3>1. p \in Seq(Nat) /\ Len(p) = 1 /\ p[1] = b
        BY <2>1
      <3> HIDE DEF p
      <3>2. /\ x \in Seq(Nat) /\ Len(x) = 1 + Len(y) /\ x[1] = b /\ From(x, 2) = y
        <4>1. /\ x \in Seq(Nat) /\ Len(x) = Len(p) + Len(y)
              /\ \A i \in 1 .. Len(p) : x[i] = p[i]
              /\ From(x, Len(p) + 1) = y
          BY <3>1, FromBehind
        <4> HIDE DEF x
        <4>2. 1 \in 1 .. Len(p) /\ Len(p) + 1 = 2
          BY <3>1
        <4> QED
          BY <3>1, <4>1, <4>2
      <3> HIDE DEF x
      <3>3. x # <<>> /\ Tail(x) = y
        <4>1. Len(y) \in Nat
          OBVIOUS
        <4>2. Len(x) # 0
          BY <3>2, <4>1
        <4>3. x # <<>>
          BY <4>2
        <4>4. Tail(x) = SubSeq(x, 2, Len(x))
          BY <3>2, <4>3
        <4> QED
          BY <3>2, <4>3, <4>4 DEF From
      <3>4. b # 37 /\ b # 43
        BY <1>1
      <3>5. PercentDecodeOne(x) = One(b, y)
        BY <3>2, <3>3, <3>4 DEF PercentDecodeOne
      <3>6. PercentOne[x] = PercentDecodeOne(x)
        BY <3>2 DEF PercentOne
      <3> QED
        BY <3>5, <3>6 DEF One, x, p
    <2> QED
      BY <2>1, <2>2 DEF Takes
  <1>2. CASE b \notin 65 .. 90
    <2> DEFINE h == Hex[b \div 16]
               l == Hex[b % 16]
               p == <<37, h, l>>
    <2>1. b \div 16 \in 0 .. 15 /\ b % 16 \in 0 .. 15 /\ (16 * (b \div 16)) + (b % 16) = b
      BY <1>0
    <2>2. h \in Nat /\ l \in Nat /\ HexValue(h) = b \div 16 /\ HexValue(l) = b % 16
      BY <2>1, HexBack
    <2>3. PercentEscape(b) = p
      BY <1>2 DEF PercentEscape
    <2> HIDE DEF h, l
    <2>4. p \in Seq(Nat) /\ Len(p) = 3 /\ p[1] = 37 /\ p[2] = h /\ p[3] = l /\ p # <<>>
      BY <2>2
    <2> HIDE DEF p
    <2>5. ASSUME NEW y \in Seq(Nat)
          PROVE  PercentOne[p \o y] = [out |-> <<b>>, rest |-> y]
      <3> DEFINE x == p \o y
      <3>0. 1 \in 1 .. 3 /\ 2 \in 1 .. 3 /\ 3 \in 1 .. 3 /\ 3 + 1 = 4
        OBVIOUS
      <3>1. /\ x \in Seq(Nat) /\ Len(x) = 3 + Len(y) /\ x[1] = 37 /\ x[2] = h /\ x[3] = l /\ From(x, 4) = y
        <4>1. /\ x \in Seq(Nat) /\ Len(x) = Len(p) + Len(y)
              /\ \A i \in 1 .. Len(p) : x[i] = p[i]
              /\ From(x, Len(p) + 1) = y
          BY <2>4, FromBehind
        <4> HIDE DEF x
        <4>2. 1 \in 1 .. Len(p) /\ 2 \in 1 .. Len(p) /\ 3 \in 1 .. Len(p) /\ Len(p) + 1 = 4
          BY <2>4, <3>0
        <4> QED
          BY <2>4, <4>1, <4>2
      <3> HIDE DEF x
      <3>2. Len(x) > 2 /\ x # <<>>
        <4>1. Len(y) \in Nat
          OBVIOUS
        <4>2. Len(x) > 2
          BY <3>1, <4>1
        <4>3. Len(<<>>) = 0
          OBVIOUS
        <4> QED
          BY <4>2, <4>3
      <3>3. HexValue(x[2]) >= 0 /\ HexValue(x[3]) >= 0 /\ 16 * HexValue(x[2]) + HexValue(x[3]) = b
        <4> DEFINE q == b \div 16
                   r == b % 16
        <4>1. HexValue(x[2]) = q /\ HexValue(x[3]) = r
          BY <2>2, <3>1
        <4>2. q \in 0 .. 15 /\ r \in 0 .. 15 /\ 16 * q + r = b
          BY <2>1
        <4> HIDE DEF q, r
        <4>3. HexValue(x[2]) >= 0 /\ HexValue(x[3]) >= 0
          BY <4>1, <4>2
        <4> QED
          BY <4>1, <4>2, <4>3
      <3>4. PercentDecodeOne(x) = One(b, y)
        BY <3>1, <3>2, <3>3 DEF PercentDecodeOne
      <3>5. PercentOne[x] = PercentDecodeOne(x)
        BY <3>1 DEF PercentOne
      <3> QED
        BY <3>4, <3>5 DEF One, x
    <2> QED
      BY <2>3, <2>4, <2>5 DEF Takes
  <1> QED
    BY <1>1, <1>2

\* Of an escaped argument the decoder makes the argument.
LEMMA PercentBack ==
  ASSUME NEW a \in Seq(Ascii)
  PROVE  PercentDecode(PercentEncode(a)) = a
  <1> DEFINE N == Len(a)
             X == Seq(Nat)
             A == Seq(Ascii)
             ss == [i \in 1 .. N |-> PercentEscape(a[i])]
             os == [i \in 1 .. N |-> <<a[i]>>]
             s == FlattenSeq(ss)
  <1>1. N \in Nat /\ \A i \in 1 .. N : a[i] \in Ascii
    OBVIOUS
  <1>2. \A i \in 1 .. N : /\ PercentEscape(a[i]) \in X /\ PercentEscape(a[i]) # <<>>
                          /\ Takes(PercentOne, PercentEscape(a[i]), <<a[i]>>)
    BY <1>1, PercentTakes
  <1>3. \A i \in 1 .. N : <<a[i]>> \in A
    BY <1>1
  <1> HIDE DEF X, A, N
  <1>4. ss \in Seq(X) /\ Len(ss) = N /\ os \in Seq(A) /\ Len(os) = N
    <2>1. ss \in Seq(X) /\ Len(ss) = N
      <3>1. ss = [i \in 1 .. N |-> ss[i]] /\ \A i \in 1 .. N : ss[i] = PercentEscape(a[i])
        OBVIOUS
      <3> HIDE DEF ss
      <3>2. \A i \in 1 .. N : ss[i] \in X
        BY <1>2, <3>1
      <3> QED
        BY <1>1, <3>1, <3>2, IsSequence
    <2>2. os \in Seq(A) /\ Len(os) = N
      BY <1>1, <1>3
    <2> QED
      BY <2>1, <2>2
  <1>5. \A i \in 1 .. Len(ss) : ss[i] # <<>> /\ Takes(PercentOne, ss[i], os[i])
    BY <1>2, <1>4
  <1>6. FlattenSeq(os) = a
    BY Singles DEF N
  <1>7. PercentEncode(a) = s
    BY DEF PercentEncode, N
  <1> HIDE DEF ss, os
  <1>8. s \in Seq(Nat) /\ N <= Len(s)
    BY <1>4, <1>5, FlattenLong DEF X
  <1> HIDE DEF s
  <1>9. PercentOne[<<>>] = None(<<>>)
    <2>1. <<>> \in Seq(Nat) /\ PercentDecodeOne(<<>>) = None(<<>>)
      BY DEF PercentDecodeOne
    <2> QED
      BY <2>1 DEF PercentOne
  <1>10. Turns(s, Len(s), PercentOne) = [out |-> FlattenSeq(os), rest |-> <<>>]
    <2>1. Len(s) \in Nat /\ Len(s) >= Len(ss) /\ Len(os) = Len(ss)
      BY <1>1, <1>4, <1>8
    <2>2. ss \in Seq(Seq(Nat)) /\ os \in Seq(Seq(Ascii))
      BY <1>4 DEF X, A
    <2> QED
      BY <1>5, <1>9, <2>1, <2>2, TurnsIs DEF s
  <1>11. PercentDecode(s) = Turns(s, Len(s), PercentOne).out
    BY DEF PercentDecode, PercentOne
  <1> QED
    BY <1>6, <1>7, <1>10, <1>11

(***************************************************************************)
(* SPDY frames.                                                            *)
(***************************************************************************)
\* A length of 24 bits is read as it was written.
LEMMA LengthBack ==
  ASSUME NEW n \in Nat, n < LenMod
  PROVE  BE3(n) \in Seq(Byte) /\ Len(BE3(n)) = 3 /\ n % LenMod = n /\ Int3(BE3(n)) = n
  <1> DEFINE q == n \div 256
             a == q \div 256
             b == q % 256
             c == n % 256
  <1>1. n < 256 * 256 * 256
    BY DEF LenMod
  <1>2. q \in Nat /\ c \in 0 .. 255 /\ n = 256 * q + c
    OBVIOUS
  <1>3. n % LenMod = n
    BY <1>1 DEF LenMod
  <1> HIDE DEF q, c
  <1>4. a \in Nat /\ b \in 0 .. 255 /\ q = 256 * a + b
    BY <1>2
  <1> HIDE DEF a, b
  <1>5. a \in 0 .. 255
    BY <1>1, <1>2, <1>4
  <1>6. BE3(n) = <<a, b, c>>
    BY DEF BE3, a, b, c, q
  <1>7. <<a, b, c>> \in Seq(Byte) /\ Len(<<a, b, c>>) = 3
    BY <1>2, <1>4, <1>5 DEF Byte
  <1>8. Int3(<<a, b, c>>) = 256 * (256 * a + b) + c
    BY DEF Int3
  <1>9. 256 * (256 * a + b) + c = n
    BY <1>2, <1>4
  <1> QED
    BY <1>3, <1>6, <1>7, <1>8, <1>9

LEMMA BytesAreNumbers ==
  ASSUME NEW s \in Seq(Byte)
  PROVE  s \in Seq(Nat)
  <1>1. Byte \subseteq Nat
    BY DEF Byte
  <1>2. Len(s) \in Nat /\ s = [i \in 1 .. Len(s) |-> s[i]] /\ \A i \in 1 .. Len(s) : s[i] \in Byte
    OBVIOUS
  <1>3. \A i \in 1 .. Len(s) : s[i] \in Nat
    BY <1>1, <1>2
  <1> QED
    BY <1>2, <1>3, IsSequence

\* The elements of a slice.
LEMMA Slice ==
  ASSUME NEW T, NEW s \in Seq(T), NEW m \in Nat \ {0}, NEW n \in Nat, m <= n + 1, n <= Len(s)
  PROVE  /\ SubSeq(s, m, n) \in Seq(T) /\ Len(SubSeq(s, m, n)) = (n + 1) - m
         /\ \A i \in 1 .. (n + 1) - m : SubSeq(s, m, n)[i] = s[(m + i) - 1]
  OBVIOUS

\* Two that agree have the same slices.
LEMMA SameSlice ==
  ASSUME NEW T, NEW s \in Seq(T), NEW t \in Seq(T), NEW m \in Nat \ {0}, NEW n \in Nat,
         m <= n + 1, n <= Len(s), n <= Len(t), \A i \in m .. n : s[i] = t[i]
  PROVE  SubSeq(s, m, n) = SubSeq(t, m, n)
  <1> DEFINE u == SubSeq(s, m, n)
             v == SubSeq(t, m, n)
             l == (n + 1) - m
  <1>1. l \in Nat /\ \A i \in 1 .. l : (m + i) - 1 \in m .. n
    OBVIOUS
  <1>2. u \in Seq(T) /\ Len(u) = l /\ \A i \in 1 .. l : u[i] = s[(m + i) - 1]
    BY Slice
  <1>3. v \in Seq(T) /\ Len(v) = l /\ \A i \in 1 .. l : v[i] = t[(m + i) - 1]
    BY Slice
  <1> HIDE DEF u, v, l
  <1>4. \A i \in 1 .. l : u[i] = v[i]
    BY <1>1, <1>2, <1>3
  <1>5. u = v
    BY <1>2, <1>3, <1>4, SeqEqual
  <1> QED
    BY <1>5 DEF u, v

\* Eight bytes h, with a length, then as many bytes, then what follows.
Framed(h, p) == h \in Seq(Byte) /\ Len(h) = 8 /\ p \in Seq(Byte) /\ Int3(SubSeq(h, 6, 8)) = Len(p)

\* What a reader finds there.
OpensAs(x, h, p, y) ==
  /\ x \in Seq(Nat) /\ Len(x) >= 8 /\ Len(x) >= 8 + Len(p)
  /\ Int3(SubSeq(x, 6, 8)) = Len(p)
  /\ x[1] = h[1] /\ x[3] = h[3] /\ x[4] = h[4] /\ x[5] = h[5]
  /\ SubSeq(x, 1, 4) = SubSeq(h, 1, 4)
  /\ SubSeq(x, 9, 8 + Len(p)) = p
  /\ From(x, (8 + Len(p)) + 1) = y

LEMMA FrameOpens ==
  ASSUME NEW h, NEW p, Framed(h, p), NEW y \in Seq(Nat)
  PROVE  OpensAs((h \o p) \o y, h, p, y)
  <1> DEFINE q == h \o p
             x == q \o y
             n == Len(p)
  <1>1. h \in Seq(Nat) /\ Len(h) = 8 /\ p \in Seq(Nat) /\ Int3(SubSeq(h, 6, 8)) = n
    BY BytesAreNumbers DEF Framed
  <1>2. n \in Nat /\ Len(y) \in Nat
    BY <1>1
  <1>3. /\ q \in Seq(Nat) /\ Len(q) = 8 + n
        /\ \A i \in 1 .. 8 : q[i] = h[i]
        /\ From(q, 8 + 1) = p
    <2>1. /\ q \in Seq(Nat) /\ Len(q) = Len(h) + Len(p)
          /\ \A i \in 1 .. Len(h) : q[i] = h[i]
          /\ From(q, Len(h) + 1) = p
      BY <1>1, FromBehind
    <2> HIDE DEF q
    <2> QED
      BY <1>1, <2>1
  <1> HIDE DEF q, n
  <1>4. /\ x \in Seq(Nat) /\ Len(x) = Len(q) + Len(y)
        /\ \A i \in 1 .. Len(q) : x[i] = q[i]
        /\ From(x, Len(q) + 1) = y
    BY <1>3, FromBehind
  <1> HIDE DEF x
  <1>5. Len(x) = (8 + n) + Len(y) /\ Len(x) >= 8 /\ Len(x) >= 8 + n /\ 8 \in Nat /\ 8 + n \in Nat /\ 8 <= 8 + n
    BY <1>2, <1>3, <1>4
  <1>6. ASSUME NEW i \in 1 .. 8
        PROVE  x[i] = h[i]
    <2> DEFINE m == Len(q)
    <2>1. m = 8 + n /\ q[i] = h[i] /\ \A j \in 1 .. m : x[j] = q[j]
      BY <1>3, <1>4
    <2> HIDE DEF m
    <2>2. i \in 1 .. m
      BY <1>2, <2>1
    <2> QED
      BY <2>1, <2>2
  <1>7. SubSeq(x, 1, 4) = SubSeq(h, 1, 4)
    <2>1. \A i \in 1 .. 4 : i \in 1 .. 8
      OBVIOUS
    <2>2. \A i \in 1 .. 4 : x[i] = h[i]
      BY <1>6, <2>1
    <2>3. 1 \in Nat \ {0} /\ 4 \in Nat /\ 1 <= 4 + 1 /\ 4 <= Len(x) /\ 4 <= Len(h)
      BY <1>1, <1>2, <1>5
    <2> QED
      BY <1>1, <1>4, <2>2, <2>3, SameSlice
  <1>8. Int3(SubSeq(x, 6, 8)) = Int3(SubSeq(h, 6, 8))
    <2>1. \A i \in 6 .. 8 : i \in 1 .. 8
      OBVIOUS
    <2>2. \A i \in 6 .. 8 : x[i] = h[i]
      BY <1>6, <2>1
    <2>3. 6 \in Nat \ {0} /\ 8 \in Nat /\ 6 <= 8 + 1 /\ 8 <= Len(x) /\ 8 <= Len(h)
      BY <1>1, <1>2, <1>5
    <2>4. SubSeq(x, 6, 8) = SubSeq(h, 6, 8)
      BY <1>1, <1>4, <2>2, <2>3, SameSlice
    <2> QED
      BY <2>4
  <1>9. SubSeq(x, 9, 8 + n) = p
    <2>1. \A i \in 9 .. 8 + n : i \in 1 .. Len(q)
      BY <1>2, <1>3
    <2>2. \A i \in 9 .. 8 + n : x[i] = q[i]
      BY <1>4, <2>1
    <2>3. 9 \in Nat \ {0} /\ 8 + n \in Nat /\ 9 <= (8 + n) + 1 /\ 8 + n <= Len(x) /\ 8 + n <= Len(q)
      BY <1>2, <1>3, <1>5
    <2>4. SubSeq(x, 9, 8 + n) = SubSeq(q, 9, 8 + n)
      <3> DEFINE e == 8 + n
      <3>1. 9 \in Nat \ {0} /\ e \in Nat /\ 9 <= e + 1 /\ e <= Len(x) /\ e <= Len(q) /\ \A i \in 9 .. e : x[i] = q[i]
        BY <2>2, <2>3
      <3>2. x \in Seq(Nat) /\ q \in Seq(Nat)
        BY <1>3, <1>4
      <3> HIDE DEF e
      <3>3. SubSeq(x, 9, e) = SubSeq(q, 9, e)
        BY <3>1, <3>2, SameSlice
      <3> QED
        BY <3>3 DEF e
    <2>5. SubSeq(q, 9, 8 + n) = p
      <3>1. From(q, 9) = SubSeq(q, 9, 8 + n)
        BY <1>3 DEF From
      <3>2. 8 + 1 = 9
        OBVIOUS
      <3> QED
        BY <1>3, <3>1, <3>2
    <2> QED
      BY <2>4, <2>5
  <1>10. x[1] = h[1] /\ x[3] = h[3] /\ x[4] = h[4] /\ x[5] = h[5]
    <2>1. 1 \in 1 .. 8 /\ 3 \in 1 .. 8 /\ 4 \in 1 .. 8 /\ 5 \in 1 .. 8
      OBVIOUS
    <2> QED
      BY <1>6, <2>1
  <1>11. From(x, (8 + n) + 1) = y
    BY <1>3, <1>4
  <1>12. OpensAs(x, h, p, y)
    BY <1>1, <1>4, <1>5, <1>7, <1>8, <1>9, <1>10, <1>11 DEF OpensAs, n
  <1> QED
    BY <1>12 DEF x, q

\* The four bytes of an id; a stream's id is left as it is by the mask.
LEMMA WordBytes ==
  ASSUME NEW w \in Word
  PROVE  /\ w \in Seq(Byte) /\ Len(w) = 4 /\ Masked(w) \in Seq(Byte) /\ Len(Masked(w)) = 4
         /\ (w \in StreamId => Masked(w) = w)
  <1>1. w \in [1 .. 4 -> Byte] /\ 4 \in Nat /\ 1 \in 1 .. 4
    BY DEF Word
  <1>2. w \in Seq(Byte) /\ Len(w) = 4
    <2>1. w = [i \in 1 .. 4 |-> w[i]] /\ \A i \in 1 .. 4 : w[i] \in Byte
      BY <1>1
    <2> QED
      BY <1>1, <2>1, IsSequence
  <1> DEFINE a == w[1]
  <1>3. a \in 0 .. 255
    BY <1>1 DEF Byte
  <1> HIDE DEF a
  <1>4. a % 128 \in 0 .. 255 /\ (a < 128 => a % 128 = a)
    BY <1>3
  <1>5. Masked(w) = [w EXCEPT ![1] = a % 128]
    BY DEF Masked, a
  <1> DEFINE u == [w EXCEPT ![1] = a % 128]
  <1>6. u = [i \in 1 .. 4 |-> u[i]] /\ \A i \in 1 .. 4 : u[i] \in Byte
    BY <1>1, <1>4 DEF Byte
  <1>7. a < 128 => u = w
    BY <1>1, <1>4 DEF a
  <1> HIDE DEF u
  <1>8. u \in Seq(Byte) /\ Len(u) = 4
    BY <1>1, <1>6, IsSequence
  <1>9. w \in StreamId => a < 128
    BY DEF StreamId, a
  <1> QED
    BY <1>2, <1>5, <1>7, <1>8, <1>9 DEF u

\* The header that is written has room for the length of what follows.
HeaderOf(h, control, type, id, flags) ==
  h[5] = flags /\ IF control THEN h[1] = 128 /\ h[3] = 0 /\ h[4] = type ELSE h[1] < 128 /\ SubSeq(h, 1, 4) = id

LEMMA HeaderFrames ==
  ASSUME NEW control \in BOOLEAN, NEW type \in Byte, NEW id, control \/ id \in StreamId,
         NEW flags \in Byte, NEW p \in Seq(Byte), Len(p) < LenMod
  PROVE  /\ Framed(Header(control, type, id, flags, Len(p)), p)
         /\ HeaderOf(Header(control, type, id, flags, Len(p)), control, type, id, flags)
  <1> DEFINE w == IF control THEN <<128, 3, 0, type>> ELSE Masked(id)
             l == BE3(Len(p))
             h == Header(control, type, id, flags, Len(p))
  <1>1. l \in Seq(Byte) /\ Len(l) = 3 /\ Len(p) % LenMod = Len(p) /\ Int3(l) = Len(p)
    <2>1. Len(p) \in Nat
      OBVIOUS
    <2> QED
      BY <2>1, LengthBack
  <1>2. h = (w \o <<flags>>) \o l
    BY <1>1 DEF Header
  <1>3. /\ w \in Seq(Byte) /\ Len(w) = 4
        /\ IF control THEN w[1] = 128 /\ w[3] = 0 /\ w[4] = type ELSE w[1] < 128 /\ w = id
    <2>1. CASE control
      <3>1. w = <<128, 3, 0, type>>
        BY <2>1
      <3>2. 128 \in Byte /\ 3 \in Byte /\ 0 \in Byte
        BY DEF Byte
      <3> HIDE DEF w
      <3>3. <<128, 3, 0, type>> \in Seq(Byte) /\ Len(<<128, 3, 0, type>>) = 4
        BY <3>2
      <3> QED
        BY <2>1, <3>1, <3>3
    <2>2. CASE ~ control
      <3>1. id \in Word /\ id[1] < 128
        BY <2>2 DEF StreamId
      <3>2. id \in Seq(Byte) /\ Len(id) = 4 /\ Masked(id) = id
        BY <3>1, WordBytes DEF StreamId
      <3>3. w = id
        BY <2>2, <3>2
      <3> HIDE DEF w
      <3> QED
        BY <2>2, <3>1, <3>2, <3>3
    <2> QED
      BY <2>1, <2>2
  <1> HIDE DEF w, l, h
  <1>4. /\ h \in Seq(Byte) /\ Len(h) = 8
        /\ \A i \in 1 .. 4 : h[i] = w[i]
        /\ h[5] = flags /\ From(h, 6) = l
    <2> DEFINE m == w \o <<flags>>
    <2>0. w \in Seq(Nat) /\ l \in Seq(Nat) /\ <<flags>> \in Seq(Byte) /\ <<flags>> \in Seq(Nat) /\ Len(<<flags>>) = 1
      <3>1. flags \in Nat
        BY DEF Byte
      <3>2. <<flags>> \in Seq(Byte) /\ <<flags>> \in Seq(Nat) /\ Len(<<flags>>) = 1
        BY <3>1
      <3> QED
        BY <1>1, <1>3, <3>2, BytesAreNumbers
    <2>1. m \in Seq(Byte) /\ Len(m) = 5 /\ (\A i \in 1 .. 4 : m[i] = w[i]) /\ m[5] = flags
      <3> DEFINE e == <<flags>>
      <3>1. e \in Seq(Byte) /\ Len(e) = 1 /\ e[1] = flags
        BY <2>0
      <3> HIDE DEF e
      <3>2. /\ w \o e \in Seq(Byte) /\ Len(w \o e) = 4 + 1
            /\ \A i \in 1 .. 4 + 1 : (w \o e)[i] = IF i <= 4 THEN w[i] ELSE e[i - 4]
        <4>1. w \in Seq(Byte) /\ e \in Seq(Byte)
          BY <1>3, <3>1
        <4>2. /\ w \o e \in Seq(Byte) /\ Len(w \o e) = Len(w) + Len(e)
              /\ \A i \in 1 .. Len(w) + Len(e) : (w \o e)[i] = IF i <= Len(w) THEN w[i] ELSE e[i - Len(w)]
          BY <4>1, ConcatProperties
        <4>3. Len(w) = 4 /\ Len(e) = 1
          BY <1>3, <3>1
        <4> QED
          BY <4>2, <4>3
      <3>3. (\A i \in 1 .. 4 : i \in 1 .. 4 + 1 /\ i <= 4) /\ 5 \in 1 .. 4 + 1 /\ ~ (5 <= 4) /\ 5 - 4 = 1 /\ 4 + 1 = 5
        OBVIOUS
      <3> QED
        BY <3>1, <3>2, <3>3 DEF e
    <2> HIDE DEF m
    <2>2. h = m \o l
      BY <1>2 DEF m
    <2>3. m \o l \in Seq(Byte) /\ Len(m \o l) = 5 + 3
      <3>1. m \in Seq(Byte) /\ l \in Seq(Byte) /\ Len(m) = 5 /\ Len(l) = 3
        BY <1>1, <2>1
      <3>2. m \o l \in Seq(Byte) /\ Len(m \o l) = Len(m) + Len(l)
        BY <3>1, ConcatProperties
      <3> QED
        BY <3>1, <3>2
    <2>4. (\A i \in 1 .. 5 : (m \o l)[i] = m[i]) /\ From(m \o l, 5 + 1) = l
      <3>1. m \in Seq(Nat) /\ l \in Seq(Nat)
        BY <2>0, <2>1, BytesAreNumbers
      <3>2. (\A i \in 1 .. Len(m) : (m \o l)[i] = m[i]) /\ From(m \o l, Len(m) + 1) = l
        BY <3>1, FromBehind
      <3> QED
        BY <2>1, <3>2
    <2>5. (\A i \in 1 .. 4 : i \in 1 .. 5) /\ 5 \in 1 .. 5 /\ 5 + 3 = 8 /\ 5 + 1 = 6
      OBVIOUS
    <2> QED
      BY <2>1, <2>2, <2>3, <2>4, <2>5
  <1>5. Int3(SubSeq(h, 6, 8)) = Len(p)
    BY <1>1, <1>4 DEF From
  <1>6. SubSeq(h, 1, 4) = w
    <2>1. SubSeq(h, 1, 4) = SubSeq(w, 1, 4)
      <3>1. 1 \in Nat \ {0} /\ 4 \in Nat /\ 1 <= 4 + 1 /\ 4 <= Len(h) /\ 4 <= Len(w)
        BY <1>3, <1>4
      <3> QED
        BY <1>3, <1>4, <3>1, SameSlice
    <2>2. SubSeq(w, 1, 4) = w
      BY <1>3, SubSeqFull
    <2> QED
      BY <2>1, <2>2
  <1>7. Framed(h, p)
    BY <1>4, <1>5 DEF Framed
  <1>8. h[1] = w[1] /\ h[3] = w[3] /\ h[4] = w[4]
    <2>1. 1 \in 1 .. 4 /\ 3 \in 1 .. 4 /\ 4 \in 1 .. 4
      OBVIOUS
    <2> QED
      BY <1>4, <2>1
  <1>9. HeaderOf(h, control, type, id, flags)
    <2>1. CASE control
      BY <1>3, <1>4, <1>8, <2>1 DEF HeaderOf
    <2>2. CASE ~ control
      BY <1>3, <1>4, <1>6, <1>8, <2>2 DEF HeaderOf
    <2> QED
      BY <2>1, <2>2
  <1> QED
    BY <1>7, <1>9 DEF h

\* One turn of the reader of frames.
FrameOne == [x \in Seq(Nat) |-> ReadSpdyWireFrame(x)]

\* A frame without the control bit is data; one with it is read as its kind,
\* and passed over when that is not known.
LEMMA DataRead ==
  ASSUME NEW h, NEW p, Framed(h, p), h[1] < 128, NEW y \in Seq(Nat)
  PROVE  FrameOne[(h \o p) \o y] = One(Frame("data", SubSeq(h, 1, 4), h[5], p), y)
  <1> DEFINE x == (h \o p) \o y
  <1>1. OpensAs(x, h, p, y)
    BY FrameOpens
  <1> HIDE DEF x
  <1>2. FrameOne[x] = ReadSpdyWireFrame(x)
    BY <1>1 DEF FrameOne, OpensAs
  <1> DEFINE i == Int3(SubSeq(x, 6, 8))
             e == 8 + i
             q == SubSeq(x, 9, e)
             r == From(x, e + 1)
  <1>3. i = Len(p)
    BY <1>1 DEF OpensAs
  <1>4. q = p /\ r = y
    BY <1>1, <1>3 DEF OpensAs
  <1>5. ~ (Len(x) < 8 \/ Len(x) < e) /\ x[1] < 128
    <2>1. Len(x) \in Nat /\ Len(p) \in Nat /\ Len(x) >= 8 /\ Len(x) >= 8 + Len(p) /\ x[1] = h[1]
      BY <1>1 DEF OpensAs, Framed
    <2> HIDE DEF i
    <2> QED
      BY <1>3, <2>1
  <1>6. ReadSpdyWireFrame(x) = One(Frame("data", SubSeq(x, 1, 4), x[5], q), r)
    <2> HIDE DEF i
    <2> QED
      BY <1>5 DEF ReadSpdyWireFrame, i
  <1>7. SubSeq(x, 1, 4) = SubSeq(h, 1, 4) /\ x[5] = h[5]
    BY <1>1 DEF OpensAs
  <1> HIDE DEF q, r
  <1> QED
    BY <1>2, <1>4, <1>6, <1>7 DEF x

LEMMA ControlRead ==
  ASSUME NEW h, NEW p, NEW type, Framed(h, p), h[1] = 128 /\ h[3] = 0 /\ h[4] = type, NEW y \in Seq(Nat)
  PROVE  FrameOne[(h \o p) \o y] = IF type \in {1, 2, 3, 6, 7} THEN ReadControl(type, p, y) ELSE None(y)
  <1> DEFINE x == (h \o p) \o y
  <1>1. OpensAs(x, h, p, y)
    BY FrameOpens
  <1> HIDE DEF x
  <1>2. FrameOne[x] = ReadSpdyWireFrame(x)
    BY <1>1 DEF FrameOne, OpensAs
  <1> DEFINE i == Int3(SubSeq(x, 6, 8))
             e == 8 + i
             q == SubSeq(x, 9, e)
             r == From(x, e + 1)
  <1>3. i = Len(p)
    BY <1>1 DEF OpensAs
  <1>4. q = p /\ r = y
    BY <1>1, <1>3 DEF OpensAs
  <1>5. ~ (Len(x) < 8 \/ Len(x) < e) /\ x[1] = 128 /\ ~ (x[1] < 128) /\ x[3] = 0 /\ x[4] = type
    <2>1. Len(x) \in Nat /\ Len(p) \in Nat /\ Len(x) >= 8 /\ Len(x) >= 8 + Len(p) /\ x[1] = 128 /\ x[3] = 0 /\ x[4] = type
      <3>1. x \in Seq(Nat) /\ p \in Seq(Byte) /\ Len(x) >= 8 /\ Len(x) >= 8 + Len(p) /\ x[1] = h[1] /\ x[3] = h[3] /\ x[4] = h[4]
        BY <1>1 DEF OpensAs, Framed
      <3> QED
        BY <3>1
    <2> HIDE DEF i
    <2> QED
      BY <1>3, <2>1
  <1>6. ReadSpdyWireFrame(x) = IF type \in {1, 2, 3, 6, 7} THEN ReadControl(type, q, r) ELSE None(r)
    <2> HIDE DEF i
    <2> QED
      BY <1>5 DEF ReadSpdyWireFrame, i
  <1> HIDE DEF q, r
  <1> QED
    BY <1>2, <1>4, <1>6 DEF x

\* A frame is not empty.
LEMMA FramedBytes ==
  ASSUME NEW h, NEW p, Framed(h, p)
  PROVE  h \o p \in Seq(Nat) /\ h \o p # <<>>
  <1>1. h \in Seq(Nat) /\ Len(h) = 8 /\ p \in Seq(Nat) /\ Len(p) \in Nat
    BY BytesAreNumbers DEF Framed
  <1> DEFINE x == h \o p
  <1>2. x \in Seq(Nat) /\ Len(x) = Len(h) + Len(p)
    BY <1>1, ConcatProperties
  <1> HIDE DEF x
  <1>3. Len(x) # 0
    BY <1>1, <1>2
  <1>4. x # <<>>
    BY <1>3
  <1> QED
    BY <1>2, <1>4 DEF x

\* What such a frame is sent as is read in one turn.
LEMMA ControlTakes ==
  ASSUME NEW type \in Byte, NEW p \in Seq(Byte), Len(p) < LenMod, NEW gives,
         \A y \in Seq(Nat) : (IF type \in {1, 2, 3, 6, 7} THEN ReadControl(type, p, y) ELSE None(y)) = [out |-> gives, rest |-> y]
  PROVE  Control(type, p) \in Seq(Nat) /\ Control(type, p) # <<>> /\ Takes(FrameOne, Control(type, p), gives)
  <1> DEFINE h == Header(TRUE, type, <<>>, 0, Len(p))
             c == h \o p
  <1>1. Framed(h, p) /\ HeaderOf(h, TRUE, type, <<>>, 0)
    <2>1. 0 \in Byte /\ TRUE \in BOOLEAN
      BY DEF Byte
    <2> QED
      BY <2>1, HeaderFrames
  <1>2. Control(type, p) = c
    BY DEF Control
  <1> HIDE DEF h
  <1>3. h[1] = 128 /\ h[3] = 0 /\ h[4] = type
    BY <1>1 DEF HeaderOf
  <1>4. Takes(FrameOne, c, gives)
    <2> SUFFICES ASSUME NEW y \in Seq(Nat)
                 PROVE  FrameOne[c \o y] = [out |-> gives, rest |-> y]
      BY DEF Takes
    <2>1. FrameOne[(h \o p) \o y] = IF type \in {1, 2, 3, 6, 7} THEN ReadControl(type, p, y) ELSE None(y)
      BY <1>1, <1>3, ControlRead
    <2> QED
      BY <2>1
  <1>5. c \in Seq(Nat) /\ c # <<>>
    BY <1>1, FramedBytes
  <1> QED
    BY <1>2, <1>4, <1>5

\* An id before what follows it.
LEMMA IdFirst ==
  ASSUME NEW w \in Word, NEW b \in Seq(Byte)
  PROVE  w \o b \in Seq(Byte) /\ Len(w \o b) = 4 + Len(b) /\ SubSeq(w \o b, 1, 4) = w /\ From(w \o b, 5) = b
  <1> DEFINE p == w \o b
  <1>1. w \in Seq(Byte) /\ Len(w) = 4 /\ w \in Seq(Nat) /\ b \in Seq(Nat) /\ Len(b) \in Nat
    BY WordBytes, BytesAreNumbers
  <1>2. p \in Seq(Byte) /\ Len(p) = Len(w) + Len(b)
    BY <1>1, ConcatProperties
  <1>3. (\A i \in 1 .. Len(w) : p[i] = w[i]) /\ From(p, Len(w) + 1) = b
    BY <1>1, FromBehind
  <1> HIDE DEF p
  <1>4. SubSeq(p, 1, 4) = SubSeq(w, 1, 4)
    <2>1. 1 \in Nat \ {0} /\ 4 \in Nat /\ 1 <= 4 + 1 /\ 4 <= Len(p) /\ 4 <= Len(w) /\ \A i \in 1 .. 4 : p[i] = w[i]
      BY <1>1, <1>2, <1>3
    <2> QED
      BY <1>1, <1>2, <2>1, SameSlice
  <1>5. SubSeq(w, 1, 4) = w
    BY <1>1, SubSeqFull
  <1>6. 4 + 1 = 5
    OBVIOUS
  <1> QED
    BY <1>1, <1>2, <1>3, <1>4, <1>5, <1>6 DEF p

\* What comes back from one turn at the bytes c of the frame f.
Returns(f, c, gives) == c \in Seq(Nat) /\ c # <<>> /\ Takes(FrameOne, c, gives)

LEMMA DataReturns ==
  ASSUME NEW f \in [type : {"data"}, id : StreamId, flags : Byte, body : Bodies(0)]
  PROVE  Returns(f, ClientBytes(f), <<f>>)
  <1> DEFINE p == f.body
             h == Header(FALSE, 0, f.id, f.flags, Len(p))
             c == h \o p
  <1>1. f.type = "data" /\ f.id \in StreamId /\ f.flags \in Byte /\ p \in Bodies(0) /\ f = Frame("data", f.id, f.flags, p)
    <2>1. f.type \in {"data"} /\ f.id \in StreamId /\ f.flags \in Byte /\ f.body \in Bodies(0)
      OBVIOUS
    <2>2. f = Frame(f.type, f.id, f.flags, f.body)
      BY DEF Frame
    <2> QED
      BY <2>1, <2>2
  <1>2. p \in Seq(Byte) /\ Len(p) < LenMod
    <2>1. Len(p) \in Nat /\ Len(p) + 0 < LenMod /\ p \in Seq(Byte)
      BY <1>1 DEF Bodies
    <2> QED
      BY <2>1 DEF LenMod
  <1>3. Framed(h, p) /\ HeaderOf(h, FALSE, 0, f.id, f.flags)
    <2>1. 0 \in Byte /\ FALSE \in BOOLEAN
      BY DEF Byte
    <2> QED
      BY <1>1, <1>2, <2>1, HeaderFrames
  <1>4. ClientBytes(f) = c
    BY <1>1 DEF ClientBytes, WriteSpdyWireFrame
  <1> HIDE DEF h, p
  <1>5. h[5] = f.flags /\ h[1] < 128 /\ SubSeq(h, 1, 4) = f.id
    BY <1>3 DEF HeaderOf
  <1>6. Takes(FrameOne, c, <<f>>)
    <2> SUFFICES ASSUME NEW y \in Seq(Nat)
                 PROVE  FrameOne[c \o y] = [out |-> <<f>>, rest |-> y]
      BY DEF Takes
    <2>1. FrameOne[(h \o p) \o y] = One(Frame("data", SubSeq(h, 1, 4), h[5], p), y)
      BY <1>3, <1>5, DataRead
    <2> QED
      BY <1>1, <1>5, <2>1 DEF One
  <1>7. c \in Seq(Nat) /\ c # <<>>
    BY <1>3, FramedBytes
  <1> HIDE DEF c
  <1> QED
    BY <1>4, <1>6, <1>7 DEF Returns

\* The same for a control frame of this type and payload.
LEMMA ControlReturns ==
  ASSUME NEW f, NEW type \in Byte, NEW p \in Seq(Byte), Len(p) < LenMod, ClientBytes(f) = Control(type, p),
         type \in {1, 2, 3, 6, 7}, \A y \in Seq(Nat) : ReadControl(type, p, y) = One(f, y)
  PROVE  Returns(f, ClientBytes(f), <<f>>)
  <1>1. \A y \in Seq(Nat) : (IF type \in {1, 2, 3, 6, 7} THEN ReadControl(type, p, y) ELSE None(y)) = [out |-> <<f>>, rest |-> y]
    BY DEF One
  <1>2. Control(type, p) \in Seq(Nat) /\ Control(type, p) # <<>> /\ Takes(FrameOne, Control(type, p), <<f>>)
    BY <1>1, ControlTakes
  <1> QED
    BY <1>2 DEF Returns

\* Any body leaves room for what comes before it.
LEMMA BodyFits ==
  ASSUME NEW n \in Nat, NEW b \in Bodies(n), NEW p, Len(p) = n + Len(b)
  PROVE  b \in Seq(Byte) /\ Len(b) \in Nat /\ Len(p) < LenMod
  <1>1. b \in Seq(Byte) /\ Len(b) \in Nat /\ Len(b) + n < LenMod
    BY DEF Bodies
  <1> QED
    BY <1>1 DEF LenMod

\* What a control frame of each type is read as.
LEMMA ReadControlIs ==
  ASSUME NEW p, NEW y
  PROVE  /\ ~ (Len(p) < 10) => ReadControl(1, p, y) = One(Frame("synStream", Masked(SubSeq(p, 1, 4)), 0, From(p, 11)), y)
         /\ ~ (Len(p) < 4) => ReadControl(2, p, y) = One(Frame("synReply", Masked(SubSeq(p, 1, 4)), 0, From(p, 5)), y)
         /\ ~ (Len(p) < 8) => ReadControl(3, p, y) = One(Frame("rst", Masked(SubSeq(p, 1, 4)), 0, SubSeq(p, 5, 8)), y)
         /\ ~ (Len(p) < 4) => ReadControl(6, p, y) = One(Frame("ping", SubSeq(p, 1, 4), 0, <<>>), y)
         /\ ~ (Len(p) < 8) => ReadControl(7, p, y) = One(Frame("goAway", Masked(SubSeq(p, 1, 4)), 0, SubSeq(p, 5, 8)), y)
  <1>1. ~ (Len(p) < 10) => ReadControl(1, p, y) = One(Frame("synStream", Masked(SubSeq(p, 1, 4)), 0, From(p, 11)), y)
    BY DEF ReadControl
  <1>2. ~ (Len(p) < 4) => ReadControl(2, p, y) = One(Frame("synReply", Masked(SubSeq(p, 1, 4)), 0, From(p, 5)), y)
    BY DEF ReadControl
  <1>3. ~ (Len(p) < 8) => ReadControl(3, p, y) = One(Frame("rst", Masked(SubSeq(p, 1, 4)), 0, SubSeq(p, 5, 8)), y)
    BY DEF ReadControl
  <1>4. ~ (Len(p) < 4) => ReadControl(6, p, y) = One(Frame("ping", SubSeq(p, 1, 4), 0, <<>>), y)
    BY DEF ReadControl
  <1>5. ~ (Len(p) < 8) => ReadControl(7, p, y) = One(Frame("goAway", Masked(SubSeq(p, 1, 4)), 0, SubSeq(p, 5, 8)), y)
    BY DEF ReadControl
  <1> QED
    BY <1>1, <1>2, <1>3, <1>4, <1>5

LEMMA SynReplyReturns ==
  ASSUME NEW f \in [type : {"synReply"}, id : StreamId, flags : {0}, body : Bodies(4)]
  PROVE  Returns(f, ClientBytes(f), <<f>>)
  <1> DEFINE w == f.id
             b == f.body
             p == w \o b
  <1>1. f.type = "synReply" /\ w \in StreamId /\ f.flags = 0 /\ b \in Bodies(4) /\ f = Frame("synReply", w, 0, b)
    <2>1. f.type \in {"synReply"} /\ f.id \in StreamId /\ f.flags \in {0} /\ f.body \in Bodies(4)
      OBVIOUS
    <2>2. f = Frame(f.type, f.id, f.flags, f.body)
      BY DEF Frame
    <2> QED
      BY <2>1, <2>2
  <1>2. w \in Word /\ Masked(w) = w
    BY <1>1, WordBytes DEF StreamId
  <1>3. b \in Seq(Byte)
    BY <1>1 DEF Bodies
  <1>4. ClientBytes(f) = Control(2, p)
    BY <1>1, <1>2 DEF ClientBytes, WriteSpdyWireFrame
  <1> HIDE DEF w, b
  <1>5. p \in Seq(Byte) /\ Len(p) = 4 + Len(b) /\ SubSeq(p, 1, 4) = w /\ From(p, 5) = b
    BY <1>2, <1>3, IdFirst
  <1> HIDE DEF p
  <1>6. Len(p) < LenMod /\ Len(b) \in Nat
    BY <1>1, <1>5, BodyFits
  <1>7. \A y \in Seq(Nat) : ReadControl(2, p, y) = One(f, y)
    <2>1. ~ (Len(p) < 4)
      BY <1>5, <1>6
    <2>2. \A y \in Seq(Nat) : ReadControl(2, p, y) = One(Frame("synReply", w, 0, b), y)
      BY <1>2, <1>5, <2>1, ReadControlIs
    <2> QED
      BY <1>1, <2>2
  <1>8. 2 \in Byte
    BY DEF Byte
  <1> QED
    BY <1>4, <1>5, <1>6, <1>7, <1>8, ControlReturns

\* A frame of an id and a status.
LEMMA StatusReturns ==
  ASSUME NEW f \in [type : {"rst", "goAway"}, id : StreamId, flags : {0}, body : Word]
  PROVE  Returns(f, ClientBytes(f), <<f>>)
  <1> DEFINE w == f.id
             b == f.body
             p == w \o b
             t == IF f.type = "rst" THEN 3 ELSE 7
  <1>1. f.type \in {"rst", "goAway"} /\ w \in StreamId /\ f.flags = 0 /\ b \in Word /\ f = Frame(f.type, w, 0, b)
    <2>1. f.type \in {"rst", "goAway"} /\ f.id \in StreamId /\ f.flags \in {0} /\ f.body \in Word
      OBVIOUS
    <2>2. f = Frame(f.type, f.id, f.flags, f.body)
      BY DEF Frame
    <2> QED
      BY <2>1, <2>2
  <1>2. w \in Word /\ Masked(w) = w
    BY <1>1, WordBytes DEF StreamId
  <1>3. b \in Seq(Byte) /\ Len(b) = 4
    BY <1>1, WordBytes
  <1>4. ClientBytes(f) = Control(t, p)
    BY <1>1, <1>2 DEF ClientBytes, WriteSpdyWireFrame
  <1> HIDE DEF w, b
  <1>5. p \in Seq(Byte) /\ Len(p) = 8 /\ SubSeq(p, 1, 4) = w /\ SubSeq(p, 5, 8) = b
    <2>1. p \in Seq(Byte) /\ Len(p) = 4 + Len(b) /\ SubSeq(p, 1, 4) = w /\ From(p, 5) = b
      BY <1>2, <1>3, IdFirst
    <2> HIDE DEF p
    <2>2. Len(p) = 8
      BY <1>3, <2>1
    <2> QED
      BY <2>1, <2>2 DEF From
  <1> HIDE DEF p
  <1>6. Len(p) < LenMod
    BY <1>5 DEF LenMod
  <1>7. \A y \in Seq(Nat) : ReadControl(t, p, y) = One(f, y)
    <2>1. ~ (Len(p) < 8)
      BY <1>5
    <2>2. CASE f.type = "rst"
      <3>1. \A y \in Seq(Nat) : ReadControl(3, p, y) = One(Frame("rst", w, 0, b), y)
        BY <1>2, <1>5, <2>1, ReadControlIs
      <3> QED
        BY <1>1, <2>2, <3>1
    <2>3. CASE f.type # "rst"
      <3>1. \A y \in Seq(Nat) : ReadControl(7, p, y) = One(Frame("goAway", w, 0, b), y)
        BY <1>2, <1>5, <2>1, ReadControlIs
      <3> QED
        BY <1>1, <2>3, <3>1
    <2> QED
      BY <2>2, <2>3
  <1>8. t \in Byte /\ t \in {1, 2, 3, 6, 7}
    BY DEF Byte
  <1> HIDE DEF t
  <1> QED
    BY <1>4, <1>5, <1>6, <1>7, <1>8, ControlReturns

LEMMA PingReturns ==
  ASSUME NEW f \in [type : {"ping"}, id : Word, flags : {0}, body : {<<>>}]
  PROVE  Returns(f, ClientBytes(f), <<f>>)
  <1> DEFINE w == f.id
  <1>1. f.type = "ping" /\ w \in Word /\ f.flags = 0 /\ f.body = <<>> /\ f = Frame("ping", w, 0, <<>>)
    <2>1. f.type \in {"ping"} /\ f.id \in Word /\ f.flags \in {0} /\ f.body \in {<<>>}
      OBVIOUS
    <2>2. f = Frame(f.type, f.id, f.flags, f.body)
      BY DEF Frame
    <2> QED
      BY <2>1, <2>2
  <1>2. ClientBytes(f) = Control(6, w)
    BY <1>1 DEF ClientBytes, WriteSpdyWireFrame
  <1> HIDE DEF w
  <1>3. w \in Seq(Byte) /\ Len(w) = 4 /\ SubSeq(w, 1, 4) = w
    BY <1>1, WordBytes, SubSeqFull
  <1>4. Len(w) < LenMod /\ 6 \in Byte
    BY <1>3 DEF LenMod, Byte
  <1>5. \A y \in Seq(Nat) : ReadControl(6, w, y) = One(f, y)
    <2>1. ~ (Len(w) < 4)
      BY <1>3
    <2>2. \A y \in Seq(Nat) : ReadControl(6, w, y) = One(Frame("ping", w, 0, <<>>), y)
      <3> SUFFICES ASSUME NEW y
                   PROVE  ReadControl(6, w, y) = One(Frame("ping", w, 0, <<>>), y)
        OBVIOUS
      <3>1. ReadControl(6, w, y) = One(Frame("ping", SubSeq(w, 1, 4), 0, <<>>), y)
        BY <2>1, ReadControlIs
      <3> QED
        BY <1>3, <3>1
    <2> QED
      BY <1>1, <2>2
  <1> QED
    BY <1>2, <1>3, <1>4, <1>5, ControlReturns

\* A SYN_STREAM has an id, six bytes more, and its headers.
LEMMA SynStreamReturns ==
  ASSUME NEW f \in [type : {"synStream"}, id : StreamId, flags : {0}, body : Bodies(10)]
  PROVE  Returns(f, ClientBytes(f), <<f>>)
  <1> DEFINE w == f.id
             b == f.body
             z == <<0, 0, 0, 0>>
             u == <<0, 0>>
             q == (w \o z) \o u
             p == q \o b
  <1>1. f.type = "synStream" /\ w \in StreamId /\ f.flags = 0 /\ b \in Bodies(10) /\ f = Frame("synStream", w, 0, b)
    <2>1. f.type \in {"synStream"} /\ f.id \in StreamId /\ f.flags \in {0} /\ f.body \in Bodies(10)
      OBVIOUS
    <2>2. f = Frame(f.type, f.id, f.flags, f.body)
      BY DEF Frame
    <2> QED
      BY <2>1, <2>2
  <1>2. w \in Word /\ Masked(w) = w
    BY <1>1, WordBytes DEF StreamId
  <1>3. b \in Seq(Byte) /\ z \in Seq(Byte) /\ Len(z) = 4 /\ u \in Seq(Byte) /\ Len(u) = 2
    BY <1>1 DEF Bodies, Byte
  <1>4. ClientBytes(f) = Control(1, p)
    BY <1>1 DEF ClientBytes, ClientSyn
  <1> HIDE DEF w, b, z, u
  <1>5. q \in Seq(Byte) /\ Len(q) = 10 /\ SubSeq(q, 1, 4) = w
    <2>1. z \o u \in Seq(Byte) /\ Len(z \o u) = 6
      <3>1. z \in Seq(Byte) /\ u \in Seq(Byte)
        BY <1>3
      <3>2. z \o u \in Seq(Byte) /\ Len(z \o u) = Len(z) + Len(u)
        BY <3>1, ConcatProperties
      <3> QED
        BY <1>3, <3>2
    <2>2. q = w \o (z \o u)
      <3>1. w \in Seq(Byte)
        BY <1>2, WordBytes
      <3>2. w \in Seq(Byte) /\ z \in Seq(Byte) /\ u \in Seq(Byte)
        BY <1>3, <3>1
      <3>3. (w \o z) \o u = w \o (z \o u)
        BY <3>2, ConcatAssociative
      <3> QED
        BY <3>3
    <2> HIDE DEF q
    <2> DEFINE v == z \o u
    <2>3. v \in Seq(Byte) /\ Len(v) = 6 /\ q = w \o v
      BY <2>1, <2>2
    <2> HIDE DEF v
    <2>4. q \in Seq(Byte) /\ Len(q) = 4 + Len(v) /\ SubSeq(q, 1, 4) = w
      BY <1>2, <2>3, IdFirst
    <2> QED
      BY <2>3, <2>4
  <1> HIDE DEF q
  <1>6. /\ p \in Seq(Byte) /\ Len(p) = 10 + Len(b)
        /\ \A i \in 1 .. 10 : p[i] = q[i]
        /\ From(p, 11) = b
    <2>1. q \in Seq(Nat) /\ b \in Seq(Nat)
      BY <1>3, <1>5, BytesAreNumbers
    <2>2. p \in Seq(Byte) /\ Len(p) = Len(q) + Len(b)
      <3>1. q \in Seq(Byte) /\ b \in Seq(Byte)
        BY <1>3, <1>5
      <3> QED
        BY <3>1, ConcatProperties
    <2>3. (\A i \in 1 .. Len(q) : p[i] = q[i]) /\ From(p, Len(q) + 1) = b
      BY <2>1, FromBehind
    <2> HIDE DEF p
    <2>4. Len(q) + 1 = 11
      BY <1>5
    <2> QED
      BY <1>5, <2>2, <2>3, <2>4
  <1> HIDE DEF p
  <1>7. Len(p) < LenMod /\ Len(b) \in Nat
    BY <1>1, <1>6, BodyFits
  <1>8. SubSeq(p, 1, 4) = w
    <2>1. 1 \in Nat \ {0} /\ 4 \in Nat /\ 1 <= 4 + 1 /\ 4 <= Len(p) /\ 4 <= Len(q)
      BY <1>5, <1>6, <1>7
    <2>2. \A i \in 1 .. 4 : p[i] = q[i]
      <3>1. \A i \in 1 .. 4 : i \in 1 .. 10
        OBVIOUS
      <3> QED
        BY <1>6, <3>1
    <2>3. SubSeq(p, 1, 4) = SubSeq(q, 1, 4)
      BY <1>5, <1>6, <2>1, <2>2, SameSlice
    <2> QED
      BY <1>5, <2>3
  <1>9. \A y \in Seq(Nat) : ReadControl(1, p, y) = One(f, y)
    <2>1. ~ (Len(p) < 10)
      BY <1>6, <1>7
    <2>2. \A y \in Seq(Nat) : ReadControl(1, p, y) = One(Frame("synStream", w, 0, b), y)
      <3>1. From(p, 11) = b
        BY <1>6
      <3> QED
        BY <1>2, <1>8, <2>1, <3>1, ReadControlIs
    <2> QED
      BY <1>1, <2>2
  <1>10. 1 \in Byte
    BY DEF Byte
  <1> QED
    BY <1>4, <1>6, <1>7, <1>9, <1>10, ControlReturns

\* What a frame is known as: one that the server does not know is not there.
KnownAs(f) == IF f.type = "settings" THEN <<>> ELSE <<f>>

LEMMA FrameReturns ==
  ASSUME NEW f \in SpdyWireFrame \cup Settings
  PROVE  Returns(f, ClientBytes(f), KnownAs(f)) /\ (f.type = "settings" <=> f \in Settings)
  <1>1. CASE f \in Settings
    <2> DEFINE p == f.body
    <2>1. f.type = "settings" /\ p \in Bodies(0)
      BY <1>1 DEF Settings
    <2>2. p \in Seq(Byte) /\ Len(p) < LenMod
      <3>1. Len(p) \in Nat /\ Len(p) + 0 < LenMod /\ p \in Seq(Byte)
        BY <2>1 DEF Bodies
      <3> QED
        BY <3>1 DEF LenMod
    <2>3. ClientBytes(f) = Control(4, p)
      BY <2>1 DEF ClientBytes
    <2> HIDE DEF p
    <2>4. \A y \in Seq(Nat) : (IF 4 \in {1, 2, 3, 6, 7} THEN ReadControl(4, p, y) ELSE None(y)) = [out |-> <<>>, rest |-> y]
      BY DEF None
    <2>5. Control(4, p) \in Seq(Nat) /\ Control(4, p) # <<>> /\ Takes(FrameOne, Control(4, p), <<>>)
      <3>1. 4 \in Byte
        BY DEF Byte
      <3> QED
        BY <2>2, <2>4, <3>1, ControlTakes
    <2> QED
      BY <1>1, <2>1, <2>3, <2>5 DEF Returns, KnownAs
  <1>2. CASE f \in SpdyWireFrame
    <2>1. f.type \in {"synStream", "synReply", "data", "rst", "goAway", "ping"}
      BY <1>2 DEF SpdyWireFrame
    <2>2. f.type # "settings"
      BY <2>1
    <2>3. f \notin Settings
      BY <2>2 DEF Settings
    <2>4. Returns(f, ClientBytes(f), <<f>>)
      BY <1>2, SynStreamReturns, SynReplyReturns, DataReturns, StatusReturns, PingReturns DEF SpdyWireFrame
    <2> QED
      BY <2>2, <2>3, <2>4 DEF KnownAs
  <1> QED
    BY <1>1, <1>2

\* A session of frames, in any order, is read to the end.
LEMMA ReadAllIs ==
  ASSUME NEW fs \in Seq(SpdyWireFrame \cup Settings)
  PROVE  ReadAll(Sent(fs)) = Known(fs)
  <1> DEFINE F == SpdyWireFrame \cup Settings
             N == Len(fs)
             X == Seq(Nat)
             O == Seq(F)
             ss == [i \in 1 .. N |-> ClientBytes(fs[i])]
             os == [i \in 1 .. N |-> KnownAs(fs[i])]
             s == FlattenSeq(ss)
  <1>1. N \in Nat /\ \A i \in 1 .. N : fs[i] \in F
    OBVIOUS
  <1>2. \A i \in 1 .. N : /\ ClientBytes(fs[i]) \in X /\ ClientBytes(fs[i]) # <<>>
                          /\ Takes(FrameOne, ClientBytes(fs[i]), KnownAs(fs[i]))
    BY <1>1, FrameReturns DEF Returns
  <1>3. \A i \in 1 .. N : KnownAs(fs[i]) \in O
    <2> SUFFICES ASSUME NEW i \in 1 .. N
                 PROVE  KnownAs(fs[i]) \in O
      OBVIOUS
    <2>1. fs[i] \in F
      BY <1>1
    <2> HIDE DEF F
    <2>2. <<>> \in Seq(F) /\ <<fs[i]>> \in Seq(F)
      BY <2>1
    <2> QED
      BY <2>2 DEF KnownAs
  <1> HIDE DEF X, O, N, F
  <1>4. ss \in Seq(X) /\ Len(ss) = N
    <2>1. ss = [i \in 1 .. N |-> ss[i]] /\ \A i \in 1 .. N : ss[i] = ClientBytes(fs[i])
      OBVIOUS
    <2> HIDE DEF ss
    <2>2. \A i \in 1 .. N : ss[i] \in X
      BY <1>2, <2>1
    <2> QED
      BY <1>1, <2>1, <2>2, IsSequence
  <1>5. os \in Seq(O) /\ Len(os) = N
    <2>1. os = [i \in 1 .. N |-> os[i]] /\ \A i \in 1 .. N : os[i] = KnownAs(fs[i])
      OBVIOUS
    <2> HIDE DEF os
    <2>2. \A i \in 1 .. N : os[i] \in O
      BY <1>3, <2>1
    <2> QED
      BY <1>1, <2>1, <2>2, IsSequence
  <1>6. \A i \in 1 .. Len(ss) : ss[i] # <<>> /\ Takes(FrameOne, ss[i], os[i])
    BY <1>2, <1>4
  <1>7. Sent(fs) = s /\ Known(fs) = FlattenSeq(os)
    BY DEF Sent, Known, KnownAs, N
  <1> HIDE DEF ss, os
  <1>8. s \in Seq(Nat) /\ N <= Len(s)
    BY <1>4, <1>6, FlattenLong DEF X
  <1> HIDE DEF s
  <1>9. FrameOne[<<>>] = None(<<>>)
    <2>1. <<>> \in Seq(Nat) /\ Len(<<>>) < 8
      OBVIOUS
    <2>2. ReadSpdyWireFrame(<<>>) = None(<<>>)
      BY <2>1 DEF ReadSpdyWireFrame
    <2> QED
      BY <2>1, <2>2 DEF FrameOne
  <1>10. Turns(s, Len(s), FrameOne) = [out |-> FlattenSeq(os), rest |-> <<>>]
    <2>1. Len(s) \in Nat /\ Len(s) >= Len(ss) /\ Len(os) = Len(ss)
      BY <1>1, <1>4, <1>5, <1>8
    <2>2. ss \in Seq(Seq(Nat)) /\ os \in Seq(Seq(F))
      BY <1>4, <1>5 DEF X, O
    <2> QED
      BY <1>6, <1>9, <2>1, <2>2, TurnsIs DEF s
  <1>11. ReadAll(s) = Turns(s, Len(s), FrameOne).out
    BY DEF ReadAll, FrameOne
  <1> QED
    BY <1>7, <1>10, <1>11

\* One part alone.
LEMMA FlattenOne ==
  ASSUME NEW T, NEW a \in Seq(T)
  PROVE  FlattenSeq(<<a>>) = a
  <1> DEFINE X == Seq(T)
             ss == <<a>>
             g == [k \in 0 .. 1 |-> IF k = 0 THEN <<>> ELSE a]
  <1>1. a \in X
    OBVIOUS
  <1> HIDE DEF X
  <1>2. ss \in Seq(X) /\ Len(ss) = 1 /\ ss[1] = a
    BY <1>1
  <1>3. g[0] = <<>> /\ g[1] = a
    OBVIOUS
  <1> HIDE DEF ss, g
  <1>4. <<>> \in Seq(T) /\ <<>> \o a = a
    OBVIOUS
  <1>5. \A k \in 1 .. Len(ss) : g[k - 1] \in Seq(T) /\ g[k] = g[k - 1] \o ss[k]
    <2>1. \A k \in 1 .. Len(ss) : k = 1 /\ k - 1 = 0
      BY <1>2
    <2> QED
      BY <1>2, <1>3, <1>4, <2>1
  <1>6. FlattenSeq(ss) = g[Len(ss)]
    BY <1>2, <1>3, <1>5, FlattenIs DEF X
  <1> QED
    BY <1>2, <1>3, <1>6 DEF ss

\* What the server itself writes of a frame is read as that frame.
LEMMA ReadOneIs ==
  ASSUME NEW f \in SpdyWireFrame \cup Settings, f.type \notin {"synStream", "settings"}
  PROVE  ReadAll(WriteSpdyWireFrame(f)) = <<f>>
  <1> DEFINE F == SpdyWireFrame \cup Settings
             fs == <<f>>
             c == ClientBytes(f)
  <1>1. fs \in Seq(F) /\ Len(fs) = 1 /\ fs[1] = f
    <2>1. f \in F
      OBVIOUS
    <2> HIDE DEF F
    <2> QED
      BY <2>1
  <1>2. c = WriteSpdyWireFrame(f)
    BY DEF ClientBytes
  <1>3. c \in Seq(Nat)
    BY FrameReturns DEF Returns
  <1> HIDE DEF fs, c
  <1>4. Sent(fs) = c
    <2>1. [i \in 1 .. Len(fs) |-> ClientBytes(fs[i])] = <<c>>
      <3>1. [i \in 1 .. 1 |-> c] = <<c>>
        OBVIOUS
      <3>2. \A i \in 1 .. 1 : ClientBytes(fs[i]) = c
        <4>1. \A i \in 1 .. 1 : i = 1
          OBVIOUS
        <4> QED
          BY <1>1, <4>1 DEF c
      <3> QED
        BY <1>1, <3>1, <3>2
    <2>2. FlattenSeq(<<c>>) = c
      BY <1>3, FlattenOne
    <2> QED
      BY <2>1, <2>2 DEF Sent
  <1>5. Known(fs) = <<f>>
    <2>1. [i \in 1 .. Len(fs) |-> IF fs[i].type = "settings" THEN <<>> ELSE <<fs[i]>>] = <<<<f>>>>
      <3> DEFINE e == <<f>>
      <3>1. [i \in 1 .. 1 |-> e] = <<e>>
        OBVIOUS
      <3>2. \A i \in 1 .. 1 : (IF fs[i].type = "settings" THEN <<>> ELSE <<fs[i]>>) = e
        <4>1. \A i \in 1 .. 1 : i = 1
          OBVIOUS
        <4> QED
          BY <1>1, <4>1
      <3> HIDE DEF e
      <3>3. [i \in 1 .. Len(fs) |-> IF fs[i].type = "settings" THEN <<>> ELSE <<fs[i]>>] = <<e>>
        BY <1>1, <3>1, <3>2
      <3> QED
        BY <3>3 DEF e
    <2>2. FlattenSeq(<<<<f>>>>) = <<f>>
      <3>1. <<f>> \in Seq({f})
        OBVIOUS
      <3> QED
        BY <3>1, FlattenOne
    <2> QED
      BY <2>1, <2>2 DEF Known
  <1>6. ReadAll(Sent(fs)) = Known(fs)
    BY <1>1, ReadAllIs
  <1> QED
    BY <1>2, <1>4, <1>5, <1>6

(***************************************************************************)
(* Name and value blocks.                                                  *)
(***************************************************************************)
\* Four bytes that count, and what follows them.
LEMMA CountBack ==
  ASSUME NEW n \in Nat, n < LenMod, NEW p \in Seq(Nat)
  PROVE  /\ BE4(n) \o p \in Seq(Nat) /\ Len(BE4(n) \o p) = 4 + Len(p)
         /\ Int3(SubSeq(BE4(n) \o p, 2, 4)) = n /\ From(BE4(n) \o p, 5) = p
  <1> DEFINE l == BE3(n)
             q == BE4(n)
             x == q \o p
  <1>1. l \in Seq(Nat) /\ Len(l) = 3 /\ Int3(l) = n
    BY LengthBack, BytesAreNumbers
  <1>2. q = <<0>> \o l
    BY DEF BE4
  <1> HIDE DEF l, q
  <1>3. q \in Seq(Nat) /\ Len(q) = 4 /\ From(q, 2) = l
    <2> DEFINE e == <<0>>
    <2>1. e \in Seq(Nat) /\ Len(e) = 1
      OBVIOUS
    <2> HIDE DEF e
    <2>2. e \o l \in Seq(Nat) /\ Len(e \o l) = Len(e) + Len(l) /\ From(e \o l, Len(e) + 1) = l
      BY <1>1, <2>1, FromBehind
    <2>3. Len(e) + Len(l) = 4 /\ Len(e) + 1 = 2
      BY <1>1, <2>1
    <2> QED
      BY <1>2, <2>2, <2>3 DEF e
  <1>4. /\ x \in Seq(Nat) /\ Len(x) = Len(q) + Len(p)
        /\ \A i \in 1 .. Len(q) : x[i] = q[i]
        /\ From(x, Len(q) + 1) = p
    BY <1>3, FromBehind
  <1> HIDE DEF x
  <1>5. SubSeq(x, 2, 4) = l
    <2>1. 2 \in Nat \ {0} /\ 4 \in Nat /\ 2 <= 4 + 1 /\ 4 <= Len(x) /\ 4 <= Len(q)
      <3>1. Len(p) \in Nat
        OBVIOUS
      <3> QED
        BY <1>3, <1>4, <3>1
    <2>2. \A i \in 2 .. 4 : x[i] = q[i]
      <3>1. \A i \in 2 .. 4 : i \in 1 .. Len(q)
        BY <1>3
      <3> QED
        BY <1>4, <3>1
    <2>3. SubSeq(x, 2, 4) = SubSeq(q, 2, 4)
      BY <1>3, <1>4, <2>1, <2>2, SameSlice
    <2> QED
      BY <1>3, <2>3 DEF From
  <1>6. Len(q) + Len(p) = 4 + Len(p) /\ Len(q) + 1 = 5
    BY <1>3
  <1> QED
    BY <1>1, <1>4, <1>5, <1>6 DEF x, q

\* A name or a value is read as it was written.
LEMMA FieldBack ==
  ASSUME NEW b \in Seq(Nat), Len(b) < LenMod, NEW y \in Seq(Nat)
  PROVE  NvField(b) \in Seq(Nat) /\ NvField(b) # <<>> /\ ReadNvField(NvField(b) \o y) = One(b, y)
  <1> DEFINE n == Len(b)
             q == NvField(b)
             x == q \o y
             z == BE4(n)
             c == b \o y
  <1>1. n \in Nat /\ n < LenMod
    OBVIOUS
  <1>2. q \in Seq(Nat) /\ Len(q) = 4 + n /\ From(q, 5) = b
    BY <1>1, CountBack DEF NvField
  <1>3. Int3(SubSeq(q, 2, 4)) = n
    BY <1>1, CountBack DEF NvField
  <1> HIDE DEF q, z, c, n
  <1>4. /\ x \in Seq(Nat) /\ Len(x) = Len(q) + Len(y)
        /\ \A i \in 1 .. Len(q) : x[i] = q[i]
        /\ From(x, Len(q) + 1) = y
    BY <1>2, FromBehind
  <1> HIDE DEF x
  <1>5. Len(y) \in Nat /\ Len(x) >= 4 /\ Len(x) >= 4 + n /\ 4 + n \in Nat /\ Len(q) >= 4
    <2>1. Len(y) \in Nat
      OBVIOUS
    <2> QED
      BY <1>1, <1>2, <1>4, <2>1
  <1>6. SubSeq(x, 2, 4) = SubSeq(q, 2, 4)
    <2>1. 2 \in Nat \ {0} /\ 4 \in Nat /\ 2 <= 4 + 1 /\ 4 <= Len(x) /\ 4 <= Len(q)
      BY <1>2, <1>4, <1>5
    <2>2. \A i \in 2 .. 4 : x[i] = q[i]
      <3>1. \A i \in 2 .. 4 : i \in 1 .. Len(q)
        BY <1>1, <1>2
      <3> QED
        BY <1>4, <3>1
    <2> QED
      BY <1>2, <1>4, <2>1, <2>2, SameSlice
  <1>7. SubSeq(x, 5, 4 + n) = b
    <2>1. 5 \in Nat \ {0} /\ 4 + n \in Nat /\ 5 <= (4 + n) + 1 /\ 4 + n <= Len(x) /\ 4 + n <= Len(q)
      BY <1>1, <1>2, <1>5
    <2>2. \A i \in 5 .. 4 + n : x[i] = q[i]
      <3>1. \A i \in 5 .. 4 + n : i \in 1 .. Len(q)
        BY <1>1, <1>2
      <3> QED
        BY <1>4, <3>1
    <2>3. SubSeq(x, 5, 4 + n) = SubSeq(q, 5, 4 + n)
      BY <1>2, <1>4, <2>1, <2>2, SameSlice, SMTT(30)
    <2> QED
      BY <1>2, <2>3 DEF From
  <1>8. From(x, (4 + n) + 1) = y
    BY <1>2, <1>4
  <1>9. ReadNvField(x) = One(b, y)
    <2> DEFINE i == Int3(SubSeq(x, 2, 4))
    <2>1. i = n
      BY <1>3, <1>6
    <2>2. ~ (Len(x) < 4 \/ Len(x) < 4 + i) /\ SubSeq(x, 5, 4 + i) = b /\ From(x, (4 + i) + 1) = y
      <3>1. Len(x) \in Nat
        BY <1>4
      <3> HIDE DEF i
      <3>2. ~ (Len(x) < 4 \/ Len(x) < 4 + i)
        BY <1>1, <1>5, <2>1, <3>1
      <3> QED
        BY <1>7, <1>8, <2>1, <3>2
    <2> HIDE DEF i
    <2> QED
      BY <2>2 DEF ReadNvField, i
  <1>10. q # <<>>
    BY <1>5
  <1> QED
    BY <1>2, <1>9, <1>10 DEF x, q

\* One turn of the reader of pairs takes one.
PairOne == [x \in Seq(Nat) |-> ReadPair(x)]

\* The bytes of a pair.
PairBytes(p) == NvField(p[1]) \o NvField(p[2])

LEMMA PairTakes ==
  ASSUME NEW p \in HeaderNames \X HeaderValues
  PROVE  PairBytes(p) \in Seq(Nat) /\ Takes(PairOne, PairBytes(p), <<p>>)
  <1> DEFINE n == p[1]
             v == p[2]
             N == NvField(n)
             V == NvField(v)
  <1>1. n \in HeaderNames /\ v \in HeaderValues /\ p = <<n, v>>
    OBVIOUS
  <1> HIDE DEF n, v
  <1>2. n \in Seq(Nat) /\ Len(n) < LenMod /\ [i \in DOMAIN n |-> Lower(n[i])] = n
    <2> DEFINE L == Ascii \ (65 .. 90)
    <2>0. \A a \in L : a \in Nat /\ Lower(a) = a
      BY DEF Ascii, Lower
    <2>1. n \in Seq(L) /\ Len(n) < LenMod
      BY <1>1 DEF HeaderNames
    <2> HIDE DEF L
    <2>2. Len(n) \in Nat /\ n = [i \in 1 .. Len(n) |-> n[i]] /\ \A i \in 1 .. Len(n) : n[i] \in L
      BY <2>1
    <2>3. \A i \in 1 .. Len(n) : n[i] \in Nat /\ Lower(n[i]) = n[i]
      BY <2>0, <2>2
    <2>4. n \in Seq(Nat)
      BY <2>2, <2>3, IsSequence
    <2>5. DOMAIN n = 1 .. Len(n)
      BY <2>4
    <2>6. [i \in DOMAIN n |-> Lower(n[i])] = [i \in 1 .. Len(n) |-> n[i]]
      BY <2>3, <2>5
    <2> QED
      BY <2>1, <2>2, <2>4, <2>6
  <1>3. v \in Seq(Nat) /\ Len(v) < LenMod /\ FirstValue(v) = v
    <2> DEFINE L == Ascii \ {0}
    <2>0. \A a \in L : a \in Nat /\ a # 0
      BY DEF Ascii
    <2>1. v \in Seq(L) /\ Len(v) < LenMod
      BY <1>1 DEF HeaderValues
    <2> HIDE DEF L
    <2>2. Len(v) \in Nat /\ v = [i \in 1 .. Len(v) |-> v[i]] /\ \A i \in 1 .. Len(v) : v[i] \in L
      BY <2>1
    <2>3. \A i \in 1 .. Len(v) : v[i] \in Nat /\ v[i] # 0
      BY <2>0, <2>2
    <2>4. v \in Seq(Nat)
      BY <2>2, <2>3, IsSequence
    <2>5. ~ Contains(v, 0)
      BY <2>3 DEF Contains
    <2> QED
      BY <2>1, <2>4, <2>5 DEF FirstValue
  <1>4. N \in Seq(Nat) /\ V \in Seq(Nat)
    <2>1. <<>> \in Seq(Nat)
      OBVIOUS
    <2> QED
      BY <1>2, <1>3, <2>1, FieldBack
  <1>5. ASSUME NEW y \in Seq(Nat)
        PROVE  ReadPair(N \o (V \o y)) = One(p, y)
    <2> DEFINE z == V \o y
    <2>1. z \in Seq(Nat)
      BY <1>4, ConcatProperties
    <2>2. ReadNvField(z) = One(v, y)
      BY <1>3, FieldBack
    <2> HIDE DEF z
    <2> DEFINE x == N \o z
    <2>3. ReadNvField(x) = One(n, z)
      BY <1>2, <2>1, FieldBack
    <2> HIDE DEF x
    <2> DEFINE name == ReadNvField(x)
               value == ReadNvField(name.rest)
    <2>4. name.rest = z /\ name.out[1] = n
      BY <2>3 DEF One
    <2>5. value.out = <<v>> /\ value.rest = y /\ value.out[1] = v /\ value.out # <<>>
      BY <2>2, <2>4 DEF One
    <2> HIDE DEF value
    <2>6. ReadPair(x) = One(<<[i \in DOMAIN name.out[1] |-> Lower(name.out[1][i])], FirstValue(value.out[1])>>, value.rest)
      BY <2>5 DEF ReadPair, value
    <2> HIDE DEF name
    <2>7. ReadPair(x) = One(<<n, v>>, y)
      BY <1>2, <1>3, <2>4, <2>5, <2>6
    <2> QED
      BY <1>1, <2>7 DEF x, z
  <1>6. PairBytes(p) = N \o V
    BY DEF PairBytes, n, v
  <1> HIDE DEF N, V
  <1>7. N \o V \in Seq(Nat)
    BY <1>4, ConcatProperties
  <1>8. ASSUME NEW y \in Seq(Nat)
        PROVE  PairOne[(N \o V) \o y] = [out |-> <<p>>, rest |-> y]
    <2>1. (N \o V) \o y = N \o (V \o y)
      <3> DEFINE T == Nat
      <3>1. N \in Seq(T) /\ V \in Seq(T) /\ y \in Seq(T)
        BY <1>4
      <3> HIDE DEF T
      <3> QED
        BY <3>1, ConcatAssociative, SMTT(30)
    <2>2. (N \o V) \o y \in Seq(Nat)
      BY <1>7, ConcatProperties
    <2>3. PairOne[(N \o V) \o y] = ReadPair(N \o (V \o y))
      BY <2>1, <2>2 DEF PairOne
    <2> QED
      BY <1>5, <2>3 DEF One
  <1> QED
    BY <1>6, <1>7, <1>8 DEF Takes

\* A block is read as the headers it was built of, after whatever came before.
LEMMA BlockBack ==
  ASSUME NEW h \in Blocks
  PROVE  /\ BuildNvBlock(h) \in Seq(Nat)
         /\ \A plain \in Seq(Nat) : ParseNvBlockOffset(plain \o BuildNvBlock(h), Len(plain) + 1)
                                      = [at |-> Len(plain \o BuildNvBlock(h)) + 1, pairs |-> h]
  <1> DEFINE P == HeaderNames \X HeaderValues
             N == Len(h)
             X == Seq(Nat)
             O == Seq(P)
             ss == [i \in 1 .. N |-> PairBytes(h[i])]
             os == [i \in 1 .. N |-> <<h[i]>>]
             s == FlattenSeq(ss)
             c == BuildNvBlock(h)
  <1>1. h \in Seq(P) /\ N \in Nat /\ N < LenMod /\ \A i \in 1 .. N : h[i] \in P
    <2>1. h \in Seq(P) /\ N < LenMod
      BY DEF Blocks
    <2> HIDE DEF P
    <2> QED
      BY <2>1
  <1>2. \A i \in 1 .. N : PairBytes(h[i]) \in X /\ Takes(PairOne, PairBytes(h[i]), <<h[i]>>)
    BY <1>1, PairTakes
  <1> HIDE DEF P
  <1>3. \A i \in 1 .. N : <<h[i]>> \in O
    BY <1>1
  <1>4. FlattenSeq(os) = h
    BY <1>1, Singles
  <1>5. c = BE4(N) \o s
    BY DEF BuildNvBlock, PairBytes
  <1> HIDE DEF X, O, N
  <1>6. ss \in Seq(X) /\ Len(ss) = N
    <2>1. ss = [i \in 1 .. N |-> ss[i]] /\ \A i \in 1 .. N : ss[i] = PairBytes(h[i])
      OBVIOUS
    <2> HIDE DEF ss
    <2>2. \A i \in 1 .. N : ss[i] \in X
      BY <1>2, <2>1
    <2> QED
      BY <1>1, <2>1, <2>2, IsSequence
  <1>7. os \in Seq(O) /\ Len(os) = N
    <2>1. os = [i \in 1 .. N |-> os[i]] /\ \A i \in 1 .. N : os[i] = <<h[i]>>
      OBVIOUS
    <2> HIDE DEF os
    <2>2. \A i \in 1 .. N : os[i] \in O
      BY <1>3, <2>1
    <2> QED
      BY <1>1, <2>1, <2>2, IsSequence
  <1>8. \A i \in 1 .. Len(ss) : Takes(PairOne, ss[i], os[i])
    BY <1>2, <1>6
  <1> HIDE DEF ss, os
  <1>9. s \in Seq(Nat)
    BY <1>6, FlattenType DEF X
  <1>10. Turns(s, N, PairOne) = [out |-> h, rest |-> <<>>]
    <2>1. ss \in Seq(Seq(Nat)) /\ os \in Seq(Seq(P)) /\ Len(os) = Len(ss) /\ N = Len(ss)
      BY <1>6, <1>7 DEF X, O
    <2>2. Turns(s, N, PairOne) = [out |-> FlattenSeq(os), rest |-> <<>>]
      BY <1>1, <1>8, <2>1, TurnsIs DEF s
    <2> QED
      BY <1>4, <2>2
  <1> HIDE DEF s, c
  <1>11. c \in Seq(Nat) /\ Len(c) = 4 + Len(s) /\ Int3(SubSeq(c, 2, 4)) = N /\ From(c, 5) = s
    BY <1>1, <1>5, <1>9, CountBack
  <1>12. ASSUME NEW plain \in Seq(Nat)
         PROVE  ParseNvBlockOffset(plain \o c, Len(plain) + 1) = [at |-> Len(plain \o c) + 1, pairs |-> h]
    <2> DEFINE w == plain \o c
               m == Len(plain) + 1
               x == From(w, m)
               count == Int3(SubSeq(x, 2, 4))
               r == Turns(From(x, 5), count, PairOne)
    <2>1. w \in Seq(Nat) /\ x = c
      BY <1>11, FromBehind
    <2>2. count = N /\ From(x, 5) = s /\ Len(x) >= 4
      <3>1. Len(s) \in Nat
        BY <1>9
      <3>2. count = N /\ From(x, 5) = s /\ Len(x) = 4 + Len(s)
        BY <1>11, <2>1
      <3> QED
        BY <3>1, <3>2
    <2>3. r = [out |-> h, rest |-> <<>>]
      BY <1>10, <2>2
    <2>4. Len(r.out) = count /\ r.out = h /\ Len(r.rest) = 0
      BY <2>2, <2>3 DEF N
    <2> HIDE DEF w, m
    <2>5. ParseNvBlockOffset(w, m) = IF Len(x) >= 4 /\ Len(r.out) = count THEN [at |-> Len(w) - Len(r.rest) + 1, pairs |-> r.out]
                                     ELSE [at |-> m, pairs |-> <<>>]
      BY DEF ParseNvBlockOffset, PairOne
    <2> HIDE DEF x, count, r
    <2>6. Len(w) - 0 + 1 = Len(w) + 1
      BY <2>1
    <2>7. ParseNvBlockOffset(w, m) = [at |-> Len(w) + 1, pairs |-> h]
      BY <2>2, <2>4, <2>5, <2>6
    <2> QED
      BY <2>7 DEF w, m
  <1> QED
    BY <1>11, <1>12 DEF c

\* Every block of a session is read, each where the last one ended.
LEMMA DecodeBack ==
  ASSUME NEW bs \in Seq(Blocks)
  PROVE  DecodeBlocks([i \in 1 .. Len(bs) |-> BuildNvBlock(bs[i])]) = bs
  <1> DEFINE N == Len(bs)
             X == Seq(Nat)
             O == Seq(Blocks)
             cs == [i \in 1 .. N |-> BuildNvBlock(bs[i])]
             after(before, plain, r) == [plain |-> plain, at |-> r.at, blocks |-> Append(before.blocks, r.pairs)]
             turn(before, n) == after(before, before.plain \o cs[n], ParseNvBlockOffset(before.plain \o cs[n], before.at))
             rule(f, n) == IF n = 0 THEN [plain |-> <<>>, at |-> 1, blocks |-> <<>>] ELSE turn(f[n - 1], n)
             it == CHOOSE f : f = [n \in 0 .. Len(cs) |-> rule(f, n)]
  <1>1. N \in Nat /\ \A i \in 1 .. N : bs[i] \in Blocks
    OBVIOUS
  <1>2. \A i \in 1 .. N : /\ BuildNvBlock(bs[i]) \in X
                          /\ \A plain \in X : ParseNvBlockOffset(plain \o BuildNvBlock(bs[i]), Len(plain) + 1)
                                                = [at |-> Len(plain \o BuildNvBlock(bs[i])) + 1, pairs |-> bs[i]]
    BY <1>1, BlockBack
  <1> HIDE DEF X, O, N
  <1>3. cs \in Seq(X) /\ Len(cs) = N
    <2>1. cs = [i \in 1 .. N |-> cs[i]] /\ \A i \in 1 .. N : cs[i] = BuildNvBlock(bs[i])
      OBVIOUS
    <2> HIDE DEF cs
    <2>2. \A i \in 1 .. N : cs[i] \in X
      BY <1>2, <2>1
    <2> QED
      BY <1>1, <2>1, <2>2, IsSequence
  <1>4. DecodeBlocks(cs) = it[Len(cs)].blocks
    BY DEF DecodeBlocks
  <1>5. \A i \in 1 .. N : cs[i] \in X /\ \A plain \in X : ParseNvBlockOffset(plain \o cs[i], Len(plain) + 1)
                                                            = [at |-> Len(plain \o cs[i]) + 1, pairs |-> bs[i]]
    BY <1>2
  <1>6. PICK f \in [0 .. N -> X] : f[0] = <<>> /\ \A n \in 1 .. N : f[n] = f[n - 1] \o cs[n]
    <2>1. cs \in Seq(Seq(Nat))
      BY <1>3 DEF X
    <2> HIDE DEF cs
    <2>2. \E f \in [0 .. Len(cs) -> Seq(Nat)] : f[0] = <<>> /\ \A n \in 1 .. Len(cs) : f[n] = f[n - 1] \o cs[n]
      BY <2>1, FlattenSteps
    <2> QED
      BY <1>3, <2>2 DEF X
  <1> DEFINE g == [n \in 0 .. N |-> [plain |-> f[n], at |-> Len(f[n]) + 1, blocks |-> SubSeq(bs, 1, n)]]
  <1> HIDE DEF cs
  <1>7. ASSUME NEW n \in 0 .. N
        PROVE  g[n] = rule(g, n)
    <2>1. CASE n = 0
      <3>1. g[0] = [plain |-> f[0], at |-> Len(f[0]) + 1, blocks |-> SubSeq(bs, 1, 0)]
        BY <1>1
      <3>2. SubSeq(bs, 1, 0) = <<>> /\ Len(f[0]) + 1 = 1
        BY <1>6
      <3> QED
        BY <1>6, <2>1, <3>1, <3>2
    <2>2. CASE n # 0
      <3>1. n \in 1 .. N /\ n - 1 \in 0 .. N
        BY <1>1, <2>2
      <3> DEFINE was == g[n - 1]
                 p == f[n - 1]
                 q == f[n]
                 b == SubSeq(bs, 1, n - 1)
                 c == SubSeq(bs, 1, n)
                 r == ParseNvBlockOffset(q, Len(p) + 1)
      <3>2. was = [plain |-> p, at |-> Len(p) + 1, blocks |-> b] /\ g[n] = [plain |-> q, at |-> Len(q) + 1, blocks |-> c]
        BY <3>1
      <3>3. p \in X /\ q = p \o cs[n]
        BY <1>6, <3>1
      <3>4. r = [at |-> Len(q) + 1, pairs |-> bs[n]]
        BY <1>5, <3>1, <3>3
      <3>5. c = Append(b, bs[n])
        <4> DEFINE d == Append(b, bs[n])
        <4>1. n \in 1 .. Len(bs) /\ Len(bs) \in Nat
          BY <1>1, <3>1 DEF N
        <4>2. b \in O /\ Len(b) = n - 1 /\ (\A i \in 1 .. n - 1 : b[i] = bs[i]) /\ bs[n] \in Blocks
          BY <4>1 DEF O
        <4>3. c \in O /\ Len(c) = n /\ \A i \in 1 .. n : c[i] = bs[i]
          BY <4>1 DEF O
        <4> HIDE DEF b, c
        <4>4. d \in O /\ Len(d) = n /\ \A i \in 1 .. n : d[i] = IF i <= n - 1 THEN b[i] ELSE bs[n]
          BY <4>1, <4>2 DEF O
        <4> HIDE DEF d
        <4>5. \A i \in 1 .. n : d[i] = c[i]
          BY <4>1, <4>2, <4>3, <4>4
        <4>6. c = d
          BY <4>3, <4>4, <4>5, SeqEqual DEF O
        <4> QED
          BY <4>6 DEF d
      <3> HIDE DEF was, p, q, b, c, r, g
      <3>6. was.plain = p /\ was.at = Len(p) + 1 /\ was.blocks = b
        BY <3>2
      <3>7. r.at = Len(q) + 1 /\ r.pairs = bs[n]
        BY <3>4
      <3>8. turn(was, n) = after(was, q, r)
        BY <3>3, <3>6 DEF r
      <3>9. turn(was, n) = [plain |-> q, at |-> Len(q) + 1, blocks |-> c]
        BY <3>5, <3>6, <3>7, <3>8
      <3>10. rule(g, n) = turn(was, n)
        BY <2>2 DEF was
      <3> QED
        BY <3>2, <3>9, <3>10
    <2> QED
      BY <2>1, <2>2
  <1> HIDE DEF rule
  <1>8. g = [n \in 0 .. N |-> rule(g, n)]
    <2>1. g = [n \in 0 .. N |-> g[n]]
      OBVIOUS
    <2> HIDE DEF g
    <2> QED
      BY <1>7, <2>1
  <1> HIDE DEF g
  <1>9. it = [n \in 0 .. N |-> rule(it, n)]
    BY <1>3, <1>8
  <1> HIDE DEF it
  <1>10. \A n \in 0 .. N : it[n] = g[n]
    <2> DEFINE off == {n \in 0 .. N : it[n] # g[n]}
    <2> SUFFICES ASSUME off # {} PROVE FALSE
      OBVIOUS
    <2>1. PICK n \in off : \A m \in off : n =< m
      <3>1. off \in SUBSET Nat
        OBVIOUS
      <3> HIDE DEF off
      <3> QED
        BY <3>1, LeastNumber
    <2>2. n \in 0 .. N /\ it[n] # g[n]
      BY <2>1
    <2>3. it[n] = rule(it, n) /\ g[n] = rule(g, n)
      BY <1>8, <1>9, <2>2
    <2>4. n # 0
      BY <2>2, <2>3 DEF rule
    <2>5. n - 1 \in 0 .. N /\ n - 1 < n
      BY <1>1, <2>2, <2>4
    <2>6. n - 1 \notin off
      <3> HIDE DEF off
      <3> QED
        BY <2>1, <2>2, <2>5
    <2>7. it[n - 1] = g[n - 1]
      BY <2>5, <2>6
    <2>8. rule(it, n) = turn(it[n - 1], n) /\ rule(g, n) = turn(g[n - 1], n)
      BY <2>4 DEF rule
    <2> HIDE DEF turn
    <2> QED
      BY <2>2, <2>3, <2>7, <2>8
  <1>11. g[N].blocks = bs
    <2>1. N \in 0 .. N
      BY <1>1
    <2>2. g[N].blocks = SubSeq(bs, 1, N)
      BY <2>1 DEF g
    <2>3. SubSeq(bs, 1, N) = bs
      BY SubSeqFull DEF N
    <2> QED
      BY <2>2, <2>3
  <1>12. it[Len(cs)].blocks = bs
    <2>1. N \in 0 .. N
      BY <1>1
    <2> QED
      BY <1>3, <1>10, <1>11, <2>1
  <1>13. DecodeBlocks(cs) = bs
    BY <1>4, <1>12
  <1> QED
    BY <1>13 DEF cs, N

(***************************************************************************)
(* The query of an exec request.                                           *)
(***************************************************************************)
\* The letter of a container is not escaped.
LEMMA LetterBack ==
  ASSUME NEW b \in 65 .. 90
  PROVE  PercentDecode(<<b>>) = <<b>>
  <1> DEFINE s == <<b>>
  <1>1. b \in Ascii
    BY DEF Ascii
  <1>2. s \in Seq(Ascii) /\ Len(s) = 1 /\ s[1] = b
    BY <1>1
  <1>3. PercentEscape(b) = s
    BY DEF PercentEscape
  <1> HIDE DEF s
  <1>4. PercentEncode(s) = FlattenSeq(<<s>>)
    <2>1. [i \in 1 .. 1 |-> s] = <<s>>
      OBVIOUS
    <2>2. \A i \in 1 .. 1 : PercentEscape(s[i]) = s
      <3>1. \A i \in 1 .. 1 : i = 1
        OBVIOUS
      <3> QED
        BY <1>2, <1>3, <3>1
    <2>3. [i \in 1 .. Len(s) |-> PercentEscape(s[i])] = <<s>>
      BY <1>2, <2>1, <2>2
    <2> QED
      BY <2>3 DEF PercentEncode
  <1>5. FlattenSeq(<<s>>) = s
    BY <1>2, FlattenOne
  <1>6. PercentDecode(PercentEncode(s)) = s
    BY <1>2, PercentBack
  <1> QED
    BY <1>4, <1>5, <1>6 DEF s

\* The pairs of the query.
QueryLaid(q, command) ==
  /\ DOMAIN q = 1 .. Len(command) + 2
  /\ q[1] = <<"container", <<65>>>>
  /\ \A i \in 1 .. Len(command) : q[i + 1] = <<"command", PercentEncode(command[i])>>
  /\ q[Len(command) + 2] = <<"container", <<66>>>>

LEMMA QueryIsLaid ==
  ASSUME NEW A, NEW command \in Seq(A)
  PROVE  QueryLaid(QueryOf(command), command)
  <1> DEFINE n == Len(command)
             e(i) == <<"command", PercentEncode(command[i])>>
             first == <<"container", <<65>>>>
             last == <<"container", <<66>>>>
             mid == [i \in 1 .. n |-> e(i)]
             E == {first, last} \cup {e(i) : i \in 1 .. n}
             a == <<first>>
             z == <<last>>
             q == (a \o mid) \o z
  <1>1. n \in Nat /\ first \in E /\ last \in E /\ \A i \in 1 .. n : e(i) \in E
    OBVIOUS
  <1>2. QueryOf(command) = q
    BY DEF QueryOf
  <1>3. \A i \in 1 .. n : mid[i] = <<"command", PercentEncode(command[i])>>
    OBVIOUS
  <1> HIDE DEF n, E, first, last, e
  <1>4. mid \in Seq(E) /\ Len(mid) = n
    BY <1>1
  <1> HIDE DEF mid
  <1>5. a \in Seq(E) /\ Len(a) = 1 /\ a[1] = first /\ z \in Seq(E) /\ Len(z) = 1 /\ z[1] = last
    BY <1>1
  <1> HIDE DEF a, z
  <1> DEFINE b == a \o mid
  <1>6. b \in Seq(E) /\ Len(b) = 1 + n /\ \A i \in 1 .. 1 + n : b[i] = IF i <= 1 THEN a[i] ELSE mid[i - 1]
    <2>1. a \in Seq(E) /\ mid \in Seq(E)
      BY <1>4, <1>5
    <2>2. b \in Seq(E) /\ Len(b) = Len(a) + Len(mid) /\ \A i \in 1 .. Len(a) + Len(mid) : b[i] = IF i <= Len(a) THEN a[i] ELSE mid[i - Len(a)]
      BY <2>1, ConcatProperties
    <2> HIDE DEF b
    <2> QED
      BY <1>4, <1>5, <2>2
  <1>7. q = b \o z
    OBVIOUS
  <1> HIDE DEF b, q
  <1>8. b \o z \in Seq(E) /\ Len(b \o z) = (1 + n) + 1 /\ \A i \in 1 .. (1 + n) + 1 : (b \o z)[i] = IF i <= 1 + n THEN b[i] ELSE z[i - (1 + n)]
    <2>1. b \in Seq(E) /\ z \in Seq(E)
      BY <1>5, <1>6
    <2>2. b \o z \in Seq(E) /\ Len(b \o z) = Len(b) + Len(z) /\ \A i \in 1 .. Len(b) + Len(z) : (b \o z)[i] = IF i <= Len(b) THEN b[i] ELSE z[i - Len(b)]
      BY <2>1, ConcatProperties
    <2> QED
      BY <1>5, <1>6, <2>2
  <1>9. DOMAIN q = 1 .. n + 2
    <2>1. (1 + n) + 1 = n + 2
      BY <1>1
    <2>2. q \in Seq(E) /\ Len(q) = n + 2
      BY <1>7, <1>8, <2>1
    <2> QED
      BY <2>2
  <1>10. q[1] = first
    <2>1. 1 \in 1 .. (1 + n) + 1 /\ 1 \in 1 .. 1 + n /\ 1 <= 1 + n /\ 1 <= 1
      BY <1>1
    <2> QED
      BY <1>5, <1>6, <1>7, <1>8, <2>1
  <1>11. ASSUME NEW i \in 1 .. n
         PROVE  q[i + 1] = mid[i]
    <2>1. i + 1 \in 1 .. (1 + n) + 1 /\ i + 1 \in 1 .. 1 + n /\ i + 1 <= 1 + n /\ ~ (i + 1 <= 1) /\ (i + 1) - 1 = i
      BY <1>1
    <2> DEFINE k == i + 1
    <2>2. q[k] = b[k] /\ b[k] = mid[k - 1]
      <3> HIDE DEF k
      <3>1. k \in 1 .. (1 + n) + 1 /\ k \in 1 .. 1 + n /\ k <= 1 + n /\ ~ (k <= 1)
        BY <2>1 DEF k
      <3> QED
        BY <1>6, <1>7, <1>8, <3>1
    <2> QED
      BY <2>1, <2>2
  <1>12. q[n + 2] = last
    <2> DEFINE k == n + 2
    <2>1. k \in 1 .. (1 + n) + 1 /\ ~ (k <= 1 + n) /\ k - (1 + n) = 1
      BY <1>1
    <2> HIDE DEF k
    <2>2. q[k] = z[1]
      BY <1>7, <1>8, <2>1
    <2> QED
      BY <1>5, <2>2 DEF k
  <1>13. QueryLaid(q, command)
    BY <1>3, <1>9, <1>10, <1>11, <1>12 DEF QueryLaid, n, first, last
  <1> QED
    BY <1>2, <1>13

LEMMA TwoIs ==
  ASSUME NEW u, NEW v
  PROVE  <<u>> \o <<v>> = <<u, v>>
  <1> DEFINE S == {u, v}
             a == <<u>>
             b == <<v>>
             c == <<u, v>>
             d == a \o b
  <1>1. u \in S /\ v \in S
    OBVIOUS
  <1> HIDE DEF S
  <1>2. a \in Seq(S) /\ Len(a) = 1 /\ a[1] = u /\ b \in Seq(S) /\ Len(b) = 1 /\ b[1] = v
    BY <1>1
  <1>3. c \in Seq(S) /\ Len(c) = 2 /\ c[1] = u /\ c[2] = v
    BY <1>1
  <1> HIDE DEF a, b, c
  <1>4. d \in Seq(S) /\ Len(d) = 2 /\ \A i \in 1 .. 2 : d[i] = IF i <= 1 THEN a[i] ELSE b[i - 1]
    <2>1. d \in Seq(S) /\ Len(d) = Len(a) + Len(b) /\ \A i \in 1 .. Len(a) + Len(b) : d[i] = IF i <= Len(a) THEN a[i] ELSE b[i - Len(a)]
      <3>1. a \in Seq(S) /\ b \in Seq(S)
        BY <1>2
      <3> QED
        BY <3>1, ConcatProperties
    <2> HIDE DEF d
    <2> QED
      BY <1>2, <2>1
  <1> HIDE DEF d
  <1>5. \A i \in 1 .. 2 : d[i] = c[i]
    <2>1. \A i \in 1 .. 2 : (i = 1 /\ i <= 1) \/ (i = 2 /\ ~ (i <= 1) /\ i - 1 = 1)
      OBVIOUS
    <2> QED
      BY <1>2, <1>3, <1>4, <2>1
  <1>6. d = c
    BY <1>3, <1>4, <1>5, SeqEqual
  <1> QED
    BY <1>6 DEF a, b, c, d

LEMMA QueryReads ==
  ASSUME NEW command \in Seq(Seq(Ascii)), NEW q, QueryLaid(q, command)
  PROVE  ValuesOf(q, "command") = command /\ ValuesOf(q, "container") = <<<<65>>, <<66>>>>
  <1> DEFINE n == Len(command)
             A == Seq(Ascii)
             value(k, i) == IF q[i][1] = k THEN <<PercentDecode(q[i][2])>> ELSE <<>>
             cs == [i \in 1 .. n + 2 |-> value("command", i)]
             ns == [i \in 1 .. n + 2 |-> value("container", i)]
             f == [k \in 0 .. n + 2 |-> IF k = 0 THEN <<>> ELSE IF k = n + 2 THEN command ELSE SubSeq(command, 1, k - 1)]
             g == [k \in 0 .. n + 2 |-> IF k = 0 THEN <<>> ELSE IF k = n + 2 THEN <<<<65>>, <<66>>>> ELSE <<<<65>>>>]
  <1>1. n \in Nat /\ command \in Seq(A) /\ \A i \in 1 .. n : command[i] \in A
    OBVIOUS
  <1>2. /\ DOMAIN q = 1 .. n + 2
        /\ q[1] = <<"container", <<65>>>> /\ q[n + 2] = <<"container", <<66>>>>
        /\ \A i \in 1 .. n : q[i + 1] = <<"command", PercentEncode(command[i])>>
    BY DEF QueryLaid
  <1>3. PercentDecode(<<65>>) = <<65>> /\ PercentDecode(<<66>>) = <<66>> /\ <<65>> \in A /\ <<66>> \in A
    <2>1. 65 \in 65 .. 90 /\ 66 \in 65 .. 90 /\ 65 \in Ascii /\ 66 \in Ascii
      BY DEF Ascii
    <2>2. <<65>> \in A /\ <<66>> \in A
      BY <2>1
    <2> QED
      BY <2>1, <2>2, LetterBack
  <1>4. \A i \in 1 .. n : PercentDecode(PercentEncode(command[i])) = command[i]
    BY <1>1, PercentBack
  <1>5. /\ value("command", 1) = <<>> /\ value("command", n + 2) = <<>>
        /\ value("container", 1) = <<<<65>>>> /\ value("container", n + 2) = <<<<66>>>>
    <2>1. q[1][1] = "container" /\ q[1][2] = <<65>> /\ q[n + 2][1] = "container" /\ q[n + 2][2] = <<66>>
      BY <1>2
    <2>2. "container" # "command"
      OBVIOUS
    <2> QED
      BY <1>3, <2>1, <2>2
  <1>6. \A i \in 1 .. n : value("command", i + 1) = <<command[i]>> /\ value("container", i + 1) = <<>>
    <2> SUFFICES ASSUME NEW i \in 1 .. n
                 PROVE  value("command", i + 1) = <<command[i]>> /\ value("container", i + 1) = <<>>
      OBVIOUS
    <2>1. q[i + 1][1] = "command" /\ q[i + 1][2] = PercentEncode(command[i])
      BY <1>2
    <2>2. "container" # "command"
      OBVIOUS
    <2> QED
      BY <1>4, <2>1, <2>2
  <1>7. ValuesOf(q, "command") = FlattenSeq(cs) /\ ValuesOf(q, "container") = FlattenSeq(ns)
    BY <1>2 DEF ValuesOf
  <1> HIDE DEF A, n, value
  <1>8. ASSUME NEW k \in 1 .. n + 2
        PROVE  k = 1 \/ k = n + 2 \/ (k - 1 \in 1 .. n /\ (k - 1) + 1 = k)
    BY <1>1
  <1>9. \A i \in 1 .. n + 2 : value("command", i) \in Seq(A) /\ value("container", i) \in Seq(A)
    <2> SUFFICES ASSUME NEW i \in 1 .. n + 2
                 PROVE  value("command", i) \in Seq(A) /\ value("container", i) \in Seq(A)
      OBVIOUS
    <2>1. <<>> \in Seq(A) /\ <<<<65>>>> \in Seq(A) /\ <<<<66>>>> \in Seq(A)
      BY <1>3
    <2>2. \A j \in 1 .. n : <<command[j]>> \in Seq(A)
      BY <1>1
    <2>3. CASE i = 1
      BY <1>5, <2>1, <2>3
    <2>4. CASE i = n + 2
      BY <1>5, <2>1, <2>4
    <2>5. CASE i - 1 \in 1 .. n /\ (i - 1) + 1 = i
      BY <1>6, <2>1, <2>2, <2>5
    <2> QED
      BY <1>8, <2>3, <2>4, <2>5
  <1>10. cs \in Seq(Seq(A)) /\ Len(cs) = n + 2 /\ ns \in Seq(Seq(A)) /\ Len(ns) = n + 2
    <2> DEFINE X == Seq(A)
    <2>1. \A i \in 1 .. n + 2 : value("command", i) \in X /\ value("container", i) \in X
      BY <1>9
    <2>2. n + 2 \in Nat
      BY <1>1
    <2> HIDE DEF X
    <2>3. cs = [i \in 1 .. n + 2 |-> cs[i]] /\ \A i \in 1 .. n + 2 : cs[i] = value("command", i)
      OBVIOUS
    <2>4. ns = [i \in 1 .. n + 2 |-> ns[i]] /\ \A i \in 1 .. n + 2 : ns[i] = value("container", i)
      OBVIOUS
    <2> HIDE DEF cs, ns
    <2>5. cs \in Seq(X) /\ Len(cs) = n + 2
      <3>1. \A i \in 1 .. n + 2 : cs[i] \in X
        BY <2>1, <2>3
      <3> DEFINE m == n + 2
      <3>2. m \in Nat /\ cs = [i \in 1 .. m |-> cs[i]] /\ \A i \in 1 .. m : cs[i] \in X
        BY <2>2, <2>3, <3>1
      <3> HIDE DEF m
      <3>3. cs \in Seq(X) /\ Len(cs) = m
        BY <3>2, IsSequence
      <3> QED
        BY <3>3 DEF m
    <2>6. ns \in Seq(X) /\ Len(ns) = n + 2
      <3>1. \A i \in 1 .. n + 2 : ns[i] \in X
        BY <2>1, <2>4
      <3> DEFINE m == n + 2
      <3>2. m \in Nat /\ ns = [i \in 1 .. m |-> ns[i]] /\ \A i \in 1 .. m : ns[i] \in X
        BY <2>2, <2>4, <3>1
      <3> HIDE DEF m
      <3>3. ns \in Seq(X) /\ Len(ns) = m
        BY <3>2, IsSequence
      <3> QED
        BY <3>3 DEF m
    <2> QED
      BY <2>5, <2>6 DEF X
  <1>11. \A k \in 1 .. n + 2 : cs[k] = value("command", k) /\ ns[k] = value("container", k)
    OBVIOUS
  <1> HIDE DEF cs, ns
  <1>12. /\ f[0] = <<>> /\ f[n + 2] = command /\ \A k \in 1 .. n + 1 : f[k] = SubSeq(command, 1, k - 1)
         /\ g[0] = <<>> /\ g[n + 2] = <<<<65>>, <<66>>>> /\ \A k \in 1 .. n + 1 : g[k] = <<<<65>>>>
    <2>1. 0 \in 0 .. n + 2 /\ n + 2 \in 0 .. n + 2 /\ n + 2 # 0
      BY <1>1
    <2>2. \A k \in 1 .. n + 1 : k \in 0 .. n + 2 /\ k # 0 /\ k # n + 2
      BY <1>1
    <2> QED
      BY <2>1, <2>2
  <1> HIDE DEF f, g
  <1>13. \A k \in 1 .. Len(cs) : f[k - 1] \in Seq(A) /\ f[k] = f[k - 1] \o cs[k]
    <2> SUFFICES ASSUME NEW k \in 1 .. n + 2
                 PROVE  f[k - 1] \in Seq(A) /\ f[k] = f[k - 1] \o cs[k]
      BY <1>10
    <2>1. CASE k = 1
      <3>1. 1 \in 1 .. n + 1 /\ k - 1 = 0 /\ 1 - 1 = 0
        BY <1>1, <2>1
      <3>2. f[1] = <<>>
        <4>1. f[1] = SubSeq(command, 1, 0)
          BY <1>12, <3>1
        <4> QED
          BY <4>1
      <3>3. <<>> \in Seq(A) /\ <<>> \o <<>> = <<>>
        OBVIOUS
      <3> QED
        BY <1>5, <1>11, <1>12, <2>1, <3>1, <3>2, <3>3
    <2>2. CASE k = n + 2
      <3>1. k - 1 = n + 1 /\ n + 1 \in 1 .. n + 1 /\ (n + 1) - 1 = n
        BY <1>1, <2>2
      <3>2. f[n + 1] = command
        <4>1. f[n + 1] = SubSeq(command, 1, n)
          BY <1>12, <3>1
        <4>2. SubSeq(command, 1, n) = command
          BY SubSeqFull DEF n
        <4> QED
          BY <4>1, <4>2
      <3>3. command \o <<>> = command
        OBVIOUS
      <3> QED
        BY <1>1, <1>5, <1>11, <1>12, <2>2, <3>1, <3>2, <3>3
    <2>3. CASE k - 1 \in 1 .. n /\ (k - 1) + 1 = k
      <3> DEFINE i == k - 1
                 b == SubSeq(command, 1, i - 1)
                 c == SubSeq(command, 1, i)
      <3>1. i \in 1 .. n /\ i + 1 = k /\ i \in 1 .. n + 1 /\ k \in 1 .. n + 1 /\ k - 1 = i
        BY <1>1, <2>3
      <3>2. f[i] = b /\ f[k] = c /\ cs[k] = <<command[i]>>
        <4> HIDE DEF i
        <4>1. f[k] = SubSeq(command, 1, k - 1)
          BY <1>12, <3>1
        <4> QED
          BY <1>6, <1>11, <1>12, <3>1, <4>1
      <3> HIDE DEF i
      <3>3. b \in Seq(A) /\ c = b \o <<command[i]>>
        <4> DEFINE e == <<command[i]>>
                   d == b \o e
        <4>1. i \in 1 .. Len(command) /\ Len(command) \in Nat
          BY <1>1, <3>1 DEF n
        <4>2. b \in Seq(A) /\ Len(b) = i - 1 /\ \A j \in 1 .. i - 1 : b[j] = command[j]
          BY <1>1, <4>1
        <4>3. c \in Seq(A) /\ Len(c) = i /\ \A j \in 1 .. i : c[j] = command[j]
          BY <1>1, <4>1
        <4>4. e \in Seq(A) /\ Len(e) = 1 /\ e[1] = command[i]
          BY <1>1, <3>1
        <4> HIDE DEF b, c, e
        <4>5. d \in Seq(A) /\ Len(d) = Len(b) + Len(e) /\ \A j \in 1 .. Len(b) + Len(e) : d[j] = IF j <= Len(b) THEN b[j] ELSE e[j - Len(b)]
          <5>1. b \in Seq(A) /\ e \in Seq(A)
            BY <4>2, <4>4
          <5> QED
            BY <5>1, ConcatProperties
        <4> HIDE DEF d
        <4>6. Len(b) + Len(e) = i
          BY <4>1, <4>2, <4>4
        <4>7. \A j \in 1 .. i : d[j] = c[j]
          <5> SUFFICES ASSUME NEW j \in 1 .. i
                       PROVE  d[j] = c[j]
            OBVIOUS
          <5>1. d[j] = IF j <= i - 1 THEN b[j] ELSE e[j - (i - 1)]
            BY <4>2, <4>5, <4>6
          <5>2. j <= i - 1 => j \in 1 .. i - 1
            BY <4>1
          <5>3. ~ (j <= i - 1) => j = i /\ j - (i - 1) = 1
            BY <4>1
          <5>4. CASE j <= i - 1
            BY <4>2, <4>3, <5>1, <5>2, <5>4
          <5>5. CASE ~ (j <= i - 1)
            BY <4>3, <4>4, <5>1, <5>3, <5>5
          <5> QED
            BY <5>4, <5>5
        <4>8. c = d
          BY <4>3, <4>5, <4>6, <4>7, SeqEqual
        <4> QED
          BY <4>2, <4>8 DEF d, e
      <3> QED
        BY <3>1, <3>2, <3>3
    <2> QED
      BY <1>8, <2>1, <2>2, <2>3
  <1>14. \A k \in 1 .. Len(ns) : g[k - 1] \in Seq(A) /\ g[k] = g[k - 1] \o ns[k]
    <2> SUFFICES ASSUME NEW k \in 1 .. n + 2
                 PROVE  g[k - 1] \in Seq(A) /\ g[k] = g[k - 1] \o ns[k]
      BY <1>10
    <2>0. <<>> \in Seq(A) /\ <<<<65>>>> \in Seq(A)
      BY <1>3
    <2>1. CASE k = 1
      <3>1. 1 \in 1 .. n + 1 /\ k - 1 = 0
        BY <1>1, <2>1
      <3>2. <<>> \o <<<<65>>>> = <<<<65>>>>
        OBVIOUS
      <3> QED
        BY <1>5, <1>11, <1>12, <2>0, <2>1, <3>1, <3>2
    <2>2. CASE k = n + 2
      <3>1. k - 1 = n + 1 /\ n + 1 \in 1 .. n + 1
        BY <1>1, <2>2
      <3>2. <<<<65>>>> \o <<<<66>>>> = <<<<65>>, <<66>>>>
        BY TwoIs
      <3>3. g[n + 1] = <<<<65>>>>
        BY <1>12, <3>1
      <3> QED
        BY <1>5, <1>11, <1>12, <2>0, <2>2, <3>1, <3>2, <3>3
    <2>3. CASE k - 1 \in 1 .. n /\ (k - 1) + 1 = k
      <3>1. k \in 1 .. n + 1 /\ k - 1 \in 1 .. n + 1
        BY <1>1, <2>3
      <3>2. ns[k] = <<>>
        BY <1>6, <1>11, <2>3
      <3>3. <<<<65>>>> \o <<>> = <<<<65>>>>
        OBVIOUS
      <3> QED
        BY <1>12, <2>0, <3>1, <3>2, <3>3
    <2> QED
      BY <1>8, <2>1, <2>2, <2>3
  <1>15. FlattenSeq(cs) = f[Len(cs)]
    <2>1. cs \in Seq(Seq(A)) /\ f[0] = <<>>
      BY <1>10, <1>12
    <2> QED
      BY <1>13, <2>1, FlattenIs
  <1>16. FlattenSeq(ns) = g[Len(ns)]
    <2>1. ns \in Seq(Seq(A)) /\ g[0] = <<>>
      BY <1>10, <1>12
    <2> QED
      BY <1>14, <2>1, FlattenIs
  <1> QED
    BY <1>7, <1>10, <1>12, <1>15, <1>16

LEMMA QueryBack ==
  ASSUME NEW command \in Seq(Seq(Ascii))
  PROVE  ParseExecQuery(QueryOf(command)).command = command /\ ParseExecQuery(QueryOf(command)).container = <<66>>
  <1> DEFINE q == QueryOf(command)
             a == <<65>>
             b == <<66>>
             cs == ValuesOf(q, "container")
             last == IF cs = <<>> THEN <<>> ELSE Last(cs)
  <1>1. QueryLaid(q, command)
    BY QueryIsLaid
  <1> HIDE DEF q
  <1>2. ValuesOf(q, "command") = command /\ ValuesOf(q, "container") = <<a, b>>
    BY <1>1, QueryReads
  <1>3. last = b
    <2> HIDE DEF a, b
    <2>1. Len(<<a, b>>) = 2 /\ <<a, b>>[2] = b /\ <<a, b>> # <<>>
      OBVIOUS
    <2> QED
      BY <1>2, <2>1 DEF Last
  <1>4. ParseExecQuery(q) = [command |-> ValuesOf(q, "command"), container |-> last]
    BY DEF ParseExecQuery
  <1> HIDE DEF last
  <1> QED
    BY <1>2, <1>3, <1>4 DEF q

LEMMA MessageBack ==
  ASSUME NEW m \in FramedMessage
  PROVE  DecodeMessage(EncodeMessage(m)) = m
  <1> DEFINE c == m.stream
             p == m.payload
             e == <<c>>
             x == e \o p
  <1>1. c \in Byte /\ p \in Seq(Byte) /\ m = [stream |-> c, payload |-> p]
    BY DEF FramedMessage
  <1>2. EncodeMessage(m) = x
    BY DEF EncodeMessage
  <1> HIDE DEF c, p
  <1>3. c \in Nat /\ p \in Seq(Nat)
    <2>1. c \in Byte /\ p \in Seq(Byte)
      BY <1>1
    <2>2. p \in Seq(Nat)
      BY <2>1, BytesAreNumbers
    <2>3. \A a \in Byte : a \in Nat
      BY DEF Byte
    <2> QED
      BY <2>1, <2>2, <2>3
  <1>4. e \in Seq(Nat) /\ Len(e) = 1 /\ e[1] = c
    BY <1>3
  <1> HIDE DEF e
  <1>5. x \in Seq(Nat) /\ Len(x) = 1 + Len(p) /\ x[1] = c /\ From(x, 2) = p
    <2>1. x \in Seq(Nat) /\ Len(x) = Len(e) + Len(p) /\ (\A i \in 1 .. Len(e) : x[i] = e[i]) /\ From(x, Len(e) + 1) = p
      BY <1>3, <1>4, FromBehind
    <2> HIDE DEF x
    <2>2. 1 \in 1 .. Len(e) /\ Len(e) + 1 = 2
      BY <1>4
    <2> QED
      BY <1>4, <2>1, <2>2
  <1> HIDE DEF x
  <1>6. Tail(x) = p
    <2>1. Len(x) # 0
      BY <1>3, <1>5
    <2>2. x # <<>>
      BY <2>1
    <2> QED
      BY <1>5, <2>2 DEF From
  <1> QED
    BY <1>1, <1>2, <1>5, <1>6 DEF DecodeMessage

\* The scripts are what can be sent; the one that is followed does not change.
ScriptTyped(s) ==
  /\ s.frames \in Seq(SpdyWireFrame \cup Settings) /\ s.blocks \in Seq(Blocks)
  /\ s.message \in FramedMessage /\ s.command \in Seq(Seq(Ascii))
CodecInv == ScriptTyped(script)

LEMMA CodecInvInit == Init => CodecInv
  <1> SUFFICES ASSUME Init PROVE CodecInv
    OBVIOUS
  <1>1. script \in Scripts \/ script = EmptyScript
    BY DEF Init, CodecInit
  <1>2. CASE script \in Scripts
    BY <1>2, CodecAssumption DEF CodecInv, ScriptTyped
  <1>3. CASE script = EmptyScript
    <2>1. script.frames = <<>> /\ script.blocks = <<>> /\ script.command = <<>> /\ script.message = [stream |-> 0, payload |-> <<>>]
      BY <1>3 DEF EmptyScript
    <2>2. [stream |-> 0, payload |-> <<>>] \in FramedMessage
      BY DEF FramedMessage, Byte
    <2>3. \A T : <<>> \in Seq(T)
      OBVIOUS
    <2> QED
      BY <2>1, <2>2, <2>3 DEF CodecInv, ScriptTyped
  <1> QED
    BY <1>1, <1>2, <1>3

LEMMA CodecInvInverse == CodecInv => CodecsInvert
  <1> SUFFICES ASSUME CodecInv PROVE CodecsInvert
    OBVIOUS
  <1> DEFINE fs == script.frames
             bs == script.blocks
             F == SpdyWireFrame \cup Settings
  <1>1. fs \in Seq(F) /\ bs \in Seq(Blocks) /\ script.message \in FramedMessage /\ script.command \in Seq(Seq(Ascii))
    BY DEF CodecInv, ScriptTyped
  <1>2. WireFramesSurvive
    <2>1. ReadAll(Sent(fs)) = Known(fs)
      BY <1>1, ReadAllIs
    <2>2. ASSUME NEW i \in DOMAIN fs, fs[i].type \notin {"synStream", "settings"}
          PROVE  ReadAll(WriteSpdyWireFrame(fs[i])) = <<fs[i]>>
      <3>1. fs[i] \in F
        <4> HIDE DEF fs, F
        <4> QED
          BY <1>1, <2>2
      <3> HIDE DEF fs
      <3> QED
        BY <2>2, <3>1, ReadOneIs
    <2> QED
      BY <2>1, <2>2 DEF WireFramesSurvive
  <1>3. HeadersSurvive
    BY <1>1, DecodeBack DEF HeadersSurvive
  <1>4. QuerySurvives
    BY <1>1, QueryBack, MessageBack DEF QuerySurvives
  <1> QED
    BY <1>2, <1>3, <1>4 DEF CodecsInvert

\* CodecsInvert: for every session of frames, every series of header blocks and
\* every command that the formats have room for, the readers of the streaming
\* server make of the bytes what was written to them.
THEOREM CodecsAreInverse == Spec => []CodecsInvert
  <1>1. CodecInv /\ [Next]_vars => CodecInv'
    BY DEF CodecInv, ScriptTyped, Next, Exec, Forward, Log, Gate, vars, codecVars
  <1> QED
    BY <1>1, CodecInvInit, CodecInvInverse, PTL DEF Spec

===============================================================================
