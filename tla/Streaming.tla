------------------------------ MODULE Streaming ------------------------------
(***************************************************************************)
(* The streaming server: requests are authenticated, limited in rate and   *)
(* authorized, concurrently, and then served by a session of their own.    *)
(* Sessions share nothing with each other; the one that is followed, or    *)
(* the gate before all of them, is chosen at the start.                    *)
(***************************************************************************)
EXTENDS StreamCodec, ExecStream, PortForward, LogRead

CONSTANTS
  Requests,   \* requests that come
  MaxEvents,  \* of the rate limiter: 60 in the code,
  Window,     \* in 60 s
  MaxNow      \* bound of the clock of the gate

ASSUME GateAssumption == MaxEvents \in Nat /\ Window \in Nat /\ MaxNow \in Nat

VARIABLES
  part,      \* what is followed
  authConf,  \* [anonymous_auth, always_allow, fallback]
  cached,    \* a client for reviews is there
  req,       \* the requests: [pc, cred, user]
  entries,   \* the rate limiter: for each user the times it let through
  now,       \* the clock
  passed     \* when each request was let through by the limiter, or -1

authVars == <<authConf, cached, req, entries, now, passed>>
vars == <<part, codecVars, execVars, pfVars, logVars, authVars>>

Users == {"user", "system:anonymous"}

AuthTypeOK ==
  /\ entries \in [Users -> Seq(0 .. MaxNow)] /\ now \in 0 .. MaxNow /\ cached \in BOOLEAN
  /\ \A r \in Requests : req[r].pc \in {"new", "client", "review", "access", "granted", "refused"}

AuthConfs == [anonymous : BOOLEAN, always : BOOLEAN, fallback : BOOLEAN]
NoAuth == CHOOSE c \in AuthConfs : TRUE

AuthInit(C, clients, creds) ==
  /\ authConf \in C
  /\ cached \in clients
  /\ req \in [Requests -> [pc : {"new"}, cred : creds, user : {"system:anonymous"}]]
  /\ entries = [u \in Users |-> <<>>]
  /\ now = 0
  /\ passed = [r \in Requests |-> -1]

----------------------------------------------------------------------------
\* The events of q that are left when those older than age are popped from its
\* front, up to the first that is not.
PopOlder(q, age) ==
  LET n == CHOOSE k \in 0 .. Len(q) :
             (\A i \in 1 .. k : now - q[i] > age) /\ (k < Len(q) => now - q[k + 1] <= age)
  IN  SubSeq(q, n + 1, Len(q))

\* Mutant of Recent: an event a whole window ago no longer counts.
RecentShort(q) == PopOlder(q, Window - 1)

\* The events the limiter still counts.
Recent(q) == PopOlder(q, Window)

Goto(r, pc) == req' = [req EXCEPT ![r].pc = pc]

\* allow of the rate limiter, for request r of user u: refused at the limit,
\* else recorded.
Limited(r, u, then) ==
  \/ /\ Len(Recent(entries[u])) >= MaxEvents
     /\ entries' = [entries EXCEPT ![u] = Recent(@)]
     /\ req' = [req EXCEPT ![r].pc = "refused", ![r].user = u]
     /\ UNCHANGED passed
  \/ /\ Len(Recent(entries[u])) < MaxEvents
     /\ entries' = [entries EXCEPT ![u] = Append(Recent(@), now)]
     /\ req' = [req EXCEPT ![r].pc = then, ![r].user = u]
     /\ passed' = [passed EXCEPT ![r] = now]

\* A client certificate, checked in the handshake, is enough.  Without it and
\* without a token the request is anonymous.
Arrive(r) ==
  /\ req[r].pc = "new"
  /\ \/ /\ req[r].cred = "cert" \/ (req[r].cred = "none" /\ authConf.anonymous /\ authConf.always)
        /\ Goto(r, "granted") /\ UNCHANGED <<entries, passed>>
     \/ /\ req[r].cred = "none" /\ ~authConf.anonymous
        /\ Goto(r, "refused") /\ UNCHANGED <<entries, passed>>
     \/ /\ req[r].cred = "none" /\ authConf.anonymous /\ ~authConf.always
        /\ Limited(r, "system:anonymous", "granted")
     \/ /\ req[r].cred = "token"
        /\ Goto(r, "client") /\ UNCHANGED <<entries, passed>>
  /\ UNCHANGED <<authConf, cached, now>>

\* kube_client: the one that was provided or cached, or a new one, which is
\* kept.
KubeClient(r) ==
  /\ req[r].pc = "client"
  /\ Goto(r, "review") /\ cached' = TRUE
  /\ UNCHANGED <<authConf, entries, now, passed>>

\* None can be had: the configuration decides.
NoClient(r) ==
  /\ req[r].pc = "client" /\ ~cached
  /\ Goto(r, IF authConf.always \/ authConf.fallback THEN "granted" ELSE "refused")
  /\ UNCHANGED <<authConf, cached, entries, now, passed>>

\* token_review: the user, or none when the call fails, the token is not
\* authenticated or the answer names nobody.
ReviewedUsers == {"user", Nothing}

\* subject_access_review: a call that fails denies.
Verdicts == {"granted", "refused"}

\* The token is reviewed; then the limiter.
TokenReview(r) ==
  /\ req[r].pc = "review"
  /\ \E u \in ReviewedUsers :
       \/ u = Nothing /\ Goto(r, "refused") /\ UNCHANGED <<entries, passed>>
       \/ u # Nothing /\ Limited(r, u, IF authConf.always THEN "granted" ELSE "access")
  /\ UNCHANGED <<authConf, cached, now>>

SubjectAccessReview(r) ==
  /\ req[r].pc = "access"
  /\ \E v \in Verdicts : Goto(r, v)
  /\ UNCHANGED <<authConf, cached, entries, now, passed>>

Wait ==
  /\ now < MaxNow /\ now' = now + 1
  /\ UNCHANGED <<authConf, cached, req, entries, passed>>

AuthNext == Wait \/ \E r \in Requests : Arrive(r) \/ KubeClient(r) \/ NoClient(r) \/ TokenReview(r) \/ SubjectAccessReview(r)

----------------------------------------------------------------------------
TypeOK == AuthTypeOK /\ ExecTypeOK /\ PfTypeOK /\ LogTypeOK

\* What is not followed starts in one state.
Init ==
  /\ part \in {"gate", "codec", "exec", "portForward", "log"}
  /\ CodecInit(IF part = "codec" THEN Scripts ELSE {EmptyScript})
  /\ ExecInit(IF part = "exec" THEN Queries ELSE {OneQuery})
  /\ PfInit(IF part = "portForward" THEN {"spdy", "ws", "other"} ELSE {"other"})
  /\ LogInit(IF part = "log" THEN LogQueries ELSE {OneLogQuery})
  /\ IF part = "gate" THEN AuthInit(AuthConfs, BOOLEAN, {"cert", "token", "none"}) ELSE AuthInit({NoAuth}, {TRUE}, {"cert"})

Exec(A) == part = "exec" /\ A /\ UNCHANGED <<part, codecVars, pfVars, logVars, authVars>>
Forward(A) == part = "portForward" /\ A /\ UNCHANGED <<part, codecVars, execVars, logVars, authVars>>
Log(A) == part = "log" /\ A /\ UNCHANGED <<part, codecVars, execVars, pfVars, authVars>>
Gate(A) == part = "gate" /\ A /\ UNCHANGED <<part, codecVars, execVars, pfVars, logVars>>

Next == Exec(ExecNext) \/ Forward(PfNext) \/ Log(LogNext) \/ Gate(AuthNext)

\* The tasks of the sessions are scheduled, reads time out, calls of the
\* runtime return, and a loop that can see its client gone does so.
Spec ==
  /\ Init /\ [][Next]_vars
  /\ WF_vars(Exec(SessionSteps))
  /\ WF_vars(Forward(LoopSteps)) /\ WF_vars(Forward(Close))

----------------------------------------------------------------------------
\* In no span of one window does the limiter let through more than its number
\* of requests of one user, however they are spread and however the requests
\* overlap in their reviews.
RateBounded ==
  \A u \in Users, t \in 0 .. MaxNow :
    Cardinality({r \in Requests : passed[r] \in t .. t + Window /\ req[r].user = u}) <= MaxEvents

TasksEnded == \A c \in Conns : task[c] \in {"none", "done"}

\* Sessions do not stay.  An exec or attach session ends when its client is
\* silent, whatever streams it has opened by then; a port-forward session ends
\* with its client, and so do its relay tasks, unless it is jammed for good
\* before its loop.
SessionsEnd ==
  /\ part = "exec" ~> epc \in {"closed", "rejected"}
  /\ part = "portForward" /\ gone ~> (ppc = "closed" /\ TasksEnded) \/ []ConnectJam
=============================================================================
