------------------------------ MODULE ExecStream ------------------------------
(***************************************************************************)
(* One exec or attach session of the streaming server, over SPDY or over a *)
(* WebSocket, once the request is authorized: the streams are agreed on,   *)
(* the command runs to its end, and its output and outcome are sent back.  *)
(* The client and the runtime are external.                                *)
(***************************************************************************)
EXTENDS Naturals, Sequences, SequencesExt

CONSTANTS
  MaxFrames,     \* bound: frames the client sends
  MaxContainers  \* bound: containers that run one after the other

\* "data" does to a session what "stdin" does: nothing looks at either.
Kinds == {"stdin", "stdout", "stderr", "error", "resize"}
Nothing == "nothing"
NoResult == [code |-> 0, exit |-> 0, stdout |-> FALSE, stderr |-> FALSE]

VARIABLES
  query,     \* [upgrade, sub, stdout, stderr, legacy]
  transport, \* "spdy" or "ws", once it is chosen
  epc,       \* where the session is
  streams,   \* stream_map: the kinds of stream that are open
  fallback,  \* fallback_idx
  waits,     \* error_only_timeouts
  frames,    \* frames read so far
  live,      \* the container that runs now, 0 for none
  lastLive,  \* the newest container there was
  target,    \* the container the command runs in
  result,    \* [code, exit, stdout, stderr]; code 0 before there is one
  runs,      \* how often it was run
  toSend,    \* frames still to be written
  out,       \* frames the client got, without SYN_REPLY and PING
  conn,      \* the client is there
  finished   \* calls of streaming_session_finished

execVars == <<query, transport, epc, streams, fallback, waits, frames, live, lastLive,
              target, result, runs, toSend, out, conn, finished>>

ExecTypeOK ==
  /\ epc \in {"request", "rejected", "start", "negotiate", "decide", "drain", "find", "exec", "send", "closed"}
  /\ streams \subseteq Kinds
  /\ fallback \in Nat /\ waits \in 0 .. 2 /\ frames \in 0 .. MaxFrames
  /\ live \in 0 .. MaxContainers /\ lastLive \in 0 .. MaxContainers
  /\ conn \in BOOLEAN /\ finished \in Nat /\ runs \in Nat

\* The requests there may be, and one of them
Queries ==
  {q \in [upgrade : {"spdy/3.1", "websocket", "other"}, sub : {"exec", "attach"}, stdout : BOOLEAN, stderr : BOOLEAN, legacy : BOOLEAN] :
     IF q.upgrade = "spdy/3.1" THEN ~q.legacy ELSE q.stdout /\ q.stderr}
OneQuery == CHOOSE q \in Queries : q.upgrade = "websocket"

ExecInit(Q) ==
  /\ query \in Q
  /\ transport = Nothing
  /\ epc = "request"
  /\ streams = {}
  /\ fallback = 0 /\ waits = 0 /\ frames = 0
  /\ live = 1 /\ lastLive = 1
  /\ target = 0
  /\ result = NoResult /\ runs = 0
  /\ toSend = <<>> /\ out = <<>>
  /\ conn = TRUE /\ finished = 0

----------------------------------------------------------------------------
Output == <<"output", 0>>
CloseMark == <<"close", 0>>
GoAwayMark == <<"goAway", 0>>

Msg(stream, what) == [stream |-> stream, what |-> what]
GoAway == Msg("session", GoAwayMark)

Open(kind) == kind \in streams

\* find_container_id_async: the newest container of that name that runs.  A
\* listing that fails finds none.
FindContainer == {live, 0}

\* failure_status_payload and exit_status_payload
Failure(code) == <<"failure", code>>
ExitStatus(exit) == IF exit = 0 THEN <<"success", 200>> ELSE <<"exit", exit>>

Part(on, m) == IF on THEN <<m>> ELSE <<>>

\* Mutant of SendExecResultSpdy: the status comes first.
StatusFirst(r) ==
  <<Msg("error", ExitStatus(r.exit))>> \o Part(Open("stdout") /\ r.stdout, Msg("stdout", Output))

\* send_exec_result_spdy: output on the streams that are open, then the status.
SendExecResultSpdy(r) ==
  Part(Open("stdout") /\ r.stdout, Msg("stdout", Output))
    \o Part(Open("stderr") /\ r.stderr, Msg("stderr", Output))
    \o Part(Open("error"), Msg("error", ExitStatus(r.exit)))

\* send_exec_result_ws: the old protocols know no status of success and no
\* STREAM_CLOSE.
SendExecResultWs(r) ==
  Part(r.stdout, Msg("stdout", Output))
    \o Part(r.stderr, Msg("stderr", Output))
    \o Part(~query.legacy \/ r.exit # 0, Msg("error", ExitStatus(r.exit)))
    \o IF query.legacy THEN <<>> ELSE <<Msg("stdout", CloseMark), Msg("stderr", CloseMark), Msg("error", CloseMark)>>

----------------------------------------------------------------------------
\* Which transport an upgrade asks for: a WebSocket, else SPDY, else none.
TransportOf(upgrade) ==
  CASE upgrade = "websocket" -> "ws" [] upgrade = "spdy/3.1" -> "spdy" [] OTHER -> Nothing

\* A handler of the router: the path may name the container, the query wins.
Dispatch ==
  /\ epc = "request"
  /\ transport' = TransportOf(query.upgrade)
  /\ epc' = IF transport' = Nothing THEN "rejected" ELSE "start"
  /\ UNCHANGED <<query, streams, fallback, waits, frames, live, lastLive, target, result, runs, toSend, out, conn, finished>>

\* The session starts.  SPDY: the streams are negotiated (a container is looked
\* up too, for resize events, of which only its terminal takes note).
\* WebSocket: attach looks its container up and takes resize events for a
\* while, exec runs at once.
StartSpdy ==
  /\ epc = "start" /\ transport = "spdy"
  /\ epc' = "negotiate"
  /\ UNCHANGED <<query, transport, streams, fallback, waits, frames, live, lastLive, target, result, runs, toSend, out, conn, finished>>

StartWs ==
  /\ epc = "start" /\ transport = "ws"
  /\ \/ /\ query.sub = "exec"
        /\ epc' = "find"
        /\ UNCHANGED <<toSend, finished>>
     \/ /\ query.sub = "attach"
        /\ \E c \in FindContainer :
             /\ epc' = IF c = 0 THEN "send" ELSE "drain"
             /\ toSend' = Part(c = 0, Msg("error", Failure(404)))
             /\ finished' = IF c = 0 THEN finished + 1 ELSE finished
  /\ UNCHANGED <<query, transport, streams, fallback, waits, frames, live, lastLive, target, result, runs, out, conn>>

\* The condition of the negotiation loop
StreamsMissing ==
  \/ ~Open("error")
  \/ query.stdout /\ ~Open("stdout")
  \/ query.stderr /\ ~Open("stderr")

Negotiating == epc = "negotiate" /\ StreamsMissing

Read == conn /\ frames < MaxFrames /\ frames' = frames + 1

FallbackOrder == <<"error", "stdin", "stdout", "stderr", "resize">>

\* SYN_STREAM: the kind is in the headers, or goes by the order.  A stream of
\* a kind that is there takes its place.  A SYN_REPLY answers each.
Syn ==
  /\ Negotiating /\ Read
  /\ \E header \in Kinds \cup {Nothing} :
       LET byOrder == header = Nothing
           kind    == IF ~byOrder THEN header
                      ELSE IF fallback < Len(FallbackOrder) THEN FallbackOrder[fallback + 1] ELSE Nothing
       IN  /\ fallback' = IF byOrder THEN fallback + 1 ELSE fallback
           /\ streams' = streams \cup ({kind} \ {Nothing})
  /\ waits' = 0
  /\ UNCHANGED <<query, transport, epc, live, lastLive, target, result, runs, toSend, out, conn, finished>>

\* PING is sent back; data matters on the resize stream only; a SYN_REPLY is
\* passed over.
OtherFrame ==
  /\ Negotiating /\ Read
  /\ waits' = 0
  /\ UNCHANGED <<query, transport, epc, streams, fallback, live, lastLive, target, result, runs, toSend, out, conn, finished>>

\* GOAWAY or RST_STREAM ends the negotiation with what is there.
Terminate ==
  /\ Negotiating /\ Read
  /\ epc' = "decide"
  /\ waits' = 0
  /\ UNCHANGED <<query, transport, streams, fallback, live, lastLive, target, result, runs, toSend, out, conn, finished>>

OnlyError == streams = {"error"}

\* Mutant of ReadTimeout: a session that has only its error stream waits on.
TimeoutForever ==
  /\ Negotiating
  /\ epc' = IF OnlyError THEN epc ELSE "decide"
  /\ waits' = waits
  /\ UNCHANGED <<query, transport, streams, fallback, frames, live, lastLive, target, result, runs, toSend, out, conn, finished>>

\* Nothing came in time, or the connection ended.  With the error stream alone
\* it is tried twice more.
ReadTimeout ==
  /\ Negotiating
  /\ \/ OnlyError /\ waits < 2 /\ waits' = waits + 1 /\ epc' = epc
     \/ ~(OnlyError /\ waits < 2) /\ epc' = "decide" /\ waits' = waits
  /\ UNCHANGED <<query, transport, streams, fallback, frames, live, lastLive, target, result, runs, toSend, out, conn, finished>>

\* Without a stream for stdout nothing is run, and the error stream says so.
Decide ==
  /\ epc = "decide" \/ (epc = "negotiate" /\ ~StreamsMissing)
  /\ \/ /\ Open("stdout")
        /\ epc' = "find"
        /\ UNCHANGED <<toSend, finished>>
     \/ /\ ~Open("stdout")
        /\ epc' = "send"
        /\ toSend' = Part(Open("error"), Msg("error", Failure(500))) \o <<GoAway>>
        /\ finished' = finished + 1
  /\ UNCHANGED <<query, transport, streams, fallback, waits, frames, live, lastLive, target, result, runs, out, conn>>

\* handle_attach_ws takes frames, resize events among them, until none comes
\* for 25 ms or the socket fails.
Drain ==
  /\ epc = "drain"
  /\ \/ Read /\ epc' = epc
     \/ epc' = "find" /\ UNCHANGED frames
  /\ UNCHANGED <<query, transport, streams, fallback, waits, live, lastLive, target, result, runs, toSend, out, conn, finished>>

\* The error of the run, as it is sent
ErrorFrames(code) ==
  IF transport = "ws" THEN <<Msg("error", Failure(code))>>
  ELSE Part(Open("error"), Msg("error", Failure(code))) \o <<GoAway>>

Fail(code) ==
  /\ result' = [NoResult EXCEPT !.code = code]
  /\ toSend' = ErrorFrames(code)
  /\ epc' = "send"
  /\ finished' = finished + 1

\* run_exec_core and run_attach_core: the container is looked up (again), ...
Find ==
  /\ epc = "find"
  /\ \E c \in FindContainer :
       /\ target' = c
       /\ \/ c = 0 /\ Fail(404)
          \/ c # 0 /\ epc' = "exec" /\ UNCHANGED <<result, toSend, finished>>
  /\ UNCHANGED <<query, transport, streams, fallback, waits, frames, live, lastLive, runs, out, conn>>

\* ... and the call of the runtime, which may find it gone by then, returns
\* within 30 s.  The result is sent.
ExecSync ==
  /\ epc = "exec"
  /\ \/ /\ Fail(500)
        /\ runs' \in {runs, runs + 1}
     \/ /\ live = target
        /\ runs' = runs + 1
        /\ \E r \in [code : {200}, exit : 0 .. 1, stdout : BOOLEAN, stderr : BOOLEAN] :
             /\ result' = r
             /\ toSend' = IF transport = "ws" THEN SendExecResultWs(r) ELSE SendExecResultSpdy(r) \o <<GoAway>>
        /\ epc' = "send"
        /\ finished' = finished + 1
  /\ UNCHANGED <<query, transport, streams, fallback, waits, frames, live, lastLive, target, out, conn>>

\* A write that fails loses the frame: SPDY goes on regardless, the WebSocket
\* gives up, with the same effect.
Send ==
  /\ epc = "send"
  /\ \/ /\ toSend # <<>>
        /\ toSend' = Tail(toSend)
        /\ out' = IF conn THEN Append(out, Head(toSend)) ELSE out
        /\ epc' = epc
     \/ /\ toSend = <<>>
        /\ epc' = "closed"
        /\ UNCHANGED <<toSend, out>>
  /\ UNCHANGED <<query, transport, streams, fallback, waits, frames, live, lastLive, target, result, runs, conn, finished>>

SessionSteps ==
  \/ Dispatch \/ StartSpdy \/ StartWs \/ Syn \/ OtherFrame \/ Terminate
  \/ ReadTimeout \/ Decide \/ Drain \/ Find \/ ExecSync \/ Send

\* The client goes away; the container ends and another one is started.
Hangup ==
  /\ conn /\ epc \notin {"request", "rejected", "closed"} /\ conn' = FALSE
  /\ UNCHANGED <<query, transport, epc, streams, fallback, waits, frames, live, lastLive, target, result, runs, toSend, out, finished>>

Restart ==
  /\ epc \notin {"request", "rejected", "closed"}
  /\ \/ live # 0 /\ live' = 0 /\ lastLive' = lastLive
     \/ live = 0 /\ lastLive < MaxContainers /\ live' = lastLive + 1 /\ lastLive' = lastLive + 1
  /\ UNCHANGED <<query, transport, epc, streams, fallback, waits, frames, target, result, runs, toSend, out, conn, finished>>

ExecNext == SessionSteps \/ Hangup \/ Restart

----------------------------------------------------------------------------
\* Where the frames q tell an outcome, and what they hold behind the i-th
StatusAt(q) == {i \in DOMAIN q : q[i].stream = "error" /\ q[i].what # CloseMark}
After(q, i) == {q[j].what : j \in {k \in DOMAIN q : k > i}}

\* What the client is to be told at the end
Told ==
  CASE result.code = 0   -> IF transport = "ws" THEN Failure(404) ELSE Failure(500)
    [] result.code = 200 -> ExitStatus(result.exit)
    [] OTHER             -> Failure(result.code)

\* The frames q tell it, once, and have nothing but the end of the session
\* behind it. The old WebSocket protocols alone stay silent on success.
Tells(q) ==
  \/ query.legacy /\ Told = <<"success", 200>> /\ StatusAt(q) = {}
  \/ \E i \in DOMAIN q : StatusAt(q) = {i} /\ q[i].what = Told /\ After(q, i) \subseteq {GoAwayMark, CloseMark}

\* A session that ends with its client still there has told it the outcome of
\* what was run on the error stream, after all of the output: also when no
\* container was found, the runtime failed or the streams were not agreed on.
\* A command is never run twice and the session is counted as finished once.
OutcomeIsTold ==
  epc = "closed" =>
    /\ runs <= 1 /\ finished = 1
    /\ conn /\ (transport = "ws" \/ Open("error")) => Tells(out)
=============================================================================
