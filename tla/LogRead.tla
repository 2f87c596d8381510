------------------------------- MODULE LogRead -------------------------------
(***************************************************************************)
(* A log request (collect_logs_body) while the container writes, ends and  *)
(* is started again: which lines belong to the run that is asked for is    *)
(* told by their times and the start in the pod's status.  The runtime,    *)
(* which writes the files, is external.                                    *)
(***************************************************************************)
EXTENDS Naturals, Integers, Sequences, SequencesExt

CONSTANTS
  MaxAttempts,  \* 15 in the code
  Tolerance,    \* 2 s in the code
  Skew,         \* how far a line's time may lie before the reported start
  MaxTime,      \* bound of the clock
  MaxLines,     \* bound: lines written
  Tails         \* values of tailLines, -1 for all

ASSUME LogAssumption ==
          /\ {MaxAttempts, Tolerance, Skew, MaxTime, MaxLines} \subseteq Nat
          /\ Skew <= Tolerance
          /\ Tails \subseteq Int /\ Tails # {}

VARIABLES
  clock,    \* time
  run,      \* the run of the container that writes, 0 before the first
  begun,    \* when each run began, as the runtime reports it
  log,      \* the lines in the files, in the order of the files: [run, time]
  status,   \* the container's status: "waiting", or the run it tells of
  lq,       \* the request: [ws, previous, tail, since]
  lpc,      \* "start", "scan", "answered", "refused" or "done"
  start,    \* current_started_at: the run the status told of, 0 for none
  waiting,  \* waiting_reason is set
  attempts, \* scans so far
  body,     \* the answer
  reply     \* what the client got: "none", "error" or "text"

logVars == <<clock, run, begun, log, status, lq, lpc, start, waiting, attempts, body, reply>>

LogTypeOK ==
  /\ clock \in 0 .. MaxTime /\ run \in 0 .. 2 /\ status \in 0 .. 2 /\ start \in 0 .. run
  /\ lpc \in {"start", "scan", "answered", "refused", "done"}
  /\ attempts \in 0 .. MaxAttempts
  /\ Len(log) <= MaxLines

\* An instance of Tails: all lines, none, and fewer than there may be.
FewTails == -1 .. MaxLines - 1

LogQueries == [ws : BOOLEAN, previous : BOOLEAN, tail : Tails, since : {-1, MaxTime - 1}]
OneLogQuery == CHOOSE q \in LogQueries : TRUE

LogInit(Q) ==
  /\ clock = 0 /\ run = 0
  /\ begun = [r \in 1 .. 2 |-> 0]
  /\ log = <<>>
  /\ status = 0
  /\ lq \in Q
  /\ lpc = "start" /\ start = 0 /\ waiting = FALSE /\ attempts = 0 /\ body = <<>> /\ reply = "none"

----------------------------------------------------------------------------
\* Mutant of Kept: the lines of a run begin with its start.
KeptStrict(e, from) ==
  IF from = 0 THEN TRUE
  ELSE IF lq.previous THEN e.time < begun[from] ELSE e.time >= begun[from]

\* The slice by the start of the run the status told of; no start, no slice.
Kept(e, from) ==
  IF from = 0 THEN TRUE
  ELSE IF lq.previous THEN e.time < begun[from] ELSE e.time >= begun[from] - Tolerance

Since(e) == e.time >= lq.since

\* tailLines
LastLines(s) == IF lq.tail >= 0 /\ Len(s) > lq.tail THEN SubSeq(s, Len(s) - lq.tail + 1, Len(s)) ELSE s

\* The members of s that are in S, in their order.
Among(s, S) ==
  LET upTo[n \in 0 .. Len(s)] ==
        IF n = 0 THEN <<>>
        ELSE IF s[n] \in S THEN Append(upTo[n - 1], s[n]) ELSE upTo[n - 1]
  IN  upTo[Len(s)]

\* The lines in the files that a run's slice keeps, and those asked for by time.
KeptLines(from) == {e \in ToSet(log) : Kept(e, from)}
KeptSince(from) == Among(log, {e \in KeptLines(from) : Since(e)})

\* The pod, its container and the status are looked up, once.  Where the
\* status is of a container that waits, that is kept too.  A pod or container
\* that is not known is refused.
LookUp ==
  /\ lpc = "start"
  /\ \/ /\ lpc' = "scan"
        /\ \/ start' = status /\ waiting' = (status = 0)
           \/ start' = 0 /\ waiting' = FALSE  \* no status yet
     \/ lpc' = "refused" /\ UNCHANGED <<start, waiting>>
  /\ UNCHANGED <<clock, run, begun, log, status, lq, attempts, body, reply>>

\* One attempt: all files are read anew.  Without a line it is tried again
\* after 200 ms; with no files and a container that waits it ends at once.
Scan ==
  /\ lpc = "scan"
  /\ IF KeptLines(start) # {} \/ attempts + 1 = MaxAttempts
     THEN /\ lpc' = "answered"
          /\ body' = LastLines(KeptSince(start))
     ELSE /\ lpc' = IF log = <<>> /\ waiting /\ attempts = 0 THEN "refused" ELSE "scan"
          /\ UNCHANGED body
  /\ attempts' = attempts + 1
  /\ UNCHANGED <<clock, run, begun, log, status, lq, start, waiting, reply>>

\* log_handler tells errors; log_websocket_handler just closes the socket then,
\* and sends no message where there is no text.
Reply ==
  /\ lpc \in {"answered", "refused"}
  /\ lpc' = "done"
  /\ reply' = CASE lpc = "refused" -> IF lq.ws THEN "none" ELSE "error"
               [] OTHER            -> IF lq.ws /\ body = <<>> THEN "none" ELSE "text"
  /\ UNCHANGED <<clock, run, begun, log, status, lq, start, waiting, attempts, body>>

\* The runtime starts the container, (again,) ...
StartRun ==
  /\ lpc \in {"start", "scan"} /\ run < 2 /\ clock + Skew < MaxTime
  /\ run' = run + 1
  \* the next run begins after the lines of the last one
  /\ begun' = [begun EXCEPT ![run + 1] = clock + Skew + 1]
  /\ clock' = clock + 1
  /\ UNCHANGED <<log, status, lq, lpc, start, waiting, attempts, body, reply>>

\* ... it writes a line, whose time may lie a little before that start, ...
WriteLine ==
  /\ lpc \in {"start", "scan"} /\ run > 0 /\ Len(log) < MaxLines
  /\ log' = Append(log, [run |-> run, time |-> clock])
  /\ UNCHANGED <<clock, run, begun, status, lq, lpc, start, waiting, attempts, body, reply>>

\* ... time goes on, and a sync of the pod reports the run.
Tick ==
  /\ lpc \in {"start", "scan"} /\ clock < MaxTime
  /\ clock' = clock + 1
  /\ UNCHANGED <<run, begun, log, status, lq, lpc, start, waiting, attempts, body, reply>>

Report ==
  /\ lpc \in {"start", "scan"} /\ status # run
  /\ status' = run
  /\ UNCHANGED <<clock, run, begun, log, lq, lpc, start, waiting, attempts, body, reply>>

LogNext == LookUp \/ Scan \/ Reply \/ StartRun \/ WriteLine \/ Tick \/ Report

----------------------------------------------------------------------------
\* The lines of the run asked for, or of the runs before it
Wanted ==
  Among(log, {e \in ToSet(log) : Since(e) /\ IF lq.previous THEN e.run < start ELSE e.run >= start})

\* No line of the run that is asked for is missing from the answer, nor is any
\* out of order: the end of the answer, as long as was asked for, is made of
\* the lines wanted, though the times of a run's first lines may lie before
\* its start and the container may be started again between two attempts.
LogsComplete ==
  lpc = "done" /\ reply = "text" /\ start # 0 =>
    /\ \A e \in ToSet(body) : Since(e)
    /\ lq.tail = -1 => \A i \in DOMAIN Wanted : Contains(body, Wanted[i])
    /\ body # <<>> /\ ~lq.previous /\ Wanted # <<>> => Last(body) = Last(Wanted)
    /\ IsSuffix(body, KeptSince(start))
=============================================================================
