----------------------------- MODULE PortForward -----------------------------
(***************************************************************************)
(* One port-forward session, over SPDY or over a WebSocket: connections to *)
(* the pod's ports, a task per connection that relays what the port sends  *)
(* through one bounded queue, and the loop that serves the queue and the   *)
(* client.  The client and the pod's servers are external.                 *)
(***************************************************************************)
EXTENDS Naturals, Sequences, SequencesExt, FiniteSets

CONSTANTS
  Ports,      \* how many ports a WebSocket client asks for, or SPDY streams it opens
  RelayMax,   \* capacity of the relay queue (256 in the code)
  MaxChunks   \* bound: chunks per direction and connection

ASSUME PortForwardAssumption == Ports \in Nat /\ RelayMax \in Nat /\ MaxChunks \in Nat

Conns == 1 .. Ports

VARIABLES
  pfTransport, \* "spdy", "ws" or, to be rejected, "other"
  freshCodec,  \* SPDY: the client compresses each header block on its own
  ppc,         \* "request", "lookup", "connect" (WebSocket only), "loop" or "closed"
  next,        \* the port or stream that comes next
  sock,        \* state of each connection: "none", "open" or "failed"
  task,        \* its relay task: "none", "read", "send" or "done"
  backend,     \* chunks its port has sent
  relay,       \* the relay queue: <<connection, chunk>>, chunk 0 for an error
  got,         \* what the client got, in order
  asked,       \* chunks the client has sent to each connection
  wrote,       \* what was written to each connection
  half,        \* a frame of the client is half read: its connection, or 0
  torn,        \* bytes of the client were lost
  gone         \* the client has closed the session or is unreachable

pfVars == <<pfTransport, freshCodec, ppc, next, sock, task, backend, relay, got, asked, wrote, half, torn, gone>>

PfTypeOK ==
  /\ ppc \in {"request", "lookup", "connect", "loop", "closed"}
  /\ next \in 1 .. Ports + 1
  /\ sock \in [Conns -> {"none", "open", "failed"}]
  /\ task \in [Conns -> {"none", "read", "send", "done"}]
  /\ Len(relay) <= RelayMax
  /\ half \in 0 .. Ports /\ torn \in BOOLEAN /\ gone \in BOOLEAN

PfInit(T) ==
  /\ pfTransport \in T
  /\ freshCodec \in BOOLEAN
  /\ pfTransport # "spdy" => ~freshCodec
  /\ ppc = "request"
  /\ next = 1
  /\ sock = [c \in Conns |-> "none"]
  /\ task = [c \in Conns |-> "none"]
  /\ backend = [c \in Conns |-> 0]
  /\ relay = <<>> /\ got = <<>>
  /\ asked = [c \in Conns |-> 0]
  /\ wrote = [c \in Conns |-> <<>>]
  /\ half = 0 /\ torn = FALSE /\ gone = FALSE

----------------------------------------------------------------------------
\* The channels of a port over a WebSocket, numbered with a u8
DataChannel(c) == ((c - 1) % 256) * 2 % 256
ErrChannel(c) == DataChannel(c) + 1

\* What becomes of the session's end: the relay tasks are aborted.
EndSession ==
  /\ ppc' = "closed"
  /\ task' = [c \in Conns |-> IF task[c] = "none" THEN "none" ELSE "done"]

\* The handler of the router: a WebSocket, else SPDY, else rejected.
DispatchForward ==
  /\ ppc = "request"
  /\ ppc' = IF pfTransport = "other" THEN "closed" ELSE "lookup"
  /\ UNCHANGED <<pfTransport, freshCodec, next, sock, task, backend, relay, got, asked, wrote, half, torn, gone>>

\* resolve_pod_ip and the pod's record: either may be missing.
Lookup ==
  /\ ppc = "lookup"
  /\ ppc' \in {IF pfTransport = "ws" THEN "connect" ELSE "loop", "closed"}
  /\ UNCHANGED <<pfTransport, freshCodec, next, sock, task, backend, relay, got, asked, wrote, half, torn, gone>>

\* The connection to a port, and the task that relays what it sends
Connected(c) ==
  /\ sock' = [sock EXCEPT ![c] = "open"]
  /\ task' = [task EXCEPT ![c] = "read"]

\* WebSocket: every port is connected to before the loop starts to take from
\* the relay queue.  A failure is put in that queue, and waits for room.
ConnectPort ==
  /\ ppc = "connect" /\ next <= Ports
  /\ \/ Connected(next) /\ UNCHANGED relay
     \/ /\ Len(relay) < RelayMax
        /\ sock' = [sock EXCEPT ![next] = "failed"]
        /\ relay' = Append(relay, <<ErrChannel(next), 0>>)
        /\ UNCHANGED task
  /\ next' = next + 1
  /\ UNCHANGED <<pfTransport, freshCodec, ppc, backend, got, asked, wrote, half, torn, gone>>

AllConnected ==
  /\ ppc = "connect" /\ next > Ports
  /\ ppc' = "loop"
  /\ UNCHANGED <<pfTransport, freshCodec, next, sock, task, backend, relay, got, asked, wrote, half, torn, gone>>

Channel(c) == IF pfTransport = "ws" THEN DataChannel(c) ELSE 2 * c - 1

----------------------------------------------------------------------------
\* The relay task of connection c reads from the port, ...
PortSends(c) ==
  /\ task[c] = "read" /\ backend[c] < MaxChunks
  /\ backend' = [backend EXCEPT ![c] = @ + 1]
  /\ task' = [task EXCEPT ![c] = "send"]
  /\ UNCHANGED <<pfTransport, freshCodec, ppc, next, sock, relay, got, asked, wrote, half, torn, gone>>

\* ... puts what it read in the queue when there is room, ...
RelaySend(c) ==
  /\ task[c] = "send" /\ Len(relay) < RelayMax
  /\ relay' = Append(relay, <<Channel(c), backend[c]>>)
  /\ task' = [task EXCEPT ![c] = "read"]
  /\ UNCHANGED <<pfTransport, freshCodec, ppc, next, sock, backend, got, asked, wrote, half, torn, gone>>

\* ... and ends with the connection.  An error is told over a WebSocket; over
\* SPDY the error stream is taken to be the one opened right after the data
\* stream, which at this moment is not there yet.
PortEnds(c) ==
  /\ task[c] = "read"
  /\ \/ UNCHANGED relay
     \/ pfTransport = "ws" /\ Len(relay) < RelayMax /\ relay' = Append(relay, <<ErrChannel(c), 0>>)
  /\ task' = [task EXCEPT ![c] = "done"]
  /\ UNCHANGED <<pfTransport, freshCodec, ppc, next, sock, backend, got, asked, wrote, half, torn, gone>>

\* Mutant of Outbound: the newest frame goes first.
OutboundNewest ==
  /\ ppc = "loop" /\ relay # <<>>
  /\ relay' = SubSeq(relay, 1, Len(relay) - 1)
  /\ got' = IF gone THEN got ELSE Append(got, relay[Len(relay)])
  /\ torn' = torn /\ half' = half
  /\ UNCHANGED <<pfTransport, freshCodec, ppc, next, sock, task, backend, asked, wrote, gone>>

\* The loop takes a frame from the queue.  Over SPDY this drops a read of the
\* client's next frame with the bytes it had.  A write that fails ends a
\* WebSocket session.
Outbound ==
  /\ ppc = "loop" /\ relay # <<>>
  /\ relay' = Tail(relay)
  /\ got' = IF gone THEN got ELSE Append(got, Head(relay))
  /\ torn' = (torn \/ half # 0)
  /\ half' = 0
  /\ IF gone /\ pfTransport = "ws" THEN EndSession ELSE UNCHANGED <<ppc, task>>
  /\ UNCHANGED <<pfTransport, freshCodec, next, sock, backend, asked, wrote, gone>>

\* SPDY: the client opens a stream for data.  The headers are decoded with a
\* context of their own: those of a client that goes on compressing with its
\* one context are only understood in the first frame.  A port that cannot be
\* connected to is not told of.
OpenStream ==
  /\ ppc = "loop" /\ pfTransport = "spdy" /\ ~gone /\ ~torn /\ half = 0 /\ next <= Ports
  /\ IF next = 1 \/ freshCodec
     THEN Connected(next) \/ (sock' = [sock EXCEPT ![next] = "failed"] /\ UNCHANGED task)
     ELSE UNCHANGED <<sock, task>>
  /\ next' = next + 1
  /\ UNCHANGED <<pfTransport, freshCodec, ppc, backend, relay, got, asked, wrote, half, torn, gone>>

\* The first part of a SPDY data frame has come.
ClientHalf(c) ==
  /\ ppc = "loop" /\ pfTransport = "spdy" /\ ~gone /\ half = 0
  /\ c < next /\ asked[c] < MaxChunks
  /\ half' = c
  /\ asked' = [asked EXCEPT ![c] = @ + 1]
  /\ UNCHANGED <<pfTransport, freshCodec, ppc, next, sock, task, backend, relay, got, wrote, torn, gone>>

Deliver(c, n) == wrote' = IF sock[c] = "open" THEN [wrote EXCEPT ![c] = Append(@, n)] ELSE wrote

\* The rest of it: what it was meant for is written to the connection.  Once
\* bytes are lost, what follows is read as frames it never was.
SpdyData ==
  /\ ppc = "loop" /\ half # 0
  /\ \/ ~torn /\ Deliver(half, asked[half])
     \/ torn /\ \E c \in Conns : Deliver(c, 0)
  /\ half' = 0
  /\ UNCHANGED <<pfTransport, freshCodec, ppc, next, sock, task, backend, relay, got, asked, torn, gone>>

\* A WebSocket message comes whole.  A write that fails ends the session.
WsData(c) ==
  /\ ppc = "loop" /\ pfTransport = "ws" /\ ~gone
  /\ asked[c] < MaxChunks
  /\ asked' = [asked EXCEPT ![c] = @ + 1]
  /\ \/ Deliver(c, asked[c] + 1) /\ UNCHANGED <<ppc, task>>
     \/ sock[c] = "open" /\ task[c] = "done" /\ EndSession /\ UNCHANGED wrote
  /\ UNCHANGED <<pfTransport, freshCodec, next, sock, backend, relay, got, half, torn, gone>>

\* The loop sees that the client has closed, or that it cannot be read from;
\* after lost bytes anything may look like that.
Close ==
  /\ ppc = "loop" /\ (gone \/ torn)
  /\ EndSession
  /\ UNCHANGED <<pfTransport, freshCodec, next, sock, backend, relay, got, asked, wrote, half, torn, gone>>

\* The client closes, or its connection ends.
Leave ==
  /\ ~gone /\ ppc # "closed" /\ gone' = TRUE
  /\ UNCHANGED <<pfTransport, freshCodec, ppc, next, sock, task, backend, relay, got, asked, wrote, half, torn>>

\* Steps of the session's own task
LoopSteps == DispatchForward \/ Lookup \/ ConnectPort \/ AllConnected \/ Outbound \/ SpdyData \/ Close

PfNext ==
  \/ LoopSteps
  \/ \E c \in Conns : PortSends(c) \/ RelaySend(c) \/ PortEnds(c) \/ ClientHalf(c) \/ WsData(c)
  \/ OpenStream \/ Leave

----------------------------------------------------------------------------
\* Among the frames q those of channel ch carry the chunks after a up to b, in
\* their order.
ChunksAt(q, ch) == {i \in DOMAIN q : q[i][1] = ch /\ q[i][2] # 0}
Carries(q, ch, a, b) ==
  /\ {q[i][2] : i \in ChunksAt(q, ch)} = a + 1 .. b
  /\ \A i, j \in ChunksAt(q, ch) : i < j => q[i][2] < q[j][2]

Count(n) == [i \in 1 .. n |-> i]
InHand(c) == IF task[c] = "send" THEN 1 ELSE 0
HalfRead(c) == IF half = c THEN 1 ELSE 0

\* What a port sends reaches the client on that port's channel, whole and in
\* order, the rest of it being in the queue or, the last chunk, in a task's
\* hands; and what the client sends reaches the port in order, none of it lost
\* in between, as long as no frame was torn.
RelayedInOrder ==
  \A c \in Conns :
    /\ \E n \in 0 .. backend[c] :
         /\ Carries(got, Channel(c), 0, n)
         /\ ~gone /\ ppc = "loop" => Carries(relay, Channel(c), n, backend[c] - InHand(c))
    /\ ~torn /\ sock[c] = "open" /\ ppc # "closed" => wrote[c] = Count(asked[c] - HalfRead(c))

\* The one way a session stays for good: a port cannot be connected to, and
\* the tasks of the ports before it have filled the queue nobody reads yet.
ConnectJam == ppc = "connect" /\ Len(relay) = RelayMax
=============================================================================
