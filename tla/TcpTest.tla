------------------------------- MODULE TcpTest -------------------------------
(***************************************************************************)
(* A TCP throughput test of rperf3: Client::run_tcp against the handler    *)
(* task handle_tcp_client that Server::run_tcp spawns for the connection.  *)
(*                                                                         *)
(* One TCP connection carries the control frames of protocol.rs AND the    *)
(* bulk data of the test, so the two directions of a connection are FIFO   *)
(* sequences of chunks: a chunk is one length-prefixed frame or one        *)
(* buffer of test data ("Bulk").  Each end runs its own timer, the handler *)
(* does not look at any cancellation token, and either end may go away.    *)
(* All handlers of a server record into one MeasurementsCollector.         *)
(*                                                                         *)
(* The kernel is modelled as it is used: a read returns a prefix of what   *)
(* is queued, a write blocks when SockBuf chunks are queued, closing an    *)
(* end with unread input resets the connection, and a reset may discard    *)
(* what the other end has not read yet.                                    *)
(***************************************************************************)
EXTENDS Naturals, Sequences

CONSTANTS
  Clients,   \* the clients that run one test each against the server
  Choices,   \* the sets of clients that may be started with --reverse
  MaxBulk,   \* bound: buffers one sender writes before its time is up
  SockBuf    \* chunks the kernel queues in one direction of a connection

ASSUME ChoicesAssumption == Choices \subseteq SUBSET Clients
ASSUME BoundsAssumption  == MaxBulk \in Nat /\ SockBuf \in Nat \ {0}

VARIABLES
  reverse,    \* the clients whose Setup asks the server to send
  listening,  \* the accept loop of Server::run_tcp is running
  cpc,        \* where Client::run_tcp is, per client
  spc,        \* where handle_tcp_client is, per connection
  c2s, s2c,   \* the chunks queued in each direction of a connection
  reset,      \* the connection was reset
  cTimeUp,    \* start.elapsed() >= duration in the client's loop
  sTimeUp,    \* start.elapsed() >= duration in the handler's loop
  cancelled,  \* the client's CancellationToken
  cBytes,     \* what the client's own collector counts for its stream
  hBytes,     \* what the handler of this connection recorded (history)
  collector,  \* stream 0 of the collector that all handlers share
  outcome,    \* what the client read after the data phase (history)
  granted     \* the connections on which Start was sent (history)

vars == <<reverse, listening, cpc, spc, c2s, s2c, reset, cTimeUp, sTimeUp, cancelled,
          cBytes, hBytes, collector, outcome, granted>>

-----------------------------------------------------------------------------
(* Chunks                                                                  *)

Frame(t) == [type |-> t]
Bulk     == Frame("Bulk")

FrameType  == {"Setup", "SetupAck", "Start", "Done", "Bulk"}
ResultMsg(s, r) == [type |-> "Result", sent |-> s, received |-> r]
Chunk == [type : FrameType] \cup [type : {"Result"}, sent : Nat, received : Nat]

\* deserialize_message on what is queued.  The buffers of the test are zeroes,
\* so at a Bulk chunk the length prefix is 0 and the empty body is no message:
\* an error that eats four bytes and leaves the rest of the buffer queued.
Undecodable == Frame("Error")
Decoded(q)  == IF q = <<>> \/ Head(q) = Bulk THEN Undecodable ELSE Head(q)
Undecoded(q) == IF q = <<>> \/ Head(q) = Bulk THEN q ELSE Tail(q)

\* What a read of n chunks leaves queued.
Rest(q, n) == SubSeq(q, n + 1, Len(q))

\* The kernel takes a write.
HasRoom(q) == Len(q) < SockBuf

Prefixes(q) == {SubSeq(q, 1, n) : n \in 0 .. Len(q)}

-----------------------------------------------------------------------------
(* The two ends                                                            *)

ClientDone   == {"completed", "failed", "aborted"}
HandlerDone  == {"closed", "failed", "killed", "refused"}
ClientPC  == {"idle", "setup", "ack", "start", "data", "io", "result", "done"}
               \cup ClientDone
HandlerPC == {"none", "backlog", "setup", "ack", "start", "data", "io",
              "result", "done", "closing"} \cup HandlerDone

ClientGone(c)  == cpc[c] \in ClientDone
HandlerGone(c) == spc[c] \in HandlerDone

\* The client's stream is dropped: input it never read resets the connection.
ClientCloses(c, unread) ==
  IF unread # <<>> /\ ~reset[c]
    THEN /\ reset' = [reset EXCEPT ![c] = TRUE]
         /\ s2c'   = [s2c EXCEPT ![c] = <<>>]
         /\ \E q \in Prefixes(c2s[c]) : c2s' = [c2s EXCEPT ![c] = q]
    ELSE /\ s2c' = [s2c EXCEPT ![c] = <<>>]
         /\ UNCHANGED <<reset, c2s>>

\* The same for the handler's stream, dropped when the task returns.
HandlerCloses(c, unread) ==
  IF unread # <<>> /\ ~reset[c]
    THEN /\ reset' = [reset EXCEPT ![c] = TRUE]
         /\ c2s'   = [c2s EXCEPT ![c] = <<>>]
         /\ \E q \in Prefixes(s2c[c]) : s2c' = [s2c EXCEPT ![c] = q]
    ELSE /\ c2s' = [c2s EXCEPT ![c] = <<>>]
         /\ UNCHANGED <<reset, s2c>>

\* A write that the kernel takes: queued when the peer is there, answered by a
\* reset when the peer has gone.
ClientWrites(c, chunk) ==
  /\ ~reset[c]
  /\ IF HandlerGone(c)
       THEN /\ reset' = [reset EXCEPT ![c] = TRUE]
            /\ \E q \in Prefixes(s2c[c]) : s2c' = [s2c EXCEPT ![c] = q]
            /\ UNCHANGED c2s
       ELSE /\ HasRoom(c2s[c])
            /\ c2s' = [c2s EXCEPT ![c] = Append(@, chunk)]
            /\ UNCHANGED <<reset, s2c>>

HandlerWrites(c, chunk) ==
  /\ ~reset[c]
  /\ IF ClientGone(c)
       THEN /\ reset' = [reset EXCEPT ![c] = TRUE]
            /\ \E q \in Prefixes(c2s[c]) : c2s' = [c2s EXCEPT ![c] = q]
            /\ UNCHANGED s2c
       ELSE /\ HasRoom(s2c[c])
            /\ s2c' = [s2c EXCEPT ![c] = Append(@, chunk)]
            /\ UNCHANGED <<reset, c2s>>

\* read_exact returns: with bytes, at end of stream, or with the reset.
ClientCanRead(c)  == s2c[c] # <<>> \/ HandlerGone(c) \/ reset[c]
HandlerCanRead(c) == c2s[c] # <<>> \/ ClientGone(c) \/ reset[c]

-----------------------------------------------------------------------------
(* Client::run_tcp                                                         *)

clientRest  == <<reverse, listening, spc, sTimeUp, hBytes, collector, granted>>
clientTimer == <<cTimeUp, cancelled>>

GoTo(c, pc) == cpc' = [cpc EXCEPT ![c] = pc]

\* TcpStream::connect: the connection waits in the backlog for accept; with no
\* listener it is refused and run() returns the error.
ClientConnect(c) ==
  /\ cpc[c] = "idle"
  /\ IF listening
       THEN GoTo(c, "setup") /\ spc' = [spc EXCEPT ![c] = "backlog"]
       ELSE GoTo(c, "failed") /\ UNCHANGED spc
  /\ UNCHANGED <<reverse, listening, c2s, s2c, reset, cTimeUp, sTimeUp, cancelled,
                 cBytes, hBytes, collector, outcome, granted>>

ClientFails(c, unread) ==
  /\ GoTo(c, "failed")
  /\ ClientCloses(c, unread)
  /\ UNCHANGED <<clientRest, clientTimer, cBytes, outcome>>

ClientSendSetup(c) ==
  /\ cpc[c] = "setup"
  /\ \/ /\ ClientWrites(c, Frame("Setup"))
        /\ GoTo(c, "ack")
        /\ UNCHANGED <<clientRest, clientTimer, cBytes, outcome>>
     \/ reset[c] /\ ClientFails(c, s2c[c])

\* Both handshake reads: the expected frame moves the client on, any other
\* message, an undecodable one or the end of the stream is an Err.
ClientExpects(c, type, pc) ==
  /\ ClientCanRead(c)
  /\ IF Decoded(s2c[c]).type = type
       THEN /\ s2c' = [s2c EXCEPT ![c] = Tail(@)]
            /\ GoTo(c, pc)
            /\ UNCHANGED <<clientRest, clientTimer, c2s, reset, cBytes, outcome>>
       ELSE ClientFails(c, Undecoded(s2c[c]))

FaultReadAck(c)    == cpc[c] = "ack"   /\ ClientExpects(c, "SetupAck", "data")
ClientReadAck(c)   == cpc[c] = "ack"   /\ ClientExpects(c, "SetupAck", "start")
ClientReadStart(c) == cpc[c] = "start" /\ ClientExpects(c, "Start", "data")

\* The head of the loop of send_data and receive_data: the clock, then the
\* token.  A sender that wrote MaxBulk buffers can only run out of time.
MayGoOn(c) == ~cTimeUp[c] /\ ~cancelled[c]

ClientLoops(c) ==
  /\ cpc[c] = "data"
  /\ MayGoOn(c)
  /\ c \in reverse \/ cBytes[c] < MaxBulk
  /\ GoTo(c, "io")
  /\ UNCHANGED <<clientRest, clientTimer, c2s, s2c, reset, cBytes, outcome>>

\* Leaving the loop: reporter.complete(), set_duration, and on to the results.
ClientLeavesLoop(c) ==
  /\ \/ cpc[c] = "data" /\ ~MayGoOn(c)
     \/ cpc[c] = "io" /\ c \in reverse /\ s2c[c] = <<>>
          /\ (HandlerGone(c) \/ reset[c])               \* Ok(0) or Err
     \/ cpc[c] = "io" /\ c \notin reverse /\ reset[c]   \* Err
  /\ GoTo(c, "result")
  /\ UNCHANGED <<clientRest, clientTimer, c2s, s2c, reset, cBytes, outcome>>

\* send_data: stream.write without a timeout, counted by record_bytes_sent.
ClientSendsBulk(c) ==
  /\ cpc[c] = "io" /\ c \notin reverse
  /\ ClientWrites(c, Bulk)
  /\ cBytes' = [cBytes EXCEPT ![c] = @ + 1]
  /\ GoTo(c, "data")
  /\ UNCHANGED <<clientRest, clientTimer, outcome>>

\* receive_data: stream.read takes whatever is queued, up to its buffer, and
\* record_bytes_received counts all of it.
ClientReadsBulk(c) ==
  /\ cpc[c] = "io" /\ c \in reverse
  /\ \E n \in 1 .. Len(s2c[c]) :
       /\ s2c' = [s2c EXCEPT ![c] = Rest(@, n)]
       /\ cBytes' = [cBytes EXCEPT ![c] = @ + n]
  /\ GoTo(c, "data")
  /\ UNCHANGED <<clientRest, clientTimer, c2s, reset, outcome>>

\* receive_data: 100 ms without data, back to the head of the loop.  read() is
\* safe to drop; a read_exact() would take along what it had read so far.
FaultClientReadTimesOut(c) ==
  /\ cpc[c] = "io" /\ c \in reverse
  /\ s2c' = [s2c EXCEPT ![c] = <<>>]
  /\ GoTo(c, "data")
  /\ UNCHANGED <<clientRest, clientTimer, c2s, reset, cBytes, outcome>>

ClientReadTimesOut(c) ==
  /\ cpc[c] = "io" /\ c \in reverse
  /\ ~ClientCanRead(c)
  /\ GoTo(c, "data")
  /\ UNCHANGED <<clientRest, clientTimer, c2s, s2c, reset, cBytes, outcome>>

\* The two reads after the data phase: whatever comes back is accepted.
ClientReadResult(c) ==
  /\ cpc[c] = "result"
  /\ ClientCanRead(c)
  /\ s2c' = [s2c EXCEPT ![c] = Undecoded(@)]
  /\ outcome' = [outcome EXCEPT ![c].result = Decoded(s2c[c])]
  /\ GoTo(c, "done")
  /\ UNCHANGED <<clientRest, clientTimer, c2s, reset, cBytes>>

\* The second read, then TestCompleted and Ok: the stream is dropped.
ClientReadDone(c) ==
  /\ cpc[c] = "done"
  /\ ClientCanRead(c)
  /\ outcome' = [outcome EXCEPT ![c].done = Decoded(s2c[c])]
  /\ GoTo(c, "completed")
  /\ ClientCloses(c, Undecoded(s2c[c]))
  /\ UNCHANGED <<clientRest, clientTimer, cBytes>>

ClientStep(c) ==
  \/ ClientConnect(c)     \/ ClientSendSetup(c)  \/ ClientReadAck(c)
  \/ ClientReadStart(c)   \/ ClientLoops(c)      \/ ClientLeavesLoop(c)
  \/ ClientSendsBulk(c)   \/ ClientReadsBulk(c)  \/ ClientReadTimesOut(c)
  \/ ClientReadResult(c)  \/ ClientReadDone(c)

ClientTimeUp(c) ==
  /\ cpc[c] \in {"data", "io"} /\ ~cTimeUp[c]
  /\ cTimeUp' = [cTimeUp EXCEPT ![c] = TRUE]
  /\ UNCHANGED <<clientRest, cpc, c2s, s2c, reset, cancelled, cBytes, outcome>>

ClientCancel(c) ==
  /\ ~ClientGone(c) /\ ~cancelled[c]
  /\ cancelled' = [cancelled EXCEPT ![c] = TRUE]
  /\ UNCHANGED <<clientRest, cpc, c2s, s2c, reset, cTimeUp, cBytes, outcome>>

\* The future of run() is dropped (a timeout around it, Ctrl-C): the stream is
\* closed wherever the client was.
ClientAborts(c) ==
  /\ cpc[c] # "idle" /\ ~ClientGone(c)
  /\ GoTo(c, "aborted")
  /\ ClientCloses(c, s2c[c])
  /\ UNCHANGED <<clientRest, clientTimer, cBytes, outcome>>

-----------------------------------------------------------------------------
(* Server::run_tcp and handle_tcp_client                                   *)

handlerRest  == <<reverse, listening, cpc, cTimeUp, cancelled, cBytes, outcome>>
handlerState == <<sTimeUp, hBytes, collector, granted>>

HandlerGoTo(c, pc) == spc' = [spc EXCEPT ![c] = pc]

HandlerFails(c, unread) ==
  /\ HandlerGoTo(c, "failed")
  /\ HandlerCloses(c, unread)
  /\ UNCHANGED <<handlerRest, handlerState>>

ServerAccept(c) ==
  /\ listening
  /\ spc[c] = "backlog"
  /\ HandlerGoTo(c, "setup")
  /\ UNCHANGED <<handlerRest, c2s, s2c, reset, handlerState>>

HandlerReadSetup(c) ==
  /\ spc[c] = "setup"
  /\ HandlerCanRead(c)
  /\ IF Decoded(c2s[c]).type = "Setup"
       THEN /\ c2s' = [c2s EXCEPT ![c] = Tail(@)]
            /\ HandlerGoTo(c, "ack")
            /\ UNCHANGED <<handlerRest, s2c, reset, handlerState>>
       ELSE HandlerFails(c, Undecoded(c2s[c]))

\* write_all(...).await?: the frame is queued, or the task returns the error.
HandlerSends(c, chunk, pc) ==
  \/ /\ HandlerWrites(c, chunk)
     /\ HandlerGoTo(c, pc)
     /\ UNCHANGED <<handlerRest, handlerState>>
  \/ reset[c] /\ HandlerFails(c, c2s[c])

FaultSendAck(c)   == spc[c] = "ack" /\ HandlerSends(c, Frame("Start"), "start")
HandlerSendAck(c) == spc[c] = "ack" /\ HandlerSends(c, Frame("SetupAck"), "start")

HandlerSendStart(c) ==
  /\ spc[c] = "start"
  /\ \/ /\ HandlerWrites(c, Frame("Start"))
        /\ HandlerGoTo(c, "data")
        /\ granted' = granted \cup {c}
        /\ UNCHANGED <<handlerRest, sTimeUp, hBytes, collector>>
     \/ reset[c] /\ HandlerFails(c, c2s[c])

HandlerLoops(c) ==
  /\ spc[c] = "data"
  /\ ~sTimeUp[c]
  /\ c \notin reverse \/ hBytes[c] < MaxBulk
  /\ HandlerGoTo(c, "io")
  /\ UNCHANGED <<handlerRest, c2s, s2c, reset, handlerState>>

\* The clock of the handler ends its loop, not only the client's departure.
FaultHandlerLeavesLoop(c) ==
  /\ spc[c] = "io" /\ (ClientGone(c) \/ reset[c])
  /\ HandlerGoTo(c, "result")
  /\ UNCHANGED <<handlerRest, c2s, s2c, reset, handlerState>>

HandlerLeavesLoop(c) ==
  /\ \/ spc[c] = "data" /\ sTimeUp[c]
     \/ spc[c] = "io" /\ c \notin reverse /\ c2s[c] = <<>>
          /\ (ClientGone(c) \/ reset[c])                \* Ok(0) or Err
     \/ spc[c] = "io" /\ c \in reverse /\ reset[c]      \* Err
  /\ HandlerGoTo(c, "result")
  /\ UNCHANGED <<handlerRest, c2s, s2c, reset, handlerState>>

\* send_data of a reverse test: every handler records on stream 0.
HandlerSendsBulk(c) ==
  /\ spc[c] = "io" /\ c \in reverse
  /\ HandlerWrites(c, Bulk)
  /\ hBytes' = [hBytes EXCEPT ![c] = @ + 1]
  /\ collector' = [collector EXCEPT !.sent = @ + 1]
  /\ HandlerGoTo(c, "data")
  /\ UNCHANGED <<handlerRest, sTimeUp, granted>>

\* Recording the length of the buffer instead of what was read into it.
FaultHandlerReadsBulk(c) ==
  /\ spc[c] = "io" /\ c \notin reverse /\ c2s[c] # <<>>
  /\ c2s' = [c2s EXCEPT ![c] = Tail(@)]
  /\ hBytes' = [hBytes EXCEPT ![c] = @ + 2]
  /\ collector' = [collector EXCEPT !.received = @ + 2]
  /\ HandlerGoTo(c, "data")
  /\ UNCHANGED <<handlerRest, s2c, reset, sTimeUp, granted>>

HandlerReadsBulk(c) ==
  /\ spc[c] = "io" /\ c \notin reverse
  /\ \E n \in 1 .. Len(c2s[c]) :
       /\ c2s' = [c2s EXCEPT ![c] = Rest(@, n)]
       /\ hBytes' = [hBytes EXCEPT ![c] = @ + n]
       /\ collector' = [collector EXCEPT !.received = @ + n]
  /\ HandlerGoTo(c, "data")
  /\ UNCHANGED <<handlerRest, s2c, reset, sTimeUp, granted>>

FaultHandlerReadTimesOut(c) ==
  /\ spc[c] = "io" /\ c \notin reverse
  /\ c2s' = [c2s EXCEPT ![c] = <<>>]
  /\ HandlerGoTo(c, "data")
  /\ UNCHANGED <<handlerRest, s2c, reset, handlerState>>

HandlerReadTimesOut(c) ==
  /\ spc[c] = "io" /\ c \notin reverse
  /\ ~HandlerCanRead(c)
  /\ HandlerGoTo(c, "data")
  /\ UNCHANGED <<handlerRest, c2s, s2c, reset, handlerState>>

\* With nothing recorded an empty body is sent in place of the result.
\* measurements.get().streams.first(): stream 0 exists once any handler has
\* recorded on it, and its bytes are those of every handler so far.
HandlerSendResult(c) ==
  /\ spc[c] = "result"
  /\ IF collector.sent + collector.received > 0
       THEN HandlerSends(c, ResultMsg(collector.sent, collector.received), "done")
       ELSE /\ HandlerGoTo(c, "done")
            /\ UNCHANGED <<handlerRest, c2s, s2c, reset, handlerState>>

\* The last write and the return of the task, which drops the stream.
HandlerSendDone(c) ==
  /\ spc[c] = "done"
  /\ HandlerSends(c, Frame("Done"), "closing")

HandlerReturns(c) ==
  /\ spc[c] = "closing"
  /\ HandlerGoTo(c, "closed")
  /\ HandlerCloses(c, c2s[c])
  /\ UNCHANGED <<handlerRest, handlerState>>

HandlerStep(c) ==
  \/ ServerAccept(c)      \/ HandlerReadSetup(c)  \/ HandlerSendAck(c)
  \/ HandlerSendStart(c)  \/ HandlerLoops(c)      \/ HandlerLeavesLoop(c)
  \/ HandlerSendsBulk(c)  \/ HandlerReadsBulk(c)  \/ HandlerReadTimesOut(c)
  \/ HandlerSendResult(c) \/ HandlerSendDone(c)   \/ HandlerReturns(c)

HandlerTimeUp(c) ==
  /\ spc[c] \in {"data", "io"} /\ ~sTimeUp[c]
  /\ sTimeUp' = [sTimeUp EXCEPT ![c] = TRUE]
  /\ UNCHANGED <<handlerRest, spc, c2s, s2c, reset, hBytes, collector, granted>>

\* Server::cancellation_token: the accept loop ends and drops the listener,
\* which resets the connections nobody accepted.  Running handlers go on.
FaultServerStops ==
  /\ listening
  /\ listening' = FALSE
  /\ UNCHANGED <<reverse, cpc, spc, c2s, s2c, reset, cTimeUp, sTimeUp, cancelled, cBytes,
                 hBytes, collector, outcome, granted>>

ServerStops ==
  /\ listening
  /\ listening' = FALSE
  /\ spc'   = [c \in Clients |-> IF spc[c] = "backlog" THEN "refused" ELSE spc[c]]
  /\ reset' = [c \in Clients |-> spc[c] = "backlog" \/ reset[c]]
  /\ c2s'   = [c \in Clients |-> IF spc[c] = "backlog" THEN <<>> ELSE c2s[c]]
  /\ UNCHANGED <<reverse, cpc, s2c, cTimeUp, sTimeUp, cancelled, cBytes, hBytes,
                 collector, outcome, granted>>

\* After run() has returned the process may exit: the runtime drops the task.
HandlerKilled(c) ==
  /\ ~listening
  /\ spc[c] \notin HandlerDone \cup {"none", "backlog"}
  /\ HandlerGoTo(c, "killed")
  /\ HandlerCloses(c, c2s[c])
  /\ UNCHANGED <<handlerRest, handlerState>>

AllOver == \A c \in Clients : ClientGone(c) /\ spc[c] \in HandlerDone \cup {"none"}

\* Every test is over; the system legitimately rests.
Finished == AllOver /\ UNCHANGED vars

Init ==
  /\ reverse \in Choices
  /\ listening = TRUE
  /\ cpc       = [c \in Clients |-> "idle"]
  /\ spc       = [c \in Clients |-> "none"]
  /\ c2s       = [c \in Clients |-> <<>>]
  /\ s2c       = [c \in Clients |-> <<>>]
  /\ reset     = [c \in Clients |-> FALSE]
  /\ cTimeUp   = [c \in Clients |-> FALSE]
  /\ sTimeUp   = [c \in Clients |-> FALSE]
  /\ cancelled = [c \in Clients |-> FALSE]
  /\ cBytes    = [c \in Clients |-> 0]
  /\ hBytes    = [c \in Clients |-> 0]
  /\ collector = [sent |-> 0, received |-> 0]
  /\ outcome   = [c \in Clients |-> [result |-> Undecodable, done |-> Undecodable]]
  /\ granted   = {}

Next ==
  \/ \E c \in Clients : \/ ClientStep(c)   \/ ClientTimeUp(c)
                        \/ ClientCancel(c) \/ ClientAborts(c)
                        \/ HandlerStep(c)  \/ HandlerTimeUp(c)
                        \/ HandlerKilled(c)
  \/ ServerStops
  \/ Finished

\* tokio polls every task that is ready, and both clocks advance.  Nothing
\* forces a user to cancel, to abort or to stop the server.
Fairness ==
  \A c \in Clients : /\ WF_vars(ClientStep(c))  /\ WF_vars(ClientTimeUp(c))
                     /\ WF_vars(HandlerStep(c)) /\ WF_vars(HandlerTimeUp(c))

Spec     == Init /\ [][Next]_vars
FairSpec == Spec /\ Fairness

-----------------------------------------------------------------------------
(* Properties                                                              *)

TypeOK ==
  /\ reverse \in SUBSET Clients
  /\ listening \in BOOLEAN
  /\ cpc \in [Clients -> ClientPC]
  /\ spc \in [Clients -> HandlerPC]
  /\ c2s \in [Clients -> Seq(Chunk)]
  /\ s2c \in [Clients -> Seq(Chunk)]
  /\ \A c \in Clients : Len(c2s[c]) <= SockBuf /\ Len(s2c[c]) <= SockBuf
  /\ reset \in [Clients -> BOOLEAN]
  /\ cTimeUp \in [Clients -> BOOLEAN]
  /\ sTimeUp \in [Clients -> BOOLEAN]
  /\ cancelled \in [Clients -> BOOLEAN]
  /\ cBytes \in [Clients -> Nat]
  /\ hBytes \in [Clients -> Nat]
  /\ collector \in [sent : Nat, received : Nat]
  /\ outcome \in [Clients -> [result : Chunk \cup {Undecodable},
                              done   : Chunk \cup {Undecodable}]]
  /\ granted \subseteq Clients

\* The handshake never meets a wrong frame: whatever the interleaving, and
\* whoever leaves, the next thing a client waiting for SetupAck (Start) can
\* read is SetupAck (Start), and the next thing a handler waiting for Setup can
\* read is Setup.  The "Expected ... message" errors of run_tcp and
\* handle_tcp_client are for foreign peers only.
HandshakeInOrder ==
  \A c \in Clients :
    /\ cpc[c] = "ack"   /\ s2c[c] # <<>> => Head(s2c[c]).type = "SetupAck"
    /\ cpc[c] = "start" /\ s2c[c] # <<>> => Head(s2c[c]).type = "Start"
    /\ spc[c] = "setup" /\ c2s[c] # <<>> => Head(c2s[c]).type = "Setup"

\* Why the handshake is in order: what is queued follows from where the two
\* ends are.  A client that has not written Setup has an untouched connection;
\* the server queues nothing before it has read Setup; it writes SetupAck and
\* Start once each, and the client reads them in that order.  After a reset
\* nothing is written any more.
HandshakeOf(c) ==
  /\ cpc[c] = "idle" => spc[c] = "none"
  /\ cpc[c] \in {"idle", "setup"} =>
       /\ c2s[c] = <<>> /\ s2c[c] = <<>>
       /\ spc[c] \in {"none", "backlog", "setup"} \cup HandlerDone
  /\ spc[c] \in {"none", "backlog", "setup", "ack"} =>
       s2c[c] = <<>> /\ cpc[c] \notin {"start", "data", "io", "result", "done"}
  /\ spc[c] \in {"backlog", "setup"} /\ Len(c2s[c]) >= 1 => c2s[c][1].type = "Setup"
  /\ cpc[c] = "ack" =>
       /\ Len(s2c[c]) >= 1 => s2c[c][1].type = "SetupAck"
       /\ Len(s2c[c]) >= 2 => s2c[c][2].type = "Start" /\ c \in granted
       /\ ~reset[c] /\ spc[c] = "start" => Len(s2c[c]) = 1
       /\ ~reset[c] /\ spc[c] \in {"data", "io", "result", "done"} => Len(s2c[c]) >= 2
  /\ cpc[c] = "start" =>
       /\ Len(s2c[c]) >= 1 => s2c[c][1].type = "Start" /\ c \in granted
       /\ ~reset[c] /\ spc[c] = "start" => Len(s2c[c]) = 0
       /\ ~reset[c] /\ spc[c] \in {"data", "io", "result", "done"} => Len(s2c[c]) >= 1
  /\ cpc[c] \in {"data", "io", "result", "done"} => c \in granted

HandshakeInv == \A c \in Clients : HandshakeOf(c)

\* A forward test counts every buffer exactly once on each side: until the
\* connection is reset, what the client counted as sent is what the handler
\* recorded plus what is still queued.
ForwardConservation ==
  \A c \in Clients \ reverse :
    ~reset[c] /\ cpc[c] \in {"data", "io", "result", "done", "completed"}
              /\ spc[c] \notin {"backlog", "setup"}
      => cBytes[c] = hBytes[c] + Len(c2s[c])

\* A reverse test loses nothing either: while the client is in its data loop,
\* every buffer the handler recorded as sent was counted by the client or is
\* still queued.
ReverseNothingLost ==
  \A c \in reverse :
    ~reset[c] /\ cpc[c] \in {"data", "io"} => hBytes[c] <= cBytes[c] + Len(s2c[c])

\* The Result frame of a forward test reports no more than the client sent, as
\* long as no other client has used the server's collector: then the handler
\* has read it all from this client's connection.
ResultWithinSent ==
  \A c \in Clients \ reverse :
    outcome[c].result.type = "Result" => outcome[c].result.received <= cBytes[c]

\* protocol.rs:50 "`Done` signals test completion": a client that completes a
\* test in which data went over, and whose handler has sent everything it
\* sends, has seen Done.
DoneEndsTest ==
  \A c \in Clients :
    cpc[c] = "completed" /\ spc[c] = "closed" /\ ~cancelled[c] /\ hBytes[c] > 0
      => "Done" \in {outcome[c].result.type, outcome[c].done.type}

-----------------------------------------------------------------------------
(* The promise to the user                                                 *)

Stage(pc) ==
  CASE pc = "idle"                               -> "idle"
    [] pc \in {"setup", "ack", "start"}          -> "joining"
    [] pc \in {"data", "io", "result", "done"}   -> "running"
    [] pc \in ClientDone                         -> pc

Lifecycle == INSTANCE TestLifecycle WITH
               stage <- [c \in Clients |-> Stage(cpc[c])], granted <- granted

\* Every test keeps the promise of TestLifecycle: nobody starts before the
\* server's Start, and a started test ends only by completing or by being
\* dropped.
KeepsLifecycle == Lifecycle!Spec

\* A started test always comes to its end, although run_tcp's writes and its
\* last two reads have no timeout.
StartedTestEnds ==
  \A c \in Clients : cpc[c] \in {"data", "io"} ~> ClientGone(c)

\* A client that connected gets an answer or an error, also when the server
\* stops while the connection waits in the backlog.
ConnectedClientReturns == \A c \in Clients : cpc[c] = "setup" ~> ClientGone(c)

\* Every handler task ends and gives its connection back, also when its client
\* goes away, stops reading or stops writing at any point.
HandlerEnds == \A c \in Clients : spc[c] = "setup" ~> HandlerGone(c)
=============================================================================
