------------------------------- MODULE UdpTest -------------------------------
(***************************************************************************)
(* A UDP throughput test of rperf3: Client::run_udp against the handler    *)
(* task (handle_tcp_client, handle_udp_test) of the same server.           *)
(*                                                                         *)
(* The control connection carries Setup, SetupAck and Start and is never   *)
(* read again by either side.  The data goes over one UDP port of the      *)
(* server, which every handler binds for itself AFTER it has sent Start:   *)
(* only one handler can have it at a time.  Datagrams may be lost and may  *)
(* overtake each other (only their number is kept), and a datagram that    *)
(* reaches a port nobody has bound comes back as an error on the connected *)
(* socket it was sent from.                                                *)
(***************************************************************************)
EXTENDS Naturals, Sequences, FiniteSets, Sums

CONSTANTS
  Clients,     \* the clients that run one test each
  Choices,     \* the modes that the clients may be started with
  NoPeer,      \* a handler's socket that is not connected
  MaxPackets,  \* bound: datagrams one sender records before its time is up
  MaxBatch     \* datagrams of one sendmmsg

Modes == {"forward", "reverse", "onesend", "onerecv"}

ASSUME ClientsAssumption == IsFiniteSet(Clients)
ASSUME ChoicesAssumption == Choices \subseteq [Clients -> Modes]
ASSUME PeerAssumption   == NoPeer \notin Clients
ASSUME BoundsAssumption == MaxPackets \in Nat /\ MaxBatch \in Nat \ {0}

VARIABLES
  mode,       \* the mode of each client's test
  listening,  \* the accept loop of the server runs
  cpc,        \* where Client::run_udp is, per client
  spc,        \* where the handler of each client's connection is
  asked,      \* the clients that have written Setup
  control,    \* frames queued towards the client on the control connection
  peer,       \* the client whose address a handler's socket is connected to
  toServer,   \* datagrams on their way from each client to the UDP port
  toClient,   \* datagrams on their way to each client's UDP socket
  cRefused,   \* the client's socket has an ECONNREFUSED to report
  sRefused,   \* the handler's connected socket has one
  cTimeUp, sTimeUp,  \* the two clocks
  cancelled,  \* the client's CancellationToken
  sent, got,  \* datagrams recorded by the sender and the receiver of a test
  granted     \* the connections on which Start was sent (history)

vars == <<mode, listening, cpc, spc, asked, control, peer, toServer, toClient, cRefused,
          sRefused, cTimeUp, sTimeUp, cancelled, sent, got, granted>>

-----------------------------------------------------------------------------
TwoWay(c)      == mode[c] \in {"forward", "reverse"}
ServerSends(c) == mode[c] \in {"reverse", "onerecv"}

ClientDone  == {"ended", "failed", "aborted"}
HandlerDone == {"closed", "failed", "unbound", "killed", "refused"}
ClientPC  == {"idle", "setup", "ack", "start", "init", "loop", "io"} \cup ClientDone
HandlerPC == {"none", "backlog", "setup", "ack", "start", "bind", "discover",
              "loop", "io"} \cup HandlerDone

ClientGone(c)  == cpc[c] \in ClientDone
HandlerGone(c) == spc[c] \in HandlerDone

\* run_udp has bound and connected its UDP socket.
HasSocket(c) == cpc[c] \in {"init", "loop", "io"}

\* The handler whose socket is bound to config.port.
HasPort(c) == spc[c] \in {"discover", "loop", "io"}
PortFree == \A c \in Clients : ~HasPort(c)

\* An unconnected socket takes datagrams from everybody.
Takes(c, source) == HasPort(c) /\ peer[c] \in {NoPeer, source}

-----------------------------------------------------------------------------
(* Client::run_udp                                                         *)

clientRest == <<mode, listening, spc, asked, peer, sRefused, sTimeUp, granted>>
clientData == <<toServer, toClient, cRefused, sent, got>>

GoTo(c, pc) == cpc' = [cpc EXCEPT ![c] = pc]

ClientConnect(c) ==
  /\ cpc[c] = "idle"
  /\ IF listening
       THEN GoTo(c, "setup") /\ spc' = [spc EXCEPT ![c] = "backlog"]
       ELSE GoTo(c, "failed") /\ UNCHANGED spc
  /\ UNCHANGED <<mode, listening, asked, peer, sRefused, sTimeUp, granted,
                 control, cTimeUp, cancelled, clientData>>

\* Setup is written; a connection that the server dropped is an Err.
ClientSendSetup(c) ==
  /\ cpc[c] = "setup"
  /\ IF HandlerGone(c)
       THEN GoTo(c, "failed") /\ UNCHANGED asked
       ELSE GoTo(c, "ack") /\ asked' = asked \cup {c}
  /\ UNCHANGED <<mode, listening, spc, peer, sRefused, sTimeUp, granted, control,
                 cTimeUp, cancelled, clientData>>

\* The frame that is expected, or the end of the connection.
ClientExpects(c, type, pc) ==
  \/ /\ control[c] # <<>>
     /\ control' = [control EXCEPT ![c] = Tail(@)]
     /\ GoTo(c, IF Head(control[c]) = type THEN pc ELSE "failed")
     /\ UNCHANGED <<clientRest, cTimeUp, cancelled, clientData>>
  \/ /\ control[c] = <<>> /\ HandlerGone(c)
     /\ GoTo(c, "failed")
     /\ UNCHANGED <<clientRest, control, cTimeUp, cancelled, clientData>>

ClientReadAck(c) == cpc[c] = "ack" /\ ClientExpects(c, "SetupAck", "start")

\* TestStarted, then the UDP socket is bound and connected.
ClientReadStart(c) ==
  /\ cpc[c] = "start"
  /\ ClientExpects(c, "Start", IF mode[c] = "reverse" THEN "init" ELSE "loop")

\* Reverse mode: one packet tells the server where the client's socket is.
ClientSendsInit(c) ==
  /\ cpc[c] = "init"
  /\ toServer' = [toServer EXCEPT ![c] = @ + 1]
  /\ GoTo(c, "loop")
  /\ UNCHANGED <<clientRest, control, cTimeUp, cancelled, toClient, cRefused,
                 sent, got>>

\* The head of the loop: the one-way loops do not look at the token.
FaultMayGoOn(c) == ~cancelled[c]
MayGoOn(c) == ~cTimeUp[c] /\ (cancelled[c] => ~TwoWay(c))

ClientLoops(c) ==
  /\ cpc[c] = "loop" /\ MayGoOn(c)
  /\ ServerSends(c) \/ sent[c] < MaxPackets
  /\ GoTo(c, "io")
  /\ UNCHANGED <<clientRest, control, cTimeUp, cancelled, clientData>>

\* batch.send (sendmmsg takes as many as the socket has room for, perhaps none),
\* or one send_to in the one-way loop: the datagrams that went out are on their
\* way and recorded, whether or not anybody receives them.
ClientSends(c) ==
  /\ cpc[c] = "io" /\ ~ServerSends(c) /\ ~cRefused[c]
  /\ \E n \in IF mode[c] = "onesend" THEN {1} ELSE 0 .. MaxBatch :
       /\ sent[c] + n <= MaxPackets
       /\ sent' = [sent EXCEPT ![c] = @ + n]
       /\ toServer' = [toServer EXCEPT ![c] = @ + n]
  /\ GoTo(c, "loop")
  /\ UNCHANGED <<clientRest, control, cTimeUp, cancelled, toClient, cRefused,
                 got>>

ClientReceives(c) ==
  /\ cpc[c] = "io" /\ ServerSends(c) /\ toClient[c] > 0
  /\ toClient' = [toClient EXCEPT ![c] = @ - 1]
  /\ got' = [got EXCEPT ![c] = @ + 1]
  /\ GoTo(c, "loop")
  /\ UNCHANGED <<clientRest, control, cTimeUp, cancelled, toServer, cRefused,
                 sent>>

\* run_udp_receive gives up a recv after 100 ms; recv_one_way never does.
FaultClientRecvTimesOut(c) == FALSE /\ UNCHANGED vars

ClientRecvTimesOut(c) ==
  /\ cpc[c] = "io" /\ mode[c] = "reverse" /\ ~cRefused[c]
  /\ GoTo(c, "loop")
  /\ UNCHANGED <<clientRest, control, cTimeUp, cancelled, clientData>>

\* Both connections are dropped; what is still on its way comes back refused
\* or is lost.
ClientReturns(c, pc) ==
  /\ GoTo(c, pc)
  /\ control' = [control EXCEPT ![c] = <<>>]
  /\ cRefused' = [cRefused EXCEPT ![c] = FALSE]
  /\ UNCHANGED <<clientRest, cTimeUp, cancelled, toServer, toClient, sent, got>>

\* The end of the loops: statistics, and in a two-way test TestCompleted.
ClientEnds(c) ==
  /\ cpc[c] = "loop" /\ ~MayGoOn(c)
  /\ ClientReturns(c, "ended")

\* A socket error ends run_udp_send and run_udp_receive early, but in good
\* order; send_one_way and recv_one_way return it as an Err.
FaultClientSocketError(c) ==
  /\ cpc[c] = "io" /\ cRefused[c]
  /\ ClientReturns(c, "failed")

ClientSocketError(c) ==
  /\ cpc[c] = "io" /\ cRefused[c]
  /\ IF TwoWay(c)
       THEN ClientReturns(c, "ended")
       ELSE ClientReturns(c, "failed")

ClientStep(c) ==
  \/ ClientConnect(c)   \/ ClientSendSetup(c)    \/ ClientReadAck(c)
  \/ ClientReadStart(c) \/ ClientSendsInit(c)    \/ ClientLoops(c)
  \/ ClientSends(c)     \/ ClientReceives(c)     \/ ClientRecvTimesOut(c)
  \/ ClientEnds(c)      \/ ClientSocketError(c)

ClientTimeUp(c) ==
  /\ cpc[c] \in {"loop", "io"} /\ ~cTimeUp[c]
  /\ cTimeUp' = [cTimeUp EXCEPT ![c] = TRUE]
  /\ UNCHANGED <<clientRest, cpc, control, cancelled, clientData>>

ClientCancel(c) ==
  /\ cpc[c] # "idle" /\ ~ClientGone(c) /\ ~cancelled[c]
  /\ cancelled' = [cancelled EXCEPT ![c] = TRUE]
  /\ UNCHANGED <<clientRest, cpc, control, cTimeUp, clientData>>

\* The future of run() is dropped, with both sockets.
ClientAborts(c) ==
  /\ cpc[c] # "idle" /\ ~ClientGone(c)
  /\ ClientReturns(c, "aborted")

-----------------------------------------------------------------------------
(* handle_tcp_client and handle_udp_test                                   *)

handlerRest == <<mode, listening, cpc, asked, cRefused, cTimeUp, cancelled>>
handlerData == <<peer, toServer, toClient, sRefused, sTimeUp, sent, got>>

HandlerGoTo(c, pc) == spc' = [spc EXCEPT ![c] = pc]

ServerAccept(c) ==
  /\ listening /\ spc[c] = "backlog"
  /\ HandlerGoTo(c, "setup")
  /\ UNCHANGED <<handlerRest, control, granted, handlerData>>

\* Setup arrives once the client has written it; a client that left before
\* that is an Err.
HandlerReadSetup(c) ==
  /\ spc[c] = "setup"
  /\ \/ c \in asked /\ HandlerGoTo(c, "ack")
     \/ c \notin asked /\ ClientGone(c) /\ HandlerGoTo(c, "failed")
  /\ UNCHANGED <<handlerRest, control, granted, handlerData>>

\* Nothing queues up on the control connection, so a write only fails when the
\* client is gone; it may also still succeed then.
HandlerSends(c, type, pc) ==
  \/ /\ control' = IF ClientGone(c) THEN control
                   ELSE [control EXCEPT ![c] = Append(@, type)]
     /\ HandlerGoTo(c, pc)
  \/ ClientGone(c) /\ HandlerGoTo(c, "failed") /\ UNCHANGED control

HandlerSendAck(c) ==
  /\ spc[c] = "ack"
  /\ HandlerSends(c, "SetupAck", "start")
  /\ UNCHANGED <<handlerRest, granted, handlerData>>

HandlerSendStart(c) ==
  /\ spc[c] = "start"
  /\ HandlerSends(c, "Start", "bind")
  /\ granted' = IF spc'[c] = "bind" THEN granted \cup {c} ELSE granted
  /\ UNCHANGED <<handlerRest, handlerData>>

\* UdpSocket::bind(config.port).await?: with the port taken the handler
\* returns the error, and nobody tells the client.
HandlerBinds(c) ==
  /\ spc[c] = "bind"
  /\ IF PortFree
       THEN HandlerGoTo(c, IF ServerSends(c) THEN "discover" ELSE "loop")
       ELSE HandlerGoTo(c, "unbound")
  /\ UNCHANGED <<handlerRest, control, granted, handlerData>>

\* send_udp_data: recv_from without a timeout; the socket is connected to
\* whoever the first packet came from.
HandlerDiscovers(c) ==
  /\ spc[c] = "discover"
  /\ \E d \in Clients :
       /\ toServer[d] > 0
       /\ toServer' = [toServer EXCEPT ![d] = @ - 1]
       /\ peer' = [peer EXCEPT ![c] = d]
  /\ HandlerGoTo(c, "loop")
  /\ UNCHANGED <<handlerRest, control, granted, toClient, sRefused, sTimeUp,
                 sent, got>>

HandlerLoops(c) ==
  /\ spc[c] = "loop" /\ ~sTimeUp[c]
  /\ ServerSends(c) => sent[c] < MaxPackets
  /\ HandlerGoTo(c, "io")
  /\ UNCHANGED <<handlerRest, control, granted, handlerData>>

\* send_udp_data: one datagram to the peer, recorded.
HandlerSendsData(c) ==
  /\ spc[c] = "io" /\ ServerSends(c) /\ ~sRefused[c]
  /\ sent' = [sent EXCEPT ![c] = @ + 1]
  /\ toClient' = [toClient EXCEPT ![peer[c]] = @ + 1]
  /\ HandlerGoTo(c, "loop")
  /\ UNCHANGED <<handlerRest, control, granted, peer, toServer, sRefused,
                 sTimeUp, got>>

\* receive_udp_data and recv_one_way_server_with_socket: a datagram of
\* whichever client is recorded in this test.
FaultHandlerReceives(c) ==
  /\ spc[c] = "io" /\ ~ServerSends(c)
  /\ \E d \in Clients :
       /\ toServer[d] > 0
       /\ toServer' = [toServer EXCEPT ![d] = @ - 1]
  /\ got' = [got EXCEPT ![c] = @ + 2]
  /\ HandlerGoTo(c, "loop")
  /\ UNCHANGED <<handlerRest, control, granted, peer, toClient, sRefused,
                 sTimeUp, sent>>

HandlerReceives(c) ==
  /\ spc[c] = "io" /\ ~ServerSends(c)
  /\ \E d \in Clients :
       /\ toServer[d] > 0
       /\ toServer' = [toServer EXCEPT ![d] = @ - 1]
  /\ got' = [got EXCEPT ![c] = @ + 1]
  /\ HandlerGoTo(c, "loop")
  /\ UNCHANGED <<handlerRest, control, granted, peer, toClient, sRefused,
                 sTimeUp, sent>>

\* Without a timeout a receiver waits for a datagram whatever the clock says.
FaultHandlerRecvTimesOut(c) == FALSE /\ UNCHANGED vars

HandlerRecvTimesOut(c) ==
  /\ spc[c] = "io" /\ ~ServerSends(c)
  /\ HandlerGoTo(c, "loop")
  /\ UNCHANGED <<handlerRest, control, granted, handlerData>>

\* The loop is over (its time is up, or a send was refused): the task returns
\* and drops the control connection and the UDP socket.
HandlerEnds(c) ==
  /\ \/ spc[c] = "loop" /\ sTimeUp[c]
     \/ spc[c] = "io" /\ ServerSends(c) /\ sRefused[c]
  /\ HandlerGoTo(c, "closed")
  /\ UNCHANGED <<handlerRest, control, granted, handlerData>>

HandlerStep(c) ==
  \/ ServerAccept(c)     \/ HandlerReadSetup(c) \/ HandlerSendAck(c)
  \/ HandlerSendStart(c) \/ HandlerBinds(c)     \/ HandlerDiscovers(c)
  \/ HandlerLoops(c)     \/ HandlerSendsData(c) \/ HandlerReceives(c)
  \/ HandlerRecvTimesOut(c) \/ HandlerEnds(c)

HandlerTimeUp(c) ==
  /\ spc[c] \in {"loop", "io"} /\ ~sTimeUp[c]
  /\ sTimeUp' = [sTimeUp EXCEPT ![c] = TRUE]
  /\ UNCHANGED <<handlerRest, spc, control, granted, peer, toServer, toClient,
                 sRefused, sent, got>>

\* Server::cancellation_token: no more connections; running handlers go on.
ServerStops ==
  /\ listening
  /\ listening' = FALSE
  /\ spc' = [c \in Clients |-> IF spc[c] = "backlog" THEN "refused" ELSE spc[c]]
  /\ UNCHANGED <<mode, cpc, asked, control, peer, toServer, toClient, cRefused, sRefused,
                 cTimeUp, sTimeUp, cancelled, sent, got, granted>>

\* The process of a stopped server exits: the handler goes, and its sockets.
HandlerKilled(c) ==
  /\ ~listening
  /\ spc[c] \notin HandlerDone \cup {"none", "backlog"}
  /\ HandlerGoTo(c, "killed")
  /\ UNCHANGED <<handlerRest, control, granted, handlerData>>

-----------------------------------------------------------------------------
(* The network                                                             *)

network == <<mode, listening, cpc, spc, asked, control, peer, cTimeUp, sTimeUp, cancelled,
             sent, got, granted>>

DatagramLost(c) ==
  /\ \/ /\ toServer[c] > 0
        /\ toServer' = [toServer EXCEPT ![c] = @ - 1]
        /\ UNCHANGED toClient
     \/ /\ toClient[c] > 0
        /\ toClient' = [toClient EXCEPT ![c] = @ - 1]
        /\ UNCHANGED toServer
  /\ UNCHANGED <<network, cRefused, sRefused>>

\* A datagram for a port without a socket is answered by the host, and the
\* connected socket it came from reports that at its next operation.
ServerPortRefuses(c) ==
  /\ toServer[c] > 0
  /\ \A d \in Clients : ~Takes(d, c)
  /\ toServer' = [toServer EXCEPT ![c] = @ - 1]
  /\ cRefused' = [cRefused EXCEPT ![c] = HasSocket(c)]
  /\ UNCHANGED <<network, toClient, sRefused>>

ClientPortRefuses(c) ==
  /\ toClient[c] > 0 /\ ~HasSocket(c)
  /\ toClient' = [toClient EXCEPT ![c] = @ - 1]
  /\ sRefused' = [d \in Clients |-> sRefused[d] \/ (HasPort(d) /\ peer[d] = c)]
  /\ UNCHANGED <<network, toServer, cRefused>>

AllOver == \A c \in Clients : ClientGone(c) /\ spc[c] \in HandlerDone \cup {"none"}

Finished == AllOver /\ UNCHANGED vars

Init ==
  /\ mode \in Choices
  /\ listening = TRUE
  /\ cpc       = [c \in Clients |-> "idle"]
  /\ spc       = [c \in Clients |-> "none"]
  /\ asked     = {}
  /\ control   = [c \in Clients |-> <<>>]
  /\ peer      = [c \in Clients |-> NoPeer]
  /\ toServer  = [c \in Clients |-> 0]
  /\ toClient  = [c \in Clients |-> 0]
  /\ cRefused  = [c \in Clients |-> FALSE]
  /\ sRefused  = [c \in Clients |-> FALSE]
  /\ cTimeUp   = [c \in Clients |-> FALSE]
  /\ sTimeUp   = [c \in Clients |-> FALSE]
  /\ cancelled = [c \in Clients |-> FALSE]
  /\ sent      = [c \in Clients |-> 0]
  /\ got       = [c \in Clients |-> 0]
  /\ granted   = {}

Next ==
  \/ \E c \in Clients : \/ ClientStep(c)    \/ ClientTimeUp(c)
                        \/ ClientCancel(c)  \/ ClientAborts(c)
                        \/ HandlerStep(c)   \/ HandlerTimeUp(c)
                        \/ HandlerKilled(c) \/ DatagramLost(c)
                        \/ ServerPortRefuses(c) \/ ClientPortRefuses(c)
  \/ ServerStops
  \/ Finished

\* Ready tasks are polled and clocks advance.  The network delivers or loses
\* as it likes, but nothing stays on its way for ever.
Fairness ==
  \A c \in Clients :
    /\ WF_vars(ClientStep(c))   /\ WF_vars(ClientTimeUp(c))
    /\ WF_vars(HandlerStep(c))  /\ WF_vars(HandlerTimeUp(c))
    /\ WF_vars(ServerPortRefuses(c)) /\ WF_vars(ClientPortRefuses(c))

Spec     == Init /\ [][Next]_vars
FairSpec == Spec /\ Fairness

-----------------------------------------------------------------------------
(* Properties                                                              *)

TypeOK ==
  /\ mode \in [Clients -> Modes]
  /\ listening \in BOOLEAN
  /\ cpc \in [Clients -> ClientPC]
  /\ spc \in [Clients -> HandlerPC]
  /\ asked \subseteq Clients
  /\ control \in [Clients -> Seq({"SetupAck", "Start"})]
  /\ peer \in [Clients -> Clients \cup {NoPeer}]
  /\ toServer \in [Clients -> Nat] /\ toClient \in [Clients -> Nat]
  /\ cRefused \in [Clients -> BOOLEAN] /\ sRefused \in [Clients -> BOOLEAN]
  /\ cTimeUp \in [Clients -> BOOLEAN] /\ sTimeUp \in [Clients -> BOOLEAN]
  /\ cancelled \in [Clients -> BOOLEAN]
  /\ sent \in [Clients -> Nat] /\ got \in [Clients -> Nat]
  /\ granted \subseteq Clients

\* Datagrams are counted at most once: whoever takes them, the receivers have
\* recorded together no more than the senders did, and what is still on its
\* way fits in between.  An init packet is sent but never recorded.
CountedOnce ==
  LET inits == Cardinality({c \in Clients : mode[c] = "reverse"})
  IN  Total(got) + Total(toServer) + Total(toClient) <= Total(sent) + inits

Stage(pc) ==
  CASE pc = "idle"                      -> "idle"
    [] pc \in {"setup", "ack", "start"} -> "joining"
    [] pc \in {"init", "loop", "io"}    -> "running"
    [] pc = "ended"                     -> "completed"
    [] OTHER                            -> pc

Lifecycle == INSTANCE TestLifecycle WITH
               stage   <- [c \in Clients |-> IF TwoWay(c) THEN Stage(cpc[c]) ELSE "idle"],
               granted <- {c \in granted : TwoWay(c)}

\* A forward or reverse UDP test keeps the promise of TestLifecycle also when
\* its packets are lost or refused: it ends early rather than in an error.  (A
\* one-way test does end in an error then.)
KeepsLifecycle == Lifecycle!Spec

\* A client that started ends by itself, whatever becomes of its datagrams and
\* of the server.
StartedTestEnds == \A c \in Clients : cpc[c] \in {"loop", "io"} ~> ClientGone(c)

\* A handler that receives gives the port back, also when its client has gone
\* and no datagram ever arrives.
ReceiverFreesPort ==
  \A c \in Clients : HasPort(c) /\ ~ServerSends(c) ~> ~HasPort(c)
=============================================================================
