------------------------------ MODULE TestSetup ------------------------------
(***************************************************************************)
(* What two ends agree on before a test.  A Config is built by the command *)
(* line or by a library user's calls; Client::new accepts it; the client   *)
(* tells the server part of it in Setup; a handler takes a copy of the     *)
(* server's own Config and puts what it was told over it.  From then on    *)
(* each end does what its own Config says and they never compare notes     *)
(* again, so that every rule of precedence exists twice.                   *)
(*                                                                         *)
(* Left out is what an end keeps to itself and uses for its printing or    *)
(* its socket only (json, interval, bind_addr, recv_workers, the value of  *)
(* socket_buf), and expected_pps, which no receiver of the server reads.   *)
(***************************************************************************)
EXTENDS Integers

CONSTANTS
  Clients,
  ClientLines,   \* command lines a client is started with
  ServerLines,   \* command lines a server is started with
  Calls,         \* setter calls of a library user, as [set |-> ..., to |-> ...]
  ServerCalls,   \* those among them that a server's Config may have seen one of
  MaxCalls,      \* bound: calls on the Config of each client
  Thousand,      \* unit of parse_bandwidth: 1000
  Word,          \* numbers a u64 can hold: 2^64
  Second,        \* of the unit in which a library user gives a duration
  HeaderSize,    \* UdpPacketHeader::SIZE, 20
  NumbersSize,   \* bytes of the two numbers of a one-way packet, 8
  DefaultPayload,\* 1024
  PoolSize,      \* bytes of a buffer of the UDP pools, 65536
  MaxDatagram,   \* what fits in one datagram, 65507
  DefaultLength, \* 128 KiB
  UdpLength,     \* 1500
  None           \* an Option that is None

ASSUME UnitsAssumption == {Thousand, Word, Second} \subseteq Nat \ {0}
ASSUME SizesAssumption == {HeaderSize, NumbersSize, DefaultPayload, PoolSize, MaxDatagram,
                           DefaultLength, UdpLength} \subseteq Nat /\ MaxDatagram <= PoolSize
ASSUME NoneAssumption  == None \notin Nat
ASSUME CallsAssumption ==
  /\ ServerCalls \subseteq Calls /\ MaxCalls \in [Clients -> Nat]
  /\ \A call \in Calls :
       \/ call.set = "protocol" /\ call.to \in {"Tcp", "Udp"}
       \/ call.set = "reverse" /\ call.to \in BOOLEAN
       \/ call.set = "oneWay" /\ call.to \in {"Send", "Receive"}
       \/ call.set \in {"duration", "bandwidth", "buffer", "parallel"} /\ call.to \in Nat

\* What the options of the command line can be.
Texts == [number : Int, unit : {"", "K", "M", "G"}]
ASSUME LinesAssumption ==
  /\ ClientLines \subseteq
       [udp : BOOLEAN, time : Nat, bandwidth : {None} \cup Texts, length : Nat, parallel : Nat,
        reverse : BOOLEAN, oneWaySend : BOOLEAN, oneWayReceive : BOOLEAN,
        socketBuf : {None} \cup Texts]
  /\ ServerLines \subseteq [udp : BOOLEAN, socketBuf : {None} \cup Texts]

VARIABLES
  cpc,      \* where the making of each client is
  typed,    \* the command line it came from, if any (history)
  config,   \* its Config
  calls,    \* setters called on it
  setup,    \* its Setup message, when it is on its way
  server,   \* the server's Config
  terms,    \* the Config of its handler
  client,   \* what the client then does
  handler   \* what its handler does

vars == <<cpc, typed, config, calls, setup, server, terms, client, handler>>

-----------------------------------------------------------------------------
(* Config and its setters                                                  *)

\* Default for Config, Config::new
Default == [protocol |-> "Tcp", address |-> FALSE, duration |-> 10 * Second,
            bandwidth |-> None, buffer |-> DefaultLength, parallel |-> 1,
            reverse |-> FALSE, oneWay |-> "None"]

\* Config::client, Config::server
ClientConfig == [Default EXCEPT !.address = TRUE]
ServerConfig == Default

\* with_protocol, with_duration, with_bandwidth, with_buffer_size,
\* with_parallel, with_reverse
With(c, field, value) == [c EXCEPT ![field] = value]

\* with_one_way_send, with_one_way_receive
WithOneWay(c, way) == [c EXCEPT !.oneWay = way]

Called(c, call) ==
  IF call.set = "oneWay" THEN WithOneWay(c, call.to) ELSE With(c, call.set, call.to)

-----------------------------------------------------------------------------
(* The command line                                                        *)

\* A number with a unit, as typed; anything that parse::<u64>() refuses has
\* the number -1.
Multiplier(unit) == CASE unit = "" -> 1
                      [] unit = "K" -> Thousand
                      [] unit = "M" -> Thousand * Thousand
                      [] unit = "G" -> Thousand * Thousand * Thousand
Readable(t) == t = None \/ t.number \in 0 .. Word - 1
Exact(t)    == t.number * Multiplier(t.unit)

\* parse_bandwidth: the product is computed in 64 bits, which wrap in release.
ParsedBandwidth(t) == IF t = None THEN None ELSE Exact(t) % Word

\* parse_byte_size refuses what parse_bandwidth refuses.
SocketBufAccepted(line) == Readable(line.socketBuf)

Protocol(line) == IF line.udp THEN "Udp" ELSE "Tcp"

\* The arm of main for a client, and that for a server.
ClientLineConfig(line) ==
  LET named  == With(ClientConfig, "protocol", Protocol(line))
      timed  == With(named, "duration", line.time * Second)
      sized  == With(timed, "buffer", IF line.udp /\ line.length = DefaultLength
                                        THEN UdpLength ELSE line.length)
      shaped == With(With(sized, "parallel", line.parallel), "reverse", line.reverse)
      way    == IF line.oneWaySend THEN WithOneWay(shaped, "Send")
                ELSE IF line.oneWayReceive THEN WithOneWay(shaped, "Receive") ELSE shaped
  IN  With(way, "bandwidth", ParsedBandwidth(line.bandwidth))

ServerLineConfig(line) == With(ServerConfig, "protocol", Protocol(line))

NoLine == [bandwidth |-> None]

\* The configurations a server may have: of the command line, or a library
\* user's, who has the same setters.
ServerConfigs ==
  {ServerLineConfig(line) : line \in {l \in ServerLines : SocketBufAccepted(l)}}
    \cup {Called(ServerConfig, call) : call \in ServerCalls}

-----------------------------------------------------------------------------
(* Making a client                                                         *)

pastMaking == <<setup, server, terms, client, handler>>

\* rperf3 client ...: parse errors end the program before Client::new.
TypeLine(c) ==
  /\ cpc[c] = "new" /\ calls[c] = 0
  /\ \E line \in ClientLines :
       /\ typed' = [typed EXCEPT ![c] = line]
       /\ IF Readable(line.bandwidth) /\ SocketBufAccepted(line)
            THEN /\ config' = [config EXCEPT ![c] = ClientLineConfig(line)]
                 /\ cpc' = [cpc EXCEPT ![c] = "configured"]
            ELSE /\ cpc' = [cpc EXCEPT ![c] = "refused"]
                 /\ UNCHANGED config
  /\ UNCHANGED <<calls, pastMaking>>

CallSetter(c) ==
  /\ cpc[c] = "new" /\ calls[c] < MaxCalls[c]
  /\ \E call \in Calls : config' = [config EXCEPT ![c] = Called(@, call)]
  /\ calls' = [calls EXCEPT ![c] = @ + 1]
  /\ UNCHANGED <<cpc, typed, pastMaking>>

\* Client::new.  (Its buffer pools are sized by parallel and buffer_size.)
CreateClient(c) ==
  /\ cpc[c] = "configured" \/ (cpc[c] = "new" /\ calls[c] > 0)
  /\ cpc' = [cpc EXCEPT ![c] = IF config[c].address THEN "made" ELSE "refused"]
  /\ UNCHANGED <<typed, config, calls, pastMaking>>

-----------------------------------------------------------------------------
(* Setup                                                                   *)

\* Message::setup and setup_with_one_way: Duration::as_secs drops what is less
\* than a second, and the one-way mode is a word or nothing.
SetupOf(cfg) ==
  [protocol |-> cfg.protocol, duration |-> cfg.duration \div Second,
   bandwidth |-> cfg.bandwidth, buffer |-> cfg.buffer, parallel |-> cfg.parallel,
   reverse |-> cfg.reverse, oneWay |-> cfg.oneWay]

SendSetup(c) ==
  /\ cpc[c] = "made"
  /\ cpc' = [cpc EXCEPT ![c] = "asked"]
  /\ setup' = [setup EXCEPT ![c] = SetupOf(config[c])]
  /\ UNCHANGED <<typed, config, calls, server, terms, client, handler>>

\* handle_tcp_client: its Config is a clone of the server's.  The protocol is
\* the Setup's, and the number of streams stays the server's; both branches use
\* duration, reverse and bandwidth of the Setup, the UDP branch also its size
\* and mode.
FaultTermsOf(s, m) ==
  [s EXCEPT !.protocol = m.protocol, !.duration = m.duration * Second,
            !.bandwidth = m.bandwidth, !.reverse = m.reverse,
            !.oneWay = IF m.oneWay # "None" THEN m.oneWay ELSE @,
            !.buffer = IF m.protocol = "Udp" THEN m.buffer ELSE @]

FaultTermsKeepRate(s, m) ==
  [s EXCEPT !.protocol = m.protocol, !.duration = m.duration * Second, !.reverse = m.reverse,
            !.bandwidth = IF m.protocol = "Udp" THEN m.bandwidth ELSE @,
            !.oneWay = IF m.protocol = "Udp" THEN m.oneWay ELSE @,
            !.buffer = IF m.protocol = "Udp" THEN m.buffer ELSE @]

TermsOf(s, m) ==
  [s EXCEPT !.protocol = m.protocol, !.duration = m.duration * Second,
            !.bandwidth = m.bandwidth, !.reverse = m.reverse,
            !.oneWay = IF m.protocol = "Udp" THEN m.oneWay ELSE @,
            !.buffer = IF m.protocol = "Udp" THEN m.buffer ELSE @]

FaultReadSetup(c) ==
  /\ cpc[c] = "asked" /\ setup[c] # None
  /\ server' = TermsOf(server, setup[c])
  /\ terms' = [terms EXCEPT ![c] = [server' EXCEPT !.buffer = server.buffer]]
  /\ setup' = [setup EXCEPT ![c] = None]
  /\ UNCHANGED <<cpc, typed, config, calls, client, handler>>

ReadSetup(c) ==
  /\ cpc[c] = "asked" /\ setup[c] # None
  /\ terms' = [terms EXCEPT ![c] = TermsOf(server, setup[c])]
  /\ setup' = [setup EXCEPT ![c] = None]
  /\ UNCHANGED <<cpc, typed, config, calls, server, client, handler>>

-----------------------------------------------------------------------------
(* What each end then does                                                 *)

\* A transfer: over which transport, in which packet format, at which rate in
\* bytes per second, how long, and with datagrams (or a buffer) of which size.
Transfer(does, over, form, rate, time, size) ==
  [does |-> does, over |-> over, form |-> form, rate |-> rate, time |-> time, size |-> size]

Rate(bandwidth) == IF bandwidth = None THEN None ELSE bandwidth \div 8

\* What create_packet_fast makes of a buffer size.
PacketSize(buffer) == IF buffer > HeaderSize THEN buffer ELSE DefaultPayload + HeaderSize

\* Client::run, run_tcp, run_udp.  A TCP sender takes no notice of a bandwidth,
\* nor do parallel one-way streams.
ClientDoes(c) ==
  CASE c.protocol = "Tcp" /\ c.reverse ->
         Transfer("receive", "Tcp", "raw", None, c.duration, c.buffer)
    [] c.protocol = "Tcp" /\ ~c.reverse ->
         Transfer("send", "Tcp", "raw", None, c.duration, c.buffer)
    [] c.protocol = "Udp" /\ c.oneWay = "Send" ->
         Transfer("send", "Udp", "bare", IF c.parallel > 1 THEN None ELSE Rate(c.bandwidth),
                  c.duration, c.buffer)
    [] c.protocol = "Udp" /\ c.oneWay = "Receive" ->
         Transfer("receive", "Udp", "bare", None, c.duration, c.buffer)
    [] c.protocol = "Udp" /\ c.oneWay = "None" /\ c.reverse ->
         Transfer("receive", "Udp", "header", None, c.duration, PoolSize)
    [] c.protocol = "Udp" /\ c.oneWay = "None" /\ ~c.reverse ->
         Transfer("send", "Udp", "header", Rate(c.bandwidth), c.duration, PacketSize(c.buffer))

\* handle_tcp_client and handle_udp_test.
HandlerDoes(t) ==
  CASE t.protocol = "Tcp" /\ t.reverse ->
         Transfer("send", "Tcp", "raw", Rate(t.bandwidth), t.duration, t.buffer)
    [] t.protocol = "Tcp" /\ ~t.reverse ->
         Transfer("receive", "Tcp", "raw", None, t.duration, t.buffer)
    [] t.protocol = "Udp" /\ t.oneWay = "Send" ->
         Transfer("receive", "Udp", "bare", None, t.duration, t.buffer)
    [] t.protocol = "Udp" /\ (t.oneWay = "Receive" \/ (t.oneWay = "None" /\ t.reverse)) ->
         Transfer("send", "Udp", "header", Rate(t.bandwidth), t.duration, PacketSize(t.buffer))
    [] t.protocol = "Udp" /\ t.oneWay = "None" /\ ~t.reverse ->
         Transfer("receive", "Udp", "header", None, t.duration, PoolSize)

\* SetupAck and Start have been written; the handler goes to its transfer.
HandlerStarts(c) ==
  /\ terms[c] # None /\ handler[c] = None
  /\ handler' = [handler EXCEPT ![c] = HandlerDoes(terms[c])]
  /\ UNCHANGED <<cpc, typed, config, calls, setup, server, terms, client>>

\* send_one_way writes two numbers into a buffer that may be too short.
Panics(c) == /\ c.protocol = "Udp" /\ c.oneWay = "Send" /\ c.parallel <= 1
             /\ c.buffer < NumbersSize /\ c.duration > 0

\* The client has read both and goes to its own.
ClientStarts(c) ==
  /\ cpc[c] = "asked" /\ handler[c] # None
  /\ cpc' = [cpc EXCEPT ![c] = IF Panics(config[c]) THEN "panicked" ELSE "running"]
  /\ client' = [client EXCEPT ![c] = ClientDoes(config[c])]
  /\ UNCHANGED <<typed, config, calls, setup, server, terms, handler>>

-----------------------------------------------------------------------------

Finished == (\A c \in Clients : cpc[c] \in {"refused", "running", "panicked"}) /\ UNCHANGED vars

Init ==
  /\ cpc     = [c \in Clients |-> "new"]
  /\ typed   = [c \in Clients |-> NoLine]
  /\ config  \in [Clients -> {ClientConfig, Default}]
  /\ calls   = [c \in Clients |-> 0]
  /\ setup   = [c \in Clients |-> None]
  /\ server  \in ServerConfigs
  /\ terms   = [c \in Clients |-> None]
  /\ client  = [c \in Clients |-> None]
  /\ handler = [c \in Clients |-> None]

Next ==
  \/ \E c \in Clients : TypeLine(c) \/ CallSetter(c) \/ CreateClient(c) \/ SendSetup(c)
                          \/ ReadSetup(c) \/ HandlerStarts(c) \/ ClientStarts(c)
  \/ Finished

Spec == Init /\ [][Next]_vars

-----------------------------------------------------------------------------
(* Properties                                                              *)

Running(c) == cpc[c] = "running"
Sender(c)   == IF client[c].does = "send" THEN client[c] ELSE handler[c]
Receiver(c) == IF client[c].does = "send" THEN handler[c] ELSE client[c]

\* Whatever was set in which order, and whatever the server was configured
\* with or another client asked for, the two ends come to complementary roles:
\* one sends and the other receives, over the same transport and in the same
\* packet format.  (In one-way receive the server sends packets with a header
\* and the client reads a bare number: README.md.)
RolesAgree ==
  \A c \in Clients : Running(c) =>
    /\ Sender(c).does = "send" /\ Receiver(c).does = "receive"
    /\ Sender(c).over = Receiver(c).over
    /\ config[c].oneWay # "Receive" => Sender(c).form = Receiver(c).form

\* The bandwidth that a user typed or set, as the number it means.
Wanted(c) == IF typed[c] = NoLine \/ typed[c].bandwidth = None THEN config[c].bandwidth
             ELSE Exact(typed[c].bandwidth)
Holds64(n) == n = None \/ n \in 0 .. Word - 1

\* The tests in which the end that sends has a rate limiter: all but those in
\* which a client sends over TCP or in parallel one-way streams.
Paced(c)  == IF config[c].protocol = "Tcp" THEN config[c].reverse
             ELSE ~(config[c].oneWay = "Send" /\ config[c].parallel > 1)

\* What a user asked for comes through both Configs and the Setup unchanged: a
\* bandwidth that fits in 64 bits is the rate of the end that sends, wherever
\* that is, if this end has a limiter (main.rs:211: "applies to UDP and TCP
\* reverse mode"), and no other test has a rate, whatever the server was
\* configured with.  Nor has a test without a bandwidth, over UDP either,
\* although README.md:340 of the repository promises 1M there.  The server's
\* clock never runs longer than the client's, whose last reads wait for it, nor
\* a second less.
TermsAgree ==
  \A c \in Clients : Running(c) =>
    /\ Holds64(Wanted(c)) => Sender(c).rate = IF Paced(c) THEN Rate(Wanted(c)) ELSE None
    /\ handler[c].time <= client[c].time
    /\ client[c].time < handler[c].time + Second

\* config.rs:325 says of with_bandwidth that it "controls the send rate for
\* both TCP and UDP tests": of a byte per second or more, to be fair.  That is
\* false where Paced is: run_tcp's send_data never looks at config.bandwidth,
\* and send_one_way_with_offset does not use its argument.
RateAsAsked ==
  \A c \in Clients :
    Running(c) /\ Wanted(c) \in 8 .. Word - 1 => Sender(c).rate = Rate(Wanted(c))

\* A receiver's buffer has room for every datagram of its sender, so that none
\* is cut short, although the two buffers come from different places.  (A
\* buffer size of at most a header stands for a default, which a one-way
\* receiver does not know; above MaxDatagram nothing is sent at all.)
DatagramsFit ==
  \A c \in Clients :
    Running(c) /\ Sender(c).over = "Udp" /\ Sender(c).size <= MaxDatagram
               /\ (config[c].oneWay = "Receive" => config[c].buffer > HeaderSize)
      => Sender(c).size <= Receiver(c).size
=============================================================================
