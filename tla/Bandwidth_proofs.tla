-------------------------- MODULE Bandwidth_proofs --------------------------
(***************************************************************************)
(* From the bandwidth somebody asks for to the bytes that leave the client.*)
(*                                                                         *)
(* First what two ends agree on before a test (TestSetup), for any command *)
(* lines, setter calls, number of clients and sizes: who sends, under      *)
(* which terms, in datagrams of which size.                                *)
(*                                                                         *)
(* Then the limiter that holds the sender to it (TokenBucket): for every   *)
(* unit system, every rate up to 10^9 bytes per second, every write size   *)
(* and every delay of its sleeps, a bucket lets through what its rate      *)
(* makes, a burst, and a debt that is bounded.  Without a bound on the     *)
(* rate this is false: above it nanos_per_byte is 0 and nobody sleeps.     *)
(***************************************************************************)
EXTENDS TestSetup, TokenBucket, TLAPS

-----------------------------------------------------------------------------
(* What two ends agree on                                                  *)

Configs == [protocol : {"Tcp", "Udp"}, address : BOOLEAN, duration : Nat,
            bandwidth : Nat \cup {None}, buffer : Nat, parallel : Nat,
            reverse : BOOLEAN, oneWay : {"None", "Send", "Receive"}]

-----------------------------------------------------------------------------
(* Configurations                                                          *)

LEMMA SetupConstants ==
  /\ Thousand \in Nat \ {0} /\ Word \in Nat \ {0} /\ Second \in Nat \ {0}
  /\ HeaderSize \in Nat /\ NumbersSize \in Nat /\ DefaultPayload \in Nat
  /\ PoolSize \in Nat /\ MaxDatagram \in Nat /\ DefaultLength \in Nat /\ UdpLength \in Nat
  /\ MaxDatagram <= PoolSize /\ None \notin Nat
  BY UnitsAssumption, SizesAssumption, NoneAssumption

LEMMA Division ==
  ASSUME NEW a \in Nat, NEW b \in Nat \ {0}
  PROVE  /\ a \div b \in Nat /\ a % b \in Nat /\ a % b < b
         /\ (a \div b) * b <= a /\ a < (a \div b) * b + b /\ (a \div b) * b \in Nat
  OBVIOUS

LEMMA DefaultTyped == Default \in Configs /\ ClientConfig \in Configs
  <1>1. 10 * Second \in Nat
    BY SetupConstants
  <1> QED BY <1>1, SetupConstants DEF Default, ClientConfig, Configs

LEMMA CalledTyped ==
  ASSUME NEW k \in Configs, NEW call \in Calls
  PROVE  Called(k, call) \in Configs
  <1> USE DEF Called, With, WithOneWay, Configs
  <1>1. CASE call.set = "protocol" /\ call.to \in {"Tcp", "Udp"}
    BY <1>1
  <1>2. CASE call.set = "reverse" /\ call.to \in BOOLEAN
    BY <1>2
  <1>3. CASE call.set = "oneWay" /\ call.to \in {"Send", "Receive"}
    BY <1>3
  <1>4. CASE call.set = "duration" /\ call.to \in Nat
    BY <1>4
  <1>5. CASE call.set = "bandwidth" /\ call.to \in Nat
    BY <1>5
  <1>6. CASE call.set = "buffer" /\ call.to \in Nat
    BY <1>6
  <1>7. CASE call.set = "parallel" /\ call.to \in Nat
    BY <1>7
  <1> QED BY <1>1, <1>2, <1>3, <1>4, <1>5, <1>6, <1>7, CallsAssumption

LEMMA ProductType == ASSUME NEW a \in Nat, NEW b \in Nat PROVE a * b \in Nat
  OBVIOUS

LEMMA MultiplierType ==
  ASSUME NEW u \in {"", "K", "M", "G"}
  PROVE  Multiplier(u) \in Nat
  <1> DEFINE million == Thousand * Thousand
  <1>1. million \in Nat
    BY SetupConstants, ProductType
  <1>2. million * Thousand \in Nat
    <2> HIDE DEF million
    <2> QED BY <1>1, SetupConstants, ProductType
  <1> HIDE DEF million
  <1> QED BY <1>1, <1>2, SetupConstants DEF Multiplier, million

LEMMA ExactType ==
  ASSUME NEW t \in Texts, t # None, Readable(t)
  PROVE  Exact(t) \in Nat
  <1>1. t.number \in Nat
    BY SetupConstants DEF Readable
  <1>2. t.unit \in {"", "K", "M", "G"}
    BY DEF Texts
  <1>3. Multiplier(t.unit) \in Nat
    BY <1>2, MultiplierType
  <1> QED BY <1>1, <1>3, ProductType DEF Exact

LEMMA BandwidthType ==
  ASSUME NEW t \in {None} \cup Texts, Readable(t)
  PROVE  ParsedBandwidth(t) \in Nat \cup {None}
  <1>1. CASE t = None
    BY <1>1 DEF ParsedBandwidth
  <1>2. CASE t # None
    BY <1>2, ExactType, Division, SetupConstants DEF ParsedBandwidth
  <1> QED BY <1>1, <1>2

LEMMA ClientLineTyped ==
  ASSUME NEW line \in ClientLines, Readable(line.bandwidth)
  PROVE  /\ ClientLineConfig(line) \in Configs
         /\ ClientLineConfig(line).bandwidth = ParsedBandwidth(line.bandwidth)
  <1>1. /\ line.udp \in BOOLEAN /\ line.time \in Nat /\ line.length \in Nat
        /\ line.parallel \in Nat /\ line.reverse \in BOOLEAN
        /\ line.bandwidth \in {None} \cup Texts
    BY LinesAssumption
  <1>2. ParsedBandwidth(line.bandwidth) \in Nat \cup {None}
    BY <1>1, BandwidthType
  <1>3. line.time * Second \in Nat
    BY <1>1, SetupConstants
  <1> DEFINE named  == With(ClientConfig, "protocol", Protocol(line))
             timed  == With(named, "duration", line.time * Second)
             sized  == With(timed, "buffer", IF line.udp /\ line.length = DefaultLength
                                               THEN UdpLength ELSE line.length)
             shaped == With(With(sized, "parallel", line.parallel), "reverse", line.reverse)
             way    == IF line.oneWaySend THEN WithOneWay(shaped, "Send")
                       ELSE IF line.oneWayReceive THEN WithOneWay(shaped, "Receive") ELSE shaped
  <1>4. named \in Configs
    BY DefaultTyped DEF With, Configs, Protocol
  <1>5. timed \in Configs
    <2> HIDE DEF named
    <2> QED BY <1>3, <1>4 DEF With, Configs
  <1>6. sized \in Configs
    <2> HIDE DEF timed
    <2> QED BY <1>1, <1>5, SetupConstants DEF With, Configs
  <1>7. shaped \in Configs
    <2> HIDE DEF sized
    <2> QED BY <1>1, <1>6 DEF With, Configs
  <1>8. way \in Configs
    <2> HIDE DEF shaped
    <2> QED BY <1>7 DEF WithOneWay, Configs
  <1>9. ClientLineConfig(line) = With(way, "bandwidth", ParsedBandwidth(line.bandwidth))
    BY DEF ClientLineConfig
  <1> HIDE DEF way
  <1> QED BY <1>2, <1>8, <1>9 DEF With, Configs

LEMMA ServerTyped ==
  ASSUME NEW s \in ServerConfigs
  PROVE  s \in Configs
  <1>1. ASSUME NEW line \in ServerLines PROVE ServerLineConfig(line) \in Configs
    BY DefaultTyped DEF ServerLineConfig, ServerConfig, With, Protocol, Configs
  <1>2. ASSUME NEW call \in ServerCalls PROVE Called(ServerConfig, call) \in Configs
    BY DefaultTyped, CalledTyped, CallsAssumption DEF ServerConfig
  <1> QED BY <1>1, <1>2 DEF ServerConfigs

-----------------------------------------------------------------------------
(* What the ends make of their configurations                              *)

\* What the handler of a client with configuration k goes by.
LEMMA TermsFacts ==
  ASSUME NEW s \in Configs, NEW k \in Configs
  PROVE  LET t == TermsOf(s, SetupOf(k)) IN
           /\ t.protocol = k.protocol /\ t.reverse = k.reverse /\ t.bandwidth = k.bandwidth
           /\ t.duration = (k.duration \div Second) * Second
           /\ k.protocol = "Udp" => t.oneWay = k.oneWay /\ t.buffer = k.buffer
  BY DEF TermsOf, SetupOf, Configs

LEMMA TcpPair ==
  ASSUME NEW k \in Configs, NEW t, t.protocol = k.protocol, t.reverse = k.reverse,
         k.protocol = "Tcp"
  PROVE  /\ k.reverse =>
              /\ ClientDoes(k) = Transfer("receive", "Tcp", "raw", None, k.duration, k.buffer)
              /\ HandlerDoes(t) = Transfer("send", "Tcp", "raw", Rate(t.bandwidth), t.duration,
                                           t.buffer)
         /\ ~k.reverse =>
              /\ ClientDoes(k) = Transfer("send", "Tcp", "raw", None, k.duration, k.buffer)
              /\ HandlerDoes(t) = Transfer("receive", "Tcp", "raw", None, t.duration, t.buffer)
  BY DEF ClientDoes, HandlerDoes, Configs

LEMMA OneWayPair ==
  ASSUME NEW k \in Configs, NEW t, t.protocol = k.protocol, t.oneWay = k.oneWay,
         k.protocol = "Udp"
  PROVE  /\ k.oneWay = "Send" =>
              /\ ClientDoes(k) = Transfer("send", "Udp", "bare",
                                          IF k.parallel > 1 THEN None ELSE Rate(k.bandwidth),
                                          k.duration, k.buffer)
              /\ HandlerDoes(t) = Transfer("receive", "Udp", "bare", None, t.duration, t.buffer)
         /\ k.oneWay = "Receive" =>
              /\ ClientDoes(k) = Transfer("receive", "Udp", "bare", None, k.duration, k.buffer)
              /\ HandlerDoes(t) = Transfer("send", "Udp", "header", Rate(t.bandwidth), t.duration,
                                           PacketSize(t.buffer))
  BY DEF ClientDoes, HandlerDoes, Configs

LEMMA UdpPair ==
  ASSUME NEW k \in Configs, NEW t, t.protocol = k.protocol, t.reverse = k.reverse,
         t.oneWay = k.oneWay, k.protocol = "Udp", k.oneWay = "None"
  PROVE  /\ k.reverse =>
              /\ ClientDoes(k) = Transfer("receive", "Udp", "header", None, k.duration, PoolSize)
              /\ HandlerDoes(t) = Transfer("send", "Udp", "header", Rate(t.bandwidth), t.duration,
                                           PacketSize(t.buffer))
         /\ ~k.reverse =>
              /\ ClientDoes(k) = Transfer("send", "Udp", "header", Rate(k.bandwidth), k.duration,
                                          PacketSize(k.buffer))
              /\ HandlerDoes(t) = Transfer("receive", "Udp", "header", None, t.duration, PoolSize)
  BY DEF ClientDoes, HandlerDoes, Configs

-----------------------------------------------------------------------------
(* The invariant                                                           *)

SetupPlaces == {"new", "configured", "refused", "made", "asked", "running", "panicked"}

SetupTyped ==
  /\ server \in Configs
  /\ cpc \in [Clients -> SetupPlaces]
  /\ config \in [Clients -> Configs]
  /\ calls \in [Clients -> Nat]
  /\ DOMAIN typed = Clients /\ DOMAIN setup = Clients /\ DOMAIN terms = Clients
  /\ DOMAIN client = Clients /\ DOMAIN handler = Clients

TermsFor(c) == TermsOf(server, SetupOf(config[c]))

\* Everything an end does follows from the two configurations, of which the
\* client's is final once it has left its making.
ClientAt(c) ==
  /\ cpc[c] = "new" => typed[c] = NoLine
  /\ cpc[c] # "refused" /\ typed[c] # NoLine =>
       /\ typed[c] \in ClientLines /\ Readable(typed[c].bandwidth)
       /\ config[c].bandwidth = ParsedBandwidth(typed[c].bandwidth)
  /\ cpc[c] \in {"new", "configured", "made", "refused"} =>
       setup[c] = None /\ terms[c] = None /\ handler[c] = None
  /\ setup[c] # None => setup[c] = SetupOf(config[c])
  /\ terms[c] # None => terms[c] = TermsFor(c)
  /\ handler[c] # None => handler[c] = HandlerDoes(TermsFor(c))
  /\ Running(c) => client[c] = ClientDoes(config[c]) /\ handler[c] # None

SetupInv == SetupTyped /\ \A c \in Clients : ClientAt(c)

LEMMA SetupInit == Init => SetupInv
  <1> SUFFICES ASSUME Init PROVE SetupInv
    OBVIOUS
  <1>1. server \in Configs
    BY ServerTyped DEF Init
  <1>2. config \in [Clients -> Configs]
    <2>1. config \in [Clients -> {ClientConfig, Default}]
      BY DEF Init
    <2> QED BY <2>1, DefaultTyped
  <1>3. SetupTyped
    BY <1>1, <1>2 DEF Init, SetupTyped, SetupPlaces
  <1>4. \A c \in Clients : ClientAt(c)
    BY DEF Init, ClientAt, Running
  <1> QED BY <1>3, <1>4 DEF SetupInv

OthersAsBefore(c) ==
  /\ server' = server
  /\ \A d \in Clients \ {c} :
       /\ cpc'[d] = cpc[d] /\ typed'[d] = typed[d] /\ config'[d] = config[d]
       /\ setup'[d] = setup[d] /\ terms'[d] = terms[d]
       /\ client'[d] = client[d] /\ handler'[d] = handler[d]

LEMMA OneClientMoves ==
  ASSUME SetupInv, SetupTyped', NEW c \in Clients, OthersAsBefore(c), ClientAt(c)'
  PROVE  SetupInv'
  <1>1. ASSUME NEW d \in Clients, d # c PROVE ClientAt(d)'
    <2>1. ClientAt(d)
      BY DEF SetupInv
    <2>2. /\ server' = server /\ cpc'[d] = cpc[d] /\ typed'[d] = typed[d]
          /\ config'[d] = config[d] /\ setup'[d] = setup[d] /\ terms'[d] = terms[d]
          /\ client'[d] = client[d] /\ handler'[d] = handler[d]
      BY <1>1 DEF OthersAsBefore
    <2> QED BY <2>1, <2>2 DEF ClientAt, TermsFor, Running
  <1> QED BY <1>1 DEF SetupInv

LEMMA SetupKeeps == SetupInv /\ [Next]_vars => SetupInv'
  <1> SUFFICES ASSUME SetupInv, [Next]_vars PROVE SetupInv'
    OBVIOUS
  <1> USE DEF pastMaking
  <1>0. SetupTyped /\ \A c \in Clients : ClientAt(c)
    BY DEF SetupInv
  <1>1. ASSUME NEW c \in Clients, TypeLine(c) PROVE SetupInv'
    <2>1. PICK line \in ClientLines :
            /\ typed' = [typed EXCEPT ![c] = line]
            /\ IF Readable(line.bandwidth) /\ SocketBufAccepted(line)
                 THEN /\ config' = [config EXCEPT ![c] = ClientLineConfig(line)]
                      /\ cpc' = [cpc EXCEPT ![c] = "configured"]
                 ELSE /\ cpc' = [cpc EXCEPT ![c] = "refused"]
                      /\ UNCHANGED config
      BY <1>1 DEF TypeLine
    <2>2. cpc[c] = "new" /\ UNCHANGED <<calls, setup, server, terms, client, handler>>
      BY <1>1 DEF TypeLine
    <2>3. OthersAsBefore(c)
      BY <1>0, <2>1, <2>2 DEF OthersAsBefore, SetupTyped
    <2>4. CASE Readable(line.bandwidth) /\ SocketBufAccepted(line)
      <3>1. /\ typed'[c] = line /\ config'[c] = ClientLineConfig(line) /\ cpc'[c] = "configured"
        BY <1>0, <2>1, <2>4 DEF SetupTyped
      <3>2. /\ ClientLineConfig(line) \in Configs
            /\ ClientLineConfig(line).bandwidth = ParsedBandwidth(line.bandwidth)
        BY <2>4, ClientLineTyped
      <3>3. SetupTyped'
        BY <1>0, <2>1, <2>2, <2>4, <3>2 DEF SetupTyped, SetupPlaces
      <3>4. ClientAt(c)'
        BY <1>0, <2>2, <2>4, <3>1, <3>2 DEF ClientAt, Running
      <3> QED BY <2>3, <3>3, <3>4, OneClientMoves
    <2>5. CASE ~(Readable(line.bandwidth) /\ SocketBufAccepted(line))
      <3>1. cpc'[c] = "refused"
        BY <1>0, <2>1, <2>5 DEF SetupTyped
      <3>2. SetupTyped'
        BY <1>0, <2>1, <2>2, <2>5 DEF SetupTyped, SetupPlaces
      <3>3. ClientAt(c)'
        BY <1>0, <2>2, <3>1 DEF ClientAt, Running
      <3> QED BY <2>3, <3>2, <3>3, OneClientMoves
    <2> QED BY <2>4, <2>5
  <1>2. ASSUME NEW c \in Clients, CallSetter(c) PROVE SetupInv'
    <2>1. PICK call \in Calls : config' = [config EXCEPT ![c] = Called(@, call)]
      BY <1>2 DEF CallSetter
    <2>2. /\ cpc[c] = "new" /\ calls' = [calls EXCEPT ![c] = @ + 1]
          /\ UNCHANGED <<cpc, typed, setup, server, terms, client, handler>>
      BY <1>2 DEF CallSetter
    <2>3. Called(config[c], call) \in Configs
      BY <1>0, CalledTyped DEF SetupTyped
    <2>4. SetupTyped'
      BY <1>0, <2>1, <2>2, <2>3 DEF SetupTyped
    <2>5. OthersAsBefore(c)
      BY <1>0, <2>1, <2>2 DEF OthersAsBefore, SetupTyped
    <2>6. ClientAt(c)'
      BY <1>0, <2>2 DEF ClientAt, Running
    <2> QED BY <2>4, <2>5, <2>6, OneClientMoves
  <1>3. ASSUME NEW c \in Clients, CreateClient(c) PROVE SetupInv'
    <2>1. SetupTyped'
      BY <1>0, <1>3 DEF CreateClient, SetupTyped, SetupPlaces
    <2>2. OthersAsBefore(c)
      BY <1>0, <1>3 DEF CreateClient, OthersAsBefore, SetupTyped
    <2>3. ClientAt(c)'
      BY <1>0, <1>3 DEF CreateClient, ClientAt, TermsFor, Running, SetupTyped
    <2> QED BY <2>1, <2>2, <2>3, OneClientMoves
  <1>4. ASSUME NEW c \in Clients, SendSetup(c) PROVE SetupInv'
    <2>1. SetupTyped'
      BY <1>0, <1>4 DEF SendSetup, SetupTyped, SetupPlaces
    <2>2. OthersAsBefore(c)
      BY <1>0, <1>4 DEF SendSetup, OthersAsBefore, SetupTyped
    <2>3. ClientAt(c)'
      BY <1>0, <1>4 DEF SendSetup, ClientAt, TermsFor, Running, SetupTyped
    <2> QED BY <2>1, <2>2, <2>3, OneClientMoves
  <1>5. ASSUME NEW c \in Clients, ReadSetup(c) PROVE SetupInv'
    <2>1. SetupTyped'
      BY <1>0, <1>5 DEF ReadSetup, SetupTyped, SetupPlaces
    <2>2. OthersAsBefore(c)
      BY <1>0, <1>5 DEF ReadSetup, OthersAsBefore, SetupTyped
    <2>3. ClientAt(c)'
      BY <1>0, <1>5 DEF ReadSetup, ClientAt, TermsFor, Running, SetupTyped
    <2> QED BY <2>1, <2>2, <2>3, OneClientMoves
  <1>6. ASSUME NEW c \in Clients, HandlerStarts(c) PROVE SetupInv'
    <2>1. SetupTyped'
      BY <1>0, <1>6 DEF HandlerStarts, SetupTyped, SetupPlaces
    <2>2. OthersAsBefore(c)
      BY <1>0, <1>6 DEF HandlerStarts, OthersAsBefore, SetupTyped
    <2>3. ClientAt(c)'
      BY <1>0, <1>6 DEF HandlerStarts, ClientAt, TermsFor, Running, SetupTyped
    <2> QED BY <2>1, <2>2, <2>3, OneClientMoves
  <1>7. ASSUME NEW c \in Clients, ClientStarts(c) PROVE SetupInv'
    <2>1. SetupTyped'
      BY <1>0, <1>7 DEF ClientStarts, SetupTyped, SetupPlaces
    <2>2. OthersAsBefore(c)
      BY <1>0, <1>7 DEF ClientStarts, OthersAsBefore, SetupTyped
    <2>3. ClientAt(c)'
      BY <1>0, <1>7 DEF ClientStarts, ClientAt, TermsFor, Running, SetupTyped
    <2> QED BY <2>1, <2>2, <2>3, OneClientMoves
  <1>8. CASE UNCHANGED vars
    BY <1>0, <1>8 DEF vars, SetupInv, SetupTyped, ClientAt, TermsFor, Running
  <1> QED BY <1>1, <1>2, <1>3, <1>4, <1>5, <1>6, <1>7, <1>8 DEF Next, Finished

LEMMA SetupAlways == Spec => []SetupInv
  BY SetupInit, SetupKeeps, PTL DEF Spec

-----------------------------------------------------------------------------
(* Two ends that have started                                              *)

LEMMA RunningFacts ==
  ASSUME SetupInv, NEW c \in Clients, Running(c)
  PROVE  /\ config[c] \in Configs /\ TermsFor(c) = TermsOf(server, SetupOf(config[c]))
         /\ TermsFor(c).protocol = config[c].protocol
         /\ TermsFor(c).reverse = config[c].reverse
         /\ TermsFor(c).bandwidth = config[c].bandwidth
         /\ TermsFor(c).duration = (config[c].duration \div Second) * Second
         /\ config[c].protocol = "Udp" =>
              TermsFor(c).oneWay = config[c].oneWay /\ TermsFor(c).buffer = config[c].buffer
         /\ client[c] = ClientDoes(config[c])
         /\ handler[c] = HandlerDoes(TermsFor(c))
  <1>1. config[c] \in Configs /\ server \in Configs
    BY DEF SetupInv, SetupTyped
  <1>2. client[c] = ClientDoes(config[c]) /\ handler[c] = HandlerDoes(TermsFor(c))
    BY DEF SetupInv, ClientAt
  <1> QED BY <1>1, <1>2, TermsFacts DEF TermsFor

\* Whatever the six kinds of test have in common can be shown for each of them.
LEMMA KindsOfTest ==
  ASSUME NEW k \in Configs
  PROVE  \/ k.protocol = "Tcp"
         \/ k.protocol = "Udp" /\ k.oneWay \in {"Send", "Receive"}
         \/ k.protocol = "Udp" /\ k.oneWay = "None"
  BY DEF Configs

\* For any command lines, calls and clients, and any configuration of the
\* server: one end sends what the other receives, over the same transport and,
\* but for one-way receive, in the same format.
THEOREM SetupRolesAgree == Spec => []RolesAgree
  <1>1. SetupInv => RolesAgree
    <2> SUFFICES ASSUME SetupInv, NEW c \in Clients, Running(c)
                 PROVE  /\ Sender(c).does = "send" /\ Receiver(c).does = "receive"
                        /\ Sender(c).over = Receiver(c).over
                        /\ config[c].oneWay # "Receive" => Sender(c).form = Receiver(c).form
      BY DEF RolesAgree
    <2> DEFINE k == config[c]
               t == TermsFor(c)
    <2>1. /\ k \in Configs /\ t.protocol = k.protocol /\ t.reverse = k.reverse
          /\ k.protocol = "Udp" => t.oneWay = k.oneWay
          /\ client[c] = ClientDoes(k) /\ handler[c] = HandlerDoes(t)
          /\ k.reverse \in BOOLEAN
      BY RunningFacts DEF Configs
    <2> HIDE DEF k, t
    <2>2. CASE k.protocol = "Tcp"
      BY <2>1, <2>2, TcpPair DEF Sender, Receiver, Transfer, k
    <2>3. CASE k.protocol = "Udp" /\ k.oneWay \in {"Send", "Receive"}
      BY <2>1, <2>3, OneWayPair DEF Sender, Receiver, Transfer, k
    <2>4. CASE k.protocol = "Udp" /\ k.oneWay = "None"
      BY <2>1, <2>4, UdpPair DEF Sender, Receiver, Transfer, k
    <2> QED BY <2>1, <2>2, <2>3, <2>4, KindsOfTest
  <1> QED BY <1>1, SetupAlways, PTL

\* The bandwidth that is in force is the one that was asked for.
LEMMA BandwidthAsWanted ==
  ASSUME SetupInv, NEW c \in Clients, Running(c)
  PROVE  /\ Wanted(c) \in 0 .. Word - 1 => config[c].bandwidth = Wanted(c)
         /\ Wanted(c) = None => config[c].bandwidth = None
  <1>1. CASE typed[c] = NoLine \/ typed[c].bandwidth = None
    BY <1>1 DEF Wanted
  <1>2. CASE ~(typed[c] = NoLine \/ typed[c].bandwidth = None)
    <2> DEFINE b == typed[c].bandwidth
    <2>1. /\ typed[c] \in ClientLines /\ Readable(b) /\ b # None
          /\ config[c].bandwidth = ParsedBandwidth(b)
      BY <1>2 DEF SetupInv, ClientAt, Running
    <2>2. b \in Texts
      BY <2>1, LinesAssumption
    <2>3. Exact(b) \in Nat
      BY <2>1, <2>2, ExactType
    <2>4. Wanted(c) = Exact(b)
      BY <1>2 DEF Wanted
    <2> HIDE DEF b
    <2>5. config[c].bandwidth = Exact(b) % Word
      BY <2>1 DEF ParsedBandwidth
    <2>6. Wanted(c) # None
      BY <2>3, <2>4, SetupConstants
    <2>7. Exact(b) \in 0 .. Word - 1 => Exact(b) % Word = Exact(b)
      BY <2>3, SetupConstants
    <2> QED BY <2>4, <2>5, <2>6, <2>7
  <1> QED BY <1>1, <1>2

\* For any bandwidths and durations: where the end that sends has a limiter (not
\* a client over TCP, nor parallel one-way streams), its rate is the one asked
\* for, no other test has a rate, and the server's clock is the client's but
\* for less than a second that it is shorter.
THEOREM SetupTermsAgree == Spec => []TermsAgree
  <1>1. SetupInv => TermsAgree
    <2> SUFFICES ASSUME SetupInv, NEW c \in Clients, Running(c)
                 PROVE  /\ Holds64(Wanted(c)) =>
                             Sender(c).rate = IF Paced(c) THEN Rate(Wanted(c)) ELSE None
                        /\ handler[c].time <= client[c].time
                        /\ client[c].time < handler[c].time + Second
      BY DEF TermsAgree
    <2> DEFINE k == config[c]
               t == TermsFor(c)
    <2>1. /\ k \in Configs /\ t.protocol = k.protocol /\ t.reverse = k.reverse
          /\ t.bandwidth = k.bandwidth /\ t.duration = (k.duration \div Second) * Second
          /\ k.protocol = "Udp" => t.oneWay = k.oneWay
          /\ client[c] = ClientDoes(k) /\ handler[c] = HandlerDoes(t)
          /\ k.reverse \in BOOLEAN /\ k.duration \in Nat
      BY RunningFacts DEF Configs
    <2>2. Holds64(Wanted(c)) => k.bandwidth = Wanted(c)
      BY BandwidthAsWanted DEF Holds64
    <2>3. Paced(c) <=> IF k.protocol = "Tcp" THEN k.reverse
                       ELSE ~(k.oneWay = "Send" /\ k.parallel > 1)
      BY DEF Paced
    <2>4. t.duration <= k.duration /\ k.duration < t.duration + Second
      BY <2>1, Division, SetupConstants
    <2> HIDE DEF k, t
    <2>5. /\ Sender(c).rate = IF Paced(c) THEN Rate(k.bandwidth) ELSE None
          /\ handler[c].time = t.duration /\ client[c].time = k.duration
      <3>1. CASE k.protocol = "Tcp"
        BY <2>1, <2>2, <2>3, <3>1, TcpPair DEF Sender, Transfer, Rate
      <3>2. CASE k.protocol = "Udp" /\ k.oneWay \in {"Send", "Receive"}
        BY <2>1, <2>2, <2>3, <3>2, OneWayPair DEF Sender, Transfer, Rate
      <3>3. CASE k.protocol = "Udp" /\ k.oneWay = "None"
        BY <2>1, <2>2, <2>3, <3>3, UdpPair DEF Sender, Transfer, Rate
      <3> QED BY <2>1, <3>1, <3>2, <3>3, KindsOfTest
    <2> QED BY <2>2, <2>4, <2>5
  <1> QED BY <1>1, SetupAlways, PTL

\* For any sizes of datagrams, headers and buffers: no datagram is longer than
\* the buffer it is received in.
THEOREM SetupDatagramsFit == Spec => []DatagramsFit
  <1>1. SetupInv => DatagramsFit
    <2> SUFFICES ASSUME SetupInv, NEW c \in Clients, Running(c),
                        Sender(c).over = "Udp", Sender(c).size <= MaxDatagram,
                        config[c].oneWay = "Receive" => config[c].buffer > HeaderSize
                 PROVE  Sender(c).size <= Receiver(c).size
      BY DEF DatagramsFit
    <2> DEFINE k == config[c]
               t == TermsFor(c)
    <2>1. /\ k \in Configs /\ t.protocol = k.protocol /\ t.reverse = k.reverse
          /\ k.protocol = "Udp" => t.oneWay = k.oneWay /\ t.buffer = k.buffer
          /\ client[c] = ClientDoes(k) /\ handler[c] = HandlerDoes(t)
          /\ k.reverse \in BOOLEAN /\ k.buffer \in Nat
          /\ k.oneWay = "Receive" => k.buffer > HeaderSize
      BY RunningFacts DEF Configs
    <2> HIDE DEF k, t
    <2>2. PacketSize(k.buffer) \in Nat
      BY <2>1, SetupConstants DEF PacketSize
    <2>3. CASE k.protocol = "Tcp"
      BY <2>1, <2>3, TcpPair DEF Sender, Transfer
    <2>4. CASE k.protocol = "Udp" /\ k.oneWay \in {"Send", "Receive"}
      BY <2>1, <2>4, OneWayPair DEF Sender, Receiver, Transfer, PacketSize
    <2>5. CASE k.protocol = "Udp" /\ k.oneWay = "None"
      <3>1. Receiver(c).size = PoolSize /\ Sender(c).size = PacketSize(k.buffer)
        BY <2>1, <2>5, UdpPair DEF Sender, Receiver, Transfer
      <3> QED BY <2>2, <3>1, SetupConstants
    <2> QED BY <2>1, <2>3, <2>4, <2>5, KindsOfTest
  <1> QED BY <1>1, SetupAlways, PTL

-----------------------------------------------------------------------------
(* The token bucket                                                        *)

(***************************************************************************)
(* Arithmetic.                                                             *)
(***************************************************************************)

\* What integer division promises.
LEMMA DivFacts ==
  ASSUME NEW a \in Nat, NEW b \in Nat \ {0}
  PROVE  /\ a \div b \in Nat
         /\ b * (a \div b) <= a
         /\ a < b * (a \div b) + b
  OBVIOUS

\* Products keep an order ...
LEMMA TimesMonotone ==
  ASSUME NEW k \in Nat, NEW a \in Int, NEW b \in Int, a <= b
  PROVE  k * a <= k * b
  OBVIOUS

\* ... and a positive factor can be cancelled.
LEMMA TimesCancel ==
  ASSUME NEW k \in Nat \ {0}, NEW a \in Int, NEW b \in Int, k * a < k * b
  PROVE  a < b
  OBVIOUS

\* A product of naturals is one.
LEMMA NatProduct ==
  ASSUME NEW a \in Nat, NEW b \in Nat
  PROVE  a * b \in Nat
  OBVIOUS

\* The units of time of the module.
LEMMA Units ==
  /\ NanosPerSec \in Nat \ {0}
  /\ \A n \in Int : NanosPerSec * n = NanosPerMicro * (MicrosPerSec * n)
  BY ClockUnitsAssumption DEF NanosPerSec

\* The numbers that depend on a rate.
LEMMA RateFacts ==
  ASSUME NEW r \in Rates
  PROVE  /\ r \in Nat
         /\ Capacity(r) \in Nat
         /\ NanosPerByte(r) \in Nat
         /\ Debt(r) \in Nat
         /\ r \div MicrosPerSec \in Nat
  <1>1. r \in Nat /\ r \div 10 \in Nat /\ r \div MicrosPerSec \in Nat
    <2>1. r \in Nat
      BY RatesAssumption
    <2>2. r \div 10 \in Nat
      BY <2>1
    <2>3. r \div MicrosPerSec \in Nat
      BY <2>1, ClockUnitsAssumption, DivFacts
    <2> QED BY <2>1, <2>2, <2>3
  <1>2. NanosPerByte(r) \in Nat
    <2>1. NanosPerSec \in Nat
      BY Units
    <2>2. ASSUME r > 0 PROVE NanosPerSec \div r \in Nat
      <3>1. r \in Nat \ {0}
        BY <1>1, <2>2
      <3> QED BY <2>1, <3>1, DivFacts
    <2> QED BY <1>1, <2>2 DEF NanosPerByte
  <1>3. Capacity(r) \in Nat /\ Debt(r) \in Nat
    BY <1>1, ClockUnitsAssumption, WritesAssumption DEF Capacity, Debt, LargerOf
  <1> QED BY <1>1, <1>2, <1>3

\* Truncated twice, the tokens of e nanoseconds are no more than the rate makes
\* in them ...
LEMMA TokensAtMost ==
  ASSUME NEW e \in Nat, NEW r \in Nat
  PROVE  NanosPerSec * (((e \div NanosPerMicro) * r) \div MicrosPerSec) <= r * e
  <1> DEFINE micros == e \div NanosPerMicro
             add    == (micros * r) \div MicrosPerSec
  <1>1. micros \in Nat /\ NanosPerMicro * micros <= e
    BY DivFacts, ClockUnitsAssumption
  <1>2. micros * r \in Nat
    BY <1>1, NatProduct
  <1>3. add \in Nat /\ MicrosPerSec * add <= micros * r
    BY <1>2, DivFacts, ClockUnitsAssumption
  <1> HIDE DEF micros, add
  <1>4. MicrosPerSec * add \in Int
    BY <1>3, ClockUnitsAssumption
  <1>5. NanosPerMicro * (MicrosPerSec * add) <= NanosPerMicro * (micros * r)
    BY <1>2, <1>3, <1>4, TimesMonotone, ClockUnitsAssumption
  <1>6. NanosPerMicro * (micros * r) = r * (NanosPerMicro * micros)
    BY <1>1, ClockUnitsAssumption
  <1>7. r * (NanosPerMicro * micros) <= r * e
    BY <1>1, TimesMonotone, ClockUnitsAssumption
  <1>8. NanosPerSec * add = NanosPerMicro * (MicrosPerSec * add)
    BY <1>3, Units
  <1>9. NanosPerSec * add <= r * e
    BY <1>3, <1>2, <1>1, <1>4, <1>5, <1>6, <1>7, <1>8, Units, ClockUnitsAssumption
  <1> QED BY <1>9 DEF add, micros

\* ... and less than one token and one microsecond short of it.
LEMMA TokensAtLeast ==
  ASSUME NEW e \in Nat, NEW r \in Nat \ {0}
  PROVE  NanosPerSec * (((e \div NanosPerMicro) * r) \div MicrosPerSec + 1)
           > r * e - NanosPerMicro * r
  <1> DEFINE micros == e \div NanosPerMicro
             add    == (micros * r) \div MicrosPerSec
  <1>1. micros \in Nat /\ e < NanosPerMicro * micros + NanosPerMicro
    BY DivFacts, ClockUnitsAssumption
  <1>2. micros * r \in Nat
    BY <1>1, NatProduct
  <1>3. add \in Nat /\ micros * r < MicrosPerSec * add + MicrosPerSec
    BY <1>2, DivFacts, ClockUnitsAssumption
  <1> HIDE DEF micros, add
  <1>4. micros * r <= MicrosPerSec * (add + 1)
    BY <1>2, <1>3, ClockUnitsAssumption
  <1>5. MicrosPerSec * (add + 1) \in Int
    BY <1>3, ClockUnitsAssumption
  <1>6. NanosPerMicro * (micros * r) <= NanosPerMicro * (MicrosPerSec * (add + 1))
    BY <1>2, <1>4, <1>5, TimesMonotone, ClockUnitsAssumption
  <1>7. NanosPerSec * (add + 1) = NanosPerMicro * (MicrosPerSec * (add + 1))
    BY <1>3, Units
  <1>8. e - NanosPerMicro < NanosPerMicro * micros
    BY <1>1, ClockUnitsAssumption
  <1>9. r * (e - NanosPerMicro) < r * (NanosPerMicro * micros)
    BY <1>8, <1>1, ClockUnitsAssumption
  <1>10. r * (NanosPerMicro * micros) = NanosPerMicro * (micros * r)
    BY <1>1, ClockUnitsAssumption
  <1>11. r * (e - NanosPerMicro) = r * e - NanosPerMicro * r
    BY ClockUnitsAssumption
  <1>12. NanosPerSec * (add + 1) > r * e - NanosPerMicro * r
    BY <1>1, <1>2, <1>3, <1>5, <1>6, <1>7, <1>9, <1>10, <1>11, ClockUnitsAssumption, Units
  <1> QED BY <1>12 DEF add, micros

\* Up to 10^9 bytes per second a byte takes at least a nanosecond, and the
\* truncation of the time it takes loses less than half of it.
LEMMA NanosPerByteFacts ==
  ASSUME NEW r \in 1 .. NanosPerSec
  PROVE  NanosPerByte(r) >= 1 /\ 2 * (r * NanosPerByte(r)) > NanosPerSec
  <1> DEFINE n == NanosPerSec \div r
  <1>1. r \in Nat \ {0} /\ NanosPerSec \in Nat
    BY Units
  <1>2. n \in Nat /\ NanosPerSec < r * n + r
    BY <1>1, DivFacts
  <1>3. NanosPerByte(r) = n
    BY <1>1 DEF NanosPerByte
  <1> HIDE DEF n
  <1>4. n >= 1
    BY <1>1, <1>2
  <1>5. r * n >= r
    BY <1>1, <1>2, <1>4
  <1>6. r * n \in Nat
    BY <1>1, <1>2, NatProduct
  <1> QED BY <1>1, <1>2, <1>3, <1>4, <1>5, <1>6

\* After a sleep for m missing tokens the refill brings at least half of them,
\* up to the truncations.
LEMMA SleepBringsHalf ==
  ASSUME NEW r \in Rates, r \in 1 .. NanosPerSec,
         NEW m \in Nat, NEW e \in Nat, e >= m * NanosPerByte(r),
         NEW add \in Nat, add = ((e \div NanosPerMicro) * r) \div MicrosPerSec
  PROVE  m < 2 * add + 2 * (r \div MicrosPerSec + 2)
  <1> DEFINE n == NanosPerByte(r)
             q == r \div MicrosPerSec
  <1>1. r \in Nat \ {0} /\ n \in Nat /\ q \in Nat /\ NanosPerSec \in Nat \ {0}
    BY RateFacts, Units
  <1>2. 2 * (r * n) > NanosPerSec
    BY NanosPerByteFacts
  <1>3. NanosPerSec * (add + 1) > r * e - NanosPerMicro * r
    BY <1>1, TokensAtLeast
  <1>4. r < MicrosPerSec * (q + 1)
    BY <1>1, DivFacts, ClockUnitsAssumption
  <1> HIDE DEF n, q
  <1>5. m * n \in Nat /\ r * n \in Nat
    BY <1>1, NatProduct
  <1>6. r * (m * n) <= r * e
    BY <1>1, <1>5, TimesMonotone DEF n
  <1>7. r * (m * n) = m * (r * n)
    BY <1>1
  <1>8. m * NanosPerSec <= m * (2 * (r * n))
    BY <1>1, <1>2, <1>5, TimesMonotone
  <1>9. m * (2 * (r * n)) = 2 * (m * (r * n))
    BY <1>5
  <1>10. NanosPerMicro * r <= NanosPerMicro * (MicrosPerSec * (q + 1))
    <2>1. MicrosPerSec * (q + 1) \in Int
      BY <1>1, ClockUnitsAssumption
    <2> QED BY <2>1, <1>1, <1>4, TimesMonotone, ClockUnitsAssumption
  <1>11. NanosPerMicro * (MicrosPerSec * (q + 1)) = NanosPerSec * (q + 1)
    BY <1>1, Units
  <1>12. /\ r * e \in Int /\ NanosPerMicro * r \in Int /\ m * (r * n) \in Int
         /\ NanosPerSec * (add + 1) \in Int /\ NanosPerSec * (q + 1) \in Int
         /\ m * NanosPerSec \in Int
    BY <1>1, <1>5, ClockUnitsAssumption
  <1>13. m * NanosPerSec < 2 * (NanosPerSec * (add + 1)) + 2 * (NanosPerSec * (q + 1))
    BY <1>3, <1>6, <1>7, <1>8, <1>9, <1>10, <1>11, <1>12
  <1>14. 2 * (NanosPerSec * (add + 1)) + 2 * (NanosPerSec * (q + 1))
           = NanosPerSec * (2 * add + 2 * (q + 2))
    BY <1>1
  <1>15. NanosPerSec * m < NanosPerSec * (2 * add + 2 * (q + 2))
    BY <1>1, <1>13, <1>14
  <1>16. m < 2 * add + 2 * (q + 2)
    BY <1>1, <1>15, TimesCancel
  <1> QED BY <1>16 DEF q

(***************************************************************************)
(* The bucket.                                                             *)
(***************************************************************************)

\* What refill() does: it never takes tokens away, never overfills the bucket,
\* and adds no more than the rate makes in the time it accounts for.
LEMMA RefillFacts ==
  ASSUME TypeOK
  PROVE  LET t  == Refilled.tokens
             at == Refilled.at
         IN  /\ t \in Int /\ t >= tokens /\ t <= Capacity(rate)
             /\ at \in Nat /\ at >= lastRefill /\ at <= now
             /\ TokensToAdd \in Nat
             /\ t = Capacity(rate) \/ t = tokens + TokensToAdd
             /\ NanosPerSec * (t - tokens) <= rate * (at - lastRefill)
  <1>1. /\ rate \in Nat /\ Capacity(rate) \in Nat /\ tokens \in Int
        /\ tokens <= Capacity(rate) /\ NanosPerSec \in Nat
        /\ lastRefill \in Nat /\ now \in Nat /\ lastRefill <= now
    BY RateFacts, Units DEF TypeOK
  <1>2. now - lastRefill \in Nat
    BY <1>1
  <1>3. TokensToAdd \in Nat
    <2>1. (now - lastRefill) \div NanosPerMicro \in Nat
      BY <1>2, DivFacts, ClockUnitsAssumption
    <2>2. ((now - lastRefill) \div NanosPerMicro) * rate \in Nat
      BY <2>1, <1>1, NatProduct
    <2> QED BY <2>2, DivFacts, ClockUnitsAssumption DEF TokensToAdd
  <1>4. NanosPerSec * TokensToAdd <= rate * (now - lastRefill)
    BY <1>1, <1>2, TokensAtMost DEF TokensToAdd
  <1>5. CASE TokensToAdd > 0
    <2>1. /\ Refilled.tokens = SmallerOf(tokens + TokensToAdd, Capacity(rate))
          /\ Refilled.at = now
      BY <1>5 DEF Refilled
    <2>2. /\ Refilled.tokens \in Int /\ Refilled.tokens - tokens <= TokensToAdd
          /\ Refilled.tokens >= tokens /\ Refilled.tokens <= Capacity(rate)
          /\ Refilled.tokens = Capacity(rate) \/ Refilled.tokens = tokens + TokensToAdd
      BY <1>1, <1>3, <2>1 DEF SmallerOf
    <2>3. NanosPerSec * (Refilled.tokens - tokens) <= NanosPerSec * TokensToAdd
      BY <1>1, <1>3, <2>2, TimesMonotone
    <2>4. NanosPerSec * (Refilled.tokens - tokens) <= rate * (now - lastRefill)
      BY <1>1, <1>2, <1>3, <1>4, <2>2, <2>3
    <2> QED BY <1>1, <1>3, <2>1, <2>2, <2>4
  <1>6. CASE ~(TokensToAdd > 0)
    <2>1. Refilled.tokens = tokens /\ Refilled.at = lastRefill
      BY <1>6 DEF Refilled
    <2> QED BY <1>1, <1>3, <1>6, <2>1
  <1> QED BY <1>5, <1>6

\* A consume() that sleeps waits long enough for the tokens it was missing:
\* the part of the inductive invariant that a sleeping bucket needs.
SleepOwed ==
  pending > 0 =>
    /\ tokens < pending
    /\ wake - lastRefill >= (pending - tokens) * NanosPerByte(rate)

BucketInv == TypeOK /\ NothingForFree /\ SleepOwed /\ DebtBounded

\* A new bucket is full.
LEMMA InitBucket == BucketInit => BucketInv
  <1> SUFFICES ASSUME BucketInit PROVE BucketInv
    OBVIOUS
  <1>1. rate \in Nat /\ Capacity(rate) \in Nat /\ Debt(rate) \in Nat /\ rate \in Rates
        /\ NanosPerSec \in Nat
    BY RateFacts, Units DEF BucketInit
  <1>2. TypeOK
    BY <1>1, WritesAssumption DEF BucketInit, TypeOK
  <1>3. NothingForFree
    BY <1>1 DEF BucketInit, NothingForFree
  <1>4. SleepOwed /\ DebtBounded
    BY <1>1 DEF BucketInit, SleepOwed, DebtBounded
  <1> QED BY <1>2, <1>3, <1>4 DEF BucketInv

\* Taking bytes from the refilled bucket keeps its type and its account.
LEMMA TakeKeepsAccount ==
  ASSUME TypeOK, NothingForFree, NEW bytes \in Nat, Take(bytes),
         UNCHANGED <<rate, now, since>>
  PROVE  /\ tokens' \in Int /\ tokens' <= Capacity(rate')
         /\ lastRefill' \in 0 .. now' /\ since' \in 0 .. lastRefill'
         /\ consumed' \in Nat
         /\ NothingForFree'
  <1>1. /\ rate \in Nat /\ Capacity(rate) \in Nat /\ tokens \in Int
        /\ NanosPerSec \in Nat /\ consumed \in Nat /\ since \in Nat
        /\ lastRefill \in Nat /\ now \in Nat /\ lastRefill <= now /\ since <= lastRefill
    BY RateFacts, Units DEF TypeOK
  <1> DEFINE t  == Refilled.tokens
             at == Refilled.at
  <1>2. /\ t \in Int /\ t <= Capacity(rate)
        /\ at \in Nat /\ at >= lastRefill /\ at <= now
        /\ NanosPerSec * (t - tokens) <= rate * (at - lastRefill)
    BY RefillFacts
  <1>3. tokens' = t - bytes /\ lastRefill' = at /\ consumed' = consumed + bytes
    BY DEF Take
  <1> HIDE DEF t, at
  <1>4. /\ tokens' \in Int /\ tokens' <= Capacity(rate')
        /\ lastRefill' \in 0 .. now' /\ since' \in 0 .. lastRefill'
        /\ consumed' \in Nat
    BY <1>1, <1>2, <1>3
  <1>5. consumed' + tokens' - Capacity(rate)
          = (consumed + tokens - Capacity(rate)) + (t - tokens)
    BY <1>1, <1>2, <1>3
  <1>6. NanosPerSec * ((consumed + tokens - Capacity(rate)) + (t - tokens))
          = NanosPerSec * (consumed + tokens - Capacity(rate)) + NanosPerSec * (t - tokens)
    BY <1>1, <1>2
  <1>7. rate * (lastRefill - since) + rate * (at - lastRefill) = rate * (at - since)
    BY <1>1, <1>2
  <1>8. /\ NanosPerSec * (consumed + tokens - Capacity(rate)) \in Int
        /\ NanosPerSec * (t - tokens) \in Int
        /\ rate * (lastRefill - since) \in Int /\ rate * (at - lastRefill) \in Int
    BY <1>1, <1>2
  <1>9. NothingForFree'
    BY <1>1, <1>2, <1>3, <1>5, <1>6, <1>7, <1>8 DEF NothingForFree, NanosPerSec
  <1> QED BY <1>4, <1>9

\* A consume() that does not sleep goes into debt by no more than it would
\* have slept for.
LEMMA ConsumeKeeps ==
  ASSUME BucketInv, NEW bytes \in 1 .. MaxWrite, Consume(bytes)
  PROVE  BucketInv'
  <1>1. /\ TypeOK /\ NothingForFree /\ SleepOwed /\ DebtBounded
        /\ bytes \in Nat /\ UNCHANGED <<rate, now, since>>
        /\ Take(bytes) /\ pending = 0 /\ UNCHANGED <<pending, wake>>
    BY WritesAssumption DEF BucketInv, Consume
  <1>2. /\ tokens' \in Int /\ tokens' <= Capacity(rate')
        /\ lastRefill' \in 0 .. now' /\ since' \in 0 .. lastRefill'
        /\ consumed' \in Nat /\ NothingForFree'
    BY <1>1, TakeKeepsAccount
  <1>3. TypeOK'
    BY <1>1, <1>2 DEF TypeOK
  <1>4. SleepOwed'
    BY <1>1 DEF SleepOwed
  <1>5. DebtBounded'
    <2> SUFFICES ASSUME rate \in 1 .. NanosPerSec
                 PROVE  tokens' >= -Debt(rate)
      BY <1>1 DEF DebtBounded, NanosPerSec, Debt, LargerOf
    <2>1. NanosPerByte(rate) \in Nat /\ NanosPerByte(rate) >= 1 /\ Debt(rate) \in Nat
      BY <1>1, RateFacts, NanosPerByteFacts DEF TypeOK
    <2>2. Refilled.tokens \in Int /\ tokens' = Refilled.tokens - bytes
      BY <1>1, RefillFacts DEF Take
    <2>3. Debt(rate) >= SkipNanos /\ SkipNanos \in Nat
      BY <1>1, RateFacts, ClockUnitsAssumption, WritesAssumption DEF Debt, LargerOf, TypeOK
    <2>4. CASE Refilled.tokens >= bytes
      BY <1>1, <2>1, <2>2, <2>4
    <2>5. CASE Refilled.tokens < bytes
      <3>1. (bytes - Refilled.tokens) * NanosPerByte(rate) <= SkipNanos
        BY <1>1, <2>2, <2>5 DEF Consume, SleepNanos
      <3> DEFINE m == bytes - Refilled.tokens
      <3>2. m \in Nat
        BY <1>1, <2>2, <2>5
      <3>3. m * 1 <= m * NanosPerByte(rate)
        BY <2>1, <3>2, TimesMonotone
      <3>4. m * NanosPerByte(rate) \in Nat
        BY <2>1, <3>2, NatProduct
      <3>5. m <= SkipNanos
        BY <2>3, <3>1, <3>2, <3>3, <3>4
      <3> QED BY <1>1, <2>1, <2>2, <2>3, <3>2, <3>5
    <2> QED BY <1>1, <2>2, <2>4, <2>5
  <1> QED BY <1>2, <1>3, <1>4, <1>5 DEF BucketInv

\* Falling asleep fixes how long the missing tokens take.
LEMMA FallAsleepKeeps ==
  ASSUME BucketInv, NEW bytes \in 1 .. MaxWrite, FallAsleep(bytes)
  PROVE  BucketInv'
  <1>1. /\ TypeOK /\ NothingForFree /\ DebtBounded
        /\ bytes \in Nat /\ bytes <= MaxWrite
        /\ UNCHANGED <<rate, now, since, consumed>>
        /\ tokens' = Refilled.tokens /\ lastRefill' = Refilled.at
        /\ pending' = bytes /\ wake' = now + SleepNanos(bytes)
        /\ SleepNanos(bytes) > SkipNanos
    BY WritesAssumption DEF BucketInv, FallAsleep
  <1> DEFINE t  == Refilled.tokens
             at == Refilled.at
  <1>2. /\ t \in Int /\ t >= tokens /\ t <= Capacity(rate)
        /\ at \in Nat /\ at >= lastRefill /\ at <= now
        /\ NanosPerSec * (t - tokens) <= rate * (at - lastRefill)
    BY <1>1, RefillFacts
  <1>3. /\ rate \in Nat /\ rate \in Rates /\ NanosPerByte(rate) \in Nat /\ now \in Nat
        /\ Debt(rate) \in Nat /\ tokens \in Int /\ since \in Nat
        /\ since <= lastRefill /\ lastRefill \in Nat /\ consumed \in Nat
        /\ Capacity(rate) \in Nat /\ NanosPerSec \in Nat
    BY <1>1, RateFacts, Units DEF TypeOK
  <1>4. t < bytes /\ SleepNanos(bytes) = (bytes - t) * NanosPerByte(rate)
    BY <1>1, <1>2, ClockUnitsAssumption DEF SleepNanos
  <1>5. SleepNanos(bytes) \in Nat
    <2>1. bytes - t \in Nat
      BY <1>1, <1>2, <1>4
    <2> QED BY <2>1, <1>3, <1>4, NatProduct
  <1> HIDE DEF t, at
  <1>6. tokens' = t /\ lastRefill' = at
    BY <1>1 DEF t, at
  <1>7. TypeOK'
    BY <1>1, <1>2, <1>3, <1>5, <1>6, WritesAssumption DEF TypeOK
  <1>8. SleepOwed'
    BY <1>1, <1>2, <1>3, <1>4, <1>5, <1>6 DEF SleepOwed, NanosPerByte, NanosPerSec
  <1>9. DebtBounded'
    <2> SUFFICES ASSUME rate \in 1 .. NanosPerSec
                 PROVE  tokens' >= -Debt(rate)
      BY <1>1 DEF DebtBounded, NanosPerSec, Debt, LargerOf
    <2> QED BY <1>1, <1>2, <1>3, <1>6 DEF DebtBounded
  <1>10. NothingForFree'
    <2>1. consumed' + tokens' - Capacity(rate)
            = (consumed + tokens - Capacity(rate)) + (t - tokens)
      BY <1>1, <1>2, <1>3, <1>6
    <2>2. NanosPerSec * ((consumed + tokens - Capacity(rate)) + (t - tokens))
            = NanosPerSec * (consumed + tokens - Capacity(rate)) + NanosPerSec * (t - tokens)
      BY <1>2, <1>3
    <2>3. rate * (lastRefill - since) + rate * (at - lastRefill) = rate * (at - since)
      BY <1>2, <1>3
    <2>4. /\ NanosPerSec * (consumed + tokens - Capacity(rate)) \in Int
          /\ NanosPerSec * (t - tokens) \in Int
          /\ rate * (lastRefill - since) \in Int /\ rate * (at - lastRefill) \in Int
      BY <1>2, <1>3
    <2> QED BY <1>1, <1>2, <1>3, <1>6, <2>1, <2>2, <2>3, <2>4
            DEF NothingForFree, NanosPerSec
  <1> QED BY <1>7, <1>8, <1>9, <1>10 DEF BucketInv

\* A sleeper that wakes up has at least half of the tokens it was missing, up
\* to the truncations: the debt it takes over is halved before its own is added.
LEMMA WakeUpKeeps ==
  ASSUME BucketInv, WakeUp
  PROVE  BucketInv'
  <1>1. /\ TypeOK /\ NothingForFree /\ SleepOwed /\ DebtBounded
        /\ pending \in Nat /\ pending > 0 /\ pending <= MaxWrite /\ now >= wake
        /\ UNCHANGED <<rate, now, since, wake>> /\ Take(pending) /\ pending' = 0
    BY WritesAssumption DEF BucketInv, WakeUp, TypeOK
  <1>2. /\ tokens' \in Int /\ tokens' <= Capacity(rate')
        /\ lastRefill' \in 0 .. now' /\ since' \in 0 .. lastRefill'
        /\ consumed' \in Nat /\ NothingForFree'
    BY <1>1, TakeKeepsAccount
  <1>3. TypeOK'
    BY <1>1, <1>2, WritesAssumption DEF TypeOK
  <1>4. SleepOwed'
    BY <1>1 DEF SleepOwed
  <1>5. DebtBounded'
    <2> SUFFICES ASSUME rate \in 1 .. NanosPerSec
                 PROVE  tokens' >= -Debt(rate)
      BY <1>1 DEF DebtBounded, NanosPerSec, Debt, LargerOf
    <2> DEFINE t == Refilled.tokens
               q == rate \div MicrosPerSec
               m == pending - tokens
               e == now - lastRefill
    <2>1. /\ rate \in Rates /\ rate \in Nat /\ Debt(rate) \in Nat
          /\ Capacity(rate) \in Nat /\ q \in Nat
          /\ NanosPerByte(rate) \in Nat
          /\ tokens \in Int /\ now \in Nat /\ wake \in Nat /\ lastRefill \in Nat
          /\ tokens >= -Debt(rate)
      BY <1>1, RateFacts DEF TypeOK, DebtBounded
    <2>2. /\ t \in Int /\ TokensToAdd \in Nat
          /\ t = Capacity(rate) \/ t = tokens + TokensToAdd
      BY <1>1, RefillFacts
    <2>3. tokens' = t - pending
      BY <1>1 DEF Take
    <2>4. /\ Debt(rate) >= MaxWrite + 2 * (q + 2)
      BY <2>1, ClockUnitsAssumption, WritesAssumption DEF Debt, LargerOf
    <2>5. m \in Nat /\ m * NanosPerByte(rate) \in Nat
      <3>1. m \in Nat
        BY <1>1, <2>1 DEF SleepOwed
      <3> QED BY <3>1, <2>1, NatProduct
    <2>6. wake - lastRefill >= m * NanosPerByte(rate)
      BY <1>1 DEF SleepOwed
    <2>7. TokensToAdd = ((e \div NanosPerMicro) * rate) \div MicrosPerSec
      BY DEF TokensToAdd
    <2> HIDE DEF t, m
    <2>8. e \in Nat /\ e >= m * NanosPerByte(rate)
      BY <1>1, <2>1, <2>5, <2>6
    <2>9. m < 2 * TokensToAdd + 2 * (q + 2)
      BY <2>1, <2>2, <2>5, <2>7, <2>8, SleepBringsHalf
    <2> HIDE DEF q, e
    <2>10. m = pending - tokens
      BY DEF m
    <2>11. CASE t = Capacity(rate)
      BY <1>1, <2>1, <2>3, <2>4, <2>11, WritesAssumption
    <2>12. CASE t = tokens + TokensToAdd
      BY <1>1, <2>1, <2>2, <2>3, <2>4, <2>5, <2>9, <2>10, <2>12, WritesAssumption
    <2> QED BY <2>2, <2>11, <2>12
  <1> QED BY <1>2, <1>3, <1>4, <1>5 DEF BucketInv

\* set_bandwidth and reset start the account anew, with a full bucket.
LEMMA SetBandwidthKeeps ==
  ASSUME BucketInv, NEW r \in Rates, SetBandwidth(r)
  PROVE  BucketInv'
  <1>1. /\ TypeOK /\ now \in Nat /\ pending' = 0 /\ rate' = r /\ tokens' = Capacity(r)
        /\ lastRefill' = now /\ since' = now /\ consumed' = 0 /\ now' = now
        /\ UNCHANGED wake
    BY DEF BucketInv, TypeOK, SetBandwidth
  <1>2. r \in Nat /\ Capacity(r) \in Nat /\ Debt(r) \in Nat /\ NanosPerSec \in Nat
    BY RateFacts, Units
  <1>3. TypeOK'
    BY <1>1, <1>2, WritesAssumption DEF TypeOK
  <1>4. NothingForFree'
    BY <1>1, <1>2 DEF NothingForFree, NanosPerSec, Capacity, LargerOf
  <1>5. SleepOwed'
    BY <1>1 DEF SleepOwed
  <1>6. DebtBounded'
    BY <1>1, <1>2 DEF DebtBounded, Capacity, LargerOf, Debt
  <1> QED BY <1>3, <1>4, <1>5, <1>6 DEF BucketInv

\* Time passes.
LEMMA TickKeeps ==
  ASSUME BucketInv, Tick \/ UNCHANGED bucketVars
  PROVE  BucketInv'
  <1>1. /\ TypeOK /\ NothingForFree /\ SleepOwed /\ DebtBounded
        /\ UNCHANGED <<rate, tokens, lastRefill, pending, wake, since, consumed>>
        /\ now' \in Nat /\ now' >= now
    BY DEF BucketInv, TypeOK, Tick, bucketVars
  <1>2. TypeOK'
    BY <1>1 DEF TypeOK
  <1>3. NothingForFree' /\ SleepOwed' /\ DebtBounded'
    BY <1>1 DEF NothingForFree, SleepOwed, DebtBounded
  <1> QED BY <1>2, <1>3 DEF BucketInv

\* The inductive invariant.
LEMMA BucketInductive == BucketSpec => []BucketInv
  <1>1. BucketInv /\ [BucketNext]_bucketVars => BucketInv'
    <2> SUFFICES ASSUME BucketInv, [BucketNext]_bucketVars PROVE BucketInv'
      OBVIOUS
    <2>1. CASE \E bytes \in 1 .. MaxWrite : Consume(bytes) \/ FallAsleep(bytes)
      BY <2>1, ConsumeKeeps, FallAsleepKeeps
    <2>2. CASE WakeUp
      BY <2>2, WakeUpKeeps
    <2>3. CASE \E r \in Rates : SetBandwidth(r)
      BY <2>3, SetBandwidthKeeps
    <2>4. CASE Tick \/ UNCHANGED bucketVars
      BY <2>4, TickKeeps
    <2> QED BY <2>1, <2>2, <2>3, <2>4 DEF BucketNext
  <1> QED BY <1>1, InitBucket, PTL DEF BucketSpec

\* The bucket never holds more than its capacity, and its clocks are in order.
THEOREM BucketTypeCorrect == BucketSpec => []TypeOK
  BY BucketInductive, PTL DEF BucketInv

\* token_bucket.rs creates no tokens: what was consumed and what is left is at
\* most the burst and what the rate makes.
THEOREM TokensAreEarned == BucketSpec => []NothingForFree
  BY BucketInductive, PTL DEF BucketInv

\* consume() keeps a bucket of at most 10^9 bytes per second within its debt,
\* although it sleeps only once and takes the bytes in any case.
THEOREM DebtIsBounded == BucketSpec => []DebtBounded
  BY BucketInductive, PTL DEF BucketInv

\* The senders of such a bucket are paced: over any time they send no more than
\* the rate, a burst and a bounded debt, however late their sleeps end.
THEOREM RateIsRespected == BucketSpec => []RateRespected
  <1>1. BucketInv => RateRespected
    <2> SUFFICES ASSUME BucketInv, rate \in 1 .. NanosPerSec PROVE WithinRate(rate)
      BY DEF RateRespected
    <2>1. /\ rate \in Nat /\ Capacity(rate) \in Nat /\ Debt(rate) \in Nat
          /\ NanosPerSec \in Nat /\ tokens \in Int /\ consumed \in Nat
          /\ lastRefill \in Nat /\ now \in Nat /\ since \in Nat
          /\ since <= lastRefill /\ lastRefill <= now
      BY RateFacts, Units DEF BucketInv, TypeOK
    <2>2. consumed - Capacity(rate) - Debt(rate) <= consumed + tokens - Capacity(rate)
      BY <2>1 DEF BucketInv, DebtBounded
    <2>3. NanosPerSec * (consumed - Capacity(rate) - Debt(rate))
            <= NanosPerSec * (consumed + tokens - Capacity(rate))
      BY <2>1, <2>2, TimesMonotone
    <2>4. NanosPerSec * (consumed + tokens - Capacity(rate)) <= rate * (lastRefill - since)
      BY DEF BucketInv, NothingForFree
    <2>5. rate * (lastRefill - since) <= rate * (now - since)
      BY <2>1, TimesMonotone
    <2>6. /\ NanosPerSec * (consumed - Capacity(rate) - Debt(rate)) \in Int
          /\ NanosPerSec * (consumed + tokens - Capacity(rate)) \in Int
          /\ rate * (lastRefill - since) \in Int /\ rate * (now - since) \in Int
      BY <2>1
    <2> QED BY <2>3, <2>4, <2>5, <2>6 DEF WithinRate
  <1> QED BY <1>1, BucketInductive, PTL

=============================================================================
