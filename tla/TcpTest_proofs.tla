---------------------------- MODULE TcpTest_proofs ----------------------------
(***************************************************************************)
(* Theorems about TcpTest, for every set of clients and every bound: the   *)
(* types, the handshake, the refinement of TestLifecycle, the accounts of  *)
(* what was sent, is queued, was counted and was lost in a reset, and that *)
(* the two ends of a connection never wait for each other.                 *)
(***************************************************************************)
EXTENDS TcpTest, TLAPS

-----------------------------------------------------------------------------
(* What the helpers on chunks and queues return.                           *)

\* A frame of the protocol, and a buffer of test data, is a chunk.
LEMMA FrameType_Chunk ==
  ASSUME NEW t \in FrameType
  PROVE  Frame(t) \in Chunk /\ Frame(t).type = t
BY DEF Frame, Chunk

\* The Result frame is a chunk.
LEMMA ResultMsg_Chunk ==
  ASSUME NEW s \in Nat, NEW r \in Nat
  PROVE  ResultMsg(s, r) \in Chunk /\ ResultMsg(s, r).type = "Result"
BY DEF ResultMsg, Chunk

\* What a reset leaves of a queue is a prefix of it, still in order.
LEMMA PrefixFacts ==
  ASSUME NEW q \in Seq(Chunk), NEW p \in Prefixes(q)
  PROVE  /\ p \in Seq(Chunk)
         /\ Len(p) <= Len(q)
         /\ \A i \in 1 .. Len(p) : p[i] = q[i]
<1>1. PICK n \in 0 .. Len(q) : p = SubSeq(q, 1, n)
  BY DEF Prefixes
<1>2. n <= Len(q) /\ n \in Nat /\ Len(q) \in Nat
  BY <1>1
<1>3. p \in Seq(Chunk) /\ Len(p) = n
  BY <1>1, <1>2
<1>4. \A i \in 1 .. n : p[i] = q[i]
  BY <1>1, <1>2
<1> QED BY <1>2, <1>3, <1>4

\* A read leaves the rest of the queue.
LEMMA RestFacts ==
  ASSUME NEW q \in Seq(Chunk), NEW n \in 1 .. Len(q)
  PROVE  Rest(q, n) \in Seq(Chunk) /\ Len(Rest(q, n)) = Len(q) - n
BY DEF Rest

\* Decoding the head of a queue gives a chunk or an error and never lengthens
\* the queue.
LEMMA DecodedFacts ==
  ASSUME NEW q \in Seq(Chunk)
  PROVE  /\ Decoded(q) \in Chunk \cup {Undecodable}
         /\ Undecoded(q) \in Seq(Chunk)
         /\ Len(Undecoded(q)) <= Len(q)
BY DEF Decoded, Undecoded

-----------------------------------------------------------------------------
(* Type correctness                                                        *)

\* The part of TypeOK about the connections.
QueuesOK ==
  /\ c2s \in [Clients -> Seq(Chunk)]
  /\ s2c \in [Clients -> Seq(Chunk)]
  /\ \A c \in Clients : Len(c2s[c]) <= SockBuf /\ Len(s2c[c]) <= SockBuf
  /\ reset \in [Clients -> BOOLEAN]

\* Replacing one queue by another that fits keeps a direction well formed.
LEMMA ReplaceQueue ==
  ASSUME NEW f \in [Clients -> Seq(Chunk)], \A d \in Clients : Len(f[d]) <= SockBuf,
         NEW c \in Clients, NEW q \in Seq(Chunk), Len(q) <= SockBuf
  PROVE  /\ [f EXCEPT ![c] = q] \in [Clients -> Seq(Chunk)]
         /\ \A d \in Clients : Len([f EXCEPT ![c] = q][d]) <= SockBuf
OBVIOUS

\* The empty queue fits.
LEMMA EmptyQueue == <<>> \in Seq(Chunk) /\ Len(<<>>) = 0 /\ 0 <= SockBuf
BY BoundsAssumption

\* Closing either end keeps the queues well formed.
LEMMA CloseQueues ==
  ASSUME QueuesOK, NEW c \in Clients, NEW unread,
         ClientCloses(c, unread) \/ HandlerCloses(c, unread)
  PROVE  QueuesOK'
<1>1. CASE ClientCloses(c, unread)
  <2>1. reset' \in [Clients -> BOOLEAN]
    BY <1>1 DEF ClientCloses, QueuesOK
  <2>2. s2c' = [s2c EXCEPT ![c] = <<>>]
    BY <1>1 DEF ClientCloses
  <2>3. PICK q \in Seq(Chunk) : /\ c2s' = [c2s EXCEPT ![c] = q]
                                /\ Len(q) <= Len(c2s[c])
    BY <1>1, PrefixFacts DEF ClientCloses, QueuesOK
  <2>4. Len(q) <= SockBuf
    BY <2>3, BoundsAssumption DEF QueuesOK
  <2> QED BY <2>1, <2>2, <2>3, <2>4, EmptyQueue, ReplaceQueue DEF QueuesOK
<1>2. CASE HandlerCloses(c, unread)
  <2>1. reset' \in [Clients -> BOOLEAN]
    BY <1>2 DEF HandlerCloses, QueuesOK
  <2>2. c2s' = [c2s EXCEPT ![c] = <<>>]
    BY <1>2 DEF HandlerCloses
  <2>3. PICK q \in Seq(Chunk) : /\ s2c' = [s2c EXCEPT ![c] = q]
                                /\ Len(q) <= Len(s2c[c])
    BY <1>2, PrefixFacts DEF HandlerCloses, QueuesOK
  <2>4. Len(q) <= SockBuf
    BY <2>3, BoundsAssumption DEF QueuesOK
  <2> QED BY <2>1, <2>2, <2>3, <2>4, EmptyQueue, ReplaceQueue DEF QueuesOK
<1> QED BY <1>1, <1>2

\* A write of a chunk keeps them well formed: it waits for room.
LEMMA WriteQueues ==
  ASSUME QueuesOK, NEW c \in Clients, NEW chunk \in Chunk,
         ClientWrites(c, chunk) \/ HandlerWrites(c, chunk)
  PROVE  QueuesOK'
<1>1. ASSUME NEW f \in [Clients -> Seq(Chunk)], HasRoom(f[c])
      PROVE  Append(f[c], chunk) \in Seq(Chunk) /\ Len(Append(f[c], chunk)) <= SockBuf
  BY <1>1, BoundsAssumption DEF HasRoom
<1>2. ASSUME NEW f \in [Clients -> Seq(Chunk)], Len(f[c]) <= SockBuf,
             NEW p \in Prefixes(f[c])
      PROVE  p \in Seq(Chunk) /\ Len(p) <= SockBuf
  BY <1>2, PrefixFacts, BoundsAssumption
<1>3. reset' \in [Clients -> BOOLEAN]
  BY DEF ClientWrites, HandlerWrites, QueuesOK
<1>4. CASE ClientWrites(c, chunk)
  <2>1. CASE HandlerGone(c)
    <3>1. PICK q \in Prefixes(s2c[c]) : s2c' = [s2c EXCEPT ![c] = q]
      BY <1>4, <2>1 DEF ClientWrites
    <3>2. q \in Seq(Chunk) /\ Len(q) <= SockBuf
      BY <1>2 DEF QueuesOK
    <3>3. c2s' = c2s
      BY <1>4, <2>1 DEF ClientWrites
    <3> QED BY <1>3, <3>1, <3>2, <3>3, ReplaceQueue DEF QueuesOK
  <2>2. CASE ~HandlerGone(c)
    <3>1. HasRoom(c2s[c]) /\ s2c' = s2c
      BY <1>4, <2>2 DEF ClientWrites
    <3>2. c2s' = [c2s EXCEPT ![c] = Append(c2s[c], chunk)]
      BY <1>4, <2>2 DEF ClientWrites
    <3>3. Append(c2s[c], chunk) \in Seq(Chunk) /\ Len(Append(c2s[c], chunk)) <= SockBuf
      BY <1>1, <3>1 DEF QueuesOK
    <3> QED BY <1>3, <3>1, <3>2, <3>3, ReplaceQueue DEF QueuesOK
  <2> QED BY <2>1, <2>2
<1>5. CASE HandlerWrites(c, chunk)
  <2>1. CASE ClientGone(c)
    <3>1. PICK q \in Prefixes(c2s[c]) : c2s' = [c2s EXCEPT ![c] = q]
      BY <1>5, <2>1 DEF HandlerWrites
    <3>2. q \in Seq(Chunk) /\ Len(q) <= SockBuf
      BY <1>2 DEF QueuesOK
    <3>3. s2c' = s2c
      BY <1>5, <2>1 DEF HandlerWrites
    <3> QED BY <1>3, <3>1, <3>2, <3>3, ReplaceQueue DEF QueuesOK
  <2>2. CASE ~ClientGone(c)
    <3>1. HasRoom(s2c[c]) /\ c2s' = c2s
      BY <1>5, <2>2 DEF HandlerWrites
    <3>2. s2c' = [s2c EXCEPT ![c] = Append(s2c[c], chunk)]
      BY <1>5, <2>2 DEF HandlerWrites
    <3>3. Append(s2c[c], chunk) \in Seq(Chunk) /\ Len(Append(s2c[c], chunk)) <= SockBuf
      BY <1>1, <3>1 DEF QueuesOK
    <3> QED BY <1>3, <3>1, <3>2, <3>3, ReplaceQueue DEF QueuesOK
  <2> QED BY <2>1, <2>2
<1> QED BY <1>4, <1>5

\* Taking chunks from one direction keeps it well formed.
LEMMA TakeQueue ==
  ASSUME NEW f \in [Clients -> Seq(Chunk)], \A d \in Clients : Len(f[d]) <= SockBuf,
         NEW c \in Clients, NEW q \in Seq(Chunk), Len(q) <= Len(f[c])
  PROVE  /\ [f EXCEPT ![c] = q] \in [Clients -> Seq(Chunk)]
         /\ \A d \in Clients : Len([f EXCEPT ![c] = q][d]) <= SockBuf
<1>1. Len(q) <= SockBuf
  BY BoundsAssumption
<1> QED BY <1>1, ReplaceQueue

\* Counting on one side of the shared collector keeps its shape.
LEMMA CountUp ==
  ASSUME NEW r \in [sent : Nat, received : Nat], NEW n \in Nat
  PROVE  /\ [r EXCEPT !.sent = r.sent + n] \in [sent : Nat, received : Nat]
         /\ [r EXCEPT !.received = r.received + n] \in [sent : Nat, received : Nat]
OBVIOUS

\* The other parts of TypeOK.
PlacesOK == cpc \in [Clients -> ClientPC] /\ spc \in [Clients -> HandlerPC]

FlagsOK ==
  /\ reverse \in SUBSET Clients
  /\ listening \in BOOLEAN
  /\ cTimeUp \in [Clients -> BOOLEAN]
  /\ sTimeUp \in [Clients -> BOOLEAN]
  /\ cancelled \in [Clients -> BOOLEAN]

CountsOK ==
  /\ cBytes \in [Clients -> Nat]
  /\ hBytes \in [Clients -> Nat]
  /\ collector \in [sent : Nat, received : Nat]
  /\ granted \subseteq Clients

Ending == [result : Chunk \cup {Undecodable}, done : Chunk \cup {Undecodable}]
OutcomeOK == outcome \in [Clients -> Ending]

\* The type invariant is the conjunction of its five parts.
LEMMA TypeParts ==
  TypeOK <=> QueuesOK /\ PlacesOK /\ FlagsOK /\ CountsOK /\ OutcomeOK
BY DEF TypeOK, QueuesOK, PlacesOK, FlagsOK, CountsOK, OutcomeOK, Ending

\* No step sends the program to a place it does not have.
LEMMA PlacesInductive == PlacesOK /\ [Next]_vars => PlacesOK'
<1> SUFFICES ASSUME PlacesOK, [Next]_vars PROVE PlacesOK'
  OBVIOUS
<1> USE DEF PlacesOK, GoTo, HandlerGoTo, ClientPC, HandlerPC, ClientDone, HandlerDone
<1>1. ASSUME NEW c \in Clients, ClientStep(c) PROVE PlacesOK'
  BY <1>1
  DEF ClientStep, ClientConnect, ClientSendSetup, ClientReadAck,
     ClientReadStart, ClientLoops, ClientLeavesLoop, ClientSendsBulk,
     ClientReadsBulk, ClientReadTimesOut, ClientReadResult, ClientReadDone,
     ClientExpects, ClientFails, clientRest, clientTimer
<1>2. ASSUME NEW c \in Clients, HandlerStep(c) PROVE PlacesOK'
  BY <1>2
  DEF HandlerStep, ServerAccept, HandlerReadSetup, HandlerSendAck,
     HandlerSendStart, HandlerLoops, HandlerLeavesLoop, HandlerSendsBulk,
     HandlerReadsBulk, HandlerReadTimesOut, HandlerSendResult, HandlerSendDone,
     HandlerReturns, HandlerSends, HandlerFails, handlerRest, handlerState
<1>3. CASE \/ \E c \in Clients : \/ ClientTimeUp(c)  \/ ClientCancel(c)
                                 \/ ClientAborts(c)  \/ HandlerTimeUp(c)
                                 \/ HandlerKilled(c)
           \/ ServerStops \/ Finished \/ UNCHANGED vars
  BY <1>3
  DEF ClientTimeUp, ClientCancel, ClientAborts, HandlerTimeUp, HandlerKilled,
     ServerStops, Finished, vars,
     clientRest, clientTimer, handlerRest, handlerState
<1> QED BY <1>1, <1>2, <1>3 DEF Next

\* The flags that the clocks, the user and the network set stay Booleans.
LEMMA FlagsInductive == FlagsOK /\ [Next]_vars => FlagsOK'
<1> SUFFICES ASSUME FlagsOK, [Next]_vars PROVE FlagsOK'
  OBVIOUS
<1> USE DEF FlagsOK
<1>1. ASSUME NEW c \in Clients, ClientStep(c) PROVE FlagsOK'
  BY <1>1
  DEF ClientStep, ClientConnect, ClientSendSetup, ClientReadAck,
     ClientReadStart, ClientLoops, ClientLeavesLoop, ClientSendsBulk,
     ClientReadsBulk, ClientReadTimesOut, ClientReadResult, ClientReadDone,
     ClientExpects, ClientFails, clientRest, clientTimer
<1>2. ASSUME NEW c \in Clients, HandlerStep(c) PROVE FlagsOK'
  BY <1>2
  DEF HandlerStep, ServerAccept, HandlerReadSetup, HandlerSendAck,
     HandlerSendStart, HandlerLoops, HandlerLeavesLoop, HandlerSendsBulk,
     HandlerReadsBulk, HandlerReadTimesOut, HandlerSendResult, HandlerSendDone,
     HandlerReturns, HandlerSends, HandlerFails, handlerRest, handlerState
<1>3. CASE \/ \E c \in Clients : \/ ClientTimeUp(c)  \/ ClientCancel(c)
                                 \/ ClientAborts(c)  \/ HandlerTimeUp(c)
                                 \/ HandlerKilled(c)
           \/ ServerStops \/ Finished \/ UNCHANGED vars
  BY <1>3
  DEF ClientTimeUp, ClientCancel, ClientAborts, HandlerTimeUp, HandlerKilled,
     ServerStops, Finished, vars,
     clientRest, clientTimer, handlerRest, handlerState
<1> QED BY <1>1, <1>2, <1>3 DEF Next

\* The counters only ever grow, by whole buffers.
LEMMA CountsInductive == QueuesOK /\ CountsOK /\ [Next]_vars => CountsOK'
<1> SUFFICES ASSUME QueuesOK, CountsOK, [Next]_vars PROVE CountsOK'
  OBVIOUS
<1>1. ASSUME NEW c \in Clients, ClientReadsBulk(c) PROVE CountsOK'
  <2>1. PICK n \in 1 .. Len(s2c[c]) : cBytes' = [cBytes EXCEPT ![c] = @ + n]
    BY <1>1 DEF ClientReadsBulk
  <2>2. UNCHANGED <<hBytes, collector, granted>>
    BY <1>1 DEF ClientReadsBulk, clientRest
  <2> QED BY <2>1, <2>2 DEF CountsOK
<1>2. ASSUME NEW c \in Clients, ClientStep(c), ~ClientReadsBulk(c) PROVE CountsOK'
  <2>1. CASE ClientSendsBulk(c)
    BY <2>1 DEF CountsOK, ClientSendsBulk, clientRest
  <2>2. CASE ~ClientSendsBulk(c)
    <3>1. UNCHANGED <<cBytes, hBytes, collector, granted>>
      BY <1>2, <2>2
      DEF ClientStep, ClientConnect, ClientSendSetup, ClientReadAck,
         ClientReadStart, ClientLoops, ClientLeavesLoop, ClientReadTimesOut,
         ClientReadResult, ClientReadDone, ClientExpects, ClientFails,
         clientRest, clientTimer
    <3> QED BY <3>1 DEF CountsOK
  <2> QED BY <2>1, <2>2
<1>3. ASSUME NEW c \in Clients, HandlerReadsBulk(c) PROVE CountsOK'
  <2>1. PICK n \in 1 .. Len(c2s[c]) :
          /\ hBytes' = [hBytes EXCEPT ![c] = @ + n]
          /\ collector' = [collector EXCEPT !.received = @ + n]
    BY <1>3 DEF HandlerReadsBulk
  <2>2. UNCHANGED <<cBytes, granted>>
    BY <1>3 DEF HandlerReadsBulk, handlerRest
  <2>3. hBytes' \in [Clients -> Nat]
    BY <2>1 DEF CountsOK
  <2>4. collector' \in [sent : Nat, received : Nat]
    <3>1. n \in Nat /\ collector \in [sent : Nat, received : Nat]
      BY DEF CountsOK
    <3> QED BY <2>1, <3>1, CountUp
  <2> QED BY <2>2, <2>3, <2>4 DEF CountsOK
<1>4. ASSUME NEW c \in Clients, HandlerSendsBulk(c) PROVE CountsOK'
  <2>1. /\ hBytes' = [hBytes EXCEPT ![c] = @ + 1]
        /\ collector' = [collector EXCEPT !.sent = @ + 1]
        /\ UNCHANGED <<cBytes, granted>>
    BY <1>4 DEF HandlerSendsBulk, handlerRest
  <2>2. hBytes' \in [Clients -> Nat]
    BY <2>1 DEF CountsOK
  <2>3. collector' \in [sent : Nat, received : Nat]
    BY <2>1, CountUp DEF CountsOK
  <2> QED BY <2>1, <2>2, <2>3 DEF CountsOK
<1>5. ASSUME NEW c \in Clients, HandlerStep(c),
             ~HandlerReadsBulk(c), ~HandlerSendsBulk(c)
      PROVE  CountsOK'
  <2>1. UNCHANGED <<cBytes, hBytes, collector>> /\ granted' \subseteq Clients
    BY <1>5
    DEF CountsOK, HandlerStep, ServerAccept, HandlerReadSetup, HandlerSendAck,
     HandlerSendStart, HandlerLoops, HandlerLeavesLoop,
     HandlerReadTimesOut, HandlerSendResult, HandlerSendDone,
     HandlerReturns, HandlerSends, HandlerFails, handlerRest, handlerState
  <2> QED BY <2>1 DEF CountsOK
<1>6. CASE \/ \E c \in Clients : \/ ClientTimeUp(c)  \/ ClientCancel(c)
                                 \/ ClientAborts(c)  \/ HandlerTimeUp(c)
                                 \/ HandlerKilled(c)
           \/ ServerStops \/ Finished \/ UNCHANGED vars
  BY <1>6
  DEF CountsOK, ClientTimeUp, ClientCancel, ClientAborts, HandlerTimeUp, HandlerKilled,
     ServerStops, Finished, vars,
     clientRest, clientTimer, handlerRest, handlerState
<1> QED BY <1>1, <1>2, <1>3, <1>4, <1>5, <1>6 DEF Next

\* Recording what was read keeps the shape of an outcome.
LEMMA RecordOutcome ==
  ASSUME NEW f \in [Clients -> Ending], NEW c \in Clients,
         NEW m \in Chunk \cup {Undecodable}
  PROVE  /\ [f EXCEPT ![c].result = m] \in [Clients -> Ending]
         /\ [f EXCEPT ![c].done = m] \in [Clients -> Ending]
<1>1. f[c] \in Ending
  OBVIOUS
<1>2. [f[c] EXCEPT !.result = m] \in Ending /\ [f[c] EXCEPT !.done = m] \in Ending
  BY <1>1 DEF Ending
<1> QED BY <1>2

\* What the client remembers of Result and Done is a chunk or a decoding error.
LEMMA OutcomeInductive == QueuesOK /\ OutcomeOK /\ [Next]_vars => OutcomeOK'
<1> SUFFICES ASSUME QueuesOK, OutcomeOK, [Next]_vars PROVE OutcomeOK'
  OBVIOUS
<1>1. ASSUME NEW c \in Clients, ClientReadResult(c) \/ ClientReadDone(c)
      PROVE  OutcomeOK'
  <2>1. Decoded(s2c[c]) \in Chunk \cup {Undecodable}
    BY DecodedFacts DEF QueuesOK
  <2>2. \/ outcome' = [outcome EXCEPT ![c].result = Decoded(s2c[c])]
        \/ outcome' = [outcome EXCEPT ![c].done = Decoded(s2c[c])]
    BY <1>1 DEF ClientReadResult, ClientReadDone
  <2>3. PICK m \in Chunk \cup {Undecodable} :
          \/ outcome' = [outcome EXCEPT ![c].result = m]
          \/ outcome' = [outcome EXCEPT ![c].done = m]
    BY <2>1, <2>2
  <2>4. /\ [outcome EXCEPT ![c].result = m] \in [Clients -> Ending]
        /\ [outcome EXCEPT ![c].done = m] \in [Clients -> Ending]
    BY RecordOutcome DEF OutcomeOK
  <2> QED BY <2>3, <2>4 DEF OutcomeOK
<1>2. ASSUME NEW c \in Clients, ClientStep(c),
             ~ClientReadResult(c), ~ClientReadDone(c)
      PROVE  OutcomeOK'
  BY <1>2
  DEF OutcomeOK, ClientStep, ClientConnect, ClientSendSetup, ClientReadAck,
     ClientReadStart, ClientLoops, ClientLeavesLoop, ClientSendsBulk,
     ClientReadsBulk, ClientReadTimesOut,
     ClientExpects, ClientFails, clientRest, clientTimer
<1>3. ASSUME NEW c \in Clients, HandlerStep(c) PROVE OutcomeOK'
  BY <1>3
  DEF OutcomeOK, HandlerStep, ServerAccept, HandlerReadSetup, HandlerSendAck,
     HandlerSendStart, HandlerLoops, HandlerLeavesLoop, HandlerSendsBulk,
     HandlerReadsBulk, HandlerReadTimesOut, HandlerSendResult, HandlerSendDone,
     HandlerReturns, HandlerSends, HandlerFails, handlerRest, handlerState
<1>4. CASE \/ \E c \in Clients : \/ ClientTimeUp(c)  \/ ClientCancel(c)
                                 \/ ClientAborts(c)  \/ HandlerTimeUp(c)
                                 \/ HandlerKilled(c)
           \/ ServerStops \/ Finished \/ UNCHANGED vars
  BY <1>4
  DEF OutcomeOK, ClientTimeUp, ClientCancel, ClientAborts, HandlerTimeUp, HandlerKilled,
     ServerStops, Finished, vars,
     clientRest, clientTimer, handlerRest, handlerState
<1> QED BY <1>1, <1>2, <1>3, <1>4 DEF Next

\* The queues stay queues of chunks, and bounded: every read shortens one,
\* every write waits for room, every close empties one and cuts the other.
LEMMA QueuesInductive == QueuesOK /\ CountsOK /\ [Next]_vars => QueuesOK'
<1> SUFFICES ASSUME QueuesOK, CountsOK, [Next]_vars PROVE QueuesOK'
  OBVIOUS
<1>s. ASSUME NEW c \in Clients, NEW q \in Seq(Chunk), Len(q) <= Len(s2c[c]),
             s2c' = [s2c EXCEPT ![c] = q], UNCHANGED <<c2s, reset>>
      PROVE  QueuesOK'
  BY <1>s, TakeQueue DEF QueuesOK
<1>c. ASSUME NEW c \in Clients, NEW q \in Seq(Chunk), Len(q) <= Len(c2s[c]),
             c2s' = [c2s EXCEPT ![c] = q], UNCHANGED <<s2c, reset>>
      PROVE  QueuesOK'
  BY <1>c, TakeQueue DEF QueuesOK
<1>t. ASSUME NEW q \in Seq(Chunk), Decoded(q) # Undecodable
      PROVE  Tail(q) \in Seq(Chunk) /\ Len(Tail(q)) <= Len(q)
  BY <1>t DEF Decoded
<1>u. ASSUME UNCHANGED <<c2s, s2c, reset>> PROVE QueuesOK'
  BY <1>u DEF QueuesOK
<1>1. ASSUME NEW c \in Clients, ClientSendSetup(c) PROVE QueuesOK'
  <2>1. Frame("Setup") \in Chunk
    BY FrameType_Chunk DEF FrameType
  <2> QED BY <1>1, <2>1, WriteQueues, CloseQueues DEF ClientSendSetup, ClientFails
<1>2. ASSUME NEW c \in Clients, ClientReadAck(c) \/ ClientReadStart(c) PROVE QueuesOK'
  <2>1. PICK type \in {"SetupAck", "Start"} :
          \/ Decoded(s2c[c]).type = type /\ s2c' = [s2c EXCEPT ![c] = Tail(@)]
               /\ UNCHANGED <<c2s, reset>>
          \/ ClientCloses(c, Undecoded(s2c[c]))
    BY <1>2 DEF ClientReadAck, ClientReadStart, ClientExpects, ClientFails
  <2>2. CASE Decoded(s2c[c]).type = type /\ s2c' = [s2c EXCEPT ![c] = Tail(@)]
               /\ UNCHANGED <<c2s, reset>>
    <3>1. Decoded(s2c[c]) # Undecodable
      BY <2>2 DEF Undecodable, Frame
    <3>2. Tail(s2c[c]) \in Seq(Chunk) /\ Len(Tail(s2c[c])) <= Len(s2c[c])
      BY <3>1, <1>t DEF QueuesOK
    <3> QED BY <2>2, <3>2, <1>s
  <2> QED BY <2>1, <2>2, CloseQueues
<1>3. ASSUME NEW c \in Clients, ClientSendsBulk(c) \/ HandlerSendsBulk(c) PROVE QueuesOK'
  <2>1. Bulk \in Chunk
    BY FrameType_Chunk DEF Bulk, FrameType
  <2> QED BY <1>3, <2>1, WriteQueues DEF ClientSendsBulk, HandlerSendsBulk
<1>4. ASSUME NEW c \in Clients, ClientReadsBulk(c) PROVE QueuesOK'
  <2>1. PICK n \in 1 .. Len(s2c[c]) : s2c' = [s2c EXCEPT ![c] = Rest(s2c[c], n)]
    BY <1>4 DEF ClientReadsBulk
  <2>2. Rest(s2c[c], n) \in Seq(Chunk) /\ Len(Rest(s2c[c], n)) = Len(s2c[c]) - n
    BY RestFacts DEF QueuesOK
  <2>3. Len(s2c[c]) - n <= Len(s2c[c])
    BY DEF QueuesOK
  <2>4. UNCHANGED <<c2s, reset>>
    BY <1>4 DEF ClientReadsBulk
  <2> QED BY <2>1, <2>2, <2>3, <2>4, <1>s
<1>5. ASSUME NEW c \in Clients, HandlerReadsBulk(c) PROVE QueuesOK'
  <2>1. PICK n \in 1 .. Len(c2s[c]) : c2s' = [c2s EXCEPT ![c] = Rest(c2s[c], n)]
    BY <1>5 DEF HandlerReadsBulk
  <2>2. Rest(c2s[c], n) \in Seq(Chunk) /\ Len(Rest(c2s[c], n)) = Len(c2s[c]) - n
    BY RestFacts DEF QueuesOK
  <2>3. Len(c2s[c]) - n <= Len(c2s[c])
    BY DEF QueuesOK
  <2>4. UNCHANGED <<s2c, reset>>
    BY <1>5 DEF HandlerReadsBulk
  <2> QED BY <2>1, <2>2, <2>3, <2>4, <1>c
<1>6. ASSUME NEW c \in Clients, ClientReadResult(c) PROVE QueuesOK'
  <2>1. Undecoded(s2c[c]) \in Seq(Chunk) /\ Len(Undecoded(s2c[c])) <= Len(s2c[c])
    BY DecodedFacts DEF QueuesOK
  <2>2. s2c' = [s2c EXCEPT ![c] = Undecoded(s2c[c])] /\ UNCHANGED <<c2s, reset>>
    BY <1>6 DEF ClientReadResult
  <2> QED BY <2>1, <2>2, <1>s
<1>7. ASSUME NEW c \in Clients, ClientReadDone(c) \/ ClientAborts(c) PROVE QueuesOK'
  BY <1>7, CloseQueues DEF ClientReadDone, ClientAborts
<1>8. ASSUME NEW c \in Clients, HandlerReadSetup(c) PROVE QueuesOK'
  <2>1. CASE Decoded(c2s[c]).type = "Setup"
    <3>1. Decoded(c2s[c]) # Undecodable
      BY <2>1 DEF Undecodable, Frame
    <3>2. Tail(c2s[c]) \in Seq(Chunk) /\ Len(Tail(c2s[c])) <= Len(c2s[c])
      BY <3>1, <1>t DEF QueuesOK
    <3>3. c2s' = [c2s EXCEPT ![c] = Tail(c2s[c])] /\ UNCHANGED <<s2c, reset>>
      BY <1>8, <2>1 DEF HandlerReadSetup
    <3> QED BY <3>2, <3>3, <1>c
  <2>2. CASE Decoded(c2s[c]).type # "Setup"
    BY <1>8, <2>2, CloseQueues DEF HandlerReadSetup, HandlerFails
  <2> QED BY <2>1, <2>2
<1>9. ASSUME NEW c \in Clients, HandlerSendAck(c) \/ HandlerSendStart(c) \/ HandlerSendDone(c)
      PROVE QueuesOK'
  <2>1. /\ Frame("SetupAck") \in Chunk /\ Frame("Start") \in Chunk
        /\ Frame("Done") \in Chunk
    BY FrameType_Chunk DEF FrameType
  <2>2. PICK chunk \in Chunk : HandlerWrites(c, chunk) \/ HandlerCloses(c, c2s[c])
    BY <1>9, <2>1
    DEF HandlerSendAck, HandlerSendStart, HandlerSendDone, HandlerSends, HandlerFails
  <2> QED BY <2>2, WriteQueues, CloseQueues
<1>10. ASSUME NEW c \in Clients, HandlerSendResult(c) PROVE QueuesOK'
  <2>1. ResultMsg(collector.sent, collector.received) \in Chunk
    BY ResultMsg_Chunk DEF CountsOK
  <2> QED BY <1>10, <2>1, <1>u, WriteQueues, CloseQueues
          DEF HandlerSendResult, HandlerSends, HandlerFails
<1>11. ASSUME NEW c \in Clients, HandlerReturns(c) \/ HandlerKilled(c) PROVE QueuesOK'
  BY <1>11, CloseQueues DEF HandlerReturns, HandlerKilled
<1>12. ASSUME ServerStops PROVE QueuesOK'
  <2>1. s2c' = s2c /\ reset' \in [Clients -> BOOLEAN]
    BY <1>12 DEF ServerStops, QueuesOK
  <2>2. \A c \in Clients : c2s'[c] \in {c2s[c], <<>>}
    BY <1>12 DEF ServerStops
  <2>3. c2s' \in [Clients -> Seq(Chunk)]
    <3>1. c2s' = [c \in Clients |-> c2s'[c]]
      BY <1>12 DEF ServerStops
    <3>2. \A c \in Clients : c2s'[c] \in Seq(Chunk)
      BY <2>2, EmptyQueue DEF QueuesOK
    <3> QED BY <3>1, <3>2
  <2>4. \A c \in Clients : Len(c2s'[c]) <= SockBuf
    BY <2>2, EmptyQueue DEF QueuesOK
  <2> QED BY <2>1, <2>3, <2>4 DEF QueuesOK
<1>13. CASE \/ \E c \in Clients :
                 \/ ClientConnect(c) \/ ClientLoops(c)  \/ ClientLeavesLoop(c)
                 \/ ClientReadTimesOut(c) \/ ClientTimeUp(c) \/ ClientCancel(c)
                 \/ ServerAccept(c)  \/ HandlerLoops(c) \/ HandlerLeavesLoop(c)
                 \/ HandlerReadTimesOut(c) \/ HandlerTimeUp(c)
            \/ Finished \/ UNCHANGED vars
  <2>1. UNCHANGED <<c2s, s2c, reset>>
    BY <1>13
    DEF ClientConnect, ClientLoops, ClientLeavesLoop, ClientReadTimesOut,
        ClientTimeUp, ClientCancel, ServerAccept, HandlerLoops,
        HandlerLeavesLoop, HandlerReadTimesOut, HandlerTimeUp, Finished, vars
  <2> QED BY <2>1, <1>u
<1> QED
  BY <1>1, <1>2, <1>3, <1>4, <1>5, <1>6, <1>7, <1>8, <1>9, <1>10, <1>11, <1>12,
     <1>13
  DEF Next, ClientStep, HandlerStep

\* Before the first connection every variable has its type.
LEMMA InitTypes == Init => TypeOK
<1> SUFFICES ASSUME Init PROVE TypeOK
  OBVIOUS
<1>1. QueuesOK
  BY EmptyQueue DEF Init, QueuesOK
<1>2. PlacesOK /\ FlagsOK
  BY ChoicesAssumption DEF Init, PlacesOK, FlagsOK, ClientPC, HandlerPC
<1>3. CountsOK
  BY DEF Init, CountsOK
<1>4. OutcomeOK
  BY DEF Init, OutcomeOK, Ending
<1> QED BY <1>1, <1>2, <1>3, <1>4, TypeParts

\* Every state of a TCP test is well typed: both programs are at a place they
\* have, the queues hold chunks and never more than the kernel takes, and the
\* counters are natural numbers.
THEOREM TypeCorrect == Spec => []TypeOK
<1> DEFINE Parts == QueuesOK /\ PlacesOK /\ FlagsOK /\ CountsOK /\ OutcomeOK
<1>1. Init => Parts
  BY InitTypes, TypeParts
<1>2. Parts /\ [Next]_vars => Parts'
  BY QueuesInductive, PlacesInductive, FlagsInductive, CountsInductive,
     OutcomeInductive
<1>3. Parts => TypeOK
  BY TypeParts
<1> QED BY <1>1, <1>2, <1>3, PTL DEF Spec

-----------------------------------------------------------------------------
(* The handshake                                                           *)

\* Nothing of connection d changes, and no grant is taken back.
Untouched(d) ==
  /\ cpc'[d] = cpc[d] /\ spc'[d] = spc[d] /\ reset'[d] = reset[d]
  /\ c2s'[d] = c2s[d] /\ s2c'[d] = s2c[d]
  /\ d \in granted => d \in granted'
  /\ cBytes'[d] = cBytes[d] /\ hBytes'[d] = hBytes[d] /\ reverse' = reverse

\* A step that leaves a connection alone keeps its handshake.
LEMMA KeepsUntouched ==
  ASSUME NEW d, HandshakeOf(d), Untouched(d)
  PROVE  HandshakeOf(d)'
BY DEF HandshakeOf, Untouched

\* A step of one client or of its handler touches only its connection.
LEMMA OneConnection ==
  ASSUME TypeOK, NEW c \in Clients, NEW d \in Clients \ {c},
         \/ ClientStep(c)   \/ ClientTimeUp(c)  \/ ClientCancel(c)
         \/ ClientAborts(c) \/ HandlerStep(c)   \/ HandlerTimeUp(c)
         \/ HandlerKilled(c)
  PROVE  Untouched(d)
<1> USE DEF TypeOK, Untouched, GoTo, HandlerGoTo
<1>1. CASE ClientStep(c)
  <2>1. CASE \/ ClientConnect(c) \/ ClientLoops(c) \/ ClientLeavesLoop(c)
             \/ ClientReadTimesOut(c)
    BY <2>1
    DEF ClientConnect, ClientLoops, ClientLeavesLoop, ClientReadTimesOut,
       ClientFails, ClientCloses, clientRest, clientTimer
  <2>2. CASE ClientReadAck(c) \/ ClientReadStart(c)
    BY <2>2
    DEF ClientReadAck, ClientReadStart, ClientExpects, ClientFails, ClientCloses,
       clientRest, clientTimer
  <2>3. CASE ClientReadResult(c) \/ ClientReadDone(c)
    BY <2>3
    DEF ClientReadResult, ClientReadDone, ClientExpects, ClientFails, ClientCloses,
       clientRest, clientTimer
  <2>4. CASE ClientSendSetup(c) \/ ClientSendsBulk(c) \/ ClientReadsBulk(c)
    BY <2>4
    DEF ClientSendSetup, ClientSendsBulk, ClientReadsBulk, ClientFails,
       ClientWrites, ClientCloses, clientRest, clientTimer
  <2> QED BY <1>1, <2>1, <2>2, <2>3, <2>4 DEF ClientStep
<1>2. CASE HandlerStep(c)
  <2>1. CASE \/ ServerAccept(c) \/ HandlerReadSetup(c) \/ HandlerLoops(c)
             \/ HandlerLeavesLoop(c) \/ HandlerReadTimesOut(c) \/ HandlerReturns(c)
    BY <2>1
    DEF ServerAccept, HandlerReadSetup, HandlerLoops, HandlerLeavesLoop,
       HandlerReadTimesOut, HandlerReturns, HandlerFails, HandlerCloses,
       handlerRest, handlerState
  <2>2. CASE \/ HandlerSendAck(c) \/ HandlerSendStart(c)
             \/ HandlerSendResult(c) \/ HandlerSendDone(c)
    BY <2>2
    DEF HandlerSendAck, HandlerSendStart, HandlerSendResult, HandlerSendDone,
       HandlerSends, HandlerFails, HandlerWrites, HandlerCloses,
       handlerRest, handlerState
  <2>3. CASE HandlerSendsBulk(c) \/ HandlerReadsBulk(c)
    BY <2>3
    DEF HandlerSendsBulk, HandlerReadsBulk, HandlerFails, HandlerWrites,
       HandlerCloses, handlerRest, handlerState
  <2> QED BY <1>2, <2>1, <2>2, <2>3 DEF HandlerStep
<1>3. CASE \/ ClientTimeUp(c)  \/ ClientCancel(c) \/ ClientAborts(c)
           \/ HandlerTimeUp(c) \/ HandlerKilled(c)
  BY <1>3
  DEF ClientTimeUp, ClientCancel, ClientAborts, HandlerTimeUp, HandlerKilled,
     ClientCloses, HandlerCloses, clientRest, clientTimer, handlerRest, handlerState
<1> QED BY <1>1, <1>2, <1>3

\* The first two chunks of what a reset leaves are those that were queued.
LEMMA CutFacts ==
  ASSUME NEW q \in Seq(Chunk), NEW p \in Prefixes(q)
  PROVE  /\ p \in Seq(Chunk)
         /\ Len(p) >= 1 => Len(q) >= 1 /\ p[1] = q[1]
         /\ Len(p) >= 2 => Len(q) >= 2 /\ p[2] = q[2]
         /\ q = <<>> => p = <<>>
<1>1. p \in Seq(Chunk) /\ Len(p) <= Len(q) /\ \A i \in 1 .. Len(p) : p[i] = q[i]
  BY PrefixFacts
<1>2. Len(p) \in Nat /\ Len(q) \in Nat
  BY <1>1
<1> QED BY <1>1, <1>2

\* When the client closes, the server's frames are gone with its end and what
\* the client wrote is at most cut.
LEMMA ClientClosed ==
  ASSUME TypeOK, NEW c \in Clients, NEW unread, HandshakeOf(c), cpc[c] # "idle",
         ClientCloses(c, unread), cpc'[c] \in ClientDone, spc' = spc,
         granted' = granted
  PROVE  HandshakeOf(c)'
<1>1. s2c'[c] = <<>>
  BY DEF ClientCloses, TypeOK
<1>2. c2s'[c] \in Prefixes(c2s[c]) \/ c2s'[c] = c2s[c]
  BY DEF ClientCloses, TypeOK
<1>3. Len(c2s'[c]) >= 1 => Len(c2s[c]) >= 1 /\ c2s'[c][1] = c2s[c][1]
  BY <1>2, CutFacts DEF TypeOK
<1> QED BY <1>1, <1>3 DEF HandshakeOf, ClientDone

\* When the handler closes, what it wrote is at most cut.
LEMMA HandlerClosed ==
  ASSUME TypeOK, NEW c \in Clients, NEW unread, HandshakeOf(c),
         spc[c] \notin {"none", "backlog"},
         HandlerCloses(c, unread), spc'[c] \in HandlerDone, cpc' = cpc,
         granted' = granted
  PROVE  HandshakeOf(c)'
<1>1. c2s'[c] = <<>>
  BY DEF HandlerCloses, TypeOK
<1>2. s2c'[c] \in Prefixes(s2c[c]) \/ s2c'[c] = s2c[c]
  BY DEF HandlerCloses, TypeOK
<1>3. /\ Len(s2c'[c]) >= 1 => Len(s2c[c]) >= 1 /\ s2c'[c][1] = s2c[c][1]
      /\ Len(s2c'[c]) >= 2 => Len(s2c[c]) >= 2 /\ s2c'[c][2] = s2c[c][2]
  BY <1>2, CutFacts DEF TypeOK
<1> QED BY <1>1, <1>3 DEF HandshakeOf, HandlerDone

\* A frame of the client's data phase changes nothing that the handshake reads.
LEMMA ClientWroteData ==
  ASSUME TypeOK, NEW c \in Clients, NEW chunk \in Chunk, HandshakeOf(c),
         ClientWrites(c, chunk), cpc[c] = "io", cpc'[c] = "data", spc' = spc,
         granted' = granted
  PROVE  HandshakeOf(c)'
<1>1. c2s'[c] = c2s[c] \/ c2s'[c] = Append(c2s[c], chunk)
  BY DEF ClientWrites, TypeOK
<1>2. spc[c] \notin {"none", "backlog", "setup", "ack"}
  BY DEF HandshakeOf
<1> QED BY <1>1, <1>2 DEF HandshakeOf

\* What a handler in its data phase or later writes comes behind SetupAck and
\* Start.
LEMMA HandlerWroteData ==
  ASSUME TypeOK, NEW c \in Clients, NEW chunk \in Chunk, HandshakeOf(c),
         HandlerWrites(c, chunk), spc[c] \in {"io", "result", "done"},
         spc'[c] \in {"data", "done", "closing"}, cpc' = cpc,
         granted' = granted
  PROVE  HandshakeOf(c)'
<1>1. ~reset[c] /\ s2c[c] \in Seq(Chunk) /\ c2s[c] \in Seq(Chunk)
  BY DEF HandlerWrites, TypeOK
<1>2. CASE ClientGone(c)
  BY <1>2 DEF HandshakeOf, ClientGone, ClientDone
<1>3. CASE ~ClientGone(c)
  <2>1. s2c'[c] = Append(s2c[c], chunk) /\ c2s'[c] = c2s[c] /\ reset'[c] = reset[c]
    BY <1>3 DEF HandlerWrites, TypeOK
  <2>2. /\ Len(s2c'[c]) = Len(s2c[c]) + 1 /\ Len(s2c[c]) \in Nat
        /\ Len(s2c[c]) >= 1 => s2c'[c][1] = s2c[c][1]
        /\ Len(s2c[c]) >= 2 => s2c'[c][2] = s2c[c][2]
    BY <1>1, <2>1
  <2>3. CASE cpc[c] = "ack"
    <3>1. Len(s2c[c]) >= 2
      BY <1>1, <2>3 DEF HandshakeOf
    <3> QED BY <2>1, <2>2, <2>3, <3>1 DEF HandshakeOf
  <2>4. CASE cpc[c] = "start"
    <3>1. Len(s2c[c]) >= 1
      BY <1>1, <2>4 DEF HandshakeOf
    <3> QED BY <2>1, <2>2, <2>4, <3>1 DEF HandshakeOf
  <2>5. CASE cpc[c] \notin {"ack", "start"}
    BY <2>1, <2>5 DEF HandshakeOf, HandlerDone
  <2> QED BY <2>3, <2>4, <2>5
<1> QED BY <1>2, <1>3

\* Moving within the data phase of either end changes nothing either.
LEMMA MovedOn ==
  ASSUME NEW c \in Clients, HandshakeOf(c),
         UNCHANGED <<c2s, reset, granted>>,
         \/ /\ cpc[c] \in {"data", "io", "result", "done"}
            /\ cpc'[c] \in {"data", "io", "result", "done"}
            /\ UNCHANGED spc
         \/ /\ spc[c] \in {"data", "io", "result", "done"}
            /\ spc'[c] \in {"data", "io", "result", "done"}
            /\ UNCHANGED <<cpc, s2c>>
  PROVE  HandshakeOf(c)'
BY DEF HandshakeOf, HandlerDone

-----------------------------------------------------------------------------
(* One step per action                                                     *)

\* The client's steps on its own connection.
LEMMA ClientKeepsHandshake ==
  ASSUME TypeOK, NEW c \in Clients, HandshakeOf(c), ClientStep(c)
  PROVE  HandshakeOf(c)'
<1>q. s2c[c] \in Seq(Chunk) /\ c2s[c] \in Seq(Chunk)
  BY DEF TypeOK
<1>1. CASE ClientConnect(c)
  BY <1>1 DEF ClientConnect, HandshakeOf, TypeOK, GoTo, HandlerDone
<1>2. CASE ClientSendSetup(c)
  <2>1. CASE ClientFails(c, s2c[c])
    BY <1>2, <2>1, ClientClosed
    DEF ClientSendSetup, ClientFails, GoTo, TypeOK, ClientDone, clientRest
  <2>2. CASE ~ClientFails(c, s2c[c])
    <3>1. /\ ClientWrites(c, Frame("Setup")) /\ cpc[c] = "setup" /\ cpc'[c] = "ack"
          /\ UNCHANGED <<spc, granted>>
      BY <1>2, <2>2 DEF ClientSendSetup, GoTo, TypeOK, clientRest
    <3>2. /\ c2s[c] = <<>>
          /\ spc[c] \in {"none", "backlog", "setup"} \cup HandlerDone
      BY <3>1 DEF HandshakeOf
    <3>0. s2c[c] = <<>>
      BY <3>1 DEF HandshakeOf
    <3>3. CASE HandlerGone(c)
      <4>1. /\ c2s' = c2s
            /\ s2c'[c] \in Prefixes(s2c[c])
            /\ reset'[c]
        BY <3>1, <3>3 DEF ClientWrites, TypeOK
      <4>2. s2c'[c] = <<>>
        BY <3>0, <4>1, <1>q, CutFacts
      <4> QED BY <3>1, <3>2, <3>3, <4>1, <4>2 DEF HandshakeOf, HandlerGone, HandlerDone
    <3>4. CASE ~HandlerGone(c)
      <4>1. /\ c2s'[c] = Append(c2s[c], Frame("Setup"))
            /\ s2c' = s2c /\ reset' = reset
        BY <3>1, <3>4 DEF ClientWrites, TypeOK
      <4>2. c2s'[c][1].type = "Setup"
        BY <3>2, <4>1 DEF Frame
      <4> QED BY <3>0, <3>1, <3>2, <3>4, <4>1, <4>2
              DEF HandshakeOf, HandlerGone, HandlerDone
    <3> QED BY <3>3, <3>4
  <2> QED BY <2>1, <2>2
<1>3. CASE ClientReadAck(c)
  <2>1. CASE Decoded(s2c[c]).type = "SetupAck"
    <3>1. s2c[c] # <<>>
      BY <2>1 DEF Decoded, Undecodable, Frame
    <3>2. /\ cpc[c] = "ack" /\ cpc'[c] = "start" /\ s2c'[c] = Tail(s2c[c])
          /\ UNCHANGED <<spc, c2s, reset, granted>>
      BY <1>3, <2>1 DEF ClientReadAck, ClientExpects, GoTo, TypeOK, clientRest
    <3>3. /\ Len(s2c[c]) \in Nat /\ Len(s2c[c]) >= 1
          /\ Len(s2c'[c]) = Len(s2c[c]) - 1
          /\ Len(s2c'[c]) >= 1 => s2c'[c][1] = s2c[c][2]
      BY <1>q, <3>1, <3>2
    <3>4. spc[c] \notin {"none", "backlog", "setup", "ack"}
      BY <3>1 DEF HandshakeOf
    <3> QED BY <3>2, <3>3, <3>4 DEF HandshakeOf
  <2>2. CASE Decoded(s2c[c]).type # "SetupAck"
    BY <1>3, <2>2, ClientClosed
    DEF ClientReadAck, ClientExpects, ClientFails, GoTo, TypeOK, ClientDone, clientRest
  <2> QED BY <2>1, <2>2
<1>4. CASE ClientReadStart(c)
  <2>1. CASE Decoded(s2c[c]).type = "Start"
    <3>1. s2c[c] # <<>>
      BY <2>1 DEF Decoded, Undecodable, Frame
    <3>2. /\ cpc[c] = "start" /\ cpc'[c] = "data"
          /\ UNCHANGED <<spc, c2s, reset, granted>>
      BY <1>4, <2>1 DEF ClientReadStart, ClientExpects, GoTo, TypeOK, clientRest
    <3>3. Len(s2c[c]) \in Nat /\ Len(s2c[c]) >= 1
      BY <1>q, <3>1
    <3> QED BY <3>2, <3>3 DEF HandshakeOf
  <2>2. CASE Decoded(s2c[c]).type # "Start"
    BY <1>4, <2>2, ClientClosed
    DEF ClientReadStart, ClientExpects, ClientFails, GoTo, TypeOK, ClientDone, clientRest
  <2> QED BY <2>1, <2>2
<1>5. CASE ClientSendsBulk(c)
  <2>1. Bulk \in Chunk
    BY FrameType_Chunk DEF Bulk, FrameType
  <2> QED BY <1>5, <2>1, ClientWroteData DEF ClientSendsBulk, GoTo, TypeOK, clientRest
<1>6. CASE ClientReadDone(c)
  BY <1>6, ClientClosed DEF ClientReadDone, GoTo, TypeOK, ClientDone, clientRest
<1>7. CASE \/ ClientLoops(c) \/ ClientLeavesLoop(c) \/ ClientReadsBulk(c)
           \/ ClientReadTimesOut(c) \/ ClientReadResult(c)
  BY <1>7, MovedOn
  DEF ClientLoops, ClientLeavesLoop, ClientReadsBulk, ClientReadTimesOut,
      ClientReadResult, GoTo, TypeOK, clientRest
<1> QED BY <1>1, <1>2, <1>3, <1>4, <1>5, <1>6, <1>7 DEF ClientStep

\* The handler's steps on its own connection.
LEMMA HandlerKeepsHandshake ==
  ASSUME TypeOK, NEW c \in Clients, HandshakeOf(c), HandlerStep(c)
  PROVE  HandshakeOf(c)'
<1>q. s2c[c] \in Seq(Chunk) /\ c2s[c] \in Seq(Chunk)
  BY DEF TypeOK
<1>f. ASSUME NEW unread, spc[c] \notin {"none", "backlog"}, HandlerFails(c, unread)
      PROVE  HandshakeOf(c)'
  BY <1>f, HandlerClosed
  DEF HandlerFails, HandlerGoTo, TypeOK, HandlerDone, handlerRest, handlerState
<1>1. CASE ServerAccept(c)
  BY <1>1 DEF ServerAccept, HandshakeOf, HandlerGoTo, TypeOK, handlerRest, handlerState,
              HandlerDone
<1>2. CASE HandlerReadSetup(c)
  <2>1. CASE Decoded(c2s[c]).type = "Setup"
    <3>1. c2s[c] # <<>>
      BY <2>1 DEF Decoded, Undecodable, Frame
    <3>2. /\ spc[c] = "setup" /\ spc'[c] = "ack"
          /\ UNCHANGED <<cpc, s2c, reset, granted>>
      BY <1>2, <2>1 DEF HandlerReadSetup, HandlerGoTo, TypeOK, handlerRest, handlerState
    <3>3. cpc[c] \notin {"idle", "setup"}
      BY <3>1 DEF HandshakeOf
    <3> QED BY <3>2, <3>3 DEF HandshakeOf
  <2>2. CASE Decoded(c2s[c]).type # "Setup"
    BY <1>2, <2>2, <1>f DEF HandlerReadSetup
  <2> QED BY <2>1, <2>2
<1>3. CASE HandlerSendAck(c)
  <2>1. CASE HandlerFails(c, c2s[c])
    BY <1>3, <2>1, <1>f DEF HandlerSendAck
  <2>2. CASE ~HandlerFails(c, c2s[c])
    <3>1. /\ spc[c] = "ack" /\ spc'[c] = "start"
          /\ HandlerWrites(c, Frame("SetupAck"))
          /\ UNCHANGED <<cpc, granted>>
      BY <1>3, <2>2 DEF HandlerSendAck, HandlerSends, HandlerGoTo, TypeOK,
                        handlerRest, handlerState
    <3>2. /\ s2c[c] = <<>> /\ cpc[c] \notin {"idle", "setup", "start", "data", "io", "result", "done"}
      BY <3>1 DEF HandshakeOf, HandlerDone
    <3>3. CASE ClientGone(c)
      BY <3>1, <3>2, <3>3 DEF HandshakeOf, ClientGone, ClientDone
    <3>4. CASE ~ClientGone(c)
      <4>1. s2c'[c] = Append(s2c[c], Frame("SetupAck")) /\ c2s' = c2s /\ reset' = reset
        BY <3>1, <3>4 DEF HandlerWrites, TypeOK
      <4>2. Len(s2c'[c]) = 1 /\ s2c'[c][1].type = "SetupAck"
        BY <3>2, <4>1 DEF Frame
      <4> QED BY <3>1, <3>2, <4>1, <4>2 DEF HandshakeOf
    <3> QED BY <3>3, <3>4
  <2> QED BY <2>1, <2>2
<1>4. CASE HandlerSendStart(c)
  <2>1. CASE HandlerFails(c, c2s[c])
    BY <1>4, <2>1, <1>f DEF HandlerSendStart
  <2>2. CASE ~HandlerFails(c, c2s[c])
    <3>1. /\ spc[c] = "start" /\ spc'[c] = "data"
          /\ HandlerWrites(c, Frame("Start"))
          /\ c \in granted' /\ cpc' = cpc
      BY <1>4, <2>2 DEF HandlerSendStart, HandlerGoTo, TypeOK, handlerRest
    <3>2. ~reset[c] /\ cpc[c] \notin {"idle", "setup"}
      BY <3>1 DEF HandshakeOf, HandlerDone, HandlerWrites
    <3>3. CASE ClientGone(c)
      BY <3>1, <3>2, <3>3 DEF HandshakeOf, ClientGone, ClientDone
    <3>4. CASE ~ClientGone(c)
      <4>1. s2c'[c] = Append(s2c[c], Frame("Start")) /\ c2s' = c2s /\ reset' = reset
        BY <3>1, <3>4 DEF HandlerWrites, TypeOK
      <4>2. /\ Len(s2c'[c]) = Len(s2c[c]) + 1
            /\ s2c'[c][Len(s2c[c]) + 1].type = "Start"
            /\ Len(s2c[c]) >= 1 => s2c'[c][1] = s2c[c][1]
        BY <1>q, <4>1 DEF Frame
      <4>3. CASE cpc[c] = "ack"
        <5>1. Len(s2c[c]) = 1 /\ s2c[c][1].type = "SetupAck"
          BY <3>1, <3>2, <4>3 DEF HandshakeOf
        <5> QED BY <3>1, <4>1, <4>2, <4>3, <5>1 DEF HandshakeOf
      <4>4. CASE cpc[c] = "start"
        <5>1. Len(s2c[c]) = 0
          BY <3>1, <3>2, <4>4 DEF HandshakeOf
        <5> QED BY <3>1, <4>1, <4>2, <4>4, <5>1 DEF HandshakeOf
      <4>5. CASE cpc[c] \notin {"ack", "start"}
        BY <3>1, <3>2, <4>1, <4>5 DEF HandshakeOf
      <4> QED BY <4>3, <4>4, <4>5
    <3> QED BY <3>3, <3>4
  <2> QED BY <2>1, <2>2
<1>5. CASE HandlerSendsBulk(c)
  <2>1. Bulk \in Chunk
    BY FrameType_Chunk DEF Bulk, FrameType
  <2> QED BY <1>5, <2>1, HandlerWroteData
          DEF HandlerSendsBulk, HandlerGoTo, TypeOK, handlerRest
<1>6. CASE HandlerSendResult(c) /\ collector.sent + collector.received > 0
  <2>1. ResultMsg(collector.sent, collector.received) \in Chunk
    BY ResultMsg_Chunk DEF TypeOK
  <2> QED BY <1>6, <2>1, <1>f, HandlerWroteData
          DEF HandlerSendResult, HandlerSends, HandlerGoTo, TypeOK, handlerRest, handlerState
<1>7. CASE HandlerSendDone(c)
  <2>1. Frame("Done") \in Chunk
    BY FrameType_Chunk DEF FrameType
  <2> QED BY <1>7, <2>1, <1>f, HandlerWroteData
          DEF HandlerSendDone, HandlerSends, HandlerGoTo, TypeOK, handlerRest, handlerState
<1>8. CASE HandlerReturns(c)
  BY <1>8, HandlerClosed
  DEF HandlerReturns, HandlerGoTo, TypeOK, HandlerDone, handlerRest, handlerState
<1>9. CASE \/ HandlerReadsBulk(c) \/ HandlerReadTimesOut(c) \/ HandlerLoops(c)
           \/ HandlerLeavesLoop(c)
           \/ (HandlerSendResult(c) /\ ~(collector.sent + collector.received > 0))
  <2>1. /\ spc[c] \in {"data", "io", "result"} /\ spc'[c] \in {"data", "io", "result", "done"}
        /\ UNCHANGED <<cpc, s2c, reset, granted>>
    BY <1>9
    DEF HandlerReadsBulk, HandlerReadTimesOut, HandlerLoops, HandlerLeavesLoop,
        HandlerSendResult, HandlerGoTo, TypeOK, handlerRest, handlerState
  <2>2. cpc[c] \notin {"idle", "setup"}
    BY <2>1 DEF HandshakeOf, HandlerDone
  <2>3. spc'[c] \notin {"none", "backlog", "setup", "ack", "start"}
    BY <2>1
  <2>4. CASE spc[c] \in {"data", "io", "result", "done"}
    BY <2>1, <2>2, <2>3, <2>4 DEF HandshakeOf
  <2> QED BY <2>1, <2>4
<1>10. CASE HandlerSendResult(c)
  BY <1>6, <1>9, <1>10
<1> QED BY <1>1, <1>2, <1>3, <1>4, <1>5, <1>7, <1>8, <1>9, <1>10 DEF HandlerStep

\* The clocks, the user and the end of a process.
LEMMA OthersKeepHandshake ==
  ASSUME TypeOK, NEW c \in Clients, HandshakeOf(c),
         \/ ClientTimeUp(c)  \/ ClientCancel(c) \/ ClientAborts(c)
         \/ HandlerTimeUp(c) \/ HandlerKilled(c)
  PROVE  HandshakeOf(c)'
<1>1. CASE ClientTimeUp(c) \/ ClientCancel(c) \/ HandlerTimeUp(c)
  BY <1>1 DEF HandshakeOf, ClientTimeUp, ClientCancel, HandlerTimeUp,
              clientRest, clientTimer, handlerRest, handlerState
<1>2. CASE ClientAborts(c)
  BY <1>2, ClientClosed
  DEF ClientAborts, GoTo, TypeOK, ClientDone, clientRest
<1>3. CASE HandlerKilled(c)
  BY <1>3, HandlerClosed
  DEF HandlerKilled, HandlerGoTo, TypeOK, HandlerDone, handlerRest, handlerState
<1> QED BY <1>1, <1>2, <1>3

\* Stopping the server resets what waits in the backlog; nothing was sent there.
LEMMA StopKeepsHandshake ==
  ASSUME TypeOK, ServerStops, NEW c \in Clients, HandshakeOf(c)
  PROVE  HandshakeOf(c)'
<1>1. CASE spc[c] = "backlog"
  <2>1. /\ c2s'[c] = <<>> /\ s2c' = s2c /\ cpc' = cpc /\ spc'[c] = "refused"
        /\ reset'[c]
        /\ granted' = granted
    BY <1>1 DEF ServerStops, TypeOK
  <2>2. s2c[c] = <<>> /\ cpc[c] \notin {"idle", "start", "data", "io", "result", "done"}
    BY <1>1 DEF HandshakeOf
  <2> QED BY <2>1, <2>2 DEF HandshakeOf, HandlerDone
<1>2. CASE spc[c] # "backlog"
  <2>1. Untouched(c)
    BY <1>2 DEF ServerStops, Untouched, TypeOK
  <2> QED BY <2>1, KeepsUntouched
<1> QED BY <1>1, <1>2

\* The handshake invariant is inductive.
LEMMA HandshakeInductive ==
  TypeOK /\ HandshakeInv /\ [Next]_vars => HandshakeInv'
<1> SUFFICES ASSUME TypeOK, HandshakeInv, [Next]_vars, NEW d \in Clients
             PROVE  HandshakeOf(d)'
  BY DEF HandshakeInv
<1>0. HandshakeOf(d)
  BY DEF HandshakeInv
<1>1. ASSUME NEW c \in Clients,
             \/ ClientStep(c)   \/ ClientTimeUp(c)  \/ ClientCancel(c)
             \/ ClientAborts(c) \/ HandlerStep(c)   \/ HandlerTimeUp(c)
             \/ HandlerKilled(c)
      PROVE  HandshakeOf(d)'
  <2>1. CASE d = c
    BY <1>0, <1>1, <2>1, ClientKeepsHandshake, HandlerKeepsHandshake, OthersKeepHandshake
  <2>2. CASE d # c
    BY <1>0, <1>1, <2>2, OneConnection, KeepsUntouched
  <2> QED BY <2>1, <2>2
<1>2. CASE ServerStops
  BY <1>0, <1>2, StopKeepsHandshake
<1>3. CASE Finished \/ UNCHANGED vars
  <2>1. Untouched(d)
    BY <1>3 DEF Finished, vars, Untouched
  <2> QED BY <1>0, <2>1, KeepsUntouched
<1> QED BY <1>1, <1>2, <1>3 DEF Next

\* The explanation of the handshake holds in every state, for any number of
\* clients.
THEOREM HandshakeExplained == Spec => []HandshakeInv
<1>1. Init => HandshakeInv
  <2> SUFFICES ASSUME Init, NEW c \in Clients PROVE HandshakeOf(c)
    BY DEF HandshakeInv
  <2>1. cpc[c] = "idle" /\ spc[c] = "none" /\ c2s[c] = <<>> /\ s2c[c] = <<>>
    BY DEF Init
  <2>2. ~(Len(c2s[c]) >= 1)
    BY <2>1
  <2> QED BY <2>1, <2>2 DEF HandshakeOf
<1>2. TypeOK /\ HandshakeInv /\ [Next]_vars => HandshakeInv'
  BY HandshakeInductive
<1> QED BY <1>1, <1>2, TypeCorrect, PTL DEF Spec

\* No interleaving of a client, its handler, a cancellation, a dropped client
\* or a stopping server makes either end of the handshake of run_tcp and
\* handle_tcp_client meet a frame that it does not expect.
THEOREM HandshakeIsInOrder == Spec => []HandshakeInOrder
<1>1. TypeOK /\ HandshakeInv => HandshakeInOrder
  <2> SUFFICES ASSUME TypeOK, HandshakeInv, NEW c \in Clients
               PROVE  /\ cpc[c] = "ack"   /\ s2c[c] # <<>> => Head(s2c[c]).type = "SetupAck"
                      /\ cpc[c] = "start" /\ s2c[c] # <<>> => Head(s2c[c]).type = "Start"
                      /\ spc[c] = "setup" /\ c2s[c] # <<>> => Head(c2s[c]).type = "Setup"
    BY DEF HandshakeInOrder
  <2>1. s2c[c] \in Seq(Chunk) /\ c2s[c] \in Seq(Chunk)
    BY DEF TypeOK
  <2>2. /\ s2c[c] # <<>> => Len(s2c[c]) >= 1 /\ Head(s2c[c]) = s2c[c][1]
        /\ c2s[c] # <<>> => Len(c2s[c]) >= 1 /\ Head(c2s[c]) = c2s[c][1]
    BY <2>1
  <2> QED BY <2>2 DEF HandshakeInv, HandshakeOf
<1> QED BY <1>1, TypeCorrect, HandshakeExplained, PTL

-----------------------------------------------------------------------------
(* TcpTest implements TestLifecycle                                        *)

\* The moves of a client that TestLifecycle allows.
Allowed(c, from, to) ==
  \/ from = to
  \/ from = "idle" /\ to = "joining"
  \/ from = "joining" /\ to = "running" /\ c \in granted
  \/ from = "running" /\ to = "completed"
  \/ from \in {"idle", "joining"} /\ to = "failed"
  \/ from \in {"joining", "running"} /\ to = "aborted"

\* A client that moves as allowed takes a step of TestLifecycle or none.
LEMMA MoveIsLifecycleStep ==
  ASSUME TypeOK, NEW c \in Clients, NEW to \in ClientPC,
         cpc' = [cpc EXCEPT ![c] = to], granted' = granted,
         Allowed(c, Stage(cpc[c]), Stage(to))
  PROVE  [Lifecycle!Next]_(Lifecycle!vars)
<1> DEFINE stage == [d \in Clients |-> Stage(cpc[d])]
<1>1. stage' = [stage EXCEPT ![c] = Stage(to)]
  <2>1. \A d \in Clients : cpc'[d] = IF d = c THEN to ELSE cpc[d]
    BY DEF TypeOK
  <2>2. \A d \in Clients :
          Stage(cpc'[d]) = IF d = c THEN Stage(to) ELSE Stage(cpc[d])
    BY <2>1
  <2>3. stage' = [d \in Clients |-> Stage(cpc'[d])]
    OBVIOUS
  <2>4. [stage EXCEPT ![c] = Stage(to)]
          = [d \in Clients |-> IF d = c THEN Stage(to) ELSE Stage(cpc[d])]
    OBVIOUS
  <2> HIDE DEF stage
  <2> QED BY <2>2, <2>3, <2>4
<1>2. stage[c] = Stage(cpc[c])
  OBVIOUS
<1>3. CASE Stage(cpc[c]) = Stage(to)
  <2>1. stage' = stage
    BY <1>1, <1>2, <1>3
  <2> QED BY <2>1 DEF Lifecycle!vars
<1>4. CASE Stage(cpc[c]) # Stage(to)
  <2> HIDE DEF stage
  <2>1. \/ stage[c] \in {"idle"} /\ stage' = [stage EXCEPT ![c] = "joining"]
        \/ c \in granted /\ stage[c] \in {"joining"}
             /\ stage' = [stage EXCEPT ![c] = "running"]
        \/ stage[c] \in {"running"} /\ stage' = [stage EXCEPT ![c] = "completed"]
        \/ stage[c] \in {"idle", "joining"} /\ stage' = [stage EXCEPT ![c] = "failed"]
        \/ stage[c] \in {"joining", "running"} /\ stage' = [stage EXCEPT ![c] = "aborted"]
    BY <1>1, <1>2, <1>4 DEF Allowed
  <2> USE DEF stage
  <2>2. \/ Lifecycle!Join(c) \/ Lifecycle!Begin(c) \/ Lifecycle!Complete(c)
        \/ Lifecycle!Fail(c) \/ Lifecycle!Abort(c)
    BY <2>1 DEF Lifecycle!Join, Lifecycle!Begin, Lifecycle!Complete,
                Lifecycle!Fail, Lifecycle!Abort, Lifecycle!Move
  <2> QED BY <2>2 DEF Lifecycle!Next
<1> QED BY <1>3, <1>4

\* A step that moves no client and grants nothing is a stutter.
LEMMA StillIsLifecycleStep ==
  ASSUME UNCHANGED <<cpc, granted>>
  PROVE  [Lifecycle!Next]_(Lifecycle!vars)
BY DEF Lifecycle!vars

\* Every step of a TCP test is a step of TestLifecycle or a stutter.
LEMMA NextRefines ==
  TypeOK /\ HandshakeInv /\ [Next]_vars => [Lifecycle!Next]_(Lifecycle!vars)
<1> SUFFICES ASSUME TypeOK, HandshakeInv, [Next]_vars
             PROVE  [Lifecycle!Next]_(Lifecycle!vars)
  OBVIOUS
<1>1. ASSUME NEW c \in Clients, ClientStep(c) \/ ClientAborts(c)
      PROVE  [Lifecycle!Next]_(Lifecycle!vars)
  <2>1. granted' = granted
    BY <1>1
    DEF ClientStep, ClientConnect, ClientSendSetup, ClientReadAck,
     ClientReadStart, ClientLoops, ClientLeavesLoop, ClientSendsBulk,
     ClientReadsBulk, ClientReadTimesOut, ClientReadResult, ClientReadDone,
     ClientAborts, ClientExpects, ClientFails, clientRest
  <2>2. PICK to \in ClientPC :
          /\ cpc' = [cpc EXCEPT ![c] = to]
          /\ \/ cpc[c] = "idle" /\ to \in {"setup", "failed"}
             \/ cpc[c] \in {"setup", "ack", "start"} /\ to \in {"ack", "start", "failed"}
             \/ cpc[c] = "start" /\ to = "data"
             \/ cpc[c] \in {"data", "io", "result", "done"}
                  /\ to \in {"data", "io", "result", "done"}
             \/ cpc[c] = "done" /\ to = "completed"
             \/ cpc[c] \notin {"idle"} \cup ClientDone /\ to = "aborted"
    BY <1>1
    DEF ClientStep, ClientConnect, ClientSendSetup, ClientReadAck,
     ClientReadStart, ClientLoops, ClientLeavesLoop, ClientSendsBulk,
     ClientReadsBulk, ClientReadTimesOut, ClientReadResult, ClientReadDone,
     ClientAborts, ClientExpects, ClientFails, GoTo, ClientPC, ClientDone, ClientGone
  <2>3. cpc[c] \in ClientPC
    BY DEF TypeOK
  <2>4. cpc[c] = "start" /\ to = "data" => c \in granted
    <3> SUFFICES ASSUME cpc[c] = "start", to = "data" PROVE c \in granted
      OBVIOUS
    <3>1. HandshakeOf(c)'
      BY HandshakeInductive DEF HandshakeInv
    <3>2. cpc'[c] = "data"
      BY <2>2 DEF TypeOK
    <3> QED BY <2>1, <3>1, <3>2 DEF HandshakeOf
  <2>5. Allowed(c, Stage(cpc[c]), Stage(to))
    BY <2>2, <2>3, <2>4 DEF Allowed, Stage, ClientPC, ClientDone
  <2> QED BY <2>1, <2>2, <2>5, MoveIsLifecycleStep
<1>2. ASSUME NEW c \in Clients, HandlerSendStart(c)
      PROVE  [Lifecycle!Next]_(Lifecycle!vars)
  <2>1. CASE UNCHANGED <<cpc, granted>>
    BY <2>1, StillIsLifecycleStep
  <2>2. CASE granted' = granted \cup {c} /\ cpc' = cpc
    <3>1. cpc[c] # "idle" /\ cpc[c] \in ClientPC
      BY <1>2 DEF HandlerSendStart, HandshakeInv, HandshakeOf, TypeOK
    <3>2. Stage(cpc[c]) # "idle"
      BY <3>1 DEF Stage, ClientPC, ClientDone
    <3>3. Lifecycle!Grant(c)
      BY <2>2, <3>2 DEF Lifecycle!Grant
    <3> QED BY <3>3 DEF Lifecycle!Next
  <2>3. \/ UNCHANGED <<cpc, granted>>
        \/ granted' = granted \cup {c} /\ cpc' = cpc
    BY <1>2 DEF HandlerSendStart, HandlerFails, handlerRest, handlerState
  <2> QED BY <2>1, <2>2, <2>3
<1>3. CASE \/ \E c \in Clients : \/ HandlerStep(c) /\ ~HandlerSendStart(c)
                                 \/ ClientTimeUp(c)  \/ ClientCancel(c)
                                 \/ HandlerTimeUp(c) \/ HandlerKilled(c)
           \/ ServerStops \/ Finished \/ UNCHANGED vars
  <2>1. UNCHANGED <<cpc, granted>>
    BY <1>3
    DEF HandlerStep, ServerAccept, HandlerReadSetup, HandlerSendAck,
     HandlerLoops, HandlerLeavesLoop, HandlerSendsBulk,
     HandlerReadsBulk, HandlerReadTimesOut, HandlerSendResult, HandlerSendDone,
     HandlerReturns, HandlerSends, HandlerFails, handlerRest, handlerState,
     ClientTimeUp, ClientCancel, HandlerTimeUp, HandlerKilled, clientRest,
     clientTimer, ServerStops, Finished, vars
  <2> QED BY <2>1, StillIsLifecycleStep
<1> QED BY <1>1, <1>2, <1>3 DEF Next

\* Every TCP test keeps the promise to the user: a client takes part only after
\* the server's Start, a test that cannot start ends in an error of run(), and
\* a test whose start was announced ends only by completing or by being dropped.
THEOREM KeepsPromise == Spec => KeepsLifecycle
<1>1. Init => Lifecycle!Init
  BY DEF Init, Lifecycle!Init, Stage
<1>2. TypeOK /\ HandshakeInv /\ [Next]_vars => [Lifecycle!Next]_(Lifecycle!vars)
  BY NextRefines
<1> QED BY <1>1, <1>2, TypeCorrect, HandshakeExplained, PTL
        DEF Spec, KeepsLifecycle, Lifecycle!Spec

-----------------------------------------------------------------------------
(* What each side has counted                                              *)

\* Before data moves nothing is counted, and while the handler has not read
\* Setup there is nothing but Setup in the client's direction.
EntryOf(c) ==
  /\ spc[c] = "none" => cpc[c] \in {"idle", "failed"}
  /\ spc[c] \in {"none", "backlog", "setup", "ack"} => cpc[c] # "completed"
  /\ cpc[c] \in {"idle", "setup", "ack", "start"} => cBytes[c] = 0
  /\ cpc[c] \in {"idle", "setup"} => hBytes[c] = 0
  /\ spc[c] \in {"none", "backlog", "setup", "ack", "start"} => hBytes[c] = 0
  /\ spc[c] \in {"backlog", "setup"} => Len(c2s[c]) <= 1
  /\ ~reset[c] /\ spc[c] \in {"backlog", "setup"} /\ cpc[c] = "ack" => Len(c2s[c]) = 1

\* A forward test: the handler's count and what is queued never exceed what the
\* client counted, and they make it up exactly until the reset or until the
\* client gives up.
ForwardOf(c) ==
  /\ spc[c] \notin {"none", "backlog", "setup"} => hBytes[c] + Len(c2s[c]) <= cBytes[c]
  /\ ~reset[c] /\ cpc[c] \notin {"idle", "setup", "failed", "aborted"}
               /\ spc[c] \notin {"none", "backlog", "setup"}
       => cBytes[c] = hBytes[c] + Len(c2s[c])

\* A reverse test: what the handler counted is behind the handshake frames the
\* client still has to read, or counted by the client.
ReverseOf(c) ==
  ~reset[c] =>
    /\ cpc[c] = "ack"   => hBytes[c] = 0 \/ hBytes[c] + 2 <= Len(s2c[c])
    /\ cpc[c] = "start" => hBytes[c] = 0 \/ hBytes[c] + 1 <= Len(s2c[c])
    /\ cpc[c] \in {"data", "io"} => hBytes[c] <= cBytes[c] + Len(s2c[c])

\* The account of connection c.
AccountOf(c) ==
  /\ EntryOf(c)
  /\ c \notin reverse => ForwardOf(c)
  /\ c \in reverse => ReverseOf(c)

\* Closing an end takes nothing into account: unless the connection is reset,
\* what the peer has yet to read stays queued.
LEMMA CloseLens ==
  ASSUME TypeOK, NEW c \in Clients, NEW unread
  PROVE  /\ ClientCloses(c, unread) =>
              /\ Len(s2c'[c]) = 0 /\ Len(c2s'[c]) \in Nat /\ Len(c2s'[c]) <= Len(c2s[c])
              /\ reset[c] => reset'[c]
              /\ ~reset'[c] => Len(c2s'[c]) = Len(c2s[c])
         /\ HandlerCloses(c, unread) =>
              /\ Len(c2s'[c]) = 0 /\ Len(s2c'[c]) \in Nat /\ Len(s2c'[c]) <= Len(s2c[c])
              /\ reset[c] => reset'[c]
              /\ ~reset'[c] => Len(s2c'[c]) = Len(s2c[c])
              /\ ~reset'[c] => unread = <<>>
<1>1. c2s[c] \in Seq(Chunk) /\ s2c[c] \in Seq(Chunk)
  BY DEF TypeOK
<1>2. \A p \in Prefixes(c2s[c]) : Len(p) \in Nat /\ Len(p) <= Len(c2s[c])
  BY <1>1, PrefixFacts
<1>3. \A p \in Prefixes(s2c[c]) : Len(p) \in Nat /\ Len(p) <= Len(s2c[c])
  BY <1>1, PrefixFacts
<1>4. Len(<<>>) = 0 /\ Len(c2s[c]) \in Nat /\ Len(s2c[c]) \in Nat
  BY <1>1
<1>5. ClientCloses(c, unread) =>
        /\ s2c'[c] = <<>>
        /\ c2s'[c] \in Prefixes(c2s[c]) \/ c2s'[c] = c2s[c]
        /\ reset[c] => reset'[c]
        /\ ~reset'[c] => c2s'[c] = c2s[c]
  BY DEF ClientCloses, TypeOK
<1>6. HandlerCloses(c, unread) =>
        /\ c2s'[c] = <<>>
        /\ s2c'[c] \in Prefixes(s2c[c]) \/ s2c'[c] = s2c[c]
        /\ reset[c] => reset'[c]
        /\ ~reset'[c] => s2c'[c] = s2c[c]
        /\ ~reset'[c] => unread = <<>>
  BY DEF HandlerCloses, TypeOK
<1> QED BY <1>2, <1>3, <1>4, <1>5, <1>6

\* A write puts one chunk behind what is queued, or meets a peer that has gone.
LEMMA WriteLens ==
  ASSUME TypeOK, NEW c \in Clients, NEW chunk \in Chunk
  PROVE  /\ ClientWrites(c, chunk) =>
              /\ ~reset[c]
              /\ \/ /\ HandlerGone(c) /\ reset'[c] /\ c2s' = c2s
                 \/ /\ ~HandlerGone(c) /\ s2c' = s2c /\ reset' = reset
                    /\ Len(c2s'[c]) = Len(c2s[c]) + 1
         /\ HandlerWrites(c, chunk) =>
              /\ ~reset[c]
              /\ \/ /\ ClientGone(c) /\ reset'[c] /\ s2c' = s2c
                    /\ Len(c2s'[c]) \in Nat /\ Len(c2s'[c]) <= Len(c2s[c])
                 \/ /\ ~ClientGone(c) /\ c2s' = c2s /\ reset' = reset
                    /\ Len(s2c'[c]) = Len(s2c[c]) + 1
<1>1. c2s[c] \in Seq(Chunk) /\ s2c[c] \in Seq(Chunk)
  BY DEF TypeOK
<1>2. \A p \in Prefixes(c2s[c]) : Len(p) \in Nat /\ Len(p) <= Len(c2s[c])
  BY <1>1, PrefixFacts
<1>3. /\ Len(Append(c2s[c], chunk)) = Len(c2s[c]) + 1
      /\ Len(Append(s2c[c], chunk)) = Len(s2c[c]) + 1
  BY <1>1
<1>4. ClientWrites(c, chunk) =>
        /\ ~reset[c]
        /\ \/ HandlerGone(c) /\ reset'[c] /\ c2s' = c2s
           \/ /\ ~HandlerGone(c) /\ s2c' = s2c /\ reset' = reset
              /\ c2s'[c] = Append(c2s[c], chunk)
  BY DEF ClientWrites, TypeOK
<1>5. HandlerWrites(c, chunk) =>
        /\ ~reset[c]
        /\ \/ /\ ClientGone(c) /\ reset'[c] /\ s2c' = s2c
              /\ c2s'[c] \in Prefixes(c2s[c])
           \/ /\ ~ClientGone(c) /\ c2s' = c2s /\ reset' = reset
              /\ s2c'[c] = Append(s2c[c], chunk)
  BY DEF HandlerWrites, TypeOK
<1> QED BY <1>2, <1>3, <1>4, <1>5

\* The numbers of connection c as TypeOK types them.
LEMMA Numbers ==
  ASSUME TypeOK, NEW c \in Clients
  PROVE  /\ cBytes[c] \in Nat /\ hBytes[c] \in Nat
         /\ Len(c2s[c]) \in Nat /\ Len(s2c[c]) \in Nat
         /\ reset[c] \in BOOLEAN
         /\ cpc[c] \in ClientPC /\ spc[c] \in HandlerPC
BY DEF TypeOK

\* A client that leaves, whatever it had read, leaves the account right: the
\* completed one is still owed only what is queued.
LEMMA ClientLeftAccount ==
  ASSUME TypeOK, NEW c \in Clients, NEW unread, HandshakeOf(c), AccountOf(c),
         cpc[c] # "idle", ~ClientGone(c),
         ClientCloses(c, unread),
         cpc'[c] \in {"failed", "aborted"} \/ (cpc[c] = "done" /\ cpc'[c] = "completed"),
         UNCHANGED <<reverse, spc, cBytes, hBytes>>
  PROVE  AccountOf(c)'
<1>1. spc[c] # "none"
  BY DEF AccountOf, EntryOf, ClientGone, ClientDone
<1>2. cpc[c] = "done" => spc[c] \notin {"none", "backlog", "setup", "ack"}
  BY DEF HandshakeOf
<1>3. EntryOf(c)'
  BY <1>1, <1>2, CloseLens, Numbers DEF AccountOf, EntryOf
<1>4. c \notin reverse => ForwardOf(c)'
  BY <1>1, <1>2, CloseLens, Numbers DEF AccountOf, ForwardOf
<1>5. c \in reverse => ReverseOf(c)'
  BY DEF ReverseOf
<1> QED BY <1>3, <1>4, <1>5 DEF AccountOf

\* A handler that leaves does too.
LEMMA HandlerLeftAccount ==
  ASSUME TypeOK, NEW c \in Clients, NEW unread, HandshakeOf(c), AccountOf(c),
         spc[c] \notin {"none", "backlog"}, spc'[c] \in HandlerDone,
         unread = c2s[c] \/ spc[c] = "setup",
         HandlerCloses(c, unread),
         UNCHANGED <<reverse, cpc, cBytes, hBytes>>
  PROVE  AccountOf(c)'
<1>0. unread = <<>> /\ unread = c2s[c] => Len(c2s[c]) = 0
  OBVIOUS
<1>1. spc[c] = "setup" => cpc[c] \notin {"start", "data", "io", "result", "done", "completed"}
  BY DEF HandshakeOf, AccountOf, EntryOf
<1>3. EntryOf(c)'
  BY CloseLens, Numbers DEF AccountOf, EntryOf, HandlerDone
<1>4. c \notin reverse => ForwardOf(c)'
  BY <1>0, <1>1, CloseLens, Numbers DEF AccountOf, EntryOf, ForwardOf, HandlerDone, ClientPC, ClientDone
<1>5. c \in reverse => ReverseOf(c)'
  BY CloseLens, Numbers DEF AccountOf, ReverseOf
<1> QED BY <1>3, <1>4, <1>5 DEF AccountOf

\* The client's steps on its own connection.
LEMMA ClientKeepsAccount ==
  ASSUME TypeOK, NEW c \in Clients, HandshakeOf(c), AccountOf(c), ClientStep(c)
  PROVE  AccountOf(c)'
<1>q. s2c[c] \in Seq(Chunk) /\ c2s[c] \in Seq(Chunk)
  BY DEF TypeOK
<1>f. ASSUME NEW unread, cpc[c] \in {"setup", "ack", "start"}, ClientFails(c, unread)
      PROVE  AccountOf(c)'
  BY <1>f, ClientLeftAccount
  DEF ClientFails, GoTo, TypeOK, ClientGone, ClientDone, clientRest
<1>1. CASE ClientConnect(c)
  <2>1. /\ cpc[c] = "idle" /\ spc[c] = "none" /\ UNCHANGED <<reverse, c2s, s2c, reset, cBytes, hBytes>>
        /\ \/ cpc'[c] = "setup" /\ spc'[c] = "backlog"
           \/ cpc'[c] = "failed" /\ spc'[c] = "none"
    BY <1>1 DEF ClientConnect, HandshakeOf, GoTo, TypeOK
  <2>2. c2s[c] = <<>> /\ Len(<<>>) = 0
    BY <2>1 DEF HandshakeOf
  <2> QED BY <2>1, <2>2, Numbers DEF AccountOf, EntryOf, ForwardOf, ReverseOf
<1>2. CASE ClientSendSetup(c)
  <2>1. CASE ClientFails(c, s2c[c])
    BY <1>2, <2>1, <1>f DEF ClientSendSetup
  <2>2. CASE ~ClientFails(c, s2c[c])
    <3>1. /\ ClientWrites(c, Frame("Setup")) /\ cpc[c] = "setup" /\ cpc'[c] = "ack"
          /\ UNCHANGED <<reverse, spc, cBytes, hBytes>>
      BY <1>2, <2>2 DEF ClientSendSetup, GoTo, TypeOK, clientRest
    <3>2. /\ Len(c2s[c]) = 0
          /\ spc[c] \in {"none", "backlog", "setup"} \cup HandlerDone
      BY <3>1 DEF HandshakeOf
    <3>3. Frame("Setup") \in Chunk
      BY FrameType_Chunk DEF FrameType
    <3>4. /\ EntryOf(c)
          /\ cBytes[c] = 0 /\ hBytes[c] = 0 /\ spc[c] # "none"
      BY <3>1 DEF AccountOf, EntryOf
    <3>5. CASE HandlerGone(c)
      <4>1. reset'[c] /\ c2s' = c2s
        BY <3>1, <3>3, <3>5, WriteLens
      <4>2. spc[c] \notin {"none", "backlog", "setup", "ack", "start"}
        BY <3>5 DEF HandlerGone, HandlerDone
      <4> QED BY <3>1, <3>2, <3>4, <4>1, <4>2 DEF AccountOf, EntryOf, ForwardOf, ReverseOf
    <3>6. CASE ~HandlerGone(c)
      <4>0. Len(c2s'[c]) = Len(c2s[c]) + 1
        BY <3>1, <3>3, <3>6, WriteLens
      <4>1. Len(c2s'[c]) = 1
        BY <3>2, <4>0
      <4>2. spc[c] \in {"backlog", "setup"}
        BY <3>2, <3>4, <3>6 DEF HandlerGone
      <4> QED BY <3>1, <3>2, <3>4, <4>1, <4>2 DEF AccountOf, EntryOf, ForwardOf, ReverseOf
    <3> QED BY <3>5, <3>6
  <2> QED BY <2>1, <2>2
<1>3. CASE ClientReadAck(c)
  <2>1. CASE Decoded(s2c[c]).type = "SetupAck"
    <3>1. s2c[c] # <<>>
      BY <2>1 DEF Decoded, Undecodable, Frame
    <3>2. /\ cpc[c] = "ack" /\ cpc'[c] = "start" /\ s2c'[c] = Tail(s2c[c])
          /\ UNCHANGED <<reverse, spc, c2s, reset, cBytes, hBytes>>
      BY <1>3, <2>1 DEF ClientReadAck, ClientExpects, GoTo, TypeOK, clientRest
    <3>3. Len(s2c'[c]) = Len(s2c[c]) - 1
      BY <1>q, <3>1, <3>2
    <3> QED BY <3>2, <3>3, Numbers DEF AccountOf, EntryOf, ForwardOf, ReverseOf
  <2>2. CASE Decoded(s2c[c]).type # "SetupAck"
    BY <1>3, <2>2, <1>f DEF ClientReadAck, ClientExpects
  <2> QED BY <2>1, <2>2
<1>4. CASE ClientReadStart(c)
  <2>1. CASE Decoded(s2c[c]).type = "Start"
    <3>1. s2c[c] # <<>>
      BY <2>1 DEF Decoded, Undecodable, Frame
    <3>2. /\ cpc[c] = "start" /\ cpc'[c] = "data" /\ s2c'[c] = Tail(s2c[c])
          /\ UNCHANGED <<reverse, spc, c2s, reset, cBytes, hBytes>>
      BY <1>4, <2>1 DEF ClientReadStart, ClientExpects, GoTo, TypeOK, clientRest
    <3>3. Len(s2c'[c]) = Len(s2c[c]) - 1
      BY <1>q, <3>1, <3>2
    <3> QED BY <3>2, <3>3, Numbers DEF AccountOf, EntryOf, ForwardOf, ReverseOf
  <2>2. CASE Decoded(s2c[c]).type # "Start"
    BY <1>4, <2>2, <1>f DEF ClientReadStart, ClientExpects
  <2> QED BY <2>1, <2>2
<1>5. CASE ClientSendsBulk(c)
  <2>1. Bulk \in Chunk
    BY FrameType_Chunk DEF Bulk, FrameType
  <2>2. /\ cpc[c] = "io" /\ c \notin reverse /\ cpc'[c] = "data"
        /\ ClientWrites(c, Bulk) /\ cBytes'[c] = cBytes[c] + 1
        /\ UNCHANGED <<reverse, spc, hBytes>>
    BY <1>5 DEF ClientSendsBulk, GoTo, TypeOK, clientRest
  <2>3. spc[c] \notin {"none", "backlog", "setup", "ack"}
    BY <2>2 DEF HandshakeOf
  <2>4. \/ reset'[c] /\ c2s' = c2s
        \/ reset' = reset /\ Len(c2s'[c]) = Len(c2s[c]) + 1
    BY <2>1, <2>2, WriteLens
  <2>5. EntryOf(c)'
    BY <2>2, <2>3 DEF AccountOf, EntryOf
  <2>6. ForwardOf(c)'
    <3>1. ForwardOf(c) /\ cpc[c] \notin {"idle", "setup", "failed", "aborted"}
      BY <2>2 DEF AccountOf
    <3>2. CASE reset'[c] /\ c2s' = c2s
      BY <2>2, <3>1, <3>2, Numbers DEF ForwardOf
    <3>3. CASE reset' = reset /\ Len(c2s'[c]) = Len(c2s[c]) + 1
      <4> DEFINE h == hBytes[c]
                 b == cBytes[c]
                 q == Len(c2s[c])
      <4>1. h \in Nat /\ b \in Nat /\ q \in Nat
        BY Numbers
      <4>2. /\ hBytes'[c] = h /\ cBytes'[c] = b + 1 /\ Len(c2s'[c]) = q + 1
            /\ reset'[c] = reset[c] /\ spc'[c] = spc[c]
        BY <2>2, <3>3
      <4>3. /\ spc[c] \notin {"none", "backlog", "setup"} => h + q <= b
            /\ ~reset[c] /\ spc[c] \notin {"none", "backlog", "setup"} => b = h + q
        BY <3>1 DEF ForwardOf
      <4> HIDE DEF h, b, q
      <4>4. h + q <= b => h + (q + 1) <= b + 1
        BY ONLY <4>1
      <4>5. b = h + q => b + 1 = h + (q + 1)
        BY ONLY <4>1
      <4> QED BY <4>2, <4>3, <4>4, <4>5 DEF ForwardOf
    <3> QED BY <2>4, <3>2, <3>3
  <2> QED BY <2>2, <2>5, <2>6 DEF AccountOf
<1>6. CASE ClientReadsBulk(c)
  <2>1. PICK n \in 1 .. Len(s2c[c]) :
          /\ s2c' = [s2c EXCEPT ![c] = Rest(s2c[c], n)]
          /\ cBytes' = [cBytes EXCEPT ![c] = @ + n]
    BY <1>6 DEF ClientReadsBulk
  <2>2. /\ Len(s2c'[c]) = Len(s2c[c]) - n /\ cBytes'[c] = cBytes[c] + n /\ n \in Nat
    BY <1>q, <2>1, RestFacts DEF TypeOK
  <2>3. /\ cpc[c] = "io" /\ c \in reverse /\ cpc'[c] = "data"
        /\ UNCHANGED <<reverse, spc, c2s, reset, hBytes>>
    BY <1>6 DEF ClientReadsBulk, GoTo, TypeOK, clientRest
  <2> QED BY <2>2, <2>3, Numbers DEF AccountOf, EntryOf, ReverseOf
<1>7. CASE ClientReadDone(c)
  BY <1>7, ClientLeftAccount
  DEF ClientReadDone, GoTo, TypeOK, ClientGone, ClientDone, clientRest
<1>8. CASE \/ ClientLoops(c) \/ ClientLeavesLoop(c) \/ ClientReadTimesOut(c)
           \/ ClientReadResult(c)
  <2>1. /\ cpc[c] \in {"data", "io", "result"} /\ cpc'[c] \in {"data", "io", "result", "done"}
        /\ cpc[c] = "result" => cpc'[c] = "done"
        /\ cpc[c] # "result" => UNCHANGED s2c
        /\ UNCHANGED <<reverse, spc, c2s, reset, cBytes, hBytes>>
    BY <1>8
    DEF ClientLoops, ClientLeavesLoop, ClientReadTimesOut, ClientReadResult,
        GoTo, TypeOK, clientRest
  <2> QED BY <2>1, Numbers DEF AccountOf, EntryOf, ForwardOf, ReverseOf
<1> QED BY <1>1, <1>2, <1>3, <1>4, <1>5, <1>6, <1>7, <1>8 DEF ClientStep

\* The handler's steps on its own connection.
LEMMA HandlerKeepsAccount ==
  ASSUME TypeOK, NEW c \in Clients, HandshakeOf(c), AccountOf(c), HandlerStep(c)
  PROVE  AccountOf(c)'
<1>q. s2c[c] \in Seq(Chunk) /\ c2s[c] \in Seq(Chunk)
  BY DEF TypeOK
<1>f. ASSUME NEW unread, spc[c] \notin {"none", "backlog"},
             unread = c2s[c] \/ spc[c] = "setup", HandlerFails(c, unread)
      PROVE  AccountOf(c)'
  BY <1>f, HandlerLeftAccount
  DEF HandlerFails, HandlerGoTo, TypeOK, HandlerDone, handlerRest, handlerState
<1>w. ASSUME NEW chunk \in Chunk, HandlerWrites(c, chunk),
             spc[c] \in {"ack", "start", "io", "result", "done"},
             spc'[c] \in {"start", "data", "done", "closing"},
             UNCHANGED <<reverse, cpc, cBytes>>,
             \/ hBytes'[c] = hBytes[c] /\ (spc'[c] = "start" => hBytes[c] = 0)
             \/ hBytes'[c] = hBytes[c] + 1 /\ spc[c] = "io" /\ c \in reverse
                  /\ spc'[c] = "data"
      PROVE  AccountOf(c)'
  <2>1. /\ ~reset[c]
        /\ \/ /\ ClientGone(c) /\ reset'[c] /\ s2c' = s2c
              /\ Len(c2s'[c]) \in Nat /\ Len(c2s'[c]) <= Len(c2s[c])
           \/ /\ ~ClientGone(c) /\ c2s' = c2s /\ reset' = reset
              /\ Len(s2c'[c]) = Len(s2c[c]) + 1
    BY <1>w, WriteLens
  <2>2. cpc[c] \notin {"idle", "setup"}
    BY <1>w DEF HandshakeOf, HandlerDone
  <2>3. /\ cpc[c] = "ack" /\ spc[c] = "io" => Len(s2c[c]) >= 2
        /\ cpc[c] = "start" /\ spc[c] = "io" => Len(s2c[c]) >= 1
    <3>1. \A d \in Clients : HandshakeOf(d) /\ ~reset[d] =>
            /\ cpc[d] = "ack" /\ spc[d] = "data" => Len(s2c[d]) >= 2
            /\ cpc[d] = "ack" /\ spc[d] = "io" => Len(s2c[d]) >= 2
            /\ cpc[d] = "start" /\ spc[d] = "io" => Len(s2c[d]) >= 1
      BY DEF HandshakeOf
    <3> QED BY <2>1, <3>1
  <2>4. EntryOf(c)'
    BY <1>w, <2>1, <2>2, Numbers DEF AccountOf, EntryOf, ClientGone, ClientDone
  <2>5. c \notin reverse => ForwardOf(c)'
    BY <1>w, <2>1, <2>2, Numbers DEF AccountOf, EntryOf, ForwardOf, ClientGone, ClientDone
  <2>6. c \in reverse => ReverseOf(c)'
    <3>1. CASE reset'[c]
      BY <3>1 DEF ReverseOf
    <3>2. CASE ~reset'[c] /\ c \in reverse
      <4>1. ~reset[c] /\ Len(s2c'[c]) = Len(s2c[c]) + 1 /\ ReverseOf(c)
        BY <2>1, <3>2 DEF AccountOf
      <4>2. spc[c] # "io" => hBytes'[c] = hBytes[c]
        BY <1>w
      <4>3. hBytes'[c] \in {hBytes[c], hBytes[c] + 1}
        BY <1>w
      <4>4. /\ cpc'[c] = cpc[c] /\ cBytes'[c] = cBytes[c]
            /\ hBytes[c] \in Nat /\ cBytes[c] \in Nat /\ Len(s2c[c]) \in Nat
        BY <1>w, Numbers
      <4>5. CASE spc[c] = "io"
        <5> DEFINE h  == hBytes[c]
                   h1 == hBytes'[c]
                   b  == cBytes[c]
                   q  == Len(s2c[c])
        <5>1. /\ h \in Nat /\ b \in Nat /\ q \in Nat /\ h1 \in {h, h + 1}
              /\ cpc'[c] = cpc[c] /\ cBytes'[c] = b /\ Len(s2c'[c]) = q + 1
          BY <4>1, <4>3, <4>4
        <5>2. /\ cpc[c] = "ack"   => q >= 2 /\ (h = 0 \/ h + 2 <= q)
              /\ cpc[c] = "start" => q >= 1 /\ (h = 0 \/ h + 1 <= q)
              /\ cpc[c] \in {"data", "io"} => h <= b + q
          BY <2>3, <4>1, <4>5 DEF ReverseOf
        <5> HIDE DEF h, h1, b, q
        <5>3. /\ cpc[c] = "ack"   => h1 = 0 \/ h1 + 2 <= q + 1
              /\ cpc[c] = "start" => h1 = 0 \/ h1 + 1 <= q + 1
              /\ cpc[c] \in {"data", "io"} => h1 <= b + (q + 1)
          BY ONLY <5>1, <5>2
        <5> QED BY <5>1, <5>3 DEF ReverseOf, h1
      <4>6. CASE spc[c] # "io"
        BY <4>1, <4>2, <4>4, <4>6 DEF ReverseOf
      <4> QED BY <4>5, <4>6
    <3> QED BY <1>w, <3>1, <3>2
  <2> QED BY <1>w, <2>4, <2>5, <2>6 DEF AccountOf
<1>1. CASE ServerAccept(c)
  BY <1>1, Numbers
  DEF ServerAccept, HandlerGoTo, TypeOK, handlerRest, handlerState,
      AccountOf, EntryOf, ForwardOf, ReverseOf
<1>2. CASE HandlerReadSetup(c)
  <2>1. CASE Decoded(c2s[c]).type = "Setup"
    <3>1. c2s[c] # <<>>
      BY <2>1 DEF Decoded, Undecodable, Frame
    <3>2. /\ spc[c] = "setup" /\ spc'[c] = "ack" /\ c2s'[c] = Tail(c2s[c])
          /\ UNCHANGED <<reverse, cpc, s2c, reset, cBytes, hBytes>>
      BY <1>2, <2>1 DEF HandlerReadSetup, HandlerGoTo, TypeOK, handlerRest, handlerState
    <3>3. /\ Len(c2s'[c]) = Len(c2s[c]) - 1 /\ Len(c2s'[c]) \in Nat
      BY <1>q, <3>1, <3>2
    <3>4. cpc[c] \in {"ack", "failed", "aborted"}
      <4>1. cpc[c] \notin {"idle", "setup"}
        BY <3>1 DEF HandshakeOf
      <4>2. cpc[c] \notin {"start", "data", "io", "result", "done"}
        BY <3>2 DEF HandshakeOf
      <4>3. cpc[c] # "completed"
        BY <3>2 DEF AccountOf, EntryOf
      <4> QED BY <4>1, <4>2, <4>3, Numbers DEF ClientPC, ClientDone
    <3>5. Len(c2s[c]) <= 1 /\ hBytes[c] = 0
      BY <3>2 DEF AccountOf, EntryOf
    <3>6. Len(c2s'[c]) = 0
      <4>1. \A k, m \in Nat : m = k - 1 /\ k <= 1 => m = 0
        OBVIOUS
      <4>2. Len(c2s[c]) \in Nat
        BY <1>q
      <4> QED BY <3>3, <3>5, <4>1, <4>2
    <3>7. EntryOf(c)'
      BY <3>2, <3>4, <3>5, <3>6 DEF AccountOf, EntryOf
    <3>8. cpc[c] = "ack" /\ ~reset[c] => cBytes[c] = 0
      BY DEF AccountOf, EntryOf
    <3>9. ForwardOf(c)'
      BY <3>2, <3>4, <3>5, <3>6, <3>8, Numbers DEF ForwardOf
    <3>10. ReverseOf(c)'
      BY <3>2, <3>4, <3>5 DEF ReverseOf
    <3> QED BY <3>7, <3>9, <3>10 DEF AccountOf
  <2>2. CASE Decoded(c2s[c]).type # "Setup"
    BY <1>2, <2>2, <1>f DEF HandlerReadSetup
  <2> QED BY <2>1, <2>2
<1>3. CASE HandlerSendAck(c)
  <2>1. Frame("SetupAck") \in Chunk
    BY FrameType_Chunk DEF FrameType
  <2>2. hBytes[c] = 0 /\ spc[c] = "ack"
    BY <1>3 DEF HandlerSendAck, AccountOf, EntryOf
  <2> QED BY <1>3, <2>1, <2>2, <1>f, <1>w
          DEF HandlerSendAck, HandlerSends, HandlerGoTo, TypeOK, handlerRest, handlerState
<1>4. CASE HandlerSendStart(c)
  <2>1. Frame("Start") \in Chunk
    BY FrameType_Chunk DEF FrameType
  <2> QED BY <1>4, <2>1, <1>f, <1>w
          DEF HandlerSendStart, HandlerGoTo, TypeOK, handlerRest, handlerState
<1>5. CASE HandlerSendsBulk(c)
  <2>1. Bulk \in Chunk
    BY FrameType_Chunk DEF Bulk, FrameType
  <2> QED BY <1>5, <2>1, <1>w DEF HandlerSendsBulk, HandlerGoTo, TypeOK, handlerRest
<1>6. CASE HandlerReadsBulk(c)
  <2>1. PICK n \in 1 .. Len(c2s[c]) :
          /\ c2s' = [c2s EXCEPT ![c] = Rest(c2s[c], n)]
          /\ hBytes' = [hBytes EXCEPT ![c] = @ + n]
    BY <1>6 DEF HandlerReadsBulk
  <2>2. /\ Len(c2s'[c]) = Len(c2s[c]) - n /\ hBytes'[c] = hBytes[c] + n /\ n \in Nat
    BY <1>q, <2>1, RestFacts DEF TypeOK
  <2>3. /\ spc[c] = "io" /\ c \notin reverse /\ spc'[c] = "data"
        /\ UNCHANGED <<reverse, cpc, s2c, reset, cBytes>>
    BY <1>6 DEF HandlerReadsBulk, HandlerGoTo, TypeOK, handlerRest
  <2>4. cpc[c] \notin {"idle", "setup"}
    BY <2>3 DEF HandshakeOf, HandlerDone
  <2> QED BY <2>2, <2>3, <2>4, Numbers DEF AccountOf, EntryOf, ForwardOf
<1>7. CASE HandlerSendResult(c) /\ collector.sent + collector.received > 0
  <2>1. ResultMsg(collector.sent, collector.received) \in Chunk
    BY ResultMsg_Chunk DEF TypeOK
  <2> QED BY <1>7, <2>1, <1>f, <1>w
          DEF HandlerSendResult, HandlerSends, HandlerGoTo, TypeOK, handlerRest, handlerState
<1>8. CASE HandlerSendDone(c)
  <2>1. Frame("Done") \in Chunk
    BY FrameType_Chunk DEF FrameType
  <2> QED BY <1>8, <2>1, <1>f, <1>w
          DEF HandlerSendDone, HandlerSends, HandlerGoTo, TypeOK, handlerRest, handlerState
<1>9. CASE HandlerReturns(c)
  BY <1>9, HandlerLeftAccount
  DEF HandlerReturns, HandlerGoTo, TypeOK, HandlerDone, handlerRest, handlerState
<1>10. CASE \/ HandlerReadTimesOut(c) \/ HandlerLoops(c) \/ HandlerLeavesLoop(c)
            \/ (HandlerSendResult(c) /\ ~(collector.sent + collector.received > 0))
  <2>1. /\ spc[c] \in {"data", "io", "result"} /\ spc'[c] \in {"data", "io", "result", "done"}
        /\ UNCHANGED <<reverse, cpc, c2s, s2c, reset, cBytes, hBytes>>
    BY <1>10
    DEF HandlerReadTimesOut, HandlerLoops, HandlerLeavesLoop,
        HandlerSendResult, HandlerGoTo, TypeOK, handlerRest, handlerState
  <2> QED BY <2>1, Numbers DEF AccountOf, EntryOf, ForwardOf, ReverseOf
<1>11. CASE HandlerSendResult(c)
  BY <1>7, <1>10, <1>11
<1> QED BY <1>1, <1>2, <1>3, <1>4, <1>5, <1>6, <1>8, <1>9, <1>10, <1>11 DEF HandlerStep

\* The clocks, the user, the end of a process, and a server that stops.
LEMMA OthersKeepAccount ==
  ASSUME TypeOK, NEW c \in Clients, HandshakeOf(c), AccountOf(c),
         \/ ClientTimeUp(c)  \/ ClientCancel(c) \/ ClientAborts(c)
         \/ HandlerTimeUp(c) \/ HandlerKilled(c) \/ ServerStops
  PROVE  AccountOf(c)'
<1>1. CASE ClientTimeUp(c) \/ ClientCancel(c) \/ HandlerTimeUp(c)
  BY <1>1 DEF AccountOf, EntryOf, ForwardOf, ReverseOf, ClientTimeUp, ClientCancel,
              HandlerTimeUp, clientRest, clientTimer, handlerRest, handlerState
<1>2. CASE ClientAborts(c)
  BY <1>2, ClientLeftAccount DEF ClientAborts, GoTo, TypeOK, clientRest
<1>3. CASE HandlerKilled(c)
  BY <1>3, HandlerLeftAccount
  DEF HandlerKilled, HandlerGoTo, TypeOK, HandlerDone, handlerRest, handlerState
<1>4. CASE ServerStops
  <2>1. /\ UNCHANGED <<reverse, cpc, s2c, cBytes, hBytes>>
        /\ IF spc[c] = "backlog"
             THEN spc'[c] = "refused" /\ reset'[c] /\ c2s'[c] = <<>>
             ELSE spc'[c] = spc[c] /\ (reset'[c] <=> reset[c]) /\ c2s'[c] = c2s[c]
    BY <1>4 DEF ServerStops, TypeOK
  <2>2. Len(<<>>) = 0
    OBVIOUS
  <2>3. CASE spc[c] = "backlog"
    <3>1. hBytes[c] = 0 /\ cBytes[c] \in Nat
      BY <2>3 DEF AccountOf, EntryOf, TypeOK
    <3>2. hBytes'[c] = 0 /\ cBytes'[c] \in Nat /\ Len(c2s'[c]) = 0 /\ reset'[c] /\ spc'[c] = "refused"
      BY <2>1, <2>2, <2>3, <3>1
    <3>3. EntryOf(c)'
      BY <2>1, <3>2 DEF AccountOf, EntryOf
    <3>4. ForwardOf(c)' /\ ReverseOf(c)'
      BY <3>2 DEF ForwardOf, ReverseOf
    <3> QED BY <2>1, <3>3, <3>4 DEF AccountOf
  <2>4. CASE spc[c] # "backlog"
    BY <2>1, <2>4 DEF AccountOf, EntryOf, ForwardOf, ReverseOf
  <2> QED BY <2>3, <2>4
<1> QED BY <1>1, <1>2, <1>3, <1>4

\* The inductive invariant behind both conservation properties.
AccountInv == \A c \in Clients : AccountOf(c)

\* A step that leaves a connection alone leaves its account alone.
LEMMA KeepsAccount ==
  ASSUME NEW d, AccountOf(d), Untouched(d)
  PROVE  AccountOf(d)'
BY DEF AccountOf, EntryOf, ForwardOf, ReverseOf, Untouched

\* The account of every connection is inductive, given the handshake.
LEMMA AccountInductive ==
  TypeOK /\ HandshakeInv /\ AccountInv /\ [Next]_vars => AccountInv'
<1> SUFFICES ASSUME TypeOK, HandshakeInv, AccountInv, [Next]_vars, NEW d \in Clients
             PROVE  AccountOf(d)'
  BY DEF AccountInv
<1>0. HandshakeOf(d) /\ AccountOf(d)
  BY DEF HandshakeInv, AccountInv
<1>1. ASSUME NEW c \in Clients,
             \/ ClientStep(c)   \/ ClientTimeUp(c)  \/ ClientCancel(c)
             \/ ClientAborts(c) \/ HandlerStep(c)   \/ HandlerTimeUp(c)
             \/ HandlerKilled(c)
      PROVE  AccountOf(d)'
  <2>1. CASE d = c
    BY <1>0, <1>1, <2>1, ClientKeepsAccount, HandlerKeepsAccount, OthersKeepAccount
  <2>2. CASE d # c
    BY <1>0, <1>1, <2>2, OneConnection, KeepsAccount
  <2> QED BY <2>1, <2>2
<1>2. CASE ServerStops
  BY <1>0, <1>2, OthersKeepAccount
<1>3. CASE Finished \/ UNCHANGED vars
  <2>1. Untouched(d)
    BY <1>3 DEF Finished, vars, Untouched
  <2> QED BY <1>0, <2>1, KeepsAccount
<1> QED BY <1>1, <1>2, <1>3 DEF Next

\* Every connection's account is right in every state: run_tcp and
\* handle_tcp_client count each buffer of a connection once each, whatever the
\* interleaving and whoever leaves.
THEOREM AccountsRight == Spec => []AccountInv
<1>1. Init => AccountInv
  <2> SUFFICES ASSUME Init, NEW c \in Clients PROVE AccountOf(c)
    BY DEF AccountInv
  <2>1. /\ cpc[c] = "idle" /\ spc[c] = "none" /\ c2s[c] = <<>> /\ s2c[c] = <<>>
        /\ cBytes[c] = 0 /\ hBytes[c] = 0
    BY DEF Init
  <2>2. Len(c2s[c]) = 0
    BY <2>1
  <2> QED BY <2>1, <2>2 DEF AccountOf, EntryOf, ForwardOf, ReverseOf
<1>2. TypeOK /\ HandshakeInv /\ AccountInv /\ [Next]_vars => AccountInv'
  BY AccountInductive
<1> QED BY <1>1, <1>2, TypeCorrect, HandshakeExplained, PTL DEF Spec

\* A forward test counts every buffer exactly once on each side: what send_data
\* of the client recorded is what receive_data of the handler recorded and what
\* is still queued, until the connection is reset.
THEOREM ForwardIsConserved == Spec => []ForwardConservation
<1>1. TypeOK /\ AccountInv => ForwardConservation
  BY DEF ForwardConservation, AccountInv, AccountOf, EntryOf, ForwardOf
<1> QED BY <1>1, TypeCorrect, AccountsRight, PTL

\* A reverse test loses no buffer while its client is in the data loop: what the
\* handler recorded as sent is counted by receive_data of the client or queued.
THEOREM ReverseLosesNothing == Spec => []ReverseNothingLost
<1>1. TypeOK /\ AccountInv => ReverseNothingLost
  BY DEF ReverseNothingLost, TypeOK, AccountInv, AccountOf, ReverseOf
<1> QED BY <1>1, TypeCorrect, AccountsRight, PTL

\* No Result frame in the queue reports more than n buffers received.
Within(q, n) ==
  \A i \in 1 .. Len(q) : q[i].type = "Result" => q[i].received <= n

\* What is read, cut or written keeps a queue within its bound.
LEMMA WithinFacts ==
  ASSUME NEW q \in Seq(Chunk), NEW n \in Nat, Within(q, n)
  PROVE  /\ \A p \in Prefixes(q) : Within(p, n)
         /\ Within(<<>>, n)
         /\ Within(Undecoded(q), n)
         /\ q # <<>> => Within(Tail(q), n)
         /\ \A k \in 1 .. Len(q) : Within(Rest(q, k), n)
         /\ \A chunk \in Chunk :
              (chunk.type = "Result" => chunk.received <= n) => Within(Append(q, chunk), n)
         /\ \A m \in Nat : n <= m => Within(q, m)
         /\ Decoded(q).type = "Result" => Decoded(q).received <= n
<1>1. \A p \in Prefixes(q) : Within(p, n)
  <2> SUFFICES ASSUME NEW p \in Prefixes(q), NEW i \in 1 .. Len(p), p[i].type = "Result"
               PROVE  p[i].received <= n
    BY DEF Within
  <2>1. p \in Seq(Chunk) /\ Len(p) <= Len(q) /\ \A j \in 1 .. Len(p) : p[j] = q[j]
    BY PrefixFacts
  <2>2. i \in 1 .. Len(q)
    BY <2>1
  <2> QED BY <2>1, <2>2 DEF Within
<1>2. Within(<<>>, n)
  BY DEF Within
<1>3. q # <<>> => Within(Tail(q), n)
  <2> SUFFICES ASSUME q # <<>>, NEW i \in 1 .. Len(Tail(q)), Tail(q)[i].type = "Result"
               PROVE  Tail(q)[i].received <= n
    BY DEF Within
  <2>1. i + 1 \in 1 .. Len(q) /\ Tail(q)[i] = q[i + 1]
    OBVIOUS
  <2> QED BY <2>1 DEF Within
<1>4. Within(Undecoded(q), n)
  BY <1>3 DEF Undecoded
<1>5. \A k \in 1 .. Len(q) : Within(Rest(q, k), n)
  <2> SUFFICES ASSUME NEW k \in 1 .. Len(q), NEW i \in 1 .. Len(Rest(q, k)),
                      Rest(q, k)[i].type = "Result"
               PROVE  Rest(q, k)[i].received <= n
    BY DEF Within
  <2>1. Len(Rest(q, k)) = Len(q) - k
    BY RestFacts
  <2>2. i + k \in 1 .. Len(q)
    BY <2>1
  <2>3. Rest(q, k)[i] = q[i + k]
    BY <2>1 DEF Rest
  <2> QED BY <2>2, <2>3 DEF Within
<1>6. ASSUME NEW chunk \in Chunk, chunk.type = "Result" => chunk.received <= n
      PROVE  Within(Append(q, chunk), n)
  <2> SUFFICES ASSUME NEW i \in 1 .. Len(Append(q, chunk)),
                      Append(q, chunk)[i].type = "Result"
               PROVE  Append(q, chunk)[i].received <= n
    BY DEF Within
  <2>1. CASE i \in 1 .. Len(q)
    BY <2>1 DEF Within
  <2>2. CASE i = Len(q) + 1
    <3>1. Append(q, chunk)[i] = chunk
      BY <2>2
    <3> QED BY <3>1, <1>6
  <2> QED BY <2>1, <2>2
<1>7. ASSUME NEW m \in Nat, n <= m PROVE Within(q, m)
  <2> SUFFICES ASSUME NEW i \in 1 .. Len(q), q[i].type = "Result"
               PROVE  q[i].received <= m
    BY DEF Within
  <2>1. q[i].received \in Nat /\ q[i].received <= n
    BY DEF Within, Chunk, FrameType
  <2> QED BY <2>1, <1>7
<1>8. Decoded(q).type = "Result" => Decoded(q).received <= n
  <2> SUFFICES ASSUME Decoded(q).type = "Result" PROVE Decoded(q).received <= n
    OBVIOUS
  <2>1. q # <<>> /\ Decoded(q) = Head(q)
    BY DEF Decoded, Undecodable, Frame
  <2>2. Head(q) = q[1] /\ 1 \in 1 .. Len(q)
    BY <2>1
  <2> QED BY <2>1, <2>2 DEF Within
<1> QED BY <1>1, <1>2, <1>3, <1>4, <1>5, <1>6, <1>7, <1>8

\* Nothing that the client of connection c has been told, or is about to be
\* told, exceeds what it sent.
ReportOf(c) ==
  /\ collector.received = hBytes[c]
  /\ Within(s2c[c], cBytes[c])
  /\ outcome[c].result.type = "Result" => outcome[c].result.received <= cBytes[c]

\* The inductive invariant behind ResultWithinSent.
ReportInv == reverse \in Choices /\ \A c \in Clients \ reverse : ReportOf(c)

\* At most one client sends to the server's collector.
OneSender == \A rs \in Choices : \A c, d \in Clients \ rs : c = d

\* A client's end closes empty, and a server's frames are at most cut.
LEMMA CloseWithin ==
  ASSUME TypeOK, NEW c \in Clients, NEW unread, NEW n \in Nat, Within(s2c[c], n),
         ClientCloses(c, unread) \/ HandlerCloses(c, unread)
  PROVE  Within(s2c'[c], n)
<1>1. s2c'[c] = <<>> \/ s2c'[c] \in Prefixes(s2c[c]) \/ s2c'[c] = s2c[c]
  BY DEF ClientCloses, HandlerCloses, TypeOK
<1>2. s2c[c] \in Seq(Chunk)
  BY DEF TypeOK
<1> QED BY <1>1, <1>2, WithinFacts

\* A write adds at most its own chunk.
LEMMA WriteWithin ==
  ASSUME TypeOK, NEW c \in Clients, NEW n \in Nat, Within(s2c[c], n), NEW chunk \in Chunk,
         \/ ClientWrites(c, chunk)
         \/ HandlerWrites(c, chunk) /\ (chunk.type = "Result" => chunk.received <= n)
  PROVE  Within(s2c'[c], n)
<1>1. \/ s2c'[c] \in Prefixes(s2c[c]) \/ s2c'[c] = s2c[c]
      \/ /\ s2c'[c] = Append(s2c[c], chunk)
         /\ chunk.type = "Result" => chunk.received <= n
  BY DEF ClientWrites, HandlerWrites, TypeOK
<1>2. s2c[c] \in Seq(Chunk)
  BY DEF TypeOK
<1> QED BY <1>1, <1>2, WithinFacts

\* What the steps of client c and of its handler do to the reports of c.
LEMMA StepKeepsReport ==
  ASSUME TypeOK, NEW c \in Clients \ reverse, HandshakeOf(c), AccountOf(c), ReportOf(c),
         \/ ClientStep(c)   \/ ClientTimeUp(c)  \/ ClientCancel(c)
         \/ ClientAborts(c) \/ HandlerStep(c)   \/ HandlerTimeUp(c)
         \/ HandlerKilled(c)
  PROVE  ReportOf(c)'
<1> DEFINE n == cBytes[c]
           SameCounts == cBytes'[c] = n /\ UNCHANGED <<hBytes, collector>>
           SameResult == outcome'[c].result = outcome[c].result
<1>q. /\ n \in Nat /\ s2c[c] \in Seq(Chunk) /\ Within(s2c[c], n)
      /\ collector.received = hBytes[c] /\ collector.received \in Nat /\ collector.sent \in Nat
      /\ outcome[c].result.type = "Result" => outcome[c].result.received <= n
  BY DEF TypeOK, ReportOf
<1> HIDE DEF n
<1>0. ASSUME SameCounts, SameResult, Within(s2c'[c], n)
      PROVE  ReportOf(c)'
  BY <1>0, <1>q DEF ReportOf, n
<1>c. ASSUME NEW unread, ClientCloses(c, unread) \/ HandlerCloses(c, unread)
      PROVE  Within(s2c'[c], n)
  BY <1>c, <1>q, CloseWithin
<1>w. ASSUME NEW chunk \in Chunk,
             \/ ClientWrites(c, chunk)
             \/ HandlerWrites(c, chunk) /\ (chunk.type = "Result" => chunk.received <= n)
      PROVE  Within(s2c'[c], n)
  BY <1>w, <1>q, WriteWithin
<1>1. CASE ClientSendSetup(c)
  <2>1. Frame("Setup") \in Chunk
    BY FrameType_Chunk DEF FrameType
  <2>2. SameCounts /\ SameResult
    BY <1>1 DEF ClientSendSetup, ClientFails, clientRest, n
  <2>3. Within(s2c'[c], n)
    BY <1>1, <2>1, <1>c, <1>w DEF ClientSendSetup, ClientFails
  <2> QED BY <2>2, <2>3, <1>0
<1>2. CASE ClientReadAck(c) \/ ClientReadStart(c)
  <2>1. SameCounts /\ SameResult
    BY <1>2 DEF ClientReadAck, ClientReadStart, ClientExpects, ClientFails, clientRest, n
  <2>2. PICK type \in {"SetupAck", "Start"} :
          \/ Decoded(s2c[c]).type = type /\ s2c' = [s2c EXCEPT ![c] = Tail(@)]
          \/ ClientCloses(c, Undecoded(s2c[c]))
    BY <1>2 DEF ClientReadAck, ClientReadStart, ClientExpects, ClientFails
  <2>3. Decoded(s2c[c]).type = type => s2c[c] # <<>>
    BY DEF Decoded, Undecodable, Frame
  <2>4. Decoded(s2c[c]).type = type => Within(Tail(s2c[c]), n)
    BY <2>3, <1>q, WithinFacts
  <2>5. s2c' = [s2c EXCEPT ![c] = Tail(@)] => s2c'[c] = Tail(s2c[c])
    BY DEF TypeOK
  <2>6. Within(s2c'[c], n)
    BY <2>2, <2>4, <2>5, <1>c
  <2> QED BY <2>1, <2>6, <1>0
<1>3. CASE ClientSendsBulk(c)
  <2>1. Bulk \in Chunk
    BY FrameType_Chunk DEF Bulk, FrameType
  <2>2. /\ ClientWrites(c, Bulk) /\ cBytes'[c] = n + 1
        /\ UNCHANGED <<hBytes, collector, outcome>>
    BY <1>3 DEF ClientSendsBulk, clientRest, TypeOK, n
  <2>3. Within(s2c'[c], n) /\ s2c'[c] \in Seq(Chunk)
    <3>1. s2c'[c] \in Prefixes(s2c[c]) \/ s2c'[c] = s2c[c]
      BY <2>2 DEF ClientWrites, TypeOK
    <3> QED BY <3>1, <1>q, PrefixFacts, WithinFacts
  <2>4. Within(s2c'[c], n + 1)
    BY <2>3, <1>q, WithinFacts
  <2>5. outcome[c].result.type = "Result" => outcome[c].result.received <= n + 1
    <3>1. outcome[c].result \in Chunk \cup {Undecodable}
      BY DEF TypeOK
    <3>2. outcome[c].result.type = "Result" => outcome[c].result.received \in Nat
      BY <3>1 DEF Chunk, FrameType, Undecodable, Frame
    <3> QED BY <3>2, <1>q
  <2> QED BY <2>2, <2>4, <2>5, <1>q DEF ReportOf
<1>4. CASE ClientReadResult(c)
  <2>1. /\ SameCounts
        /\ s2c'[c] = Undecoded(s2c[c])
        /\ outcome'[c].result = Decoded(s2c[c])
    BY <1>4 DEF ClientReadResult, clientRest, TypeOK, n
  <2>2. Within(s2c'[c], n) /\ (Decoded(s2c[c]).type = "Result" => Decoded(s2c[c]).received <= n)
    BY <2>1, <1>q, WithinFacts
  <2> QED BY <2>1, <2>2, <1>q DEF ReportOf, n
<1>5. CASE ClientReadDone(c) \/ ClientAborts(c)
  <2>1. SameCounts /\ SameResult
    BY <1>5 DEF ClientReadDone, ClientAborts, clientRest, n, TypeOK
  <2>2. Within(s2c'[c], n)
    BY <1>5, <1>c DEF ClientReadDone, ClientAborts
  <2> QED BY <2>1, <2>2, <1>0
<1>6. CASE HandlerReadSetup(c) \/ HandlerReturns(c) \/ HandlerKilled(c)
  <2>1. SameCounts /\ SameResult
    BY <1>6 DEF HandlerReadSetup, HandlerReturns, HandlerKilled, HandlerFails,
                handlerRest, handlerState, n
  <2>2. Within(s2c'[c], n)
    BY <1>6, <1>q, <1>c DEF HandlerReadSetup, HandlerReturns, HandlerKilled, HandlerFails
  <2> QED BY <2>1, <2>2, <1>0
<1>7. CASE HandlerSendAck(c) \/ HandlerSendStart(c) \/ HandlerSendDone(c)
  <2>1. /\ Frame("SetupAck") \in Chunk /\ Frame("Start") \in Chunk /\ Frame("Done") \in Chunk
        /\ Frame("SetupAck").type # "Result" /\ Frame("Start").type # "Result"
        /\ Frame("Done").type # "Result"
    BY FrameType_Chunk DEF FrameType, Frame
  <2>2. SameCounts /\ SameResult
    BY <1>7 DEF HandlerSendAck, HandlerSendStart, HandlerSendDone, HandlerSends,
                HandlerFails, handlerRest, handlerState, n
  <2>3. PICK chunk \in Chunk : /\ HandlerWrites(c, chunk) \/ HandlerCloses(c, c2s[c])
                               /\ chunk.type # "Result"
    BY <1>7, <2>1
    DEF HandlerSendAck, HandlerSendStart, HandlerSendDone, HandlerSends, HandlerFails
  <2> QED BY <2>2, <2>3, <1>c, <1>w, <1>0
<1>8. CASE HandlerSendResult(c)
  <2>1. SameCounts /\ SameResult
    BY <1>8 DEF HandlerSendResult, HandlerSends, HandlerFails, handlerRest, handlerState, n
  <2>2. hBytes[c] <= n
    <3>1. spc[c] \notin {"none", "backlog", "setup"}
      BY <1>8 DEF HandlerSendResult
    <3>2. hBytes[c] + Len(c2s[c]) <= cBytes[c]
      BY <3>1 DEF AccountOf, ForwardOf
    <3> QED BY <3>2, Numbers DEF n
  <2>3. ResultMsg(collector.sent, collector.received) \in Chunk
    BY <1>q, ResultMsg_Chunk
  <2>4. ResultMsg(collector.sent, collector.received).received <= n
    BY <1>q, <2>2 DEF ResultMsg
  <2>5. \/ HandlerWrites(c, ResultMsg(collector.sent, collector.received))
        \/ HandlerCloses(c, c2s[c])
        \/ s2c' = s2c
    BY <1>8 DEF HandlerSendResult, HandlerSends, HandlerFails
  <2>6. Within(s2c'[c], n)
    BY <2>3, <2>4, <2>5, <1>q, <1>c, <1>w
  <2> QED BY <2>1, <2>6, <1>0
<1>9. CASE HandlerReadsBulk(c)
  <2>1. PICK k \in 1 .. Len(c2s[c]) :
          /\ hBytes' = [hBytes EXCEPT ![c] = @ + k]
          /\ collector' = [collector EXCEPT !.received = @ + k]
    BY <1>9 DEF HandlerReadsBulk
  <2>2. collector'.received = hBytes'[c]
    BY <2>1, <1>q DEF TypeOK
  <2>3. UNCHANGED <<s2c, cBytes, outcome>>
    BY <1>9 DEF HandlerReadsBulk, handlerRest
  <2> QED BY <2>2, <2>3, <1>q DEF ReportOf, n
<1>10. CASE \/ ClientConnect(c) \/ ClientLoops(c)  \/ ClientLeavesLoop(c)
            \/ ClientReadTimesOut(c) \/ ClientTimeUp(c) \/ ClientCancel(c)
            \/ ServerAccept(c)  \/ HandlerLoops(c) \/ HandlerLeavesLoop(c)
            \/ HandlerReadTimesOut(c) \/ HandlerTimeUp(c)
  <2>1. SameCounts /\ SameResult /\ s2c' = s2c
    BY <1>10
    DEF ClientConnect, ClientLoops, ClientLeavesLoop, ClientReadTimesOut,
        ClientTimeUp, ClientCancel, ServerAccept, HandlerLoops, HandlerLeavesLoop,
        HandlerReadTimesOut, HandlerTimeUp, clientRest, clientTimer, handlerRest,
        handlerState, n
  <2> QED BY <2>1, <1>q, <1>0
<1>11. ~ClientReadsBulk(c) /\ ~HandlerSendsBulk(c)
  BY DEF ClientReadsBulk, HandlerSendsBulk
<1> QED
  BY <1>1, <1>2, <1>3, <1>4, <1>5, <1>6, <1>7, <1>8, <1>9, <1>10, <1>11
  DEF ClientStep, HandlerStep

\* What the step of another client d, or of its handler, does: with one sender,
\* d receives, and its handler records only what it sent.
LEMMA OthersKeepReport ==
  ASSUME TypeOK, NEW c \in Clients \ reverse, ReportOf(c), NEW d \in reverse \cap Clients,
         Untouched(c),
         \/ ClientStep(d)   \/ ClientTimeUp(d)  \/ ClientCancel(d)
         \/ ClientAborts(d) \/ HandlerStep(d)   \/ HandlerTimeUp(d)
         \/ HandlerKilled(d)
  PROVE  ReportOf(c)'
<1>1. collector'.received = collector.received
  <2>1. CASE HandlerSendsBulk(d)
    BY <2>1 DEF HandlerSendsBulk, TypeOK
  <2>2. ~HandlerReadsBulk(d)
    BY DEF HandlerReadsBulk
  <2>3. CASE ~HandlerSendsBulk(d)
    <3>1. UNCHANGED collector
      BY <2>2, <2>3
      DEF ClientStep, ClientConnect, ClientSendSetup, ClientReadAck,
     ClientReadStart, ClientLoops, ClientLeavesLoop, ClientSendsBulk,
     ClientReadsBulk, ClientReadTimesOut, ClientReadResult, ClientReadDone,
     ClientExpects, ClientFails, clientRest, clientTimer,
     ClientTimeUp, ClientCancel, ClientAborts, HandlerTimeUp, HandlerKilled,
     HandlerStep, ServerAccept, HandlerReadSetup, HandlerSendAck,
     HandlerSendStart, HandlerLoops, HandlerLeavesLoop,
     HandlerReadTimesOut, HandlerSendResult, HandlerSendDone,
     HandlerReturns, HandlerSends, HandlerFails, handlerRest, handlerState
    <3> QED BY <3>1
  <2> QED BY <2>1, <2>3
<1>2. outcome'[c] = outcome[c]
  <2>1. d # c
    OBVIOUS
  <2> QED
    BY <2>1
    DEF TypeOK, ClientStep, ClientConnect, ClientSendSetup, ClientReadAck,
     ClientReadStart, ClientLoops, ClientLeavesLoop, ClientSendsBulk,
     ClientReadsBulk, ClientReadTimesOut, ClientReadResult, ClientReadDone,
     ClientExpects, ClientFails, clientRest, clientTimer,
     ClientTimeUp, ClientCancel, ClientAborts, HandlerTimeUp, HandlerKilled,
     HandlerStep, ServerAccept, HandlerReadSetup, HandlerSendAck,
     HandlerSendStart, HandlerLoops, HandlerLeavesLoop, HandlerSendsBulk,
     HandlerReadsBulk, HandlerReadTimesOut, HandlerSendResult, HandlerSendDone,
     HandlerReturns, HandlerSends, HandlerFails, handlerRest, handlerState
<1> QED BY <1>1, <1>2 DEF ReportOf, Untouched

\* The reports of a server with one sender stay within what was sent.
LEMMA ReportInductive ==
  ASSUME OneSender
  PROVE  TypeOK /\ HandshakeInv /\ AccountInv /\ ReportInv /\ [Next]_vars => ReportInv'
<1> SUFFICES ASSUME TypeOK, HandshakeInv, AccountInv, ReportInv, [Next]_vars
             PROVE  ReportInv'
  OBVIOUS
<1>r. reverse' = reverse
  BY DEF Next, vars, Finished, ServerStops, ClientStep, ClientConnect, ClientSendSetup,
     ClientReadAck, ClientReadStart, ClientLoops, ClientLeavesLoop, ClientSendsBulk,
     ClientReadsBulk, ClientReadTimesOut, ClientReadResult, ClientReadDone,
     ClientExpects, ClientFails, clientRest, clientTimer,
     ClientTimeUp, ClientCancel, ClientAborts, HandlerTimeUp, HandlerKilled,
     HandlerStep, ServerAccept, HandlerReadSetup, HandlerSendAck,
     HandlerSendStart, HandlerLoops, HandlerLeavesLoop, HandlerSendsBulk,
     HandlerReadsBulk, HandlerReadTimesOut, HandlerSendResult, HandlerSendDone,
     HandlerReturns, HandlerSends, HandlerFails, handlerRest, handlerState
<1> SUFFICES ASSUME NEW c \in Clients \ reverse PROVE ReportOf(c)'
  BY <1>r DEF ReportInv
<1>0. HandshakeOf(c) /\ AccountOf(c) /\ ReportOf(c)
  BY DEF HandshakeInv, AccountInv, ReportInv
<1>1. ASSUME NEW d \in Clients,
             \/ ClientStep(d)   \/ ClientTimeUp(d)  \/ ClientCancel(d)
             \/ ClientAborts(d) \/ HandlerStep(d)   \/ HandlerTimeUp(d)
             \/ HandlerKilled(d)
      PROVE  ReportOf(c)'
  <2>1. CASE d = c
    BY <1>0, <1>1, <2>1, StepKeepsReport
  <2>2. CASE d # c
    <3>1. d \in reverse
      BY <2>2 DEF OneSender, ReportInv
    <3>2. Untouched(c)
      BY <1>1, <2>2, OneConnection
    <3> QED BY <1>0, <1>1, <3>1, <3>2, OthersKeepReport
  <2> QED BY <2>1, <2>2
<1>2. CASE ServerStops
  BY <1>0, <1>2 DEF ServerStops, ReportOf
<1>3. CASE Finished \/ UNCHANGED vars
  BY <1>0, <1>3 DEF Finished, vars, ReportOf
<1> QED BY <1>1, <1>2, <1>3 DEF Next

\* With one sender, whatever the number of receiving clients, the Result frame
\* that the client of a forward test reads claims no more than the client sent.
\* Two senders share stream 0 of the server's collector, and the first result
\* may then include what the second sent.
THEOREM ResultStaysWithinSent ==
  ASSUME OneSender
  PROVE  Spec => []ResultWithinSent
<1>1. Init => ReportInv
  <2> SUFFICES ASSUME Init, NEW c \in Clients \ reverse PROVE ReportOf(c)
    BY DEF Init, ReportInv
  <2>1. /\ s2c[c] = <<>> /\ outcome[c].result = Undecodable /\ hBytes[c] = 0
        /\ collector.received = 0
    BY DEF Init
  <2> QED BY <2>1 DEF ReportOf, Within, Undecodable, Frame
<1>2. TypeOK /\ HandshakeInv /\ AccountInv /\ ReportInv /\ [Next]_vars => ReportInv'
  BY ReportInductive
<1>3. ReportInv => ResultWithinSent
  BY DEF ReportInv, ReportOf, ResultWithinSent
<1> QED BY <1>1, <1>2, <1>3, TypeCorrect, HandshakeExplained, AccountsRight, PTL DEF Spec

-----------------------------------------------------------------------------
(* Nobody waits for who waits for him                                      *)

\* The client can only go on after the handler has: read_exact, which run_tcp
\* calls without a timeout, finds nothing, or the kernel does not take a write.
ClientWaits(c) ==
  \/ cpc[c] \in {"ack", "start", "result", "done"} /\ ~ClientCanRead(c)
  \/ /\ cpc[c] = "setup" \/ (cpc[c] = "io" /\ c \notin reverse)
     /\ ~reset[c] /\ ~HandlerGone(c) /\ ~HasRoom(c2s[c])

\* The handler can only go on after the client has.
HandlerWaits(c) ==
  \/ spc[c] = "setup" /\ ~HandlerCanRead(c)
  \/ /\ \/ spc[c] \in {"ack", "start", "done"}
        \/ spc[c] = "result" /\ collector.sent + collector.received > 0
        \/ spc[c] = "io" /\ c \in reverse
     /\ ~reset[c] /\ ~ClientGone(c) /\ ~HasRoom(s2c[c])

NoMutualWait == \A c \in Clients : ~(ClientWaits(c) /\ HandlerWaits(c))

\* The frames a handler has written at most, and those a client in its
\* handshake or its data loop has read.
Written(pc) ==
  CASE pc \in {"none", "backlog", "setup", "ack"} -> 0
    [] pc = "start"                               -> 1
    [] pc \in {"data", "io", "result"}            -> 2
    [] pc = "done"                                -> 3
    [] OTHER                                      -> 4

HasRead(pc) ==
  CASE pc \in {"idle", "setup", "ack"} -> 0
    [] pc = "start"                    -> 1
    [] OTHER                           -> 2

\* In a forward test nothing but frames goes to the client: queued are at most
\* those written and not yet read.
PendingOf(c) ==
  c \notin reverse /\ cpc[c] \in {"idle", "setup", "ack", "start", "data", "io"}
    => Len(s2c[c]) + HasRead(cpc[c]) <= Written(spc[c])

\* What writing and closing do to the queue that the client reads.
LEMMA ReplyLens ==
  ASSUME TypeOK, NEW c \in Clients, NEW chunk \in Chunk, NEW unread
  PROVE  /\ Len(s2c[c]) \in Nat
         /\ ClientWrites(c, chunk) => Len(s2c'[c]) \in Nat /\ Len(s2c'[c]) <= Len(s2c[c])
         /\ s2c[c] # <<>> => Len(Tail(s2c[c])) = Len(s2c[c]) - 1
<1>1. s2c[c] \in Seq(Chunk)
  BY DEF TypeOK
<1>2. \A p \in Prefixes(s2c[c]) : Len(p) \in Nat /\ Len(p) <= Len(s2c[c])
  BY <1>1, PrefixFacts
<1>3. ClientWrites(c, chunk) => s2c'[c] \in Prefixes(s2c[c]) \/ s2c'[c] = s2c[c]
  BY DEF ClientWrites, TypeOK
<1> QED BY <1>1, <1>2, <1>3

\* A step of the client reads one frame and goes on, or leaves what is queued;
\* it writes no frame to itself.
LEMMA ClientKeepsPending ==
  ASSUME TypeOK, NEW c \in Clients, HandshakeOf(c), PendingOf(c), ClientStep(c)
  PROVE  PendingOf(c)'
<1> DEFINE Early == {"idle", "setup", "ack", "start", "data", "io"}
<1>1. /\ reverse' = reverse
      /\ spc'[c] = spc[c] \/ (spc[c] = "none" /\ spc'[c] = "backlog")
  <2>1. CASE ClientConnect(c)
    BY <2>1 DEF ClientConnect, HandshakeOf, TypeOK
  <2>2. CASE ~ClientConnect(c)
    BY <2>2
    DEF ClientStep, ClientSendSetup, ClientReadAck, ClientReadStart, ClientLoops,
        ClientLeavesLoop, ClientSendsBulk, ClientReadsBulk, ClientReadTimesOut,
        ClientReadResult, ClientReadDone, ClientExpects, ClientFails, clientRest
  <2> QED BY <2>1, <2>2
<1>2. c \notin reverse /\ cpc'[c] \in Early =>
        /\ cpc[c] \in Early
        /\ \/ HasRead(cpc'[c]) = HasRead(cpc[c]) /\ Len(s2c'[c]) <= Len(s2c[c])
           \/ HasRead(cpc'[c]) = HasRead(cpc[c]) + 1 /\ Len(s2c'[c]) = Len(s2c[c]) - 1
        /\ Len(s2c'[c]) \in Nat
  <2> SUFFICES ASSUME c \notin reverse, cpc'[c] \in Early
               PROVE  /\ cpc[c] \in Early
                      /\ \/ HasRead(cpc'[c]) = HasRead(cpc[c]) /\ Len(s2c'[c]) <= Len(s2c[c])
                         \/ HasRead(cpc'[c]) = HasRead(cpc[c]) + 1
                              /\ Len(s2c'[c]) = Len(s2c[c]) - 1
                      /\ Len(s2c'[c]) \in Nat
    OBVIOUS
  <2>0. ~ClientFails(c, s2c[c]) /\ ~ClientFails(c, Undecoded(s2c[c]))
    BY DEF ClientFails, GoTo, TypeOK
  <2>q. Len(s2c[c]) \in Nat
    BY DEF TypeOK
  <2>1. CASE ClientConnect(c)
    <3>1. cpc[c] = "idle" /\ cpc'[c] = "setup" /\ UNCHANGED s2c
      BY <2>1 DEF ClientConnect, GoTo, TypeOK
    <3> QED BY <2>q, <3>1 DEF HasRead
  <2>2. CASE ClientSendSetup(c)
    <3>1. cpc[c] = "setup" /\ cpc'[c] = "ack" /\ ClientWrites(c, Frame("Setup"))
      BY <2>0, <2>2 DEF ClientSendSetup, GoTo, TypeOK
    <3>2. Frame("Setup") \in Chunk
      BY FrameType_Chunk DEF FrameType
    <3> QED BY <3>1, <3>2, ReplyLens DEF HasRead
  <2>3. CASE ClientReadAck(c)
    <3>1. Decoded(s2c[c]).type = "SetupAck" /\ s2c'[c] = Tail(s2c[c])
          /\ cpc[c] = "ack" /\ cpc'[c] = "start"
      BY <2>0, <2>3 DEF ClientReadAck, ClientExpects, GoTo, TypeOK
    <3>2. s2c[c] # <<>>
      BY <3>1 DEF Decoded, Undecodable, Frame
    <3> QED BY <3>1, <3>2, <2>q DEF HasRead, TypeOK
  <2>4. CASE ClientReadStart(c)
    <3>1. Decoded(s2c[c]).type = "Start" /\ s2c'[c] = Tail(s2c[c])
          /\ cpc[c] = "start" /\ cpc'[c] = "data"
      BY <2>0, <2>4 DEF ClientReadStart, ClientExpects, GoTo, TypeOK
    <3>2. s2c[c] # <<>>
      BY <3>1 DEF Decoded, Undecodable, Frame
    <3> QED BY <3>1, <3>2, <2>q DEF HasRead, TypeOK
  <2>5. CASE ClientLoops(c) \/ ClientReadTimesOut(c)
    <3>1. cpc[c] \in {"data", "io"} /\ cpc'[c] \in {"data", "io"} /\ UNCHANGED s2c
      BY <2>5 DEF ClientLoops, ClientReadTimesOut, GoTo, TypeOK
    <3> QED BY <2>q, <3>1 DEF HasRead
  <2>6. CASE ClientSendsBulk(c)
    <3>1. cpc[c] = "io" /\ cpc'[c] = "data" /\ ClientWrites(c, Bulk)
      BY <2>6 DEF ClientSendsBulk, GoTo, TypeOK
    <3>2. Bulk \in Chunk
      BY FrameType_Chunk DEF Bulk, FrameType
    <3> QED BY <3>1, <3>2, ReplyLens DEF HasRead
  <2>7. CASE ClientReadsBulk(c)
    BY <2>7 DEF ClientReadsBulk
  <2>8. CASE ClientLeavesLoop(c) \/ ClientReadResult(c) \/ ClientReadDone(c)
    BY <2>8 DEF ClientLeavesLoop, ClientReadResult, ClientReadDone, GoTo, TypeOK
  <2> QED BY <2>1, <2>2, <2>3, <2>4, <2>5, <2>6, <2>7, <2>8 DEF ClientStep
<1>3. Written(spc'[c]) = Written(spc[c]) /\ Written(spc[c]) \in Nat
  BY <1>1 DEF Written
<1>4. HasRead(cpc[c]) \in Nat /\ Len(s2c[c]) \in Nat
  BY DEF HasRead, TypeOK
<1>5. ASSUME c \notin reverse, cpc'[c] \in Early
      PROVE  Len(s2c'[c]) + HasRead(cpc'[c]) <= Written(spc'[c])
  <2> DEFINE l == Len(s2c[c])
             m == Len(s2c'[c])
             r == HasRead(cpc[c])
             s == HasRead(cpc'[c])
             w == Written(spc[c])
  <2>1. l + r <= w /\ l \in Nat /\ m \in Nat /\ r \in Nat /\ w \in Nat
    BY <1>2, <1>3, <1>4, <1>5 DEF PendingOf
  <2>2. (s = r /\ m <= l) \/ (s = r + 1 /\ m = l - 1)
    BY <1>2, <1>5
  <2> HIDE DEF l, m, r, s, w
  <2>3. m + s <= w
    BY ONLY <2>1, <2>2
  <2> QED BY <1>3, <2>3 DEF m, s, w
<1> QED BY <1>1, <1>5 DEF PendingOf

\* A step of the handler that queues a frame counts it, and one that does not
\* queues nothing.
LEMMA HandlerKeepsPending ==
  ASSUME TypeOK, NEW c \in Clients, HandshakeOf(c), PendingOf(c),
         HandlerStep(c) \/ HandlerKilled(c)
  PROVE  PendingOf(c)'
<1>q. Len(s2c[c]) \in Nat
  BY DEF TypeOK
<1>s. Written(spc[c]) \in 0 .. 4
  BY DEF Written
<1> DEFINE Keeps ==
      /\ UNCHANGED <<reverse, cpc>>
      /\ c \notin reverse =>
           /\ Len(s2c'[c]) \in Nat
           /\ \/ Len(s2c'[c]) <= Len(s2c[c]) /\ Written(spc[c]) <= Written(spc'[c])
              \/ Len(s2c'[c]) = Len(s2c[c]) + 1 /\ Written(spc'[c]) = Written(spc[c]) + 1
<1>k. ASSUME Keeps, c \notin reverse,
             cpc[c] \in {"idle", "setup", "ack", "start", "data", "io"}
      PROVE  Len(s2c'[c]) + HasRead(cpc[c]) <= Written(spc'[c])
  <2> DEFINE l == Len(s2c[c])
             m == Len(s2c'[c])
             r == HasRead(cpc[c])
             w == Written(spc[c])
             x == Written(spc'[c])
  <2>1. l + r <= w
    BY <1>k DEF PendingOf
  <2>2. l \in Nat /\ m \in Nat /\ r \in Nat
    BY <1>q, <1>k DEF HasRead
  <2>3. (m <= l /\ w <= x) \/ (m = l + 1 /\ x = w + 1)
    BY <1>k
  <2>4. w \in Nat /\ x \in Nat
    BY DEF Written
  <2> HIDE DEF l, m, r, w, x
  <2>5. m + r <= x
    BY ONLY <2>1, <2>2, <2>3, <2>4
  <2> QED BY <2>5 DEF m, r, x
<1> SUFFICES Keeps
  BY <1>k DEF PendingOf
<1>f. ASSUME NEW unread, spc'[c] \in HandlerDone, HandlerCloses(c, unread),
             UNCHANGED <<reverse, cpc>>
      PROVE  Keeps
  <2>1. Len(s2c'[c]) \in Nat /\ Len(s2c'[c]) <= Len(s2c[c])
    BY <1>f, CloseLens
  <2>2. Written(spc'[c]) = 4
    BY <1>f DEF Written, HandlerDone
  <2> QED BY <1>f, <1>s, <2>1, <2>2 DEF HandlerDone
<1>w. ASSUME NEW chunk \in Chunk, HandlerWrites(c, chunk), UNCHANGED <<reverse, cpc>>,
             c \notin reverse => Written(spc'[c]) = Written(spc[c]) + 1
      PROVE  Keeps
  <2>1. s2c' = s2c \/ Len(s2c'[c]) = Len(s2c[c]) + 1
    BY <1>w, WriteLens
  <2> QED BY <1>q, <1>s, <1>w, <2>1
<1>g. ASSUME NEW unread, HandlerFails(c, unread) PROVE Keeps
  BY <1>g, <1>f DEF HandlerFails, HandlerGoTo, TypeOK, HandlerDone, handlerRest
<1>1. CASE ServerAccept(c) \/ HandlerLoops(c) \/ HandlerLeavesLoop(c) \/ HandlerReadTimesOut(c)
  <2>1. UNCHANGED <<reverse, cpc, s2c>>
    BY <1>1
    DEF ServerAccept, HandlerLoops, HandlerLeavesLoop, HandlerReadTimesOut,
        handlerRest, handlerState
  <2>2. \/ spc[c] = "backlog" /\ spc'[c] = "setup"
        \/ spc[c] \in {"data", "io"} /\ spc'[c] \in {"data", "io", "result"}
    BY <1>1
    DEF ServerAccept, HandlerLoops, HandlerLeavesLoop, HandlerReadTimesOut, HandlerGoTo, TypeOK
  <2> QED BY <1>q, <2>1, <2>2 DEF Written
<1>2. CASE HandlerReadSetup(c)
  <2>1. CASE HandlerFails(c, Undecoded(c2s[c]))
    BY <2>1, <1>g
  <2>2. CASE ~HandlerFails(c, Undecoded(c2s[c]))
    <3>1. spc[c] = "setup" /\ spc'[c] = "ack" /\ UNCHANGED <<reverse, cpc, s2c>>
      BY <1>2, <2>2 DEF HandlerReadSetup, HandlerGoTo, TypeOK, handlerRest, handlerState
    <3> QED BY <1>q, <3>1 DEF Written
  <2> QED BY <2>1, <2>2
<1>3. ASSUME NEW chunk \in Chunk, NEW pc, HandlerSends(c, chunk, pc),
             Written(pc) = Written(spc[c]) + 1
      PROVE  Keeps
  <2>1. CASE HandlerFails(c, c2s[c])
    BY <2>1, <1>g
  <2>2. CASE ~HandlerFails(c, c2s[c])
    <3>1. HandlerWrites(c, chunk) /\ spc'[c] = pc /\ UNCHANGED <<reverse, cpc>>
      BY <1>3, <2>2 DEF HandlerSends, HandlerGoTo, TypeOK, handlerRest, handlerState
    <3> QED BY <1>3, <1>w, <3>1
  <2> QED BY <2>1, <2>2
<1>4. CASE HandlerSendAck(c)
  <2>1. Frame("SetupAck") \in Chunk
    BY FrameType_Chunk DEF FrameType
  <2>2. spc[c] = "ack" /\ HandlerSends(c, Frame("SetupAck"), "start")
    BY <1>4 DEF HandlerSendAck
  <2>3. Written("start") = Written(spc[c]) + 1
    BY <2>2 DEF Written
  <2> QED BY <1>3, <2>1, <2>2, <2>3
<1>5. CASE HandlerSendStart(c)
  <2>1. Frame("Start") \in Chunk
    BY FrameType_Chunk DEF FrameType
  <2>2. CASE HandlerFails(c, c2s[c])
    BY <2>2, <1>g
  <2>3. CASE ~HandlerFails(c, c2s[c])
    <3>1. HandlerWrites(c, Frame("Start")) /\ spc[c] = "start" /\ spc'[c] = "data"
          /\ UNCHANGED <<reverse, cpc>>
      BY <1>5, <2>3 DEF HandlerSendStart, HandlerGoTo, TypeOK, handlerRest
    <3>2. Written(spc'[c]) = Written(spc[c]) + 1
      BY <3>1 DEF Written
    <3> QED BY <1>w, <2>1, <3>1, <3>2
  <2> QED BY <2>2, <2>3
<1>6. CASE HandlerSendsBulk(c)
  <2>1. Bulk \in Chunk
    BY FrameType_Chunk DEF Bulk, FrameType
  <2>2. /\ c \in reverse /\ HandlerWrites(c, Bulk) /\ spc'[c] = "data"
        /\ UNCHANGED <<reverse, cpc>>
    BY <1>6 DEF HandlerSendsBulk, HandlerGoTo, TypeOK, handlerRest
  <2> QED BY <1>w, <2>1, <2>2
<1>7. CASE HandlerReadsBulk(c)
  <2>1. spc[c] = "io" /\ spc'[c] = "data" /\ UNCHANGED <<reverse, cpc, s2c>>
    BY <1>7 DEF HandlerReadsBulk, HandlerGoTo, TypeOK, handlerRest
  <2> QED BY <1>q, <2>1 DEF Written
<1>8. CASE HandlerSendResult(c)
  <2>1. spc[c] = "result"
    BY <1>8 DEF HandlerSendResult
  <2>2. CASE collector.sent + collector.received > 0
    <3>1. ResultMsg(collector.sent, collector.received) \in Chunk
      BY ResultMsg_Chunk DEF TypeOK
    <3>2. HandlerSends(c, ResultMsg(collector.sent, collector.received), "done")
      BY <1>8, <2>2 DEF HandlerSendResult
    <3>3. Written("done") = Written(spc[c]) + 1
      BY <2>1 DEF Written
    <3> QED BY <1>3, <2>1, <3>1, <3>2, <3>3
  <2>3. CASE ~(collector.sent + collector.received > 0)
    <3>1. spc'[c] = "done" /\ UNCHANGED <<reverse, cpc, s2c>>
      BY <1>8, <2>3 DEF HandlerSendResult, HandlerGoTo, TypeOK, handlerRest
    <3> QED BY <1>q, <2>1, <3>1 DEF Written
  <2> QED BY <2>2, <2>3
<1>9. CASE HandlerSendDone(c)
  <2>1. Frame("Done") \in Chunk
    BY FrameType_Chunk DEF FrameType
  <2>2. spc[c] = "done" /\ HandlerSends(c, Frame("Done"), "closing")
    BY <1>9 DEF HandlerSendDone
  <2>3. Written("closing") = Written(spc[c]) + 1
    BY <2>2 DEF Written
  <2> QED BY <1>3, <2>1, <2>2, <2>3
<1>10. CASE HandlerReturns(c) \/ HandlerKilled(c)
  BY <1>10, <1>f
  DEF HandlerReturns, HandlerKilled, HandlerGoTo, TypeOK, HandlerDone, handlerRest
<1> QED BY <1>1, <1>2, <1>4, <1>5, <1>6, <1>7, <1>8, <1>9, <1>10 DEF HandlerStep

\* The clocks, the user, and a server that stops.
LEMMA OthersKeepPending ==
  ASSUME TypeOK, NEW c \in Clients, PendingOf(c),
         \/ ClientTimeUp(c) \/ ClientCancel(c) \/ ClientAborts(c)
         \/ HandlerTimeUp(c) \/ ServerStops
  PROVE  PendingOf(c)'
<1>1. CASE ClientTimeUp(c) \/ ClientCancel(c) \/ HandlerTimeUp(c)
  BY <1>1 DEF PendingOf, ClientTimeUp, ClientCancel, HandlerTimeUp, clientRest,
              handlerRest
<1>2. CASE ClientAborts(c)
  BY <1>2 DEF PendingOf, ClientAborts, GoTo, TypeOK, clientRest
<1>3. CASE ServerStops
  <2>1. /\ UNCHANGED <<reverse, cpc, s2c>>
        /\ spc'[c] = IF spc[c] = "backlog" THEN "refused" ELSE spc[c]
    BY <1>3 DEF ServerStops
  <2>2. CASE spc[c] = "backlog"
    <3>1. Written(spc[c]) = 0 /\ Written(spc'[c]) = 4
      BY <2>1, <2>2 DEF Written
    <3>2. Len(s2c[c]) \in Nat /\ HasRead(cpc[c]) \in Nat
      BY DEF TypeOK, HasRead
    <3> QED BY <2>1, <2>2, <3>1, <3>2 DEF PendingOf
  <2>3. CASE spc[c] # "backlog"
    BY <2>1, <2>3 DEF PendingOf
  <2> QED BY <2>2, <2>3
<1> QED BY <1>1, <1>2, <1>3

\* The inductive invariant behind NoMutualWait.
PendingInv == \A c \in Clients : PendingOf(c)

LEMMA PendingInductive ==
  TypeOK /\ HandshakeInv /\ PendingInv /\ [Next]_vars => PendingInv'
<1> SUFFICES ASSUME TypeOK, HandshakeInv, PendingInv, [Next]_vars, NEW d \in Clients
             PROVE  PendingOf(d)'
  BY DEF PendingInv
<1>0. HandshakeOf(d) /\ PendingOf(d)
  BY DEF HandshakeInv, PendingInv
<1>1. ASSUME NEW c \in Clients,
             \/ ClientStep(c)   \/ ClientTimeUp(c)  \/ ClientCancel(c)
             \/ ClientAborts(c) \/ HandlerStep(c)   \/ HandlerTimeUp(c)
             \/ HandlerKilled(c)
      PROVE  PendingOf(d)'
  <2>1. CASE d = c
    BY <1>0, <1>1, <2>1, ClientKeepsPending, HandlerKeepsPending, OthersKeepPending
  <2>2. CASE d # c
    <3>1. Untouched(d)
      BY <1>1, <2>2, OneConnection
    <3> QED BY <1>0, <3>1 DEF Untouched, PendingOf
  <2> QED BY <2>1, <2>2
<1>2. CASE ServerStops
  BY <1>0, <1>2, OthersKeepPending
<1>3. CASE Finished \/ UNCHANGED vars
  BY <1>0, <1>3 DEF Finished, vars, PendingOf
<1> QED BY <1>1, <1>2, <1>3 DEF Next

\* run_tcp and handle_tcp_client never wait for each other, although neither the
\* reads of frames nor any write has a timeout: as soon as two frames fit into
\* the socket buffers, an end that waits waits for one that goes on by itself.
\* (With room for one a sending client and a handler in its last write would
\* stop each other.)
THEOREM EndsNeverWaitForEachOther ==
  ASSUME SockBuf >= 2
  PROVE  Spec => []NoMutualWait
<1>1. Init => PendingInv
  <2> SUFFICES ASSUME Init, NEW c \in Clients PROVE PendingOf(c)
    BY DEF PendingInv
  <2>1. cpc[c] = "idle" /\ spc[c] = "none" /\ s2c[c] = <<>>
    BY DEF Init
  <2>2. Len(s2c[c]) = 0
    BY <2>1
  <2> QED BY <2>1, <2>2 DEF PendingOf, Written, HasRead
<1>2. TypeOK /\ HandshakeInv /\ PendingInv /\ [Next]_vars => PendingInv'
  BY PendingInductive
<1>3. TypeOK /\ HandshakeInv /\ AccountInv /\ PendingInv => NoMutualWait
  <2> SUFFICES ASSUME TypeOK, HandshakeInv, AccountInv, PendingInv, NEW c \in Clients,
                      ClientWaits(c), HandlerWaits(c)
               PROVE  FALSE
    BY DEF NoMutualWait
  <2>0. HandshakeOf(c) /\ EntryOf(c) /\ PendingOf(c)
    BY DEF HandshakeInv, AccountInv, AccountOf, PendingInv
  <2>1. CASE spc[c] = "setup" /\ ~HandlerCanRead(c)
    <3>1. c2s[c] = <<>> /\ ~reset[c]
      BY <2>1 DEF HandlerCanRead
    <3>2. Len(c2s[c]) = 0
      BY <3>1
    <3>3. cpc[c] \in {"ack", "setup"}
      BY <2>0, <2>1 DEF ClientWaits, HandshakeOf
    <3>4. HasRoom(c2s[c])
      BY <3>2, BoundsAssumption DEF HasRoom
    <3> QED BY <2>0, <2>1, <3>1, <3>2, <3>3, <3>4 DEF EntryOf, ClientWaits
  <2>2. CASE ~(spc[c] = "setup" /\ ~HandlerCanRead(c))
    <3>1. /\ spc[c] \in {"ack", "start", "result", "done"} \/ c \in reverse
          /\ ~HasRoom(s2c[c])
      BY <2>2 DEF HandlerWaits
    <3>2. Len(s2c[c]) >= 2 /\ Len(s2c[c]) \in Nat
      BY <3>1, BoundsAssumption DEF HasRoom, TypeOK
    <3>3. s2c[c] # <<>>
      BY <3>2
    <3>4. cpc[c] # "setup"
      BY <2>0, <3>3 DEF HandshakeOf
    <3>5. cpc[c] = "io" /\ c \notin reverse
      BY <3>3, <3>4 DEF ClientWaits, ClientCanRead
    <3>6. Len(s2c[c]) + 2 <= Written(spc[c])
      BY <2>0, <3>5 DEF PendingOf, HasRead
    <3>7. Written(spc[c]) \in {0, 1, 2, 3}
      BY <3>1, <3>5 DEF Written
    <3> QED BY <3>2, <3>6, <3>7
  <2> QED BY <2>1, <2>2
<1> QED BY <1>1, <1>2, <1>3, TypeCorrect, HandshakeExplained, AccountsRight, PTL DEF Spec

=============================================================================
