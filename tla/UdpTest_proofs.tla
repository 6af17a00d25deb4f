---------------------------- MODULE UdpTest_proofs ----------------------------
(***************************************************************************)
(* A forward or reverse UDP test keeps the promise of TestLifecycle, for   *)
(* any number of clients at once, in any mix of modes, and whatever the    *)
(* network does with the datagrams; and no datagram is counted twice,      *)
(* whichever handler takes it.                                             *)
(***************************************************************************)
EXTENDS UdpTest, Sums_proofs, SequenceTheorems

\* A frame Start that is queued has been granted, and a handler exists only
\* for a client that has connected.
GrantInv ==
  /\ \A c \in Clients : \A i \in 1 .. Len(control[c]) :
       control[c][i] = "Start" => c \in granted
  /\ \A c \in Clients : cpc[c] = "idle" => spc[c] = "none"

Frames == {"SetupAck", "Start"}

(***************************************************************************)
(* Types, in parts.                                                        *)
(***************************************************************************)

\* The clients' steps as their effect on places and control connection.
ClientMoves(c) == ClientStep(c) \/ ClientAborts(c)

\* The handlers' steps, and what stops them.
HandlerMoves(c) == HandlerStep(c) \/ HandlerKilled(c)

\* Counting up, and down from what is there.
LEMMA MoreTyped ==
  ASSUME NEW f \in [Clients -> Nat], NEW c, NEW n \in Nat
  PROVE  [f EXCEPT ![c] = @ + n] \in [Clients -> Nat]
  <1>1. \A d \in Clients : f[d] + n \in Nat
    OBVIOUS
  <1>2. \A d \in Clients : d = c => f[c] + n \in Nat
    BY <1>1
  <1> QED BY <1>2

LEMMA LessTyped ==
  ASSUME NEW f \in [Clients -> Nat], NEW c \in Clients, f[c] > 0
  PROVE  [f EXCEPT ![c] = @ - 1] \in [Clients -> Nat]
  OBVIOUS

LEMMA InitTyped == Init => TypeOK
  BY ChoicesAssumption DEF Init, TypeOK, ClientPC, HandlerPC

\* The rest of a queue of frames is one.
LEMMA TailTyped ==
  ASSUME NEW q \in Seq(Frames), q # <<>>
  PROVE  Tail(q) \in Seq(Frames) /\ Head(q) \in Frames
  OBVIOUS

\* Reading an expected frame.
LEMMA ExpectsTyped ==
  ASSUME TypeOK, NEW c \in Clients, NEW pc \in ClientPC, NEW type,
         ClientExpects(c, type, pc)
  PROVE  TypeOK'
  <1>1. "failed" \in ClientPC
    BY DEF ClientPC, ClientDone
  <1>2. cpc' \in [Clients -> ClientPC]
    <2>1. GoTo(c, pc) \/ GoTo(c, "failed")
      <3>1. CASE control[c] # <<>> /\ Head(control[c]) = type
        BY <3>1 DEF ClientExpects
      <3>2. CASE control[c] = <<>> \/ Head(control[c]) # type
        BY <3>2 DEF ClientExpects
      <3> QED BY <3>1, <3>2
    <2> QED BY <1>1, <2>1 DEF GoTo, TypeOK
  <1>3. control' \in [Clients -> Seq(Frames)]
    <2>1. CASE control[c] # <<>> /\ control' = [control EXCEPT ![c] = Tail(@)]
      <3>1. Tail(control[c]) \in Seq(Frames)
        BY <2>1, TailTyped DEF TypeOK, Frames
      <3> QED BY <2>1, <3>1 DEF TypeOK, Frames
    <2>2. CASE UNCHANGED control
      BY <2>2 DEF TypeOK, Frames
    <2> QED BY <2>1, <2>2 DEF ClientExpects
  <1> QED BY <1>2, <1>3 DEF ClientExpects, TypeOK, Frames, clientRest, clientData

\* Leaving a test.
LEMMA ReturnsTyped ==
  ASSUME TypeOK, NEW c \in Clients, NEW pc \in ClientPC, ClientReturns(c, pc)
  PROVE  TypeOK'
  <1>1. <<>> \in Seq(Frames)
    OBVIOUS
  <1>2. control' \in [Clients -> Seq(Frames)]
    BY <1>1 DEF ClientReturns, TypeOK, Frames
  <1> QED BY <1>2 DEF ClientReturns, GoTo, TypeOK, Frames, clientRest

LEMMA ClientTyped ==
  ASSUME TypeOK, NEW c \in Clients, ClientMoves(c)
  PROVE  TypeOK'
  <1> USE DEF ClientPC, ClientDone, HandlerPC
  <1>1. CASE ClientConnect(c)
    BY <1>1 DEF ClientConnect, GoTo, TypeOK, clientData
  <1>2. CASE ClientSendSetup(c)
    <2>1. asked' \in {asked, asked \cup {c}}
      BY <1>2 DEF ClientSendSetup
    <2>2. asked' \subseteq Clients
      BY <2>1 DEF TypeOK
    <2>3. cpc' \in [Clients -> ClientPC]
      <3>1. GoTo(c, "failed") \/ GoTo(c, "ack")
        BY <1>2 DEF ClientSendSetup
      <3> QED BY <3>1 DEF GoTo, TypeOK
    <2> QED BY <1>2, <2>2, <2>3 DEF ClientSendSetup, TypeOK, clientData
  <1>3. CASE ClientReadAck(c) \/ ClientReadStart(c)
    BY <1>3, ExpectsTyped DEF ClientReadAck, ClientReadStart
  <1>4. CASE ClientSendsInit(c)
    BY <1>4 DEF ClientSendsInit, GoTo, TypeOK, clientRest
  <1>5. CASE ClientLoops(c) \/ ClientRecvTimesOut(c)
    BY <1>5 DEF ClientLoops, ClientRecvTimesOut, GoTo, TypeOK, clientRest, clientData
  <1>6. CASE ClientSends(c)
    <2>1. PICK n \in IF mode[c] = "onesend" THEN {1} ELSE 0 .. MaxBatch :
            /\ sent' = [sent EXCEPT ![c] = @ + n]
            /\ toServer' = [toServer EXCEPT ![c] = @ + n]
      BY <1>6 DEF ClientSends
    <2>2. n \in Nat
      BY BoundsAssumption
    <2>3. sent' \in [Clients -> Nat] /\ toServer' \in [Clients -> Nat]
      BY <2>1, <2>2, MoreTyped DEF TypeOK
    <2> QED BY <1>6, <2>3 DEF ClientSends, GoTo, TypeOK, clientRest
  <1>7. CASE ClientReceives(c)
    <2>1. toClient' \in [Clients -> Nat]
      BY <1>7, LessTyped DEF ClientReceives, TypeOK
    <2>2. got' \in [Clients -> Nat]
      BY <1>7, MoreTyped DEF ClientReceives, TypeOK
    <2>3. cpc' \in [Clients -> ClientPC]
      BY <1>7 DEF ClientReceives, GoTo, TypeOK
    <2>4. UNCHANGED <<clientRest, control, cTimeUp, cancelled, toServer, cRefused, sent>>
      BY <1>7 DEF ClientReceives
    <2> QED BY <2>1, <2>2, <2>3, <2>4 DEF TypeOK, clientRest
  <1>8. CASE ClientEnds(c) \/ ClientSocketError(c) \/ ClientAborts(c)
    BY <1>8, ReturnsTyped DEF ClientEnds, ClientSocketError, ClientAborts
  <1> QED BY <1>1, <1>2, <1>3, <1>4, <1>5, <1>6, <1>7, <1>8 DEF ClientMoves, ClientStep

\* Writing a frame.
LEMMA SendsTyped ==
  ASSUME TypeOK, NEW c \in Clients, NEW type \in Frames, NEW pc \in HandlerPC,
         HandlerSends(c, type, pc)
  PROVE  control' \in [Clients -> Seq(Frames)] /\ spc' \in [Clients -> HandlerPC]
  <1>1. Append(control[c], type) \in Seq(Frames)
    BY DEF TypeOK, Frames
  <1>2. control' \in [Clients -> Seq(Frames)]
    BY <1>1 DEF HandlerSends, TypeOK, Frames
  <1>3. "failed" \in HandlerPC
    BY DEF HandlerPC, HandlerDone
  <1>4. spc' \in [Clients -> HandlerPC]
    BY <1>3 DEF HandlerSends, HandlerGoTo, TypeOK
  <1> QED BY <1>2, <1>4

LEMMA HandlerTyped ==
  ASSUME TypeOK, NEW c \in Clients, HandlerMoves(c)
  PROVE  TypeOK'
  <1> USE DEF HandlerPC, HandlerDone
  <1>1. CASE ServerAccept(c) \/ HandlerReadSetup(c) \/ HandlerBinds(c) \/ HandlerLoops(c)
               \/ HandlerRecvTimesOut(c) \/ HandlerEnds(c) \/ HandlerKilled(c)
    <2>1. UNCHANGED <<handlerRest, control, granted, handlerData>>
      BY <1>1 DEF ServerAccept, HandlerReadSetup, HandlerBinds, HandlerLoops,
                  HandlerRecvTimesOut, HandlerEnds, HandlerKilled
    <2>2. \E pc \in HandlerPC : HandlerGoTo(c, pc)
      BY <1>1 DEF ServerAccept, HandlerReadSetup, HandlerBinds, HandlerLoops,
                  HandlerRecvTimesOut, HandlerEnds, HandlerKilled
    <2>3. spc' \in [Clients -> HandlerPC]
      BY <2>2 DEF HandlerGoTo, TypeOK
    <2> QED BY <2>1, <2>3 DEF TypeOK, handlerRest, handlerData
  <1>2. CASE HandlerSendAck(c) \/ HandlerSendStart(c)
    <2>1. control' \in [Clients -> Seq(Frames)] /\ spc' \in [Clients -> HandlerPC]
      BY <1>2, SendsTyped DEF HandlerSendAck, HandlerSendStart, Frames
    <2> QED BY <1>2, <2>1 DEF HandlerSendAck, HandlerSendStart, TypeOK, Frames,
                              handlerRest, handlerData
  <1>3. CASE HandlerDiscovers(c)
    <2>1. PICK d \in Clients : /\ toServer[d] > 0
                              /\ toServer' = [toServer EXCEPT ![d] = @ - 1]
                              /\ peer' = [peer EXCEPT ![c] = d]
      BY <1>3 DEF HandlerDiscovers
    <2>2. toServer' \in [Clients -> Nat]
      BY <2>1, LessTyped DEF TypeOK
    <2>3. peer' \in [Clients -> Clients \cup {NoPeer}]
      BY <2>1 DEF TypeOK
    <2>4. spc' \in [Clients -> HandlerPC]
      BY <1>3 DEF HandlerDiscovers, HandlerGoTo, TypeOK
    <2>5. UNCHANGED <<handlerRest, control, granted, toClient, sRefused, sTimeUp, sent, got>>
      BY <1>3 DEF HandlerDiscovers
    <2> QED BY <2>2, <2>3, <2>4, <2>5 DEF TypeOK, handlerRest
  <1>4. CASE HandlerSendsData(c)
    <2>1. sent' \in [Clients -> Nat] /\ toClient' \in [Clients -> Nat]
      BY <1>4, MoreTyped DEF HandlerSendsData, TypeOK
    <2> QED BY <1>4, <2>1 DEF HandlerSendsData, HandlerGoTo, TypeOK, handlerRest
  <1>5. CASE HandlerReceives(c)
    <2>1. PICK d \in Clients : /\ toServer[d] > 0
                              /\ toServer' = [toServer EXCEPT ![d] = @ - 1]
      BY <1>5 DEF HandlerReceives
    <2>2. toServer' \in [Clients -> Nat]
      BY <2>1, LessTyped DEF TypeOK
    <2>3. got' \in [Clients -> Nat]
      BY <1>5, MoreTyped DEF HandlerReceives, TypeOK
    <2>4. spc' \in [Clients -> HandlerPC]
      BY <1>5 DEF HandlerReceives, HandlerGoTo, TypeOK
    <2>5. UNCHANGED <<handlerRest, control, granted, peer, toClient, sRefused, sTimeUp, sent>>
      BY <1>5 DEF HandlerReceives
    <2> QED BY <2>2, <2>3, <2>4, <2>5 DEF TypeOK, handlerRest
  <1> QED BY <1>1, <1>2, <1>3, <1>4, <1>5 DEF HandlerMoves, HandlerStep

LEMMA StepTyped == ASSUME TypeOK, [Next]_vars PROVE TypeOK'
  <1>1. ASSUME NEW c \in Clients, ClientMoves(c) PROVE TypeOK'
    BY <1>1, ClientTyped
  <1>2. ASSUME NEW c \in Clients, HandlerMoves(c) PROVE TypeOK'
    BY <1>2, HandlerTyped
  <1>3. ASSUME NEW c \in Clients, ClientTimeUp(c) \/ ClientCancel(c) \/ HandlerTimeUp(c)
        PROVE TypeOK'
    BY <1>3 DEF ClientTimeUp, ClientCancel, HandlerTimeUp, TypeOK, clientRest, clientData,
                handlerRest
  <1>4. ASSUME NEW c \in Clients, DatagramLost(c) \/ ServerPortRefuses(c) PROVE TypeOK'
    <2>1. toServer' \in [Clients -> Nat] /\ toClient' \in [Clients -> Nat]
      <3>1. toServer \in [Clients -> Nat] /\ toClient \in [Clients -> Nat]
        BY DEF TypeOK
      <3>2. \/ UNCHANGED toServer
            \/ toServer[c] > 0 /\ toServer' = [toServer EXCEPT ![c] = @ - 1]
        BY <1>4 DEF DatagramLost, ServerPortRefuses
      <3>3. \/ UNCHANGED toClient
            \/ toClient[c] > 0 /\ toClient' = [toClient EXCEPT ![c] = @ - 1]
        BY <1>4 DEF DatagramLost, ServerPortRefuses
      <3> QED BY <3>1, <3>2, <3>3, LessTyped
    <2>2. cRefused' \in [Clients -> BOOLEAN]
      <3>1. HasSocket(c) \in BOOLEAN
        BY DEF HasSocket
      <3>2. cRefused' \in {cRefused, [cRefused EXCEPT ![c] = HasSocket(c)]}
        BY <1>4 DEF DatagramLost, ServerPortRefuses
      <3> QED BY <3>1, <3>2 DEF TypeOK
    <2>3. UNCHANGED network /\ UNCHANGED sRefused
      BY <1>4 DEF DatagramLost, ServerPortRefuses
    <2> QED BY <2>1, <2>2, <2>3 DEF TypeOK, network
  <1>5. ASSUME NEW c \in Clients, ClientPortRefuses(c) PROVE TypeOK'
    BY <1>5 DEF ClientPortRefuses, HasPort, TypeOK, network
  <1>6. CASE ServerStops
    BY <1>6 DEF ServerStops, TypeOK, HandlerPC, HandlerDone
  <1>7. CASE UNCHANGED vars
    BY <1>7 DEF vars, TypeOK
  <1> QED BY <1>1, <1>2, <1>3, <1>4, <1>5, <1>6, <1>7
          DEF Next, ClientMoves, HandlerMoves, Finished

(***************************************************************************)
(* Start is granted before it is queued.                                   *)
(***************************************************************************)

LEMMA InitGrant == Init => GrantInv
  BY DEF Init, GrantInv

\* What happens to the queue of one client when nothing is put in.
Drawn(d) == \/ control'[d] = control[d]
            \/ control'[d] = <<>>
            \/ control[d] # <<>> /\ control'[d] = Tail(control[d])

\* A step that queues nothing, revokes no grant and brings nobody back to the
\* beginning keeps the invariant.
LEMMA GrantKept ==
  ASSUME TypeOK, GrantInv, \A d \in Clients : Drawn(d), granted \subseteq granted',
         \A d \in Clients : cpc'[d] = "idle" => cpc[d] = "idle" /\ spc'[d] = spc[d]
  PROVE  GrantInv'
  <1>1. ASSUME NEW d \in Clients, NEW i \in 1 .. Len(control'[d]), control'[d][i] = "Start"
        PROVE  d \in granted'
    <2>1. CASE control'[d] = control[d]
      BY <1>1, <2>1 DEF GrantInv
    <2>2. CASE control[d] # <<>> /\ control'[d] = Tail(control[d])
      <3>1. control[d] \in Seq(Frames) /\ control[d] # <<>>
        BY <2>2 DEF TypeOK, Frames
      <3>2. Len(Tail(control[d])) = Len(control[d]) - 1 /\ Len(control[d]) \in Nat
        BY <3>1
      <3>3. i \in 1 .. Len(Tail(control[d])) /\ i + 1 \in 1 .. Len(control[d])
        BY <2>2, <3>2
      <3>4. Tail(control[d])[i] = control[d][i + 1]
        BY <3>1, <3>3
      <3> QED BY <1>1, <2>2, <3>3, <3>4 DEF GrantInv
    <2>3. CASE control'[d] = <<>>
      BY <1>1, <2>3
    <2> QED BY <2>1, <2>2, <2>3 DEF Drawn
  <1>2. \A d \in Clients : cpc'[d] = "idle" => spc'[d] = "none"
    BY DEF GrantInv
  <1> QED BY <1>1, <1>2 DEF GrantInv

LEMMA ClientGrant ==
  ASSUME TypeOK, GrantInv, NEW c \in Clients, ClientMoves(c)
  PROVE  GrantInv'
  <1> USE DEF ClientMoves, ClientStep, ClientConnect, ClientSendSetup, ClientReadAck,
              ClientReadStart, ClientSendsInit, ClientLoops, ClientSends, ClientReceives,
              ClientRecvTimesOut, ClientEnds, ClientSocketError, ClientAborts,
              ClientExpects, ClientReturns, clientRest
  <1>1. \A d \in Clients : Drawn(d)
    BY DEF Drawn, TypeOK
  <1>2. granted \subseteq granted'
    OBVIOUS
  <1>3. \A d \in Clients : cpc'[d] = "idle" => cpc[d] = "idle" /\ spc'[d] = spc[d]
    BY DEF GoTo, TypeOK
  <1> QED BY <1>1, <1>2, <1>3, GrantKept

\* Start is queued and granted in one step.
LEMMA SendStartGrant ==
  ASSUME TypeOK, GrantInv, NEW c \in Clients, HandlerSendAck(c) \/ HandlerSendStart(c)
  PROVE  GrantInv'
  <1>1. PICK frame \in Frames :
          /\ control' \in {control, [control EXCEPT ![c] = Append(@, frame)]}
          /\ frame = "Start" /\ control' # control => c \in granted'
    BY DEF HandlerSendAck, HandlerSendStart, HandlerSends, Frames, handlerRest, HandlerGoTo,
           TypeOK
  <1>2. granted \subseteq granted' /\ cpc' = cpc
    BY DEF HandlerSendAck, HandlerSendStart, handlerRest
  <1>3. ASSUME NEW d \in Clients, NEW i \in 1 .. Len(control'[d]), control'[d][i] = "Start"
        PROVE  d \in granted'
    <2>1. CASE control'[d] = control[d]
      BY <1>2, <1>3, <2>1 DEF GrantInv
    <2>2. CASE control'[d] # control[d]
      <3>1. d = c /\ control'[c] = Append(control[c], frame) /\ control' # control
        BY <1>1, <2>2 DEF TypeOK
      <3>2. control[c] \in Seq(Frames) /\ Len(control[c]) \in Nat
        BY DEF TypeOK, Frames
      <3>3. \/ i \in 1 .. Len(control[c]) /\ control'[c][i] = control[c][i]
            \/ control'[c][i] = frame
        BY <1>3, <3>1, <3>2
      <3> QED BY <1>1, <1>2, <1>3, <3>1, <3>3 DEF GrantInv
    <2> QED BY <2>1, <2>2
  <1>4. \A d \in Clients : cpc'[d] = "idle" => spc'[d] = "none"
    <2>1. spc[c] # "none" /\ \A d \in Clients : d # c => spc'[d] = spc[d]
      BY DEF HandlerSendAck, HandlerSendStart, HandlerSends, HandlerGoTo, TypeOK
    <2> QED BY <1>2, <2>1 DEF GrantInv
  <1> QED BY <1>3, <1>4 DEF GrantInv

\* The other steps of a handler leave the control connection alone.
LEMMA HandlerStill ==
  ASSUME TypeOK, NEW c \in Clients, HandlerMoves(c),
         ~HandlerSendAck(c), ~HandlerSendStart(c)
  PROVE  /\ UNCHANGED <<control, granted, cpc>>
         /\ spc[c] # "none" /\ \A d \in Clients : d # c => spc'[d] = spc[d]
  <1> USE DEF HandlerMoves, HandlerStep, ServerAccept, HandlerReadSetup, HandlerBinds,
              HandlerDiscovers, HandlerLoops, HandlerSendsData, HandlerReceives,
              HandlerRecvTimesOut, HandlerEnds, HandlerKilled
  <1>1. UNCHANGED <<control, granted, cpc>>
    BY DEF handlerRest
  <1>2. spc[c] # "none"
    OBVIOUS
  <1>3. \A d \in Clients : d # c => spc'[d] = spc[d]
    BY DEF HandlerGoTo, TypeOK
  <1> QED BY <1>1, <1>2, <1>3

\* What happens beside the two programs.
World == \/ \E c \in Clients : \/ ClientTimeUp(c)  \/ ClientCancel(c) \/ HandlerTimeUp(c)
                               \/ DatagramLost(c)  \/ ServerPortRefuses(c)
                               \/ ClientPortRefuses(c)
         \/ ServerStops \/ Finished \/ UNCHANGED vars

LEMMA WorldStill ==
  ASSUME TypeOK, World
  PROVE  /\ UNCHANGED <<control, granted, cpc, mode>>
         /\ \A d \in Clients : spc[d] = "none" => spc'[d] = "none"
  <1>1. CASE \E c \in Clients : \/ ClientTimeUp(c)  \/ ClientCancel(c) \/ HandlerTimeUp(c)
                                \/ DatagramLost(c)  \/ ServerPortRefuses(c)
                                \/ ClientPortRefuses(c)
    BY <1>1 DEF ClientTimeUp, ClientCancel, HandlerTimeUp, DatagramLost, ServerPortRefuses,
                ClientPortRefuses, clientRest, handlerRest, network
  <1>2. CASE ServerStops
    BY <1>2 DEF ServerStops, TypeOK
  <1>3. CASE Finished \/ UNCHANGED vars
    BY <1>3 DEF Finished, vars
  <1> QED BY <1>1, <1>2, <1>3 DEF World

LEMMA StepGrant == ASSUME TypeOK, GrantInv, [Next]_vars PROVE GrantInv'
  <1>1. ASSUME NEW c \in Clients, ClientMoves(c) PROVE GrantInv'
    BY <1>1, ClientGrant
  <1>2. ASSUME NEW c \in Clients, HandlerSendAck(c) \/ HandlerSendStart(c) PROVE GrantInv'
    BY <1>2, SendStartGrant
  <1>3. ASSUME NEW c \in Clients, HandlerMoves(c), ~HandlerSendAck(c), ~HandlerSendStart(c)
        PROVE GrantInv'
    <2>1. /\ UNCHANGED <<control, granted, cpc>>
          /\ spc[c] # "none" /\ \A d \in Clients : d # c => spc'[d] = spc[d]
      BY <1>3, HandlerStill
    <2> QED BY <2>1 DEF GrantInv
  <1>4. CASE World
    BY <1>4, WorldStill DEF GrantInv
  <1> QED BY <1>1, <1>2, <1>3, <1>4 DEF Next, ClientMoves, HandlerMoves, World

(***************************************************************************)
(* The refinement.                                                         *)
(***************************************************************************)

\* The moves of a client that TestLifecycle allows.
Allowed(c, from, to) ==
  \/ from = to
  \/ from = "idle" /\ to = "joining"
  \/ from = "joining" /\ to = "running" /\ c \in granted
  \/ from = "running" /\ to = "completed"
  \/ from \in {"idle", "joining"} /\ to = "failed"
  \/ from \in {"joining", "running"} /\ to = "aborted"

\* What TestLifecycle sees of a client, and of the grants.
Seen(d)  == IF TwoWay(d) THEN Stage(cpc[d]) ELSE "idle"
Shown    == [d \in Clients |-> Seen(d)]
Grants   == {d \in granted : TwoWay(d)}

\* One client's view changes as allowed, or nobody's.
LEMMA MoveIsLifecycleStep ==
  ASSUME TypeOK, NEW c \in Clients, NEW to \in ClientPC, TwoWay(c),
         cpc' = [cpc EXCEPT ![c] = to], UNCHANGED <<mode, granted>>,
         Allowed(c, Stage(cpc[c]), Stage(to))
  PROVE  [Lifecycle!Next]_(Lifecycle!vars)
  <1>1. \A d \in Clients : Seen(d)' = IF d = c THEN Stage(to) ELSE Seen(d)
    BY DEF Seen, TwoWay, TypeOK
  <1>2. Shown' = [Shown EXCEPT ![c] = Stage(to)] /\ Shown[c] = Stage(cpc[c])
    <2>1. Shown' = [d \in Clients |-> Seen(d)']
      BY DEF Shown
    <2>2. [Shown EXCEPT ![c] = Stage(to)] = [d \in Clients |-> IF d = c THEN Stage(to) ELSE Seen(d)]
      BY DEF Shown
    <2>3. Shown[c] = Stage(cpc[c])
      BY DEF Shown, Seen
    <2> QED BY <1>1, <2>1, <2>2, <2>3
  <1>3. Grants' = Grants /\ (c \in granted => c \in Grants)
    BY DEF Grants, TwoWay
  <1>4. CASE Stage(cpc[c]) = Stage(to)
    <2>1. Shown' = Shown
      BY <1>2, <1>4 DEF Shown
    <2> QED BY <1>3, <2>1 DEF Lifecycle!vars, Shown, Seen, Grants
  <1>5. CASE Stage(cpc[c]) # Stage(to)
    <2>1. \/ Shown[c] \in {"idle"} /\ Shown' = [Shown EXCEPT ![c] = "joining"]
          \/ c \in Grants /\ Shown[c] \in {"joining"}
               /\ Shown' = [Shown EXCEPT ![c] = "running"]
          \/ Shown[c] \in {"running"} /\ Shown' = [Shown EXCEPT ![c] = "completed"]
          \/ Shown[c] \in {"idle", "joining"} /\ Shown' = [Shown EXCEPT ![c] = "failed"]
          \/ Shown[c] \in {"joining", "running"} /\ Shown' = [Shown EXCEPT ![c] = "aborted"]
      BY <1>2, <1>3, <1>5 DEF Allowed
    <2>2. \/ Lifecycle!Join(c) \/ Lifecycle!Begin(c) \/ Lifecycle!Complete(c)
          \/ Lifecycle!Fail(c) \/ Lifecycle!Abort(c)
      BY <1>3, <2>1 DEF Lifecycle!Join, Lifecycle!Begin, Lifecycle!Complete, Lifecycle!Fail,
                        Lifecycle!Abort, Lifecycle!Move, Shown, Seen, Grants
    <2> QED BY <2>2 DEF Lifecycle!Next
  <1> QED BY <1>4, <1>5

\* Nobody's view changes.
LEMMA StillIsLifecycleStep ==
  ASSUME UNCHANGED mode,
         \A d \in Clients : TwoWay(d) => cpc'[d] = cpc[d] /\ (d \in granted' <=> d \in granted),
         granted \subseteq Clients, granted' \subseteq Clients
  PROVE  [Lifecycle!Next]_(Lifecycle!vars)
  <1>1. \A d \in Clients : Seen(d)' = Seen(d)
    BY DEF Seen, TwoWay
  <1>2. Shown' = Shown
    BY <1>1 DEF Shown
  <1>3. Grants' = Grants
    BY DEF Grants, TwoWay
  <1> QED BY <1>2, <1>3 DEF Lifecycle!vars, Shown, Seen, Grants

\* Where a step of a client takes it.
LEMMA ClientGoes ==
  ASSUME TypeOK, NEW c \in Clients, ClientMoves(c)
  PROVE  /\ UNCHANGED <<mode, granted>>
         /\ \E to \in ClientPC :
              /\ cpc' = [cpc EXCEPT ![c] = to]
              /\ \/ cpc[c] = "idle" /\ to \in {"setup", "failed"}
                 \/ cpc[c] \in {"setup", "ack", "start"} /\ to \in {"ack", "start", "failed"}
                 \/ cpc[c] = "start" /\ to \in {"init", "loop"}
                      /\ control[c] # <<>> /\ Head(control[c]) = "Start"
                 \/ cpc[c] \in {"init", "loop", "io"} /\ to \in {"loop", "io", "ended"}
                 \/ cpc[c] = "io" /\ to = "failed" /\ ~TwoWay(c)
                 \/ cpc[c] \notin {"idle"} \cup ClientDone /\ to = "aborted"
  <1> USE DEF ClientPC, ClientDone
  <1>1. UNCHANGED <<mode, granted>>
    BY DEF ClientMoves, ClientStep, ClientConnect, ClientSendSetup, ClientReadAck,
           ClientReadStart, ClientSendsInit, ClientLoops, ClientSends, ClientReceives,
           ClientRecvTimesOut, ClientEnds, ClientSocketError, ClientAborts,
           ClientExpects, ClientReturns, clientRest
  <1>2. CASE ClientConnect(c) \/ ClientSendSetup(c)
    BY <1>1, <1>2 DEF ClientConnect, ClientSendSetup, GoTo
  <1>3. CASE ClientReadAck(c) \/ ClientReadStart(c)
    BY <1>1, <1>3 DEF ClientReadAck, ClientReadStart, ClientExpects, GoTo
  <1>4. CASE ClientSendsInit(c) \/ ClientLoops(c) \/ ClientSends(c) \/ ClientReceives(c)
               \/ ClientRecvTimesOut(c) \/ ClientEnds(c)
    BY <1>1, <1>4 DEF ClientSendsInit, ClientLoops, ClientSends, ClientReceives,
                      ClientRecvTimesOut, ClientEnds, ClientReturns, GoTo
  <1>5. CASE ClientSocketError(c) \/ ClientAborts(c)
    BY <1>1, <1>5 DEF ClientSocketError, ClientAborts, ClientReturns, ClientGone, GoTo
  <1> QED BY <1>2, <1>3, <1>4, <1>5 DEF ClientMoves, ClientStep

LEMMA ClientRefines ==
  ASSUME TypeOK, GrantInv, NEW c \in Clients, ClientMoves(c)
  PROVE  [Lifecycle!Next]_(Lifecycle!vars)
  <1>1. UNCHANGED <<mode, granted>>
    BY ClientGoes
  <1>2. PICK to \in ClientPC :
          /\ cpc' = [cpc EXCEPT ![c] = to]
          /\ \/ cpc[c] = "idle" /\ to \in {"setup", "failed"}
             \/ cpc[c] \in {"setup", "ack", "start"} /\ to \in {"ack", "start", "failed"}
             \/ cpc[c] = "start" /\ to \in {"init", "loop"}
                  /\ control[c] # <<>> /\ Head(control[c]) = "Start"
             \/ cpc[c] \in {"init", "loop", "io"} /\ to \in {"loop", "io", "ended"}
             \/ cpc[c] = "io" /\ to = "failed" /\ ~TwoWay(c)
             \/ cpc[c] \notin {"idle"} \cup ClientDone /\ to = "aborted"
    BY ClientGoes
  <1>3. CASE ~TwoWay(c)
    <2>1. \A d \in Clients : TwoWay(d) => cpc'[d] = cpc[d]
      BY <1>2, <1>3 DEF TypeOK
    <2> QED BY <1>1, <2>1, StillIsLifecycleStep DEF TypeOK
  <1>4. CASE TwoWay(c)
    <2>1. control[c] # <<>> /\ Head(control[c]) = "Start" => c \in granted
      <3> SUFFICES ASSUME control[c] # <<>>, Head(control[c]) = "Start" PROVE c \in granted
        OBVIOUS
      <3>1. control[c] \in Seq(Frames)
        BY DEF TypeOK, Frames
      <3>2. 1 \in 1 .. Len(control[c]) /\ control[c][1] = "Start"
        BY <3>1
      <3> QED BY <3>2 DEF GrantInv
    <2>2. cpc[c] \in ClientPC
      BY DEF TypeOK
    <2>3. Allowed(c, Stage(cpc[c]), Stage(to))
      BY <1>2, <1>4, <2>1, <2>2 DEF Allowed, Stage, ClientPC, ClientDone
    <2> QED BY <1>1, <1>2, <1>4, <2>3, MoveIsLifecycleStep
  <1> QED BY <1>3, <1>4

LEMMA GrantRefines ==
  ASSUME TypeOK, GrantInv, NEW c \in Clients, HandlerSendStart(c)
  PROVE  [Lifecycle!Next]_(Lifecycle!vars)
  <1>1. UNCHANGED <<mode, cpc>> /\ granted' \in {granted, granted \cup {c}}
    BY DEF HandlerSendStart, handlerRest
  <1>2. CASE granted' = granted \cup {c} /\ TwoWay(c)
    <2>1. cpc[c] # "idle" /\ cpc[c] \in ClientPC
      BY DEF HandlerSendStart, GrantInv, TypeOK
    <2>2. Shown[c] # "idle"
      BY <1>2, <2>1 DEF Shown, Seen, Stage, ClientPC, ClientDone
    <2>3. Shown' = Shown /\ Grants' = Grants \cup {c}
      BY <1>1, <1>2 DEF Shown, Seen, Grants, TwoWay
    <2>4. Lifecycle!Grant(c)
      BY <2>2, <2>3 DEF Lifecycle!Grant, Shown, Seen, Grants
    <2> QED BY <2>4 DEF Lifecycle!Next
  <1>3. CASE granted' = granted \/ ~TwoWay(c)
    BY <1>1, <1>3, StillIsLifecycleStep DEF TypeOK
  <1> QED BY <1>1, <1>2, <1>3

\* Every step of the tests is a step of TestLifecycle or a stutter.
LEMMA NextRefines ==
  ASSUME TypeOK, GrantInv, [Next]_vars
  PROVE  [Lifecycle!Next]_(Lifecycle!vars)
  <1>1. ASSUME NEW c \in Clients, ClientMoves(c) PROVE [Lifecycle!Next]_(Lifecycle!vars)
    BY <1>1, ClientRefines
  <1>2. ASSUME NEW c \in Clients, HandlerSendStart(c) PROVE [Lifecycle!Next]_(Lifecycle!vars)
    BY <1>2, GrantRefines
  <1>3. ASSUME NEW c \in Clients, HandlerMoves(c), ~HandlerSendStart(c)
        PROVE [Lifecycle!Next]_(Lifecycle!vars)
    <2>1. UNCHANGED <<mode, cpc, granted>>
      BY <1>3 DEF HandlerMoves, HandlerStep, ServerAccept, HandlerReadSetup, HandlerSendAck,
                  HandlerBinds, HandlerDiscovers, HandlerLoops, HandlerSendsData,
                  HandlerReceives, HandlerRecvTimesOut, HandlerEnds, HandlerKilled, handlerRest
    <2> QED BY <2>1, StillIsLifecycleStep DEF TypeOK
  <1>4. CASE World
    <2>1. UNCHANGED <<mode, cpc, granted>>
      BY <1>4, WorldStill
    <2> QED BY <2>1, StillIsLifecycleStep DEF TypeOK
  <1> QED BY <1>1, <1>2, <1>3, <1>4 DEF Next, ClientMoves, HandlerMoves, World

(***************************************************************************)
(* No datagram is counted twice.                                           *)
(***************************************************************************)

\* The clients of reverse tests, and those whose init packet has not gone out.
Announcers == {c \in Clients : mode[c] = "reverse"}
Before == {"idle", "setup", "ack", "start", "init"}
Quiet == {c \in Announcers : cpc[c] \in Before}

\* What has been recorded or is on its way was sent: as a datagram or, once,
\* as an init packet.
Counted == Total(got) + Total(toServer) + Total(toClient)
CountInv ==
  /\ \A c \in Clients : cpc[c] = "init" => c \in Announcers
  /\ Counted + Cardinality(Quiet) <= Total(sent) + Cardinality(Announcers)

LEMMA MoreTotal ==
  ASSUME NEW f, IntegersOn(f, Clients), NEW c \in Clients, NEW n \in Int,
         NEW e, Raised(e, f, c, n)
  PROVE  Total(e) = Total(f) + n
  BY ClientsAssumption, TotalRaised

LEMMA Lowered ==
  ASSUME NEW f \in [Clients -> Nat], NEW c \in Clients
  PROVE  Raised([f EXCEPT ![c] = @ - 1], f, c, -1)
  BY DEF Raised

LEMMA CountsAreIntegers ==
  ASSUME TypeOK
  PROVE  /\ IntegersOn(got, Clients) /\ IntegersOn(sent, Clients)
         /\ IntegersOn(toServer, Clients) /\ IntegersOn(toClient, Clients)
  BY DEF TypeOK, IntegersOn

LEMMA TotalsAreNat ==
  ASSUME TypeOK
  PROVE  /\ Total(got) \in Nat /\ Total(sent) \in Nat
         /\ Total(toServer) \in Nat /\ Total(toClient) \in Nat
  BY ClientsAssumption, TotalNat DEF TypeOK

LEMMA InitCounted == Init => CountInv
  <1> SUFFICES ASSUME Init PROVE CountInv
    OBVIOUS
  <1>1. Total([c \in Clients |-> 0]) = 0
    BY ClientsAssumption, TotalOfZeroes
  <1>2. Counted = 0 /\ Total(sent) = 0
    BY <1>1 DEF Init, Counted
  <1>3. Quiet = Announcers
    BY DEF Init, Quiet, Announcers, Before
  <1>4. Cardinality(Announcers) \in Nat
    BY ClientsAssumption, FS_Subset, FS_CardinalityType DEF Announcers
  <1> QED BY <1>2, <1>3, <1>4 DEF Init, CountInv

\* Nobody gets back before the init packet, and only a reverse client to it.
Onward(d) ==
  /\ cpc'[d] # cpc[d] /\ cpc'[d] \in {"idle", "init"} => cpc'[d] = "init" /\ d \in Announcers
  /\ cpc'[d] \in Before => cpc[d] \in Before

\* A step that brings nobody back before the init packet, and after which no
\* more is accounted for than the senders account for in addition.
LEMMA CountKept ==
  ASSUME TypeOK, TypeOK', CountInv, UNCHANGED mode,
         \A d \in Clients : Onward(d),
         Counted' - Counted <= Total(sent)' - Total(sent)
  PROVE  CountInv'
  <1>1. Announcers' = Announcers
    BY DEF Announcers
  <1>2. Quiet' \subseteq Quiet
    BY <1>1 DEF Quiet, Announcers, Onward, Before
  <1>3. IsFiniteSet(Quiet) /\ IsFiniteSet(Announcers)
    BY ClientsAssumption, FS_Subset DEF Quiet, Announcers
  <1>4. /\ Cardinality(Quiet') <= Cardinality(Quiet)
        /\ Cardinality(Quiet) \in Nat /\ Cardinality(Quiet') \in Nat
        /\ Cardinality(Announcers) \in Nat
    BY <1>2, <1>3, FS_Subset, FS_CardinalityType
  <1>5. /\ Counted \in Nat /\ Total(sent) \in Nat
        /\ Counted' \in Nat /\ Total(sent)' \in Nat
    <2>1. /\ Total(got)' \in Nat /\ Total(sent)' \in Nat
          /\ Total(toServer)' \in Nat /\ Total(toClient)' \in Nat
      <3>1. /\ got' \in [Clients -> Nat] /\ sent' \in [Clients -> Nat]
            /\ toServer' \in [Clients -> Nat] /\ toClient' \in [Clients -> Nat]
        BY DEF TypeOK
      <3> QED BY <3>1, ClientsAssumption, TotalNat
    <2> QED BY <2>1, TotalsAreNat DEF Counted
  <1>6. \A c \in Clients : cpc'[c] = "init" => c \in Announcers'
    BY <1>1 DEF CountInv, Onward
  <1>7. Counted + Cardinality(Quiet) <= Total(sent) + Cardinality(Announcers)
    BY DEF CountInv
  <1>8. Counted' + Cardinality(Quiet') <= Total(sent)' + Cardinality(Announcers)
    BY <1>4, <1>5, <1>7
  <1> QED BY <1>1, <1>6, <1>8 DEF CountInv

\* The init packet: one that is on its way for one that was quiet.
LEMMA InitPacketCounted ==
  ASSUME TypeOK, CountInv, NEW c \in Clients, ClientSendsInit(c)
  PROVE  CountInv'
  <1>1. /\ cpc[c] = "init" /\ cpc' = [cpc EXCEPT ![c] = "loop"]
        /\ toServer' = [toServer EXCEPT ![c] = @ + 1]
        /\ UNCHANGED <<mode, toClient, sent, got>>
    BY DEF ClientSendsInit, GoTo, clientRest
  <1>2. Announcers' = Announcers
    BY <1>1 DEF Announcers
  <1>3. c \in Quiet /\ Quiet' = Quiet \ {c}
    BY <1>1, <1>2 DEF Quiet, Before, CountInv, Announcers, TypeOK
  <1>4. IsFiniteSet(Quiet) /\ IsFiniteSet(Announcers)
    BY ClientsAssumption, FS_Subset DEF Quiet, Announcers
  <1>5. Cardinality(Quiet') = Cardinality(Quiet) - 1 /\ Cardinality(Quiet) \in Nat
    BY <1>3, <1>4, FS_RemoveElement, FS_CardinalityType
  <1>6. Total(toServer') = Total(toServer) + 1
    <2>1. Raised(toServer', toServer, c, 1)
      BY <1>1 DEF Raised
    <2> QED BY <2>1, MoreTotal, CountsAreIntegers
  <1>7. Counted' = Counted + 1 /\ Total(sent)' = Total(sent) /\ Counted \in Nat
    BY <1>1, <1>6, TotalsAreNat DEF Counted
  <1>8. \A d \in Clients : cpc'[d] = "init" => d \in Announcers'
    BY <1>1, <1>2 DEF CountInv, TypeOK
  <1>9. Cardinality(Announcers) \in Nat /\ Total(sent) \in Nat
    BY <1>4, FS_CardinalityType, TotalsAreNat
  <1>10. Counted + Cardinality(Quiet) <= Total(sent) + Cardinality(Announcers)
    BY DEF CountInv
  <1>11. Counted' + Cardinality(Quiet') <= Total(sent)' + Cardinality(Announcers)
    BY <1>5, <1>7, <1>9, <1>10
  <1> QED BY <1>2, <1>8, <1>11 DEF CountInv

\* What a step does to the four counts.
Balance ==
  \/ UNCHANGED <<toServer, toClient, sent, got>>
  \/ \E c \in Clients, n \in Nat :
       /\ sent' = [sent EXCEPT ![c] = @ + n] /\ toServer' = [toServer EXCEPT ![c] = @ + n]
       /\ UNCHANGED <<toClient, got>>
  \/ \E c, d \in Clients :
       /\ sent' = [sent EXCEPT ![c] = @ + 1]
       /\ toClient' = [toClient EXCEPT ![d] = @ + 1]
       /\ UNCHANGED <<toServer, got>>
  \/ \E c \in Clients :
       /\ sent' = [sent EXCEPT ![c] = @ + 1]
       /\ UNCHANGED <<toServer, toClient, got>>
  \/ \E c \in Clients :
       /\ toClient[c] > 0 /\ toClient' = [toClient EXCEPT ![c] = @ - 1]
       /\ got' \in {got, [got EXCEPT ![c] = @ + 1]}
       /\ UNCHANGED <<toServer, sent>>
  \/ \E c, d \in Clients :
       /\ toServer[d] > 0 /\ toServer' = [toServer EXCEPT ![d] = @ - 1]
       /\ got' \in {got, [got EXCEPT ![c] = @ + 1]}
       /\ UNCHANGED <<toClient, sent>>

LEMMA BalanceKept ==
  ASSUME TypeOK, Balance
  PROVE  Counted' - Counted <= Total(sent)' - Total(sent)
  <1> USE TotalsAreNat
  <1>0. /\ IntegersOn(got, Clients) /\ IntegersOn(sent, Clients)
        /\ IntegersOn(toServer, Clients) /\ IntegersOn(toClient, Clients)
    BY CountsAreIntegers
  <1>1. CASE UNCHANGED <<toServer, toClient, sent, got>>
    BY <1>1 DEF Counted
  <1>2. ASSUME NEW c \in Clients, NEW n \in Nat,
               sent' = [sent EXCEPT ![c] = @ + n], toServer' = [toServer EXCEPT ![c] = @ + n],
               UNCHANGED <<toClient, got>>
        PROVE  Counted' - Counted <= Total(sent)' - Total(sent)
    <2>1. Raised(sent', sent, c, n) /\ Raised(toServer', toServer, c, n)
      BY <1>2 DEF Raised
    <2>2. Total(sent') = Total(sent) + n /\ Total(toServer') = Total(toServer) + n
      BY <1>0, <2>1, MoreTotal
    <2> QED BY <1>2, <2>2 DEF Counted
  <1>3. ASSUME NEW c \in Clients, NEW d \in Clients,
               sent' = [sent EXCEPT ![c] = @ + 1], toClient' = [toClient EXCEPT ![d] = @ + 1],
               UNCHANGED <<toServer, got>>
        PROVE  Counted' - Counted <= Total(sent)' - Total(sent)
    <2>1. Raised(sent', sent, c, 1) /\ Raised(toClient', toClient, d, 1)
      BY <1>3 DEF Raised
    <2>2. Total(sent') = Total(sent) + 1 /\ Total(toClient') = Total(toClient) + 1
      BY <1>0, <2>1, MoreTotal
    <2> QED BY <1>3, <2>2 DEF Counted
  <1>4. ASSUME NEW c \in Clients, sent' = [sent EXCEPT ![c] = @ + 1],
               UNCHANGED <<toServer, toClient, got>>
        PROVE  Counted' - Counted <= Total(sent)' - Total(sent)
    <2>1. Raised(sent', sent, c, 1)
      BY <1>4 DEF Raised
    <2>2. Total(sent') = Total(sent) + 1
      BY <1>0, <2>1, MoreTotal
    <2> QED BY <1>4, <2>2 DEF Counted
  <1>5. ASSUME NEW c \in Clients, got' \in {got, [got EXCEPT ![c] = @ + 1]}
        PROVE  Total(got') \in {Total(got), Total(got) + 1}
    <2>1. got' = got \/ Raised(got', got, c, 1)
      BY <1>5 DEF Raised
    <2> QED BY <1>0, <2>1, MoreTotal
  <1>6. ASSUME NEW c \in Clients,
               toClient[c] > 0, toClient' = [toClient EXCEPT ![c] = @ - 1],
               got' \in {got, [got EXCEPT ![c] = @ + 1]}, UNCHANGED <<toServer, sent>>
        PROVE  Counted' - Counted <= Total(sent)' - Total(sent)
    <2>1. Total(toClient') = Total(toClient) + (-1)
      <3>1. Raised(toClient', toClient, c, -1)
        BY <1>6, Lowered DEF TypeOK
      <3> QED BY <1>0, <3>1, MoreTotal
    <2>2. Total(got') \in {Total(got), Total(got) + 1}
      BY <1>5, <1>6
    <2> QED BY <1>6, <2>1, <2>2 DEF Counted
  <1>7. ASSUME NEW c \in Clients, NEW d \in Clients,
               toServer[d] > 0, toServer' = [toServer EXCEPT ![d] = @ - 1],
               got' \in {got, [got EXCEPT ![c] = @ + 1]}, UNCHANGED <<toClient, sent>>
        PROVE  Counted' - Counted <= Total(sent)' - Total(sent)
    <2>1. Total(toServer') = Total(toServer) + (-1)
      <3>1. Raised(toServer', toServer, d, -1)
        BY <1>7, Lowered DEF TypeOK
      <3> QED BY <1>0, <3>1, MoreTotal
    <2>2. Total(got') \in {Total(got), Total(got) + 1}
      BY <1>5, <1>7
    <2> QED BY <1>7, <2>1, <2>2 DEF Counted
  <1> QED BY <1>1, <1>2, <1>3, <1>4, <1>6, <1>7 DEF Balance

\* Every step keeps the balance, but for the init packet.
LEMMA ClientBalance ==
  ASSUME TypeOK, NEW c \in Clients, ClientMoves(c), ~ClientSendsInit(c)
  PROVE  Balance
  <1>1. CASE ClientSends(c)
    <2>1. PICK n \in IF mode[c] = "onesend" THEN {1} ELSE 0 .. MaxBatch :
            /\ sent' = [sent EXCEPT ![c] = @ + n]
            /\ toServer' = [toServer EXCEPT ![c] = @ + n]
      BY <1>1 DEF ClientSends
    <2>2. n \in Nat
      BY BoundsAssumption
    <2> QED BY <1>1, <2>1, <2>2 DEF ClientSends, Balance
  <1>2. CASE ClientReceives(c)
    BY <1>2 DEF ClientReceives, Balance
  <1>3. CASE ~ClientSends(c) /\ ~ClientReceives(c)
    <2>1. UNCHANGED <<toServer, toClient, sent, got>>
      BY <1>3 DEF ClientMoves, ClientStep, ClientConnect, ClientSendSetup, ClientReadAck,
           ClientReadStart, ClientLoops, ClientRecvTimesOut, ClientEnds, ClientSocketError,
           ClientAborts, ClientExpects, ClientReturns, clientData
    <2> QED BY <2>1 DEF Balance
  <1> QED BY <1>1, <1>2, <1>3

LEMMA HandlerBalance ==
  ASSUME TypeOK, NEW c \in Clients, HandlerMoves(c)
  PROVE  Balance
  <1>1. CASE HandlerDiscovers(c)
    BY <1>1 DEF HandlerDiscovers, Balance
  <1>2. CASE HandlerSendsData(c)
    <2>1. CASE peer[c] \in Clients
      BY <1>2, <2>1 DEF HandlerSendsData, Balance
    <2>2. CASE peer[c] = NoPeer
      <3>1. toClient' = toClient
        BY <1>2, <2>2, PeerAssumption DEF HandlerSendsData, TypeOK
      <3> QED BY <1>2, <3>1 DEF HandlerSendsData, Balance
    <2> QED BY <2>1, <2>2 DEF TypeOK
  <1>3. CASE HandlerReceives(c)
    BY <1>3 DEF HandlerReceives, Balance
  <1>4. CASE ~HandlerDiscovers(c) /\ ~HandlerSendsData(c) /\ ~HandlerReceives(c)
    <2>1. UNCHANGED <<toServer, toClient, sent, got>>
      BY <1>4 DEF HandlerMoves, HandlerStep, ServerAccept, HandlerReadSetup, HandlerSendAck,
           HandlerSendStart, HandlerBinds, HandlerLoops, HandlerRecvTimesOut, HandlerEnds,
           HandlerKilled, handlerData
    <2> QED BY <2>1 DEF Balance
  <1> QED BY <1>1, <1>2, <1>3, <1>4

LEMMA WorldBalance ==
  ASSUME TypeOK, World
  PROVE  Balance
  <1>1. ASSUME NEW c \in Clients, ClientTimeUp(c) \/ ClientCancel(c) \/ HandlerTimeUp(c)
        PROVE  Balance
    BY <1>1 DEF ClientTimeUp, ClientCancel, HandlerTimeUp, clientData, Balance
  <1>2. ASSUME NEW c \in Clients, DatagramLost(c) PROVE Balance
    BY <1>2 DEF DatagramLost, network, Balance
  <1>3. ASSUME NEW c \in Clients, ServerPortRefuses(c) PROVE Balance
    BY <1>3 DEF ServerPortRefuses, network, Balance
  <1>4. ASSUME NEW c \in Clients, ClientPortRefuses(c) PROVE Balance
    BY <1>4 DEF ClientPortRefuses, network, Balance
  <1>5. CASE ServerStops \/ Finished \/ UNCHANGED vars
    BY <1>5 DEF ServerStops, Finished, vars, Balance
  <1> QED BY <1>1, <1>2, <1>3, <1>4, <1>5 DEF World

LEMMA ClientOnward ==
  ASSUME TypeOK, NEW c \in Clients, ClientMoves(c)
  PROVE  UNCHANGED mode /\ \A d \in Clients : Onward(d)
  <1>1. UNCHANGED mode
    BY ClientGoes
  <1>2. PICK to \in ClientPC :
          /\ cpc' = [cpc EXCEPT ![c] = to]
          /\ \/ cpc[c] = "idle" /\ to \in {"setup", "failed"}
             \/ cpc[c] \in {"setup", "ack", "start"} /\ to \in {"ack", "start", "failed"}
             \/ cpc[c] = "start" /\ to \in {"init", "loop"}
                  /\ control[c] # <<>> /\ Head(control[c]) = "Start"
             \/ cpc[c] \in {"init", "loop", "io"} /\ to \in {"loop", "io", "ended"}
             \/ cpc[c] = "io" /\ to = "failed" /\ ~TwoWay(c)
             \/ cpc[c] \notin {"idle"} \cup ClientDone /\ to = "aborted"
    BY ClientGoes
  <1>3. cpc'[c] = to /\ \A d \in Clients : d # c => cpc'[d] = cpc[d]
    BY <1>2 DEF TypeOK
  <1>4. to = "init" => mode[c] = "reverse"
    <2>1. CASE ClientReadStart(c)
      BY <1>3, <2>1 DEF ClientReadStart, ClientExpects, GoTo, TypeOK
    <2>2. CASE ~ClientReadStart(c)
      BY <1>3, <2>2 DEF ClientMoves, ClientStep, ClientConnect, ClientSendSetup,
        ClientReadAck, ClientSendsInit, ClientLoops, ClientSends, ClientReceives,
        ClientRecvTimesOut, ClientEnds, ClientSocketError, ClientAborts,
        ClientExpects, ClientReturns, GoTo, TypeOK
    <2> QED BY <2>1, <2>2
  <1>5. Onward(c)
    BY <1>2, <1>3, <1>4 DEF Onward, Before, Announcers
  <1>6. \A d \in Clients : d # c => Onward(d)
    BY <1>3 DEF Onward
  <1> QED BY <1>1, <1>5, <1>6

LEMMA NobodyTurnsBack ==
  ASSUME TypeOK, [Next]_vars
  PROVE  UNCHANGED mode /\ \A d \in Clients : Onward(d)
  <1>1. ASSUME NEW c \in Clients, ClientMoves(c)
        PROVE  UNCHANGED mode /\ \A d \in Clients : Onward(d)
    BY <1>1, ClientOnward
  <1>2. ASSUME UNCHANGED <<mode, cpc>>
        PROVE  UNCHANGED mode /\ \A d \in Clients : Onward(d)
    BY <1>2 DEF Onward
  <1>3. ASSUME NEW c \in Clients, HandlerMoves(c) PROVE UNCHANGED <<mode, cpc>>
    BY <1>3 DEF HandlerMoves, HandlerStep, ServerAccept, HandlerReadSetup, HandlerSendAck,
                HandlerSendStart, HandlerBinds, HandlerDiscovers, HandlerLoops,
                HandlerSendsData, HandlerReceives, HandlerRecvTimesOut, HandlerEnds,
                HandlerKilled, handlerRest
  <1>4. CASE World
    <2>1. UNCHANGED <<mode, cpc>>
      BY <1>4, WorldStill
    <2> QED BY <2>1, <1>2
  <1> QED BY <1>1, <1>2, <1>3, <1>4 DEF Next, ClientMoves, HandlerMoves, World

LEMMA StepCounted == ASSUME TypeOK, CountInv, [Next]_vars PROVE CountInv'
  <1>1. ASSUME Balance PROVE CountInv'
    BY <1>1, BalanceKept, NobodyTurnsBack, StepTyped, CountKept
  <1>2. ASSUME NEW c \in Clients, ClientSendsInit(c) PROVE CountInv'
    BY <1>2, InitPacketCounted
  <1>3. ASSUME NEW c \in Clients, ClientMoves(c), ~ClientSendsInit(c) PROVE CountInv'
    BY <1>1, <1>3, ClientBalance
  <1>4. ASSUME NEW c \in Clients, HandlerMoves(c) PROVE CountInv'
    BY <1>1, <1>4, HandlerBalance
  <1>5. CASE World
    BY <1>1, <1>5, WorldBalance
  <1> QED BY <1>2, <1>3, <1>4, <1>5 DEF Next, ClientMoves, HandlerMoves, World

-----------------------------------------------------------------------------

LEMMA GrantInvariant == Spec => [](TypeOK /\ GrantInv)
  <1>1. Init => TypeOK /\ GrantInv
    BY InitTyped, InitGrant
  <1>2. TypeOK /\ GrantInv /\ [Next]_vars => (TypeOK /\ GrantInv)'
    BY StepTyped, StepGrant
  <1> QED BY <1>1, <1>2, PTL DEF Spec

\* For any number of clients in any modes: every part of both ends, of the
\* control connections and of the network is of its type; counts of datagrams
\* never go below zero.
THEOREM UdpTypeCorrect == Spec => []TypeOK
  BY GrantInvariant, PTL

\* For any number of clients, whatever is lost, refused or delivered to another
\* handler: a client takes part in a two-way test only after Start, a test
\* that could not start fails, and one that started completes or is dropped.
THEOREM KeepsPromise == Spec => KeepsLifecycle
  <1>1. Init => Lifecycle!Init
    BY DEF Init, Lifecycle!Init, Stage, TwoWay
  <1>2. TypeOK /\ GrantInv /\ [Next]_vars => [Lifecycle!Next]_(Lifecycle!vars)
    BY NextRefines
  <1> QED BY <1>1, <1>2, GrantInvariant, PTL DEF Spec, KeepsLifecycle, Lifecycle!Spec

\* For any finite number of clients in any modes, whatever is lost, refused or
\* taken by another client's handler: what all receivers have recorded and what
\* is still on its way is together no more than the senders have recorded and
\* the init packets that may be sent.
THEOREM NothingIsCountedTwice == Spec => []CountedOnce
  <1>1. Init => TypeOK /\ CountInv
    BY InitTyped, InitCounted
  <1>2. TypeOK /\ CountInv /\ [Next]_vars => (TypeOK /\ CountInv)'
    BY StepTyped, StepCounted
  <1>3. TypeOK /\ CountInv => CountedOnce
    <2> SUFFICES ASSUME TypeOK, CountInv PROVE CountedOnce
      OBVIOUS
    <2>1. Cardinality(Quiet) \in Nat /\ Cardinality(Announcers) \in Nat
      BY ClientsAssumption, FS_Subset, FS_CardinalityType DEF Quiet, Announcers
    <2>2. Counted \in Nat /\ Total(sent) \in Nat
      BY TotalsAreNat DEF Counted
    <2>3. Counted <= Total(sent) + Cardinality(Announcers)
      BY <2>1, <2>2 DEF CountInv
    <2> QED BY <2>3 DEF CountedOnce, Counted, Announcers
  <1> QED BY <1>1, <1>2, <1>3, PTL DEF Spec

=============================================================================
