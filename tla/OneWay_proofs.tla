---------------------------- MODULE OneWay_proofs ----------------------------
(***************************************************************************)
(* The two ends of one-way tests: the receiver with several workers        *)
(* (RecvWorkers), for any number of them and any sizes of datagrams, and   *)
(* the parallel streams (OneWayStreams), for any number of them.  Each     *)
(* part has a typing invariant, the invariants of its sums and the         *)
(* theorems they imply.                                                    *)
(***************************************************************************)
EXTENDS RecvWorkers, OneWayStreams, Sums_proofs

-----------------------------------------------------------------------------
(* The receiver with several workers                                       *)

WorkerPlaces == {"check", "recv", "bytes", "packets", "lastBytes", "lastPackets", "report", "over"}

WorkersTyped ==
  /\ wpc \in [Workers -> WorkerPlaces]
  /\ localB \in [Workers -> Nat] /\ localP \in [Workers -> Nat]
  /\ sharedB \in Nat /\ sharedP \in Nat
  /\ takenB \in Nat /\ takenP \in Nat

\* Once the threads are joined nothing moves any more.
JoinedInv ==
  mpc = "returned" => /\ \A w \in Workers : wpc[w] = "over"
                      /\ totals = [bytes |-> sharedB, packets |-> sharedP]

WorkersInv == WorkersTyped /\ NothingLostBetween /\ JoinedInv

HeldBytes   == [w \in Workers |-> HeldB(w)]
HeldPackets == [w \in Workers |-> HeldP(w)]

LEMMA HeldTyped ==
  ASSUME WorkersTyped
  PROVE  HeldBytes \in [Workers -> Nat] /\ HeldPackets \in [Workers -> Nat]
  <1>1. \A w \in Workers : HeldB(w) \in Nat /\ HeldP(w) \in Nat
    BY DEF WorkersTyped, HeldB, HeldP
  <1> QED BY <1>1 DEF HeldBytes, HeldPackets

LEMMA HeldTypedNext ==
  WorkersTyped' => (HeldBytes \in [Workers -> Nat] /\ HeldPackets \in [Workers -> Nat])'
  <1>1. WorkersTyped => HeldBytes \in [Workers -> Nat] /\ HeldPackets \in [Workers -> Nat]
    BY HeldTyped
  <1> QED BY <1>1, PTL

\* A step of one worker.
OnlyWorker(w) ==
  \A x \in Workers \ {w} : wpc'[x] = wpc[x] /\ localB'[x] = localB[x] /\ localP'[x] = localP[x]

LEMMA HeldChange ==
  ASSUME WorkersTyped, WorkersTyped', NEW w \in Workers, OnlyWorker(w)
  PROVE  /\ Total(HeldBytes) \in Nat /\ Total(HeldPackets) \in Nat
         /\ HeldBytes[w] \in Nat /\ HeldPackets[w] \in Nat
         /\ HeldBytes'[w] \in Nat /\ HeldPackets'[w] \in Nat
         /\ Total(HeldBytes') = (Total(HeldBytes) - HeldBytes[w]) + HeldBytes'[w]
         /\ Total(HeldPackets') = (Total(HeldPackets) - HeldPackets[w]) + HeldPackets'[w]
  <1>1. /\ HeldBytes \in [Workers -> Nat] /\ HeldPackets \in [Workers -> Nat]
        /\ HeldBytes' \in [Workers -> Nat] /\ HeldPackets' \in [Workers -> Nat]
    BY HeldTyped, HeldTypedNext
  <1>2. Total(HeldBytes) \in Nat /\ Total(HeldPackets) \in Nat
    BY <1>1, WorkersAssumption, TotalNat
  <1>3. SameBut(HeldBytes', HeldBytes, Workers, w) /\ SameBut(HeldPackets', HeldPackets, Workers, w)
    BY DEF SameBut, OnlyWorker, HeldBytes, HeldPackets, HeldB, HeldP
  <1>4. /\ IntegersOn(HeldBytes, Workers) /\ IntegersOn(HeldPackets, Workers)
        /\ IntegersOn(HeldBytes', Workers) /\ IntegersOn(HeldPackets', Workers)
    BY <1>1 DEF IntegersOn
  <1>5. Total(HeldBytes') = (Total(HeldBytes) - HeldBytes[w]) + HeldBytes'[w]
    BY <1>3, <1>4, WorkersAssumption, TotalChange
  <1>6. Total(HeldPackets') = (Total(HeldPackets) - HeldPackets[w]) + HeldPackets'[w]
    BY <1>3, <1>4, WorkersAssumption, TotalChange
  <1> QED BY <1>1, <1>2, <1>5, <1>6

\* What a worker's step adds to what it holds, to the atomics and to what was taken.
LEMMA WorkerStepMoves ==
  ASSUME WorkersTyped, NEW w \in Workers, WorkerStep(w)
  PROVE  /\ WorkersTyped' /\ OnlyWorker(w)
         /\ (takenB' - takenB) = (sharedB' - sharedB) + (HeldBytes'[w] - HeldBytes[w])
         /\ (takenP' - takenP) = (sharedP' - sharedP) + (HeldPackets'[w] - HeldPackets[w])
         /\ UNCHANGED main /\ wpc[w] # "over"
  <1> USE DEF WorkerGoTo, OnlyWorker
  <1>1. /\ wpc[w] \in WorkerPlaces /\ localB[w] \in Nat /\ localP[w] \in Nat
        /\ sharedB \in Nat /\ sharedP \in Nat /\ takenB \in Nat /\ takenP \in Nat
    BY DEF WorkersTyped
  <1>2. /\ HeldBytes[w] = HeldB(w) /\ HeldPackets[w] = HeldP(w)
        /\ HeldBytes'[w] = HeldB(w)' /\ HeldPackets'[w] = HeldP(w)'
    BY DEF HeldBytes, HeldPackets
  <1>3. CASE WorkerLoops(w) \/ WorkerFindsNothing(w) \/ WorkerReports(w)
    <2>1. WorkersTyped' /\ OnlyWorker(w) /\ UNCHANGED main /\ wpc[w] # "over"
      BY <1>3 DEF WorkerLoops, WorkerFindsNothing, WorkerReports, WorkersTyped, WorkerPlaces
    <2>2. UNCHANGED <<localB, localP, sharedB, sharedP, takenB, takenP>>
      BY <1>3 DEF WorkerLoops, WorkerFindsNothing, WorkerReports
    <2>3. HeldB(w)' = HeldB(w) /\ HeldP(w)' = HeldP(w)
      BY <1>3, <2>2 DEF WorkerLoops, WorkerFindsNothing, WorkerReports, HeldB, HeldP, WorkersTyped
    <2> QED BY <1>1, <1>2, <2>1, <2>2, <2>3 DEF HeldB, HeldP
  <1>4. CASE WorkerReceives(w)
    <2>1. PICK n \in Sizes : /\ localB' = [localB EXCEPT ![w] = @ + n]
                             /\ localP' = [localP EXCEPT ![w] = @ + 1]
                             /\ takenB' = takenB + n /\ takenP' = takenP + 1
      BY <1>4 DEF WorkerReceives
    <2>2. PICK pc \in {"check", "bytes"} : wpc' = [wpc EXCEPT ![w] = pc]
      BY <1>4 DEF WorkerReceives
    <2>3. wpc[w] = "recv" /\ sharedB' = sharedB /\ sharedP' = sharedP /\ UNCHANGED main /\ n \in Nat
      BY <1>4, ArrivalsAssumption DEF WorkerReceives
    <2>4. WorkersTyped'
      BY <2>1, <2>2, <2>3 DEF WorkersTyped, WorkerPlaces
    <2>5. HeldB(w)' = HeldB(w) + n /\ HeldP(w)' = HeldP(w) + 1
      BY <2>1, <2>2, <2>3 DEF HeldB, HeldP, WorkersTyped
    <2>6. HeldB(w) \in Nat /\ HeldP(w) \in Nat
      BY <1>1 DEF HeldB, HeldP
    <2>7. OnlyWorker(w)
      BY <2>1, <2>2 DEF WorkersTyped
    <2> QED BY <1>1, <1>2, <2>1, <2>3, <2>4, <2>5, <2>6, <2>7
  <1>5. CASE FlushBytes(w)
    <2>1. /\ wpc[w] \in {"bytes", "lastBytes"} /\ sharedB' = sharedB + localB[w]
          /\ wpc' = [wpc EXCEPT ![w] = IF wpc[w] = "bytes" THEN "packets" ELSE "lastPackets"]
          /\ UNCHANGED <<localB, localP, sharedP, takenB, takenP>> /\ UNCHANGED main
      BY <1>5 DEF FlushBytes
    <2>2. WorkersTyped'
      BY <1>1, <2>1 DEF WorkersTyped, WorkerPlaces
    <2>3. HeldB(w) = localB[w] /\ HeldB(w)' = 0 /\ HeldP(w)' = HeldP(w) /\ HeldP(w) = localP[w]
      BY <2>1 DEF HeldB, HeldP, WorkersTyped
    <2> QED BY <1>1, <1>2, <2>1, <2>2, <2>3
  <1>6. CASE FlushPackets(w)
    <2>1. /\ wpc[w] = "packets" /\ sharedP' = sharedP + localP[w]
          /\ localB' = [localB EXCEPT ![w] = 0] /\ localP' = [localP EXCEPT ![w] = 0]
          /\ wpc' = [wpc EXCEPT ![w] = "check"]
          /\ UNCHANGED <<sharedB, takenB, takenP>> /\ UNCHANGED main
      BY <1>6 DEF FlushPackets
    <2>2. WorkersTyped'
      BY <1>1, <2>1 DEF WorkersTyped, WorkerPlaces
    <2>3. HeldB(w) = 0 /\ HeldB(w)' = 0 /\ HeldP(w)' = 0 /\ HeldP(w) = localP[w]
      BY <2>1 DEF HeldB, HeldP, WorkersTyped
    <2>4. OnlyWorker(w)
      BY <2>1 DEF WorkersTyped
    <2> QED BY <1>1, <1>2, <2>1, <2>2, <2>3, <2>4
  <1>7. CASE LastPackets(w)
    <2>1. /\ wpc[w] = "lastPackets" /\ sharedP' = sharedP + localP[w]
          /\ wpc' = [wpc EXCEPT ![w] = "report"]
          /\ UNCHANGED <<localB, localP, sharedB, takenB, takenP>> /\ UNCHANGED main
      BY <1>7 DEF LastPackets
    <2>2. WorkersTyped'
      BY <1>1, <2>1 DEF WorkersTyped, WorkerPlaces
    <2>3. HeldB(w) = 0 /\ HeldB(w)' = 0 /\ HeldP(w)' = 0 /\ HeldP(w) = localP[w]
      BY <2>1 DEF HeldB, HeldP, WorkersTyped
    <2> QED BY <1>1, <1>2, <2>1, <2>2, <2>3
  <1> QED BY <1>3, <1>4, <1>5, <1>6, <1>7 DEF WorkerStep

\* The account of one count before and after a step.
LEMMA Balance ==
  ASSUME NEW t \in Int, NEW s \in Int, NEW sum \in Int, NEW h \in Int,
         NEW t2 \in Int, NEW s2 \in Int, NEW sum2, NEW h2 \in Int,
         t = s + sum, t2 - t = (s2 - s) + (h2 - h), sum2 = (sum - h) + h2
  PROVE  t2 = s2 + sum2
  OBVIOUS

LEMMA NothingLostMeans ==
  NothingLostBetween <=> /\ takenB = sharedB + Total(HeldBytes)
                         /\ takenP = sharedP + Total(HeldPackets)
  BY DEF NothingLostBetween, HeldBytes, HeldPackets

LEMMA NothingLostMeansNext ==
  NothingLostBetween' <=> /\ takenB' = sharedB' + Total(HeldBytes')
                          /\ takenP' = sharedP' + Total(HeldPackets')
  BY DEF NothingLostBetween, HeldBytes, HeldPackets

LEMMA WorkersInit == RecvInit => WorkersInv
  <1> SUFFICES ASSUME RecvInit PROVE WorkersInv
    OBVIOUS
  <1>1. WorkersTyped /\ JoinedInv
    BY DEF RecvInit, WorkersTyped, WorkerPlaces, JoinedInv
  <1>2. HeldBytes = [w \in Workers |-> 0] /\ HeldPackets = [w \in Workers |-> 0]
    BY DEF HeldBytes, HeldPackets, HeldB, HeldP, RecvInit
  <1>3. Total(HeldBytes) = 0 /\ Total(HeldPackets) = 0
    BY <1>2, WorkersAssumption, TotalOfZeroes
  <1>4. NothingLostBetween
    BY <1>3, NothingLostMeans DEF RecvInit
  <1> QED BY <1>1, <1>4 DEF WorkersInv

LEMMA WorkersKeep == WorkersInv /\ [RecvNext]_recvVars => WorkersInv'
  <1> SUFFICES ASSUME WorkersInv, [RecvNext]_recvVars PROVE WorkersInv'
    OBVIOUS
  <1>0. WorkersTyped /\ NothingLostBetween /\ JoinedInv
    BY DEF WorkersInv
  <1>1. ASSUME NEW w \in Workers, WorkerStep(w) PROVE WorkersInv'
    <2>1. /\ WorkersTyped' /\ OnlyWorker(w)
          /\ (takenB' - takenB) = (sharedB' - sharedB) + (HeldBytes'[w] - HeldBytes[w])
          /\ (takenP' - takenP) = (sharedP' - sharedP) + (HeldPackets'[w] - HeldPackets[w])
          /\ UNCHANGED main /\ wpc[w] # "over"
      BY <1>0, <1>1, WorkerStepMoves
    <2>2. /\ Total(HeldBytes) \in Nat /\ Total(HeldPackets) \in Nat
          /\ HeldBytes[w] \in Nat /\ HeldPackets[w] \in Nat
          /\ HeldBytes'[w] \in Nat /\ HeldPackets'[w] \in Nat
          /\ Total(HeldBytes') = (Total(HeldBytes) - HeldBytes[w]) + HeldBytes'[w]
          /\ Total(HeldPackets') = (Total(HeldPackets) - HeldPackets[w]) + HeldPackets'[w]
      BY <1>0, <2>1, HeldChange
    <2>3. takenB = sharedB + Total(HeldBytes) /\ takenP = sharedP + Total(HeldPackets)
      BY <1>0, NothingLostMeans
    <2>4. /\ sharedB \in Nat /\ sharedP \in Nat /\ takenB \in Nat /\ takenP \in Nat
          /\ sharedB' \in Nat /\ sharedP' \in Nat /\ takenB' \in Nat /\ takenP' \in Nat
      BY <1>0, <2>1 DEF WorkersTyped
    <2>5. takenB' = sharedB' + Total(HeldBytes')
      <3> DEFINE t == takenB   s == sharedB   sum == Total(HeldBytes)    h == HeldBytes[w]
                 t2 == takenB' s2 == sharedB' sum2 == Total(HeldBytes')  h2 == HeldBytes'[w]
      <3>1. /\ t \in Int /\ s \in Int /\ sum \in Int /\ h \in Int
            /\ t2 \in Int /\ s2 \in Int /\ h2 \in Int
        BY <2>2, <2>4
      <3>2. t = s + sum /\ t2 - t = (s2 - s) + (h2 - h) /\ sum2 = (sum - h) + h2
        BY <2>1, <2>2, <2>3
      <3> HIDE DEF t, s, sum, h, t2, s2, sum2, h2
      <3>3. t2 = s2 + sum2
        BY ONLY <3>1, <3>2, Balance
      <3> QED BY <3>3 DEF t2, s2, sum2
    <2>6. takenP' = sharedP' + Total(HeldPackets')
      <3> DEFINE t == takenP   s == sharedP   sum == Total(HeldPackets)    h == HeldPackets[w]
                 t2 == takenP' s2 == sharedP' sum2 == Total(HeldPackets')  h2 == HeldPackets'[w]
      <3>1. /\ t \in Int /\ s \in Int /\ sum \in Int /\ h \in Int
            /\ t2 \in Int /\ s2 \in Int /\ h2 \in Int
        BY <2>2, <2>4
      <3>2. t = s + sum /\ t2 - t = (s2 - s) + (h2 - h) /\ sum2 = (sum - h) + h2
        BY <2>1, <2>2, <2>3
      <3> HIDE DEF t, s, sum, h, t2, s2, sum2, h2
      <3>3. t2 = s2 + sum2
        BY ONLY <3>1, <3>2, Balance
      <3> QED BY <3>3 DEF t2, s2, sum2
    <2>7. takenB' = sharedB' + Total(HeldBytes') /\ takenP' = sharedP' + Total(HeldPackets')
      BY <2>5, <2>6
    <2>8. JoinedInv'
      <3>1. mpc # "returned" /\ mpc' = mpc
        BY <1>0, <2>1 DEF JoinedInv, main
      <3> QED BY <3>1 DEF JoinedInv
    <2> QED BY <2>1, <2>7, <2>8, NothingLostMeansNext DEF WorkersInv
  <1>2. CASE UNCHANGED worker
    <2>1. WorkersTyped' /\ NothingLostBetween'
      BY <1>0, <1>2 DEF worker, WorkersTyped, NothingLostBetween, HeldB, HeldP
    <2>2. CASE ReturnAtomics
      <3>1. JoinedInv'
        BY <1>2, <2>2 DEF ReturnAtomics, JoinedInv, worker
      <3> QED BY <2>1, <3>1 DEF WorkersInv
    <2>3. CASE LoadBytes \/ PrintInterval \/ Stop \/ Drained
      <3>1. JoinedInv'
        BY <2>3 DEF LoadBytes, PrintInterval, Stop, Drained, JoinedInv
      <3> QED BY <2>1, <3>1 DEF WorkersInv
    <2>4. CASE UNCHANGED recvVars
      <3>1. JoinedInv'
        BY <1>0, <2>4 DEF recvVars, JoinedInv
      <3> QED BY <2>1, <3>1 DEF WorkersInv
    <2>5. CASE \E w \in Workers : WorkerStep(w)
      BY <1>1, <2>5
    <2> QED BY <2>2, <2>3, <2>4, <2>5 DEF RecvNext, RecvFinished
  <1>3. LoadBytes \/ PrintInterval \/ Stop \/ Drained \/ ReturnAtomics \/ UNCHANGED recvVars => UNCHANGED worker
    BY DEF LoadBytes, PrintInterval, Stop, Drained, ReturnAtomics, recvVars, worker
  <1> QED BY <1>1, <1>2, <1>3 DEF RecvNext, RecvFinished

LEMMA WorkersAlways == RecvSpec => []WorkersInv
  BY WorkersInit, WorkersKeep, PTL DEF RecvSpec

\* For any workers, datagrams and interleaving of the two adds of each flush:
\* what was taken off the socket is in the atomics or still with its worker.
THEOREM WorkersLoseNothing == RecvSpec => []NothingLostBetween
  <1>1. WorkersInv => NothingLostBetween
    BY DEF WorkersInv
  <1> QED BY <1>1, WorkersAlways, PTL

\* For any workers: what the receiver returns is all that they have taken.
THEOREM WorkersResultExact == RecvSpec => []ResultExact
  <1>1. WorkersInv => ResultExact
    <2> SUFFICES ASSUME WorkersInv, mpc = "returned" 
                 PROVE  totals = [bytes |-> takenB, packets |-> takenP]
      BY DEF ResultExact
    <2>1. /\ WorkersTyped /\ \A w \in Workers : wpc[w] = "over"
          /\ totals = [bytes |-> sharedB, packets |-> sharedP]
      BY DEF WorkersInv, JoinedInv
    <2>2. HeldBytes = [w \in Workers |-> 0] /\ HeldPackets = [w \in Workers |-> 0]
      BY <2>1 DEF HeldBytes, HeldPackets, HeldB, HeldP
    <2>3. Total(HeldBytes) = 0 /\ Total(HeldPackets) = 0
      BY <2>2, WorkersAssumption, TotalOfZeroes
    <2>4. takenB = sharedB /\ takenP = sharedP
      BY <2>1, <2>3, NothingLostMeans DEF WorkersInv, WorkersTyped
    <2> QED BY <2>1, <2>4
  <1> QED BY <1>1, WorkersAlways, PTL

-----------------------------------------------------------------------------
(* The parallel streams                                                    *)

TaskPlaces   == {"none", "ready", "blocked", "done", "failed"}
ThreadPlaces == {"none", "open", "send", "report", "over"}

StreamsTyped ==
  /\ rpc \in {"spawn", "join", "returned", "dropped"}
  /\ joined \subseteq Streams
  /\ task \in [Streams -> TaskPlaces] /\ thread \in [Streams -> ThreadPlaces]
  /\ seq \in [Streams -> Nat] /\ sent \in [Streams -> Nat]
  /\ result \in [Streams -> Nat \cup {None}]
  /\ refused \in [Streams -> BOOLEAN]
  /\ wire \subseteq [stream : Streams, number : Nat] /\ IsFiniteSet(wire)
  /\ expected \in [Streams -> Nat \cup {None}]
  /\ received \in [Streams -> Nat] /\ lost \in [Streams -> Nat]
  /\ late \in [Streams -> Nat] /\ gone \in [Streams -> Nat]

\* How far a stream, its task and its thread have come together, and what the
\* thread has sent by then.
StreamAt(i) ==
  /\ rpc = "spawn" => task[i] = "none"
  /\ i \in joined => task[i] \in {"done", "failed"}
  /\ task[i] \in {"none", "ready"} => thread[i] = "none"
  /\ task[i] = "blocked" => thread[i] # "none"
  /\ task[i] = "done" => thread[i] = "over" /\ result[i] # None
  /\ task[i] = "failed" => thread[i] \in {"none", "over"} /\ result[i] = None
  /\ thread[i] \in {"none", "open"} => sent[i] = 0
  /\ thread[i] = "over" /\ result[i] = None => sent[i] = 0
  /\ result[i] # None => thread[i] = "over" /\ result[i] = sent[i]

\* What the streams that run_udp has joined have sent.
SentByJoined == [i \in Streams |-> IF i \in joined THEN sent[i] ELSE 0]

JoinInv ==
  /\ \A i \in Streams : StreamAt(i)
  /\ total = Total(SentByJoined)
  /\ rpc = "returned" => joined = Streams

\* The numbers of a stream, as far as the receiver has followed them.
StreamAccount(i) ==
  /\ expected[i] = None => received[i] = 0 /\ lost[i] = 0 /\ late[i] = 0
  /\ expected[i] # None => /\ expected[i] <= seq[i]
                           /\ lost[i] + received[i] <= expected[i] + late[i]

OnWire(i) == {d \in wire : d.stream = i}

WireInv ==
  /\ \A d \in wire : d.number < seq[d.stream]
  /\ \A i \in Streams : StreamAccount(i)
  /\ \A i \in Streams : received[i] + gone[i] + Cardinality(OnWire(i)) = sent[i]

-----------------------------------------------------------------------------
(* Datagrams of a batch                                                    *)

LEMMA TakenFacts ==
  ASSUME StreamsTyped, NEW i \in Streams, NEW n \in Nat
  PROVE  /\ Taken(i, n) \subseteq [stream : Streams, number : Nat]
         /\ IsFiniteSet(Taken(i, n)) /\ Cardinality(Taken(i, n)) = n
         /\ \A d \in Taken(i, n) : /\ d.stream = i
                                   /\ d.number >= seq[i] /\ d.number < seq[i] + n
  <1> DEFINE K == 0 .. n - 1
             f == [k \in K |-> [stream |-> i, number |-> seq[i] + k]]
  <1>1. seq[i] \in Nat
    BY DEF StreamsTyped
  <1>2. IsFiniteSet(K) /\ Cardinality(K) = n
    <2>1. IsFiniteSet(K) /\ Cardinality(K) = IF 0 > n - 1 THEN 0 ELSE (n - 1) - 0 + 1
      BY FS_Interval
    <2> QED BY <2>1
  <1>3. f \in Injection(K, Taken(i, n))
    <2>1. f \in [K -> Taken(i, n)]
      BY DEF Taken
    <2>2. ASSUME NEW a \in K, NEW b \in K, f[a] = f[b] PROVE a = b
      <3>1. f[a].number = seq[i] + a /\ f[b].number = seq[i] + b
        OBVIOUS
      <3> QED BY <1>1, <2>2, <3>1
    <2> QED BY <2>1, <2>2 DEF Injection, IsInjective
  <1>4. f \in Surjection(K, Taken(i, n))
    BY DEF Surjection, Taken
  <1>5. ExistsBijection(K, Taken(i, n))
    BY <1>3, <1>4 DEF ExistsBijection, Bijection
  <1>6. IsFiniteSet(Taken(i, n)) /\ Cardinality(Taken(i, n)) = n
    BY <1>2, <1>5, FS_Bijection
  <1>7. ASSUME NEW d \in Taken(i, n)
        PROVE  /\ d \in [stream : Streams, number : Nat]
               /\ d.stream = i /\ d.number >= seq[i] /\ d.number < seq[i] + n
    <2>1. PICK k \in K : d = [stream |-> i, number |-> seq[i] + k]
      BY DEF Taken
    <2> QED BY <1>1, <2>1
  <1> QED BY <1>6, <1>7

-----------------------------------------------------------------------------
(* Types                                                                   *)

LEMMA StreamsInitTyped == Init => StreamsTyped
  <1> SUFFICES ASSUME Init PROVE StreamsTyped
    OBVIOUS
  <1>1. IsFiniteSet(wire)
    BY FS_EmptySet DEF Init
  <1> QED BY <1>1 DEF Init, StreamsTyped, TaskPlaces, ThreadPlaces, Zero

LEMMA SendsTyped ==
  ASSUME StreamsTyped, NEW i \in Streams, ThreadSends(i)
  PROVE  StreamsTyped'
  <1>1. PICK n \in 1 .. Batch : /\ wire' = wire \cup Taken(i, n)
                                /\ sent' = [sent EXCEPT ![i] = @ + n]
    BY DEF ThreadSends
  <1>2. /\ seq' = [seq EXCEPT ![i] = @ + Batch]
        /\ UNCHANGED <<runner, task, thread, result, refused, gone, receiver>>
    BY DEF ThreadSends
  <1>3. Batch \in Nat /\ n \in Nat /\ seq[i] \in Nat
    BY BoundsAssumption DEF StreamsTyped
  <1>4. Taken(i, n) \subseteq [stream : Streams, number : Nat] /\ IsFiniteSet(Taken(i, n))
    BY <1>3, TakenFacts
  <1>5. wire' \subseteq [stream : Streams, number : Nat] /\ IsFiniteSet(wire')
    BY <1>1, <1>4, FS_Union DEF StreamsTyped
  <1>6. seq' \in [Streams -> Nat] /\ sent' \in [Streams -> Nat]
    BY <1>1, <1>2, <1>3 DEF StreamsTyped
  <1> QED BY <1>2, <1>5, <1>6 DEF StreamsTyped, runner, receiver

LEMMA ReceivesTyped ==
  ASSUME StreamsTyped, NEW d \in wire, Receive(d)
  PROVE  StreamsTyped'
  <1>1. d.stream \in Streams /\ d.number \in Nat
    BY DEF StreamsTyped
  <1>2. IsFiniteSet(wire')
    BY FS_RemoveElement DEF Receive, StreamsTyped
  <1> DEFINE i == d.stream
             next == IF expected[i] = None THEN d.number ELSE expected[i]
  <1>3. next \in Nat
    BY <1>1 DEF StreamsTyped
  <1>4. /\ received' = [received EXCEPT ![i] = @ + 1]
        /\ expected' = [expected EXCEPT ![i] = IF d.number < next THEN next ELSE d.number + 1]
        /\ lost' = [lost EXCEPT ![i] = IF d.number > next THEN @ + (d.number - next) ELSE @]
        /\ late' = [late EXCEPT ![i] = IF d.number < next THEN @ + 1 ELSE @]
    BY DEF Receive
  <1> HIDE DEF next
  <1>5. /\ received' \in [Streams -> Nat] /\ late' \in [Streams -> Nat]
        /\ expected' \in [Streams -> Nat \cup {None}]
    BY <1>1, <1>3, <1>4 DEF StreamsTyped
  <1>6. lost' \in [Streams -> Nat]
    <2>1. d.number > next => d.number - next \in Nat
      BY <1>1, <1>3
    <2> QED BY <1>1, <1>4, <2>1 DEF StreamsTyped
  <1> QED BY <1>2, <1>5, <1>6 DEF Receive, StreamsTyped, runner, threads

LEMMA StreamsKeepTypes == StreamsTyped /\ [Next]_vars => StreamsTyped'
  <1> SUFFICES ASSUME StreamsTyped, [Next]_vars PROVE StreamsTyped'
    OBVIOUS
  <1> USE DEF runner, threads, network, receiver, TaskGoTo, ThreadGoTo
  <1>1. CASE UNCHANGED vars
    BY <1>1 DEF vars, StreamsTyped
  <1>2. CASE SpawnStreams \/ Return \/ Dropped \/ ReceiverBinds \/ ReceiverTimeUp
    BY <1>2 DEF SpawnStreams, Return, Dropped, ReceiverBinds, ReceiverTimeUp, StreamsTyped,
                TaskPlaces
  <1>3. ASSUME NEW i \in Streams, StreamStarts(i) \/ StreamEnds(i) PROVE StreamsTyped'
    BY <1>3 DEF StreamStarts, StreamEnds, StreamsTyped, TaskPlaces, ThreadPlaces
  <1>4. ASSUME NEW i \in Streams, Join(i) PROVE StreamsTyped'
    <2>1. task[i] = "done" => result[i] \in Nat \cup {None}
      BY DEF StreamsTyped
    <2> QED BY <1>4, <2>1 DEF Join, StreamsTyped
  <1>5. ASSUME NEW i \in Streams, ThreadSends(i) PROVE StreamsTyped'
    BY <1>5, SendsTyped
  <1>6. ASSUME NEW i \in Streams, ThreadOpens(i) \/ ThreadTimeUp(i) PROVE StreamsTyped'
    BY <1>6 DEF ThreadOpens, ThreadTimeUp, StreamsTyped, ThreadPlaces
  <1>7. ASSUME NEW i \in Streams, ThreadFails(i) PROVE StreamsTyped'
    BY <1>7, BoundsAssumption DEF ThreadFails, StreamsTyped, ThreadPlaces
  <1>8. ASSUME NEW i \in Streams, ThreadReports(i) PROVE StreamsTyped'
    BY <1>8 DEF ThreadReports, StreamsTyped, ThreadPlaces
  <1>9. ASSUME NEW d \in wire, Receive(d) PROVE StreamsTyped'
    BY <1>9, ReceivesTyped
  <1>10. ASSUME NEW d \in wire, DatagramGone(d) PROVE StreamsTyped'
    <2>1. d.stream \in Streams
      BY DEF StreamsTyped
    <2>2. IsFiniteSet(wire') /\ wire' \subseteq wire
      BY <1>10, FS_RemoveElement DEF DatagramGone, StreamsTyped
    <2>3. gone' \in [Streams -> Nat]
      BY <1>10, <2>1 DEF DatagramGone, StreamsTyped
    <2>4. refused' \in [Streams -> BOOLEAN]
      BY <1>10, <2>1 DEF DatagramGone, StreamsTyped
    <2>5. UNCHANGED <<runner, task, threads, receiver>>
      BY <1>10 DEF DatagramGone
    <2> QED BY <2>2, <2>3, <2>4, <2>5 DEF StreamsTyped
  <1> QED BY <1>1, <1>2, <1>3, <1>4, <1>5, <1>6, <1>7, <1>8, <1>9, <1>10
          DEF Next, StreamStep, ThreadEnds, Finished

-----------------------------------------------------------------------------
(* What the test adds up                                                   *)

OthersStay(i) ==
  /\ rpc' = rpc
  /\ \A j \in Streams \ {i} : /\ task'[j] = task[j] /\ thread'[j] = thread[j]
                              /\ sent'[j] = sent[j] /\ result'[j] = result[j]
                              /\ j \in joined' <=> j \in joined

LEMMA OneStreamMoves ==
  ASSUME JoinInv, NEW i \in Streams, OthersStay(i), StreamAt(i)'
  PROVE  \A j \in Streams : StreamAt(j)'
  BY DEF JoinInv, OthersStay, StreamAt

\* A stream that run_udp has joined sends no more.
LEMMA JoinedIsQuiet ==
  ASSUME JoinInv, NEW i \in Streams, i \in joined
  PROVE  thread[i] \in {"none", "over"}
  BY DEF JoinInv, StreamAt

LEMMA JoinAddsUp ==
  ASSUME StreamsTyped, JoinInv, NEW i \in Streams, Join(i)
  PROVE  JoinInv'
  <1>1. /\ rpc = "join" /\ i \notin joined /\ task[i] \in {"done", "failed"}
        /\ joined' = joined \cup {i}
        /\ total' = IF task[i] = "done" THEN total + result[i] ELSE total
        /\ UNCHANGED <<rpc, task, thread, sent, result>>
    BY DEF Join, threads
  <1>2. StreamAt(i)
    BY DEF JoinInv
  <1>3. sent[i] \in Nat /\ total = Total(SentByJoined)
    BY DEF StreamsTyped, JoinInv
  <1>4. SentByJoined \in [Streams -> Int]
    BY DEF SentByJoined, StreamsTyped
  <1>5. Raised(SentByJoined', SentByJoined, i, sent[i])
    BY <1>1, <1>3 DEF SentByJoined, Raised
  <1>6. Total(SentByJoined) \in Int /\ Total(SentByJoined') = Total(SentByJoined) + sent[i]
    <2>1. IntegersOn(SentByJoined, Streams) /\ sent[i] \in Int
      BY <1>3, <1>4 DEF IntegersOn
    <2> QED BY <1>5, <2>1, StreamsAssumption, TotalRaised
  <1>7. total' = total + sent[i]
    <2>1. CASE task[i] = "done"
      <3>1. result[i] = sent[i]
        BY <1>2, <2>1 DEF StreamAt
      <3> QED BY <1>1, <2>1, <3>1
    <2>2. CASE task[i] = "failed"
      <3>1. sent[i] = 0
        BY <1>2, <2>2 DEF StreamAt
      <3> QED BY <1>1, <1>3, <1>6, <2>2, <3>1
    <2> QED BY <1>1, <2>1, <2>2
  <1>8. total' = Total(SentByJoined')
    BY <1>3, <1>6, <1>7
  <1>9. \A j \in Streams : StreamAt(j)'
    BY <1>1 DEF JoinInv, StreamAt
  <1> QED BY <1>1, <1>8, <1>9 DEF JoinInv

LEMMA JoinKeeps == StreamsTyped /\ JoinInv /\ [Next]_vars => JoinInv'
  <1> SUFFICES ASSUME StreamsTyped, JoinInv, [Next]_vars PROVE JoinInv'
    OBVIOUS
  <1> USE DEF runner, threads, network, receiver, TaskGoTo, ThreadGoTo
  \* Steps that leave streams, tasks and totals alone.
  <1>1. ASSUME UNCHANGED <<runner, task, threads>> PROVE JoinInv'
    BY <1>1 DEF JoinInv, StreamAt, SentByJoined
  <1>2. CASE SpawnStreams
    <2>1. \A j \in Streams : StreamAt(j)'
      BY <1>2 DEF SpawnStreams, JoinInv, StreamAt
    <2> QED BY <1>2, <2>1 DEF SpawnStreams, JoinInv, SentByJoined
  <1>3. CASE Return \/ Dropped
    <2>1. \A j \in Streams : StreamAt(j)'
      BY <1>3 DEF Return, Dropped, JoinInv, StreamAt
    <2> QED BY <1>3, <2>1 DEF Return, Dropped, JoinInv, SentByJoined
  \* Steps of one stream that add nothing to what a joined one has sent.
  <1>4. ASSUME NEW i \in Streams, OthersStay(i), StreamAt(i)', UNCHANGED <<joined, total>>,
               sent'[i] = sent[i] \/ i \notin joined
        PROVE  JoinInv'
    <2>1. SentByJoined' = SentByJoined
      BY <1>4 DEF SentByJoined, OthersStay
    <2> QED BY <1>4, <2>1, OneStreamMoves DEF JoinInv, OthersStay
  <1>5. ASSUME NEW i \in Streams,
               \/ StreamStarts(i) \/ StreamEnds(i) \/ ThreadOpens(i) \/ ThreadFails(i)
               \/ ThreadTimeUp(i) \/ ThreadReports(i)
        PROVE  JoinInv'
    <2>1. StreamAt(i)
      BY DEF JoinInv
    <2>2. sent[i] \in Nat /\ None \notin Nat
      BY BoundsAssumption DEF StreamsTyped
    <2>3. OthersStay(i) /\ UNCHANGED <<joined, total, sent>>
      BY <1>5 DEF StreamStarts, StreamEnds, ThreadOpens, ThreadFails, ThreadTimeUp,
                  ThreadReports, OthersStay, StreamsTyped
    <2>4. StreamStarts(i) => StreamAt(i)'
      BY <2>1 DEF StreamStarts, StreamAt, StreamsTyped
    <2>5. StreamEnds(i) => StreamAt(i)'
      BY <2>1 DEF StreamEnds, StreamAt, StreamsTyped
    <2>6. ThreadOpens(i) => StreamAt(i)'
      BY <2>1 DEF ThreadOpens, StreamAt, StreamsTyped
    <2>7. ThreadFails(i) \/ ThreadTimeUp(i) => StreamAt(i)'
      BY <2>1 DEF ThreadFails, ThreadTimeUp, StreamAt, StreamsTyped
    <2>8. ThreadReports(i) => StreamAt(i)'
      BY <2>1, <2>2 DEF ThreadReports, StreamAt, StreamsTyped
    <2> QED BY <1>4, <1>5, <2>3, <2>4, <2>5, <2>6, <2>7, <2>8
  <1>6. ASSUME NEW i \in Streams, ThreadSends(i) PROVE JoinInv'
    <2>1. StreamAt(i) /\ thread[i] = "send"
      BY <1>6 DEF JoinInv, ThreadSends
    <2>2. i \notin joined
      BY <2>1, JoinedIsQuiet
    <2>3. OthersStay(i) /\ UNCHANGED <<joined, total, thread, task, result, rpc>>
      BY <1>6 DEF ThreadSends, OthersStay, StreamsTyped
    <2>4. StreamAt(i)'
      BY <2>1, <2>3 DEF StreamAt
    <2> QED BY <1>4, <2>2, <2>3, <2>4
  <1>7. ASSUME NEW i \in Streams, Join(i) PROVE JoinInv'
    BY <1>7, JoinAddsUp
  <1>8. CASE ReceiverBinds \/ ReceiverTimeUp \/ UNCHANGED vars
    BY <1>1, <1>8 DEF ReceiverBinds, ReceiverTimeUp, vars
  <1>9. ASSUME NEW d \in wire, Receive(d) \/ DatagramGone(d) PROVE JoinInv'
    BY <1>1, <1>9 DEF Receive, DatagramGone
  <1> QED BY <1>2, <1>3, <1>5, <1>6, <1>7, <1>8, <1>9 DEF Next, StreamStep, ThreadEnds, Finished

LEMMA JoinInit == Init => JoinInv
  <1> SUFFICES ASSUME Init PROVE JoinInv
    OBVIOUS
  <1>1. SentByJoined = [i \in Streams |-> 0]
    BY DEF Init, SentByJoined
  <1>2. Total(SentByJoined) = 0
    BY <1>1, StreamsAssumption, TotalOfZeroes
  <1>3. \A i \in Streams : StreamAt(i)
    BY DEF Init, StreamAt, Zero
  <1> QED BY <1>2, <1>3 DEF Init, JoinInv

-----------------------------------------------------------------------------
(* What the receiver finds missing                                         *)

\* A step that puts nothing on the wire and takes nothing from it.
WireStays ==
  /\ UNCHANGED <<wire, gone, expected, received, lost, late, sent>>
  /\ \A i \in Streams : seq[i] <= seq'[i]

LEMMA StillWireKeeps ==
  ASSUME StreamsTyped, StreamsTyped', WireInv, WireStays
  PROVE  WireInv'
  <1>1. ASSUME NEW d \in wire' PROVE d.number < seq'[d.stream]
    <2>1. d \in wire /\ d.number < seq[d.stream] /\ d.stream \in Streams /\ d.number \in Nat
      BY DEF WireInv, WireStays, StreamsTyped
    <2>2. seq[d.stream] \in Nat /\ seq'[d.stream] \in Nat /\ seq[d.stream] <= seq'[d.stream]
      BY <2>1 DEF WireStays, StreamsTyped
    <2> QED BY <2>1, <2>2
  <1>2. ASSUME NEW i \in Streams PROVE StreamAccount(i)'
    <2>1. seq[i] \in Nat /\ seq'[i] \in Nat /\ seq[i] <= seq'[i]
            /\ (expected[i] # None => expected[i] \in Nat)
      BY DEF WireStays, StreamsTyped
    <2>2. StreamAccount(i)
      BY DEF WireInv
    <2> QED BY <2>1, <2>2 DEF StreamAccount, WireStays
  <1>3. \A i \in Streams : (received[i] + gone[i] + Cardinality(OnWire(i)) = sent[i])'
    BY DEF WireInv, WireStays, OnWire
  <1> QED BY <1>1, <1>2, <1>3 DEF WireInv

LEMMA OnWireFinite ==
  ASSUME StreamsTyped, NEW i
  PROVE  IsFiniteSet(OnWire(i)) /\ Cardinality(OnWire(i)) \in Nat
  BY FS_Subset, FS_CardinalityType DEF OnWire, StreamsTyped

LEMMA SendsKeepWire ==
  ASSUME StreamsTyped, StreamsTyped', WireInv, NEW i \in Streams, ThreadSends(i)
  PROVE  WireInv'
  <1>1. PICK n \in 1 .. Batch : wire' = wire \cup Taken(i, n) /\ sent' = [sent EXCEPT ![i] = @ + n]
    BY DEF ThreadSends
  <1>2. seq' = [seq EXCEPT ![i] = @ + Batch] /\ UNCHANGED <<gone, expected, received, lost, late>>
    BY DEF ThreadSends, receiver
  <1>3. Batch \in Nat /\ n \in Nat /\ n <= Batch
    BY BoundsAssumption
  <1>4. /\ IsFiniteSet(Taken(i, n)) /\ Cardinality(Taken(i, n)) = n
        /\ \A d \in Taken(i, n) : d.stream = i /\ d.number >= seq[i] /\ d.number < seq[i] + n
        /\ Taken(i, n) \subseteq [stream : Streams, number : Nat]
    BY <1>3, TakenFacts
  <1>5. \A j \in Streams : seq[j] \in Nat /\ seq'[j] \in Nat /\ seq[j] <= seq'[j]
    BY <1>2, <1>3 DEF StreamsTyped
  <1>6. seq'[i] = seq[i] + Batch
    BY <1>2 DEF StreamsTyped
  <1>7. ASSUME NEW d \in wire' PROVE d.number < seq'[d.stream]
    <2>1. CASE d \in wire
      <3>1. d.stream \in Streams /\ d.number \in Nat /\ d.number < seq[d.stream]
        BY <2>1 DEF WireInv, StreamsTyped
      <3> QED BY <1>5, <3>1
    <2>2. CASE d \in Taken(i, n)
      <3>1. d.stream = i /\ d.number < seq[i] + n /\ d.number \in Nat
        BY <1>4, <2>2
      <3> QED BY <1>3, <1>5, <1>6, <3>1
    <2> QED BY <1>1, <2>1, <2>2
  <1>8. ASSUME NEW j \in Streams PROVE StreamAccount(j)'
    <2>1. StreamAccount(j) /\ (expected[j] # None => expected[j] \in Nat)
      BY DEF WireInv, StreamsTyped
    <2> QED BY <1>2, <1>5, <2>1 DEF StreamAccount
  <1>9. ASSUME NEW j \in Streams
        PROVE  received'[j] + gone'[j] + Cardinality(OnWire(j)') = sent'[j]
    <2>1. /\ received[j] + gone[j] + Cardinality(OnWire(j)) = sent[j]
          /\ received[j] \in Nat /\ gone[j] \in Nat /\ sent[j] \in Nat
      BY DEF WireInv, StreamsTyped
    <2>2. CASE j # i
      <3>1. OnWire(j)' = OnWire(j)
        BY <1>1, <1>4, <2>2 DEF OnWire
      <3>2. sent'[j] = sent[j]
        BY <1>1, <2>2 DEF StreamsTyped
      <3> QED BY <1>2, <2>1, <3>1, <3>2
    <2>3. CASE j = i
      <3>1. OnWire(i)' = OnWire(i) \cup Taken(i, n)
        BY <1>1, <1>4 DEF OnWire
      <3>2. OnWire(i) \cap Taken(i, n) = {}
        <4>1. ASSUME NEW d \in OnWire(i), d \in Taken(i, n) PROVE FALSE
          <5>1. d.number \in Nat /\ d.number < seq[i] /\ d.number >= seq[i]
            BY <1>4, <4>1 DEF OnWire, WireInv, StreamsTyped
          <5> QED BY <1>5, <5>1
        <4> QED BY <4>1
      <3>3. Cardinality(OnWire(i)') = Cardinality(OnWire(i)) + n
        <4>1. IsFiniteSet(OnWire(i)) /\ Cardinality(OnWire(i)) \in Nat
          BY OnWireFinite
        <4>2. Cardinality(OnWire(i) \cup Taken(i, n))
                = Cardinality(OnWire(i)) + Cardinality(Taken(i, n)) - Cardinality({})
          BY <1>4, <3>2, <4>1, FS_Union
        <4> QED BY <1>3, <1>4, <3>1, <4>1, <4>2, FS_EmptySet
      <3>4. sent'[i] = sent[i] + n
        BY <1>1 DEF StreamsTyped
      <3>5. Cardinality(OnWire(i)) \in Nat
        BY OnWireFinite
      <3> QED BY <1>2, <1>3, <2>1, <2>3, <3>3, <3>4, <3>5
    <2> QED BY <2>2, <2>3
  <1> QED BY <1>7, <1>8, <1>9 DEF WireInv

\* A datagram leaves the wire and is counted, here or there.
LEMMA LeavesWire ==
  ASSUME StreamsTyped, WireInv, NEW d \in wire, wire' = wire \ {d}, NEW j \in Streams
  PROVE  Cardinality(OnWire(j)') = IF j = d.stream THEN Cardinality(OnWire(j)) - 1
                                                   ELSE Cardinality(OnWire(j))
  <1>1. IsFiniteSet(OnWire(j))
    BY OnWireFinite
  <1>2. CASE j = d.stream
    <2>1. OnWire(j)' = OnWire(j) \ {d} /\ d \in OnWire(j)
      BY <1>2 DEF OnWire
    <2> QED BY <1>1, <1>2, <2>1, FS_RemoveElement
  <1>3. CASE j # d.stream
    <2>1. OnWire(j)' = OnWire(j)
      BY <1>3 DEF OnWire
    <2> QED BY <1>3, <2>1
  <1> QED BY <1>2, <1>3

LEMMA GoneKeepsWire ==
  ASSUME StreamsTyped, WireInv, NEW d \in wire, DatagramGone(d)
  PROVE  WireInv'
  <1>1. /\ wire' = wire \ {d} /\ gone' = [gone EXCEPT ![d.stream] = @ + 1]
        /\ UNCHANGED <<seq, sent, expected, received, lost, late>>
    BY DEF DatagramGone, threads, receiver
  <1>2. ASSUME NEW j \in Streams
        PROVE  received'[j] + gone'[j] + Cardinality(OnWire(j)') = sent'[j]
    <2>1. /\ received[j] + gone[j] + Cardinality(OnWire(j)) = sent[j]
          /\ received[j] \in Nat /\ gone[j] \in Nat /\ sent[j] \in Nat
          /\ Cardinality(OnWire(j)) \in Nat
      BY OnWireFinite DEF WireInv, StreamsTyped
    <2>2. Cardinality(OnWire(j)') = IF j = d.stream THEN Cardinality(OnWire(j)) - 1
                                                    ELSE Cardinality(OnWire(j))
      BY <1>1, LeavesWire
    <2>3. gone'[j] = IF j = d.stream THEN gone[j] + 1 ELSE gone[j]
      BY <1>1 DEF StreamsTyped
    <2> QED BY <1>1, <2>1, <2>2, <2>3
  <1>3. \A j \in Streams : StreamAccount(j)'
    BY <1>1 DEF WireInv, StreamAccount
  <1>4. \A e \in wire' : e.number < seq'[e.stream]
    BY <1>1 DEF WireInv
  <1> QED BY <1>2, <1>3, <1>4 DEF WireInv

LEMMA ReceiveKeepsWire ==
  ASSUME StreamsTyped, WireInv, NEW d \in wire, Receive(d)
  PROVE  WireInv'
  <1> DEFINE i == d.stream
             next == IF expected[i] = None THEN d.number ELSE expected[i]
  <1>1. /\ wire' = wire \ {d} /\ UNCHANGED <<seq, sent, gone>>
        /\ received' = [received EXCEPT ![i] = @ + 1]
        /\ expected' = [expected EXCEPT ![i] = IF d.number < next THEN next ELSE d.number + 1]
        /\ lost' = [lost EXCEPT ![i] = IF d.number > next THEN @ + (d.number - next) ELSE @]
        /\ late' = [late EXCEPT ![i] = IF d.number < next THEN @ + 1 ELSE @]
    BY DEF Receive, threads
  <1>2. i \in Streams /\ d.number \in Nat /\ d.number < seq[i]
    BY DEF StreamsTyped, WireInv
  <1>3. ASSUME NEW j \in Streams
        PROVE  received'[j] + gone'[j] + Cardinality(OnWire(j)') = sent'[j]
    <2>1. /\ received[j] + gone[j] + Cardinality(OnWire(j)) = sent[j]
          /\ received[j] \in Nat /\ gone[j] \in Nat /\ sent[j] \in Nat
          /\ Cardinality(OnWire(j)) \in Nat
      BY OnWireFinite DEF WireInv, StreamsTyped
    <2>2. Cardinality(OnWire(j)') = IF j = i THEN Cardinality(OnWire(j)) - 1
                                             ELSE Cardinality(OnWire(j))
      BY <1>1, LeavesWire
    <2>3. received'[j] = IF j = i THEN received[j] + 1 ELSE received[j]
      BY <1>1 DEF StreamsTyped
    <2> QED BY <1>1, <2>1, <2>2, <2>3
  <1>4. ASSUME NEW j \in Streams, j # i PROVE StreamAccount(j)'
    BY <1>1, <1>4 DEF WireInv, StreamAccount, StreamsTyped
  <1>5. StreamAccount(i)'
    <2>1. /\ received[i] \in Nat /\ lost[i] \in Nat /\ late[i] \in Nat /\ seq[i] \in Nat
          /\ expected[i] # None => expected[i] \in Nat
          /\ None \notin Nat
      BY <1>2, BoundsAssumption DEF StreamsTyped
    <2>2. StreamAccount(i)
      BY <1>2 DEF WireInv
    <2>3. next \in Nat /\ next <= seq[i] /\ lost[i] + received[i] <= next + late[i]
      BY <1>2, <2>1, <2>2 DEF StreamAccount
    <2> HIDE DEF next
    <2>4. /\ received'[i] = received[i] + 1
          /\ expected'[i] = IF d.number < next THEN next ELSE d.number + 1
          /\ lost'[i] = IF d.number > next THEN lost[i] + (d.number - next) ELSE lost[i]
          /\ late'[i] = IF d.number < next THEN late[i] + 1 ELSE late[i]
          /\ seq'[i] = seq[i]
      BY <1>1, <1>2 DEF StreamsTyped
    <2>5. expected'[i] # None
      BY <1>2, <2>1, <2>3, <2>4
    <2>6. expected'[i] <= seq'[i]
      BY <1>2, <2>1, <2>3, <2>4
    <2>7. lost'[i] + received'[i] <= expected'[i] + late'[i]
      <3>1. CASE d.number < next
        BY <1>2, <2>1, <2>3, <2>4, <3>1
      <3>2. CASE d.number = next
        BY <1>2, <2>1, <2>3, <2>4, <3>2
      <3>3. CASE d.number > next
        BY <1>2, <2>1, <2>3, <2>4, <3>3
      <3> QED BY <1>2, <2>3, <3>1, <3>2, <3>3
    <2> QED BY <2>5, <2>6, <2>7 DEF StreamAccount
  <1>6. \A e \in wire' : e.number < seq'[e.stream]
    BY <1>1 DEF WireInv
  <1> QED BY <1>3, <1>4, <1>5, <1>6 DEF WireInv

LEMMA WireKeeps == StreamsTyped /\ StreamsTyped' /\ WireInv /\ [Next]_vars => WireInv'
  <1> SUFFICES ASSUME StreamsTyped, StreamsTyped', WireInv, [Next]_vars PROVE WireInv'
    OBVIOUS
  <1> USE DEF runner, threads, network, receiver
  <1>1. \A i \in Streams : seq[i] \in Nat /\ seq[i] <= seq[i]
    BY DEF StreamsTyped
  <1>2. CASE UNCHANGED <<threads, network, receiver>>
    BY <1>1, <1>2, StillWireKeeps DEF WireStays
  <1>3. CASE SpawnStreams \/ Return \/ Dropped \/ UNCHANGED vars
    BY <1>2, <1>3 DEF SpawnStreams, Return, Dropped, vars
  <1>4. CASE ReceiverBinds \/ ReceiverTimeUp
    BY <1>1, <1>4, StillWireKeeps DEF ReceiverBinds, ReceiverTimeUp, WireStays
  <1>5. ASSUME NEW i \in Streams,
               StreamStep(i) \/ ThreadOpens(i) \/ ThreadTimeUp(i) \/ ThreadReports(i)
        PROVE  WireInv'
    <2>1. WireStays
      BY <1>1, <1>5 DEF StreamStep, StreamStarts, StreamEnds, Join, ThreadOpens, ThreadTimeUp,
                        ThreadReports, WireStays
    <2> QED BY <2>1, StillWireKeeps
  <1>6. ASSUME NEW i \in Streams, ThreadFails(i) PROVE WireInv'
    <2>1. \A j \in Streams : seq[j] <= seq'[j]
      BY <1>1, <1>6, BoundsAssumption DEF ThreadFails, StreamsTyped
    <2>2. WireStays
      BY <1>6, <2>1 DEF ThreadFails, WireStays
    <2> QED BY <2>2, StillWireKeeps
  <1>7. ASSUME NEW i \in Streams, ThreadSends(i) PROVE WireInv'
    BY <1>7, SendsKeepWire
  <1>8. ASSUME NEW d \in wire, Receive(d) \/ DatagramGone(d) PROVE WireInv'
    BY <1>8, ReceiveKeepsWire, GoneKeepsWire
  <1> QED BY <1>3, <1>4, <1>5, <1>6, <1>7, <1>8 DEF Next, ThreadEnds, Finished

LEMMA WireInit == Init => WireInv
  <1> SUFFICES ASSUME Init PROVE WireInv
    OBVIOUS
  <1>1. wire = {} /\ \A i \in Streams : received[i] = 0 /\ gone[i] = 0 /\ sent[i] = 0
    BY DEF Init, Zero
  <1>2. \A i \in Streams : OnWire(i) = {}
    BY <1>1 DEF OnWire
  <1>3. \A i \in Streams : received[i] + gone[i] + Cardinality(OnWire(i)) = sent[i]
    BY <1>1, <1>2, FS_EmptySet
  <1>4. \A i \in Streams : StreamAccount(i)
    BY DEF Init, Zero, StreamAccount
  <1> QED BY <1>1, <1>3, <1>4 DEF WireInv

-----------------------------------------------------------------------------

LEMMA StreamsAlways == Spec => [](StreamsTyped /\ JoinInv /\ WireInv)
  <1>1. Init => StreamsTyped /\ JoinInv /\ WireInv
    BY StreamsInitTyped, JoinInit, WireInit
  <1>2. StreamsTyped /\ JoinInv /\ WireInv /\ [Next]_vars => (StreamsTyped /\ JoinInv /\ WireInv)'
    BY StreamsKeepTypes, JoinKeeps, WireKeeps
  <1> QED BY <1>1, <1>2, PTL DEF Spec

\* For any number of streams and workers of the runtime, whichever streams fail
\* and in whatever order they are joined: a test that returns has added up what
\* the kernel took from all of them.
THEOREM StreamTotalsAreTaken == Spec => []TotalsAreTaken
  <1>1. StreamsTyped /\ JoinInv => TotalsAreTaken
    <2> SUFFICES ASSUME StreamsTyped, JoinInv, rpc = "returned" PROVE total = Total(sent)
      BY DEF TotalsAreTaken
    <2>1. SentByJoined = sent
      BY DEF SentByJoined, JoinInv, StreamsTyped
    <2> QED BY <2>1 DEF JoinInv
  <1> QED BY <1>1, StreamsAlways, PTL

\* For any number of streams, size of a batch and way of the network with the
\* datagrams: every one the kernel took is received, gone or on its way, and a
\* receiver calls no more lost than are missing of that stream or came late.
THEOREM StreamLossIsExplained == Spec => []LossExplained
  <1>1. StreamsTyped /\ WireInv => LossExplained
    <2> SUFFICES ASSUME StreamsTyped, WireInv, NEW i \in Streams
                 PROVE  /\ received[i] + gone[i] + Cardinality({d \in wire : d.stream = i}) = sent[i]
                        /\ lost[i] <= (seq[i] - received[i]) + late[i]
      BY DEF LossExplained
    <2>1. received[i] + gone[i] + Cardinality({d \in wire : d.stream = i}) = sent[i]
      BY DEF WireInv, OnWire
    <2>2. /\ received[i] \in Nat /\ lost[i] \in Nat /\ late[i] \in Nat /\ seq[i] \in Nat
          /\ expected[i] # None => expected[i] \in Nat
          /\ StreamAccount(i)
      BY DEF StreamsTyped, WireInv
    <2>3. lost[i] <= (seq[i] - received[i]) + late[i]
      BY <2>2 DEF StreamAccount
    <2> QED BY <2>1, <2>3
  <1> QED BY <1>1, StreamsAlways, PTL

=============================================================================
