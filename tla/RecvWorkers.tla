---------------------------- MODULE RecvWorkers ----------------------------
(***************************************************************************)
(* The one-way receiver with several workers                               *)
(* (recv_one_way_server_mt_tokio): native threads take datagrams from      *)
(* duplicates of one non-blocking socket, count in locals and add them to  *)
(* two shared atomics every 200 ms and once at their end.  The main task   *)
(* prints the rate of each second from the atomics, stops the workers at   *)
(* the end of the test, drains their reports, joins them and returns the   *)
(* atomics.                                                                *)
(*                                                                         *)
(* Names are its own (RecvInit, RecvSpec): OneWay_proofs extends this      *)
(* module and OneWayStreams.                                               *)
(***************************************************************************)
EXTENDS Integers, FiniteSets, Sums

CONSTANTS
  Workers,     \* the threads whose dup() succeeded
  MaxPackets,  \* bound: datagrams that arrive
  Sizes        \* bytes of a datagram

ASSUME WorkersAssumption  == IsFiniteSet(Workers) /\ Workers # {}
ASSUME ArrivalsAssumption == MaxPackets \in Nat /\ Sizes \subseteq Nat

VARIABLES
  running,         \* the flag the workers look at
  wpc,             \* where each worker is
  localB, localP,  \* what a worker has counted since its last flush
  sharedB, sharedP,\* bytes_received, packets_received
  mpc,             \* where the main task is
  seenB,           \* current_total of the interval that is being printed
  prevB,           \* prev_total_bytes
  printed,         \* the interval_b of the last line that was printed
  totals,          \* what is returned
  takenB, takenP   \* what the workers have taken off the socket (history)

recvVars == <<running, wpc, localB, localP, sharedB, sharedP, mpc, seenB,
              prevB, printed, totals, takenB, takenP>>

worker == <<wpc, localB, localP, sharedB, sharedP, takenB, takenP>>
main   == <<running, mpc, seenB, prevB, printed, totals>>

WorkerGoTo(w, pc) == wpc' = [wpc EXCEPT ![w] = pc]

-----------------------------------------------------------------------------
(* A worker                                                                *)

\* The head of its loop.
WorkerLoops(w) ==
  /\ wpc[w] = "check"
  /\ WorkerGoTo(w, IF running THEN "recv" ELSE "lastBytes")
  /\ UNCHANGED <<main, localB, localP, sharedB, sharedP, takenB, takenP>>

\* recvfrom with a datagram of n bytes; if 200 ms have passed, a flush follows.
WorkerReceives(w) ==
  /\ wpc[w] = "recv" /\ takenP < MaxPackets
  /\ \E n \in Sizes :
       /\ localB' = [localB EXCEPT ![w] = @ + n]
       /\ localP' = [localP EXCEPT ![w] = @ + 1]
       /\ takenB' = takenB + n /\ takenP' = takenP + 1
  /\ \E pc \in {"check", "bytes"} : WorkerGoTo(w, pc)
  /\ UNCHANGED <<main, sharedB, sharedP>>

\* EWOULDBLOCK, or any other error.
WorkerFindsNothing(w) ==
  /\ wpc[w] = "recv"
  /\ WorkerGoTo(w, "check")
  /\ UNCHANGED <<main, localB, localP, sharedB, sharedP, takenB, takenP>>

\* The two fetch_add, the locals start again after both.
FlushBytes(w) ==
  /\ wpc[w] \in {"bytes", "lastBytes"}
  /\ sharedB' = sharedB + localB[w]
  /\ WorkerGoTo(w, IF wpc[w] = "bytes" THEN "packets" ELSE "lastPackets")
  /\ UNCHANGED <<main, localB, localP, sharedP, takenB, takenP>>

FaultFlushPackets(w) ==
  /\ wpc[w] = "packets"
  /\ sharedP' = sharedP + localP[w]
  /\ WorkerGoTo(w, "check")
  /\ UNCHANGED <<main, localB, localP, sharedB, takenB, takenP>>

FlushPackets(w) ==
  /\ wpc[w] = "packets"
  /\ sharedP' = sharedP + localP[w]
  /\ localB' = [localB EXCEPT ![w] = 0]
  /\ localP' = [localP EXCEPT ![w] = 0]
  /\ WorkerGoTo(w, "check")
  /\ UNCHANGED <<main, sharedB, takenB, takenP>>

\* The last flush keeps the locals for the report to the main task.
LastPackets(w) ==
  /\ wpc[w] = "lastPackets"
  /\ sharedP' = sharedP + localP[w]
  /\ WorkerGoTo(w, "report")
  /\ UNCHANGED <<main, localB, localP, sharedB, takenB, takenP>>

\* tx.send of the locals, whose sum nobody uses, and close(fd).
WorkerReports(w) ==
  /\ wpc[w] = "report"
  /\ WorkerGoTo(w, "over")
  /\ UNCHANGED <<main, localB, localP, sharedB, sharedP, takenB, takenP>>

WorkerStep(w) ==
  \/ WorkerLoops(w) \/ WorkerReceives(w) \/ WorkerFindsNothing(w)
  \/ FlushBytes(w)  \/ FlushPackets(w)   \/ LastPackets(w) \/ WorkerReports(w)

-----------------------------------------------------------------------------
(* The main task                                                           *)

\* A second has passed and the test goes on: the rate of it is printed from
\* the two atomics, read one after the other.
LoadBytes ==
  /\ mpc = "sleep"
  /\ mpc' = "print"
  /\ seenB' = sharedB
  /\ UNCHANGED <<worker, running, prevB, printed, totals>>

PrintInterval ==
  /\ mpc = "print"
  /\ mpc' = "sleep"
  /\ printed' = seenB - prevB
  /\ prevB' = seenB
  /\ UNCHANGED <<worker, running, seenB, totals>>

\* The test is over: the flag, then 200 ms of sleep.
FaultStop ==
  /\ mpc = "sleep"
  /\ mpc' = "drain"
  /\ UNCHANGED <<worker, running, seenB, prevB, printed, totals>>

Stop ==
  /\ mpc = "sleep"
  /\ mpc' = "drain"
  /\ running' = FALSE
  /\ UNCHANGED <<worker, seenB, prevB, printed, totals>>

\* recv_timeout until 100 ms bring no report: the main task holds a sender
\* itself, so the channel never closes; what the reports add up to is dropped.
Drained ==
  /\ mpc = "drain"
  /\ mpc' = "join"
  /\ UNCHANGED <<worker, running, seenB, prevB, printed, totals>>

\* Every thread is joined, then the atomics are read.
FaultReturnAtomics ==
  /\ mpc = "join"
  /\ mpc' = "returned"
  /\ totals' = [bytes |-> sharedB, packets |-> sharedP]
  /\ UNCHANGED <<worker, running, seenB, prevB, printed>>

ReturnAtomics ==
  /\ mpc = "join"
  /\ \A w \in Workers : wpc[w] = "over"
  /\ mpc' = "returned"
  /\ totals' = [bytes |-> sharedB, packets |-> sharedP]
  /\ UNCHANGED <<worker, running, seenB, prevB, printed>>

\* The server goes on with the next connection.
RecvFinished == mpc = "returned" /\ UNCHANGED recvVars

RecvInit ==
  /\ running = TRUE
  /\ wpc = [w \in Workers |-> "check"]
  /\ localB = [w \in Workers |-> 0] /\ localP = [w \in Workers |-> 0]
  /\ sharedB = 0 /\ sharedP = 0
  /\ mpc = "sleep"
  /\ seenB = 0 /\ prevB = 0 /\ printed = 0
  /\ totals = [bytes |-> 0, packets |-> 0]
  /\ takenB = 0 /\ takenP = 0

RecvNext ==
  \/ \E w \in Workers : WorkerStep(w)
  \/ LoadBytes \/ PrintInterval \/ Stop \/ Drained \/ ReturnAtomics
  \/ RecvFinished

\* The operating system runs every thread, and the clock ends the test.
RecvFairness ==
  /\ \A w \in Workers : WF_recvVars(WorkerStep(w))
  /\ WF_recvVars(PrintInterval) /\ SF_recvVars(Stop) /\ WF_recvVars(Drained) /\ WF_recvVars(ReturnAtomics)

RecvSpec     == RecvInit /\ [][RecvNext]_recvVars
RecvFairSpec == RecvSpec /\ RecvFairness

-----------------------------------------------------------------------------
(* Properties                                                              *)

\* What a worker holds that the atomics do not have yet.
HeldB(w) == IF wpc[w] \in {"packets", "lastPackets", "report", "over"} THEN 0 ELSE localB[w]
HeldP(w) == IF wpc[w] \in {"report", "over"} THEN 0 ELSE localP[w]

\* No datagram is lost or counted twice between the workers and the atomics,
\* whatever their interleaving.
NothingLostBetween ==
  /\ takenB = sharedB + Total([w \in Workers |-> HeldB(w)])
  /\ takenP = sharedP + Total([w \in Workers |-> HeldP(w)])

\* What is returned is everything the workers received, bytes and packets,
\* although the reports they send are not what is returned.
ResultExact ==
  mpc = "returned" => totals = [bytes |-> takenB, packets |-> takenP]

\* The receiver comes to an end, with every thread joined.
Returns == mpc = "sleep" ~> mpc = "returned"
=============================================================================
