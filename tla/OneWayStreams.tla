---------------------------- MODULE OneWayStreams ----------------------------
(***************************************************************************)
(* A one-way test with several streams: run_udp spawns one task per        *)
(* stream; the task starts a native thread that numbers and sends whole    *)
(* batches with sendmmsg until its own clock is up, and blocks a worker    *)
(* thread of the runtime until that thread is done.  The streams' results  *)
(* are joined and added up; a stream that fails is only logged.  At the    *)
(* other end one receiver tells the streams apart and looks for gaps in    *)
(* the numbers of each, for as long as its own clock goes.                 *)
(*                                                                         *)
(* The numbers of a stream count from its offset.  Bytes are packets.      *)
(***************************************************************************)
EXTENDS Integers, FiniteSets, Sums

CONSTANTS
  Streams,   \* 0 .. parallel - 1, with parallel > 1
  Runtimes,  \* how many worker threads the runtime may have
  Batch,     \* BATCH, 64
  MaxRounds, \* bound: batches the threads send together
  InFlight,  \* bound: datagrams on their way
  MaxGone,   \* bound: datagrams that do not reach the receiver
  None

ASSUME StreamsAssumption == IsFiniteSet(Streams) /\ 0 \in Streams /\ Streams \subseteq Nat
ASSUME RuntimesAssumption == Runtimes \subseteq Nat \ {0}
ASSUME BoundsAssumption  == Batch \in Nat \ {0} /\ {MaxRounds, InFlight, MaxGone} \subseteq Nat /\ None \notin Nat

VARIABLES
  workers,   \* worker threads of the runtime
  portTaken, \* streams whose fixed local port somebody else has
  rpc,       \* where run_udp is
  joined,    \* streams whose result it has
  total,     \* total_packets
  task,      \* where the task of each stream is
  thread,    \* where its native thread is
  seq,       \* the next number of each stream
  sent,      \* total_packets of each thread: what sendmmsg took
  result,    \* what the thread has sent over its channel
  refused,   \* the thread's socket will report a refused datagram
  wire,      \* numbers on their way
  spc,       \* where the receiver is
  expected,  \* expected_seq of each stream it has seen
  received, lost, late, \* packets_received, packets_lost, out_of_order, which
             \* the code adds up over the streams
  gone       \* datagrams the network lost or nobody took (history)

runner   == <<workers, portTaken, rpc, joined, total>>
threads  == <<thread, seq, sent, result>>
network  == <<refused, wire, gone>>
receiver == <<spc, expected, received, lost, late>>
vars     == <<runner, task, threads, network, receiver>>

-----------------------------------------------------------------------------
(* run_udp and the tasks of the streams                                    *)

TaskGoTo(i, pc)   == task' = [task EXCEPT ![i] = pc]
ThreadGoTo(i, pc) == thread' = [thread EXCEPT ![i] = pc]

\* A worker of the runtime that no stream blocks can run a task.
FreeWorker == Cardinality({i \in Streams : task[i] = "blocked"}) < workers

\* tokio::spawn for each stream, and a task for each that waits for it.
SpawnStreams ==
  /\ rpc = "spawn"
  /\ rpc' = "join"
  /\ task' = [i \in Streams |-> "ready"]
  /\ UNCHANGED <<workers, portTaken, joined, total, threads, network, receiver>>

\* The stream binds a local port, any for stream 0 and 5201 + i for the others,
\* and calls send_one_way_with_offset: a thread, and a wait for it that does
\* not give the worker back.
StreamStarts(i) ==
  /\ task[i] = "ready" /\ FreeWorker
  /\ IF i \in portTaken
       THEN TaskGoTo(i, "failed") /\ UNCHANGED thread
       ELSE TaskGoTo(i, "blocked") /\ ThreadGoTo(i, "open")
  /\ UNCHANGED <<runner, seq, sent, result, network, receiver>>

\* rx.recv() returns what the thread sent, or an error when the thread has gone
\* without.
FaultStreamEnds(i) ==
  /\ task[i] = "blocked" /\ result[i] # None
  /\ TaskGoTo(i, "done")
  /\ UNCHANGED <<runner, threads, network, receiver>>

StreamEnds(i) ==
  /\ task[i] = "blocked" /\ thread[i] = "over"
  /\ TaskGoTo(i, IF result[i] = None THEN "failed" ELSE "done")
  /\ UNCHANGED <<runner, threads, network, receiver>>

\* join_next: the task that waited for stream i needs a worker, too.  An error
\* is printed, and the test goes on.
Join(i) ==
  /\ rpc = "join" /\ i \notin joined
  /\ task[i] \in {"done", "failed"} /\ FreeWorker
  /\ joined' = joined \cup {i}
  /\ total' = IF task[i] = "done" THEN total + result[i] ELSE total
  /\ UNCHANGED <<workers, portTaken, rpc, task, threads, network, receiver>>

\* The totals are printed, and the test is a success.
Return ==
  /\ rpc = "join" /\ joined = Streams
  /\ rpc' = "returned"
  /\ UNCHANGED <<workers, portTaken, joined, total, task, threads, network, receiver>>

\* The caller drops run() while it joins; the tasks of the streams go on.
Dropped ==
  /\ rpc = "join"
  /\ rpc' = "dropped"
  /\ UNCHANGED <<workers, portTaken, joined, total, task, threads, network, receiver>>

-----------------------------------------------------------------------------
(* The thread of a stream                                                  *)

\* It opens a socket of its own.  If that fails, or the packets are too short
\* for their two numbers, it ends without a word.
ThreadOpens(i) ==
  /\ thread[i] = "open"
  /\ \E pc \in {"send", "over"} : ThreadGoTo(i, pc)
  /\ UNCHANGED <<runner, task, seq, sent, result, network, receiver>>

FaultTaken(i, n) == {[stream |-> 0, number |-> seq[i] + k] : k \in 0 .. n - 1}

Taken(i, n) == {[stream |-> i, number |-> seq[i] + k] : k \in 0 .. n - 1}

\* A batch is numbered, and the numbers advance by all of it, however much
\* sendmmsg takes.  The socket blocks, so it takes one at least.
ThreadSends(i) ==
  /\ thread[i] = "send" /\ ~refused[i] /\ Total(seq) < Batch * MaxRounds
  /\ seq' = [seq EXCEPT ![i] = @ + Batch]
  /\ \E n \in 1 .. Batch :
       /\ Cardinality(wire) + n <= InFlight
       /\ wire' = wire \cup Taken(i, n)
       /\ sent' = [sent EXCEPT ![i] = @ + n]
  /\ UNCHANGED <<runner, task, thread, result, refused, gone, receiver>>

\* An error, such as an earlier datagram that was refused, ends the loop.
FaultThreadFails(i) ==
  /\ thread[i] = "send" /\ refused[i]
  /\ seq' = [seq EXCEPT ![i] = @ + Batch]
  /\ refused' = [refused EXCEPT ![i] = FALSE]
  /\ ThreadGoTo(i, "over")
  /\ UNCHANGED <<runner, task, sent, result, wire, gone, receiver>>

ThreadFails(i) ==
  /\ thread[i] = "send" /\ refused[i]
  /\ seq' = [seq EXCEPT ![i] = @ + Batch]
  /\ refused' = [refused EXCEPT ![i] = FALSE]
  /\ ThreadGoTo(i, "report")
  /\ UNCHANGED <<runner, task, sent, result, wire, gone, receiver>>

ThreadTimeUp(i) ==
  /\ thread[i] = "send"
  /\ ThreadGoTo(i, "report")
  /\ UNCHANGED <<runner, task, seq, sent, result, network, receiver>>

\* close and tx.send, whatever ended the loop.
ThreadReports(i) ==
  /\ thread[i] = "report"
  /\ ThreadGoTo(i, "over")
  /\ result' = [result EXCEPT ![i] = sent[i]]
  /\ UNCHANGED <<runner, task, seq, sent, network, receiver>>

-----------------------------------------------------------------------------
(* recv_one_way_server_with_socket                                         *)

\* The handler binds its port after it has sent Start, and its clock starts.
ReceiverBinds ==
  /\ spc = "bind"
  /\ spc' = "loop"
  /\ UNCHANGED <<runner, task, threads, network, expected, received, lost, late>>

\* One datagram: the state of its stream begins with the first one seen; a
\* higher number than expected is a gap, a lower one is late.
Receive(d) ==
  /\ spc = "loop" /\ d \in wire
  /\ wire' = wire \ {d}
  /\ LET i    == d.stream
         next == IF expected[i] = None THEN d.number ELSE expected[i]
     IN  /\ received' = [received EXCEPT ![i] = @ + 1]
         /\ expected' = [expected EXCEPT ![i] = IF d.number < next THEN next ELSE d.number + 1]
         /\ lost' = [lost EXCEPT ![i] = IF d.number > next THEN @ + (d.number - next) ELSE @]
         /\ late' = [late EXCEPT ![i] = IF d.number < next THEN @ + 1 ELSE @]
  /\ UNCHANGED <<runner, task, threads, refused, gone, spc>>

ReceiverTimeUp ==
  /\ spc = "loop"
  /\ spc' = "over"
  /\ UNCHANGED <<runner, task, threads, network, expected, received, lost, late>>

\* The network loses a datagram; one that meets no receiver may be answered.
DatagramGone(d) ==
  /\ d \in wire /\ Total(gone) < MaxGone
  /\ wire' = wire \ {d}
  /\ gone' = [gone EXCEPT ![d.stream] = @ + 1]
  /\ \/ UNCHANGED refused
     \/ /\ spc # "loop" /\ thread[d.stream] = "send"
        /\ refused' = [refused EXCEPT ![d.stream] = TRUE]
  /\ UNCHANGED <<runner, task, threads, receiver>>

-----------------------------------------------------------------------------

Zero == [i \in Streams |-> 0]

Finished ==
  /\ rpc \in {"returned", "dropped"} /\ spc = "over"
  /\ \A i \in Streams : task[i] \in {"done", "failed"}
  /\ UNCHANGED vars

Init ==
  /\ workers \in Runtimes
  /\ portTaken \in SUBSET (Streams \ {0})
  /\ rpc = "spawn" /\ joined = {} /\ total = 0
  /\ task   = [i \in Streams |-> "none"]
  /\ thread = [i \in Streams |-> "none"]
  /\ seq = Zero /\ sent = Zero
  /\ result = [i \in Streams |-> None]
  /\ refused = [i \in Streams |-> FALSE]
  /\ wire = {}
  /\ spc = "bind"
  /\ expected = [i \in Streams |-> None]
  /\ received = Zero /\ lost = Zero /\ late = Zero /\ gone = Zero

StreamStep(i) == StreamStarts(i) \/ StreamEnds(i) \/ Join(i)
ThreadEnds(i) == ThreadOpens(i) \/ ThreadFails(i) \/ ThreadTimeUp(i) \/ ThreadReports(i)

Next ==
  \/ SpawnStreams \/ Return \/ Dropped
  \/ \E i \in Streams : StreamStep(i) \/ ThreadSends(i) \/ ThreadEnds(i)
  \/ ReceiverBinds \/ ReceiverTimeUp
  \/ \E d \in wire : Receive(d) \/ DatagramGone(d)
  \/ Finished

\* The runtime runs what is ready and finds a worker, and every thread runs and
\* has a clock.  Nothing is assumed of network and receiver.
Fairness ==
  /\ WF_vars(SpawnStreams) /\ WF_vars(Return)
  /\ \A i \in Streams : SF_vars(StreamStep(i)) /\ WF_vars(ThreadEnds(i))

Spec     == Init /\ [][Next]_vars
FairSpec == Spec /\ Fairness

-----------------------------------------------------------------------------
(* Properties                                                              *)

\* The totals a test prints are what the kernel has taken from all its
\* streams, also from those that ended in an error: a stream that is missing
\* from them has sent nothing.
TotalsAreTaken == rpc = "returned" => total = Total(sent)

\* The packets the receiver calls lost are explained: by those numbered but
\* never taken for sending, those the network lost, those on their way, and
\* those that came late; never by the packets of another stream.
LossExplained ==
  \A i \in Streams :
    /\ received[i] + gone[i] + Cardinality({d \in wire : d.stream = i}) = sent[i]
    /\ lost[i] <= (seq[i] - received[i]) + late[i]

\* The test returns, also when streams fail, when the receiver stops first, and
\* when they block all workers: then they run one after the other.
RunReturns == rpc = "spawn" ~> rpc \in {"returned", "dropped"}
=============================================================================
