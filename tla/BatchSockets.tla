---------------------------- MODULE BatchSockets ----------------------------
(***************************************************************************)
(* UDP in batches: the client's sender fills a UdpSendBatch with numbered, *)
(* time-stamped packets and gives it to sendmmsg, which may take any part  *)
(* of it; a receiver takes datagrams with recvmmsg into the buffers of a   *)
(* UdpRecvBatch that it uses again and again.  Around the two: the cache   *)
(* of the wall clock that every thread has for the time stamps, and        *)
(* tokio's readiness of a socket, which these calls bypass.                *)
(*                                                                         *)
(* Time is in ticks, Micro of them to a microsecond.  Packets are their    *)
(* numbers.  What is recorded and reported of them is in Collector and     *)
(* ProgressReporter, the pacing itself in TokenBucket.                     *)
(***************************************************************************)
EXTENDS Integers, Sequences, SequencesExt

CONSTANTS
  MaxBatch,    \* MAX_BATCH_SIZE, 64
  LeastBatch,  \* the least size of a batch at a low rate, 4
  Rates,       \* packets per second that a bandwidth comes to, or None
  Threads,     \* the runtime's worker threads
  Micro,       \* ticks of a microsecond
  CacheFor,    \* update_interval_us, 1000
  Room,        \* datagrams that fit between the two sockets
  MaxPackets,  \* bound: packets the sender makes
  MaxTime,     \* bound: ticks
  Junk,        \* a datagram of somebody else
  None

ASSUME SizesAssumption  == {MaxBatch, LeastBatch, Micro, CacheFor, Room} \subseteq Nat \ {0}
ASSUME RatesAssumption  == Rates \subseteq Nat \cup {None} /\ None \notin Nat /\ Junk \notin Nat
ASSUME BoundsAssumption == MaxPackets \in Nat /\ MaxTime \in Nat

VARIABLES
  now,        \* the time
  rate,       \* what the bandwidth comes to
  cache,      \* TimestampCache of each thread, None before its first use
  on,         \* the thread the sender's task is on
  reading,    \* the wall clock as read for a refresh of the cache, and when
  pc,         \* where the sender is
  batch,      \* the packets of its UdpSendBatch
  sequence,   \* its next number
  lag,        \* the time since its stamp when the last packet was made (history)
  counted,    \* packets it has recorded as sent
  taken,      \* the numbers sendmmsg has taken, in order (history)
  queue,      \* datagrams on their way to, or in, the receiving socket
  ready,      \* tokio holds the receiving socket to be readable
  rpc,        \* where the receiver is
  slots,      \* the buffers of its UdpRecvBatch
  count,      \* how many of them are valid
  got,        \* the datagrams recvmmsg has given, in order (history)
  recorded    \* what it has recorded of the datagrams it went through, in order

sender   == <<rate, cache, on, reading, pc, batch, sequence, lag, counted, taken>>
receiver == <<rpc, slots, count, got, recorded>>
vars     == <<now, sender, queue, ready, receiver>>

-----------------------------------------------------------------------------
(* UdpSendBatch                                                            *)

Greatest(m, n) == IF m > n THEN m ELSE n
Least(m, n)    == IF m < n THEN m ELSE n

IsFull(b) == Len(b) >= MaxBatch

\* add: refused by a full batch.
Add(b, packet) == IF IsFull(b) THEN b ELSE Append(b, packet)

\* What is left after sendmmsg took n packets: the rest keeps its place.
FaultDrained(b, n) == IF n > 0 THEN <<>> ELSE b
Drained(b, n)      == SubSeq(b, n + 1, Len(b))

\* adaptive_batch_size
AdaptiveSize ==
  IF rate = None THEN MaxBatch
  ELSE IF rate < 1000 THEN Greatest(MaxBatch \div 4, LeastBatch)
  ELSE IF rate < 10000 THEN MaxBatch \div 2
  ELSE MaxBatch

-----------------------------------------------------------------------------
(* TimestampCache                                                          *)

Wall == now \div Micro

Elapsed(c) == (now - c.at) \div Micro
IsFresh(c) == c # None /\ Elapsed(c) < CacheFor

\* The estimate between refreshes.
Estimate(c) == c.stamp + Elapsed(c)

-----------------------------------------------------------------------------
(* run_udp_send_batched                                                    *)

elsewhere == <<now, queue, ready, receiver>>

\* The loop conditions; its clock or a cancellation may end it at any round.
SenderLoops ==
  /\ pc = "loop"
  /\ pc' \in {"fill", "over"}
  /\ UNCHANGED <<rate, cache, on, reading, batch, sequence, lag, counted, taken, elsewhere>>

\* create_packet_fast with the number and the time stamp, and batch.add.
MakePacket(s) ==
  /\ batch' = Add(batch, sequence)
  /\ sequence' = sequence + 1
  /\ lag' = now - s * Micro
  /\ UNCHANGED <<rate, on, counted, taken, elsewhere>>

FillsOn == ~IsFull(batch) /\ Len(batch) < AdaptiveSize /\ sequence < MaxPackets

Fill ==
  /\ pc = "fill" /\ FillsOn
  /\ IF IsFresh(cache[on])
       THEN /\ MakePacket(Estimate(cache[on]))
            /\ UNCHANGED <<cache, reading, pc>>
       ELSE /\ reading' = [wall |-> Wall, at |-> now]
            /\ pc' = "refresh"
            /\ UNCHANGED <<cache, on, rate, batch, sequence, lag, counted, taken, elsewhere>>

\* A refresh reads the wall clock first and then the monotone one; the thread
\* may lose the processor in between.  A cache that is new is used at once.
FaultRefresh ==
  /\ pc = "refresh"
  /\ pc' = "fill"
  /\ cache' = [cache EXCEPT ![on] = [stamp |-> Wall, at |-> reading.at,
                                     gap |-> now - reading.at]]
  /\ reading' = None
  /\ IF cache[on] = None
       THEN UNCHANGED <<rate, on, batch, sequence, lag, counted, taken, elsewhere>>
       ELSE MakePacket(Wall)

Refresh ==
  /\ pc = "refresh"
  /\ pc' = "fill"
  /\ cache' = [cache EXCEPT ![on] = [stamp |-> reading.wall, at |-> now,
                                     gap |-> now - reading.at]]
  /\ reading' = None
  /\ IF cache[on] = None
       THEN UNCHANGED <<rate, on, batch, sequence, lag, counted, taken, elsewhere>>
       ELSE MakePacket(reading.wall)

\* The batch has its size, or the clock ended the filling.
EndFill ==
  /\ pc = "fill"
  /\ pc' = IF batch = <<>> THEN "loop" ELSE "send"
  /\ UNCHANGED <<rate, cache, on, reading, batch, sequence, lag, counted, taken, elsewhere>>

\* send, send_mmsg, send_mmsg_sync: sendmmsg takes some of the packets, or
\* none because the socket is full, which is no error.
SendBatch ==
  /\ pc = "send"
  /\ \E n \in 0 .. Least(Len(batch), Room - Len(queue)) :
       /\ n = 0 => Len(queue) = Room
       /\ taken' = taken \o SubSeq(batch, 1, n)
       /\ queue' = queue \o SubSeq(batch, 1, n)
       /\ ready' = (ready \/ n > 0)
       /\ batch' = Drained(batch, n)
       /\ counted' = counted + n
  /\ pc' = "pace"
  /\ UNCHANGED <<now, rate, cache, on, reading, sequence, lag, receiver>>

\* Another error of sendmmsg ends the loop; the batch is dropped.
SendFails ==
  /\ pc = "send"
  /\ pc' = "over"
  /\ UNCHANGED <<rate, cache, on, reading, batch, sequence, lag, counted, taken, elsewhere>>

\* With a bandwidth the token bucket may put the task to sleep, and another
\* thread, with a cache of its own, may go on with it.
Pace ==
  /\ pc = "pace"
  /\ pc' = "loop"
  /\ IF rate = None THEN UNCHANGED on ELSE on' \in Threads
  /\ UNCHANGED <<rate, cache, reading, batch, sequence, lag, counted, taken, elsewhere>>

-----------------------------------------------------------------------------
(* UdpRecvBatch, and the loop of run_udp_batched around it                 *)

atSender == <<now, sender>>

\* The head of the receiver's loop, which a cancellation ends.
ReceiverLoops ==
  /\ rpc = "loop"
  /\ rpc' \in {"try", "over"}
  /\ UNCHANGED <<atSender, queue, ready, slots, count, got, recorded>>

\* recv_mmsg_sync: what is there goes into the first buffers, the other
\* buffers keep what they had; readiness is not tokio's business.
Receives ==
  /\ queue # <<>>
  /\ \E n \in 1 .. Least(MaxBatch, Len(queue)) :
       /\ slots' = [i \in 1 .. MaxBatch |-> IF i <= n THEN queue[i] ELSE slots[i]]
       /\ count' = n
       /\ got' = got \o SubSeq(queue, 1, n)
       /\ queue' = SubSeq(queue, n + 1, Len(queue))
  /\ rpc' = "process"
  /\ UNCHANGED <<atSender, ready, recorded>>

Nothing(next) ==
  /\ queue = <<>>
  /\ rpc' = next
  /\ UNCHANGED <<atSender, queue, ready, slots, count, got, recorded>>

\* recv_mmsg: a try, a wait for readiness, and a second try, whose failure is
\* an error of recv(): the caller logs it and goes on, len() is the last count.
FaultFirstTry  == rpc = "try"   /\ (Receives \/ Nothing("process"))
FirstTry  == rpc = "try"   /\ (Receives \/ Nothing("wait"))
SecondTry == rpc = "again" /\ (Receives \/ Nothing("loop"))

\* socket.readable() returns at once while tokio holds the socket readable,
\* which only a try of tokio's own would end.
Readable ==
  /\ rpc = "wait" /\ ready
  /\ rpc' = "again"
  /\ UNCHANGED <<atSender, queue, ready, slots, count, got, recorded>>

\* get(i): the first buffers only.
Valid(s, n) == SubSeq(s, 1, n)

\* Of a datagram that parse_packet refuses nothing is recorded.
RecordOf(s) == [i \in 1 .. Len(s) |-> IF s[i] \in Nat THEN s[i] ELSE None]

\* Every datagram of the batch is gone through.
Process ==
  /\ rpc = "process"
  /\ rpc' = "loop"
  /\ recorded' = recorded \o RecordOf(Valid(slots, count))
  /\ UNCHANGED <<atSender, queue, ready, slots, count, got>>

-----------------------------------------------------------------------------
(* The world                                                               *)

\* Time matters to the stamps only: it passes where the sender would notice.
Tick ==
  /\ now < MaxTime /\ pc \in {"fill", "refresh", "pace"}
  /\ now' = now + 1
  /\ UNCHANGED <<sender, queue, ready, receiver>>

\* The network brings a datagram of somebody else: one, here.
JunkArrives ==
  /\ Len(queue) < Room /\ Junk \notin ToSet(queue) \cup ToSet(got)
  /\ queue' = Append(queue, Junk)
  /\ ready' = TRUE
  /\ UNCHANGED <<atSender, receiver>>

Finished == pc = "over" /\ rpc \in {"over", "wait"} /\ UNCHANGED vars

Init ==
  /\ now = 0
  /\ rate \in Rates
  /\ cache = [t \in Threads |-> None]
  /\ on \in Threads
  /\ reading = None
  /\ pc = "loop" /\ batch = <<>> /\ sequence = 0 /\ lag = 0 /\ counted = 0
  /\ taken = <<>> /\ queue = <<>>
  /\ ready = FALSE
  /\ rpc = "loop" /\ slots = [i \in 1 .. MaxBatch |-> Junk] /\ count = 0
  /\ got = <<>> /\ recorded = <<>>

Next ==
  \/ SenderLoops \/ Fill \/ Refresh \/ EndFill \/ SendBatch \/ SendFails \/ Pace
  \/ ReceiverLoops \/ FirstTry \/ SecondTry \/ Readable \/ Process
  \/ Tick \/ JunkArrives
  \/ Finished

Spec == Init /\ [][Next]_vars

-----------------------------------------------------------------------------
(* Properties                                                              *)

Datagrams == Nat \cup {Junk}

TypeOK ==
  /\ now \in Nat /\ rate \in Rates
  /\ cache \in [Threads -> {None} \cup [stamp : Nat, at : Nat, gap : Nat]]
  /\ on \in Threads
  /\ reading \in {None} \cup [wall : Nat, at : Nat]
  /\ pc \in {"loop", "fill", "refresh", "send", "pace", "over"}
  /\ batch \in Seq(Nat) /\ sequence \in Nat /\ lag \in Int
  /\ counted \in Nat /\ taken \in Seq(Nat)
  /\ queue \in Seq(Datagrams) /\ ready \in BOOLEAN
  /\ rpc \in {"loop", "try", "wait", "again", "process", "over"}
  /\ slots \in [1 .. MaxBatch -> Datagrams] /\ count \in 0 .. MaxBatch
  /\ got \in Seq(Datagrams) /\ recorded \in Seq(Nat \cup {None})

Numbers(m, n) == [i \in 1 .. n - m |-> m + i - 1]

\* Whatever sendmmsg takes of each batch, the numbers go out in order, each of
\* them once and none left out; as many are counted as sent; and those made
\* but not taken are what the batch still holds.
EachNumberOnce ==
  /\ taken = Numbers(0, counted)
  /\ batch = Numbers(counted, sequence)

\* The time stamp of a packet is never later than the wall clock when it was
\* made, on whatever thread, and earlier at most by two microseconds and the time
\* that thread was off the processor in its last refresh: a receiver computes
\* no transit times from the future.
StampsTrue ==
  [][sequence' # sequence =>
       /\ 0 <= lag'
       /\ lag' <= cache'[on].gap + 2 * Micro]_vars

\* The buffers are used again and again and recv() may fail, but nothing left
\* in them from before is taken for new: what the receiver records is what the
\* socket gave it, in order and once.
ReceivedOnce ==
  RecordOf(got) = IF rpc = "process" THEN recorded \o RecordOf(Valid(slots, count))
                                     ELSE recorded
=============================================================================
