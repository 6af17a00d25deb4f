------------------------------ MODULE UdpLoss ------------------------------
(***************************************************************************)
(* How rperf3 counts the datagrams it did not receive.  Two trackers see   *)
(* the arrivals of a UDP test: the collector's UdpPacketState (forward and *)
(* reverse tests: record_udp_packet_received, calculate_udp_loss), which   *)
(* outlives a test, and the StreamState of a one-way receiver, which is    *)
(* made for each test.                                                     *)
(*                                                                         *)
(* Packets have numbers 0, 1, ... in the order they were sent and carry    *)
(* the number modulo SeqSpace (a u32).  The network loses, reorders and,   *)
(* with MaxCopies = 2, duplicates them.                                    *)
(*                                                                         *)
(* Names are its own (LossInit, LossSpec): Datagrams_proofs extends this   *)
(* module and BatchSockets.                                                *)
(***************************************************************************)
EXTENDS Integers, FiniteSets

CONSTANTS
  MaxSent,     \* bound: packets sent in one test
  MaxTests,    \* bound: tests recorded by one collector
  MaxCopies,   \* copies of a packet that the network delivers at most
  SeqSpace,    \* sequence numbers there are: 2^32 in the code
  NoSeq        \* the None of the code's Option

ASSUME TestsAssumption ==
  MaxSent \in Nat /\ MaxTests \in Nat \ {0} /\ MaxCopies \in Nat
ASSUME SeqAssumption == SeqSpace \in Nat \ {0} /\ NoSeq \notin Nat

VARIABLES
  test,      \* the test that runs
  sent,      \* packets sent in it
  flight,    \* copies of each packet still on their way
  seen,      \* packets that have arrived in this test
  arrivals,  \* how many arrivals that were
  first,     \* the packet that arrived first, NoSeq before
  state,     \* UdpPacketState
  expected,  \* StreamState.expected_seq, NoSeq before the first packet
  lost,      \* packets_lost of the one-way receiver
  late       \* its out_of_order

lossVars == <<test, sent, flight, seen, arrivals, first, state, expected, lost, late>>

Packets == 0 .. MaxSent - 1
Seq32(p) == p % SeqSpace

-----------------------------------------------------------------------------
(* The trackers                                                            *)

\* record_udp_packet_received, but for the jitter.
FaultRecorded(seq) ==
  [max        |-> IF state.max = NoSeq \/ seq > state.max + 1 THEN seq ELSE state.max,
   last       |-> seq,
   received   |-> state.received + 1,
   outOfOrder |-> IF state.last # NoSeq /\ seq < state.last
                    THEN state.outOfOrder + 1 ELSE state.outOfOrder]

Recorded(seq) ==
  [max        |-> IF state.max = NoSeq \/ seq > state.max THEN seq ELSE state.max,
   last       |-> seq,
   received   |-> state.received + 1,
   outOfOrder |-> IF state.last # NoSeq /\ seq < state.last
                    THEN state.outOfOrder + 1 ELSE state.outOfOrder]

\* calculate_udp_loss: max + 1 - received, saturating.
FaultLoss ==
  IF state.max = NoSeq THEN 0
  ELSE IF state.max + 1 > state.received THEN state.max + 1 - state.received
       ELSE state.received - (state.max + 1)

Loss ==
  IF state.max = NoSeq \/ state.max + 1 < state.received THEN 0
  ELSE state.max + 1 - state.received

\* recv_one_way_server_with_socket: the stream starts at the first sequence
\* number it sees; a gap is lost at once and stays lost.
FaultTrackStream(seq) ==
  LET expecting == IF expected = NoSeq THEN seq ELSE expected
  IN  /\ expected' = Seq32(seq + 1)
      /\ lost' = IF seq > expecting THEN lost + (seq - expecting) ELSE lost
      /\ late' = IF seq < expecting THEN late + 1 ELSE late

FaultUnloseLate(seq) ==
  LET expecting == IF expected = NoSeq THEN seq ELSE expected
  IN  \/ /\ seq > expecting
         /\ lost' = lost + (seq - expecting)
         /\ expected' = Seq32(seq + 1)
         /\ UNCHANGED late
      \/ /\ seq < expecting
         /\ late' = late + 1 /\ lost' = lost - 1
         /\ UNCHANGED expected
      \/ /\ seq = expecting
         /\ expected' = Seq32(seq + 1)
         /\ UNCHANGED <<lost, late>>

TrackStream(seq) ==
  LET expecting == IF expected = NoSeq THEN seq ELSE expected
  IN  \/ /\ seq > expecting
         /\ lost' = lost + (seq - expecting)
         /\ expected' = Seq32(seq + 1)
         /\ UNCHANGED late
      \/ /\ seq < expecting
         /\ late' = late + 1
         /\ UNCHANGED <<expected, lost>>
      \/ /\ seq = expecting
         /\ expected' = Seq32(seq + 1)
         /\ UNCHANGED <<lost, late>>

-----------------------------------------------------------------------------
(* Sender, network, receiver                                               *)

\* The next packet; the network decides how many copies of it arrive.
Send ==
  /\ sent < MaxSent
  /\ \E n \in 0 .. MaxCopies : flight' = [flight EXCEPT ![sent] = n]
  /\ sent' = sent + 1
  /\ UNCHANGED <<test, seen, arrivals, first, state, expected, lost, late>>

\* A packet is received, in any order.
Receive(p) ==
  /\ flight[p] > 0
  /\ flight' = [flight EXCEPT ![p] = @ - 1]
  /\ seen' = seen \cup {p}
  /\ arrivals' = arrivals + 1
  /\ first' = IF first = NoSeq THEN p ELSE first
  /\ state' = Recorded(Seq32(p))
  /\ TrackStream(Seq32(p))
  /\ UNCHANGED <<test, sent>>

\* Another test: numbers start again, the one-way receiver is a new one, and
\* the collector goes on as it is.
NextTest ==
  /\ test < MaxTests
  /\ test' = test + 1
  /\ sent' = 0 /\ seen' = {} /\ arrivals' = 0 /\ first' = NoSeq
  /\ flight' = [p \in Packets |-> 0]
  /\ expected' = NoSeq /\ lost' = 0 /\ late' = 0
  /\ UNCHANGED state

LossInit ==
  /\ test = 1 /\ sent = 0 /\ seen = {} /\ arrivals = 0 /\ first = NoSeq
  /\ flight = [p \in Packets |-> 0]
  /\ state = [max |-> NoSeq, last |-> NoSeq, received |-> 0, outOfOrder |-> 0]
  /\ expected = NoSeq /\ lost = 0 /\ late = 0

LossNext == Send \/ NextTest \/ \E p \in Packets : Receive(p)

LossSpec == LossInit /\ [][LossNext]_lossVars

-----------------------------------------------------------------------------
(* Properties                                                              *)

LossTypeOK ==
  /\ test \in 1 .. MaxTests
  /\ sent \in 0 .. MaxSent
  /\ flight \in [Packets -> 0 .. MaxCopies]
  /\ seen \subseteq Packets
  /\ arrivals \in Nat
  /\ first \in Packets \cup {NoSeq}
  /\ state \in [max : Nat \cup {NoSeq}, last : Nat \cup {NoSeq},
                received : Nat, outOfOrder : Nat]
  /\ expected \in Nat \cup {NoSeq}
  /\ lost \in Nat /\ late \in Nat

\* What a reader of the report calls lost: the packets from number n up to the
\* last one seen that have not arrived.
MissingFrom(n) == {p \in Packets : /\ p >= n /\ p \notin seen
                                   /\ \E q \in seen : p < q}

\* The collector's loss is exact, in whatever order the packets arrive
\* (measurements.rs:1140 "Number of packets that were not received"), in the
\* first test it records and as long as no packet arrives twice.
LossExact ==
  test = 1 /\ arrivals = Cardinality(seen) => Loss = Cardinality(MissingFrom(0))

\* With duplicates it is no longer exact, but never reports too much.
LossNotOverstated == test = 1 => Loss <= Cardinality(MissingFrom(0))

\* A one-way receiver finds every packet that is missing after its first one,
\* and what it counts besides are packets that came late.
OneWayLossBounds ==
  LET missing == IF first = NoSeq THEN {} ELSE MissingFrom(first)
  IN  Cardinality(missing) <= lost /\ lost <= Cardinality(missing) + late

\* The account behind it: every number from the first to the expected one is
\* either lost or arrived in order.
OneWayAccount == first # NoSeq => lost + (arrivals - late) = expected - first
=============================================================================
