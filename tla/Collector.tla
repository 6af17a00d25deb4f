------------------------------ MODULE Collector ------------------------------
(***************************************************************************)
(* MeasurementsCollector, the object that the tasks and threads of a       *)
(* client or a server share: atomics for the totals, a list of per-stream  *)
(* atomics behind a mutex, a second mutex ("inner") around intervals,      *)
(* duration and a copy of the totals, and a third around the packet        *)
(* numbers seen.  No call takes all locks at once, so a reader sees every  *)
(* number at a different moment.                                           *)
(*                                                                         *)
(* One step is one atomic operation or one critical section.  The callers  *)
(* are the program's own: Script lists, per kind of task, the calls it     *)
(* makes in the order of the code.  The start time is written and never    *)
(* read, and the jitter and the late packets that are updated together     *)
(* with the packet numbers influence nothing else: all three are left out. *)
(* A call that records bytes counts them as one.                           *)
(***************************************************************************)
EXTENDS Naturals, Sequences, FiniteSets

CONSTANTS
  Procs,         \* the tasks and threads that share the collector
  Casts,         \* the functions from Procs to kinds that may be at work
  MaxRounds,     \* bound: times a task of each kind goes round its loop
  MaxIntervals,  \* MAX_INTERVALS, the capacity of the interval ring
  MaxSeq,        \* bound: the highest sequence number a packet carries
  Nobody         \* holds a lock that is free

\* What a task calls once per round of its loop, when an interval has passed,
\* and at the end.
Script ==
  [TcpSend    |-> [loop   |-> <<"sent">>, report |-> <<"interval">>,
                   finish |-> <<"duration", "get">>],
   TcpReceive |-> [loop   |-> <<"received">>, report |-> <<"interval">>,
                   finish |-> <<"duration", "get">>],
   UdpSend    |-> [loop   |-> <<"sent", "packet">>, report |-> <<"interval">>,
                   finish |-> <<"duration", "get">>],
   UdpReceive |-> [loop   |-> <<"received", "arrival">>, report |-> <<"get", "interval">>,
                   finish |-> <<"duration", "get">>],
   TcpClientSend    |-> [loop   |-> <<"sent">>, report |-> <<"interval">>,
                         finish |-> <<"duration", "get", "print">>],
   TcpClientReceive |-> [loop   |-> <<"received">>, report |-> <<"interval">>,
                         finish |-> <<"duration", "get", "print">>],
   UdpClientSend    |-> [loop   |-> <<"sent", "packet">>,
                         report |-> <<"interval", "loss", "get">>,
                         finish |-> <<"duration", "get", "loss", "print">>],
   UdpClientReceive |-> [loop   |-> <<"arrival", "received">>,
                         report |-> <<"interval", "loss", "get">>,
                         finish |-> <<"duration", "get", "loss", "print">>],
   User       |-> [loop |-> <<"get">>, report |-> <<"sync">>, finish |-> <<"stats">>]]

Kinds   == DOMAIN Script
Clients == {"TcpClientSend", "TcpClientReceive", "UdpClientSend", "UdpClientReceive"}
OverUdp == {"UdpSend", "UdpReceive", "UdpClientSend", "UdpClientReceive"}

ASSUME ProcsAssumption  == IsFiniteSet(Procs) /\ Nobody \notin Procs
ASSUME CastsAssumption  == Casts \subseteq [Procs -> Kinds]
ASSUME BoundsAssumption == MaxRounds \in [Kinds -> Nat] /\ MaxIntervals \in Nat \ {0} /\ MaxSeq \in Nat

\* A client has a collector of its own: beside its run, only callers of its
\* get_measurements look into it.
ClientsAreAlone ==
  \A cast \in Casts : \A p, q \in Procs : cast[p] \in Clients /\ q # p => cast[q] = "User"

VARIABLES
  kind,       \* the kind of each task
  at,         \* the call a task makes or makes next, as <<part, index>> of its script
  step,       \* where it is inside that call
  rounds,     \* how often it went round its loop
  arc,        \* the per-stream counters a recording call has found
  total,      \* atomic_bytes_sent, atomic_bytes_received, atomic_packets
  perStream,  \* per_stream: counters of DEFAULT_STREAM_ID, the only id in use
  inner,      \* Measurements: copied totals, duration, interval ring
  udp,        \* UdpPacketState: highest number + 1, and count
  lock,       \* the holders of inner, udp_state and per_stream
  snap,       \* the Measurements that a task's get() builds
  loss,       \* what calculate_udp_loss last told a task
  printed,    \* what a client has shown of its test
  added,      \* intervals added so far (history)
  timed,      \* durations set so far (history)
  begin,      \* the numbers when a get() or print began (history)
  synced      \* the totals when the last complete sync began (history)

shared == <<total, perStream, inner, udp, lock>>
past   == <<added, timed, begin, synced>>
vars   == <<kind, at, step, rounds, arc, shared, snap, loss, printed, past>>

-----------------------------------------------------------------------------
(* Values                                                                  *)

Fields == {"sent", "received", "packets"}
Zero   == [f \in Fields |-> 0]
Locks  == {"inner", "udp", "streams"}

Free(l)    == lock[l] = Nobody
Hold(l, p) == lock' = [lock EXCEPT ![l] = p]
Release(l) == lock' = [lock EXCEPT ![l] = Nobody]

Least(m, n)  == IF m < n THEN m ELSE n
\* saturating_sub
Minus(m, n)  == IF m < n THEN 0 ELSE m - n

\* push_back of the ring: at capacity the oldest interval goes.
FaultPushed(ring, i) == Append(IF Len(ring) > MaxIntervals THEN Tail(ring) ELSE ring, i)
Pushed(ring, i)      == Append(IF Len(ring) >= MaxIntervals THEN Tail(ring) ELSE ring, i)

\* calculate_udp_loss: the packets up to the highest number, less those counted.
Loss(u) == [lost |-> Minus(u.expected, u.count), expected |-> u.expected]
NoLoss  == [lost |-> 0, expected |-> 0]

NoSnap == [total |-> Zero, streams |-> <<>>, duration |-> 0, ring |-> <<>>, lost |-> 0]

\* The numbers a reader might see now.
Numbers == [total    |-> total,
            first    |-> IF perStream = <<>> THEN Zero ELSE Head(perStream),
            duration |-> timed, added |-> added, expected |-> udp.expected]

\* print_results: the format follows the packet count, and a sender shows no loss.
Text(m) == [udp |-> m.total.packets > 0, sent |-> m.total.sent, received |-> m.total.received,
            lost |-> IF m.total.received > 0 THEN m.lost ELSE 0,
            expected |-> m.total.packets]

\* get_detailed_results takes its totals from inner and the loss from udp_state.
Json(k) == [udp |-> k \in OverUdp, sent |-> inner.total.sent, received |-> inner.total.received,
            lost     |-> IF k \in OverUdp THEN Loss(udp).lost ELSE 0,
            expected |-> IF k \in OverUdp THEN Loss(udp).expected ELSE 0]

NotYet    == [form |-> "none"]
NotCalled == [total |-> Zero, first |-> Zero, duration |-> 0, added |-> 0, expected |-> 0]

-----------------------------------------------------------------------------
(* The callers                                                             *)

Part(p)   == Script[kind[p]][at[p][1]]
Call(p)   == Part(p)[at[p][2]]
Begins(p, call) == /\ step[p] = "next"
                   /\ at[p][2] # 0
                   /\ Call(p) = call

AtItsEnd(p) == at[p][1] = "finish" /\ kind[p] \in Clients

\* The parts of a script that may follow one: a loop goes round again or
\* ends, after a report or without one.
Follows(part) ==
  CASE part = "start"  -> {"loop", "finish"}
    [] part = "loop"   -> {"loop", "report", "finish"}
    [] part = "report" -> {"loop", "finish"}
    [] OTHER           -> {"over"}

Enters(p, part) ==
  /\ part = "loop" => rounds[p] < MaxRounds[kind[p]]
  /\ rounds' = [rounds EXCEPT ![p] = IF part = "loop" THEN @ + 1 ELSE @]
  /\ at' = [at EXCEPT ![p] = <<part, IF part = "over" THEN 0 ELSE 1>>]

\* The call is over; the task comes to its next one.
Returns(p) ==
  /\ step' = [step EXCEPT ![p] = "next"]
  /\ IF at[p][2] < Len(Part(p))
       THEN /\ at' = [at EXCEPT ![p] = <<@[1], @[2] + 1>>]
            /\ UNCHANGED rounds
       ELSE \E part \in Follows(at[p][1]) : Enters(p, part)
  /\ UNCHANGED kind

Within(p, s) ==
  /\ step' = [step EXCEPT ![p] = s]
  /\ UNCHANGED <<kind, at, rounds>>

Starts(p) ==
  /\ at[p][1] = "start" /\ step[p] = "next"
  /\ \E part \in Follows("start") : Enters(p, part)
  /\ UNCHANGED <<kind, step, arc, shared, snap, loss, printed, past>>

-----------------------------------------------------------------------------
(* Recording                                                               *)

FieldOf(call) == IF call = "packet" THEN "packets" ELSE call

\* record_bytes_sent, record_bytes_received, record_udp_packet: the total,
\* then the stream is looked up, then the counter of the stream.
AddToTotal(p, call) ==
  /\ Begins(p, call)
  /\ total' = [total EXCEPT ![FieldOf(call)] = @ + 1]
  /\ Within(p, "find")
  /\ UNCHANGED <<arc, perStream, inner, udp, lock, snap, loss, printed, past>>

\* Looking first and locking only to push would let two tasks push one each.
FaultFindStream(p) ==
  /\ step[p] = "find"
  /\ Free("streams")
  /\ perStream' = Append(perStream, Zero)
  /\ arc' = [arc EXCEPT ![p] = Len(perStream')]
  /\ Within(p, "add")
  /\ UNCHANGED <<total, inner, udp, lock, snap, loss, printed, past>>

\* get_or_create_stream, under the lock of per_stream.
FindStream(p) ==
  /\ step[p] = "find"
  /\ Free("streams")
  /\ perStream' = IF perStream = <<>> THEN <<Zero>> ELSE perStream
  /\ arc' = [arc EXCEPT ![p] = 1]
  /\ Within(p, "add")
  /\ UNCHANGED <<total, inner, udp, lock, snap, loss, printed, past>>

AddToStream(p) ==
  /\ step[p] = "add"
  /\ perStream' = [perStream EXCEPT ![arc[p]][FieldOf(Call(p))] = @ + 1]
  /\ Returns(p)
  /\ UNCHANGED <<arc, total, inner, udp, lock, snap, loss, printed, past>>

\* record_udp_packet_received: udp_state first, then inner, both until the end.
\* A client skips the call for a datagram that does not parse.
RecordArrival(p) ==
  \/ /\ Begins(p, "arrival")
     /\ Free("udp") /\ Hold("udp", p)
     /\ Within(p, "inner")
     /\ UNCHANGED <<arc, total, perStream, inner, udp, snap, loss, printed, past>>
  \/ /\ step[p] = "inner"
     /\ Free("inner")
     /\ \E seq \in 0 .. MaxSeq :
          udp' = [expected |-> IF seq >= udp.expected THEN seq + 1 ELSE udp.expected,
                  count    |-> udp.count + 1]
     /\ Release("udp")
     /\ Returns(p)
     /\ UNCHANGED <<arc, total, perStream, inner, snap, loss, printed, past>>
  \/ /\ Begins(p, "arrival") /\ kind[p] = "UdpClientReceive"
     /\ Returns(p)
     /\ UNCHANGED <<arc, shared, snap, loss, printed, past>>

\* add_interval, with the ordinal of the interval for its contents.
AddInterval(p) ==
  /\ Begins(p, "interval")
  /\ Free("inner")
  /\ inner' = [inner EXCEPT !.ring = Pushed(@, added + 1)]
  /\ added' = added + 1
  /\ Returns(p)
  /\ UNCHANGED <<arc, total, perStream, udp, lock, snap, loss, printed, timed, begin, synced>>

\* set_duration of whichever task comes, with its ordinal for the value; the
\* streams it also sets the duration of are inner's, and there are none.
SetDuration(p) ==
  /\ Begins(p, "duration")
  /\ Free("inner")
  /\ inner' = [inner EXCEPT !.duration = timed + 1]
  /\ timed' = timed + 1
  /\ Returns(p)
  /\ UNCHANGED <<arc, total, perStream, udp, lock, snap, loss, printed, added, begin, synced>>

\* sync_atomic_counters: three loads under the lock of inner.
SyncBegins(p) ==
  /\ Begins(p, "sync")
  /\ Free("inner") /\ Hold("inner", p)
  /\ begin' = [begin EXCEPT ![p] = Numbers]
  /\ inner' = [inner EXCEPT !.total.sent = total.sent]
  /\ Within(p, "syncReceived")
  /\ UNCHANGED <<arc, total, perStream, udp, snap, loss, printed, added, timed, synced>>

FaultSyncGoesOn(p) ==
  /\ step[p] = "syncReceived"
  /\ inner' = [inner EXCEPT !.total.received = total.sent, !.total.packets = total.packets]
  /\ synced' = begin[p].total
  /\ Release("inner")
  /\ Returns(p)
  /\ UNCHANGED <<arc, total, perStream, udp, snap, loss, printed, added, timed, begin>>

SyncGoesOn(p) ==
  /\ UNCHANGED <<arc, total, perStream, udp, snap, loss, printed, added, timed, begin>>
  /\ \/ /\ step[p] = "syncReceived"
        /\ inner' = [inner EXCEPT !.total.received = total.received]
        /\ Within(p, "syncPackets")
        /\ UNCHANGED <<lock, synced>>
     \/ /\ step[p] = "syncPackets"
        /\ inner' = [inner EXCEPT !.total.packets = total.packets]
        /\ synced' = begin[p].total
        /\ Release("inner")
        /\ Returns(p)

-----------------------------------------------------------------------------
(* Reading                                                                 *)

\* get: a clone of inner, whose lock is released with the statement.
FaultGetClones(p) ==
  /\ Begins(p, "get")
  /\ Free("inner") /\ Hold("inner", p)
  /\ begin' = [begin EXCEPT ![p] = Numbers]
  /\ snap' = [snap EXCEPT ![p] = [NoSnap EXCEPT !.total = inner.total,
                                   !.duration = inner.duration, !.ring = inner.ring]]
  /\ Within(p, "sent")
  /\ UNCHANGED <<arc, total, perStream, inner, udp, loss, printed, added, timed, synced>>

GetClones(p) ==
  /\ Begins(p, "get")
  /\ Free("inner")
  /\ begin' = [begin EXCEPT ![p] = Numbers]
  /\ snap' = [snap EXCEPT ![p] = [NoSnap EXCEPT !.total = inner.total,
                                   !.duration = inner.duration, !.ring = inner.ring]]
  /\ Within(p, "sent")
  /\ UNCHANGED <<arc, shared, loss, printed, added, timed, synced>>

\* The three totals, one load after the other.
FaultGetLoads(p, f, next) ==
  /\ step[p] = f
  /\ Within(p, next)
  /\ UNCHANGED <<arc, shared, snap, loss, printed, past>>

GetLoads(p, f, next) ==
  /\ step[p] = f
  /\ snap' = [snap EXCEPT ![p].total[f] = total[f]]
  /\ Within(p, next)
  /\ UNCHANGED <<arc, shared, loss, printed, past>>

\* The per-stream list: locked, and each counter loaded while recorders that
\* hold their Arc go on counting.
GetStreams(p) ==
  /\ UNCHANGED <<arc, total, perStream, inner, udp, loss, printed, past>>
  /\ \/ /\ step[p] = "streams"
        /\ Free("streams") /\ Hold("streams", p)
        /\ Within(p, "streamSent")
        /\ UNCHANGED snap
     \/ /\ step[p] = "streamSent"
        /\ snap' = [snap EXCEPT ![p].streams =
                      [i \in 1 .. Len(perStream) |-> [Zero EXCEPT !.sent = perStream[i].sent]]]
        /\ Within(p, "streamReceived")
        /\ UNCHANGED lock
     \/ /\ step[p] = "streamReceived"
        /\ snap' = [snap EXCEPT ![p].streams =
                      [i \in 1 .. Len(@) |-> [@[i] EXCEPT !.received = perStream[i].received]]]
        /\ Release("streams")
        /\ Within(p, "loss")

\* calculate_udp_loss, when bytes were received, replaces the packet count.
FaultGetLoss(p) ==
  /\ step[p] = "loss"
  /\ IF snap[p].total.packets > 0
       THEN /\ Free("udp")
            /\ snap' = [snap EXCEPT ![p].lost = Loss(udp).lost,
                                    ![p].total.packets = Loss(udp).expected]
       ELSE UNCHANGED snap
  /\ Within(p, "got")
  /\ UNCHANGED <<arc, shared, loss, printed, past>>

GetLoss(p) ==
  /\ step[p] = "loss"
  /\ IF snap[p].total.received > 0
       THEN /\ Free("udp")
            /\ snap' = [snap EXCEPT ![p].lost = Loss(udp).lost,
                                    ![p].total.packets = Loss(udp).expected]
       ELSE UNCHANGED snap
  /\ Within(p, "got")
  /\ UNCHANGED <<arc, shared, loss, printed, past>>

\* The caller has its Measurements; a client keeps the last for its results.
GetReturns(p) ==
  /\ step[p] = "got"
  /\ snap' = [snap EXCEPT ![p] = IF AtItsEnd(p) THEN @ ELSE NoSnap]
  /\ begin' = [begin EXCEPT ![p] = NotCalled]
  /\ Returns(p)
  /\ UNCHANGED <<arc, shared, loss, printed, added, timed, synced>>

CalculateLoss(p) ==
  /\ Begins(p, "loss")
  /\ Free("udp")
  /\ loss' = [loss EXCEPT ![p] = IF AtItsEnd(p) THEN Loss(udp) ELSE @]
  /\ Returns(p)
  /\ UNCHANGED <<arc, shared, snap, printed, past>>

\* get_stream_stats looks in inner's own list of streams, which stays empty:
\* it takes the lock and tells nothing.
GetStreamStats(p) ==
  /\ Begins(p, "stats")
  /\ Free("inner")
  /\ Returns(p)
  /\ UNCHANGED <<arc, shared, snap, loss, printed, past>>

\* The end of a client's run: the snapshot as text, or detailed results.
PrintText(p) ==
  /\ Begins(p, "print")
  /\ printed' = [printed EXCEPT ![p] = [form |-> "text", shows |-> Text(snap[p])]]
  /\ snap' = [snap EXCEPT ![p] = NoSnap]
  /\ Returns(p)
  /\ UNCHANGED <<arc, shared, loss, past>>

\* get_detailed_results holds inner; for UDP it then takes udp_state, in the
\* order opposite to record_udp_packet_received.
PrintJson(p) ==
  /\ UNCHANGED <<arc, total, perStream, inner, udp, loss, added, timed, synced>>
  /\ \/ /\ Begins(p, "print")
        /\ Free("inner") /\ Hold("inner", p)
        /\ snap' = [snap EXCEPT ![p] = NoSnap]
        /\ begin' = [begin EXCEPT ![p] = [Numbers EXCEPT !.total = synced]]
        /\ Within(p, "results")
        /\ UNCHANGED printed
     \/ /\ step[p] = "results"
        /\ kind[p] \in OverUdp => Free("udp")
        /\ printed' = [printed EXCEPT ![p] = [form |-> "json", shows |-> Json(kind[p])]]
        /\ Release("inner")
        /\ Returns(p)
        /\ UNCHANGED <<snap, begin>>

-----------------------------------------------------------------------------

Records(p) ==
  \/ \E call \in {"sent", "received", "packet"} : AddToTotal(p, call)
  \/ FindStream(p)  \/ AddToStream(p) \/ RecordArrival(p)
  \/ AddInterval(p) \/ SetDuration(p) \/ SyncBegins(p) \/ SyncGoesOn(p)

Reads(p) ==
  \/ GetClones(p)
  \/ GetLoads(p, "sent", "received")
  \/ GetLoads(p, "received", "packets")
  \/ GetLoads(p, "packets", "streams")
  \/ GetStreams(p) \/ GetLoss(p) \/ GetReturns(p)
  \/ CalculateLoss(p) \/ GetStreamStats(p) \/ PrintText(p) \/ PrintJson(p)

Over(p)  == at[p][1] = "over"
Finished == (\A p \in Procs : Over(p)) /\ UNCHANGED vars

Init ==
  /\ kind \in Casts
  /\ at     = [p \in Procs |-> <<"start", 0>>]
  /\ step   = [p \in Procs |-> "next"]
  /\ rounds = [p \in Procs |-> 0]
  /\ arc    = [p \in Procs |-> 0]
  /\ total  = Zero
  /\ perStream = <<>>
  /\ inner  = [total |-> Zero, duration |-> 0, ring |-> <<>>]
  /\ udp    = [expected |-> 0, count |-> 0]
  /\ lock   = [l \in Locks |-> Nobody]
  /\ snap   = [p \in Procs |-> NoSnap]
  /\ loss   = [p \in Procs |-> NoLoss]
  /\ printed = [p \in Procs |-> NotYet]
  /\ added  = 0 /\ timed = 0
  /\ begin  = [p \in Procs |-> NotCalled]
  /\ synced = Zero

Next ==
  \/ \E p \in Procs : Starts(p) \/ Records(p) \/ Reads(p)
  \/ Finished

Spec     == Init /\ [][Next]_vars
FairSpec == Spec /\ \A p \in Procs : WF_vars(Records(p) \/ Reads(p))

-----------------------------------------------------------------------------
(* Properties                                                              *)

Parts == {"start", "loop", "report", "finish", "over"}
Steps == {"next", "find", "add", "inner", "syncReceived", "syncPackets", "sent", "received",
          "packets", "streams", "streamSent", "streamReceived", "loss", "got", "results"}

TypeOK ==
  /\ kind \in [Procs -> Kinds]
  /\ at \in [Procs -> Parts \X Nat]
  /\ step \in [Procs -> Steps]
  /\ rounds \in [Procs -> Nat]
  /\ arc \in [Procs -> {0, 1}]
  /\ total \in [Fields -> Nat]
  /\ perStream \in Seq([Fields -> Nat]) /\ Len(perStream) <= 1
  /\ inner \in [total : [Fields -> Nat], duration : Nat, ring : Seq(Nat)]
  /\ udp \in [expected : Nat, count : Nat]
  /\ lock \in [Locks -> Procs \cup {Nobody}]
  /\ added \in Nat /\ timed \in Nat

\* Recording is two additions with a look-up between them, made by several
\* tasks at once: a total is always what the streams have plus what is on its
\* way, so nothing is lost or counted in two streams.
InFlight(f) == {p \in Procs : step[p] \in {"find", "add"} /\ FieldOf(Call(p)) = f}

TotalsAreSums ==
  \A f \in Fields :
    total[f] = (IF perStream = <<>> THEN 0 ELSE Head(perStream)[f]) + Cardinality(InFlight(f))

\* get() takes its numbers one by one, under three locks and none.  Each of
\* them is nevertheless one that the collector had between the call and the
\* return: nothing recorded before the call is missing, in the totals, in the
\* stream that a Result frame reports, in the duration, the ring and the loss.
SnapshotWithinCall ==
  \A p \in Procs : step[p] = "got" =>
    LET m == snap[p]  b == begin[p] IN
    /\ \A f \in {"sent", "received"} :
         /\ b.total[f] <= m.total[f] /\ m.total[f] <= total[f]
         /\ b.first[f] > 0 => m.streams # <<>>
         /\ m.streams # <<>> => /\ b.first[f] <= Head(m.streams)[f]
                                /\ Head(m.streams)[f] <= Head(perStream)[f]
    /\ b.duration <= m.duration /\ m.duration <= timed
    /\ Least(b.added, 1) <= Len(m.ring)
    /\ m.ring # <<>> => b.added <= m.ring[Len(m.ring)]
    /\ IF m.total.received > 0
         THEN b.expected <= m.total.packets /\ m.total.packets <= udp.expected
         ELSE b.total.packets <= m.total.packets /\ m.total.packets <= total.packets

\* The ring holds the last intervals of all tasks, in their order, and no gap:
\* the oldest goes only when there is no room.
RingKeepsLast ==
  inner.ring = [i \in 1 .. Least(added, MaxIntervals) |->
                  Minus(added, MaxIntervals) + i]

\* What a client shows of its test at the end, as text and (but for what
\* TestCompleted takes from a second look) to its callback, is what its run
\* has recorded: nobody else records into a client's collector.
TextIsTrue ==
  \A p \in Procs : Over(p) /\ printed[p].form = "text" =>
    LET t == printed[p].shows IN
    /\ t.sent = total.sent /\ t.received = total.received
    /\ t.expected = IF total.received > 0 THEN udp.expected ELSE total.packets
    /\ t.lost = (IF total.received > 0 THEN Loss(udp).lost ELSE 0)
    /\ kind[p] \in OverUdp => loss[p] = Loss(udp)

\* Detailed results show the totals of inner, and those are as old as the last
\* sync_atomic_counters: no older, nothing else, and nothing made up.  (The
\* client itself never syncs, so the totals in its JSON are 0.)
DetailedWithinSync ==
  \A p \in Procs : printed[p].form = "json" =>
    LET j == printed[p].shows IN
    /\ begin[p].total.sent <= j.sent /\ j.sent <= total.sent
    /\ begin[p].total.received <= j.received /\ j.received <= total.received

\* Every call returns: get() holds no lock while it takes the next one, and
\* record_udp_packet_received, which does, meets nobody who takes the same two
\* the other way round.  (Detailed results of UDP do, but a client takes them
\* after its own loop; see README.md for two runs of one Client at once.)
EveryCallReturns == \A p \in Procs : at[p][1] # "start" ~> Over(p)
=============================================================================
