-------------------------- MODULE Datagrams_proofs --------------------------
(***************************************************************************)
(* What becomes of the numbers of the datagrams.                           *)
(*                                                                         *)
(* First the batches they are sent and received in (BatchSockets), for any *)
(* size of a batch, any rate, any room in the sockets, any number of       *)
(* threads and any time a thread is off the processor: every number goes   *)
(* out once and in order, no time stamp is from the future, and the        *)
(* receiver's buffers, used again and again, give it every datagram once   *)
(* and none that is old.                                                   *)
(*                                                                         *)
(* Then the two loss counts made of the numbers that arrive (UdpLoss), for *)
(* any number of packets and any order of their arrival, as long as the    *)
(* sequence numbers do not wrap: the collector's loss is exact for its     *)
(* first test when nothing is duplicated, the one-way account balances in  *)
(* every test, and a one-way receiver misses no loss and reports nothing   *)
(* else but late packets.                                                  *)
(***************************************************************************)
EXTENDS BatchSockets, UdpLoss, SequenceTheorems, FiniteSetTheorems, TLAPS

-----------------------------------------------------------------------------
(* Batches                                                                 *)

(***************************************************************************)
(* Runs of numbers.                                                        *)
(***************************************************************************)

LEMMA NumbersFacts ==
  ASSUME NEW m \in Nat, NEW n \in Nat, m <= n
  PROVE  /\ Numbers(m, n) \in Seq(Nat)
         /\ Len(Numbers(m, n)) = n - m
         /\ \A i \in 1 .. n - m : Numbers(m, n)[i] = m + i - 1
  <1> DEFINE d == n - m
  <1>1. d \in Nat
    OBVIOUS
  <1>2. Numbers(m, n) = [i \in 1 .. d |-> m + i - 1]
    BY DEF Numbers
  <1> HIDE DEF d
  <1>3. Numbers(m, n) \in [1 .. d -> Nat]
    BY <1>1, <1>2
  <1>4. Numbers(m, n) \in Seq(Nat) /\ Len(Numbers(m, n)) = d
    BY <1>1, <1>3
  <1>5. \A i \in 1 .. d : Numbers(m, n)[i] = m + i - 1
    BY <1>2
  <1> QED BY <1>4, <1>5 DEF d

\* A sequence that has the elements of a run is it.
LEMMA NumbersUnique ==
  ASSUME NEW m \in Nat, NEW n \in Nat, m <= n, NEW s \in Seq(Nat),
         Len(s) = n - m, \A i \in 1 .. n - m : s[i] = m + i - 1
  PROVE  s = Numbers(m, n)
  <1>1. Len(s) = Len(Numbers(m, n)) /\ \A i \in 1 .. Len(s) : s[i] = Numbers(m, n)[i]
    BY NumbersFacts
  <1> QED BY <1>1, NumbersFacts, SeqEqual

\* The next number continues a run.
LEMMA NumbersMore ==
  ASSUME NEW m \in Nat, NEW n \in Nat, m <= n
  PROVE  Append(Numbers(m, n), n) = Numbers(m, n + 1)
  <1> DEFINE s == Numbers(m, n)
             t == Append(s, n)
  <1>1. s \in Seq(Nat) /\ Len(s) = n - m /\ \A i \in 1 .. n - m : s[i] = m + i - 1
    BY NumbersFacts
  <1> HIDE DEF s
  <1>2. /\ t \in Seq(Nat) /\ Len(t) = Len(s) + 1
        /\ \A i \in 1 .. Len(s) : t[i] = s[i]
        /\ t[Len(s) + 1] = n
    BY <1>1
  <1> HIDE DEF t
  <1>3. Len(t) = (n + 1) - m
    BY <1>1, <1>2
  <1>4. ASSUME NEW i \in 1 .. (n + 1) - m PROVE t[i] = m + i - 1
    <2>1. CASE i = (n - m) + 1
      <3>1. t[i] = n
        BY <1>1, <1>2, <2>1
      <3>2. n = m + i - 1
        BY ONLY <2>1, m \in Nat, n \in Nat
      <3> QED BY <3>1, <3>2
    <2>2. CASE i # (n - m) + 1
      <3>1. i \in 1 .. n - m
        BY ONLY <2>2, i \in 1 .. (n + 1) - m, m \in Nat, n \in Nat
      <3>2. i \in 1 .. Len(s)
        BY <1>1, <3>1
      <3>3. t[i] = s[i]
        BY <1>2, <3>2
      <3>4. s[i] = m + i - 1
        BY <1>1, <3>1
      <3> QED BY ONLY <3>3, <3>4
    <2> QED BY ONLY <2>1, <2>2
  <1>5. t = Numbers(m, n + 1)
    <2> DEFINE k == n + 1
    <2>1. k \in Nat /\ m <= k
      OBVIOUS
    <2>2. Len(t) = k - m /\ \A i \in 1 .. k - m : t[i] = m + i - 1
      BY <1>3, <1>4
    <2> HIDE DEF k
    <2>3. t = Numbers(m, k)
      BY <1>2, <2>1, <2>2, NumbersUnique
    <2> QED BY <2>3 DEF k
  <1> QED BY <1>5 DEF t, s

\* A run taken apart, and put behind the one before it.
LEMMA NumbersFirst ==
  ASSUME NEW m \in Nat, NEW n \in Nat, m <= n, NEW k \in 0 .. n - m
  PROVE  SubSeq(Numbers(m, n), 1, k) = Numbers(m, m + k)
  <1> DEFINE s == Numbers(m, n)
             t == SubSeq(s, 1, k)
  <1>1. s \in Seq(Nat) /\ Len(s) = n - m /\ \A i \in 1 .. n - m : s[i] = m + i - 1
    BY NumbersFacts
  <1> HIDE DEF s
  <1>2. \A i \in 1 .. k : s[i] \in Nat /\ s[i] = m + i - 1
    BY <1>1
  <1>3. /\ t \in Seq(Nat) /\ Len(t) = (IF 1 <= k THEN k - 1 + 1 ELSE 0)
        /\ \A i \in 1 .. k - 1 + 1 : t[i] = s[1 + i - 1]
    <2>1. 1 \in Int /\ k \in Int /\ \A i \in 1 .. k : s[i] \in Nat
      BY <1>2
    <2> QED BY <2>1, SubSeqProperties
  <1> HIDE DEF t
  <1>4. Len(t) = (m + k) - m /\ \A i \in 1 .. (m + k) - m : t[i] = m + i - 1
    BY <1>2, <1>3
  <1>5. t = Numbers(m, m + k)
    <2>1. m + k \in Nat /\ m <= m + k /\ t \in Seq(Nat)
      BY <1>3
    <2> QED BY <1>4, <2>1, NumbersUnique
  <1> QED BY <1>5 DEF t, s

LEMMA NumbersRest ==
  ASSUME NEW m \in Nat, NEW n \in Nat, m <= n, NEW k \in 0 .. n - m
  PROVE  SubSeq(Numbers(m, n), k + 1, Len(Numbers(m, n))) = Numbers(m + k, n)
  <1> DEFINE s == Numbers(m, n)
             t == SubSeq(s, k + 1, Len(s))
  <1>1. s \in Seq(Nat) /\ Len(s) = n - m /\ \A i \in 1 .. n - m : s[i] = m + i - 1
    BY NumbersFacts
  <1> HIDE DEF s
  <1>2. \A i \in k + 1 .. Len(s) : s[i] \in Nat /\ s[i] = m + i - 1
    BY <1>1
  <1>3. Len(s) \in Int /\ k + 1 \in Int
    BY <1>1
  <1>4. /\ t \in Seq(Nat) /\ Len(t) = (IF k + 1 <= Len(s) THEN Len(s) - (k + 1) + 1 ELSE 0)
        /\ \A i \in 1 .. Len(s) - (k + 1) + 1 : t[i] = s[(k + 1) + i - 1]
    BY <1>2, <1>3, SubSeqProperties
  <1> HIDE DEF t
  <1>5. Len(t) = n - (m + k)
    BY <1>1, <1>4
  <1>6. ASSUME NEW i \in 1 .. n - (m + k) PROVE t[i] = (m + k) + i - 1
    <2>1. i \in 1 .. Len(s) - (k + 1) + 1 /\ (k + 1) + i - 1 \in k + 1 .. Len(s)
      BY <1>1
    <2>2. t[i] = s[(k + 1) + i - 1]
      BY <1>4, <2>1
    <2>3. s[(k + 1) + i - 1] = m + ((k + 1) + i - 1) - 1
      BY <1>2, <2>1
    <2> QED BY <2>2, <2>3
  <1>7. t = Numbers(m + k, n)
    BY <1>4, <1>5, <1>6, NumbersUnique
  <1> QED BY <1>7 DEF t, s

LEMMA NumbersJoin ==
  ASSUME NEW m \in Nat, NEW k \in Nat
  PROVE  Numbers(0, m) \o Numbers(m, m + k) = Numbers(0, m + k)
  <1> DEFINE s == Numbers(0, m)
             r == Numbers(m, m + k)
             t == s \o r
  <1>1. s \in Seq(Nat) /\ Len(s) = m /\ \A i \in 1 .. m : s[i] = i - 1
    <2>1. /\ s \in Seq(Nat) /\ Len(s) = m - 0
          /\ \A i \in 1 .. m - 0 : s[i] = 0 + i - 1
      BY NumbersFacts
    <2> HIDE DEF s
    <2> QED BY <2>1
  <1>2. r \in Seq(Nat) /\ Len(r) = k /\ \A i \in 1 .. k : r[i] = m + i - 1
    <2>1. /\ r \in Seq(Nat) /\ Len(r) = (m + k) - m
          /\ \A i \in 1 .. (m + k) - m : r[i] = m + i - 1
      <3>1. m + k \in Nat /\ m <= m + k
        OBVIOUS
      <3> QED BY <3>1, NumbersFacts
    <2> HIDE DEF r
    <2> QED BY <2>1
  <1> HIDE DEF s, r
  <1>3. /\ t \in Seq(Nat) /\ Len(t) = Len(s) + Len(r)
        /\ \A i \in 1 .. Len(s) + Len(r) : t[i] = IF i <= Len(s) THEN s[i] ELSE r[i - Len(s)]
    BY <1>1, <1>2, ConcatProperties
  <1> HIDE DEF t
  <1>4. ASSUME NEW i \in 1 .. (m + k) - 0 PROVE t[i] = 0 + i - 1
    <2>1. CASE i <= m
      BY <1>1, <1>2, <1>3, <2>1
    <2>2. CASE ~(i <= m)
      <3>1. i - m \in 1 .. k
        BY <2>2
      <3>2. t[i] = r[i - m]
        BY <1>1, <1>2, <1>3, <2>2
      <3> QED BY <1>2, <3>1, <3>2
    <2> QED BY <2>1, <2>2
  <1>5. t = Numbers(0, m + k)
    <2> DEFINE n == m + k
    <2>1. n \in Nat /\ 0 \in Nat /\ 0 <= n /\ t \in Seq(Nat) /\ Len(t) = n - 0
      BY <1>1, <1>2, <1>3
    <2>2. \A i \in 1 .. n - 0 : t[i] = 0 + i - 1
      BY <1>4
    <2> HIDE DEF n
    <2>3. t = Numbers(0, n)
      BY ONLY <2>1, <2>2, NumbersUnique
    <2> QED BY <2>3 DEF n
  <1> QED BY <1>5 DEF t, s, r

(***************************************************************************)
(* Time stamps.                                                            *)
(***************************************************************************)

\* What integer division promises.
LEMMA DivFacts ==
  ASSUME NEW a \in Nat, NEW b \in Nat \ {0}
  PROVE  /\ a \div b \in Nat
         /\ (a \div b) * b <= a
         /\ a < (a \div b) * b + b
  OBVIOUS

LEMMA Distributes == ASSUME NEW a \in Nat, NEW b \in Nat, NEW c \in Nat
                     PROVE  (a + b) * c = a * c + b * c /\ a * c \in Nat
  OBVIOUS

\* A clock w was read at a time a, and its reading is used at a later time: as
\* it is, or with the microseconds that passed since b, which is after a.
LEMMA StampIsClose ==
  ASSUME NEW w \in Nat, NEW a \in Nat, w * Micro <= a, a < w * Micro + Micro,
         NEW b \in Nat, NEW t \in Nat, a <= b, b <= t
  PROVE  LET e == (t - b) \div Micro
         IN  /\ e \in Nat
             /\ 0 <= t - (w + e) * Micro
             /\ t - (w + e) * Micro <= (b - a) + 2 * Micro
  <1> DEFINE e == (t - b) \div Micro
  <1>1. Micro \in Nat \ {0} /\ t - b \in Nat
    BY SizesAssumption
  <1>2. e \in Nat /\ e * Micro <= t - b /\ t - b < e * Micro + Micro
    BY <1>1, DivFacts
  <1> HIDE DEF e
  <1>3. (w + e) * Micro = w * Micro + e * Micro /\ w * Micro \in Nat /\ e * Micro \in Nat
    BY <1>1, <1>2, Distributes
  <1>4. 0 <= t - (w * Micro + e * Micro)
    BY <1>1, <1>2, <1>3
  <1>5. t - (w * Micro + e * Micro) <= (b - a) + 2 * Micro
    BY <1>1, <1>2, <1>3
  <1> QED BY <1>2, <1>3, <1>4, <1>5 DEF e

(***************************************************************************)
(* The invariant.                                                          *)
(***************************************************************************)

\* A reading of the clock, made at a time a.
TrueAt(w, a) == w * Micro <= a /\ a < w * Micro + Micro

\* Readings are as old as they say, and a refresh has room in the batch.
StampInv ==
  /\ \A t \in Threads : cache[t] # None =>
       /\ cache[t].gap <= cache[t].at /\ cache[t].at <= now
       /\ TrueAt(cache[t].stamp, cache[t].at - cache[t].gap)
  /\ pc = "refresh" => /\ reading \in [wall : Nat, at : Nat]
                       /\ TrueAt(reading.wall, reading.at) /\ reading.at <= now
                       /\ ~IsFull(batch)

NumberInv == counted <= sequence /\ EachNumberOnce

Inv == TypeOK /\ StampInv /\ NumberInv

LEMMA Constants == {MaxBatch, LeastBatch, Micro, CacheFor, Room} \subseteq Nat \ {0}
                     /\ Junk \notin Nat /\ None \notin Nat
  BY SizesAssumption, RatesAssumption

\* The clock now.
LEMMA WallIsTrue == ASSUME TypeOK PROVE Wall \in Nat /\ TrueAt(Wall, now)
  BY DivFacts, Constants DEF Wall, TrueAt, TypeOK

LEMMA InitInv == Init => Inv
  <1> SUFFICES ASSUME Init PROVE Inv
    OBVIOUS
  <1>1. <<>> \in Seq(Nat) /\ <<>> \in Seq(Datagrams) /\ Len(<<>>) = 0
    OBVIOUS
  <1>2. slots \in [1 .. MaxBatch -> Datagrams] /\ count \in 0 .. MaxBatch
    BY Constants DEF Init, Datagrams
  <1>3. TypeOK
    <2>1. cache \in [Threads -> {None} \cup [stamp : Nat, at : Nat, gap : Nat]]
      BY DEF Init
    <2>2. now \in Nat /\ sequence \in Nat /\ lag \in Int /\ counted \in Nat
      BY DEF Init
    <2>3. batch \in Seq(Nat) /\ taken \in Seq(Nat) /\ queue \in Seq(Datagrams)
            /\ got \in Seq(Datagrams) /\ recorded \in Seq(Nat \cup {None})
      BY <1>1 DEF Init
    <2>4. /\ rate \in Rates /\ on \in Threads
          /\ reading \in {None} \cup [wall : Nat, at : Nat]
          /\ pc = "loop" /\ rpc = "loop" /\ ready = FALSE
      BY DEF Init
    <2> QED BY <1>2, <2>1, <2>2, <2>3, <2>4 DEF TypeOK
  <1>4. Numbers(0, 0) = <<>>
    <2>1. 0 \in Nat /\ 0 <= 0
      OBVIOUS
    <2>2. Numbers(0, 0) \in Seq(Nat) /\ Len(Numbers(0, 0)) = 0 - 0
      BY <2>1, NumbersFacts
    <2>3. Numbers(0, 0) # <<>> => Len(Numbers(0, 0)) \in Nat \ {0}
      BY <2>2, EmptySeq
    <2> QED BY <2>2, <2>3
  <1>5. StampInv /\ NumberInv
    BY <1>4 DEF Init, StampInv, NumberInv, EachNumberOnce
  <1> QED BY <1>3, <1>5 DEF Inv

\* A packet is made with a stamp that is right.
LEMMA MakeKeeps ==
  ASSUME Inv, ~IsFull(batch), NEW s \in Nat, MakePacket(s)
  PROVE  /\ batch' \in Seq(Nat) /\ sequence' \in Nat /\ lag' \in Int
         /\ NumberInv'
         /\ lag' = now - s * Micro
         /\ UNCHANGED <<rate, on, counted, taken, now, queue, ready,
                        rpc, slots, count, got, recorded>>
  <1>1. batch' = Append(batch, sequence) /\ sequence' = sequence + 1 /\ lag' = now - s * Micro
    BY DEF MakePacket, Add
  <1>2. batch \in Seq(Nat) /\ sequence \in Nat /\ counted \in Nat /\ now \in Nat
    BY DEF Inv, TypeOK
  <1>3. s * Micro \in Nat
    BY Constants, Distributes
  <1>4. UNCHANGED <<rate, on, counted, taken, now, queue, ready,
                    rpc, slots, count, got, recorded>>
    BY DEF MakePacket, elsewhere, receiver
  <1>5. batch' = Numbers(counted, sequence + 1)
    BY <1>1, <1>2, NumbersMore DEF Inv, NumberInv, EachNumberOnce
  <1>6. NumberInv'
    BY <1>1, <1>2, <1>4, <1>5 DEF Inv, NumberInv, EachNumberOnce
  <1>7. batch' \in Seq(Nat) /\ sequence' \in Nat /\ lag' \in Int
    BY <1>1, <1>2, <1>3
  <1> QED BY <1>1, <1>4, <1>6, <1>7

\* What a step that makes no packet and sends none may change.
LEMMA StillKeeps ==
  ASSUME Inv, UNCHANGED <<rate, cache, batch, sequence, lag, counted, taken, reading>>,
         now' \in Nat, now <= now',
         pc' \in {"loop", "fill", "send", "pace", "over"} \/ pc' = pc,
         on' \in Threads, queue' \in Seq(Datagrams), ready' \in BOOLEAN,
         rpc' \in {"loop", "try", "wait", "again", "process", "over"},
         slots' \in [1 .. MaxBatch -> Datagrams], count' \in 0 .. MaxBatch,
         got' \in Seq(Datagrams), recorded' \in Seq(Nat \cup {None})
  PROVE  Inv'
  <1>1. TypeOK'
    BY DEF Inv, TypeOK
  <1>2. NumberInv'
    BY DEF Inv, NumberInv, EachNumberOnce
  <1>3. StampInv'
    <2>2. ASSUME NEW t \in Threads, cache[t] # None
          PROVE  /\ cache[t].gap <= cache[t].at /\ cache[t].at <= now'
                 /\ TrueAt(cache[t].stamp, cache[t].at - cache[t].gap)
      <3> DEFINE c == cache[t]
      <3>1. c.at \in Nat /\ now \in Nat
        BY <2>2 DEF Inv, TypeOK
      <3>2. /\ c.gap <= c.at /\ c.at <= now
            /\ TrueAt(c.stamp, c.at - c.gap)
        BY <2>2 DEF Inv, StampInv
      <3> HIDE DEF c
      <3>3. c.at <= now'
        BY <3>1, <3>2
      <3> QED BY <3>2, <3>3 DEF c
    <2>3. pc' = "refresh" => /\ reading' \in [wall : Nat, at : Nat]
                             /\ TrueAt(reading'.wall, reading'.at) /\ reading'.at <= now'
                             /\ ~IsFull(batch')
      <3> SUFFICES ASSUME pc' = "refresh"
                   PROVE  /\ reading \in [wall : Nat, at : Nat]
                          /\ TrueAt(reading.wall, reading.at) /\ reading.at <= now'
                          /\ ~IsFull(batch)
        OBVIOUS
      <3>1. /\ reading \in [wall : Nat, at : Nat]
            /\ TrueAt(reading.wall, reading.at) /\ reading.at <= now
            /\ ~IsFull(batch)
        BY DEF Inv, StampInv
      <3>2. reading.at \in Nat /\ now \in Nat
        BY <3>1 DEF Inv, TypeOK
      <3> QED BY <3>1, <3>2
    <2> QED BY <2>2, <2>3 DEF StampInv, TrueAt
  <1> QED BY <1>1, <1>2, <1>3 DEF Inv

\* A packet out of the cache.
LEMMA FillKeeps ==
  ASSUME Inv, Fill
  PROVE  Inv' /\ (sequence' # sequence => 0 <= lag' /\ lag' <= cache'[on].gap + 2 * Micro)
  <1>1. ~IsFull(batch) /\ pc = "fill"
    BY DEF Fill, FillsOn
  <1>2. CASE IsFresh(cache[on])
    <2>1. MakePacket(Estimate(cache[on])) /\ UNCHANGED <<cache, reading, pc>>
      BY <1>2 DEF Fill
    <2> DEFINE c == cache[on]
    <2>2. c # None /\ c \in [stamp : Nat, at : Nat, gap : Nat]
      BY <1>2 DEF IsFresh, Inv, TypeOK
    <2>3. /\ c.stamp \in Nat /\ c.at \in Nat /\ c.gap \in Nat /\ now \in Nat
          /\ c.gap <= c.at /\ c.at <= now /\ TrueAt(c.stamp, c.at - c.gap)
      BY <2>2 DEF Inv, StampInv, TypeOK
    <2> DEFINE a == c.at - c.gap
               e == (now - c.at) \div Micro
    <2> HIDE DEF c
    <2>4. a \in Nat /\ a <= c.at
      BY <2>3
    <2>5. /\ e \in Nat
          /\ 0 <= now - (c.stamp + e) * Micro
          /\ now - (c.stamp + e) * Micro <= (c.at - a) + 2 * Micro
      BY <2>3, <2>4, StampIsClose DEF TrueAt
    <2>6. Estimate(c) = c.stamp + e
      BY DEF Estimate, Elapsed
    <2>7. Estimate(c) \in Nat
      BY <2>3, <2>5, <2>6
    <2>8. /\ batch' \in Seq(Nat) /\ sequence' \in Nat /\ lag' \in Int
          /\ NumberInv'
          /\ lag' = now - Estimate(c) * Micro
          /\ UNCHANGED <<rate, on, counted, taken, now, queue, ready,
                         rpc, slots, count, got, recorded>>
      BY <1>1, <2>1, <2>7, MakeKeeps DEF c
    <2>9. 0 <= lag' /\ lag' <= c.gap + 2 * Micro
      <3>1. c.at - a = c.gap
        BY <2>3
      <3> QED BY <2>5, <2>6, <2>8, <3>1
    <2>10. TypeOK' /\ StampInv'
      BY <1>1, <2>1, <2>8 DEF Inv, TypeOK, StampInv, TrueAt
    <2> QED BY <2>1, <2>8, <2>9, <2>10 DEF Inv, c
  <1>3. CASE ~IsFresh(cache[on])
    <2>1. /\ reading' = [wall |-> Wall, at |-> now] /\ pc' = "refresh"
          /\ UNCHANGED <<cache, on, rate, batch, sequence, lag, counted, taken>>
          /\ UNCHANGED <<now, queue, ready, rpc, slots, count, got, recorded>>
      BY <1>3 DEF Fill, elsewhere, receiver
    <2>2. Wall \in Nat /\ TrueAt(Wall, now) /\ now \in Nat
      BY WallIsTrue DEF Inv, TypeOK
    <2>3. /\ reading' \in [wall : Nat, at : Nat]
          /\ TrueAt(reading'.wall, reading'.at) /\ reading'.at <= now'
      BY <2>1, <2>2
    <2>4. TypeOK'
      BY <2>1, <2>3 DEF Inv, TypeOK
    <2>5. StampInv'
      BY <1>1, <2>1, <2>3 DEF Inv, StampInv, TrueAt, IsFull
    <2>6. NumberInv'
      BY <2>1 DEF Inv, NumberInv, EachNumberOnce
    <2> QED BY <2>1, <2>4, <2>5, <2>6 DEF Inv
  <1> QED BY <1>2, <1>3

\* A refresh: the cache gets the reading; a packet is made with it unless the
\* cache was new.
LEMMA RefreshKeeps ==
  ASSUME Inv, Refresh
  PROVE  Inv' /\ (sequence' # sequence => 0 <= lag' /\ lag' <= cache'[on].gap + 2 * Micro)
  <1> DEFINE w == reading.wall
             a == reading.at
             new == [stamp |-> w, at |-> now, gap |-> now - a]
  <1>1. /\ pc' = "fill" /\ cache' = [cache EXCEPT ![on] = new] /\ reading' = None
        /\ ~IsFull(batch)
    BY DEF Refresh, Inv, StampInv
  <1>2. w \in Nat /\ a \in Nat /\ now \in Nat /\ a <= now /\ TrueAt(w, a)
    BY DEF Refresh, Inv, StampInv, TypeOK
  <1> HIDE DEF w, a
  <1>3. /\ new \in [stamp : Nat, at : Nat, gap : Nat]
        /\ new.gap <= new.at /\ new.at <= now /\ new.at - new.gap = a
    BY <1>2
  <1>4. /\ cache' \in [Threads -> {None} \cup [stamp : Nat, at : Nat, gap : Nat]]
        /\ cache'[on] = new /\ on \in Threads
        /\ \A t \in Threads : t # on => cache'[t] = cache[t]
    BY <1>1, <1>3 DEF Inv, TypeOK
  <1>5. \A t \in Threads : cache'[t] # None =>
          /\ cache'[t].gap <= cache'[t].at /\ cache'[t].at <= now
          /\ TrueAt(cache'[t].stamp, cache'[t].at - cache'[t].gap)
    <2>1. new.stamp = w /\ TrueAt(new.stamp, new.at - new.gap)
      BY <1>2, <1>3
    <2> HIDE DEF new
    <2> QED BY <1>3, <1>4, <2>1 DEF Inv, StampInv
  <1>6. CASE UNCHANGED <<rate, on, batch, sequence, lag, counted, taken, elsewhere>>
    <2>1. UNCHANGED <<rate, on, batch, sequence, lag, counted, taken,
                      now, queue, ready, rpc, slots, count, got, recorded>>
      BY <1>6 DEF elsewhere, receiver
    <2>2. TypeOK'
      BY <1>1, <1>4, <2>1 DEF Inv, TypeOK
    <2>3. StampInv'
      BY <1>1, <1>5, <2>1 DEF StampInv, TrueAt
    <2>4. NumberInv'
      BY <2>1 DEF Inv, NumberInv, EachNumberOnce
    <2> QED BY <2>1, <2>2, <2>3, <2>4 DEF Inv
  <1>7. CASE MakePacket(w)
    <2>1. /\ batch' \in Seq(Nat) /\ sequence' \in Nat /\ lag' \in Int
          /\ NumberInv'
          /\ lag' = now - w * Micro
          /\ UNCHANGED <<rate, on, counted, taken, now, queue, ready,
                         rpc, slots, count, got, recorded>>
      BY <1>1, <1>2, <1>7, MakeKeeps
    <2>2. TypeOK'
      BY <1>1, <1>4, <2>1 DEF Inv, TypeOK
    <2>3. StampInv'
      BY <1>1, <1>5, <2>1 DEF StampInv, TrueAt
    <2>4. 0 <= lag' /\ lag' <= cache'[on].gap + 2 * Micro
      <3> DEFINE ns  == w * Micro
                 gap == cache'[on].gap
      <3>1. ns \in Nat /\ Micro \in Nat /\ ns <= a /\ a < ns + Micro
        BY <1>2, Constants, Distributes DEF TrueAt
      <3>2. gap = now - a /\ lag' = now - ns
        BY <1>4, <2>1
      <3>3. a \in Nat /\ now \in Nat /\ a <= now
        BY <1>2
      <3> HIDE DEF ns, gap
      <3>4. 0 <= lag' /\ lag' <= gap + 2 * Micro
        BY ONLY <3>1, <3>2, <3>3
      <3> QED BY <3>4 DEF gap
    <2> QED BY <2>1, <2>2, <2>3, <2>4 DEF Inv
  <1> QED BY <1>6, <1>7 DEF Refresh, w

\* Whatever part of a batch is taken.
LEMMA SendBatchKeeps == ASSUME Inv, SendBatch PROVE Inv'
  <1>1. PICK n \in 0 .. Least(Len(batch), Room - Len(queue)) :
          /\ taken' = taken \o SubSeq(batch, 1, n)
          /\ queue' = queue \o SubSeq(batch, 1, n)
          /\ ready' = (ready \/ n > 0)
          /\ batch' = Drained(batch, n)
          /\ counted' = counted + n
    BY DEF SendBatch
  <1>2. /\ counted \in Nat /\ sequence \in Nat /\ counted <= sequence
        /\ batch = Numbers(counted, sequence) /\ taken = Numbers(0, counted)
        /\ queue \in Seq(Datagrams) /\ taken \in Seq(Nat)
    BY DEF Inv, TypeOK, NumberInv, EachNumberOnce
  <1>3. Len(batch) = sequence - counted
    BY <1>2, NumbersFacts
  <1>4. n \in 0 .. sequence - counted
    <2>1. Room \in Nat /\ Len(queue) \in Nat
      BY <1>2, Constants
    <2> QED BY <1>1, <1>2, <1>3, <2>1 DEF Least
  <1>5. counted + n \in Nat /\ counted + n <= sequence
    BY <1>2, <1>4
  <1>6. SubSeq(batch, 1, n) = Numbers(counted, counted + n)
    BY <1>2, <1>4, NumbersFirst
  <1>7. batch' = Numbers(counted + n, sequence)
    BY <1>1, <1>2, <1>4, NumbersRest DEF Drained
  <1>8. taken' = Numbers(0, counted + n)
    <2>1. n \in Nat
      BY <1>4
    <2> QED BY <1>1, <1>2, <1>6, <2>1, NumbersJoin
  <1>9. NumberInv'
    <2>1. UNCHANGED sequence
      BY DEF SendBatch
    <2> QED BY <1>1, <1>5, <1>7, <1>8, <2>1 DEF NumberInv, EachNumberOnce
  <1>10. batch' \in Seq(Nat) /\ taken' \in Seq(Nat) /\ queue' \in Seq(Datagrams)
    <2>1. batch' \in Seq(Nat)
      BY <1>2, <1>5, <1>7, NumbersFacts
    <2>2. taken' \in Seq(Nat)
      <3>1. 0 \in Nat /\ 0 <= counted + n
        BY <1>5
      <3> QED BY <1>5, <1>8, <3>1, NumbersFacts
    <2>3. SubSeq(batch, 1, n) \in Seq(Nat)
      <3>1. counted <= counted + n
        BY <1>2, <1>4
      <3> QED BY <1>2, <1>5, <1>6, <3>1, NumbersFacts
    <2>4. SubSeq(batch, 1, n) \in Seq(Datagrams)
      BY <2>3, SeqMonotonic DEF Datagrams
    <2>5. queue' \in Seq(Datagrams)
      BY <1>1, <1>2, <2>4, ConcatProperties
    <2> QED BY <2>1, <2>2, <2>5
  <1>11. /\ pc' = "pace" /\ ready' \in BOOLEAN /\ counted' \in Nat
         /\ UNCHANGED <<now, rate, cache, on, reading, sequence, lag,
                        rpc, slots, count, got, recorded>>
    <2>1. ready' \in BOOLEAN
      BY <1>1
    <2> QED BY <1>1, <1>5, <2>1 DEF SendBatch, receiver
  <1>12. TypeOK'
    BY <1>10, <1>11 DEF Inv, TypeOK
  <1>13. StampInv'
    BY <1>11 DEF Inv, StampInv, TrueAt
  <1> QED BY <1>9, <1>12, <1>13 DEF Inv

\* The other steps of the sender, and the world.
LEMMA QuietKeeps ==
  ASSUME Inv, SenderLoops \/ EndFill \/ SendFails \/ Pace \/ Tick \/ JunkArrives
  PROVE  Inv'
  <1> USE DEF elsewhere, receiver, sender, atSender
  <1>1. TypeOK
    BY DEF Inv
  <1>2. CASE SenderLoops \/ EndFill \/ SendFails \/ Pace
    <2>1. pc' \in {"loop", "fill", "send", "pace", "over"} /\ on' \in Threads
      BY <1>1, <1>2 DEF SenderLoops, EndFill, SendFails, Pace, TypeOK
    <2>2. UNCHANGED <<rate, cache, batch, sequence, lag, counted, taken, reading,
                      now, queue, ready, rpc, slots, count, got, recorded>>
      BY <1>2 DEF SenderLoops, EndFill, SendFails, Pace
    <2>3. now' \in Nat /\ now <= now'
      BY <1>1, <2>2 DEF TypeOK
    <2> QED BY <1>1, <2>1, <2>2, <2>3, StillKeeps DEF TypeOK
  <1>3. CASE Tick
    <2>1. UNCHANGED <<rate, cache, on, pc, batch, sequence, lag, counted, taken, reading,
                      queue, ready, rpc, slots, count, got, recorded>>
      BY <1>3 DEF Tick
    <2>2. now' \in Nat /\ now <= now'
      BY <1>1, <1>3 DEF Tick, TypeOK
    <2> QED BY <1>1, <2>1, <2>2, StillKeeps DEF TypeOK
  <1>4. CASE JunkArrives
    <2>1. UNCHANGED <<now, rate, cache, on, pc, batch, sequence, lag, counted, taken, reading,
                      rpc, slots, count, got, recorded>>
      BY <1>4 DEF JunkArrives
    <2>2. queue' \in Seq(Datagrams) /\ ready' \in BOOLEAN
      BY <1>1, <1>4 DEF JunkArrives, TypeOK, Datagrams
    <2>3. now' \in Nat /\ now <= now'
      BY <1>1, <2>1 DEF TypeOK
    <2> QED BY <1>1, <2>1, <2>2, <2>3, StillKeeps DEF TypeOK
  <1> QED BY <1>2, <1>3, <1>4

-----------------------------------------------------------------------------
(* What a receiver records of the datagrams it is given                    *)

LEMMA RecordOfFacts ==
  ASSUME NEW s \in Seq(Datagrams)
  PROVE  /\ RecordOf(s) \in Seq(Nat \cup {None})
         /\ Len(RecordOf(s)) = Len(s)
         /\ \A i \in 1 .. Len(s) : RecordOf(s)[i] = IF s[i] \in Nat THEN s[i] ELSE None
  <1> DEFINE n == Len(s)
             R == [i \in 1 .. n |-> IF s[i] \in Nat THEN s[i] ELSE None]
  <1>1. n \in Nat
    OBVIOUS
  <1>2. RecordOf(s) = R
    BY DEF RecordOf
  <1> HIDE DEF n
  <1>3. R \in [1 .. n -> Nat \cup {None}]
    OBVIOUS
  <1>4. R \in Seq(Nat \cup {None}) /\ Len(R) = n
    BY <1>1, <1>3
  <1>5. \A i \in 1 .. n : R[i] = IF s[i] \in Nat THEN s[i] ELSE None
    OBVIOUS
  <1> HIDE DEF R
  <1> QED BY <1>2, <1>4, <1>5 DEF n

\* Two runs of datagrams are recorded one after the other.
LEMMA RecordOfConcat ==
  ASSUME NEW s \in Seq(Datagrams), NEW t \in Seq(Datagrams)
  PROVE  RecordOf(s \o t) = RecordOf(s) \o RecordOf(t)
  <1> DEFINE u == s \o t
             a == RecordOf(s)
             b == RecordOf(t)
             c == RecordOf(u)
  <1>1. /\ u \in Seq(Datagrams) /\ Len(u) = Len(s) + Len(t)
        /\ \A i \in 1 .. Len(s) + Len(t) : u[i] = IF i <= Len(s) THEN s[i] ELSE t[i - Len(s)]
    BY ConcatProperties
  <1>2. /\ a \in Seq(Nat \cup {None}) /\ Len(a) = Len(s)
        /\ \A i \in 1 .. Len(s) : a[i] = IF s[i] \in Nat THEN s[i] ELSE None
    BY RecordOfFacts
  <1>3. /\ b \in Seq(Nat \cup {None}) /\ Len(b) = Len(t)
        /\ \A i \in 1 .. Len(t) : b[i] = IF t[i] \in Nat THEN t[i] ELSE None
    BY RecordOfFacts
  <1>4. /\ c \in Seq(Nat \cup {None}) /\ Len(c) = Len(u)
        /\ \A i \in 1 .. Len(u) : c[i] = IF u[i] \in Nat THEN u[i] ELSE None
    BY <1>1, RecordOfFacts
  <1> HIDE DEF u, a, b, c
  <1>5. /\ a \o b \in Seq(Nat \cup {None}) /\ Len(a \o b) = Len(a) + Len(b)
        /\ \A i \in 1 .. Len(a) + Len(b) : (a \o b)[i] = IF i <= Len(a) THEN a[i] ELSE b[i - Len(a)]
    <2>1. a \in Seq(Nat \cup {None}) /\ b \in Seq(Nat \cup {None})
      BY <1>2, <1>3
    <2> HIDE <1>1, <1>2, <1>3, <1>4
    <2> QED BY <2>1, ConcatProperties
  <1>6. Len(s) \in Nat /\ Len(t) \in Nat
    OBVIOUS
  <1>7. ASSUME NEW i \in 1 .. Len(c) PROVE c[i] = (a \o b)[i]
    <2>1. i \in 1 .. Len(s) + Len(t) /\ i \in 1 .. Len(u) /\ i \in 1 .. Len(a) + Len(b)
      BY <1>1, <1>2, <1>3, <1>4, <1>6
    <2>2. CASE i <= Len(s)
      <3>1. i \in 1 .. Len(s)
        BY <2>1, <2>2, <1>6
      <3> QED BY <1>1, <1>2, <1>4, <1>5, <2>1, <2>2, <3>1
    <2>3. CASE ~(i <= Len(s))
      <3>1. i - Len(s) \in 1 .. Len(t)
        BY <2>1, <2>3, <1>6
      <3> QED BY <1>1, <1>2, <1>3, <1>4, <1>5, <2>1, <2>3, <3>1
    <2> QED BY <2>2, <2>3
  <1>8. Len(c) = Len(a \o b)
    BY <1>1, <1>2, <1>3, <1>4, <1>5
  <1>9. c = a \o b
    BY <1>4, <1>5, <1>7, <1>8, SeqEqual
  <1> QED BY <1>9 DEF u, a, b, c

\* The valid buffers are a run of datagrams.
LEMMA ValidFacts ==
  ASSUME NEW s \in [1 .. MaxBatch -> Datagrams], NEW n \in 0 .. MaxBatch
  PROVE  /\ Valid(s, n) \in Seq(Datagrams) /\ Len(Valid(s, n)) = n
         /\ \A i \in 1 .. n : Valid(s, n)[i] = s[i]
  <1>1. MaxBatch \in Nat
    BY Constants
  <1>2. s \in Seq(Datagrams) /\ Len(s) = MaxBatch
    BY <1>1
  <1>3. n \in Nat /\ n <= Len(s) /\ \A i \in 1 .. n : s[i] \in Datagrams
    BY <1>1, <1>2
  <1> QED BY <1>2, <1>3, SubSeqProperties DEF Valid

LEMMA ReceivesTyped ==
  ASSUME TypeOK, Receives
  PROVE  /\ queue' \in Seq(Datagrams) /\ got' \in Seq(Datagrams)
         /\ slots' \in [1 .. MaxBatch -> Datagrams] /\ count' \in 0 .. MaxBatch
  <1>1. PICK n \in 1 .. Least(MaxBatch, Len(queue)) :
          /\ slots' = [i \in 1 .. MaxBatch |-> IF i <= n THEN queue[i] ELSE slots[i]]
          /\ count' = n
          /\ got' = got \o SubSeq(queue, 1, n)
          /\ queue' = SubSeq(queue, n + 1, Len(queue))
    BY DEF Receives
  <1>2. /\ queue \in Seq(Datagrams) /\ got \in Seq(Datagrams)
        /\ slots \in [1 .. MaxBatch -> Datagrams]
    BY DEF TypeOK
  <1>3. Len(queue) \in Nat /\ MaxBatch \in Nat
    BY <1>2, Constants
  <1>4. n \in Nat /\ n <= MaxBatch /\ n <= Len(queue) /\ n \in Int
    BY <1>1, <1>3 DEF Least
  <1>5. \A i \in 1 .. Len(queue) : queue[i] \in Datagrams
    BY <1>2
  <1>6. SubSeq(queue, 1, n) \in Seq(Datagrams) /\ SubSeq(queue, n + 1, Len(queue)) \in Seq(Datagrams)
    <2>1. 1 \in Int /\ n \in Int /\ \A i \in 1 .. n : queue[i] \in Datagrams
      BY <1>3, <1>4, <1>5
    <2>2. n + 1 \in Int /\ Len(queue) \in Int
            /\ \A i \in n + 1 .. Len(queue) : queue[i] \in Datagrams
      BY <1>3, <1>4, <1>5
    <2> QED BY <2>1, <2>2, SubSeqProperties
  <1>7. got' \in Seq(Datagrams)
    BY <1>1, <1>2, <1>6, ConcatProperties
  <1>8. \A i \in 1 .. MaxBatch : (IF i <= n THEN queue[i] ELSE slots[i]) \in Datagrams
    BY <1>2, <1>3, <1>4, <1>5
  <1> QED BY <1>1, <1>3, <1>4, <1>6, <1>7, <1>8

LEMMA ProcessTyped ==
  ASSUME TypeOK, Process
  PROVE  recorded' \in Seq(Nat \cup {None})
  <1>1. recorded \in Seq(Nat \cup {None})
    BY DEF TypeOK
  <1>2. RecordOf(Valid(slots, count)) \in Seq(Nat \cup {None})
    BY ValidFacts, RecordOfFacts DEF TypeOK
  <1> QED BY <1>1, <1>2, ConcatProperties DEF Process

LEMMA ReceiverKeeps ==
  ASSUME Inv, ReceiverLoops \/ FirstTry \/ SecondTry \/ Readable \/ Process
  PROVE  Inv'
  <1> USE DEF atSender, sender
  <1>1. TypeOK
    BY DEF Inv
  <1>2. UNCHANGED <<now, rate, cache, on, pc, batch, sequence, lag, counted, taken, reading, ready>>
    BY DEF ReceiverLoops, FirstTry, SecondTry, Readable, Process, Receives, Nothing
  <1>3. rpc' \in {"loop", "try", "wait", "again", "process", "over"}
    BY DEF ReceiverLoops, FirstTry, SecondTry, Readable, Process, Receives, Nothing
  <1>4. /\ queue' \in Seq(Datagrams) /\ got' \in Seq(Datagrams)
        /\ slots' \in [1 .. MaxBatch -> Datagrams] /\ count' \in 0 .. MaxBatch
    <2>1. CASE Receives
      BY <1>1, <2>1, ReceivesTyped
    <2>2. CASE UNCHANGED <<queue, slots, count, got>>
      BY <1>1, <2>2 DEF TypeOK
    <2> QED BY <2>1, <2>2 DEF ReceiverLoops, FirstTry, SecondTry, Readable, Process, Nothing
  <1>6. recorded' \in Seq(Nat \cup {None})
    <2>1. CASE Process
      BY <1>1, <2>1, ProcessTyped
    <2>2. CASE UNCHANGED recorded
      BY <1>1, <2>2 DEF TypeOK
    <2> QED BY <2>1, <2>2 DEF ReceiverLoops, FirstTry, SecondTry, Readable, Receives, Nothing
  <1>5. now' \in Nat /\ now <= now'
    BY <1>1, <1>2 DEF TypeOK
  <1> QED BY <1>1, <1>2, <1>3, <1>4, <1>5, <1>6, StillKeeps DEF TypeOK

LEMMA StepKeeps ==
  ASSUME Inv, [Next]_vars
  PROVE  Inv' /\ (sequence' # sequence => 0 <= lag' /\ lag' <= cache'[on].gap + 2 * Micro)
  <1>1. CASE Fill
    BY <1>1, FillKeeps
  <1>2. CASE Refresh
    BY <1>2, RefreshKeeps
  <1>3. CASE SendBatch
    BY <1>3, SendBatchKeeps DEF SendBatch
  <1>4. CASE SenderLoops \/ EndFill \/ SendFails \/ Pace \/ Tick \/ JunkArrives
    BY <1>4, QuietKeeps
       DEF SenderLoops, EndFill, SendFails, Pace, Tick, JunkArrives, sender, atSender
  <1>5. CASE ReceiverLoops \/ FirstTry \/ SecondTry \/ Readable \/ Process
    BY <1>5, ReceiverKeeps
       DEF ReceiverLoops, FirstTry, SecondTry, Readable, Process, Receives, Nothing,
           sender, atSender
  <1>6. CASE UNCHANGED vars
    BY <1>6 DEF vars, sender, receiver, Inv, TypeOK, StampInv, TrueAt, NumberInv, EachNumberOnce,
                IsFull
  <1> QED BY <1>1, <1>2, <1>3, <1>4, <1>5, <1>6 DEF Next, Finished

-----------------------------------------------------------------------------

LEMMA InvInvariant == Spec => []Inv
  <1>1. Inv /\ [Next]_vars => Inv'
    BY StepKeeps
  <1> QED BY <1>1, InitInv, PTL DEF Spec

\* For any sizes and rates: batch and buffers stay within their capacity, and
\* every place and number is of its type.
THEOREM BatchesTypeCorrect == Spec => []TypeOK
  <1>1. Inv => TypeOK
    BY DEF Inv
  <1> QED BY <1>1, InvInvariant, PTL

\* For any sizes and rates, and whatever sendmmsg takes of each batch: the
\* numbers that were taken are 0, 1, 2, ... as far as was counted, and the
\* batch holds those that come next.
THEOREM EachNumberGoesOnce == Spec => []EachNumberOnce
  <1>1. Inv => EachNumberOnce
    BY DEF Inv, NumberInv
  <1> QED BY <1>1, InvInvariant, PTL

\* For any threads, delays and age of the cache: no packet carries a stamp from
\* the future, nor one older than two microseconds and the delay of a refresh.
THEOREM StampsAreTrue == Spec => StampsTrue
  <1>1. Inv /\ [Next]_vars =>
          [sequence' # sequence => 0 <= lag' /\ lag' <= cache'[on].gap + 2 * Micro]_vars
    BY StepKeeps
  <1> QED BY <1>1, InvInvariant, PTL DEF Spec, StampsTrue

-----------------------------------------------------------------------------
(* Nothing old is taken for new                                            *)

\* Before the first datagram nothing is recorded.
LEMMA InitReceived == Init => ReceivedOnce
  <1> SUFFICES ASSUME Init PROVE ReceivedOnce
    OBVIOUS
  <1>1. got = <<>> /\ recorded = <<>> /\ rpc = "loop"
    BY DEF Init
  <1>2. <<>> \in Seq(Datagrams) /\ Len(<<>>) = 0
    OBVIOUS
  <1>3. RecordOf(<<>>) \in Seq(Nat \cup {None}) /\ Len(RecordOf(<<>>)) = 0
    BY <1>2, RecordOfFacts
  <1>4. RecordOf(<<>>) = <<>>
    BY <1>3
  <1> QED BY <1>1, <1>4 DEF ReceivedOnce

\* The first buffers hold what the socket gave, whatever was in them.
LEMMA ReceivesFills ==
  ASSUME TypeOK, NEW n \in 1 .. Least(MaxBatch, Len(queue)),
         slots' \in [1 .. MaxBatch -> Datagrams],
         slots' = [i \in 1 .. MaxBatch |-> IF i <= n THEN queue[i] ELSE slots[i]]
  PROVE  SubSeq(queue, 1, n) \in Seq(Datagrams) /\ Valid(slots', n) = SubSeq(queue, 1, n)
  <1>1. queue \in Seq(Datagrams) /\ Len(queue) \in Nat /\ MaxBatch \in Nat
    BY Constants DEF TypeOK
  <1>2. n \in Nat /\ 1 <= n /\ n <= MaxBatch /\ n <= Len(queue)
    BY <1>1 DEF Least
  <1>3. /\ SubSeq(queue, 1, n) \in Seq(Datagrams) /\ Len(SubSeq(queue, 1, n)) = n
        /\ \A i \in 1 .. n : SubSeq(queue, 1, n)[i] = queue[i]
    <2>1. 1 \in Int /\ n \in Int /\ \A i \in 1 .. n : queue[i] \in Datagrams
      BY <1>1, <1>2
    <2>2. /\ SubSeq(queue, 1, n) \in Seq(Datagrams)
          /\ Len(SubSeq(queue, 1, n)) = IF 1 <= n THEN n - 1 + 1 ELSE 0
          /\ \A i \in 1 .. n - 1 + 1 : SubSeq(queue, 1, n)[i] = queue[1 + i - 1]
      BY <2>1, SubSeqProperties
    <2> QED BY <1>2, <2>2
  <1>4. Valid(slots', n) = SubSeq(queue, 1, n)
    <2> DEFINE v == Valid(slots', n)
               q == SubSeq(queue, 1, n)
    <2>1. n \in 0 .. MaxBatch
      BY <1>1, <1>2
    <2>2. v \in Seq(Datagrams) /\ Len(v) = n /\ \A i \in 1 .. n : v[i] = slots'[i]
      BY <2>1, ValidFacts
    <2> HIDE DEF v
    <2>3. \A i \in 1 .. n : slots'[i] = queue[i]
      BY <1>1, <1>2
    <2>4. \A i \in 1 .. Len(v) : v[i] = q[i]
      BY <1>3, <2>2, <2>3
    <2>5. q \in Seq(Datagrams) /\ Len(v) = Len(q)
      BY <1>3, <2>2
    <2> HIDE DEF q
    <2>6. v = q
      BY <2>2, <2>4, <2>5, SeqEqual
    <2> QED BY <2>6 DEF v, q
  <1> QED BY <1>3, <1>4

LEMMA ReceivesKeepsReceived ==
  ASSUME TypeOK, TypeOK', ReceivedOnce, Receives, rpc # "process"
  PROVE  ReceivedOnce'
  <1>1. PICK n \in 1 .. Least(MaxBatch, Len(queue)) :
          /\ slots' = [i \in 1 .. MaxBatch |-> IF i <= n THEN queue[i] ELSE slots[i]]
          /\ count' = n
          /\ got' = got \o SubSeq(queue, 1, n)
    BY DEF Receives
  <1>2. slots' \in [1 .. MaxBatch -> Datagrams] /\ got \in Seq(Datagrams)
    BY DEF TypeOK
  <1>3. Valid(slots', n) = SubSeq(queue, 1, n) /\ SubSeq(queue, 1, n) \in Seq(Datagrams)
    BY <1>1, <1>2, ReceivesFills
  <1>4. RecordOf(got') = RecordOf(got) \o RecordOf(Valid(slots', count'))
    BY <1>1, <1>2, <1>3, RecordOfConcat
  <1>5. recorded' = recorded /\ rpc' = "process" /\ RecordOf(got) = recorded
    BY DEF Receives, ReceivedOnce
  <1> QED BY <1>4, <1>5 DEF ReceivedOnce

LEMMA ReceivedInductive == TypeOK /\ TypeOK' /\ ReceivedOnce /\ [Next]_vars => ReceivedOnce'
  <1> SUFFICES ASSUME TypeOK, TypeOK', ReceivedOnce, [Next]_vars
               PROVE  ReceivedOnce'
    OBVIOUS
  <1> USE DEF atSender, elsewhere, sender, receiver
  <1>1. CASE UNCHANGED receiver
    BY <1>1 DEF ReceivedOnce
  <1>2. CASE FirstTry \/ SecondTry
    <2>1. rpc # "process"
      BY <1>2 DEF FirstTry, SecondTry
    <2>2. CASE Receives
      BY <2>1, <2>2, ReceivesKeepsReceived
    <2>3. CASE Nothing("wait") \/ Nothing("loop")
      BY <2>1, <2>3 DEF Nothing, ReceivedOnce
    <2> QED BY <1>2, <2>2, <2>3 DEF FirstTry, SecondTry
  <1>3. CASE ReceiverLoops \/ Readable
    BY <1>3 DEF ReceiverLoops, Readable, ReceivedOnce
  <1>4. CASE Process
    BY <1>4 DEF Process, ReceivedOnce
  <1>5. CASE SenderLoops \/ Fill \/ Refresh \/ EndFill \/ SendBatch \/ SendFails \/ Pace
    <2>1. UNCHANGED receiver
      BY <1>5 DEF SenderLoops, Fill, Refresh, EndFill, SendBatch, SendFails, Pace, MakePacket
    <2> QED BY <1>1, <2>1
  <1>6. CASE Tick \/ JunkArrives \/ UNCHANGED vars
    BY <1>1, <1>6 DEF Tick, JunkArrives, vars
  <1> QED BY <1>2, <1>3, <1>4, <1>5, <1>6 DEF Next, Finished

\* For any size of the batch and whatever the socket has at each try, with
\* failed calls between the others: what the receiver records is what recvmmsg
\* gave it, each datagram once and in order, and no buffer's old contents.
THEOREM BuffersAreNeverReused == Spec => []ReceivedOnce
  <1>1. Inv => TypeOK
    BY DEF Inv
  <1>2. ReceivedOnce /\ Inv /\ Inv' /\ [Next]_vars => ReceivedOnce'
    BY ReceivedInductive DEF Inv
  <1> QED BY <1>2, InitReceived, InvInvariant, PTL DEF Spec

-----------------------------------------------------------------------------
(* Loss                                                                    *)

(***************************************************************************)
(* Types.                                                                  *)
(***************************************************************************)

\* The sequence number of a packet is a natural below SeqSpace.
LEMMA SeqType ==
  ASSUME NEW p \in Nat
  PROVE  /\ Seq32(p) \in Nat
         /\ p < SeqSpace => Seq32(p) = p
  BY SeqAssumption DEF Seq32

\* What the one-way tracker does to its three variables.
LEMMA TrackStreamFacts ==
  ASSUME LossTypeOK, NEW seq \in Nat, TrackStream(seq)
  PROVE  expected' \in Nat /\ lost' \in Nat /\ late' \in Nat
  <1> DEFINE expecting == IF expected = NoSeq THEN seq ELSE expected
  <1>1. expecting \in Nat /\ lost \in Nat /\ late \in Nat
    BY DEF LossTypeOK
  <1>2. Seq32(seq + 1) \in Nat
    BY SeqType
  <1>3. \/ seq > expecting /\ lost' = lost + (seq - expecting)
             /\ expected' = Seq32(seq + 1) /\ late' = late
        \/ seq < expecting /\ late' = late + 1 /\ expected' = expected /\ lost' = lost
        \/ seq = expecting /\ expected' = Seq32(seq + 1) /\ lost' = lost /\ late' = late
    BY DEF TrackStream
  <1>4. seq < expecting => expected \in Nat
    BY DEF LossTypeOK
  <1> HIDE DEF expecting
  <1> QED BY <1>1, <1>2, <1>3, <1>4

\* What the collector keeps.
LEMMA RecordedType ==
  ASSUME LossTypeOK, NEW seq \in Nat
  PROVE  /\ Recorded(seq) \in [max : Nat \cup {NoSeq}, last : Nat \cup {NoSeq},
                               received : Nat, outOfOrder : Nat]
         /\ Recorded(seq).received = state.received + 1
         /\ Recorded(seq).max = IF state.max = NoSeq \/ seq > state.max
                                  THEN seq ELSE state.max
  <1>1. state \in [max : Nat \cup {NoSeq}, last : Nat \cup {NoSeq},
                   received : Nat, outOfOrder : Nat]
    BY DEF LossTypeOK
  <1>2. state.received \in Nat /\ state.outOfOrder \in Nat /\ state.max \in Nat \cup {NoSeq}
    BY <1>1
  <1> QED BY <1>2 DEF Recorded

\* The variables keep their types.
LEMMA TypeInductive == LossTypeOK /\ [LossNext]_lossVars => LossTypeOK'
  <1> SUFFICES ASSUME LossTypeOK, [LossNext]_lossVars PROVE LossTypeOK'
    OBVIOUS
  <1>1. CASE Send
    <2>1. PICK n \in 0 .. MaxCopies : flight' = [flight EXCEPT ![sent] = n]
      BY <1>1 DEF Send
    <2> QED BY <1>1, <2>1, TestsAssumption DEF Send, LossTypeOK, Packets
  <1>2. CASE NextTest
    BY <1>2, TestsAssumption DEF NextTest, LossTypeOK, Packets
  <1>3. ASSUME NEW p \in Packets, Receive(p) PROVE LossTypeOK'
    <2>1. p \in Nat /\ Seq32(p) \in Nat
      BY SeqType, TestsAssumption DEF Packets
    <2>2. expected' \in Nat /\ lost' \in Nat /\ late' \in Nat
      BY <1>3, <2>1, TrackStreamFacts DEF Receive
    <2>3. state' \in [max : Nat \cup {NoSeq}, last : Nat \cup {NoSeq},
                      received : Nat, outOfOrder : Nat]
      BY <1>3, <2>1, RecordedType DEF Receive
    <2>4. flight' \in [Packets -> 0 .. MaxCopies]
      BY <1>3, TestsAssumption DEF Receive, LossTypeOK
    <2> QED BY <1>3, <2>2, <2>3, <2>4, TestsAssumption DEF Receive, LossTypeOK
  <1>4. CASE UNCHANGED lossVars
    BY <1>4 DEF lossVars, LossTypeOK
  <1> QED BY <1>1, <1>2, <1>3, <1>4 DEF LossNext

\* The initial values have their types.
LEMMA InitTypes == LossInit => LossTypeOK
  BY TestsAssumption DEF LossInit, LossTypeOK, Packets

\* Every counter of the two trackers stays a natural number: none of the
\* subtractions of the code underflows.
THEOREM LossTypeCorrect == LossSpec => []LossTypeOK
  BY InitTypes, TypeInductive, PTL DEF LossSpec

(***************************************************************************)
(* The one-way account.                                                    *)
(***************************************************************************)

\* The arrivals are counted, and none is late before the first.
AccountInv ==
  /\ LossTypeOK
  /\ OneWayAccount
  /\ first = NoSeq <=> expected = NoSeq
  /\ first = NoSeq => arrivals = 0 /\ lost = 0 /\ late = 0

\* One arrival keeps the account: in order, it moves the expected number on by
\* one; after a gap, by the gap as well; late, not at all.
LEMMA ReceiveKeepsAccount ==
  ASSUME AccountInv, MaxSent < SeqSpace, NEW p \in Packets, Receive(p)
  PROVE  OneWayAccount' /\ (first # NoSeq)' /\ (expected # NoSeq)'
  <1>1. /\ p \in Nat /\ Seq32(p) = p /\ Seq32(p + 1) = p + 1
    BY SeqType, TestsAssumption, SeqAssumption DEF Packets
  <1>2. /\ arrivals \in Nat /\ lost \in Nat /\ late \in Nat
        /\ first \in Nat \cup {NoSeq} /\ expected \in Nat \cup {NoSeq}
        /\ NoSeq \notin Nat
    BY TestsAssumption, SeqAssumption DEF AccountInv, LossTypeOK, Packets
  <1>3. arrivals' = arrivals + 1 /\ first' = IF first = NoSeq THEN p ELSE first
    BY DEF Receive
  <1> DEFINE expecting == IF expected = NoSeq THEN p ELSE expected
  <1>4. \/ p > expecting /\ lost' = lost + (p - expecting)
             /\ expected' = p + 1 /\ late' = late
        \/ p < expecting /\ late' = late + 1 /\ expected' = expected /\ lost' = lost
        \/ p = expecting /\ expected' = p + 1 /\ lost' = lost /\ late' = late
    BY <1>1 DEF Receive, TrackStream
  <1>5. CASE first = NoSeq
    <2>1. expected = NoSeq /\ arrivals = 0 /\ lost = 0 /\ late = 0
      BY <1>5 DEF AccountInv
    <2> QED BY <1>1, <1>2, <1>3, <1>4, <1>5, <2>1 DEF OneWayAccount
  <1>6. CASE first # NoSeq
    <2>1. expected # NoSeq /\ lost + (arrivals - late) = expected - first
      BY <1>6 DEF AccountInv, OneWayAccount
    <2>2. expecting = expected /\ expected \in Nat /\ first \in Nat
      BY <1>2, <1>6, <2>1
    <2> HIDE DEF expecting
    <2> QED BY <1>1, <1>2, <1>3, <1>4, <1>6, <2>1, <2>2 DEF OneWayAccount
  <1> QED BY <1>5, <1>6

\* The account of a one-way receiver balances while sequence numbers do not
\* wrap: what it reports as lost, and what it received in order, are together
\* the numbers from its first packet to the one it expects.
THEOREM OneWayAccountBalances ==
  ASSUME MaxSent < SeqSpace
  PROVE  LossSpec => []OneWayAccount
  <1>1. LossInit => AccountInv
    BY InitTypes, SeqAssumption DEF LossInit, AccountInv, OneWayAccount
  <1>2. AccountInv /\ [LossNext]_lossVars => AccountInv'
    <2> SUFFICES ASSUME AccountInv, [LossNext]_lossVars PROVE AccountInv'
      OBVIOUS
    <2>1. LossTypeOK'
      BY TypeInductive DEF AccountInv
    <2>2. CASE Send
      BY <2>1, <2>2 DEF AccountInv, Send, OneWayAccount
    <2>3. CASE NextTest
      BY <2>1, <2>3 DEF AccountInv, NextTest, OneWayAccount
    <2>4. CASE \E p \in Packets : Receive(p)
      BY <2>1, <2>4, ReceiveKeepsAccount DEF AccountInv
    <2>5. CASE UNCHANGED lossVars
      BY <2>1, <2>5 DEF AccountInv, lossVars, OneWayAccount
    <2> QED BY <2>2, <2>3, <2>4, <2>5 DEF LossNext
  <1>3. AccountInv => OneWayAccount
    BY DEF AccountInv
  <1> QED BY <1>1, <1>2, <1>3, PTL DEF LossSpec

(***************************************************************************)
(* What a one-way receiver finds missing.                                  *)
(***************************************************************************)

\* There are finitely many packets.
LEMMA PacketsFinite == IsFiniteSet(Packets)
  BY TestsAssumption, FS_Interval DEF Packets

\* The numbers from a up to b that are not in S.
Gap(a, b, S) == (a .. b - 1) \ S

LEMMA GapFinite ==
  ASSUME NEW a \in Int, NEW b \in Int, NEW S
  PROVE  IsFiniteSet(Gap(a, b, S)) /\ Cardinality(Gap(a, b, S)) \in Nat
  <1>1. IsFiniteSet(a .. b - 1)
    BY FS_Interval
  <1>2. Gap(a, b, S) \in SUBSET (a .. b - 1)
    BY DEF Gap
  <1> QED BY <1>1, <1>2, FS_Subset, FS_CardinalityType

\* The expected number follows the last packet seen, and the missing ones are a
\* gap before it, which the receiver's count covers but for what came late.
GapInv ==
  /\ first = NoSeq => seen = {} /\ expected = NoSeq /\ lost = 0 /\ late = 0
  /\ first # NoSeq =>
       /\ expected \in Nat /\ expected - 1 \in seen /\ first \in seen
       /\ \A q \in seen : q < expected
       /\ Cardinality(Gap(first, expected, seen)) <= lost
       /\ lost <= Cardinality(Gap(first, expected, seen)) + late

AllBelow(b, S) == \A q \in S : q \in Nat /\ q < b

\* A packet beyond the expected one leaves the numbers before it to the gap.
LEMMA GapGrows ==
  ASSUME NEW a \in Nat, NEW b \in Nat, NEW p \in Nat, NEW S, a <= b, b <= p,
         AllBelow(b, S)
  PROVE  Cardinality(Gap(a, p + 1, S \cup {p})) = Cardinality(Gap(a, b, S)) + (p - b)
  <1> DEFINE G == Gap(a, b, S)
             H == b .. p - 1
  <1>1. Gap(a, p + 1, S \cup {p}) = G \cup H
    <2>1. \A n : n \in Gap(a, p + 1, S \cup {p}) <=> n \in G \cup H
      BY DEF Gap, AllBelow
    <2> QED BY <2>1
  <1>2. G \cap H = {}
    BY DEF Gap
  <1>3. IsFiniteSet(G) /\ Cardinality(G) \in Nat
    BY GapFinite
  <1>4. IsFiniteSet(H) /\ Cardinality(H) = p - b
    <2>1. IsFiniteSet(H) /\ Cardinality(H) = IF b > p - 1 THEN 0 ELSE (p - 1) - b + 1
      BY FS_Interval
    <2> QED BY <2>1
  <1>5. Cardinality(G \cup H) = Cardinality(G) + Cardinality(H) - Cardinality(G \cap H)
    BY <1>3, <1>4, FS_Union
  <1>6. Cardinality(G \cap H) = 0
    BY <1>2, FS_EmptySet
  <1> HIDE DEF G, H
  <1>7. Cardinality(G \cup H) = Cardinality(G) + (p - b)
    BY <1>3, <1>4, <1>5, <1>6
  <1> QED BY <1>1, <1>7 DEF G

\* A packet before the expected one takes itself out of the gap.
LEMMA GapShrinks ==
  ASSUME NEW a \in Nat, NEW b \in Nat, NEW p \in Nat, NEW S
  PROVE  /\ Cardinality(Gap(a, b, S \cup {p})) <= Cardinality(Gap(a, b, S))
         /\ Cardinality(Gap(a, b, S)) <= Cardinality(Gap(a, b, S \cup {p})) + 1
  <1> DEFINE G == Gap(a, b, S)
  <1>1. Gap(a, b, S \cup {p}) = G \ {p}
    BY DEF Gap
  <1>2. IsFiniteSet(G) /\ Cardinality(G) \in Nat
    BY GapFinite
  <1> HIDE DEF G
  <1>3. Cardinality(G \ {p}) = IF p \in G THEN Cardinality(G) - 1 ELSE Cardinality(G)
    BY <1>2, FS_RemoveElement
  <1>4. Cardinality(G \ {p}) <= Cardinality(G) /\ Cardinality(G) <= Cardinality(G \ {p}) + 1
    BY <1>2, <1>3
  <1> QED BY <1>1, <1>4 DEF G

LEMMA ReceiveKeepsGap ==
  ASSUME LossTypeOK, GapInv, MaxSent < SeqSpace, NEW p \in Packets, Receive(p)
  PROVE  GapInv'
  <1>1. /\ p \in Nat /\ Seq32(p) = p /\ Seq32(p + 1) = p + 1
    BY SeqType, TestsAssumption, SeqAssumption DEF Packets
  <1>2. /\ lost \in Nat /\ late \in Nat /\ NoSeq \notin Nat
        /\ first \in Nat \cup {NoSeq} /\ \A q \in seen : q \in Nat
    BY TestsAssumption, SeqAssumption DEF LossTypeOK, Packets
  <1>3. first' = (IF first = NoSeq THEN p ELSE first) /\ seen' = seen \cup {p}
    BY DEF Receive
  <1> DEFINE expecting == IF expected = NoSeq THEN p ELSE expected
  <1>4. \/ p > expecting /\ lost' = lost + (p - expecting)
             /\ expected' = p + 1 /\ late' = late
        \/ p < expecting /\ late' = late + 1 /\ expected' = expected /\ lost' = lost
        \/ p = expecting /\ expected' = p + 1 /\ lost' = lost /\ late' = late
    BY <1>1 DEF Receive, TrackStream
  <1>5. CASE first = NoSeq
    <2>1. /\ first' = p /\ expected' = p + 1 /\ seen' = {p} /\ lost' = 0 /\ late' = 0
      BY <1>1, <1>3, <1>4, <1>5 DEF GapInv
    <2>2. Gap(p, p + 1, {p}) = {}
      BY <1>1 DEF Gap
    <2>3. Cardinality(Gap(p, p + 1, {p})) = 0
      BY <2>2, FS_EmptySet
    <2> QED BY <1>1, <1>2, <2>1, <2>3 DEF GapInv, Gap
  <1>6. CASE first # NoSeq
    <2>1. /\ expected \in Nat /\ expected - 1 \in seen /\ first \in seen /\ first \in Nat
          /\ \A q \in seen : q < expected
          /\ first < expected /\ expecting = expected /\ first' = first
      BY <1>2, <1>3, <1>6 DEF GapInv
    <2> DEFINE n == Cardinality(Gap(first, expected, seen))
    <2>2. n \in Nat /\ n <= lost /\ lost <= n + late
      BY <1>6, <2>1, GapFinite DEF GapInv
    <2> HIDE DEF expecting
    <2>3. CASE p < expected
      <3>1. late' = late + 1 /\ expected' = expected /\ lost' = lost
        BY <1>1, <1>4, <2>1, <2>3
      <3> DEFINE m == Cardinality(Gap(first, expected, seen \cup {p}))
      <3>2. m \in Nat /\ m <= n /\ n <= m + 1
        BY <1>1, <2>1, GapFinite, GapShrinks
      <3> HIDE DEF n, m
      <3>3. m <= lost' /\ lost' <= m + late'
        BY <1>2, <2>2, <3>1, <3>2
      <3>4. Cardinality(Gap(first', expected', seen')) = m
        BY <1>3, <2>1, <3>1 DEF m
      <3>5. \A q \in seen' : q < expected'
        BY <1>1, <1>3, <2>1, <2>3, <3>1
      <3> QED BY <1>2, <1>3, <2>1, <3>1, <3>3, <3>4, <3>5 DEF GapInv, Gap
    <2>4. CASE ~(p < expected)
      <3>1. lost' = lost + (p - expected) /\ expected' = p + 1 /\ late' = late
        BY <1>1, <1>2, <1>4, <2>1, <2>4
      <3> DEFINE m == Cardinality(Gap(first, p + 1, seen \cup {p}))
      <3>2. m = n + (p - expected)
        <4>1. first <= expected /\ expected <= p
          BY <1>1, <2>1, <2>4
        <4>2. AllBelow(expected, seen)
          BY <1>2, <2>1 DEF AllBelow
        <4> QED BY <1>1, <2>1, <4>1, <4>2, GapGrows
      <3> HIDE DEF n, m
      <3>3. m <= lost' /\ lost' <= m + late'
        BY <1>1, <1>2, <2>1, <2>2, <3>1, <3>2
      <3>4. Cardinality(Gap(first', expected', seen')) = m
        BY <1>3, <2>1, <3>1 DEF m
      <3>5. \A q \in seen' : q < expected'
        BY <1>1, <1>2, <1>3, <2>1, <2>4, <3>1
      <3>6. expected' \in Nat /\ expected' - 1 \in seen' /\ first' \in seen'
        BY <1>1, <1>3, <2>1, <3>1
      <3> QED BY <1>2, <2>1, <3>3, <3>4, <3>5, <3>6 DEF GapInv, Gap
    <2> QED BY <2>3, <2>4
  <1> QED BY <1>5, <1>6

LEMMA GapInductive ==
  ASSUME MaxSent < SeqSpace
  PROVE  LossTypeOK /\ GapInv /\ [LossNext]_lossVars => GapInv'
  <1> SUFFICES ASSUME LossTypeOK, GapInv, [LossNext]_lossVars PROVE GapInv'
    OBVIOUS
  <1>1. CASE Send \/ UNCHANGED lossVars
    BY <1>1 DEF Send, lossVars, GapInv, Gap
  <1>2. CASE NextTest
    BY <1>2 DEF NextTest, GapInv
  <1>3. CASE \E p \in Packets : Receive(p)
    BY <1>3, ReceiveKeepsGap
  <1> QED BY <1>1, <1>2, <1>3 DEF LossNext

\* The gap is what a reader of the report calls missing.
LEMMA GapIsMissing == LossTypeOK /\ GapInv => OneWayLossBounds
  <1> SUFFICES ASSUME LossTypeOK, GapInv PROVE OneWayLossBounds
    OBVIOUS
  <1>1. CASE first = NoSeq
    <2>1. lost = 0 /\ late = 0
      BY <1>1 DEF GapInv
    <2> QED BY <1>1, <2>1, FS_EmptySet DEF OneWayLossBounds
  <1>2. CASE first # NoSeq
    <2>1. /\ Packets \subseteq Nat /\ seen \subseteq Packets /\ first \in Nat
          /\ expected \in Nat /\ expected - 1 \in seen /\ \A q \in seen : q < expected
      BY <1>2, TestsAssumption DEF GapInv, LossTypeOK, Packets
    <2>2. MissingFrom(first) = Gap(first, expected, seen)
      <3>1. ASSUME NEW p \in MissingFrom(first) PROVE p \in Gap(first, expected, seen)
        <4>1. PICK q \in seen : p < q
          BY <3>1 DEF MissingFrom
        <4>2. p \in Nat /\ p >= first /\ p \notin seen /\ q \in Nat /\ q < expected
          BY <2>1, <3>1 DEF MissingFrom
        <4> QED BY <2>1, <4>1, <4>2 DEF Gap
      <3>2. ASSUME NEW p \in Gap(first, expected, seen) PROVE p \in MissingFrom(first)
        <4>1. p \in Nat /\ p >= first /\ p <= expected - 1 /\ p \notin seen
          BY <2>1, <3>2 DEF Gap
        <4>2. p # expected - 1
          BY <2>1, <4>1
        <4>3. p < expected - 1
          BY <2>1, <4>1, <4>2
        <4>4. expected - 1 \in 0 .. MaxSent - 1
          BY <2>1 DEF Packets
        <4>5. p \in Packets
          BY <2>1, <4>1, <4>4, TestsAssumption DEF Packets
        <4> QED BY <2>1, <4>1, <4>3, <4>5 DEF MissingFrom
      <3> QED BY <3>1, <3>2
    <2> QED BY <1>2, <2>2 DEF GapInv, OneWayLossBounds
  <1> QED BY <1>1, <1>2

\* While sequence numbers do not wrap, a one-way receiver finds every packet
\* that is missing after its first one, and what it reports besides came late.
THEOREM OneWayLossIsBounded ==
  ASSUME MaxSent < SeqSpace
  PROVE  LossSpec => []OneWayLossBounds
  <1>1. LossInit => GapInv
    BY DEF LossInit, GapInv
  <1> QED BY <1>1, InitTypes, TypeInductive, GapInductive, GapIsMissing, PTL DEF LossSpec

(***************************************************************************)
(* The collector's loss.                                                   *)
(***************************************************************************)

\* In its first test a collector has counted every arrival, which are at least
\* as many as the packets it has seen, and its maximum is the largest of them.
CollectorInv ==
  /\ LossTypeOK
  /\ test = 1 =>
       /\ state.received = arrivals /\ Cardinality(seen) <= arrivals
       /\ state.max = NoSeq <=> seen = {}
       /\ state.max # NoSeq => state.max \in seen /\ \A q \in seen : q <= state.max

\* An arrival is counted, whether the packet is new or not.
LEMMA ReceiveKeepsCollector ==
  ASSUME CollectorInv, MaxSent <= SeqSpace, NEW p \in Packets, Receive(p)
  PROVE  CollectorInv'
  <1>1. /\ p \in Nat /\ Seq32(p) = p /\ Packets \subseteq Nat /\ NoSeq \notin Nat
    BY SeqType, TestsAssumption, SeqAssumption DEF Packets
  <1>2. /\ seen \subseteq Packets /\ arrivals \in Nat
        /\ state.max \in Nat \cup {NoSeq}
    BY DEF CollectorInv, LossTypeOK
  <1>3. LossTypeOK'
    BY TypeInductive DEF CollectorInv, LossNext
  <1>4. seen' = seen \cup {p} /\ arrivals' = arrivals + 1 /\ test' = test
    BY DEF Receive
  <1>5. state' = Recorded(p)
    BY <1>1 DEF Receive
  <1>6. /\ state'.received = state.received + 1
        /\ state'.max = IF state.max = NoSeq \/ p > state.max THEN p ELSE state.max
    BY <1>1, <1>5, RecordedType DEF CollectorInv
  <1> SUFFICES ASSUME test = 1
               PROVE  /\ state'.received = arrivals' /\ Cardinality(seen') <= arrivals'
                      /\ state'.max = NoSeq <=> seen' = {}
                      /\ state'.max # NoSeq =>
                           state'.max \in seen' /\ \A q \in seen' : q <= state'.max
    BY <1>3, <1>4 DEF CollectorInv
  <1>7. IsFiniteSet(seen)
    BY <1>2, PacketsFinite, FS_Subset
  <1>8. Cardinality(seen') <= Cardinality(seen) + 1 /\ Cardinality(seen) \in Nat
    <2>1. CASE p \in seen
      <3>1. seen' = seen
        BY <1>4, <2>1
      <3> QED BY <1>7, <3>1, FS_CardinalityType
    <2>2. CASE p \notin seen
      <3>1. Cardinality(seen') = Cardinality(seen) + 1
        BY <1>4, <1>7, <2>2, FS_AddElement
      <3> QED BY <1>7, <3>1, FS_CardinalityType
    <2> QED BY <2>1, <2>2
  <1>9. Cardinality(seen') \in Nat
    <2>1. IsFiniteSet(seen')
      BY <1>4, <1>7, FS_AddElement
    <2> QED BY <2>1, FS_CardinalityType
  <1>10. state'.received = arrivals' /\ Cardinality(seen') <= arrivals'
    BY <1>2, <1>4, <1>6, <1>8, <1>9 DEF CollectorInv
  <1>11. /\ state'.max # NoSeq /\ seen' # {} /\ state'.max \in seen'
         /\ \A q \in seen' : q <= state'.max
    <2>1. CASE state.max = NoSeq
      BY <1>1, <1>4, <1>6, <2>1 DEF CollectorInv
    <2>2. CASE state.max # NoSeq
      BY <1>1, <1>2, <1>4, <1>6, <2>2 DEF CollectorInv
    <2> QED BY <2>1, <2>2
  <1> QED BY <1>10, <1>11

\* The invariant of the collector's part of the specification.
LEMMA CollectorInductive ==
  ASSUME MaxSent <= SeqSpace
  PROVE  CollectorInv /\ [LossNext]_lossVars => CollectorInv'
  <1> SUFFICES ASSUME CollectorInv, [LossNext]_lossVars PROVE CollectorInv'
    OBVIOUS
  <1>1. LossTypeOK'
    BY TypeInductive DEF CollectorInv
  <1>2. CASE Send
    BY <1>1, <1>2 DEF Send, CollectorInv
  <1>3. CASE NextTest
    BY <1>1, <1>3 DEF NextTest, CollectorInv, LossTypeOK
  <1>4. CASE \E p \in Packets : Receive(p)
    BY <1>4, ReceiveKeepsCollector
  <1>5. CASE UNCHANGED lossVars
    BY <1>1, <1>5 DEF CollectorInv, lossVars
  <1> QED BY <1>2, <1>3, <1>4, <1>5 DEF LossNext

\* The numbers up to the maximum that were not seen are what the subtraction of
\* calculate_udp_loss counts, less the duplicates.
LEMMA CollectorCounts == CollectorInv => LossExact /\ LossNotOverstated
  <1> SUFFICES ASSUME CollectorInv, test = 1
               PROVE  /\ arrivals = Cardinality(seen) =>
                           Loss = Cardinality(MissingFrom(0))
                      /\ Loss <= Cardinality(MissingFrom(0))
    BY DEF LossExact, LossNotOverstated
  <1>1. /\ Packets \subseteq Nat /\ NoSeq \notin Nat /\ seen \subseteq Packets
        /\ state.max \in Nat \cup {NoSeq} /\ MaxSent \in Nat /\ arrivals \in Nat
    BY TestsAssumption, SeqAssumption DEF CollectorInv, LossTypeOK, Packets
  <1>2. CASE seen = {}
    <2>1. MissingFrom(0) = {} /\ state.max = NoSeq
      BY <1>2 DEF CollectorInv, MissingFrom
    <2> QED BY <2>1, FS_EmptySet DEF Loss
  <1>3. CASE seen # {}
    <2> DEFINE m == state.max
    <2>1. /\ m \in Nat /\ m \in seen /\ \A q \in seen : q <= m
          /\ m < MaxSent
      <3>1. m # NoSeq /\ m \in seen /\ \A q \in seen : q <= m
        BY <1>3 DEF CollectorInv
      <3>2. m \in Packets
        BY <1>1, <3>1
      <3> HIDE DEF m
      <3> QED BY <1>1, <3>1, <3>2 DEF Packets
    <2>2. /\ state.received = arrivals /\ Cardinality(seen) <= arrivals
          /\ state.max = m /\ m # NoSeq
      BY <1>1, <2>1 DEF CollectorInv
    <2> HIDE DEF m
    <2>3. MissingFrom(0) = (0 .. m) \ seen
      <3>1. \A p : p \in MissingFrom(0) <=> p \in (0 .. m) \ seen
        BY <1>1, <2>1 DEF MissingFrom, Packets
      <3> QED BY <3>1
    <2>4. seen \subseteq 0 .. m /\ (0 .. m) \cap seen = seen
      <3>1. ASSUME NEW q \in seen PROVE q \in 0 .. m
        <4>1. q \in Nat /\ q <= m
          BY <1>1, <2>1
        <4> QED BY <2>1, <4>1
      <3> QED BY <3>1
    <2>5. IsFiniteSet(0 .. m) /\ Cardinality(0 .. m) = m + 1
      BY <2>1, FS_Interval
    <2>6. Cardinality(seen) \in Nat /\ Cardinality(seen) <= m + 1
      <3>1. IsFiniteSet(seen) /\ Cardinality(seen) <= Cardinality(0 .. m)
        BY <2>4, <2>5, FS_Subset
      <3>2. Cardinality(seen) \in Nat
        BY <3>1, FS_CardinalityType
      <3> QED BY <2>5, <3>1, <3>2
    <2>7. Cardinality((0 .. m) \ seen) = m + 1 - Cardinality(seen)
      <3>1. Cardinality((0 .. m) \ seen)
              = Cardinality(0 .. m) - Cardinality((0 .. m) \cap seen)
        BY <2>5, FS_Difference
      <3>2. Cardinality((0 .. m) \cap seen) = Cardinality(seen)
        BY <2>4, Zenon
      <3> QED BY <2>1, <2>5, <2>6, <3>1, <3>2
    <2>8. Loss = IF m + 1 < arrivals THEN 0 ELSE m + 1 - arrivals
      BY <2>1, <2>2 DEF Loss
    <2> DEFINE n == Cardinality(seen)
               k == Cardinality(MissingFrom(0))
    <2>9. n \in Nat /\ n <= m + 1 /\ n <= arrivals /\ k = m + 1 - n
      BY <2>2, <2>3, <2>6, <2>7
    <2> HIDE DEF n, k
    <2>10. (arrivals = n => Loss = k) /\ Loss <= k
      BY <1>1, <2>1, <2>8, <2>9
    <2> QED BY <2>10 DEF n, k
  <1> QED BY <1>2, <1>3

\* Before anything arrives the collector has counted nothing.
LEMMA InitCollector == LossInit => CollectorInv
  <1> SUFFICES ASSUME LossInit PROVE CollectorInv
    OBVIOUS
  <1>1. LossTypeOK
    BY InitTypes
  <1> QED BY <1>1, FS_EmptySet DEF LossInit, CollectorInv

\* The loss of a collector's first test is exact, in whatever order the packets
\* arrive, as long as none arrives twice and the sequence numbers do not wrap.
THEOREM LossIsExact ==
  ASSUME MaxSent <= SeqSpace
  PROVE  LossSpec => []LossExact
BY InitCollector, CollectorInductive, CollectorCounts, PTL DEF LossSpec

\* Duplicates hide losses from the collector, but never make it report one.
THEOREM LossIsNotOverstated ==
  ASSUME MaxSent <= SeqSpace
  PROVE  LossSpec => []LossNotOverstated
BY InitCollector, CollectorInductive, CollectorCounts, PTL DEF LossSpec

=============================================================================
