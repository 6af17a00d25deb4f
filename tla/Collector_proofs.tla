--------------------------- MODULE Collector_proofs ---------------------------
(***************************************************************************)
(* For any number of tasks of any kinds that share a collector.  What      *)
(* recorders leave in it: every total is the sum of what the streams have  *)
(* and of what is on its way, and the ring holds the latest intervals      *)
(* without a gap.  What readers take from it: every number of a get() is   *)
(* one that the collector had during the call, detailed results are as old *)
(* as the last sync, and the text of a client shows what its run recorded. *)
(* And the locks: nobody who waits for one is waited for in turn.          *)
(***************************************************************************)
EXTENDS Collector, FiniteSetTheorems, SequenceTheorems, TLAPS

\* A recording call that has found or is finding its stream.
Recording(p) == step[p] \in {"find", "add"}

\* The one stream exists once a task has found it, and a task that records
\* knows what.
CountInv ==
  /\ TotalsAreSums
  /\ \A p \in Procs : Recording(p) => FieldOf(Call(p)) \in Fields
  /\ \A p \in Procs : step[p] = "add" => arc[p] = 1 /\ perStream # <<>>

\* What the stream has of a field.
InStream(f) == IF perStream = <<>> THEN 0 ELSE Head(perStream)[f]

(***************************************************************************)
(* Types.                                                                  *)
(***************************************************************************)

\* What follows a part of a script is a part of it.
LEMMA FollowsParts == \A part \in Parts : Follows(part) \subseteq Parts
  <1>1. Follows("start") \subseteq Parts
    BY DEF Follows, Parts
  <1>2. Follows("loop") \subseteq Parts
    BY DEF Follows, Parts
  <1>3. Follows("report") \subseteq Parts
    BY DEF Follows, Parts
  <1>4. Follows("finish") \subseteq Parts /\ Follows("over") \subseteq Parts
    BY DEF Follows, Parts
  <1> QED BY <1>1, <1>2, <1>3, <1>4 DEF Parts

\* Coming back from a call, entering a part of the script or going on inside
\* a call touches a task's own place only.
LEMMA ReturnsTyped ==
  ASSUME TypeOK, NEW p \in Procs, Returns(p)
  PROVE  /\ kind' = kind
         /\ at' \in [Procs -> Parts \X Nat]
         /\ step' = [step EXCEPT ![p] = "next"]
         /\ rounds' \in [Procs -> Nat]
  <1>1. at[p] \in Parts \X Nat
    BY DEF TypeOK
  <1>2. CASE at' = [at EXCEPT ![p] = <<@[1], @[2] + 1>>] /\ UNCHANGED rounds
    <2>1. <<at[p][1], at[p][2] + 1>> \in Parts \X Nat
      BY <1>1
    <2> QED BY <1>2, <2>1 DEF Returns, TypeOK
  <1>3. ASSUME NEW part \in Parts, Enters(p, part)
        PROVE  at' \in [Procs -> Parts \X Nat] /\ rounds' \in [Procs -> Nat]
    <2>1. <<part, IF part = "over" THEN 0 ELSE 1>> \in Parts \X Nat
      OBVIOUS
    <2>2. rounds[p] \in Nat
      BY DEF TypeOK
    <2> QED BY <1>3, <2>1, <2>2 DEF Enters, TypeOK
  <1>4. Follows(at[p][1]) \subseteq Parts
    <2>1. at[p][1] \in Parts
      BY <1>1
    <2> QED BY <2>1, FollowsParts
  <1> QED BY <1>2, <1>3, <1>4 DEF Returns

LEMMA WithinTyped ==
  ASSUME TypeOK, NEW p \in Procs, NEW s, Within(p, s)
  PROVE  kind' = kind /\ at' = at /\ rounds' = rounds /\ step' = [step EXCEPT ![p] = s]
  BY DEF Within

\* Taking and leaving a lock.
LEMMA LockTyped ==
  ASSUME TypeOK, NEW p \in Procs, NEW l, Hold(l, p) \/ Release(l) \/ UNCHANGED lock
  PROVE  lock' \in [Locks -> Procs \cup {Nobody}]
  BY DEF Hold, Release, TypeOK

\* One more of a field.
LEMMA OneMore ==
  ASSUME NEW t \in [Fields -> Nat], NEW f
  PROVE  [t EXCEPT ![f] = @ + 1] \in [Fields -> Nat]
  <1>1. \A g \in Fields : t[g] + 1 \in Nat
    OBVIOUS
  <1>2. \A g \in Fields : g = f => t[f] + 1 \in Nat
    BY <1>1
  <1> QED BY <1>2

\* The new ring.
LEMMA PushedTyped ==
  ASSUME NEW ring \in Seq(Nat), NEW i \in Nat
  PROVE  Pushed(ring, i) \in Seq(Nat)
  <1>1. CASE Len(ring) >= MaxIntervals
    <2>1. ring # <<>>
      BY <1>1, BoundsAssumption
    <2>2. Tail(ring) \in Seq(Nat)
      BY <2>1
    <2> QED BY <1>1, <2>2 DEF Pushed
  <1>2. CASE ~(Len(ring) >= MaxIntervals)
    BY <1>2 DEF Pushed
  <1> QED BY <1>1, <1>2

\* A list of one, and what changing its entry makes of it.
LEMMA AtMostOne ==
  ASSUME NEW S, NEW q \in Seq(S), Len(q) <= 1, q # <<>>
  PROVE  Len(q) = 1 /\ q[1] \in S /\ Head(q) = q[1]
  <1>1. Len(q) \in Nat /\ Len(q) # 0
    BY EmptySeq
  <1>2. Len(q) = 1
    BY <1>1
  <1> QED BY <1>2

LEMMA OneChanged ==
  ASSUME NEW S, NEW q \in Seq(S), Len(q) = 1, NEW e \in S
  PROVE  LET r == [q EXCEPT ![1] = e]
         IN  r \in Seq(S) /\ Len(r) = 1 /\ r # <<>> /\ Head(r) = e
  <1> DEFINE r == [q EXCEPT ![1] = e]
  <1>1. 1 \in 1 .. Len(q)
    OBVIOUS
  <1>2. r \in Seq(S) /\ Len(r) = 1
    BY <1>1, ExceptSeq
  <1>3. r[1] = e
    BY <1>1, LenProperties
  <1> HIDE DEF r
  <1>4. r # <<>> /\ Head(r) = r[1]
    BY <1>2
  <1> QED BY <1>2, <1>3, <1>4 DEF r

\* The first stream, or the one there is.
LEMMA FoundTyped ==
  ASSUME TypeOK, NEW p \in Procs, FindStream(p)
  PROVE  /\ perStream' \in Seq([Fields -> Nat])
         /\ Len(perStream') = 1
         /\ perStream = <<>> => Head(perStream') = Zero
         /\ perStream # <<>> => perStream' = perStream
  <1>1. Zero \in [Fields -> Nat]
    BY DEF Zero
  <1>2. CASE perStream = <<>>
    <2>1. perStream' = <<Zero>>
      BY <1>2 DEF FindStream
    <2>2. <<Zero>> \in Seq([Fields -> Nat]) /\ Len(<<Zero>>) = 1 /\ Head(<<Zero>>) = Zero
      BY <1>1
    <2> QED BY <1>2, <2>1, <2>2
  <1>3. CASE perStream # <<>>
    <2>1. perStream' = perStream
      BY <1>3 DEF FindStream
    <2>2. perStream \in Seq([Fields -> Nat]) /\ Len(perStream) = 1
      BY <1>3, AtMostOne DEF TypeOK
    <2> QED BY <1>3, <2>1, <2>2
  <1> QED BY <1>2, <1>3

\* The stream's counter goes up.
LEMMA AddedTyped ==
  ASSUME TypeOK, CountInv, NEW p \in Procs, AddToStream(p)
  PROVE  /\ perStream' \in Seq([Fields -> Nat])
         /\ Len(perStream') = 1 /\ perStream' # <<>>
         /\ perStream # <<>>
         /\ Head(perStream') = [Head(perStream) EXCEPT ![FieldOf(Call(p))] = @ + 1]
         /\ Head(perStream) \in [Fields -> Nat]
  <1>1. arc[p] = 1 /\ perStream # <<>>
    BY DEF CountInv, AddToStream
  <1>2. /\ perStream \in Seq([Fields -> Nat]) /\ Len(perStream) = 1
        /\ perStream[1] \in [Fields -> Nat] /\ Head(perStream) = perStream[1]
    BY <1>1, AtMostOne DEF TypeOK
  <1> DEFINE more == [perStream[1] EXCEPT ![FieldOf(Call(p))] = @ + 1]
  <1>3. more \in [Fields -> Nat]
    BY <1>2, OneMore
  <1>4. perStream' = [perStream EXCEPT ![1] = more]
    BY <1>1 DEF AddToStream
  <1> HIDE DEF more
  <1>5. /\ perStream' \in Seq([Fields -> Nat]) /\ Len(perStream') = 1
        /\ perStream' # <<>> /\ Head(perStream') = more
    BY <1>2, <1>3, <1>4, OneChanged
  <1> QED BY <1>1, <1>2, <1>5 DEF more

LEMMA InitTyped == Init => TypeOK
  <1>1. Zero \in [Fields -> Nat]
    BY DEF Zero
  <1>2. /\ <<"start", 0>> \in Parts \X Nat /\ "next" \in Steps
        /\ <<>> \in Seq([Fields -> Nat]) /\ Len(<<>>) = 0 /\ <<>> \in Seq(Nat)
    BY EmptySeq DEF Parts, Steps
  <1>3. [total |-> Zero, duration |-> 0, ring |-> <<>>]
          \in [total : [Fields -> Nat], duration : Nat, ring : Seq(Nat)]
    BY <1>1, <1>2
  <1> QED BY CastsAssumption, <1>1, <1>2, <1>3 DEF Init, TypeOK

\* The places of a task after a step that stays in its call or ends it.
LEMMA PlacesTyped ==
  ASSUME TypeOK, NEW p \in Procs, Returns(p) \/ \E s \in Steps : Within(p, s)
  PROVE  /\ kind' \in [Procs -> Kinds] /\ at' \in [Procs -> Parts \X Nat]
         /\ step' \in [Procs -> Steps] /\ rounds' \in [Procs -> Nat]
  <1>1. CASE Returns(p)
    <2>1. "next" \in Steps
      BY DEF Steps
    <2>2. kind' = kind /\ step' = [step EXCEPT ![p] = "next"]
      BY <1>1, ReturnsTyped
    <2>3. at' \in [Procs -> Parts \X Nat] /\ rounds' \in [Procs -> Nat]
      BY <1>1, ReturnsTyped
    <2> QED BY <2>1, <2>2, <2>3 DEF TypeOK
  <1>2. ASSUME NEW s \in Steps, Within(p, s)
        PROVE  /\ kind' \in [Procs -> Kinds] /\ at' \in [Procs -> Parts \X Nat]
               /\ step' \in [Procs -> Steps] /\ rounds' \in [Procs -> Nat]
    BY <1>2 DEF Within, TypeOK
  <1> QED BY <1>1, <1>2

LEMMA AddToTotalTyped ==
  ASSUME TypeOK, NEW p \in Procs, NEW call, AddToTotal(p, call)
  PROVE  TypeOK'
  <1>1. total' \in [Fields -> Nat]
    <2>1. total' = [total EXCEPT ![FieldOf(call)] = @ + 1]
      BY DEF AddToTotal
    <2>2. total \in [Fields -> Nat]
      BY DEF TypeOK
    <2> QED BY <2>1, <2>2, OneMore
  <1>2. \E s \in Steps : Within(p, s)
    BY DEF AddToTotal, Steps
  <1>3. UNCHANGED <<arc, perStream, inner, udp, lock, added, timed>>
    BY DEF AddToTotal, past
  <1> QED BY <1>1, <1>2, <1>3, PlacesTyped DEF TypeOK

LEMMA FindStreamTyped ==
  ASSUME TypeOK, NEW p \in Procs, FindStream(p)
  PROVE  TypeOK'
  <1>1. perStream' \in Seq([Fields -> Nat]) /\ Len(perStream') = 1
    BY FoundTyped
  <1>2. \E s \in Steps : Within(p, s)
    BY DEF FindStream, Steps
  <1>3. arc' \in [Procs -> {0, 1}]
    BY DEF FindStream, TypeOK
  <1>4. UNCHANGED <<total, inner, udp, lock, added, timed>>
    BY DEF FindStream, past
  <1>5. Len(perStream') <= 1
    BY <1>1
  <1>6. /\ kind' \in [Procs -> Kinds] /\ at' \in [Procs -> Parts \X Nat]
        /\ step' \in [Procs -> Steps] /\ rounds' \in [Procs -> Nat]
    BY <1>2, PlacesTyped
  <1> QED BY <1>1, <1>3, <1>4, <1>5, <1>6 DEF TypeOK

LEMMA AddToStreamTyped ==
  ASSUME TypeOK, CountInv, NEW p \in Procs, AddToStream(p)
  PROVE  TypeOK'
  <1>1. perStream' \in Seq([Fields -> Nat]) /\ Len(perStream') = 1
    BY AddedTyped
  <1>2. Returns(p)
    BY DEF AddToStream
  <1>3. UNCHANGED <<arc, total, inner, udp, lock, added, timed>>
    BY DEF AddToStream, past
  <1>4. Len(perStream') <= 1
    BY <1>1
  <1>5. /\ kind' \in [Procs -> Kinds] /\ at' \in [Procs -> Parts \X Nat]
        /\ step' \in [Procs -> Steps] /\ rounds' \in [Procs -> Nat]
    BY <1>2, PlacesTyped
  <1> QED BY <1>1, <1>3, <1>4, <1>5 DEF TypeOK

LEMMA RecordArrivalTyped ==
  ASSUME TypeOK, NEW p \in Procs, RecordArrival(p)
  PROVE  TypeOK'
  <1>1. Returns(p) \/ \E s \in Steps : Within(p, s)
    BY DEF RecordArrival, Steps
  <1>2. udp' \in [expected : Nat, count : Nat]
    <2>1. CASE UNCHANGED udp
      BY <2>1 DEF TypeOK
    <2>2. CASE udp' # udp
      <3>1. PICK seq \in 0 .. MaxSeq :
              udp' = [expected |-> IF seq >= udp.expected THEN seq + 1 ELSE udp.expected,
                      count    |-> udp.count + 1]
        BY <2>2 DEF RecordArrival, shared
      <3>2. seq \in Nat /\ udp.expected \in Nat /\ udp.count \in Nat
        BY BoundsAssumption DEF TypeOK
      <3> QED BY <3>1, <3>2
    <2> QED BY <2>1, <2>2
  <1>3. lock' \in [Locks -> Procs \cup {Nobody}]
    BY LockTyped DEF RecordArrival, shared
  <1>4. UNCHANGED <<arc, total, perStream, inner, added, timed>>
    BY DEF RecordArrival, shared, past
  <1> QED BY <1>1, <1>2, <1>3, <1>4, PlacesTyped DEF TypeOK

LEMMA InnerTyped ==
  ASSUME TypeOK, NEW p \in Procs,
         AddInterval(p) \/ SetDuration(p) \/ SyncBegins(p) \/ SyncGoesOn(p)
  PROVE  TypeOK'
  <1>1. Returns(p) \/ \E s \in Steps : Within(p, s)
    BY DEF AddInterval, SetDuration, SyncBegins, SyncGoesOn, Steps
  <1>2. inner \in [total : [Fields -> Nat], duration : Nat, ring : Seq(Nat)]
    BY DEF TypeOK
  <1>3. CASE AddInterval(p)
    <2>1. added + 1 \in Nat
      BY DEF TypeOK
    <2>2. Pushed(inner.ring, added + 1) \in Seq(Nat)
      BY <1>2, <2>1, PushedTyped
    <2>3. inner' = [inner EXCEPT !.ring = Pushed(inner.ring, added + 1)]
      BY <1>3 DEF AddInterval
    <2>4. inner' \in [total : [Fields -> Nat], duration : Nat, ring : Seq(Nat)]
      BY <1>2, <2>2, <2>3
    <2> QED BY <1>1, <1>3, <2>1, <2>4, PlacesTyped DEF AddInterval, TypeOK
  <1>4. CASE SetDuration(p)
    <2>1. timed + 1 \in Nat
      BY DEF TypeOK
    <2>2. inner' \in [total : [Fields -> Nat], duration : Nat, ring : Seq(Nat)]
      BY <1>2, <1>4, <2>1 DEF SetDuration
    <2> QED BY <1>1, <1>4, <2>1, <2>2, PlacesTyped DEF SetDuration, TypeOK
  <1>5. CASE SyncBegins(p) \/ SyncGoesOn(p)
    <2>1. PICK f \in Fields : inner' = [inner EXCEPT !.total[f] = total[f]]
      BY <1>5 DEF SyncBegins, SyncGoesOn, Fields
    <2>2. [inner.total EXCEPT ![f] = total[f]] \in [Fields -> Nat]
      BY <1>2 DEF TypeOK
    <2>3. inner' = [inner EXCEPT !.total = [inner.total EXCEPT ![f] = total[f]]]
      BY <2>1
    <2>4. inner' \in [total : [Fields -> Nat], duration : Nat, ring : Seq(Nat)]
      BY <1>2, <2>2, <2>3
    <2>5. lock' \in [Locks -> Procs \cup {Nobody}]
      BY <1>5, LockTyped DEF SyncBegins, SyncGoesOn
    <2>6. UNCHANGED <<arc, total, perStream, udp, added, timed>>
      BY <1>5 DEF SyncBegins, SyncGoesOn
    <2> QED BY <1>1, <2>4, <2>5, <2>6, PlacesTyped DEF TypeOK
  <1> QED BY <1>3, <1>4, <1>5

\* A reader changes no number.
LEMMA ReadsKeep ==
  ASSUME NEW p \in Procs, Reads(p)
  PROVE  /\ UNCHANGED <<arc, total, perStream, inner, udp, added, timed>>
         /\ (\E l \in Locks : Hold(l, p) \/ Release(l)) \/ UNCHANGED lock
         /\ Returns(p) \/ \E s \in Steps \ {"find", "add"} : Within(p, s)
         /\ step[p] \notin {"find", "add"}
  <1> USE DEF GetClones, GetLoads, GetStreams, GetLoss, GetReturns, CalculateLoss,
              GetStreamStats, PrintText, PrintJson, Reads, Begins
  <1>1. UNCHANGED <<arc, total, perStream, inner, udp, added, timed>>
    BY DEF shared, past
  <1>2. (\E l \in Locks : Hold(l, p) \/ Release(l)) \/ UNCHANGED lock
    BY DEF shared, Locks
  <1>3. Returns(p) \/ \E s \in Steps \ {"find", "add"} : Within(p, s)
    BY DEF Steps
  <1>4. step[p] \notin {"find", "add"}
    OBVIOUS
  <1> QED BY <1>1, <1>2, <1>3, <1>4

LEMMA ReadsTyped ==
  ASSUME TypeOK, NEW p \in Procs, Reads(p)
  PROVE  TypeOK'
  <1>1. lock' \in [Locks -> Procs \cup {Nobody}]
    BY ReadsKeep, LockTyped
  <1>2. Returns(p) \/ \E s \in Steps : Within(p, s)
    BY ReadsKeep
  <1>3. UNCHANGED <<arc, total, perStream, inner, udp, added, timed>>
    BY ReadsKeep
  <1> QED BY <1>1, <1>2, <1>3, PlacesTyped DEF TypeOK

LEMMA StartsTyped ==
  ASSUME TypeOK, NEW p \in Procs, Starts(p)
  PROVE  TypeOK'
  <1>1. PICK part \in Parts : Enters(p, part)
    BY FollowsParts DEF Starts, Parts
  <1>2. <<part, IF part = "over" THEN 0 ELSE 1>> \in Parts \X Nat
    OBVIOUS
  <1>3. at' \in [Procs -> Parts \X Nat] /\ rounds' \in [Procs -> Nat]
    BY <1>1, <1>2 DEF Enters, TypeOK
  <1> QED BY <1>3 DEF Starts, TypeOK, shared, past

LEMMA StepTyped ==
  ASSUME TypeOK, CountInv, [Next]_vars
  PROVE  TypeOK'
  <1>1. ASSUME NEW p \in Procs, Starts(p) PROVE TypeOK'
    BY <1>1, StartsTyped
  <1>2. ASSUME NEW p \in Procs, Records(p) PROVE TypeOK'
    BY <1>2, AddToTotalTyped, FindStreamTyped, AddToStreamTyped, RecordArrivalTyped,
       InnerTyped DEF Records
  <1>3. ASSUME NEW p \in Procs, Reads(p) PROVE TypeOK'
    BY <1>3, ReadsTyped
  <1>4. CASE UNCHANGED vars
    BY <1>4 DEF vars, shared, past, TypeOK
  <1> QED BY <1>1, <1>2, <1>3, <1>4 DEF Next, Finished

(***************************************************************************)
(* Counting.                                                               *)
(***************************************************************************)

LEMMA InitCount == Init => CountInv
  <1> SUFFICES ASSUME Init PROVE CountInv
    OBVIOUS
  <1>1. \A f \in Fields : InFlight(f) = {}
    BY DEF Init, InFlight
  <1>2. \A f \in Fields : total[f] = 0 /\ Cardinality(InFlight(f)) = 0
    BY <1>1, FS_EmptySet DEF Init, Zero
  <1>3. perStream = <<>>
    BY DEF Init
  <1>4. TotalsAreSums
    BY <1>2, <1>3 DEF TotalsAreSums
  <1>5. \A p \in Procs : step[p] = "next"
    BY DEF Init
  <1> QED BY <1>4, <1>5 DEF CountInv, Recording

\* What is on its way is a finite set of tasks.
LEMMA InFlightFinite ==
  ASSUME NEW f
  PROVE  IsFiniteSet(InFlight(f)) /\ Cardinality(InFlight(f)) \in Nat
  <1>1. InFlight(f) \in SUBSET Procs
    BY DEF InFlight
  <1> QED BY <1>1, ProcsAssumption, FS_Subset, FS_CardinalityType

\* What one task does leaves the others where they are.
LEMMA OthersStay ==
  ASSUME TypeOK, NEW p \in Procs, Returns(p) \/ \E s \in Steps : Within(p, s)
  PROVE  /\ kind' = kind
         /\ \A q \in Procs : q # p => at'[q] = at[q] /\ step'[q] = step[q]
  BY DEF Returns, Within, Enters, TypeOK

\* So they go on recording the same.
LEMMA OthersRecord ==
  ASSUME TypeOK, NEW p \in Procs, Returns(p) \/ \E s \in Steps : Within(p, s),
         NEW q \in Procs, q # p
  PROVE  step'[q] = step[q] /\ Call(q)' = Call(q)
  <1>1. kind' = kind /\ at'[q] = at[q] /\ step'[q] = step[q]
    BY OthersStay
  <1> QED BY <1>1 DEF Call, Part

\* The other two parts of the invariant, which are about one task each.
LEMMA RecordersKept ==
  ASSUME TypeOK, CountInv, NEW p \in Procs, Returns(p) \/ \E s \in Steps : Within(p, s),
         step'[p] \in {"find", "add"} => FieldOf(Call(p))' \in Fields,
         step'[p] = "add" => arc'[p] = 1 /\ perStream' # <<>>,
         \A q \in Procs : q # p => arc'[q] = arc[q],
         perStream # <<>> => perStream' # <<>>
  PROVE  /\ \A q \in Procs : Recording(q)' => FieldOf(Call(q))' \in Fields
         /\ \A q \in Procs : step'[q] = "add" => arc'[q] = 1 /\ perStream' # <<>>
  <1>1. ASSUME NEW q \in Procs, q # p
        PROVE  /\ Recording(q)' => FieldOf(Call(q))' \in Fields
               /\ step'[q] = "add" => arc'[q] = 1 /\ perStream' # <<>>
    <2>1. step'[q] = step[q] /\ Call(q)' = Call(q)
      BY <1>1, OthersRecord
    <2>2. FieldOf(Call(q))' = FieldOf(Call(q))
      BY <2>1 DEF FieldOf
    <2> QED BY <1>1, <2>1, <2>2 DEF CountInv, Recording
  <1> QED BY <1>1 DEF Recording

\* A task that records neither before a step nor after it.
LEMMA QuietKept ==
  ASSUME TypeOK, CountInv, NEW p \in Procs, Returns(p) \/ \E s \in Steps : Within(p, s),
         ~Recording(p), ~Recording(p)', UNCHANGED <<total, perStream, arc>>
  PROVE  CountInv'
  <1>1. ASSUME NEW f \in Fields PROVE InFlight(f)' = InFlight(f)
    <2>1. ASSUME NEW q \in Procs
          PROVE  (Recording(q) /\ FieldOf(Call(q)) = f)' <=> Recording(q) /\ FieldOf(Call(q)) = f
      BY OthersRecord DEF Recording, FieldOf
    <2> QED BY <2>1 DEF InFlight, Recording
  <1>2. TotalsAreSums'
    BY <1>1 DEF TotalsAreSums, CountInv
  <1> QED BY <1>2, RecordersKept DEF CountInv, Recording

LEMMA AddToTotalCount ==
  ASSUME TypeOK, CountInv, NEW p \in Procs, NEW call \in {"sent", "received", "packet"},
         AddToTotal(p, call)
  PROVE  CountInv'
  <1> DEFINE g == FieldOf(call)
  <1>1. g \in Fields
    BY DEF FieldOf, Fields
  <1>2. /\ Within(p, "find") /\ step[p] = "next" /\ Call(p) = call
        /\ total' = [total EXCEPT ![g] = @ + 1] /\ UNCHANGED <<arc, perStream>>
    BY DEF AddToTotal, Begins
  <1>3. \E s \in Steps : Within(p, s)
    BY <1>2 DEF Steps
  <1>4. step'[p] = "find" /\ Call(p)' = call
    BY <1>2 DEF Within, TypeOK, Call, Part
  <1>5. ASSUME NEW f \in Fields
        PROVE  /\ f = g => InFlight(f)' = InFlight(f) \cup {p} /\ p \notin InFlight(f)
               /\ f # g => InFlight(f)' = InFlight(f)
    <2>1. ASSUME NEW q \in Procs, q # p
          PROVE  (Recording(q) /\ FieldOf(Call(q)) = f)' <=> Recording(q) /\ FieldOf(Call(q)) = f
      BY <1>3, <2>1, OthersRecord DEF Recording, FieldOf
    <2>2. ~Recording(p) /\ Recording(p)' /\ FieldOf(Call(p))' = g
      BY <1>2, <1>4 DEF Recording, FieldOf
    <2> HIDE DEF g
    <2> QED BY <2>1, <2>2 DEF InFlight, Recording
  <1>6. TotalsAreSums'
    <2>1. ASSUME NEW f \in Fields PROVE total'[f] = InStream(f) + Cardinality(InFlight(f)')
      <3>1. total[f] = InStream(f) + Cardinality(InFlight(f)) /\ total[f] \in Nat
        BY DEF CountInv, TotalsAreSums, InStream, TypeOK
      <3>2. InStream(f) \in Int
        <4>1. CASE perStream = <<>>
          BY <4>1 DEF InStream
        <4>2. CASE perStream # <<>>
          <5>1. Head(perStream) \in [Fields -> Nat]
            BY <4>2, AtMostOne DEF TypeOK
          <5> QED BY <4>2, <5>1 DEF InStream
        <4> QED BY <4>1, <4>2
      <3>3. Cardinality(InFlight(f)) \in Nat
        BY InFlightFinite
      <3>4. CASE f = g
        <4>1. Cardinality(InFlight(f)') = Cardinality(InFlight(f)) + 1
          BY <1>5, <3>4, InFlightFinite, FS_AddElement
        <4>2. total'[f] = total[f] + 1
          BY <1>1, <1>2, <3>4 DEF TypeOK
        <4> QED BY <3>1, <3>2, <3>3, <4>1, <4>2
      <3>5. CASE f # g
        <4>1. Cardinality(InFlight(f)') = Cardinality(InFlight(f))
          BY <1>5, <3>5
        <4>2. total'[f] = total[f]
          BY <1>2, <3>5 DEF TypeOK
        <4> QED BY <3>1, <4>1, <4>2
      <3> QED BY <3>4, <3>5
    <2>2. \A f \in Fields : InStream(f)' = InStream(f)
      BY <1>2 DEF InStream
    <2> QED BY <2>1, <2>2 DEF TotalsAreSums, InStream
  <1>7. FieldOf(Call(p))' \in Fields
    BY <1>1, <1>4 DEF FieldOf
  <1>8. /\ \A q \in Procs : Recording(q)' => FieldOf(Call(q))' \in Fields
        /\ \A q \in Procs : step'[q] = "add" => arc'[q] = 1 /\ perStream' # <<>>
    BY <1>2, <1>3, <1>4, <1>7, RecordersKept
  <1> QED BY <1>6, <1>8 DEF CountInv

LEMMA FindStreamCount ==
  ASSUME TypeOK, CountInv, NEW p \in Procs, FindStream(p)
  PROVE  CountInv'
  <1>1. /\ Within(p, "add") /\ step[p] = "find" /\ UNCHANGED total
        /\ arc' = [arc EXCEPT ![p] = 1]
    BY DEF FindStream
  <1>2. \E s \in Steps : Within(p, s)
    BY <1>1 DEF Steps
  <1>3. step'[p] = "add" /\ Call(p)' = Call(p) /\ arc'[p] = 1
    BY <1>1 DEF Within, TypeOK, Call, Part
  <1>4. FieldOf(Call(p))' = FieldOf(Call(p)) /\ FieldOf(Call(p)) \in Fields
    BY <1>1, <1>3 DEF FieldOf, CountInv, Recording
  <1>5. ASSUME NEW f \in Fields PROVE InFlight(f)' = InFlight(f)
    <2>1. ASSUME NEW q \in Procs
          PROVE  (Recording(q) /\ FieldOf(Call(q)) = f)' <=> Recording(q) /\ FieldOf(Call(q)) = f
      <3>1. CASE q = p
        BY <1>1, <1>3, <1>4, <3>1 DEF Recording
      <3>2. CASE q # p
        BY <1>2, <3>2, OthersRecord DEF Recording, FieldOf
      <3> QED BY <3>1, <3>2
    <2> QED BY <2>1 DEF InFlight, Recording
  <1>6. perStream' # <<>>
    BY FoundTyped, EmptySeq
  <1>7. \A f \in Fields : InStream(f)' = InStream(f)
    <2>1. CASE perStream = <<>>
      <3>1. Head(perStream') = Zero
        BY <2>1, FoundTyped
      <3> QED BY <1>6, <2>1, <3>1 DEF InStream, Zero
    <2>2. CASE perStream # <<>>
      <3>1. perStream' = perStream
        BY <2>2, FoundTyped
      <3> QED BY <3>1 DEF InStream
    <2> QED BY <2>1, <2>2
  <1>8. TotalsAreSums'
    <2>1. \A f \in Fields : total[f] = InStream(f) + Cardinality(InFlight(f))
      BY DEF CountInv, TotalsAreSums, InStream
    <2>2. \A f \in Fields : total'[f] = InStream(f)' + Cardinality(InFlight(f)')
      BY <1>1, <1>5, <1>7, <2>1
    <2> QED BY <2>2 DEF TotalsAreSums, InStream
  <1>9. \A q \in Procs : q # p => arc'[q] = arc[q]
    BY <1>1 DEF TypeOK
  <1>10. /\ \A q \in Procs : Recording(q)' => FieldOf(Call(q))' \in Fields
         /\ \A q \in Procs : step'[q] = "add" => arc'[q] = 1 /\ perStream' # <<>>
    BY <1>2, <1>3, <1>4, <1>6, <1>9, RecordersKept
  <1> QED BY <1>8, <1>10 DEF CountInv

LEMMA AddToStreamCount ==
  ASSUME TypeOK, CountInv, NEW p \in Procs, AddToStream(p)
  PROVE  CountInv'
  <1> DEFINE g == FieldOf(Call(p))
  <1>1. step[p] = "add" /\ Returns(p) /\ UNCHANGED <<arc, total>>
    BY DEF AddToStream
  <1>2. step'[p] = "next"
    BY <1>1, ReturnsTyped DEF TypeOK
  <1>3. g \in Fields
    BY <1>1 DEF CountInv, Recording
  <1>4. ASSUME NEW f \in Fields
        PROVE  /\ f = g => InFlight(f)' = InFlight(f) \ {p} /\ p \in InFlight(f)
               /\ f # g => InFlight(f)' = InFlight(f)
    <2>1. ASSUME NEW q \in Procs, q # p
          PROVE  (Recording(q) /\ FieldOf(Call(q)) = f)' <=> Recording(q) /\ FieldOf(Call(q)) = f
      BY <1>1, <2>1, OthersRecord DEF Recording, FieldOf
    <2>2. Recording(p) /\ ~Recording(p)'
      BY <1>1, <1>2 DEF Recording
    <2> QED BY <2>1, <2>2 DEF InFlight, Recording
  <1>5. /\ perStream # <<>> /\ perStream' # <<>>
        /\ Head(perStream') = [Head(perStream) EXCEPT ![g] = @ + 1]
        /\ Head(perStream) \in [Fields -> Nat]
    BY AddedTyped
  <1> HIDE DEF g
  <1>6. ASSUME NEW f \in Fields
        PROVE  total'[f] = Head(perStream')[f] + Cardinality(InFlight(f)')
    <2>1. total[f] = Head(perStream)[f] + Cardinality(InFlight(f))
      BY <1>5 DEF CountInv, TotalsAreSums
    <2>2. Head(perStream)[f] \in Nat /\ Cardinality(InFlight(f)) \in Nat
      BY <1>5, InFlightFinite
    <2>3. CASE f = g
      <3>1. Cardinality(InFlight(f)') = Cardinality(InFlight(f)) - 1
        BY <1>4, <2>3, InFlightFinite, FS_RemoveElement
      <3>2. Head(perStream')[f] = Head(perStream)[f] + 1
        BY <1>3, <1>5, <2>3
      <3> QED BY <1>1, <2>1, <2>2, <3>1, <3>2
    <2>4. CASE f # g
      <3>1. Cardinality(InFlight(f)') = Cardinality(InFlight(f))
        BY <1>4, <2>4
      <3>2. Head(perStream')[f] = Head(perStream)[f]
        BY <1>5, <2>4
      <3> QED BY <1>1, <2>1, <3>1, <3>2
    <2> QED BY <2>3, <2>4
  <1>7. TotalsAreSums'
    BY <1>5, <1>6 DEF TotalsAreSums
  <1>8. /\ \A q \in Procs : Recording(q)' => FieldOf(Call(q))' \in Fields
        /\ \A q \in Procs : step'[q] = "add" => arc'[q] = 1 /\ perStream' # <<>>
    BY <1>1, <1>2, <1>5, RecordersKept
  <1> QED BY <1>7, <1>8 DEF CountInv

\* The other records, as far as this is about them.
LEMMA OtherRecordsQuiet ==
  ASSUME TypeOK, NEW p \in Procs,
         \/ RecordArrival(p) \/ AddInterval(p) \/ SetDuration(p)
         \/ SyncBegins(p)    \/ SyncGoesOn(p)
  PROVE  /\ UNCHANGED <<total, perStream, arc>>
         /\ Returns(p) \/ \E s \in Steps \ {"find", "add"} : Within(p, s)
         /\ step[p] \notin {"find", "add"}
  <1> USE DEF RecordArrival, AddInterval, SetDuration, SyncBegins, SyncGoesOn, Begins
  <1>1. UNCHANGED <<total, perStream, arc>>
    BY DEF shared
  <1>2. Returns(p) \/ \E s \in Steps \ {"find", "add"} : Within(p, s)
    BY DEF Steps
  <1>3. step[p] \notin {"find", "add"}
    OBVIOUS
  <1> QED BY <1>1, <1>2, <1>3

\* Where such a step ends.
LEMMA QuietAfter ==
  ASSUME TypeOK, NEW p \in Procs,
         Returns(p) \/ \E s \in Steps \ {"find", "add"} : Within(p, s)
  PROVE  ~Recording(p)' /\ (Returns(p) \/ \E s \in Steps : Within(p, s))
  <1>1. CASE Returns(p)
    <2>1. step'[p] = "next"
      BY <1>1, ReturnsTyped DEF TypeOK
    <2> QED BY <1>1, <2>1 DEF Recording
  <1>2. ASSUME NEW s \in Steps \ {"find", "add"}, Within(p, s)
        PROVE  ~Recording(p)' /\ \E r \in Steps : Within(p, r)
    <2>1. step'[p] = s
      BY <1>2 DEF Within, TypeOK
    <2> QED BY <1>2, <2>1 DEF Recording
  <1> QED BY <1>1, <1>2

\* A task comes to its script.
LEMMA StartsCount ==
  ASSUME TypeOK, CountInv, NEW p \in Procs, Starts(p)
  PROVE  CountInv'
  <1>1. UNCHANGED <<kind, step, total, perStream, arc>> /\ step[p] = "next"
    BY DEF Starts, shared
  <1>2. \A q \in Procs : q # p => Call(q)' = Call(q)
    <2>1. \A q \in Procs : q # p => at'[q] = at[q]
      BY DEF Starts, Enters, TypeOK
    <2> QED BY <1>1, <2>1 DEF Call, Part
  <1>3. ASSUME NEW q \in Procs
        PROVE  /\ Recording(q)' <=> Recording(q)
               /\ Recording(q) => FieldOf(Call(q))' = FieldOf(Call(q))
    BY <1>1, <1>2 DEF Recording, FieldOf
  <1>4. \A f \in Fields : InFlight(f)' = InFlight(f)
    BY <1>3 DEF InFlight, Recording
  <1>5. TotalsAreSums'
    BY <1>1, <1>4 DEF TotalsAreSums, CountInv
  <1> QED BY <1>1, <1>3, <1>5 DEF CountInv, Recording

LEMMA StepCount ==
  ASSUME TypeOK, CountInv, [Next]_vars
  PROVE  CountInv'
  <1>1. ASSUME NEW p \in Procs, Starts(p) PROVE CountInv'
    BY <1>1, StartsCount
  <1>2. ASSUME NEW p \in Procs, Records(p) PROVE CountInv'
    <2>1. CASE \E call \in {"sent", "received", "packet"} : AddToTotal(p, call)
      BY <2>1, AddToTotalCount
    <2>2. CASE FindStream(p)
      BY <2>2, FindStreamCount
    <2>3. CASE AddToStream(p)
      BY <2>3, AddToStreamCount
    <2>4. CASE \/ RecordArrival(p) \/ AddInterval(p) \/ SetDuration(p)
               \/ SyncBegins(p)    \/ SyncGoesOn(p)
      <3>1. /\ UNCHANGED <<total, perStream, arc>> /\ ~Recording(p)
            /\ Returns(p) \/ \E s \in Steps \ {"find", "add"} : Within(p, s)
        BY <2>4, OtherRecordsQuiet DEF Recording
      <3> QED BY <3>1, QuietAfter, QuietKept
    <2> QED BY <1>2, <2>1, <2>2, <2>3, <2>4 DEF Records
  <1>3. ASSUME NEW p \in Procs, Reads(p) PROVE CountInv'
    <2>1. /\ UNCHANGED <<total, perStream, arc>> /\ ~Recording(p)
          /\ Returns(p) \/ \E s \in Steps \ {"find", "add"} : Within(p, s)
      BY <1>3, ReadsKeep DEF Recording
    <2> QED BY <2>1, QuietAfter, QuietKept
  <1>4. CASE UNCHANGED vars
    BY <1>4 DEF vars, shared, CountInv, TotalsAreSums, InFlight, Recording, Call, Part, FieldOf
  <1> QED BY <1>1, <1>2, <1>3, <1>4 DEF Next, Finished

(***************************************************************************)
(* The ring.                                                               *)
(***************************************************************************)

\* What the ring is when so many intervals have been added.
Latest(n) == [i \in 1 .. Least(n, MaxIntervals) |-> Minus(n, MaxIntervals) + i]

LEMMA LatestFacts ==
  ASSUME NEW n \in Nat
  PROVE  /\ Latest(n) \in Seq(Nat)
         /\ Len(Latest(n)) = Least(n, MaxIntervals)
         /\ \A i \in 1 .. Least(n, MaxIntervals) : Latest(n)[i] = Minus(n, MaxIntervals) + i
  <1>1. Least(n, MaxIntervals) \in Nat /\ Minus(n, MaxIntervals) \in Nat
    BY BoundsAssumption DEF Least, Minus
  <1> DEFINE m == Least(n, MaxIntervals)
             d == Minus(n, MaxIntervals)
  <1>2. Latest(n) = [i \in 1 .. m |-> d + i]
    BY DEF Latest
  <1> HIDE DEF m, d
  <1>3. m \in Nat /\ d \in Nat
    BY <1>1 DEF m, d
  <1>4. Latest(n) \in [1 .. m -> Nat]
    BY <1>2, <1>3
  <1>5. Latest(n) \in Seq(Nat) /\ Len(Latest(n)) = m
    BY <1>3, <1>4
  <1>6. \A i \in 1 .. m : Latest(n)[i] = d + i
    BY <1>2
  <1> QED BY <1>5, <1>6 DEF m, d

\* The same, with the smaller and the difference spelt out.
IsLatest(s, n) ==
  /\ s \in Seq(Nat) /\ Len(s) = (IF n < MaxIntervals THEN n ELSE MaxIntervals)
  /\ \A i \in 1 .. Len(s) : s[i] = (IF n < MaxIntervals THEN 0 ELSE n - MaxIntervals) + i

LEMMA LatestShape == ASSUME NEW n \in Nat PROVE IsLatest(Latest(n), n)
  BY LatestFacts DEF IsLatest, Least, Minus

\* One more interval makes the latest of one more.
LEMMA LatestPushed ==
  ASSUME NEW n \in Nat
  PROVE  Pushed(Latest(n), n + 1) = Latest(n + 1)
  <1> DEFINE r == Latest(n)
             t == Pushed(r, n + 1)
  <1>1. MaxIntervals \in Nat /\ MaxIntervals >= 1
    BY BoundsAssumption
  <1>2. /\ r \in Seq(Nat) /\ Len(r) = (IF n < MaxIntervals THEN n ELSE MaxIntervals)
        /\ \A i \in 1 .. Len(r) : r[i] = (IF n < MaxIntervals THEN 0 ELSE n - MaxIntervals) + i
    BY LatestShape DEF IsLatest
  <1>3. IsLatest(Latest(n + 1), n + 1)
    <2>1. n + 1 \in Nat
      OBVIOUS
    <2> QED BY <2>1, LatestShape
  <1> HIDE DEF r
  <1>4. CASE n < MaxIntervals
    <2>1. t = Append(r, n + 1)
      BY <1>1, <1>2, <1>4 DEF Pushed
    <2>2. t \in Seq(Nat) /\ Len(t) = n + 1 /\ \A i \in 1 .. n + 1 : t[i] = i
      BY <1>2, <1>4, <2>1
    <2>3. Len(Latest(n + 1)) = n + 1 /\ \A i \in 1 .. n + 1 : Latest(n + 1)[i] = i
      BY <1>1, <1>3, <1>4 DEF IsLatest
    <2> HIDE DEF t
    <2>4. t = Latest(n + 1)
      BY <1>3, <2>2, <2>3, SeqEqual DEF IsLatest
    <2> QED BY <2>4 DEF r, t
  <1>5. CASE ~(n < MaxIntervals)
    <2>1. Len(r) = MaxIntervals /\ r # <<>>
      BY <1>1, <1>2, <1>5
    <2>2. t = Append(Tail(r), n + 1)
      BY <2>1, <1>1 DEF Pushed
    <2>3. /\ Tail(r) \in Seq(Nat) /\ Len(Tail(r)) = MaxIntervals - 1
          /\ \A i \in 1 .. MaxIntervals - 1 : Tail(r)[i] = r[i + 1]
      BY <1>1, <1>2, <2>1
    <2>4. \A i \in 1 .. MaxIntervals - 1 : Tail(r)[i] = n + 1 - MaxIntervals + i
      BY <1>1, <1>2, <1>5, <2>1, <2>3
    <2>5. /\ t \in Seq(Nat) /\ Len(t) = MaxIntervals
          /\ \A i \in 1 .. MaxIntervals : t[i] = n + 1 - MaxIntervals + i
      <3>1. n + 1 \in Nat /\ Tail(r) \in Seq(Nat)
        BY <2>3
      <3>2. /\ Append(Tail(r), n + 1) \in Seq(Nat)
            /\ Len(Append(Tail(r), n + 1)) = Len(Tail(r)) + 1
            /\ \A i \in 1 .. Len(Tail(r)) : Append(Tail(r), n + 1)[i] = Tail(r)[i]
            /\ Append(Tail(r), n + 1)[Len(Tail(r)) + 1] = n + 1
        BY <3>1
      <3> HIDE DEF t
      <3>3. /\ t \in Seq(Nat) /\ Len(t) = MaxIntervals
            /\ \A i \in 1 .. MaxIntervals - 1 : t[i] = Tail(r)[i]
            /\ t[MaxIntervals] = n + 1
        BY <1>1, <2>2, <2>3, <3>2
      <3>4. ASSUME NEW i \in 1 .. MaxIntervals
            PROVE  t[i] = n + 1 - MaxIntervals + i
        <4>1. CASE i = MaxIntervals
          BY <1>1, <3>3, <4>1
        <4>2. CASE i # MaxIntervals
          <5>1. i \in 1 .. MaxIntervals - 1
            BY <1>1, <4>2
          <5> QED BY <2>4, <3>3, <5>1
        <4> QED BY <4>1, <4>2
      <3> QED BY <3>3, <3>4
    <2>6. /\ Len(Latest(n + 1)) = MaxIntervals
          /\ \A i \in 1 .. MaxIntervals : Latest(n + 1)[i] = n + 1 - MaxIntervals + i
      BY <1>1, <1>3, <1>5 DEF IsLatest
    <2> HIDE DEF t
    <2>7. t = Latest(n + 1)
      <3>1. Len(t) = Len(Latest(n + 1)) /\ \A i \in 1 .. Len(t) : t[i] = Latest(n + 1)[i]
        BY <2>5, <2>6
      <3> QED BY <1>3, <2>5, <3>1, SeqEqual DEF IsLatest
    <2> QED BY <2>7 DEF r, t
  <1> QED BY <1>4, <1>5

LEMMA InitRing == Init => RingKeepsLast
  <1> SUFFICES ASSUME Init PROVE RingKeepsLast
    OBVIOUS
  <1>1. Latest(0) \in Seq(Nat) /\ Len(Latest(0)) = 0
    BY LatestFacts, BoundsAssumption DEF Least
  <1>2. Latest(0) = <<>>
    BY <1>1
  <1>3. inner.ring = <<>> /\ added = 0
    BY DEF Init
  <1> QED BY <1>2, <1>3 DEF RingKeepsLast, Latest

LEMMA StepRing ==
  ASSUME TypeOK, RingKeepsLast, [Next]_vars
  PROVE  RingKeepsLast'
  <1>1. ASSUME NEW p \in Procs, AddInterval(p) PROVE RingKeepsLast'
    <2>1. inner.ring = Latest(added) /\ added \in Nat
      BY DEF RingKeepsLast, Latest, TypeOK
    <2>2. inner'.ring = Pushed(inner.ring, added + 1) /\ added' = added + 1
      BY <1>1 DEF AddInterval, TypeOK
    <2>3. inner'.ring = Latest(added')
      BY <2>1, <2>2, LatestPushed
    <2> QED BY <2>3 DEF RingKeepsLast, Latest
  <1>2. CASE inner'.ring = inner.ring /\ added' = added
    BY <1>2 DEF RingKeepsLast
  <1>3. ASSUME NEW p \in Procs, Starts(p) \/ Reads(p) PROVE RingKeepsLast'
    <2>1. UNCHANGED <<inner, added>>
      BY <1>3, ReadsKeep DEF Starts, shared, past
    <2> QED BY <1>2, <2>1
  <1>4. ASSUME NEW p \in Procs, Records(p), ~AddInterval(p) PROVE RingKeepsLast'
    <2>1. inner'.ring = inner.ring /\ added' = added
      <3>1. CASE (\E call \in {"sent", "received", "packet"} : AddToTotal(p, call))
                   \/ FindStream(p) \/ AddToStream(p) \/ RecordArrival(p)
        BY <3>1 DEF AddToTotal, FindStream, AddToStream, RecordArrival, shared, past
      <3>2. CASE SetDuration(p) \/ SyncBegins(p) \/ SyncGoesOn(p)
        BY <3>2 DEF SetDuration, SyncBegins, SyncGoesOn, TypeOK
      <3> QED BY <1>4, <3>1, <3>2 DEF Records
    <2> QED BY <1>2, <2>1
  <1>5. CASE UNCHANGED vars
    BY <1>2, <1>5 DEF vars, shared, past
  <1> QED BY <1>1, <1>3, <1>4, <1>5 DEF Next, Finished

-----------------------------------------------------------------------------

LEMMA CountInvariant == Spec => [](TypeOK /\ CountInv)
  <1>1. Init => TypeOK /\ CountInv
    BY InitTyped, InitCount
  <1>2. TypeOK /\ CountInv /\ [Next]_vars => (TypeOK /\ CountInv)'
    BY StepTyped, StepCount
  <1> QED BY <1>1, <1>2, PTL DEF Spec

\* For any number of tasks: the collector's numbers keep their types, and there
\* is at most one stream, however many tasks look for it at once.
THEOREM CollectorTypeCorrect == Spec => []TypeOK
  BY CountInvariant, PTL

\* For any number of tasks of any kinds: a total is what the stream has plus
\* the calls that are on their way to it.
THEOREM TotalsAreAlwaysSums == Spec => []TotalsAreSums
  <1>1. CountInv => TotalsAreSums
    BY DEF CountInv
  <1> QED BY <1>1, CountInvariant, PTL

\* For any capacity and any number of tasks: the ring holds the latest
\* intervals, in order and without a gap.
THEOREM RingAlwaysKeepsLast == Spec => []RingKeepsLast
  <1>1. Init => RingKeepsLast
    BY InitRing
  <1>2. TypeOK /\ RingKeepsLast /\ [Next]_vars => RingKeepsLast'
    BY StepRing
  <1> QED BY <1>1, <1>2, CollectorTypeCorrect, PTL DEF Spec

(***************************************************************************)
(* What a reader holds.                                                    *)
(***************************************************************************)

\* A get() on its way.
Reading == {"sent", "received", "packets", "streams", "streamSent", "streamReceived",
            "loss", "got"}

Snapshots == [total : [Fields -> Nat], streams : Seq([Fields -> Nat]), duration : Nat,
              ring : Seq(Nat), lost : Nat]
Moments   == [total : [Fields -> Nat], first : [Fields -> Nat], duration : Nat,
              added : Nat, expected : Nat]

\* The collector has gone on since it had the numbers b.
Passed(b) ==
  /\ \A f \in Fields : b.total[f] <= total[f] /\ b.first[f] <= InStream(f)
  /\ b.duration <= timed /\ b.expected <= udp.expected

\* The totals, and the counters of the stream, that a get() has loaded.
LoadedAt(s) == CASE s = "sent"                -> {}
                 [] s = "received"            -> {"sent"}
                 [] s \in {"packets", "got"}  -> {"sent", "received"}
                 [] OTHER                     -> Fields
SeenAt(s)   == CASE s = "streamReceived"      -> {"sent"}
                 [] s \in {"loss", "got"}     -> {"sent", "received"}
                 [] OTHER                     -> {}

\* A number taken lies between the one at the call and the one now.
TotalTaken(m, b, f) == b.total[f] <= m.total[f] /\ m.total[f] <= total[f]

\* If there was a stream, it is found.
StreamFound(m, b) == \A f \in Fields : b.first[f] > 0 => m.streams # <<>>

StreamTaken(m, b, f) ==
  m.streams # <<>> => b.first[f] <= Head(m.streams)[f] /\ Head(m.streams)[f] <= InStream(f)

PacketsTaken(m, b) ==
  IF m.total.received > 0
    THEN b.expected <= m.total.packets /\ m.total.packets <= udp.expected
    ELSE TotalTaken(m, b, "packets")

\* What is right of a get() that began with the numbers b, has come to step s
\* and has made the snapshot m.
Taken(s, m, b) ==
  /\ m \in Snapshots /\ b \in Moments
  /\ Passed(b)
  /\ m.duration = b.duration /\ m.ring = Latest(b.added)
  /\ Len(m.streams) <= 1 /\ (m.streams # <<>> => perStream # <<>>)
  /\ \A f \in LoadedAt(s) : TotalTaken(m, b, f)
  /\ s \in {"streamReceived", "loss", "got"} => StreamFound(m, b)
  /\ \A f \in SeenAt(s) : StreamTaken(m, b, f)
  /\ s = "got" => PacketsTaken(m, b)

Losses == [lost : Nat, expected : Nat]

\* What a task holds for itself.
HeldTyped ==
  /\ snap \in [Procs -> Snapshots] /\ begin \in [Procs -> Moments]
  /\ loss \in [Procs -> Losses]    /\ DOMAIN printed = Procs
  /\ synced \in [Fields -> Nat]

\* Every get() on its way is right; the duration is the last that was set.
SnapInv ==
  /\ HeldTyped
  /\ inner.duration = timed
  /\ \A p \in Procs : step[p] \in Reading => Taken(step[p], snap[p], begin[p])

(***************************************************************************)
(* The numbers only grow.                                                  *)
(***************************************************************************)

LEMMA InStreamTyped == ASSUME TypeOK, NEW f \in Fields PROVE InStream(f) \in Nat
  <1>1. CASE perStream = <<>>
    BY <1>1 DEF InStream
  <1>2. CASE perStream # <<>>
    <2>1. Head(perStream) \in [Fields -> Nat]
      BY <1>2, AtMostOne DEF TypeOK
    <2> QED BY <1>2, <2>1 DEF InStream
  <1> QED BY <1>1, <1>2

LEMMA InStreamsTyped == TypeOK => \A f \in Fields : InStream(f) \in Nat
  BY InStreamTyped

\* What no step makes less.
Grown ==
  /\ \A f \in Fields : total[f] <= total'[f] /\ InStream(f) <= InStream(f)'
  /\ perStream # <<>> => perStream' # <<>>
  /\ timed <= timed' /\ udp.expected <= udp'.expected

LEMMA SameGrown ==
  ASSUME TypeOK, UNCHANGED <<total, perStream>>, timed <= timed', udp.expected <= udp'.expected
  PROVE  Grown
  <1>1. \A f \in Fields : total[f] <= total'[f]
    BY DEF TypeOK
  <1>2. \A f \in Fields : InStream(f) <= InStream(f)'
    <2>1. ASSUME NEW f \in Fields PROVE InStream(f) <= InStream(f)'
      <3>1. InStream(f)' = InStream(f)
        BY DEF InStream
      <3>2. InStream(f) \in Nat
        BY InStreamTyped
      <3> QED BY <3>1, <3>2
    <2> QED BY <2>1
  <1> QED BY <1>1, <1>2 DEF Grown

LEMMA StepGrows ==
  ASSUME TypeOK, CountInv, [Next]_vars
  PROVE  Grown
  <1>0. timed \in Nat /\ udp.expected \in Nat /\ timed <= timed /\ udp.expected <= udp.expected
    BY DEF TypeOK
  <1>1. ASSUME NEW p \in Procs, NEW call \in {"sent", "received", "packet"}, AddToTotal(p, call)
        PROVE  Grown
    <2>1. total' = [total EXCEPT ![FieldOf(call)] = @ + 1] /\ UNCHANGED <<perStream, udp, timed>>
      BY <1>1 DEF AddToTotal, past
    <2>2. \A f \in Fields : total[f] <= total'[f]
      BY <2>1 DEF TypeOK
    <2>3. ASSUME NEW f \in Fields PROVE InStream(f) <= InStream(f)'
      <3>1. InStream(f)' = InStream(f)
        BY <2>1 DEF InStream
      <3>2. InStream(f) \in Nat
        BY InStreamTyped
      <3> QED BY <3>1, <3>2
    <2> QED BY <1>0, <2>1, <2>2, <2>3 DEF Grown
  <1>2. ASSUME NEW p \in Procs, FindStream(p) PROVE Grown
    <2>1. UNCHANGED <<total, udp, timed>>
      BY <1>2 DEF FindStream, past
    <2>2. perStream' # <<>>
      BY <1>2, FoundTyped, EmptySeq
    <2>3. ASSUME NEW f \in Fields PROVE InStream(f) <= InStream(f)'
      <3>1. CASE perStream = <<>>
        <4>1. InStream(f) = 0 /\ InStream(f)' = 0
          BY <1>2, <2>2, <3>1, FoundTyped DEF InStream, Zero
        <4> QED BY <4>1
      <3>2. CASE perStream # <<>>
        <4>1. InStream(f)' = InStream(f)
          BY <1>2, <3>2, FoundTyped DEF InStream
        <4>2. InStream(f) \in Nat
          BY InStreamTyped
        <4> QED BY <4>1, <4>2
      <3> QED BY <3>1, <3>2
    <2>4. \A f \in Fields : total[f] <= total'[f]
      BY <2>1 DEF TypeOK
    <2> QED BY <1>0, <2>1, <2>2, <2>3, <2>4 DEF Grown
  <1>3. ASSUME NEW p \in Procs, AddToStream(p) PROVE Grown
    <2>1. UNCHANGED <<total, udp, timed>>
      BY <1>3 DEF AddToStream, past
    <2>2. /\ perStream # <<>> /\ perStream' # <<>>
          /\ Head(perStream') = [Head(perStream) EXCEPT ![FieldOf(Call(p))] = @ + 1]
          /\ Head(perStream) \in [Fields -> Nat]
      BY <1>3, AddedTyped
    <2>3. ASSUME NEW f \in Fields PROVE InStream(f) <= InStream(f)'
      BY <2>2 DEF InStream
    <2>4. \A f \in Fields : total[f] <= total'[f]
      BY <2>1 DEF TypeOK
    <2> QED BY <1>0, <2>1, <2>2, <2>3, <2>4 DEF Grown
  <1>4. ASSUME NEW p \in Procs, RecordArrival(p) PROVE Grown
    <2>1. UNCHANGED <<total, perStream, timed>>
      BY <1>4 DEF RecordArrival, shared, past
    <2>2. udp.expected <= udp'.expected
      <3>1. CASE UNCHANGED udp
        BY <1>0, <3>1
      <3>2. CASE udp' # udp
        <4>1. PICK seq \in 0 .. MaxSeq :
                udp' = [expected |-> IF seq >= udp.expected THEN seq + 1 ELSE udp.expected,
                        count    |-> udp.count + 1]
          BY <1>4, <3>2 DEF RecordArrival, shared
        <4>2. seq \in Nat
          BY BoundsAssumption
        <4> QED BY <1>0, <4>1, <4>2
      <3> QED BY <3>1, <3>2
    <2> QED BY <1>0, <2>1, <2>2, SameGrown
  <1>5. ASSUME NEW p \in Procs,
               AddInterval(p) \/ SetDuration(p) \/ SyncBegins(p) \/ SyncGoesOn(p)
        PROVE  Grown
    <2>1. UNCHANGED <<total, perStream, udp>>
      BY <1>5 DEF AddInterval, SetDuration, SyncBegins, SyncGoesOn
    <2>2. timed' = timed \/ timed' = timed + 1
      BY <1>5 DEF AddInterval, SetDuration, SyncBegins, SyncGoesOn
    <2>3. timed <= timed'
      BY <1>0, <2>2
    <2> QED BY <1>0, <2>1, <2>3, SameGrown
  <1>6. ASSUME NEW p \in Procs, Reads(p) PROVE Grown
    <2>1. UNCHANGED <<total, perStream, udp, timed>>
      BY <1>6, ReadsKeep
    <2> QED BY <1>0, <2>1, SameGrown
  <1>7. ASSUME NEW p \in Procs, Starts(p) PROVE Grown
    <2>1. UNCHANGED <<total, perStream, udp, timed>>
      BY <1>7 DEF Starts, shared, past
    <2> QED BY <1>0, <2>1, SameGrown
  <1>8. CASE UNCHANGED vars
    <2>1. UNCHANGED <<total, perStream, udp, timed>>
      BY <1>8 DEF vars, shared, past
    <2> QED BY <1>0, <2>1, SameGrown
  <1>9. ASSUME NEW p \in Procs, Records(p) PROVE Grown
    BY <1>1, <1>2, <1>3, <1>4, <1>5, <1>9 DEF Records
  <1> QED BY <1>6, <1>7, <1>8, <1>9 DEF Next, Finished

(***************************************************************************)
(* What a get() takes.                                                     *)
(***************************************************************************)

\* It stays right while others go on.
LEMMA TakenStays ==
  ASSUME TypeOK, TypeOK', Grown, NEW p \in Procs, Taken(step[p], snap[p], begin[p]),
         step'[p] = step[p], snap'[p] = snap[p], begin'[p] = begin[p]
  PROVE  Taken(step[p], snap[p], begin[p])'
  <1> DEFINE m == snap[p]
             b == begin[p]
  <1>1. m \in Snapshots /\ b \in Moments
    BY DEF Taken
  <1>2. \A f \in Fields : /\ total[f] \in Nat /\ total'[f] \in Nat /\ total[f] <= total'[f]
                          /\ InStream(f) \in Nat /\ InStream(f)' \in Nat
                          /\ InStream(f) <= InStream(f)'
    <2>1. \A f \in Fields : InStream(f) \in Nat
      BY InStreamsTyped
    <2>2. (\A f \in Fields : InStream(f) \in Nat)'
      BY InStreamsTyped, PTL
    <2> QED BY <2>1, <2>2 DEF Grown, TypeOK
  <1>3. /\ timed \in Nat /\ timed' \in Nat /\ timed <= timed'
        /\ udp.expected \in Nat /\ udp'.expected \in Nat /\ udp.expected <= udp'.expected
    BY DEF Grown, TypeOK
  <1>4. /\ m.total \in [Fields -> Nat] /\ m.duration \in Nat
        /\ b.total \in [Fields -> Nat] /\ b.first \in [Fields -> Nat]
        /\ b.duration \in Nat /\ b.expected \in Nat
    BY <1>1 DEF Snapshots, Moments
  <1>5. m.streams # <<>> => Head(m.streams) \in [Fields -> Nat]
    <2>1. m.streams \in Seq([Fields -> Nat]) /\ Len(m.streams) <= 1
      BY <1>1 DEF Snapshots, Taken
    <2> QED BY <2>1, AtMostOne
  <1>6. Passed(begin[p])'
    <2>1. Passed(b)
      BY DEF Taken
    <2>2. \A f \in Fields : b.total[f] <= total'[f] /\ b.first[f] <= InStream(f)'
      <3>1. ASSUME NEW f \in Fields PROVE b.total[f] <= total'[f] /\ b.first[f] <= InStream(f)'
        <4>1. b.total[f] \in Nat /\ b.first[f] \in Nat
          BY <1>4
        <4>2. b.total[f] <= total[f] /\ b.first[f] <= InStream(f)
          BY <2>1 DEF Passed
        <4> QED BY <1>2, <4>1, <4>2
      <3> QED BY <3>1
    <2>3. b.duration <= timed' /\ b.expected <= udp'.expected
      BY <1>3, <1>4, <2>1 DEF Passed
    <2> QED BY <2>2, <2>3 DEF Passed
  <1>7. ASSUME NEW f \in Fields, TotalTaken(m, b, f)
        PROVE  TotalTaken(snap[p], begin[p], f)'
    <2>1. m.total[f] \in Nat
      BY <1>4
    <2> QED BY <1>2, <1>7, <2>1 DEF TotalTaken
  <1>8. ASSUME NEW f \in Fields, StreamTaken(m, b, f)
        PROVE  StreamTaken(snap[p], begin[p], f)'
    <2>1. CASE m.streams = <<>>
      BY <1>8, <2>1 DEF StreamTaken
    <2>2. CASE m.streams # <<>>
      <3>1. Head(m.streams)[f] \in Nat
        BY <1>5, <2>2
      <3>2. b.first[f] <= Head(m.streams)[f] /\ Head(m.streams)[f] <= InStream(f)
        BY <1>8, <2>2 DEF StreamTaken
      <3>3. Head(m.streams)[f] <= InStream(f)'
        BY <1>2, <3>1, <3>2
      <3> QED BY <2>2, <3>2, <3>3 DEF StreamTaken
    <2> QED BY <2>1, <2>2
  <1>9. PacketsTaken(m, b) => PacketsTaken(snap[p], begin[p])'
    <2>1. "packets" \in Fields /\ "received" \in Fields
      BY DEF Fields
    <2>2. m.total["packets"] \in Nat
      BY <1>4, <2>1
    <2>3. CASE m.total.received > 0
      BY <1>3, <2>2, <2>3 DEF PacketsTaken
    <2>4. CASE ~(m.total.received > 0)
      BY <1>7, <2>1, <2>4 DEF PacketsTaken
    <2> QED BY <2>3, <2>4
  <1>10. LoadedAt(step[p]) \subseteq Fields /\ SeenAt(step[p]) \subseteq Fields
    BY DEF LoadedAt, SeenAt, Fields
  <1>11. \A f \in LoadedAt(step'[p]) : TotalTaken(snap[p], begin[p], f)'
    BY <1>7, <1>10 DEF Taken
  <1>12. \A f \in SeenAt(step'[p]) : StreamTaken(snap[p], begin[p], f)'
    BY <1>8, <1>10 DEF Taken
  <1>13. m.streams # <<>> => perStream' # <<>>
    BY DEF Grown, Taken
  <1>14. step'[p] = "got" => PacketsTaken(snap[p], begin[p])'
    BY <1>9 DEF Taken
  <1>15. /\ snap'[p].duration = begin'[p].duration /\ snap'[p].ring = Latest(begin'[p].added)
         /\ Len(snap'[p].streams) <= 1
    BY DEF Taken
  <1>16. step'[p] \in {"streamReceived", "loss", "got"} => StreamFound(snap[p], begin[p])'
    BY DEF Taken, StreamFound, Fields
  <1> QED BY <1>1, <1>6, <1>11, <1>12, <1>13, <1>14, <1>15, <1>16
          DEF Taken, LoadedAt, SeenAt, Snapshots, Moments, Latest


\* A step of the get() itself changes none of the numbers.
LEMMA TakenOn ==
  ASSUME TypeOK, NEW p \in Procs, UNCHANGED <<total, perStream, udp, timed>>,
         begin'[p] = begin[p], Taken(step[p], snap[p], begin[p]),
         snap'[p] \in Snapshots, snap'[p].duration = snap[p].duration,
         snap'[p].ring = snap[p].ring,
         Len(snap'[p].streams) <= 1, snap'[p].streams # <<>> => perStream # <<>>,
         \A f \in LoadedAt(step'[p]) : TotalTaken(snap'[p], begin[p], f),
         step'[p] \in {"streamReceived", "loss", "got"} => StreamFound(snap'[p], begin[p]),
         \A f \in SeenAt(step'[p]) : StreamTaken(snap'[p], begin[p], f),
         step'[p] = "got" => PacketsTaken(snap'[p], begin[p])
  PROVE  Taken(step[p], snap[p], begin[p])'
  <1>1. \A f : InStream(f)' = InStream(f)
    BY DEF InStream
  <1>2. Passed(begin[p])'
    BY <1>1 DEF Passed, Taken
  <1>3. \A f : TotalTaken(snap'[p], begin[p], f) => TotalTaken(snap[p], begin[p], f)'
    BY DEF TotalTaken
  <1>4. \A f : StreamTaken(snap'[p], begin[p], f) => StreamTaken(snap[p], begin[p], f)'
    BY <1>1 DEF StreamTaken
  <1>5. PacketsTaken(snap'[p], begin[p]) => PacketsTaken(snap[p], begin[p])'
    BY DEF PacketsTaken, TotalTaken
  <1>6. \A f \in LoadedAt(step'[p]) : TotalTaken(snap[p], begin[p], f)'
    BY <1>3
  <1>7. \A f \in SeenAt(step'[p]) : StreamTaken(snap[p], begin[p], f)'
    BY <1>4
  <1>8. begin'[p] \in Moments /\ snap'[p].duration = begin'[p].duration
        /\ snap'[p].ring = Latest(begin'[p].added)
    BY DEF Taken
  <1>9. step'[p] \in {"streamReceived", "loss", "got"} => StreamFound(snap[p], begin[p])'
    BY DEF StreamFound, Fields
  <1> QED BY <1>2, <1>5, <1>6, <1>7, <1>8, <1>9
          DEF Taken, LoadedAt, SeenAt, Snapshots, Moments, Latest

\* The moments there are.
LEMMA NumbersTyped ==
  ASSUME TypeOK
  PROVE  /\ Numbers \in Moments
         /\ \A f \in Fields : Numbers.first[f] = InStream(f)
         /\ NoSnap \in Snapshots /\ NotCalled \in Moments /\ NoLoss \in Losses
         /\ Loss(udp) \in Losses
  <1>1. Zero \in [Fields -> Nat]
    BY DEF Zero
  <1>2. perStream # <<>> => Head(perStream) \in [Fields -> Nat]
    BY AtMostOne DEF TypeOK
  <1>3. Numbers.first \in [Fields -> Nat]
    BY <1>1, <1>2 DEF Numbers
  <1>4. \A f \in Fields : Numbers.first[f] = InStream(f)
    BY DEF Numbers, InStream, Zero
  <1>5. total \in [Fields -> Nat] /\ timed \in Nat /\ added \in Nat /\ udp.expected \in Nat
        /\ udp.count \in Nat
    BY DEF TypeOK
  <1>6. Numbers \in Moments
    BY <1>3, <1>5 DEF Numbers, Moments
  <1>7. <<>> \in Seq([Fields -> Nat]) /\ <<>> \in Seq(Nat)
    BY EmptySeq
  <1>8. NoSnap \in Snapshots
    BY <1>1, <1>7 DEF NoSnap, Snapshots
  <1>9. NotCalled \in Moments /\ NoLoss \in Losses
    BY <1>1 DEF NotCalled, Moments, NoLoss, Losses
  <1>10. Loss(udp) \in Losses
    BY <1>5 DEF Loss, Losses, Minus
  <1> QED BY <1>4, <1>6, <1>8, <1>9, <1>10

LEMMA ClonesTaken ==
  ASSUME TypeOK, RingKeepsLast, SnapInv, NEW p \in Procs, GetClones(p)
  PROVE  snap'[p] \in Snapshots /\ Taken(step[p], snap[p], begin[p])'
  <1> DEFINE m == [NoSnap EXCEPT !.total = inner.total, !.duration = inner.duration,
                                 !.ring = inner.ring]
  <1>1. /\ snap' = [snap EXCEPT ![p] = m] /\ begin' = [begin EXCEPT ![p] = Numbers]
        /\ UNCHANGED <<total, perStream, udp, timed>> /\ Within(p, "sent")
    BY DEF GetClones, shared
  <1>2. snap'[p] = m /\ begin'[p] = Numbers /\ step'[p] = "sent"
    BY <1>1 DEF SnapInv, HeldTyped, Within, TypeOK
  <1>3. /\ inner.total \in [Fields -> Nat] /\ inner.duration \in Nat
        /\ inner.ring \in Seq(Nat)
    BY DEF TypeOK
  <1>4. m \in Snapshots
    BY <1>3, NumbersTyped DEF NoSnap, Snapshots
  <1>5. m.duration = timed /\ m.ring = Latest(added) /\ m.streams = <<>>
    BY DEF SnapInv, RingKeepsLast, Latest, NoSnap
  <1>6. Numbers.duration = timed /\ Numbers.added = added /\ Numbers.total = total
        /\ Numbers.expected = udp.expected
    BY DEF Numbers
  <1>7. Passed(Numbers)
    <2>1. \A f \in Fields : total[f] \in Nat /\ InStream(f) \in Nat
      BY InStreamTyped DEF TypeOK
    <2>2. timed \in Nat /\ udp.expected \in Nat
      BY DEF TypeOK
    <2> QED BY <1>6, <2>1, <2>2, NumbersTyped DEF Passed
  <1>8. Passed(begin[p])'
    <2>1. \A f : InStream(f)' = InStream(f)
      BY <1>1 DEF InStream
    <2> QED BY <1>1, <1>2, <1>7, <2>1 DEF Passed
  <1>9. LoadedAt(step'[p]) = {} /\ SeenAt(step'[p]) = {} /\ step'[p] # "got"
    BY <1>2 DEF LoadedAt, SeenAt
  <1>10. Len(m.streams) <= 1
    BY <1>5, EmptySeq
  <1> HIDE DEF m
  <1> QED BY <1>2, <1>4, <1>5, <1>6, <1>8, <1>9, <1>10, NumbersTyped
          DEF Taken, LoadedAt, SeenAt, Snapshots, Moments, Latest

LEMMA LoadsTaken ==
  ASSUME TypeOK, SnapInv, NEW p \in Procs,
         NEW f \in Fields, NEW next \in {"received", "packets", "streams"},
         GetLoads(p, f, next),
         <<f, next>> \in {<<"sent", "received">>, <<"received", "packets">>, <<"packets", "streams">>}
  PROVE  snap'[p] \in Snapshots /\ Taken(step[p], snap[p], begin[p])'
  <1> DEFINE m == snap[p]
  <1>1. /\ step[p] = f /\ step[p] \in Reading
        /\ snap' = [snap EXCEPT ![p].total[f] = total[f]] /\ UNCHANGED begin
        /\ UNCHANGED <<total, perStream, udp, timed>> /\ Within(p, next)
    BY DEF GetLoads, shared, past, Reading, Fields
  <1>2. Taken(step[p], m, begin[p])
    BY <1>1 DEF SnapInv
  <1>3. m \in Snapshots /\ begin[p] \in Moments
    BY <1>2 DEF Taken
  <1>4. snap'[p] = [m EXCEPT !.total = [m.total EXCEPT ![f] = total[f]]] /\ step'[p] = next
    BY <1>1 DEF SnapInv, HeldTyped, Within, TypeOK
  <1>5. total[f] \in Nat /\ m.total \in [Fields -> Nat]
    BY <1>3 DEF TypeOK, Snapshots
  <1>6. [m.total EXCEPT ![f] = total[f]] \in [Fields -> Nat]
    BY <1>5
  <1>7. snap'[p] \in Snapshots
    BY <1>3, <1>4, <1>6 DEF Snapshots
  <1>8. /\ snap'[p].duration = m.duration /\ snap'[p].ring = m.ring
        /\ snap'[p].streams = m.streams
    BY <1>3, <1>4 DEF Snapshots
  <1>9. snap'[p].total = [m.total EXCEPT ![f] = total[f]]
    BY <1>3, <1>4 DEF Snapshots
  <1>10. TotalTaken(snap'[p], begin[p], f)
    <2>1. begin[p].total[f] <= total[f]
      BY <1>2 DEF Taken, Passed
    <2> QED BY <1>5, <1>9, <2>1 DEF TotalTaken
  <1>11. \A g \in Fields : g # f /\ TotalTaken(m, begin[p], g) => TotalTaken(snap'[p], begin[p], g)
    BY <1>5, <1>9 DEF TotalTaken
  <1>12. \A g \in LoadedAt(next) : g \in Fields /\ (g = f \/ g \in LoadedAt(step[p]))
    BY <1>1 DEF LoadedAt, Fields
  <1>13. \A g \in LoadedAt(step'[p]) : TotalTaken(snap'[p], begin[p], g)
    BY <1>2, <1>4, <1>10, <1>11, <1>12 DEF Taken
  <1>14. SeenAt(step'[p]) = {} /\ step'[p] \notin {"streamReceived", "loss", "got"}
    BY <1>4 DEF SeenAt
  <1>15. Len(m.streams) <= 1 /\ (m.streams # <<>> => perStream # <<>>)
    BY <1>2 DEF Taken
  <1> QED BY <1>1, <1>2, <1>7, <1>8, <1>13, <1>14, <1>15, TakenOn


\* A list of none or one.
LEMMA Listed ==
  ASSUME NEW S, NEW n \in Nat, n <= 1, NEW r \in [1 .. n -> S]
  PROVE  /\ r \in Seq(S) /\ Len(r) = n /\ Len(r) <= 1
         /\ r # <<>> => n = 1 /\ Head(r) = r[1]
         /\ n = 1 => r # <<>>
  <1>1. r \in Seq(S) /\ Len(r) = n
    OBVIOUS
  <1>2. CASE n = 1
    BY <1>1, <1>2, AtMostOne
  <1>3. CASE n = 0
    BY <1>1, <1>3, EmptySeq
  <1> QED BY <1>1, <1>2, <1>3

\* One field of the stream is loaded.
LEMMA StreamLoaded ==
  ASSUME TypeOK, NEW q \in Seq([Fields -> Nat]), Len(q) <= 1, NEW f \in Fields,
         q # <<>> => perStream # <<>>,
         NEW r, r = [i \in 1 .. Len(q) |-> [q[i] EXCEPT ![f] = perStream[i][f]]]
  PROVE  /\ r \in Seq([Fields -> Nat]) /\ Len(r) <= 1 /\ (r # <<>> <=> q # <<>>)
         /\ r # <<>> => Head(r) = [Head(q) EXCEPT ![f] = InStream(f)]
         /\ q # <<>> => Head(q) \in [Fields -> Nat]
  <1>1. Len(q) \in Nat
    BY LenProperties
  <1>2. q # <<>> => /\ Len(q) = 1 /\ q[1] \in [Fields -> Nat] /\ Head(q) = q[1]
                    /\ perStream[1] \in [Fields -> Nat] /\ Head(perStream) = perStream[1]
    BY AtMostOne DEF TypeOK
  <1>3. CASE q = <<>>
    <2>1. Len(q) = 0 /\ 1 .. 0 = {}
      BY <1>3, EmptySeq
    <2>2. r \in [1 .. Len(q) -> [Fields -> Nat]]
      BY <2>1
    <2> QED BY <1>1, <1>3, <2>1, <2>2, Listed
  <1>4. CASE q # <<>>
    <2>1. Len(q) = 1 /\ 1 .. 1 = {1}
      BY <1>2, <1>4
    <2>2. [q[1] EXCEPT ![f] = perStream[1][f]] \in [Fields -> Nat]
      BY <1>2, <1>4
    <2>3. r \in [1 .. Len(q) -> [Fields -> Nat]] /\ r[1] = [q[1] EXCEPT ![f] = perStream[1][f]]
      BY <2>1, <2>2
    <2>4. r \in Seq([Fields -> Nat]) /\ Len(r) = 1 /\ r # <<>> /\ Head(r) = r[1]
      BY <2>1, <2>3, Listed
    <2>5. InStream(f) = perStream[1][f]
      BY <1>2, <1>4 DEF InStream
    <2> QED BY <1>2, <1>4, <2>3, <2>4, <2>5
  <1> QED BY <1>3, <1>4

LEMMA StreamsTaken ==
  ASSUME TypeOK, SnapInv, NEW p \in Procs, GetStreams(p)
  PROVE  snap'[p] \in Snapshots /\ Taken(step[p], snap[p], begin[p])'
  <1> DEFINE m == snap[p]
             b == begin[p]
  <1>1. UNCHANGED <<total, perStream, udp, timed, begin>>
    BY DEF GetStreams, past
  <1>2. step[p] \in {"streams", "streamSent", "streamReceived"}
    BY DEF GetStreams
  <1>3. Taken(step[p], m, b)
    BY <1>2 DEF SnapInv, Reading
  <1>4. m \in Snapshots /\ b \in Moments /\ Passed(b)
    BY <1>3 DEF Taken
  <1>5. /\ m.streams \in Seq([Fields -> Nat]) /\ Len(m.streams) <= 1
        /\ m.streams # <<>> => perStream # <<>>
        /\ m.total \in [Fields -> Nat] /\ b.first \in [Fields -> Nat]
    BY <1>3, <1>4 DEF Taken, Snapshots, Moments
  <1>6. perStream \in Seq([Fields -> Nat]) /\ Len(perStream) <= 1
    BY DEF TypeOK
  <1>7. \A f \in Fields : TotalTaken(m, b, f)
    BY <1>2, <1>3 DEF Taken, LoadedAt
  <1>8. \A f \in Fields : InStream(f) \in Nat /\ b.first[f] <= InStream(f) /\ b.first[f] \in Nat
    BY <1>4, <1>5, InStreamTyped DEF Passed
  <1>9. \A f \in Fields : b.first[f] > 0 => perStream # <<>>
    BY <1>8 DEF InStream
  <1>10. "sent" \in Fields /\ "received" \in Fields /\ Zero \in [Fields -> Nat]
    BY DEF Fields, Zero
  <1>11. CASE step[p] = "streams"
    <2>1. snap' = snap /\ step'[p] = "streamSent"
      BY <1>11 DEF GetStreams, Within, TypeOK
    <2>2. /\ SeenAt(step'[p]) = {} /\ LoadedAt(step'[p]) = Fields
          /\ step'[p] \notin {"streamReceived", "loss", "got"}
      BY <2>1 DEF SeenAt, LoadedAt
    <2> QED BY <1>1, <1>3, <1>4, <1>5, <1>7, <2>1, <2>2, TakenOn
  <1>12. CASE step[p] = "streamSent"
    <2> DEFINE r == [i \in 1 .. Len(perStream) |-> [Zero EXCEPT !.sent = perStream[i].sent]]
    <2>1. snap' = [snap EXCEPT ![p].streams = r] /\ step'[p] = "streamReceived"
      BY <1>12 DEF GetStreams, Within, TypeOK
    <2>2. snap'[p] = [m EXCEPT !.streams = r]
      BY <2>1 DEF SnapInv, HeldTyped
    <2>3. r \in [1 .. Len(perStream) -> [Fields -> Nat]]
      <3>1. \A i \in 1 .. Len(perStream) : perStream[i] \in [Fields -> Nat]
        BY <1>6
      <3>2. \A i \in 1 .. Len(perStream) : perStream[i].sent \in Nat
        BY <1>10, <3>1
      <3> QED BY <1>10, <3>2
    <2>4. Len(perStream) \in Nat /\ (perStream # <<>> => Len(perStream) = 1 /\ Head(perStream) = perStream[1])
      BY <1>6, AtMostOne, LenProperties
    <2>5. /\ r \in Seq([Fields -> Nat]) /\ Len(r) <= 1
          /\ r # <<>> => Len(perStream) = 1 /\ Head(r) = r[1]
          /\ perStream # <<>> => r # <<>>
      BY <1>6, <2>3, <2>4, Listed
    <2>6. r # <<>> => perStream # <<>>
      BY <2>5, EmptySeq
    <2>7. r # <<>> => Head(r)["sent"] = InStream("sent")
      <3>1. SUFFICES ASSUME r # <<>> PROVE Head(r)["sent"] = InStream("sent")
        OBVIOUS
      <3>2. 1 \in 1 .. Len(perStream)
        BY <2>5, <3>1
      <3>3. r[1] = [Zero EXCEPT !.sent = perStream[1].sent]
        BY <3>2
      <3>4. r[1]["sent"] = perStream[1]["sent"]
        BY <1>10, <3>3
      <3> QED BY <2>4, <2>5, <2>6, <3>1, <3>4 DEF InStream
    <2> HIDE DEF r
    <2>8. /\ snap'[p] \in Snapshots /\ snap'[p].duration = m.duration /\ snap'[p].ring = m.ring
          /\ snap'[p].streams = r /\ snap'[p].total = m.total
      BY <1>4, <2>2, <2>5 DEF Snapshots
    <2>9. StreamTaken(snap'[p], b, "sent")
      BY <1>8, <1>9, <1>10, <2>5, <2>6, <2>7, <2>8 DEF StreamTaken
    <2>10. SeenAt(step'[p]) = {"sent"} /\ LoadedAt(step'[p]) = Fields /\ step'[p] # "got"
      BY <2>1 DEF SeenAt, LoadedAt
    <2>11. \A f \in Fields : TotalTaken(snap'[p], b, f)
      BY <1>7, <2>8 DEF TotalTaken
    <2>12. StreamFound(snap'[p], b)
      BY <1>9, <2>5, <2>8 DEF StreamFound
    <2> QED BY <1>1, <1>3, <2>5, <2>6, <2>8, <2>9, <2>10, <2>11, <2>12, TakenOn
  <1>13. CASE step[p] = "streamReceived"
    <2> DEFINE q == m.streams
               r == [i \in 1 .. Len(q) |-> [q[i] EXCEPT !.received = perStream[i].received]]
    <2>1. snap' = [snap EXCEPT ![p].streams = r] /\ step'[p] = "loss"
      BY <1>13 DEF GetStreams, Within, TypeOK, SnapInv, HeldTyped
    <2>2. snap'[p] = [m EXCEPT !.streams = r]
      BY <2>1 DEF SnapInv, HeldTyped
    <2>3. /\ r \in Seq([Fields -> Nat]) /\ Len(r) <= 1 /\ (r # <<>> <=> q # <<>>)
          /\ r # <<>> => Head(r) = [Head(q) EXCEPT !["received"] = InStream("received")]
          /\ q # <<>> => Head(q) \in [Fields -> Nat]
      <3>1. r = [i \in 1 .. Len(q) |-> [q[i] EXCEPT !["received"] = perStream[i]["received"]]]
        OBVIOUS
      <3> HIDE DEF q, r
      <3>2. /\ q \in Seq([Fields -> Nat]) /\ Len(q) <= 1 /\ (q # <<>> => perStream # <<>>)
        BY <1>5 DEF q
      <3> QED BY <1>10, <3>1, <3>2, StreamLoaded
    <2>4. StreamTaken(m, b, "sent") /\ StreamFound(m, b)
      BY <1>3, <1>13 DEF Taken, SeenAt
    <2> HIDE DEF r
    <2>5. /\ snap'[p] \in Snapshots /\ snap'[p].duration = m.duration /\ snap'[p].ring = m.ring
          /\ snap'[p].streams = r /\ snap'[p].total = m.total
      BY <1>4, <2>2, <2>3 DEF Snapshots
    <2>6. r # <<>> => Head(r)["sent"] = Head(q)["sent"] /\ Head(r)["received"] = InStream("received")
      BY <1>10, <2>3
    <2>7. StreamFound(snap'[p], b)
      BY <2>3, <2>4, <2>5 DEF StreamFound
    <2>8. StreamTaken(snap'[p], b, "sent")
      BY <2>3, <2>4, <2>5, <2>6 DEF StreamTaken
    <2>9. StreamTaken(snap'[p], b, "received")
      <3>1. r # <<>> => Head(r)["received"] \in Nat
        BY <1>8, <1>10, <2>6
      <3> QED BY <1>8, <1>10, <2>3, <2>5, <2>6, <3>1 DEF StreamTaken
    <2>10. SeenAt(step'[p]) = {"sent", "received"} /\ LoadedAt(step'[p]) = Fields /\ step'[p] # "got"
      BY <2>1 DEF SeenAt, LoadedAt
    <2>11. \A f \in Fields : TotalTaken(snap'[p], b, f)
      BY <1>7, <2>5 DEF TotalTaken
    <2> QED BY <1>1, <1>3, <1>5, <2>3, <2>5, <2>7, <2>8, <2>9, <2>10, <2>11, TakenOn
  <1> QED BY <1>2, <1>11, <1>12, <1>13


LEMMA LossTaken ==
  ASSUME TypeOK, SnapInv, NEW p \in Procs, GetLoss(p)
  PROVE  snap'[p] \in Snapshots /\ Taken(step[p], snap[p], begin[p])'
  <1> DEFINE m == snap[p]
             b == begin[p]
  <1>1. UNCHANGED <<total, perStream, udp, timed, begin>> /\ step[p] = "loss" /\ step'[p] = "got"
    BY DEF GetLoss, shared, past, Within, TypeOK
  <1>2. Taken(step[p], m, b)
    BY <1>1 DEF SnapInv, Reading
  <1>3. /\ m \in Snapshots /\ b \in Moments /\ Passed(b)
        /\ Len(m.streams) <= 1 /\ (m.streams # <<>> => perStream # <<>>)
        /\ m.total \in [Fields -> Nat]
    BY <1>2 DEF Taken, Snapshots
  <1>4. \A f \in Fields : TotalTaken(m, b, f)
    BY <1>1, <1>2 DEF Taken, LoadedAt
  <1>5. StreamFound(m, b) /\ StreamTaken(m, b, "sent") /\ StreamTaken(m, b, "received")
    BY <1>1, <1>2 DEF Taken, SeenAt
  <1>6. SeenAt(step'[p]) = {"sent", "received"} /\ LoadedAt(step'[p]) = {"sent", "received"}
    BY <1>1 DEF SeenAt, LoadedAt
  <1>7. Fields = {"sent", "received", "packets"}
    BY DEF Fields
  <1>8. CASE m.total.received > 0
    <2>1. snap' = [snap EXCEPT ![p].lost = Loss(udp).lost,
                               ![p].total.packets = Loss(udp).expected]
      BY <1>8 DEF GetLoss
    <2>2. snap'[p] = [m EXCEPT !.lost = Loss(udp).lost, !.total.packets = Loss(udp).expected]
      BY <2>1 DEF SnapInv, HeldTyped
    <2>3. Loss(udp).lost \in Nat /\ Loss(udp).expected = udp.expected /\ udp.expected \in Nat
      BY NumbersTyped DEF Losses, Loss, TypeOK
    <2>4. [m.total EXCEPT !["packets"] = udp.expected] \in [Fields -> Nat]
      BY <1>3, <2>3
    <2>5. snap'[p] = [m EXCEPT !.lost = Loss(udp).lost,
                               !.total = [m.total EXCEPT !["packets"] = udp.expected]]
      BY <1>3, <2>2, <2>3 DEF Snapshots
    <2>6. /\ snap'[p] \in Snapshots /\ snap'[p].duration = m.duration /\ snap'[p].ring = m.ring
          /\ snap'[p].streams = m.streams
          /\ snap'[p].total = [m.total EXCEPT !["packets"] = udp.expected]
      BY <1>3, <2>3, <2>4, <2>5 DEF Snapshots
    <2>7. /\ snap'[p].total["sent"] = m.total["sent"]
          /\ snap'[p].total["received"] = m.total["received"]
          /\ snap'[p].total["packets"] = udp.expected
      BY <1>3, <1>7, <2>6
    <2>8. PacketsTaken(snap'[p], b)
      BY <1>3, <1>8, <2>3, <2>7 DEF PacketsTaken, Passed
    <2>9. TotalTaken(snap'[p], b, "sent") /\ TotalTaken(snap'[p], b, "received")
      BY <1>4, <1>7, <2>7 DEF TotalTaken
    <2>10. /\ StreamFound(snap'[p], b) /\ StreamTaken(snap'[p], b, "sent")
           /\ StreamTaken(snap'[p], b, "received")
      BY <1>5, <2>6 DEF StreamTaken, StreamFound
    <2> QED BY <1>1, <1>2, <1>3, <1>6, <2>6, <2>8, <2>9, <2>10, TakenOn
  <1>9. CASE ~(m.total.received > 0)
    <2>1. snap' = snap
      BY <1>9 DEF GetLoss
    <2>2. PacketsTaken(m, b)
      BY <1>4, <1>7, <1>9 DEF PacketsTaken
    <2> QED BY <1>1, <1>2, <1>3, <1>4, <1>5, <1>6, <1>7, <2>1, <2>2, TakenOn
  <1> QED BY <1>8, <1>9

\* What a task holds changes with its own steps only.
LEMMA OthersHold ==
  ASSUME TypeOK, HeldTyped, NEW p \in Procs, Starts(p) \/ Records(p) \/ Reads(p),
         NEW q \in Procs, q # p
  PROVE  /\ step'[q] = step[q] /\ snap'[q] = snap[q] /\ begin'[q] = begin[q]
         /\ loss'[q] = loss[q] /\ printed'[q] = printed[q]
         /\ at'[q] = at[q] /\ kind' = kind
  <1>1. CASE Starts(p)
    BY <1>1 DEF Starts, Enters, past, TypeOK
  <1>2. CASE Records(p)
    <2>1. UNCHANGED <<snap, loss, printed>>
      BY <1>2 DEF Records, AddToTotal, FindStream, AddToStream, RecordArrival, AddInterval,
                  SetDuration, SyncBegins, SyncGoesOn
    <2>2. begin'[q] = begin[q]
      BY <1>2 DEF Records, AddToTotal, FindStream, AddToStream, RecordArrival, AddInterval,
                  SetDuration, SyncBegins, SyncGoesOn, past, HeldTyped
    <2>3. Returns(p) \/ \E s \in Steps : Within(p, s)
      BY <1>2 DEF Records, AddToTotal, FindStream, AddToStream, RecordArrival, AddInterval,
                  SetDuration, SyncBegins, SyncGoesOn, Steps
    <2> QED BY <2>1, <2>2, <2>3, OthersStay
  <1>3. CASE Reads(p)
    <2>1. Returns(p) \/ \E s \in Steps : Within(p, s)
      BY <1>3, ReadsKeep
    <2>2. snap'[q] = snap[q]
      BY <1>3 DEF Reads, GetClones, GetLoads, GetStreams, GetLoss, GetReturns, CalculateLoss,
                  GetStreamStats, PrintText, PrintJson, HeldTyped
    <2>3. begin'[q] = begin[q]
      BY <1>3 DEF Reads, GetClones, GetLoads, GetStreams, GetLoss, GetReturns, CalculateLoss,
                  GetStreamStats, PrintText, PrintJson, HeldTyped, past
    <2>4. loss'[q] = loss[q]
      BY <1>3 DEF Reads, GetClones, GetLoads, GetStreams, GetLoss, GetReturns, CalculateLoss,
                  GetStreamStats, PrintText, PrintJson, HeldTyped
    <2>5. printed'[q] = printed[q]
      BY <1>3 DEF Reads, GetClones, GetLoads, GetStreams, GetLoss, GetReturns, CalculateLoss,
                  GetStreamStats, PrintText, PrintJson, HeldTyped
    <2> QED BY <2>1, <2>2, <2>3, <2>4, <2>5, OthersStay
  <1> QED BY <1>1, <1>2, <1>3

\* A step that neither begins a get() nor goes on with one.
NoGet(p) == Starts(p) \/ Records(p) \/ GetReturns(p) \/ CalculateLoss(p) \/ GetStreamStats(p)
              \/ PrintText(p) \/ PrintJson(p)

LEMMA Left ==
  ASSUME TypeOK, NEW p \in Procs, Returns(p) \/ \E s \in Steps \ Reading : Within(p, s)
  PROVE  step'[p] \notin Reading
  <1>1. CASE Returns(p)
    <2>1. step'[p] = "next"
      BY <1>1, ReturnsTyped DEF TypeOK
    <2> QED BY <2>1 DEF Reading
  <1>2. ASSUME NEW s \in Steps \ Reading, Within(p, s) PROVE step'[p] \notin Reading
    BY <1>2 DEF Within, TypeOK
  <1> QED BY <1>1, <1>2

LEMMA NoGetHolds ==
  ASSUME TypeOK, HeldTyped, NEW p \in Procs, NoGet(p)
  PROVE  HeldTyped' /\ step'[p] \notin Reading
  <1>1. CASE Starts(p)
    BY <1>1 DEF Starts, past, HeldTyped, Reading
  <1>2. CASE Records(p)
    <2>1. UNCHANGED <<snap, loss, printed>>
      BY <1>2 DEF Records, AddToTotal, FindStream, AddToStream, RecordArrival, AddInterval,
                  SetDuration, SyncBegins, SyncGoesOn
    <2>2. UNCHANGED begin \/ begin' = [begin EXCEPT ![p] = Numbers]
      BY <1>2 DEF Records, AddToTotal, FindStream, AddToStream, RecordArrival, AddInterval,
                  SetDuration, SyncBegins, SyncGoesOn, past
    <2>3. UNCHANGED synced \/ synced' = begin[p].total
      BY <1>2 DEF Records, AddToTotal, FindStream, AddToStream, RecordArrival, AddInterval,
                  SetDuration, SyncBegins, SyncGoesOn, past
    <2>4. Returns(p) \/ \E s \in Steps \ Reading : Within(p, s)
      BY <1>2 DEF Records, AddToTotal, FindStream, AddToStream, RecordArrival, AddInterval,
                  SetDuration, SyncBegins, SyncGoesOn, Steps, Reading
    <2>5. step'[p] \notin Reading
      BY <2>4, Left
    <2>6. begin' \in [Procs -> Moments]
      BY <2>2, NumbersTyped DEF HeldTyped
    <2>7. synced' \in [Fields -> Nat]
      BY <2>3 DEF HeldTyped, Moments
    <2> QED BY <2>1, <2>5, <2>6, <2>7 DEF HeldTyped
  <1>3. CASE GetReturns(p)
    <2>1. Returns(p) /\ UNCHANGED <<loss, printed, synced>>
      BY <1>3 DEF GetReturns
    <2>2. snap' \in [Procs -> Snapshots] /\ begin' \in [Procs -> Moments]
      BY <1>3, NumbersTyped DEF GetReturns, HeldTyped
    <2>3. step'[p] \notin Reading
      BY <2>1, Left
    <2> QED BY <2>1, <2>2, <2>3 DEF HeldTyped
  <1>4. CASE CalculateLoss(p)
    <2>1. Returns(p) /\ UNCHANGED <<snap, printed, synced, begin>>
      BY <1>4 DEF CalculateLoss, past
    <2>2. loss' \in [Procs -> Losses]
      BY <1>4, NumbersTyped DEF CalculateLoss, HeldTyped
    <2>3. step'[p] \notin Reading
      BY <2>1, Left
    <2> QED BY <2>1, <2>2, <2>3 DEF HeldTyped
  <1>5. CASE GetStreamStats(p)
    <2>1. Returns(p) /\ UNCHANGED <<snap, loss, printed, synced, begin>>
      BY <1>5 DEF GetStreamStats, past
    <2>2. step'[p] \notin Reading
      BY <2>1, Left
    <2> QED BY <2>1, <2>2 DEF HeldTyped
  <1>6. CASE PrintText(p)
    <2>1. Returns(p) /\ UNCHANGED <<loss, synced, begin>>
      BY <1>6 DEF PrintText, past
    <2>2. snap' \in [Procs -> Snapshots] /\ DOMAIN printed' = Procs
      BY <1>6, NumbersTyped DEF PrintText, HeldTyped
    <2>3. step'[p] \notin Reading
      BY <2>1, Left
    <2> QED BY <2>1, <2>2, <2>3 DEF HeldTyped
  <1>7. CASE PrintJson(p)
    <2>1. UNCHANGED <<loss, synced>>
      BY <1>7 DEF PrintJson
    <2>2. Returns(p) \/ \E s \in Steps \ Reading : Within(p, s)
      BY <1>7 DEF PrintJson, Steps, Reading
    <2>3. step'[p] \notin Reading
      BY <2>2, Left
    <2>4. [Numbers EXCEPT !.total = synced] \in Moments
      BY NumbersTyped DEF HeldTyped, Moments
    <2>5. snap' \in [Procs -> Snapshots] /\ DOMAIN printed' = Procs
      BY <1>7, NumbersTyped DEF PrintJson, HeldTyped
    <2>6. begin' \in [Procs -> Moments]
      BY <1>7, <2>4 DEF PrintJson, HeldTyped
    <2> QED BY <2>1, <2>3, <2>5, <2>6 DEF HeldTyped
  <1> QED BY <1>1, <1>2, <1>3, <1>4, <1>5, <1>6, <1>7 DEF NoGet

\* A step of a get().
Gets(p) ==
  \/ GetClones(p) \/ GetLoads(p, "sent", "received") \/ GetLoads(p, "received", "packets")
  \/ GetLoads(p, "packets", "streams") \/ GetStreams(p) \/ GetLoss(p)

LEMMA GetsHold ==
  ASSUME TypeOK, RingKeepsLast, SnapInv, NEW p \in Procs, Gets(p)
  PROVE  HeldTyped' /\ Taken(step[p], snap[p], begin[p])'
  <1>1. snap'[p] \in Snapshots /\ Taken(step[p], snap[p], begin[p])'
    <2>1. "sent" \in Fields /\ "received" \in Fields /\ "packets" \in Fields
      BY DEF Fields
    <2> QED BY <2>1, ClonesTaken, LoadsTaken, StreamsTaken, LossTaken DEF Gets
  <1>2. UNCHANGED <<loss, printed, synced>>
    BY DEF Gets, GetClones, GetLoads, GetStreams, GetLoss, past
  <1>3. begin' \in [Procs -> Moments]
    BY NumbersTyped DEF Gets, GetClones, GetLoads, GetStreams, GetLoss, past, SnapInv, HeldTyped
  <1>4. DOMAIN snap' = Procs
    BY DEF Gets, GetClones, GetLoads, GetStreams, GetLoss, SnapInv, HeldTyped
  <1>5. snap' = [q \in DOMAIN snap' |-> snap'[q]]
    BY DEF Gets, GetClones, GetLoads, GetStreams, GetLoss, SnapInv, HeldTyped
  <1>6. \A q \in Procs : snap'[q] \in Snapshots
    <2>1. \A q \in Procs : q # p => snap'[q] = snap[q]
      BY OthersHold DEF Gets, Reads, SnapInv
    <2> QED BY <1>1, <2>1 DEF SnapInv, HeldTyped
  <1>7. snap' \in [Procs -> Snapshots]
    BY <1>4, <1>5, <1>6
  <1> QED BY <1>1, <1>2, <1>3, <1>7 DEF SnapInv, HeldTyped


LEMMA StepSnap ==
  ASSUME TypeOK, TypeOK', CountInv, RingKeepsLast, SnapInv, [Next]_vars
  PROVE  SnapInv'
  <1>1. inner'.duration = timed'
    <2>1. ASSUME NEW p \in Procs, SetDuration(p) PROVE inner'.duration = timed'
      BY <2>1 DEF SetDuration, TypeOK
    <2>2. CASE inner'.duration = inner.duration /\ timed' = timed
      BY <2>2 DEF SnapInv
    <2>3. ASSUME NEW p \in Procs, Starts(p) \/ Reads(p) PROVE UNCHANGED <<inner, timed>>
      BY <2>3, ReadsKeep DEF Starts, shared, past
    <2>4. ASSUME NEW p \in Procs, Records(p), ~SetDuration(p)
          PROVE  inner'.duration = inner.duration /\ timed' = timed
      <3>1. CASE (\E call \in {"sent", "received", "packet"} : AddToTotal(p, call))
                   \/ FindStream(p) \/ AddToStream(p) \/ RecordArrival(p)
        BY <3>1 DEF AddToTotal, FindStream, AddToStream, RecordArrival, shared, past
      <3>2. CASE AddInterval(p) \/ SyncBegins(p) \/ SyncGoesOn(p)
        BY <3>2 DEF AddInterval, SyncBegins, SyncGoesOn, TypeOK
      <3> QED BY <2>4, <3>1, <3>2 DEF Records
    <2>5. CASE UNCHANGED vars
      BY <2>2, <2>5 DEF vars, shared, past
    <2> QED BY <2>1, <2>2, <2>3, <2>4, <2>5 DEF Next, Finished
  <1>2. ASSUME NEW p \in Procs, Starts(p) \/ Records(p) \/ Reads(p),
               HeldTyped', step'[p] \in Reading => Taken(step[p], snap[p], begin[p])'
        PROVE  SnapInv'
    <2>1. ASSUME NEW q \in Procs, q # p, step'[q] \in Reading
          PROVE  Taken(step[q], snap[q], begin[q])'
      <3>1. step'[q] = step[q] /\ snap'[q] = snap[q] /\ begin'[q] = begin[q]
        BY <1>2, <2>1, OthersHold DEF SnapInv
      <3>2. Taken(step[q], snap[q], begin[q])
        BY <2>1, <3>1 DEF SnapInv
      <3> QED BY <3>1, <3>2, StepGrows, TakenStays
    <2>2. \A q \in Procs : step'[q] \in Reading => Taken(step[q], snap[q], begin[q])'
      BY <1>2, <2>1
    <2> QED BY <1>1, <1>2, <2>2 DEF SnapInv, Reading
  <1>3. ASSUME NEW p \in Procs, NoGet(p) PROVE SnapInv'
    <2>1. HeldTyped' /\ step'[p] \notin Reading
      BY <1>3, NoGetHolds DEF SnapInv
    <2> QED BY <1>2, <1>3, <2>1 DEF NoGet, Reads
  <1>4. ASSUME NEW p \in Procs, Gets(p) PROVE SnapInv'
    <2>1. HeldTyped' /\ Taken(step[p], snap[p], begin[p])'
      BY <1>4, GetsHold
    <2> QED BY <1>2, <1>4, <2>1 DEF Gets, Reads
  <1>5. CASE UNCHANGED vars
    <2>1. HeldTyped'
      BY <1>5 DEF vars, past, HeldTyped, SnapInv
    <2>2. ASSUME NEW p \in Procs, step'[p] \in Reading
          PROVE  Taken(step[p], snap[p], begin[p])'
      <3>1. step'[p] = step[p] /\ snap'[p] = snap[p] /\ begin'[p] = begin[p]
        BY <1>5 DEF vars, past
      <3>2. Taken(step[p], snap[p], begin[p])
        BY <2>2, <3>1 DEF SnapInv
      <3> QED BY <3>1, <3>2, StepGrows, TakenStays
    <2> QED BY <1>1, <2>1, <2>2 DEF SnapInv, Reading
  <1> QED BY <1>3, <1>4, <1>5 DEF Next, Finished, Reads, NoGet, Gets

LEMMA InitSnap == Init => SnapInv
  <1> SUFFICES ASSUME Init PROVE SnapInv
    OBVIOUS
  <1>1. HeldTyped
    <2>1. Zero \in [Fields -> Nat]
      BY DEF Zero
    <2> QED BY <2>1, InitTyped, NumbersTyped DEF Init, HeldTyped
  <1>2. inner.duration = timed
    BY DEF Init
  <1>3. \A p \in Procs : step[p] \notin Reading
    BY DEF Init, Reading
  <1> QED BY <1>1, <1>2, <1>3 DEF SnapInv

LEMMA SnapExplains == ASSUME TypeOK, SnapInv PROVE SnapshotWithinCall
  <1> SUFFICES ASSUME NEW p \in Procs, step[p] = "got"
               PROVE  LET m == snap[p]  b == begin[p] IN
                /\ \A f \in {"sent", "received"} :
                     /\ b.total[f] <= m.total[f] /\ m.total[f] <= total[f]
                     /\ b.first[f] > 0 => m.streams # <<>>
                     /\ m.streams # <<>> => /\ b.first[f] <= Head(m.streams)[f]
                                            /\ Head(m.streams)[f] <= Head(perStream)[f]
                /\ b.duration <= m.duration /\ m.duration <= timed
                /\ Least(b.added, 1) <= Len(m.ring)
                /\ m.ring # <<>> => b.added <= m.ring[Len(m.ring)]
                /\ IF m.total.received > 0
                     THEN b.expected <= m.total.packets /\ m.total.packets <= udp.expected
                     ELSE b.total.packets <= m.total.packets /\ m.total.packets <= total.packets
    BY DEF SnapshotWithinCall
  <1> DEFINE m == snap[p]
             b == begin[p]
  <1>1. Taken("got", m, b)
    BY DEF SnapInv, Reading
  <1>2. m \in Snapshots /\ b \in Moments /\ b.added \in Nat /\ b.duration \in Nat
    BY <1>1 DEF Taken, Moments
  <1>3. ASSUME NEW f \in {"sent", "received"}
        PROVE /\ b.total[f] <= m.total[f] /\ m.total[f] <= total[f]
              /\ b.first[f] > 0 => m.streams # <<>>
              /\ m.streams # <<>> => /\ b.first[f] <= Head(m.streams)[f]
                                     /\ Head(m.streams)[f] <= Head(perStream)[f]
    <2>1. f \in Fields /\ f \in LoadedAt("got") /\ f \in SeenAt("got")
      BY DEF Fields, LoadedAt, SeenAt
    <2>2. TotalTaken(m, b, f) /\ StreamFound(m, b) /\ StreamTaken(m, b, f)
      BY <1>1, <2>1 DEF Taken
    <2>3. m.streams # <<>> => InStream(f) = Head(perStream)[f]
      BY <1>1 DEF Taken, InStream
    <2> QED BY <2>1, <2>2, <2>3 DEF TotalTaken, StreamFound, StreamTaken
  <1>4. b.duration <= m.duration /\ m.duration <= timed
    BY <1>1, <1>2 DEF Taken, Passed, TypeOK
  <1>5. /\ m.ring = Latest(b.added) /\ Len(m.ring) = Least(b.added, MaxIntervals)
        /\ \A i \in 1 .. Least(b.added, MaxIntervals) : m.ring[i] = Minus(b.added, MaxIntervals) + i
    BY <1>1, <1>2, LatestFacts DEF Taken
  <1>6. MaxIntervals \in Nat /\ MaxIntervals >= 1
    BY BoundsAssumption
  <1>7. Least(b.added, 1) <= Len(m.ring)
    BY <1>2, <1>5, <1>6 DEF Least
  <1>8. m.ring # <<>> => b.added <= m.ring[Len(m.ring)]
    <2>1. SUFFICES ASSUME m.ring # <<>> PROVE b.added <= m.ring[Len(m.ring)]
      OBVIOUS
    <2> DEFINE n == b.added
               k == Least(n, MaxIntervals)
    <2>2. k \in Nat /\ Latest(n) \in Seq(Nat) /\ Len(m.ring) = k
      BY <1>2, <1>5, <1>6, LatestFacts DEF Least
    <2>3. k # 0
      BY <1>5, <2>1, <2>2, EmptySeq
    <2>4. k \in 1 .. k
      BY <2>2, <2>3
    <2>5. m.ring[k] = Minus(n, MaxIntervals) + k
      BY <1>5, <2>4
    <2>6. n \in Nat
      BY <1>2
    <2>7. Minus(n, MaxIntervals) + k = n
      BY <1>6, <2>6 DEF Minus, Least
    <2> QED BY <2>2, <2>5, <2>6, <2>7
  <1>9. IF m.total.received > 0
          THEN b.expected <= m.total.packets /\ m.total.packets <= udp.expected
          ELSE b.total.packets <= m.total.packets /\ m.total.packets <= total.packets
    BY <1>1 DEF Taken, PacketsTaken, TotalTaken
  <1> QED BY <1>3, <1>4, <1>7, <1>8, <1>9

\* For any number of tasks of any kinds: what a get() returns lies, number by
\* number, between what the collector had at the call and what it has at the
\* return.
THEOREM SnapshotsAreWithinTheirCalls == Spec => []SnapshotWithinCall
  <1>1. Init => SnapInv
    BY InitSnap
  <1>2. TypeOK /\ TypeOK' /\ CountInv /\ RingKeepsLast /\ SnapInv /\ [Next]_vars => SnapInv'
    BY StepSnap
  <1>3. TypeOK /\ SnapInv => SnapshotWithinCall
    BY SnapExplains
  <1> QED BY <1>1, <1>2, <1>3, CountInvariant, RingAlwaysKeepsLast, PTL DEF Spec

(***************************************************************************)
(* Where a task is in its script.                                          *)
(***************************************************************************)

Working == {"loop", "report", "finish"}

\* The calls that a task may be inside of.
CallsIn(s) == CASE s \in {"find", "add"}                 -> {"sent", "received", "packet"}
                [] s = "inner"                           -> {"arrival"}
                [] s \in {"syncReceived", "syncPackets"} -> {"sync"}
                [] s \in Reading                         -> {"get"}
                [] OTHER                                 -> {"print"}

\* A task is at a call of its script or at none, inside that call only, and a
\* client has shown its results when it is over.
PlaceInv ==
  \A p \in Procs :
    /\ at[p][1] \in {"start", "over"} => at[p][2] = 0 /\ step[p] = "next"
    /\ at[p][1] \in Working => at[p][2] \in 1 .. Len(Part(p))
    /\ step[p] # "next" => Call(p) \in CallsIn(step[p])
    /\ printed[p].form # "none" => Over(p) /\ kind[p] \in Clients

\* Every part of every script has a call, a print is the last of its script,
\* and only loops record.
PartInOrder(k, part, calls) ==
  /\ Len(calls) \in Nat /\ Len(calls) >= 1
  /\ \A i \in 1 .. Len(calls) :
       /\ calls[i] = "print" => part = "finish" /\ i = Len(calls) /\ k \in Clients
       /\ calls[i] \in {"sent", "received", "packet", "arrival"} => part = "loop" /\ k # "User"

LEMMA Scripts ==
  ASSUME NEW k \in Kinds, NEW part \in Working
  PROVE  PartInOrder(k, part, Script[k][part])
  <1>1. k \in {"TcpSend", "TcpReceive", "UdpSend", "UdpReceive", "TcpClientSend",
               "TcpClientReceive", "UdpClientSend", "UdpClientReceive", "User"}
    BY DEF Kinds, Script
  <1>2. CASE k = "TcpSend"
    <2>1. PartInOrder(k, "loop", <<"sent">>)
      BY <1>2 DEF PartInOrder, Clients
    <2>2. PartInOrder(k, "report", <<"interval">>)
      BY <1>2 DEF PartInOrder, Clients
    <2>3. PartInOrder(k, "finish", <<"duration", "get">>)
      BY <1>2 DEF PartInOrder, Clients
    <2>4. /\ Script[k]["loop"] = <<"sent">>
          /\ Script[k]["report"] = <<"interval">>
          /\ Script[k]["finish"] = <<"duration", "get">>
      BY <1>2 DEF Script
    <2> QED BY <2>1, <2>2, <2>3, <2>4 DEF Working
  <1>3. CASE k = "TcpReceive"
    <2>1. PartInOrder(k, "loop", <<"received">>)
      BY <1>3 DEF PartInOrder, Clients
    <2>2. PartInOrder(k, "report", <<"interval">>)
      BY <1>3 DEF PartInOrder, Clients
    <2>3. PartInOrder(k, "finish", <<"duration", "get">>)
      BY <1>3 DEF PartInOrder, Clients
    <2>4. /\ Script[k]["loop"] = <<"received">>
          /\ Script[k]["report"] = <<"interval">>
          /\ Script[k]["finish"] = <<"duration", "get">>
      BY <1>3 DEF Script
    <2> QED BY <2>1, <2>2, <2>3, <2>4 DEF Working
  <1>4. CASE k = "UdpSend"
    <2>1. PartInOrder(k, "loop", <<"sent", "packet">>)
      BY <1>4 DEF PartInOrder, Clients
    <2>2. PartInOrder(k, "report", <<"interval">>)
      BY <1>4 DEF PartInOrder, Clients
    <2>3. PartInOrder(k, "finish", <<"duration", "get">>)
      BY <1>4 DEF PartInOrder, Clients
    <2>4. /\ Script[k]["loop"] = <<"sent", "packet">>
          /\ Script[k]["report"] = <<"interval">>
          /\ Script[k]["finish"] = <<"duration", "get">>
      BY <1>4 DEF Script
    <2> QED BY <2>1, <2>2, <2>3, <2>4 DEF Working
  <1>5. CASE k = "UdpReceive"
    <2>1. PartInOrder(k, "loop", <<"received", "arrival">>)
      BY <1>5 DEF PartInOrder, Clients
    <2>2. PartInOrder(k, "report", <<"get", "interval">>)
      BY <1>5 DEF PartInOrder, Clients
    <2>3. PartInOrder(k, "finish", <<"duration", "get">>)
      BY <1>5 DEF PartInOrder, Clients
    <2>4. /\ Script[k]["loop"] = <<"received", "arrival">>
          /\ Script[k]["report"] = <<"get", "interval">>
          /\ Script[k]["finish"] = <<"duration", "get">>
      BY <1>5 DEF Script
    <2> QED BY <2>1, <2>2, <2>3, <2>4 DEF Working
  <1>6. CASE k = "TcpClientSend"
    <2>1. PartInOrder(k, "loop", <<"sent">>)
      BY <1>6 DEF PartInOrder, Clients
    <2>2. PartInOrder(k, "report", <<"interval">>)
      BY <1>6 DEF PartInOrder, Clients
    <2>3. PartInOrder(k, "finish", <<"duration", "get", "print">>)
      BY <1>6 DEF PartInOrder, Clients
    <2>4. /\ Script[k]["loop"] = <<"sent">>
          /\ Script[k]["report"] = <<"interval">>
          /\ Script[k]["finish"] = <<"duration", "get", "print">>
      BY <1>6 DEF Script
    <2> QED BY <2>1, <2>2, <2>3, <2>4 DEF Working
  <1>7. CASE k = "TcpClientReceive"
    <2>1. PartInOrder(k, "loop", <<"received">>)
      BY <1>7 DEF PartInOrder, Clients
    <2>2. PartInOrder(k, "report", <<"interval">>)
      BY <1>7 DEF PartInOrder, Clients
    <2>3. PartInOrder(k, "finish", <<"duration", "get", "print">>)
      BY <1>7 DEF PartInOrder, Clients
    <2>4. /\ Script[k]["loop"] = <<"received">>
          /\ Script[k]["report"] = <<"interval">>
          /\ Script[k]["finish"] = <<"duration", "get", "print">>
      BY <1>7 DEF Script
    <2> QED BY <2>1, <2>2, <2>3, <2>4 DEF Working
  <1>8. CASE k = "UdpClientSend"
    <2>1. PartInOrder(k, "loop", <<"sent", "packet">>)
      BY <1>8 DEF PartInOrder, Clients
    <2>2. PartInOrder(k, "report", <<"interval", "loss", "get">>)
      BY <1>8 DEF PartInOrder, Clients
    <2>3. PartInOrder(k, "finish", <<"duration", "get", "loss", "print">>)
      BY <1>8 DEF PartInOrder, Clients
    <2>4. /\ Script[k]["loop"] = <<"sent", "packet">>
          /\ Script[k]["report"] = <<"interval", "loss", "get">>
          /\ Script[k]["finish"] = <<"duration", "get", "loss", "print">>
      BY <1>8 DEF Script
    <2> QED BY <2>1, <2>2, <2>3, <2>4 DEF Working
  <1>9. CASE k = "UdpClientReceive"
    <2>1. PartInOrder(k, "loop", <<"arrival", "received">>)
      BY <1>9 DEF PartInOrder, Clients
    <2>2. PartInOrder(k, "report", <<"interval", "loss", "get">>)
      BY <1>9 DEF PartInOrder, Clients
    <2>3. PartInOrder(k, "finish", <<"duration", "get", "loss", "print">>)
      BY <1>9 DEF PartInOrder, Clients
    <2>4. /\ Script[k]["loop"] = <<"arrival", "received">>
          /\ Script[k]["report"] = <<"interval", "loss", "get">>
          /\ Script[k]["finish"] = <<"duration", "get", "loss", "print">>
      BY <1>9 DEF Script
    <2> QED BY <2>1, <2>2, <2>3, <2>4 DEF Working
  <1>10. CASE k = "User"
    <2>1. PartInOrder(k, "loop", <<"get">>)
      BY <1>10 DEF PartInOrder, Clients
    <2>2. PartInOrder(k, "report", <<"sync">>)
      BY <1>10 DEF PartInOrder, Clients
    <2>3. PartInOrder(k, "finish", <<"stats">>)
      BY <1>10 DEF PartInOrder, Clients
    <2>4. /\ Script[k]["loop"] = <<"get">>
          /\ Script[k]["report"] = <<"sync">>
          /\ Script[k]["finish"] = <<"stats">>
      BY <1>10 DEF Script
    <2> QED BY <2>1, <2>2, <2>3, <2>4 DEF Working
  <1> QED BY <1>1, <1>2, <1>3, <1>4, <1>5, <1>6, <1>7, <1>8, <1>9, <1>10

\* How a client's script ends.
LEMMA ClientsEnd ==
  ASSUME NEW k \in Clients
  PROVE  LET end == Script[k]["finish"] IN
         /\ k \in Kinds
         /\ end[1] = "duration" /\ end[2] = "get"
         /\ k \in OverUdp  => Len(end) = 4 /\ end[3] = "loss" /\ end[4] = "print"
         /\ k \notin OverUdp => Len(end) = 3 /\ end[3] = "print"
  <1>1. CASE k = "TcpClientSend"
    BY <1>1 DEF Script, Kinds, OverUdp
  <1>2. CASE k = "TcpClientReceive"
    BY <1>2 DEF Script, Kinds, OverUdp
  <1>3. CASE k = "UdpClientSend"
    BY <1>3 DEF Script, Kinds, OverUdp
  <1>4. CASE k = "UdpClientReceive"
    BY <1>4 DEF Script, Kinds, OverUdp
  <1> QED BY <1>1, <1>2, <1>3, <1>4 DEF Clients


\* The place of one task.
Placed(p) ==
  /\ at[p][1] \in {"start", "over"} => at[p][2] = 0 /\ step[p] = "next"
  /\ at[p][1] \in Working => at[p][2] \in 1 .. Len(Part(p))
  /\ step[p] # "next" => Call(p) \in CallsIn(step[p])
  /\ printed[p].form # "none" => Over(p) /\ kind[p] \in Clients

\* Where a call leads.
LEMMA ReturnsPlaces ==
  ASSUME TypeOK, PlaceInv, NEW p \in Procs, Returns(p), at[p][1] \in Working
  PROVE  /\ step'[p] = "next" /\ kind' = kind
         /\ at'[p][1] = "over" => at'[p][2] = 0
         /\ at'[p][1] \in Working => at'[p][2] \in 1 .. Len(Script[kind[p]][at'[p][1]])
         /\ at'[p][1] # "start"
         /\ at[p][1] # "finish" => at'[p][1] \in Working /\ (at'[p][1] = "finish" => at'[p][2] = 1)
         /\ at[p][1] = "finish" =>
              at'[p] = IF at[p][2] < Len(Part(p)) THEN <<"finish", at[p][2] + 1>> ELSE <<"over", 0>>
         /\ Call(p) = "print" => at'[p] = <<"over", 0>>
  <1>1. step'[p] = "next" /\ kind' = kind
    BY ReturnsTyped DEF TypeOK
  <1>2. /\ kind[p] \in Kinds /\ at[p] \in Parts \X Nat /\ at[p][2] \in 1 .. Len(Part(p))
        /\ Len(Part(p)) \in Nat
    BY Scripts DEF TypeOK, PlaceInv, Part, PartInOrder
  <1>3. CASE at[p][2] < Len(Part(p))
    <2>1. at'[p] = <<at[p][1], at[p][2] + 1>>
      BY <1>3 DEF Returns, TypeOK
    <2>2. at[p][2] + 1 \in 1 .. Len(Part(p))
      BY <1>2, <1>3
    <2>3. Call(p) # "print"
      BY <1>2, <1>3, Scripts DEF Call, Part, PartInOrder
    <2>4. at[p][1] # "over" /\ at[p][1] # "start"
      BY DEF Working
    <2>5. Part(p) = Script[kind[p]][at[p][1]]
      BY DEF Part
    <2>6. at'[p][1] = at[p][1] /\ at'[p][2] = at[p][2] + 1
      BY <2>1
    <2>7. at[p][1] # "finish" => at'[p][1] # "finish"
      BY <2>6
    <2> QED BY <1>1, <1>3, <2>1, <2>2, <2>3, <2>4, <2>5, <2>6, <2>7
  <1>4. CASE ~(at[p][2] < Len(Part(p)))
    <2>1. PICK part \in Follows(at[p][1]) : Enters(p, part)
      BY <1>4 DEF Returns
    <2>2. at'[p] = <<part, IF part = "over" THEN 0 ELSE 1>>
      BY <2>1 DEF Enters, TypeOK
    <2>3. at[p][1] # "finish" => part \in Working
      BY <2>1 DEF Follows, Working
    <2>4. at[p][1] = "finish" => part = "over"
      BY <2>1 DEF Follows
    <2>5. Call(p) = "print" => at[p][1] = "finish"
      BY <1>2, Scripts DEF Call, Part, PartInOrder
    <2>6. part \in Working => 1 \in 1 .. Len(Script[kind[p]][part])
      BY <1>2, Scripts DEF PartInOrder
    <2>7. part \in Working => part # "over" /\ part # "start"
      BY DEF Working
    <2>8. at'[p][1] = part /\ at'[p][2] = (IF part = "over" THEN 0 ELSE 1)
      BY <2>2
    <2>9. part \in Working \/ part = "over"
      BY <2>3, <2>4
    <2>10. at[p][1] = "finish" => at'[p] = <<"over", 0>>
      BY <2>2, <2>4
    <2> QED BY <1>1, <1>4, <2>3, <2>4, <2>5, <2>6, <2>7, <2>8, <2>9, <2>10
  <1> QED BY <1>3, <1>4

\* Only a task that is in its script does anything.
LEMMA AtWork ==
  ASSUME TypeOK, PlaceInv, NEW p \in Procs, Records(p) \/ Reads(p)
  PROVE  at[p][1] \in Working
  <1>1. at[p][2] # 0 \/ step[p] # "next"
    BY DEF Records, Reads, AddToTotal, FindStream, AddToStream, RecordArrival, AddInterval,
           SetDuration, SyncBegins, SyncGoesOn, GetClones, GetLoads, GetStreams, GetLoss,
           GetReturns, CalculateLoss, GetStreamStats, PrintText, PrintJson, Begins
  <1>2. at[p][1] \in Parts
    BY DEF TypeOK
  <1> QED BY <1>1, <1>2 DEF PlaceInv, Parts, Working

LEMMA Insides ==
  /\ CallsIn("find") = {"sent", "received", "packet"}
  /\ CallsIn("add") = {"sent", "received", "packet"}
  /\ CallsIn("inner") = {"arrival"}
  /\ CallsIn("syncReceived") = {"sync"} /\ CallsIn("syncPackets") = {"sync"}
  /\ \A s \in Reading : CallsIn(s) = {"get"}
  /\ CallsIn("results") = {"print"}
  /\ Steps \ {"next"} = Reading \cup {"find", "add", "inner", "syncReceived", "syncPackets", "results"}
  <1>1. CallsIn("find") = {"sent", "received", "packet"} /\ CallsIn("add") = {"sent", "received", "packet"}
    BY DEF CallsIn, Reading
  <1>2. CallsIn("inner") = {"arrival"}
    BY DEF CallsIn, Reading
  <1>3. CallsIn("syncReceived") = {"sync"} /\ CallsIn("syncPackets") = {"sync"}
    BY DEF CallsIn, Reading
  <1>4. \A s \in Reading : CallsIn(s) = {"get"}
    BY DEF CallsIn, Reading
  <1>5. CallsIn("results") = {"print"}
    BY DEF CallsIn, Reading
  <1>6. Steps \ {"next"} = Reading \cup {"find", "add", "inner", "syncReceived", "syncPackets", "results"}
    BY DEF Steps, Reading
  <1> QED BY <1>1, <1>2, <1>3, <1>4, <1>5, <1>6

\* A step inside a call belongs to that call.
LEMMA StaysInCall ==
  ASSUME TypeOK, PlaceInv, NEW p \in Procs, Records(p) \/ Reads(p)
  PROVE  Returns(p) \/ \E s \in Steps \ {"next"} : Within(p, s) /\ Call(p) \in CallsIn(s)
  <1>1. step[p] # "next" => Call(p) \in CallsIn(step[p])
    BY DEF PlaceInv
  <1> DEFINE Good == Returns(p) \/ \E s \in Steps \ {"next"} : Within(p, s) /\ Call(p) \in CallsIn(s)
  <1>2. ASSUME NEW s \in Steps \ {"next"}, Within(p, s), Call(p) \in CallsIn(s) PROVE Good
    BY <1>2
  <1>3. CASE Returns(p)
    BY <1>3
  <1> HIDE DEF Good
  <1>4. CASE \E call \in {"sent", "received", "packet"} : AddToTotal(p, call)
    <2>1. Within(p, "find") /\ Call(p) \in {"sent", "received", "packet"}
      BY <1>4 DEF AddToTotal, Begins
    <2> QED BY Insides, <1>2, <2>1
  <1>5. CASE FindStream(p) \/ AddToStream(p)
    BY Insides, <1>1, <1>2, <1>3, <1>5 DEF FindStream, AddToStream
  <1>6. CASE RecordArrival(p)
    BY Insides, <1>2, <1>3, <1>6 DEF RecordArrival, Begins
  <1>7. CASE AddInterval(p) \/ SetDuration(p)
    BY <1>3, <1>7 DEF AddInterval, SetDuration
  <1>8. CASE SyncBegins(p) \/ SyncGoesOn(p)
    BY Insides, <1>1, <1>2, <1>3, <1>8 DEF SyncBegins, SyncGoesOn, Begins
  <1>9. "get" \in CallsIn("sent") /\ \A s \in Reading : CallsIn(s) = {"get"} /\ s \in Steps \ {"next"}
    BY Insides DEF Reading
  <1>10. CASE GetClones(p)
    BY <1>2, <1>9, <1>10 DEF GetClones, Begins, Reading
  <1>11. CASE \/ GetLoads(p, "sent", "received") \/ GetLoads(p, "received", "packets")
              \/ GetLoads(p, "packets", "streams")
    BY <1>1, <1>2, <1>9, <1>11 DEF GetLoads, Reading
  <1>12. CASE GetStreams(p) \/ GetLoss(p)
    BY <1>1, <1>2, <1>9, <1>12 DEF GetStreams, GetLoss, Reading
  <1>13. CASE GetReturns(p) \/ CalculateLoss(p) \/ GetStreamStats(p) \/ PrintText(p)
    BY <1>3, <1>13 DEF GetReturns, CalculateLoss, GetStreamStats, PrintText
  <1>14. CASE PrintJson(p)
    <2>1. Returns(p) \/ (Within(p, "results") /\ Call(p) = "print")
      BY <1>14 DEF PrintJson, Begins
    <2>2. "results" \in Steps \ {"next"} /\ "print" \in CallsIn("results")
      BY Insides
    <2>3. CASE Returns(p)
      BY <1>3, <2>3
    <2>4. CASE Within(p, "results") /\ Call(p) = "print"
      <3>1. Call(p) \in CallsIn("results")
        BY <2>2, <2>4
      <3> QED BY <1>2, <2>2, <2>4, <3>1
    <2> QED BY <2>1, <2>3, <2>4
  <1>15. CASE Records(p)
    BY <1>4, <1>5, <1>6, <1>7, <1>8, <1>15 DEF Records
  <1>16. CASE Reads(p)
    BY <1>10, <1>11, <1>12, <1>13, <1>14, <1>16 DEF Reads
  <1> QED BY <1>15, <1>16 DEF Good

\* Only the end of a print shows something.
LEMMA ShownLast ==
  ASSUME TypeOK, PlaceInv, HeldTyped, NEW p \in Procs, Records(p) \/ Reads(p)
  PROVE  printed'[p] = printed[p] \/ (Returns(p) /\ Call(p) = "print")
  <1>1. CASE Records(p)
    BY <1>1 DEF Records, AddToTotal, FindStream, AddToStream, RecordArrival, AddInterval,
                SetDuration, SyncBegins, SyncGoesOn
  <1>2. CASE Gets(p) \/ GetReturns(p) \/ CalculateLoss(p) \/ GetStreamStats(p)
    BY <1>2 DEF Gets, GetClones, GetLoads, GetStreams, GetLoss, GetReturns, CalculateLoss,
                GetStreamStats
  <1>3. CASE PrintText(p)
    BY <1>3 DEF PrintText, Begins
  <1>4. CASE PrintJson(p)
    <2>1. CASE step[p] = "results"
      <3>1. Call(p) = "print"
        BY <2>1 DEF PlaceInv, CallsIn, Reading
      <3> QED BY <1>4, <2>1, <3>1 DEF PrintJson, Begins
    <2>2. CASE step[p] # "results"
      BY <1>4, <2>2 DEF PrintJson
    <2> QED BY <2>1, <2>2
  <1> QED BY <1>1, <1>2, <1>3, <1>4 DEF Reads, Gets

LEMMA StepPlaces ==
  ASSUME TypeOK, PlaceInv, HeldTyped, [Next]_vars
  PROVE  PlaceInv'
  <1>1. ASSUME NEW p \in Procs, Starts(p) \/ Records(p) \/ Reads(p), Placed(p)'
        PROVE  PlaceInv'
    <2>1. ASSUME NEW q \in Procs, q # p PROVE Placed(q)'
      <3>1. at'[q] = at[q] /\ step'[q] = step[q] /\ printed'[q] = printed[q] /\ kind' = kind
        BY <1>1, <2>1, OthersHold
      <3> QED BY <3>1 DEF Placed, PlaceInv, Part, Call, Over, CallsIn, Working, Reading, Clients
    <2> QED BY <1>1, <2>1 DEF PlaceInv, Placed
  <1>2. ASSUME NEW p \in Procs, Starts(p) PROVE Placed(p)'
    <2>1. at[p][1] = "start" /\ step[p] = "next" /\ UNCHANGED <<kind, step, printed>>
      BY <1>2 DEF Starts
    <2>2. PICK part \in Follows("start") : Enters(p, part)
      BY <1>2 DEF Starts
    <2>3. at'[p] = <<part, 1>> /\ part \in Working
      BY <2>2 DEF Enters, TypeOK, Follows, Working
    <2>4. printed[p].form = "none"
      BY <2>1 DEF PlaceInv, Over
    <2>5. 1 \in 1 .. Len(Script[kind[p]][part])
      BY <2>3, Scripts DEF TypeOK, PartInOrder
    <2> QED BY <2>1, <2>3, <2>4, <2>5 DEF Placed, Part, Call, Over, Working
  <1>3. ASSUME NEW p \in Procs, Records(p) \/ Reads(p) PROVE Placed(p)'
    <2>1. at[p][1] \in Working
      BY <1>3, AtWork
    <2>2. printed[p].form = "none"
      BY <2>1 DEF PlaceInv, Over, Working
    <2>3. CASE Returns(p)
      <3>1. /\ step'[p] = "next" /\ kind' = kind
            /\ at'[p][1] = "over" => at'[p][2] = 0
            /\ at'[p][1] \in Working => at'[p][2] \in 1 .. Len(Script[kind[p]][at'[p][1]])
            /\ at'[p][1] # "start" /\ (Call(p) = "print" => at'[p] = <<"over", 0>>)
        BY <2>1, <2>3, ReturnsPlaces
      <3>2. printed'[p] = printed[p] \/ Call(p) = "print"
        BY <1>3, ShownLast
      <3>3. Call(p) = "print" => kind[p] \in Clients
        BY <2>1, Scripts DEF PlaceInv, TypeOK, Call, Part, PartInOrder
      <3> QED BY <2>2, <3>1, <3>2, <3>3 DEF Placed, Part, Over, Working, Clients
    <2>4. CASE ~Returns(p)
      <3>1. PICK s \in Steps \ {"next"} : Within(p, s) /\ Call(p) \in CallsIn(s)
        BY <1>3, <2>4, StaysInCall
      <3>2. at' = at /\ kind' = kind /\ step'[p] = s
        BY <3>1 DEF Within, TypeOK
      <3>3. printed'[p] = printed[p]
        BY <1>3, <2>4, ShownLast
      <3>4. Call(p)' = Call(p) /\ Part(p)' = Part(p)
        BY <3>2 DEF Call, Part
      <3>5. Call(p)' \in CallsIn(step'[p])
        BY <3>1, <3>2, <3>4
      <3>6. at'[p][1] \notin {"start", "over"}
        BY <2>1, <3>2 DEF Working
      <3>7. at'[p][2] \in 1 .. Len(Part(p)')
        BY <2>1, <3>2, <3>4 DEF PlaceInv
      <3> QED BY <2>2, <3>3, <3>5, <3>6, <3>7 DEF Placed, CallsIn, Reading
    <2> QED BY <2>3, <2>4
  <1>4. CASE UNCHANGED vars
    BY <1>4 DEF vars, PlaceInv, Part, Call, Over, CallsIn, Working, Reading, Clients
  <1> QED BY <1>1, <1>2, <1>3, <1>4 DEF Next, Finished

LEMMA InitPlaces == Init => PlaceInv
  BY DEF Init, PlaceInv, Working, NotYet

(***************************************************************************)
(* What a sync copies.                                                     *)
(***************************************************************************)

\* A task that holds the numbers of its call, and the totals of them that
\* inner's copy has reached.
Copying == {"syncReceived", "syncPackets", "results"}
CopiedAt(s) == CASE s = "syncReceived" -> {"sent"}
                 [] s = "syncPackets"  -> {"sent", "received"}
                 [] OTHER              -> Fields

Copied(s, b) ==
  /\ \A f \in Fields : b.total[f] <= total[f]
  /\ \A f \in CopiedAt(s) : b.total[f] <= inner.total[f]

\* What is shown of the totals that a client had at its print.
Shows(shown, b) ==
  /\ shown.sent \in Nat /\ b.total.sent <= shown.sent /\ shown.sent <= total.sent
  /\ shown.received \in Nat /\ b.total.received <= shown.received
  /\ shown.received <= total.received

\* inner's copy of the totals is between the last complete sync and the totals.
SyncInv ==
  /\ \A f \in Fields : synced[f] <= inner.total[f] /\ inner.total[f] <= total[f]
  /\ \A p \in Procs :
       /\ step[p] \in Copying => Copied(step[p], begin[p])
       /\ printed[p].form = "json" => Shows(printed[p].shows, begin[p])

\* The copy only grows.
InnerGrown == \A f \in Fields : inner.total[f] <= inner'.total[f]

LEMMA SyncTotals ==
  ASSUME TypeOK, CountInv, HeldTyped, SyncInv, [Next]_vars
  PROVE  /\ InnerGrown
         /\ \A f \in Fields : inner'.total[f] <= total'[f]
  <1>1. \A f \in Fields : /\ inner.total[f] \in Nat /\ total[f] \in Nat /\ total'[f] \in Nat
                          /\ inner.total[f] <= total[f] /\ total[f] <= total'[f]
    BY StepGrows, StepTyped DEF TypeOK, Grown, SyncInv
  <1>2. CASE inner'.total = inner.total
    BY <1>1, <1>2 DEF InnerGrown
  <1>3. ASSUME NEW p \in Procs, SyncBegins(p) \/ SyncGoesOn(p)
        PROVE  InnerGrown /\ \A f \in Fields : inner'.total[f] <= total'[f]
    <2>1. PICK g \in Fields : inner' = [inner EXCEPT !.total[g] = total[g]]
      BY <1>3 DEF SyncBegins, SyncGoesOn, Fields
    <2>2. inner'.total = [inner.total EXCEPT ![g] = total[g]] /\ inner.total \in [Fields -> Nat]
      BY <2>1 DEF TypeOK
    <2>3. ASSUME NEW f \in Fields
          PROVE  inner.total[f] <= inner'.total[f] /\ inner'.total[f] <= total'[f]
      <3>1. inner'.total[f] = IF f = g THEN total[g] ELSE inner.total[f]
        BY <2>2
      <3> QED BY <1>1, <3>1
    <2> QED BY <2>3 DEF InnerGrown
  <1>4. ASSUME NEW p \in Procs, AddInterval(p) \/ SetDuration(p)
        PROVE  inner'.total = inner.total
    BY <1>4 DEF AddInterval, SetDuration, TypeOK
  <1>5. ASSUME NEW p \in Procs,
               \/ \E call \in {"sent", "received", "packet"} : AddToTotal(p, call)
               \/ FindStream(p) \/ AddToStream(p) \/ RecordArrival(p)
        PROVE  inner'.total = inner.total
    BY <1>5 DEF AddToTotal, FindStream, AddToStream, RecordArrival, shared
  <1>6. ASSUME NEW p \in Procs, Starts(p) \/ Reads(p) PROVE inner'.total = inner.total
    BY <1>6, ReadsKeep DEF Starts, shared
  <1>7. CASE UNCHANGED vars
    BY <1>2, <1>7 DEF vars, shared
  <1> QED BY <1>2, <1>3, <1>4, <1>5, <1>6, <1>7 DEF Next, Finished, Records

\* What one task has stays right while others go on.
LEMMA CopiedStays ==
  ASSUME TypeOK, TypeOK', HeldTyped, Grown, InnerGrown, NEW p \in Procs,
         Copied(step[p], begin[p]), step'[p] = step[p], begin'[p] = begin[p]
  PROVE  Copied(step[p], begin[p])'
  <1>1. begin[p].total \in [Fields -> Nat]
    BY DEF HeldTyped, Moments
  <1>2. \A f \in Fields : /\ total[f] \in Nat /\ total'[f] \in Nat /\ total[f] <= total'[f]
                          /\ inner.total[f] \in Nat /\ inner'.total[f] \in Nat
                          /\ inner.total[f] <= inner'.total[f] /\ begin[p].total[f] \in Nat
    BY <1>1 DEF TypeOK, Grown, InnerGrown
  <1>3. CopiedAt(step[p]) \subseteq Fields
    BY DEF CopiedAt, Fields
  <1>4. \A f \in Fields : begin'[p].total[f] <= total'[f]
    BY <1>2 DEF Copied
  <1>5. \A f \in CopiedAt(step'[p]) : begin'[p].total[f] <= inner'.total[f]
    <2>1. ASSUME NEW f \in CopiedAt(step[p]) PROVE begin[p].total[f] <= inner'.total[f]
      <3>1. begin[p].total[f] <= inner.total[f] /\ f \in Fields
        BY <1>3 DEF Copied
      <3> QED BY <1>2, <3>1
    <2> QED BY <2>1
  <1> QED BY <1>4, <1>5 DEF Copied, CopiedAt, Fields

LEMMA ShowsStays ==
  ASSUME TypeOK, TypeOK', Grown, NEW p \in Procs, Shows(printed[p].shows, begin[p]),
         printed'[p] = printed[p], begin'[p] = begin[p]
  PROVE  Shows(printed[p].shows, begin[p])'
  <1>1. "sent" \in Fields /\ "received" \in Fields
    BY DEF Fields
  <1>2. /\ total.sent <= total'.sent /\ total.received <= total'.received
        /\ total.sent \in Nat /\ total'.sent \in Nat
        /\ total.received \in Nat /\ total'.received \in Nat
    BY <1>1 DEF TypeOK, Grown
  <1>3. printed[p].shows.sent <= total'.sent /\ printed[p].shows.received <= total'.received
    BY <1>2 DEF Shows
  <1> QED BY <1>3 DEF Shows

\* Such a task's own steps.
LEMMA OwnCopies ==
  ASSUME TypeOK, HeldTyped, PlaceInv, SyncInv, NEW p \in Procs,
         Starts(p) \/ Records(p) \/ Reads(p)
  PROVE  /\ step'[p] \in Copying => Copied(step[p], begin[p])'
         /\ printed'[p].form = "json" => Shows(printed[p].shows, begin[p])'
         /\ synced' # synced => /\ synced' = begin[p].total
                                /\ \A f \in Fields : begin[p].total[f] <= inner'.total[f]
  <1>0. /\ total \in [Fields -> Nat] /\ inner.total \in [Fields -> Nat]
        /\ begin[p].total \in [Fields -> Nat] /\ synced \in [Fields -> Nat]
        /\ Fields = {"sent", "received", "packets"}
    BY DEF TypeOK, HeldTyped, Moments, Fields
  <1>1. Records(p) \/ Reads(p) => printed[p].form = "none"
    BY AtWork DEF PlaceInv, Over, Working
  <1>2. CASE SyncBegins(p)
    <2>1. /\ begin'[p] = Numbers /\ step'[p] = "syncReceived"
          /\ inner' = [inner EXCEPT !.total.sent = total.sent]
          /\ UNCHANGED <<total, printed, synced>>
      BY <1>2 DEF SyncBegins, Within, HeldTyped, TypeOK
    <2>2. begin'[p].total = total
      BY <2>1 DEF Numbers
    <2>3. inner'.total["sent"] = total["sent"]
      BY <1>0, <2>1 DEF TypeOK
    <2>4. /\ \A f \in Fields : begin'[p].total[f] <= total'[f]
          /\ \A f \in CopiedAt("syncReceived") : begin'[p].total[f] <= inner'.total[f]
      BY <1>0, <2>1, <2>2, <2>3 DEF CopiedAt
    <2>5. Copied(step[p], begin[p])'
      BY <2>1, <2>4 DEF Copied, CopiedAt, Fields
    <2> QED BY <1>1, <1>2, <2>1, <2>5 DEF Records
  <1>3. CASE SyncGoesOn(p) /\ step[p] = "syncReceived"
    <2>1. /\ begin'[p] = begin[p] /\ step'[p] = "syncPackets"
          /\ inner' = [inner EXCEPT !.total.received = total.received]
          /\ UNCHANGED <<total, printed, synced>>
      BY <1>3 DEF SyncGoesOn, Within, TypeOK
    <2>2. Copied("syncReceived", begin[p])
      BY <1>3 DEF SyncInv, Copying
    <2>3. /\ \A f \in Fields : begin[p].total[f] <= total[f]
          /\ begin[p].total["sent"] <= inner.total["sent"]
      BY <2>2 DEF Copied, CopiedAt
    <2>4. inner'.total["sent"] = inner.total["sent"] /\ inner'.total["received"] = total["received"]
      BY <1>0, <2>1 DEF TypeOK
    <2>5. begin[p].total["sent"] <= inner'.total["sent"] /\ begin[p].total["received"] <= inner'.total["received"]
      BY <1>0, <2>3, <2>4
    <2>6. Copied(step[p], begin[p])'
      BY <2>1, <2>3, <2>5 DEF Copied, CopiedAt, Fields
    <2> QED BY <1>1, <1>3, <2>1, <2>6 DEF Records
  <1>4. CASE SyncGoesOn(p) /\ step[p] = "syncPackets"
    <2>1. /\ Returns(p) /\ synced' = begin[p].total
          /\ inner' = [inner EXCEPT !.total.packets = total.packets]
          /\ UNCHANGED <<total, printed>>
      BY <1>4 DEF SyncGoesOn
    <2>2. Copied("syncPackets", begin[p])
      BY <1>4 DEF SyncInv, Copying
    <2>3. /\ \A f \in Fields : begin[p].total[f] <= total[f]
          /\ begin[p].total["sent"] <= inner.total["sent"]
          /\ begin[p].total["received"] <= inner.total["received"]
      BY <2>2 DEF Copied, CopiedAt
    <2>4. /\ inner'.total["sent"] = inner.total["sent"]
          /\ inner'.total["received"] = inner.total["received"]
          /\ inner'.total["packets"] = total["packets"]
      BY <1>0, <2>1 DEF TypeOK
    <2>5. \A f \in Fields : begin[p].total[f] <= inner'.total[f]
      BY <1>0, <2>3, <2>4
    <2>6. step'[p] = "next"
      <3>1. step' = [step EXCEPT ![p] = "next"]
        BY <2>1 DEF Returns
      <3> QED BY <3>1 DEF TypeOK
    <2> QED BY <1>1, <1>4, <2>1, <2>5, <2>6 DEF Records, Copying
  <1>5. CASE Records(p) /\ ~SyncBegins(p) /\ ~SyncGoesOn(p)
    <2>1. UNCHANGED <<printed, synced>>
      BY <1>5 DEF Records, AddToTotal, FindStream, AddToStream, RecordArrival, AddInterval,
                  SetDuration, past
    <2>2. Returns(p) \/ \E s \in {"find", "add", "inner"} : Within(p, s)
      BY <1>5 DEF Records, AddToTotal, FindStream, AddToStream, RecordArrival, AddInterval,
                  SetDuration
    <2>3. step'[p] \notin Copying
      BY <2>2, ReturnsTyped DEF Within, TypeOK, Copying
    <2> QED BY <1>1, <1>5, <2>1, <2>3
  <1>6. CASE Starts(p)
    <2>1. UNCHANGED <<printed, synced, step>> /\ step[p] = "next" /\ at[p][1] = "start"
      BY <1>6 DEF Starts, past
    <2>2. printed[p].form = "none"
      BY <2>1 DEF PlaceInv, Over
    <2> QED BY <2>1, <2>2 DEF Copying
  <1>7. CASE Reads(p) /\ ~PrintJson(p)
    <2>1. UNCHANGED synced /\ (printed'[p] = printed[p] \/ printed'[p].form = "text")
      <3>1. CASE PrintText(p)
        BY <3>1 DEF PrintText, past, HeldTyped
      <3>2. CASE ~PrintText(p)
        <4>1. UNCHANGED <<synced, printed>>
          BY <1>7, <3>2 DEF Reads, GetClones, GetLoads, GetStreams, GetLoss, GetReturns,
                            CalculateLoss, GetStreamStats, past
        <4> QED BY <4>1
      <3> QED BY <3>1, <3>2
    <2>2. Returns(p) \/ \E s \in Reading : Within(p, s)
      BY <1>7 DEF Reads, GetClones, GetLoads, GetStreams, GetLoss, GetReturns, CalculateLoss,
                  GetStreamStats, PrintText, Reading
    <2>3. step'[p] \notin Copying
      <3>1. CASE Returns(p)
        BY <3>1, ReturnsTyped DEF TypeOK, Copying
      <3>2. ASSUME NEW s \in Reading, Within(p, s) PROVE step'[p] \notin Copying
        BY <3>2 DEF Within, TypeOK, Copying, Reading
      <3> QED BY <2>2, <3>1, <3>2
    <2> QED BY <1>1, <1>7, <2>1, <2>3
  <1>8. CASE PrintJson(p) /\ step[p] # "results"
    <2>1. /\ begin'[p] = [Numbers EXCEPT !.total = synced] /\ step'[p] = "results"
          /\ UNCHANGED <<total, inner, printed, synced>>
      BY <1>8 DEF PrintJson, Within, HeldTyped, TypeOK
    <2>2. begin'[p].total = synced
      BY <2>1 DEF Numbers
    <2>3. \A f \in Fields : synced[f] <= inner.total[f] /\ synced[f] <= total[f]
      BY <1>0 DEF SyncInv
    <2>4. CopiedAt("results") = Fields
      BY DEF CopiedAt
    <2>5. Copied(step[p], begin[p])'
      BY <2>1, <2>2, <2>3, <2>4 DEF Copied, CopiedAt, Fields
    <2> QED BY <1>1, <1>8, <2>1, <2>5 DEF Reads
  <1>9. CASE PrintJson(p) /\ step[p] = "results"
    <2>1. /\ begin'[p] = begin[p] /\ Returns(p)
          /\ printed'[p] = [form |-> "json", shows |-> Json(kind[p])]
          /\ UNCHANGED <<total, inner, synced>>
      BY <1>9 DEF PrintJson, HeldTyped, Begins
    <2>2. step'[p] = "next"
      BY <2>1, ReturnsTyped DEF TypeOK
    <2>3. Copied("results", begin[p]) /\ CopiedAt("results") = Fields
      BY <1>9 DEF SyncInv, Copying, CopiedAt
    <2>4. printed'[p].shows.sent = inner.total.sent /\ printed'[p].shows.received = inner.total.received
      BY <2>1 DEF Json
    <2>5. Shows(printed[p].shows, begin[p])'
      BY <1>0, <2>1, <2>3, <2>4 DEF Shows, Copied, SyncInv
    <2> QED BY <2>1, <2>2, <2>5 DEF Copying
  <1>10. SyncGoesOn(p) => step[p] \in {"syncReceived", "syncPackets"}
    BY DEF SyncGoesOn
  <1> QED BY <1>2, <1>3, <1>4, <1>5, <1>6, <1>7, <1>8, <1>9, <1>10


LEMMA StepSync ==
  ASSUME TypeOK, TypeOK', CountInv, HeldTyped, HeldTyped', PlaceInv, SyncInv, [Next]_vars
  PROVE  SyncInv'
  <1>1. InnerGrown /\ \A f \in Fields : inner'.total[f] <= total'[f]
    BY SyncTotals
  <1>2. \A f \in Fields : synced[f] <= inner.total[f]
    BY DEF SyncInv
  <1>3. \A f \in Fields : /\ synced[f] \in Nat /\ inner.total[f] \in Nat /\ inner'.total[f] \in Nat
                          /\ synced[f] <= inner'.total[f]
    <2> SUFFICES ASSUME NEW f \in Fields
                 PROVE  /\ synced[f] \in Nat /\ inner.total[f] \in Nat /\ inner'.total[f] \in Nat
                        /\ synced[f] <= inner'.total[f]
      OBVIOUS
    <2>1. synced[f] \in Nat
      BY DEF HeldTyped
    <2>2. inner.total[f] \in Nat
      BY DEF TypeOK
    <2>3. inner'.total[f] \in Nat
      BY DEF TypeOK
    <2>4. synced[f] <= inner.total[f] /\ inner.total[f] <= inner'.total[f]
      BY <1>1, <1>2 DEF InnerGrown
    <2> QED BY <2>1, <2>2, <2>3, <2>4
  <1>4. ASSUME NEW p \in Procs, Starts(p) \/ Records(p) \/ Reads(p) PROVE SyncInv'
    <2>1. /\ step'[p] \in Copying => Copied(step[p], begin[p])'
          /\ printed'[p].form = "json" => Shows(printed[p].shows, begin[p])'
          /\ synced' # synced => /\ synced' = begin[p].total
                                 /\ \A f \in Fields : begin[p].total[f] <= inner'.total[f]
      BY <1>4, OwnCopies
    <2>2. \A f \in Fields : synced'[f] <= inner'.total[f]
      BY <1>3, <2>1
    <2>3. ASSUME NEW q \in Procs, q # p
          PROVE  /\ step'[q] \in Copying => Copied(step[q], begin[q])'
                 /\ printed'[q].form = "json" => Shows(printed[q].shows, begin[q])'
      <3>1. step'[q] = step[q] /\ begin'[q] = begin[q] /\ printed'[q] = printed[q]
        BY <1>4, <2>3, OthersHold
      <3>2. step[q] \in Copying => Copied(step[q], begin[q])'
        BY <1>1, <3>1, CopiedStays, StepGrows DEF SyncInv
      <3>3. printed[q].form = "json" => Shows(printed[q].shows, begin[q])'
        BY <3>1, ShowsStays, StepGrows DEF SyncInv
      <3> QED BY <3>1, <3>2, <3>3
    <2>4. \A q \in Procs : /\ step'[q] \in Copying => Copied(step[q], begin[q])'
                           /\ printed'[q].form = "json" => Shows(printed[q].shows, begin[q])'
      BY <2>1, <2>3
    <2> QED BY <1>1, <2>2, <2>4 DEF SyncInv, Copying
  <1>5. CASE UNCHANGED vars
    <2>1. ASSUME NEW q \in Procs
          PROVE  /\ step'[q] \in Copying => Copied(step[q], begin[q])'
                 /\ printed'[q].form = "json" => Shows(printed[q].shows, begin[q])'
      <3>1. step'[q] = step[q] /\ begin'[q] = begin[q] /\ printed'[q] = printed[q]
        BY <1>5 DEF vars, past
      <3>2. step[q] \in Copying => Copied(step[q], begin[q])'
        BY <1>1, <3>1, CopiedStays, StepGrows DEF SyncInv
      <3>3. printed[q].form = "json" => Shows(printed[q].shows, begin[q])'
        BY <3>1, ShowsStays, StepGrows DEF SyncInv
      <3> QED BY <3>1, <3>2, <3>3
    <2>2. synced' = synced
      BY <1>5 DEF vars, past
    <2> QED BY <1>1, <1>3, <2>1, <2>2 DEF SyncInv, Copying
  <1> QED BY <1>4, <1>5 DEF Next, Finished

LEMMA InitSync == Init => SyncInv
  <1> SUFFICES ASSUME Init PROVE SyncInv
    OBVIOUS
  <1>1. \A f \in Fields : synced[f] <= inner.total[f] /\ inner.total[f] <= total[f]
    BY DEF Init, Zero
  <1>2. \A p \in Procs : step[p] \notin Copying /\ printed[p].form # "json"
    BY DEF Init, Copying, NotYet
  <1> QED BY <1>1, <1>2 DEF SyncInv

LEMMA PlaceInvariant == Spec => [](SnapInv /\ PlaceInv)
  <1>1. Init => SnapInv /\ PlaceInv
    BY InitSnap, InitPlaces
  <1>2. /\ TypeOK /\ TypeOK' /\ CountInv /\ RingKeepsLast /\ SnapInv /\ PlaceInv
        /\ [Next]_vars
        => SnapInv' /\ PlaceInv'
    BY StepSnap, StepPlaces DEF SnapInv
  <1> QED BY <1>1, <1>2, CountInvariant, RingAlwaysKeepsLast, PTL DEF Spec

\* For any number of tasks of any kinds: the totals of detailed results are at
\* least those of the last complete sync at the print, and nothing made up.
THEOREM DetailsAreWithinTheirSync == Spec => []DetailedWithinSync
  <1>1. Init => SyncInv
    BY InitSync
  <1>2. SnapInv => HeldTyped
    BY DEF SnapInv
  <1>3. /\ TypeOK /\ TypeOK' /\ CountInv /\ HeldTyped /\ HeldTyped' /\ PlaceInv /\ SyncInv
        /\ [Next]_vars
        => SyncInv'
    BY StepSync
  <1>4. SyncInv => DetailedWithinSync
    BY DEF SyncInv, DetailedWithinSync, Shows
  <1> QED BY <1>1, <1>2, <1>3, <1>4, CountInvariant, PlaceInvariant, PTL DEF Spec

(***************************************************************************)
(* What a client shows.                                                    *)
(***************************************************************************)

\* The snapshot of a run that records no more.
Final(m) ==
  /\ m.total.sent = total.sent /\ m.total.received = total.received
  /\ m.total.packets = IF total.received > 0 THEN udp.expected ELSE total.packets
  /\ total.received > 0 => m.lost = Loss(udp).lost

\* The snapshot on the way there.
Loading(s, m) ==
  /\ \A f \in LoadedAt(s) : m.total[f] = total[f]
  /\ s = "got" => Final(m)

TrueText(t) ==
  /\ t.sent = total.sent /\ t.received = total.received
  /\ t.expected = (IF total.received > 0 THEN udp.expected ELSE total.packets)
  /\ t.lost = (IF total.received > 0 THEN Loss(udp).lost ELSE 0)

\* What a client at its end has taken is what its run has recorded.
TextOf(p) ==
  /\ at[p][1] = "finish" /\ step[p] \in Reading => Loading(step[p], snap[p])
  /\ at[p][1] = "finish" /\ at[p][2] > 2 /\ step[p] # "results" => Final(snap[p])
  /\ kind[p] \in OverUdp /\ (Over(p) \/ (at[p][1] = "finish" /\ at[p][2] > 3)) => loss[p] = Loss(udp)
  /\ printed[p].form = "text" => TrueText(printed[p].shows)

TextInv == kind \in Casts /\ \A p \in Procs : kind[p] \in Clients => TextOf(p)

\* Where a client is at its end.
LEMMA EndCalls ==
  ASSUME TypeOK, PlaceInv, NEW p \in Procs, kind[p] \in Clients, at[p][1] = "finish"
  PROVE  /\ at[p][2] \in 1 .. 4 /\ at[p][2] \in 1 .. Len(Part(p))
         /\ at[p][2] = 1 => Call(p) = "duration"
         /\ at[p][2] = 2 => Call(p) = "get"
         /\ at[p][2] = 3 => Call(p) = (IF kind[p] \in OverUdp THEN "loss" ELSE "print")
         /\ at[p][2] = 4 => kind[p] \in OverUdp /\ Call(p) = "print"
         /\ Len(Part(p)) = (IF kind[p] \in OverUdp THEN 4 ELSE 3)
  <1>1. Part(p) = Script[kind[p]]["finish"] /\ at[p][2] \in 1 .. Len(Part(p))
    BY DEF Part, PlaceInv, Working
  <1>2. CASE kind[p] \in OverUdp
    <2>1. /\ Len(Part(p)) = 4 /\ Part(p)[1] = "duration" /\ Part(p)[2] = "get"
          /\ Part(p)[3] = "loss" /\ Part(p)[4] = "print"
      BY <1>1, <1>2, ClientsEnd
    <2> QED BY <1>1, <1>2, <2>1 DEF Call
  <1>3. CASE kind[p] \notin OverUdp
    <2>1. /\ Len(Part(p)) = 3 /\ Part(p)[1] = "duration" /\ Part(p)[2] = "get"
          /\ Part(p)[3] = "print"
      BY <1>1, <1>3, ClientsEnd
    <2> QED BY <1>1, <1>3, <2>1 DEF Call
  <1> QED BY <1>2, <1>3

\* Only a loop records, and no user's.
LEMMA OnlyLoopsRecord ==
  ASSUME TypeOK, PlaceInv, NEW p \in Procs, Starts(p) \/ Records(p) \/ Reads(p),
         ~UNCHANGED <<total, udp>>
  PROVE  at[p][1] = "loop" /\ kind[p] # "User"
  <1>1. Records(p)
    BY ReadsKeep DEF Starts, shared
  <1>2. \/ Begins(p, "sent") \/ Begins(p, "received") \/ Begins(p, "packet")
        \/ step[p] = "inner"
    BY <1>1 DEF Records, AddToTotal, FindStream, AddToStream, RecordArrival, AddInterval,
                SetDuration, SyncBegins, SyncGoesOn, shared
  <1>3. Call(p) \in {"sent", "received", "packet", "arrival"}
    BY <1>2, Insides DEF PlaceInv, Begins
  <1>4. at[p][1] \in Working /\ at[p][2] \in 1 .. Len(Part(p))
    BY <1>1, AtWork DEF PlaceInv
  <1> QED BY <1>3, <1>4, Scripts DEF Call, Part, PartInOrder, TypeOK

\* What others do does not touch it.
LEMMA TextStays ==
  ASSUME NEW p \in Procs, TextOf(p),
         at'[p] = at[p], step'[p] = step[p], snap'[p] = snap[p], loss'[p] = loss[p],
         printed'[p] = printed[p], kind' = kind, UNCHANGED <<total, udp>>
  PROVE  TextOf(p)'
  <1>1. Loading(step[p], snap[p]) => Loading(step[p], snap[p])'
    BY DEF Loading, Final, Loss, LoadedAt, Fields
  <1>2. Final(snap[p]) => Final(snap[p])'
    BY DEF Final, Loss
  <1>3. TrueText(printed[p].shows) => TrueText(printed[p].shows)'
    BY DEF TrueText, Loss
  <1>4. Over(p)' <=> Over(p)
    BY DEF Over
  <1> QED BY <1>1, <1>2, <1>3, <1>4 DEF TextOf, Reading, OverUdp, Loss

\* Before its end there is nothing to say.
LEMMA TextNotYet ==
  ASSUME NEW p \in Procs, printed'[p].form = "none", ~Over(p)',
         at'[p][1] = "finish" => at'[p][2] = 1 /\ step'[p] = "next"
  PROVE  TextOf(p)'
  BY DEF TextOf, Reading

LEMMA EarlierText ==
  ASSUME TypeOK, HeldTyped, PlaceInv, NEW p \in Procs, Starts(p) \/ Records(p) \/ Reads(p),
         at[p][1] # "finish"
  PROVE  TextOf(p)'
  <1>1. at[p][1] # "over"
    BY AtWork DEF Starts, Working
  <1>2. printed[p].form = "none"
    BY <1>1 DEF PlaceInv, Over
  <1>3. CASE Starts(p)
    <2>1. PICK part \in Follows("start") : Enters(p, part)
      BY <1>3 DEF Starts
    <2>2. at'[p] = <<part, 1>> /\ part # "over"
      BY <2>1 DEF Enters, TypeOK, Follows
    <2>3. UNCHANGED <<printed, step>> /\ step[p] = "next"
      BY <1>3 DEF Starts
    <2> QED BY <1>2, <2>2, <2>3, TextNotYet DEF Over
  <1>4. CASE Records(p) \/ Reads(p)
    <2>1. at[p][1] \in Working
      BY <1>4, AtWork
    <2>2. CASE Returns(p)
      <3>1. /\ step'[p] = "next" /\ at'[p][1] \in Working
            /\ at'[p][1] = "finish" => at'[p][2] = 1
            /\ Call(p) = "print" => at'[p] = <<"over", 0>>
        BY <2>1, <2>2, ReturnsPlaces
      <3>2. printed'[p] = printed[p]
        BY <1>4, <3>1, ShownLast DEF Working
      <3> QED BY <1>2, <3>1, <3>2, TextNotYet DEF Over, Working
    <2>3. CASE ~Returns(p)
      <3>1. PICK s \in Steps : Within(p, s)
        BY <1>4, <2>3, StaysInCall
      <3>2. at' = at
        BY <3>1 DEF Within
      <3>3. printed'[p] = printed[p]
        BY <1>4, <2>3, ShownLast
      <3> QED BY <1>1, <1>2, <3>2, <3>3, TextNotYet DEF Over
    <2> QED BY <2>2, <2>3
  <1> QED BY <1>3, <1>4


\* What a client records at its end: nothing but the duration.
LEMMA EndRecords ==
  ASSUME TypeOK, PlaceInv, NEW p \in Procs, kind[p] \in Clients, at[p][1] = "finish", Records(p)
  PROVE  SetDuration(p)
  <1>1. Call(p) \in {"duration", "get", "loss", "print"}
    BY EndCalls
  <1>2. step[p] # "next" => Call(p) \in CallsIn(step[p])
    BY DEF PlaceInv
  <1>3. ~ \E call \in {"sent", "received", "packet"} : AddToTotal(p, call)
    BY <1>1 DEF AddToTotal, Begins
  <1>4. ~FindStream(p) /\ ~AddToStream(p)
    BY <1>1, <1>2, Insides DEF FindStream, AddToStream
  <1>5. ~RecordArrival(p)
    BY <1>1, <1>2, Insides DEF RecordArrival, Begins
  <1>6. ~AddInterval(p) /\ ~SyncBegins(p)
    BY <1>1 DEF AddInterval, SyncBegins, Begins
  <1>7. ~SyncGoesOn(p)
    BY <1>1, <1>2, Insides DEF SyncGoesOn
  <1> QED BY <1>3, <1>4, <1>5, <1>6, <1>7 DEF Records

\* The snapshot while its totals are loaded.
LEMMA LoadsFinal ==
  ASSUME TypeOK, SnapInv, PlaceInv, NEW p \in Procs, Gets(p), UNCHANGED <<total, udp>>,
         step[p] \in Reading => Loading(step[p], snap[p])
  PROVE  Loading(step[p], snap[p])'
  <1> DEFINE m == snap[p]
  <1>1. m \in Snapshots /\ m.total \in [Fields -> Nat] /\ total \in [Fields -> Nat]
    BY DEF SnapInv, HeldTyped, Snapshots, TypeOK
  <1>2. Fields = {"sent", "received", "packets"}
    BY DEF Fields
  <1>3. CASE GetClones(p)
    <2>1. step'[p] = "sent"
      BY <1>3 DEF GetClones, Within, TypeOK
    <2> QED BY <2>1 DEF Loading, LoadedAt
  <1>4. ASSUME NEW f \in Fields, NEW next \in {"received", "packets", "streams"}, GetLoads(p, f, next),
               <<f, next>> \in {<<"sent", "received">>, <<"received", "packets">>, <<"packets", "streams">>}
        PROVE  Loading(step[p], snap[p])'
    <2>1. /\ step[p] = f /\ step'[p] = next /\ step[p] \in Reading
          /\ snap' = [snap EXCEPT ![p].total[f] = total[f]]
      BY <1>4 DEF GetLoads, Within, TypeOK, Reading, Fields
    <2>2. snap'[p].total = [m.total EXCEPT ![f] = total[f]]
      BY <1>1, <2>1 DEF SnapInv, HeldTyped, Snapshots
    <2>3. \A g \in LoadedAt(step[p]) : m.total[g] = total[g]
      BY <2>1 DEF Loading
    <2>4. \A g \in LoadedAt(next) : g \in Fields /\ (g = f \/ g \in LoadedAt(step[p]))
      BY <1>4, <2>1 DEF LoadedAt, Fields
    <2>5. \A g \in LoadedAt(next) : snap'[p].total[g] = total[g]
      BY <1>1, <2>2, <2>3, <2>4
    <2>6. next # "got"
      OBVIOUS
    <2> QED BY <2>1, <2>5, <2>6 DEF Loading, LoadedAt, Fields
  <1>5. CASE GetStreams(p)
    <2>1. step[p] \in {"streams", "streamSent", "streamReceived"}
      BY <1>5 DEF GetStreams
    <2>2. step'[p] \in {"streamSent", "streamReceived", "loss"}
      BY <1>5 DEF GetStreams, Within, TypeOK
    <2>3. snap'[p].total = m.total
      BY <1>1, <1>5 DEF GetStreams, SnapInv, HeldTyped, Snapshots
    <2>4. LoadedAt(step[p]) = Fields /\ LoadedAt(step'[p]) = Fields /\ step'[p] # "got"
      BY <2>1, <2>2 DEF LoadedAt
    <2>5. \A g \in Fields : m.total[g] = total[g]
      BY <2>1, <2>4 DEF Loading, Reading
    <2> QED BY <2>3, <2>4, <2>5 DEF Loading, LoadedAt, Fields
  <1>6. CASE GetLoss(p)
    <2>1. step[p] = "loss" /\ step'[p] = "got"
      BY <1>6 DEF GetLoss, Within, TypeOK
    <2>2. \A g \in Fields : m.total[g] = total[g]
      BY <2>1 DEF Loading, Reading, LoadedAt
    <2>3. CASE m.total.received > 0
      <3>1. snap'[p] = [m EXCEPT !.lost = Loss(udp).lost, !.total.packets = Loss(udp).expected]
        BY <1>6, <2>3 DEF GetLoss, SnapInv, HeldTyped
      <3>2. /\ snap'[p].lost = Loss(udp).lost /\ snap'[p].total.packets = Loss(udp).expected
            /\ snap'[p].total.sent = m.total.sent /\ snap'[p].total.received = m.total.received
        BY <1>1, <1>2, <3>1 DEF Snapshots
      <3>3. Loss(udp).expected = udp.expected
        BY DEF Loss
      <3>4. /\ snap'[p].total.sent = total.sent /\ snap'[p].total.received = total.received
            /\ total.received > 0 /\ snap'[p].total.packets = udp.expected
        BY <1>2, <2>2, <2>3, <3>2, <3>3
      <3>5. Final(snap[p])'
        BY <3>2, <3>4 DEF Final, Loss
      <3>6. \A g \in LoadedAt("got") : snap'[p].total[g] = total[g]
        BY <3>4 DEF LoadedAt
      <3> QED BY <2>1, <3>5, <3>6 DEF Loading, LoadedAt, Fields
    <2>4. CASE ~(m.total.received > 0)
      <3>1. snap' = snap
        BY <1>6, <2>4 DEF GetLoss
      <3>2. Final(snap[p])'
        BY <1>2, <2>2, <2>4, <3>1 DEF Final
      <3>3. \A g \in LoadedAt("got") : snap'[p].total[g] = total[g]
        BY <1>2, <2>2, <3>1 DEF LoadedAt
      <3> QED BY <2>1, <3>2, <3>3 DEF Loading, LoadedAt, Fields
    <2> QED BY <2>3, <2>4
  <1> QED BY <1>2, <1>3, <1>4, <1>5, <1>6 DEF Gets

LEMMA EndingText ==
  ASSUME TypeOK, SnapInv, PlaceInv, NEW p \in Procs, Records(p) \/ Reads(p),
         kind[p] \in Clients, at[p][1] = "finish", TextOf(p)
  PROVE  TextOf(p)'
  <1>1. UNCHANGED <<total, udp>> /\ printed[p].form = "none" /\ HeldTyped
    BY OnlyLoopsRecord DEF PlaceInv, Over, SnapInv
  <1>2. /\ at[p][2] \in 1 .. 4
        /\ Call(p) = "duration" => at[p][2] = 1
        /\ Call(p) = "get" => at[p][2] = 2
        /\ Call(p) = "loss" => at[p][2] = 3 /\ kind[p] \in OverUdp
        /\ Call(p) = "print" => at[p][2] > 2 /\ (kind[p] \in OverUdp => at[p][2] > 3)
        /\ Call(p) \in {"duration", "get", "loss", "print"}
        /\ Len(Part(p)) = (IF kind[p] \in OverUdp THEN 4 ELSE 3)
    BY EndCalls
  <1>3. step[p] # "next" => Call(p) \in CallsIn(step[p])
    BY DEF PlaceInv
  <1>4. Returns(p) =>
          /\ step'[p] = "next" /\ kind' = kind
          /\ at'[p] = IF at[p][2] < Len(Part(p)) THEN <<"finish", at[p][2] + 1>> ELSE <<"over", 0>>
    BY ReturnsPlaces DEF Working
  <1>5. CASE Records(p)
    <2>1. SetDuration(p)
      BY <1>5, EndRecords
    <2>2. Returns(p) /\ Call(p) = "duration" /\ printed' = printed
      BY <2>1 DEF SetDuration, Begins
    <2>3. at'[p] = <<"finish", 2>> /\ step'[p] = "next"
      BY <1>2, <1>4, <2>2
    <2> QED BY <1>1, <2>2, <2>3 DEF TextOf, Over, Reading
  <1>6. CASE Gets(p)
    <2>1. Call(p) = "get"
      BY <1>3, <1>6, Insides DEF Gets, GetClones, GetLoads, GetStreams, GetLoss, Begins, Reading
    <2>2. at' = at /\ kind' = kind
      BY <1>6 DEF Gets, GetClones, GetLoads, GetStreams, GetLoss, Within
    <2>3. printed' = printed
      BY <1>6 DEF Gets, GetClones, GetLoads, GetStreams, GetLoss
    <2>4. Loading(step[p], snap[p])'
      BY <1>1, <1>6, LoadsFinal DEF TextOf
    <2>5. at[p][2] = 2
      BY <1>2, <2>1
    <2> QED BY <1>1, <2>2, <2>3, <2>4, <2>5 DEF TextOf, Over
  <1>7. CASE GetReturns(p)
    <2>1. step[p] = "got" /\ Returns(p) /\ printed' = printed /\ AtItsEnd(p) /\ snap'[p] = snap[p]
      BY <1>7 DEF GetReturns, AtItsEnd, SnapInv, HeldTyped
    <2>2. Call(p) = "get"
      BY <1>3, <2>1, Insides DEF Reading
    <2>3. at'[p] = <<"finish", 3>> /\ step'[p] = "next"
      BY <1>2, <1>4, <2>1, <2>2
    <2>4. Final(snap[p])
      BY <2>1 DEF TextOf, Reading, Loading
    <2>5. Final(snap[p])'
      BY <1>1, <2>1, <2>4 DEF Final, Loss
    <2> QED BY <1>1, <2>1, <2>3, <2>5 DEF TextOf, Over, Reading
  <1>8. CASE CalculateLoss(p)
    <2>1. /\ step[p] = "next" /\ Returns(p) /\ UNCHANGED <<printed, snap>>
          /\ Call(p) = "loss" /\ loss'[p] = Loss(udp)
      BY <1>8 DEF CalculateLoss, Begins, AtItsEnd, SnapInv, HeldTyped
    <2>2. at'[p] = <<"finish", 4>> /\ step'[p] = "next" /\ at[p][2] = 3
      BY <1>2, <1>4, <2>1
    <2>3. Final(snap[p])
      BY <2>1, <2>2 DEF TextOf
    <2>4. Final(snap[p])' /\ loss'[p] = Loss(udp)'
      BY <1>1, <2>1, <2>3 DEF Final, Loss
    <2> QED BY <1>1, <2>1, <2>2, <2>4 DEF TextOf, Over, Reading
  <1>9. CASE GetStreamStats(p)
    BY <1>2, <1>9 DEF GetStreamStats, Begins
  <1>10. CASE PrintText(p)
    <2>1. /\ step[p] = "next" /\ Returns(p) /\ UNCHANGED loss /\ Call(p) = "print"
          /\ printed'[p] = [form |-> "text", shows |-> Text(snap[p])]
      BY <1>10 DEF PrintText, Begins, SnapInv, HeldTyped
    <2>2. at'[p] = <<"over", 0>> /\ step'[p] = "next" /\ at[p][2] > 2 /\ kind' = kind
      BY <1>2, <1>4, <2>1
    <2>3. Final(snap[p])
      BY <2>1, <2>2 DEF TextOf
    <2>4. kind[p] \in OverUdp => loss[p] = Loss(udp)
      BY <1>2, <2>1 DEF TextOf
    <2>5. TrueText(Text(snap[p]))
      BY <2>3 DEF TrueText, Text, Final
    <2>6. TrueText(printed[p].shows)'
      BY <1>1, <2>1, <2>5 DEF TrueText, Loss
    <2>7. kind'[p] \in OverUdp => loss'[p] = Loss(udp)'
      BY <1>1, <2>1, <2>2, <2>4 DEF Loss
    <2> QED BY <2>2, <2>6, <2>7 DEF TextOf, Over, TrueText, OverUdp
  <1>11. CASE PrintJson(p) /\ step[p] # "results"
    <2>1. /\ at' = at /\ kind' = kind /\ step'[p] = "results" /\ UNCHANGED <<printed, loss>>
      BY <1>11 DEF PrintJson, Within, TypeOK
    <2>2. Loss(udp)' = Loss(udp)
      BY <1>1 DEF Loss
    <2> QED BY <1>1, <2>1, <2>2 DEF TextOf, Over, Reading, OverUdp
  <1>12. CASE PrintJson(p) /\ step[p] = "results"
    <2>1. /\ Returns(p) /\ UNCHANGED loss
          /\ printed'[p] = [form |-> "json", shows |-> Json(kind[p])]
      BY <1>12 DEF PrintJson, Begins, SnapInv, HeldTyped
    <2>2. Call(p) = "print"
      BY <1>3, <1>12, Insides
    <2>3. at'[p] = <<"over", 0>> /\ step'[p] = "next" /\ kind' = kind
      BY <1>2, <1>4, <2>1, <2>2
    <2>4. kind[p] \in OverUdp => loss[p] = Loss(udp)
      BY <1>2, <2>2 DEF TextOf
    <2>5. kind'[p] \in OverUdp => loss'[p] = Loss(udp)'
      BY <1>1, <2>1, <2>3, <2>4 DEF Loss
    <2> QED BY <2>1, <2>3, <2>5 DEF TextOf, Over, OverUdp
  <1> QED BY <1>5, <1>6, <1>7, <1>8, <1>9, <1>10, <1>11, <1>12 DEF Reads, Gets

LEMMA StepText ==
  ASSUME ClientsAreAlone, TypeOK, SnapInv, PlaceInv, TextInv, [Next]_vars
  PROVE  TextInv'
  <1>1. ASSUME NEW p \in Procs, Starts(p) \/ Records(p) \/ Reads(p) PROVE TextInv'
    <2>1. HeldTyped /\ kind \in Casts
      BY DEF SnapInv, TextInv
    <2>2. kind' = kind
      BY <1>1, ReadsKeep, StaysInCall DEF Starts, Returns, Within
    <2>3. ASSUME kind[p] \in Clients PROVE TextOf(p)'
      <3>1. CASE at[p][1] # "finish"
        BY <1>1, <2>1, <3>1, EarlierText
      <3>2. CASE at[p][1] = "finish"
        BY <1>1, <2>3, <3>2, EndingText DEF TextInv, Starts
      <3> QED BY <3>1, <3>2
    <2>4. ASSUME NEW q \in Procs, q # p, kind[q] \in Clients PROVE TextOf(q)'
      <3>1. kind[p] = "User"
        BY <2>1, <2>4 DEF ClientsAreAlone
      <3>2. UNCHANGED <<total, udp>>
        BY <1>1, <3>1, OnlyLoopsRecord
      <3>3. /\ at'[q] = at[q] /\ step'[q] = step[q] /\ snap'[q] = snap[q] /\ loss'[q] = loss[q]
            /\ printed'[q] = printed[q]
        BY <1>1, <2>1, <2>4, OthersHold
      <3> QED BY <2>2, <2>4, <3>2, <3>3, TextStays DEF TextInv
    <2>5. \A q \in Procs : kind'[q] \in Clients => TextOf(q)'
      BY <2>2, <2>3, <2>4
    <2> QED BY <2>1, <2>2, <2>5 DEF TextInv, Clients
  <1>2. CASE UNCHANGED vars
    <2>1. UNCHANGED <<kind, at, step, snap, loss, printed, total, udp>>
      BY <1>2 DEF vars, shared
    <2>2. \A q \in Procs : kind[q] \in Clients => TextOf(q)'
      BY <2>1, TextStays DEF TextInv
    <2> QED BY <2>1, <2>2 DEF TextInv, Clients
  <1> QED BY <1>1, <1>2 DEF Next, Finished

\* For any number of tasks of which a client's are alone with callers of
\* get_measurements: the text of a client shows what its run has recorded.
THEOREM TextIsAlwaysTrue ==
  ASSUME ClientsAreAlone
  PROVE  Spec => []TextIsTrue
  <1>1. Init => TextInv
    BY DEF Init, TextInv, TextOf, NotYet, Over, Reading
  <1>2. TypeOK /\ SnapInv /\ PlaceInv /\ TextInv /\ [Next]_vars => TextInv'
    BY StepText
  <1>3. PlaceInv /\ TextInv => TextIsTrue
    <2> SUFFICES ASSUME PlaceInv, TextInv, NEW p \in Procs, Over(p), printed[p].form = "text"
                 PROVE  LET t == printed[p].shows IN
                        /\ t.sent = total.sent /\ t.received = total.received
                        /\ t.expected = IF total.received > 0 THEN udp.expected ELSE total.packets
                        /\ t.lost = (IF total.received > 0 THEN Loss(udp).lost ELSE 0)
                        /\ kind[p] \in OverUdp => loss[p] = Loss(udp)
      BY DEF TextIsTrue
    <2>1. kind[p] \in Clients
      BY DEF PlaceInv
    <2> QED BY <2>1 DEF TextInv, TextOf, TrueText
  <1> QED BY <1>1, <1>2, <1>3, CountInvariant, PlaceInvariant, PTL DEF Spec

(***************************************************************************)
(* Who waits for whom.                                                     *)
(***************************************************************************)

\* The steps at which a task has a lock.
HeldAt(l) == CASE l = "udp"   -> {"inner"}
               [] l = "inner" -> Copying
               [] OTHER       -> {"streamSent", "streamReceived"}

\* The locks that a task cannot go on without.
Needs(p) ==
  {l \in Locks :
     \/ l = "streams" /\ step[p] \in {"find", "streams"}
     \/ l = "inner"   /\ \/ step[p] = "inner"
                         \/ step[p] = "next" /\ at[p][2] # 0
                              /\ Call(p) \in {"interval", "duration", "sync", "get", "stats", "print"}
     \/ l = "udp"     /\ \/ step[p] = "loss" /\ snap[p].total.received > 0
                         \/ step[p] = "results" /\ kind[p] \in OverUdp
                         \/ step[p] = "next" /\ at[p][2] # 0 /\ Call(p) \in {"loss", "arrival"}}

Holds(p) == {l \in Locks : lock[l] = p}

\* A task that holds a lock while it waits waits for one that needs no lock:
\* so no tasks wait in a circle, and nobody waits for himself.
NoCircularWait ==
  \A p, q \in Procs : \A l \in Needs(p) : Holds(p) # {} /\ lock[l] = q => Needs(q) = {}

\* A task has a lock in the critical sections of that lock and nowhere else.
LockInv ==
  /\ kind \in Casts
  /\ \A p \in Procs, l \in Locks : lock[l] = p <=> step[p] \in HeldAt(l)

\* What a step of a task does to one lock: nothing, or it takes a free one, or
\* leaves its own; and the task is where its locks say.
Passes(p) ==
  \A l \in Locks :
    /\ lock'[l] = lock[l] \/ {lock[l], lock'[l]} = {p, Nobody}
    /\ lock'[l] = p <=> step'[p] \in HeldAt(l)

LEMMA HeldSteps ==
  /\ HeldAt("udp") = {"inner"}
  /\ HeldAt("inner") = {"syncReceived", "syncPackets", "results"}
  /\ HeldAt("streams") = {"streamSent", "streamReceived"}
  /\ Locks = {"udp", "inner", "streams"}
  <1>1. HeldAt("udp") = {"inner"}
    BY DEF HeldAt
  <1>2. HeldAt("inner") = {"syncReceived", "syncPackets", "results"}
    BY DEF HeldAt, Copying
  <1>3. HeldAt("streams") = {"streamSent", "streamReceived"}
    BY DEF HeldAt
  <1> QED BY <1>1, <1>2, <1>3 DEF Locks

\* The steps at which a task has no lock.
Apart == Steps \ {"inner", "syncReceived", "syncPackets", "results", "streamSent", "streamReceived"}

LEMMA StaysApart ==
  ASSUME TypeOK, LockInv, NEW p \in Procs, step[p] \in Apart, step'[p] \in Apart, UNCHANGED lock
  PROVE  Passes(p)
  <1>1. \A l \in Locks : step[p] \notin HeldAt(l) /\ step'[p] \notin HeldAt(l)
    BY HeldSteps DEF Apart
  <1> QED BY <1>1 DEF Passes, LockInv

LEMMA StaysInside ==
  ASSUME TypeOK, LockInv, NEW p \in Procs, NEW k \in Locks,
         step[p] \in HeldAt(k), step'[p] \in HeldAt(k), UNCHANGED lock
  PROVE  Passes(p)
  <1>1. \A l \in Locks : step[p] \in HeldAt(l) <=> l = k
    BY HeldSteps
  <1>2. \A l \in Locks : step'[p] \in HeldAt(l) <=> l = k
    BY HeldSteps
  <1> QED BY <1>1, <1>2 DEF Passes, LockInv

LEMMA TakesLock ==
  ASSUME TypeOK, LockInv, NEW p \in Procs, NEW k \in Locks, Free(k), Hold(k, p),
         step[p] \in Apart, step'[p] \in HeldAt(k)
  PROVE  Passes(p)
  <1>1. \A l \in Locks : step[p] \notin HeldAt(l)
    BY HeldSteps DEF Apart
  <1>2. \A l \in Locks : step'[p] \in HeldAt(l) <=> l = k
    BY HeldSteps
  <1>3. lock[k] = Nobody /\ lock'[k] = p /\ \A l \in Locks : l # k => lock'[l] = lock[l]
    BY DEF Free, Hold, TypeOK
  <1> QED BY <1>1, <1>2, <1>3 DEF Passes, LockInv

LEMMA LeavesLock ==
  ASSUME TypeOK, LockInv, NEW p \in Procs, NEW k \in Locks, Release(k),
         step[p] \in HeldAt(k), step'[p] \in Apart
  PROVE  Passes(p)
  <1>1. \A l \in Locks : step[p] \in HeldAt(l) <=> l = k
    BY HeldSteps
  <1>2. \A l \in Locks : step'[p] \notin HeldAt(l)
    BY HeldSteps DEF Apart
  <1>3. lock[k] = p /\ lock'[k] = Nobody /\ \A l \in Locks : l # k => lock'[l] = lock[l]
    BY <1>1 DEF Release, TypeOK, LockInv
  <1>4. p # Nobody
    BY ProcsAssumption
  <1> QED BY <1>1, <1>2, <1>3, <1>4 DEF Passes, LockInv

\* Every step of a task takes and leaves locks so.
LEMMA StepPasses ==
  ASSUME TypeOK, LockInv, NEW p \in Procs, Starts(p) \/ Records(p) \/ Reads(p)
  PROVE  Passes(p)
  <1>1. Returns(p) => step'[p] = "next"
    BY ReturnsTyped DEF TypeOK
  <1>2. \A s : Within(p, s) => step'[p] = s
    BY DEF Within, TypeOK
  <1>3. {"next", "find", "add", "sent", "received", "packets", "streams", "loss", "got"} \subseteq Apart
    BY DEF Apart, Steps
  <1>4. CASE Starts(p)
    BY <1>3, <1>4, StaysApart DEF Starts, shared
  <1>5. CASE \E call \in {"sent", "received", "packet"} : AddToTotal(p, call)
    BY <1>2, <1>3, <1>5, StaysApart DEF AddToTotal, Begins
  <1>6. CASE FindStream(p)
    BY <1>2, <1>3, <1>6, StaysApart DEF FindStream
  <1>7. CASE AddToStream(p) \/ AddInterval(p) \/ SetDuration(p)
    BY <1>1, <1>3, <1>7, StaysApart DEF AddToStream, AddInterval, SetDuration, Begins
  <1>8. CASE RecordArrival(p)
    <2>1. CASE step[p] = "next" /\ Free("udp") /\ Hold("udp", p) /\ Within(p, "inner")
      BY <1>2, <1>3, <2>1, HeldSteps, TakesLock
    <2>2. CASE step[p] = "inner" /\ Release("udp") /\ Returns(p)
      BY <1>1, <1>3, <2>2, HeldSteps, LeavesLock
    <2>3. CASE step[p] = "next" /\ Returns(p) /\ UNCHANGED lock
      BY <1>1, <1>3, <2>3, StaysApart
    <2> QED BY <1>8, <2>1, <2>2, <2>3 DEF RecordArrival, Begins, shared
  <1>9. CASE SyncBegins(p)
    BY <1>2, <1>3, <1>9, HeldSteps, TakesLock DEF SyncBegins, Begins
  <1>10. CASE SyncGoesOn(p)
    <2>1. CASE step[p] = "syncReceived" /\ Within(p, "syncPackets") /\ UNCHANGED lock
      BY <1>2, <2>1, HeldSteps, StaysInside
    <2>2. CASE step[p] = "syncPackets" /\ Release("inner") /\ Returns(p)
      BY <1>1, <1>3, <2>2, HeldSteps, LeavesLock
    <2> QED BY <1>10, <2>1, <2>2 DEF SyncGoesOn
  <1>11. CASE GetClones(p) \/ GetLoss(p)
    BY <1>2, <1>3, <1>11, StaysApart DEF GetClones, GetLoss, Begins, shared
  <1>12. CASE \/ GetLoads(p, "sent", "received") \/ GetLoads(p, "received", "packets")
              \/ GetLoads(p, "packets", "streams")
    BY <1>2, <1>3, <1>12, StaysApart DEF GetLoads, shared
  <1>13. CASE GetStreams(p)
    <2>1. CASE step[p] = "streams" /\ Free("streams") /\ Hold("streams", p) /\ Within(p, "streamSent")
      BY <1>2, <1>3, <2>1, HeldSteps, TakesLock
    <2>2. CASE step[p] = "streamSent" /\ Within(p, "streamReceived") /\ UNCHANGED lock
      BY <1>2, <2>2, HeldSteps, StaysInside
    <2>3. CASE step[p] = "streamReceived" /\ Release("streams") /\ Within(p, "loss")
      BY <1>2, <1>3, <2>3, HeldSteps, LeavesLock
    <2> QED BY <1>13, <2>1, <2>2, <2>3 DEF GetStreams
  <1>14. CASE GetReturns(p) \/ CalculateLoss(p) \/ GetStreamStats(p) \/ PrintText(p)
    BY <1>1, <1>3, <1>14, StaysApart
       DEF GetReturns, CalculateLoss, GetStreamStats, PrintText, Begins, shared
  <1>15. CASE PrintJson(p)
    <2>1. CASE step[p] = "next" /\ Free("inner") /\ Hold("inner", p) /\ Within(p, "results")
      BY <1>2, <1>3, <2>1, HeldSteps, TakesLock
    <2>2. CASE step[p] = "results" /\ Release("inner") /\ Returns(p)
      BY <1>1, <1>3, <2>2, HeldSteps, LeavesLock
    <2> QED BY <1>15, <2>1, <2>2 DEF PrintJson, Begins
  <1>16. CASE Records(p)
    BY <1>5, <1>6, <1>7, <1>8, <1>9, <1>10, <1>16 DEF Records
  <1>17. CASE Reads(p)
    BY <1>11, <1>12, <1>13, <1>14, <1>15, <1>17 DEF Reads
  <1> QED BY <1>4, <1>16, <1>17

LEMMA StepLocks ==
  ASSUME TypeOK, PlaceInv, HeldTyped, LockInv, [Next]_vars
  PROVE  LockInv'
  <1>1. ASSUME NEW p \in Procs, Starts(p) \/ Records(p) \/ Reads(p) PROVE LockInv'
    <2>1. kind' = kind
      BY <1>1, StaysInCall DEF Starts, Returns, Within
    <2>2. Passes(p)
      BY <1>1, StepPasses
    <2>3. ASSUME NEW q \in Procs, q # p, NEW l \in Locks
          PROVE  lock'[l] = q <=> step'[q] \in HeldAt(l)
      <3>1. step'[q] = step[q]
        BY <1>1, <2>3, OthersHold
      <3>2. lock'[l] = q <=> lock[l] = q
        BY <2>2, <2>3, ProcsAssumption DEF Passes
      <3> QED BY <3>1, <3>2 DEF LockInv
    <2>4. \A q \in Procs, l \in Locks : lock'[l] = q <=> step'[q] \in HeldAt(l)
      BY <2>2, <2>3 DEF Passes
    <2>5. \A l : HeldAt(l)' = HeldAt(l)
      BY DEF HeldAt, Copying
    <2> QED BY <2>1, <2>4, <2>5 DEF LockInv
  <1>2. CASE UNCHANGED vars
    BY <1>2 DEF vars, shared, LockInv, HeldAt, Copying
  <1> QED BY <1>1, <1>2 DEF Next, Finished

\* Who prints is a client, and who counts an arrival is no user.
LEMMA WhoIsInside ==
  ASSUME TypeOK, PlaceInv, NEW p \in Procs
  PROVE  /\ step[p] = "results" => kind[p] \in Clients
         /\ step[p] = "inner"   => kind[p] # "User"
  <1> SUFFICES ASSUME step[p] \in {"results", "inner"}
               PROVE  /\ step[p] = "results" => kind[p] \in Clients
                      /\ step[p] = "inner"   => kind[p] # "User"
    OBVIOUS
  <1>1. at[p][1] \in Working /\ at[p][2] \in 1 .. Len(Part(p))
    BY DEF PlaceInv, TypeOK, Parts, Working
  <1>2. Call(p) = (IF step[p] = "results" THEN "print" ELSE "arrival")
    BY Insides DEF PlaceInv
  <1> QED BY <1>1, <1>2, Scripts DEF Call, Part, PartInOrder, TypeOK

\* For any number of tasks of which a client's are alone with callers of
\* get_measurements: record_udp_packet_received holds udp_state while it waits
\* for inner, get_detailed_results holds inner while it waits for udp_state,
\* and yet no two tasks stop each other.
THEOREM LocksNeverWaitInACircle ==
  ASSUME ClientsAreAlone
  PROVE  Spec => []NoCircularWait
  <1>1. Init => LockInv
    <2> SUFFICES ASSUME Init, NEW p \in Procs, NEW l \in Locks
                 PROVE  lock[l] # p /\ step[p] \notin HeldAt(l)
      BY DEF LockInv, Init
    <2>1. step[p] = "next" /\ lock[l] = Nobody
      BY DEF Init
    <2>2. step[p] \notin HeldAt(l)
      BY <2>1, HeldSteps
    <2> QED BY <2>1, <2>2, ProcsAssumption
  <1>2. TypeOK /\ SnapInv /\ PlaceInv /\ LockInv /\ [Next]_vars => LockInv'
    BY StepLocks DEF SnapInv
  <1>3. TypeOK /\ PlaceInv /\ LockInv => NoCircularWait
    <2> SUFFICES ASSUME TypeOK, PlaceInv, LockInv, NEW p \in Procs, NEW q \in Procs,
                        NEW l \in Needs(p), Holds(p) # {}, lock[l] = q
                 PROVE  Needs(q) = {}
      BY DEF NoCircularWait
    <2>1. step[p] \in {"inner", "syncReceived", "syncPackets", "results", "streamSent", "streamReceived"}
      BY HeldSteps DEF Holds, LockInv
    <2>2. \/ step[p] = "inner" /\ l = "inner"
          \/ step[p] = "results" /\ l = "udp"
      BY <2>1 DEF Needs
    <2>3. step[q] \in HeldAt(l)
      BY <2>2, HeldSteps DEF LockInv
    <2>4. q # p
      BY <2>2, <2>3, HeldSteps
    <2>5. kind[p] \in Clients => kind[q] = "User"
      BY <2>4 DEF ClientsAreAlone, LockInv
    <2>6. kind[q] \in Clients => kind[p] = "User"
      BY <2>4 DEF ClientsAreAlone, LockInv
    <2>7. step[p] = "inner" /\ step[q] \in {"syncReceived", "syncPackets"}
      BY <2>2, <2>3, <2>5, <2>6, HeldSteps, WhoIsInside
    <2> QED BY <2>7 DEF Needs
  <1> QED BY <1>1, <1>2, <1>3, CountInvariant, PlaceInvariant, PTL DEF Spec

=============================================================================
