---------------------------- MODULE TokenBucket ----------------------------
(***************************************************************************)
(* token_bucket.rs: the rate limiter of the UDP senders of the client.     *)
(*                                                                         *)
(* The arithmetic is that of the code, on integers.  The units of the code *)
(* (10^9 nanoseconds and 10^6 microseconds to the second, no sleep of less *)
(* than 10^4 nanoseconds, a burst of at least 8192 bytes) are constants,   *)
(* so that TLC can check the same arithmetic with small ones.              *)
(*                                                                         *)
(* Names are its own (BucketInit, BucketSpec): Bandwidth_proofs extends    *)
(* this module and TestSetup.                                              *)
(***************************************************************************)
EXTENDS Integers

CONSTANTS
  MicrosPerSec,   \* 1_000_000 in the code
  NanosPerMicro,  \* 1_000
  SkipNanos,      \* 10_000: sleeps that are not worth it
  MinBurst,       \* 8192: the least capacity
  Rates,          \* the values of bytes_per_sec
  MaxWrite,       \* bytes of one write or batch
  MaxTime,        \* bound: nanoseconds observed
  MaxLag          \* bound: nanoseconds a sleep lasts too long

NanosPerSec == MicrosPerSec * NanosPerMicro

ASSUME ClockUnitsAssumption ==
  /\ MicrosPerSec \in Nat \ {0} /\ NanosPerMicro \in Nat \ {0}
  /\ SkipNanos \in Nat /\ MinBurst \in Nat
ASSUME RatesAssumption  == Rates \subseteq Nat
ASSUME WritesAssumption == MaxWrite \in Nat
ASSUME BoundsAssumption == MaxTime \in Nat /\ MaxLag \in Nat

VARIABLES
  rate,        \* bytes_per_sec
  tokens,      \* the bucket, negative when in debt
  lastRefill,  \* when it was last refilled
  now,         \* the clock
  pending,     \* bytes of the consume() that sleeps, 0 when none does
  wake,        \* when that sleep is over
  since,       \* when the bucket was created or last reset (history)
  consumed     \* bytes consumed since then (history)

bucketVars == <<rate, tokens, lastRefill, now, pending, wake, since, consumed>>

LargerOf(a, b)  == IF a >= b THEN a ELSE b
SmallerOf(a, b) == IF a <= b THEN a ELSE b

Capacity(r)     == LargerOf(r \div 10, MinBurst)
NanosPerByte(r) == IF r > 0 THEN NanosPerSec \div r ELSE 0

-----------------------------------------------------------------------------
(* refill()                                                                *)

\* The tokens of the whole microseconds since the last refill.
FaultTokensToAdd == ((now - lastRefill) \div NanosPerMicro) * (rate \div MicrosPerSec + 1)
TokensToAdd == (((now - lastRefill) \div NanosPerMicro) * rate) \div MicrosPerSec

\* The bucket and its clock after refill(): time that makes no token is kept.
Refilled ==
  IF TokensToAdd > 0
    THEN [tokens |-> SmallerOf(tokens + TokensToAdd, Capacity(rate)), at |-> now]
    ELSE [tokens |-> tokens, at |-> lastRefill]

-----------------------------------------------------------------------------
(* consume(bytes)                                                          *)

SleepNanos(bytes) ==
  IF Refilled.tokens < bytes THEN (bytes - Refilled.tokens) * NanosPerByte(rate) ELSE 0

Take(bytes) ==
  /\ tokens' = Refilled.tokens - bytes
  /\ lastRefill' = Refilled.at
  /\ consumed' = consumed + bytes

\* Enough tokens, or too few for a sleep that is worth it.
Consume(bytes) ==
  /\ pending = 0
  /\ SleepNanos(bytes) <= SkipNanos
  /\ Take(bytes)
  /\ UNCHANGED <<rate, now, pending, wake, since>>

\* The sleep for the missing tokens.
FallAsleep(bytes) ==
  /\ pending = 0
  /\ SleepNanos(bytes) > SkipNanos
  /\ tokens' = Refilled.tokens
  /\ lastRefill' = Refilled.at
  /\ pending' = bytes
  /\ wake' = now + SleepNanos(bytes)
  /\ UNCHANGED <<rate, now, since, consumed>>

\* It is over, never early: the bucket is refilled once more, and the bytes
\* are taken whether or not that was enough.
FaultWakeUp ==
  /\ pending > 0
  /\ Take(pending)
  /\ pending' = 0
  /\ UNCHANGED <<rate, now, wake, since>>

WakeUp ==
  /\ pending > 0 /\ now >= wake
  /\ Take(pending)
  /\ pending' = 0
  /\ UNCHANGED <<rate, now, wake, since>>

\* set_bandwidth(r), and reset() for the same rate: a full bucket.
SetBandwidth(r) ==
  /\ pending = 0
  /\ rate' = r
  /\ tokens' = Capacity(r)
  /\ lastRefill' = now
  /\ since' = now /\ consumed' = 0
  /\ UNCHANGED <<now, pending, wake>>

Tick ==
  /\ now < MaxTime
  /\ pending > 0 => now < wake + MaxLag
  /\ now' = now + 1
  /\ UNCHANGED <<rate, tokens, lastRefill, pending, wake, since, consumed>>

BucketInit ==
  /\ rate \in Rates
  /\ tokens = Capacity(rate)
  /\ lastRefill = 0 /\ now = 0 /\ since = 0
  /\ pending = 0 /\ wake = 0
  /\ consumed = 0

BucketNext ==
  \/ \E bytes \in 1 .. MaxWrite : Consume(bytes) \/ FallAsleep(bytes)
  \/ WakeUp
  \/ \E r \in Rates : SetBandwidth(r)
  \/ Tick

BucketSpec == BucketInit /\ [][BucketNext]_bucketVars

-----------------------------------------------------------------------------
(* Properties                                                              *)

TypeOK ==
  /\ rate \in Rates
  /\ tokens \in Int /\ tokens <= Capacity(rate)
  /\ now \in Nat /\ lastRefill \in 0 .. now /\ since \in 0 .. lastRefill
  /\ pending \in 0 .. MaxWrite
  /\ wake \in Nat
  /\ consumed \in Nat

\* The bucket creates no tokens: what was consumed and what is left is at most
\* the burst and what the rate makes in the time up to the last refill.
NothingForFree ==
  NanosPerSec * (consumed + tokens - Capacity(rate)) <= rate * (lastRefill - since)

\* How far a bucket may fall into debt: what is too little to sleep for, or
\* what the truncations of a sleep leave missing, which later sleeps halve.
Debt(r) == LargerOf(SkipNanos, MaxWrite + 2 * (r \div MicrosPerSec + 2))

DebtBounded == rate \in 1 .. NanosPerSec => tokens >= -Debt(rate)

\* The sender is paced: in any time since the bucket was made it has consumed
\* no more than the rate allows, a burst and a bounded debt.
WithinRate(r) == NanosPerSec * (consumed - Capacity(r) - Debt(r)) <= r * (now - since)

\* token_bucket.rs:95 "ensuring the bandwidth limit is respected", for every
\* rate from 1 byte to 10^9 bytes per second.  (Above that nanos_per_byte is 0
\* and the bucket never sleeps.)
RateRespected == rate \in 1 .. NanosPerSec => WithinRate(rate)
=============================================================================
