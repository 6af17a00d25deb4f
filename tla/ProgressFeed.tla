---------------------------- MODULE ProgressFeed ----------------------------
(***************************************************************************)
(* What the callback of a Client is promised about each of its tests       *)
(* (ProgressEvent, client.rs:155-211): TestStarted first, then interval    *)
(* updates, and TestCompleted once at the end, with nothing after it.  A   *)
(* test whose future the caller drops never completes, and the updates     *)
(* that were under way may still arrive.                                   *)
(***************************************************************************)
EXTENDS Naturals

CONSTANT Runs

VARIABLES
  phase,  \* how far the callback has been told about each test
  told    \* the bytes of all updates it has been given

vars == <<phase, told>>

Init == phase = [r \in Runs |-> "quiet"] /\ told = [r \in Runs |-> 0]

Start(r) == /\ phase[r] = "quiet"
            /\ phase' = [phase EXCEPT ![r] = "started"]
            /\ UNCHANGED told

Update(r) == /\ phase[r] \in {"started", "dropped"}
             /\ told' = [told EXCEPT ![r] = told'[r]]
             /\ told'[r] \in Nat /\ told'[r] > told[r]
             /\ UNCHANGED phase

Over(r, how) == /\ phase[r] = "started"
                /\ phase' = [phase EXCEPT ![r] = how]
                /\ UNCHANGED told

Next == \E r \in Runs : Start(r) \/ Update(r) \/ Over(r, "completed") \/ Over(r, "dropped")

Spec == Init /\ [][Next]_vars
=============================================================================
