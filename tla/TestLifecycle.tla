---------------------------- MODULE TestLifecycle ----------------------------
(***************************************************************************)
(* What rperf3 promises a user about one test of each client, whatever the *)
(* transport: the client takes part only after the server has granted the  *)
(* test (the Start message of protocol.rs), a test that could not start is *)
(* reported as an error, and a test whose start was announced              *)
(* (ProgressEvent::TestStarted) ends in TestCompleted unless the caller    *)
(* drops it.                                                               *)
(***************************************************************************)
CONSTANT Clients

VARIABLES
  stage,    \* how far the client's run() is
  granted   \* the clients to which the server has sent Start

vars == <<stage, granted>>

Stages == {"idle", "joining", "running", "completed", "failed", "aborted"}

TypeOK == stage \in [Clients -> Stages] /\ granted \subseteq Clients

Init == stage = [c \in Clients |-> "idle"] /\ granted = {}

Move(c, from, to) == stage[c] \in from /\ stage' = [stage EXCEPT ![c] = to]

Join(c)     == Move(c, {"idle"}, "joining") /\ UNCHANGED granted
Grant(c)    == stage[c] # "idle" /\ granted' = granted \cup {c} /\ UNCHANGED stage
Begin(c)    == c \in granted /\ Move(c, {"joining"}, "running") /\ UNCHANGED granted
Complete(c) == Move(c, {"running"}, "completed") /\ UNCHANGED granted
Fail(c)     == Move(c, {"idle", "joining"}, "failed") /\ UNCHANGED granted
Abort(c)    == Move(c, {"joining", "running"}, "aborted") /\ UNCHANGED granted

Next == \E c \in Clients : \/ Join(c)     \/ Grant(c) \/ Begin(c)
                           \/ Complete(c) \/ Fail(c)  \/ Abort(c)

Spec == Init /\ [][Next]_vars
=============================================================================
