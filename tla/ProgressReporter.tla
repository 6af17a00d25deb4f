-------------------------- MODULE ProgressReporter --------------------------
(***************************************************************************)
(* How a Client tells its callback about the tests it runs: run() itself   *)
(* announces TestStarted and TestCompleted, and a reporter task of its own *)
(* for each run (interval_reporter.rs) makes the interval updates, fed     *)
(* over an unbounded channel by the data loop.                             *)
(*                                                                         *)
(* run() takes &self, so a Client may run several tests, one after the     *)
(* other here.  The caller may drop run() at any await, which closes the   *)
(* channel but does not stop the task, and a callback takes its time and   *)
(* may panic, which kills the task only.                                   *)
(***************************************************************************)
EXTENDS Naturals, Sequences, Sums

CONSTANTS
  MaxRuns,    \* bound: tests run with one Client
  MaxRecords  \* bound: reads or writes recorded in one test

ASSUME BoundsAssumption == MaxRuns \in Nat /\ MaxRecords \in Nat

Runs == 1 .. MaxRuns

VARIABLES
  run,        \* the latest run of this Client, 0 before the first
  pc,         \* where it is
  recorded,   \* bytes each run counted (history)
  interval,   \* interval_bytes of each run
  channel,    \* what is queued for the reporter task of each run
  sender,     \* the run still holds its IntervalReporter
  task,       \* where the reporter task of each run is
  phase,      \* the events of run() itself: TestStarted, TestCompleted
  told        \* bytes of the updates given to the callback (history)

vars == <<run, pc, recorded, interval, channel, sender, task, phase, told>>

Complete == [kind |-> "Complete"]
Report(n) == [kind |-> "Report", bytes |-> n]

TaskOver == {"done", "panicked"}

-----------------------------------------------------------------------------
(* Client::run and its data loop                                           *)

taskState == <<task, told>>

\* TestStarted is announced, then the loop makes its channel and its task.
StartRun ==
  /\ pc = "idle" /\ run < MaxRuns
  /\ run' = run + 1
  /\ pc' = "loop"
  /\ phase' = [phase EXCEPT ![run'] = "started"]
  /\ sender' = [sender EXCEPT ![run'] = TRUE]
  /\ task' = [task EXCEPT ![run'] = "recv"]
  /\ UNCHANGED <<recorded, interval, channel, told>>

\* UnboundedSender::send: nothing is queued for a task that died.
Send(msg) ==
  channel' = IF task[run] \in TaskOver THEN channel
             ELSE [channel EXCEPT ![run] = Append(@, msg)]

\* One read or write went well.  When config.interval has passed since the
\* last report, the bytes of the interval are reported.
FaultRecord ==
  /\ pc = "loop" /\ recorded[run] < MaxRecords
  /\ recorded' = [recorded EXCEPT ![run] = @ + 1]
  /\ \/ /\ interval' = [interval EXCEPT ![run] = @ + 1]
        /\ UNCHANGED channel
     \/ /\ interval' = [interval EXCEPT ![run] = @ - (@ + 1)]
        /\ Send(Report(interval[run] + 1))
  /\ UNCHANGED <<run, pc, sender, phase, taskState>>

Record ==
  /\ pc = "loop" /\ recorded[run] < MaxRecords
  /\ recorded' = [recorded EXCEPT ![run] = @ + 1]
  /\ \/ /\ interval' = [interval EXCEPT ![run] = @ + 1]
        /\ UNCHANGED channel
     \/ /\ interval' = [interval EXCEPT ![run] = 0]
        /\ Send(Report(interval[run] + 1))
  /\ UNCHANGED <<run, pc, sender, phase, taskState>>

\* The loop is over, for whatever reason: reporter.complete().  The partial
\* last interval is not reported.
FaultLeaveLoop ==
  /\ pc = "loop"
  /\ pc' = "wait"
  /\ UNCHANGED <<run, recorded, interval, channel, sender, phase, taskState>>

LeaveLoop ==
  /\ pc = "loop"
  /\ pc' = "wait"
  /\ Send(Complete)
  /\ UNCHANGED <<run, recorded, interval, sender, phase,
                 taskState>>

\* reporter_task.await returns, the JoinError of a panic is ignored, and the
\* loop's function drops its reporter.
FaultAwait ==
  /\ pc = "wait"
  /\ pc' = "results"
  /\ sender' = [sender EXCEPT ![run] = FALSE]
  /\ UNCHANGED <<run, recorded, interval, channel, phase,
                 taskState>>

Await ==
  /\ pc = "wait" /\ task[run] \in TaskOver
  /\ pc' = "results"
  /\ sender' = [sender EXCEPT ![run] = FALSE]
  /\ UNCHANGED <<run, recorded, interval, channel, phase,
                 taskState>>

\* After the results are in (TCP reads Result and Done first): TestCompleted.
Notify ==
  /\ pc = "results"
  /\ pc' = "idle"
  /\ phase' = [phase EXCEPT ![run] = "completed"]
  /\ UNCHANGED <<run, recorded, interval, channel, sender, taskState>>

\* The future of run() is dropped at an await, and with it the reporter; the
\* JoinHandle is dropped too, which detaches the task.
Abort ==
  /\ pc # "idle"
  /\ pc' = "idle"
  /\ phase' = [phase EXCEPT ![run] = "dropped"]
  /\ sender' = [sender EXCEPT ![run] = FALSE]
  /\ UNCHANGED <<run, recorded, interval, channel, taskState>>

-----------------------------------------------------------------------------
(* run_reporter_task                                                       *)

clientState == <<run, pc, recorded, interval, sender, phase>>

TaskGoTo(r, where) == task' = [task EXCEPT ![r] = where]

\* Complete is taken for one more update.
FaultTaskTakes(r) ==
  /\ task[r] = "recv" /\ channel[r] # <<>>
  /\ channel' = [channel EXCEPT ![r] = Tail(@)]
  /\ TaskGoTo(r, IF Head(channel[r]) = Complete THEN "recv" ELSE "callback")
  /\ UNCHANGED <<clientState, told>>

\* recv() gives a message: an update calls the callback, Complete ends the
\* task, whatever else is queued.
TaskTakes(r) ==
  /\ task[r] = "recv" /\ channel[r] # <<>>
  /\ channel' = [channel EXCEPT ![r] = Tail(@)]
  /\ LET msg == Head(channel[r])
     IN  IF msg = Complete
           THEN TaskGoTo(r, "done") /\ UNCHANGED told
           ELSE TaskGoTo(r, "callback") /\ told' = [told EXCEPT ![r] = @ + msg.bytes]
  /\ UNCHANGED clientState

\* on_progress returns, and the line is printed.
CallbackReturns(r) ==
  /\ task[r] = "callback"
  /\ TaskGoTo(r, "recv")
  /\ UNCHANGED <<clientState, channel, told>>

\* A panic of the callback ends the task and drops the receiver.
CallbackPanics(r) ==
  /\ task[r] = "callback"
  /\ TaskGoTo(r, "panicked")
  /\ channel' = [channel EXCEPT ![r] = <<>>]
  /\ UNCHANGED <<clientState, told>>

\* recv() gives None: the queue is empty and the sender is gone.
TaskClosed(r) ==
  /\ task[r] = "recv" /\ channel[r] = <<>> /\ ~sender[r]
  /\ TaskGoTo(r, "done")
  /\ UNCHANGED <<clientState, channel, told>>

TaskStep(r) == TaskTakes(r) \/ CallbackReturns(r) \/ CallbackPanics(r) \/ TaskClosed(r)

\* The caller runs no more tests and every task is over.
Finished ==
  /\ pc = "idle" /\ \A r \in 1 .. run : task[r] \in TaskOver
  /\ UNCHANGED vars

Init ==
  /\ run = 0 /\ pc = "idle"
  /\ recorded  = [r \in Runs |-> 0]
  /\ interval  = [r \in Runs |-> 0]
  /\ channel   = [r \in Runs |-> <<>>]
  /\ sender    = [r \in Runs |-> FALSE]
  /\ task      = [r \in Runs |-> "none"]
  /\ phase     = [r \in Runs |-> "quiet"]
  /\ told      = [r \in Runs |-> 0]

Next ==
  \/ StartRun \/ Record \/ LeaveLoop \/ Await \/ Notify \/ Abort
  \/ \E r \in Runs : TaskStep(r)
  \/ Finished

\* The runtime polls both tasks, a callback comes back, and a data loop ends
\* (its clock); nobody has to start another test or drop one.
Fairness ==
  /\ WF_vars(LeaveLoop) /\ WF_vars(Await) /\ WF_vars(Notify)
  /\ \A r \in Runs : WF_vars(TaskStep(r))

Spec     == Init /\ [][Next]_vars
FairSpec == Spec /\ Fairness

-----------------------------------------------------------------------------
(* Properties                                                              *)

Message == {Complete} \cup [kind : {"Report"}, bytes : Nat \ {0}]

TypeOK ==
  /\ run \in 0 .. MaxRuns
  /\ pc \in {"idle", "loop", "wait", "results"}
  /\ recorded \in [Runs -> Nat] /\ interval \in [Runs -> Nat]
  /\ channel \in [Runs -> Seq(Message)]
  /\ sender \in [Runs -> BOOLEAN]
  /\ task \in [Runs -> {"none", "recv", "callback"} \cup TaskOver]
  /\ phase \in [Runs -> {"quiet", "started", "completed", "dropped"}]
  /\ told \in [Runs -> Nat]

Bytes(msg)   == IF msg = Complete THEN 0 ELSE msg.bytes
Sizes(q)     == [i \in 1 .. Len(q) |-> Bytes(q[i])]
InChannel(q) == TotalTo(Len(q), Sizes(q))

\* Unless a callback panicked, every byte of a run is in exactly one place: in
\* an update that was given to the callback, in one that is queued, or in the
\* interval that is still open; also when the run was dropped.  And its task
\* ends only after the last queued update.
EveryByteReportedOnce ==
  \A r \in Runs :
    /\ task[r] # "panicked" =>
         told[r] + InChannel(channel[r]) + interval[r] = recorded[r]
    /\ task[r] \in TaskOver => channel[r] = <<>>

Feed == INSTANCE ProgressFeed

\* The callback hears about each test in order: nothing before TestStarted,
\* nothing after TestCompleted.
KeepsFeed == Feed!Spec

\* run() gets past the reporter task: it cannot wait for it for ever, also when
\* the callback panics.
RunGoesOn == pc = "wait" ~> pc = "idle"

\* The task of a dropped run ends by itself.
TasksEnd == \A r \in Runs : task[r] = "recv" ~> task[r] \in TaskOver
=============================================================================
