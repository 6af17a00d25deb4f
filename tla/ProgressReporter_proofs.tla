----------------------- MODULE ProgressReporter_proofs -----------------------
(***************************************************************************)
(* What a callback hears about each test is in order, for any number of    *)
(* tests with one Client and of records in each, for any moment at which   *)
(* a run is dropped and a callback panics: ProgressReporter implements     *)
(* ProgressFeed.  And every byte is reported once: it is in the interval   *)
(* that is open, in the channel, or with the callback.                     *)
(***************************************************************************)
EXTENDS ProgressReporter, Sums_proofs, SequenceTheorems

\* The steps of a run that is under way, and those of a task.
RunStep == Record \/ LeaveLoop \/ Await \/ Notify \/ Abort

\* Tests that have not begun are unheard of; the one under way has been
\* announced; and a task that may still call the callback is that of a test
\* that was announced and has not completed.
FeedInv ==
  /\ pc # "idle" => run \in Runs /\ phase[run] = "started"
  /\ pc = "results" => task[run] \in TaskOver
  /\ \A r \in Runs : r > run => phase[r] = "quiet" /\ task[r] = "none"
  /\ \A r \in Runs : task[r] \in {"recv", "callback"} => phase[r] \in {"started", "dropped"}

(***************************************************************************)
(* Types.                                                                  *)
(***************************************************************************)

LEMMA RunsFacts == MaxRuns \in Nat /\ \A r \in Runs : r \in Nat /\ 1 <= r /\ r <= MaxRuns
  BY BoundsAssumption DEF Runs

LEMMA RunIsOne == ASSUME TypeOK, FeedInv, pc # "idle" PROVE run \in Runs
  BY DEF FeedInv

\* Sending keeps the channels typed.
LEMMA SendTyped ==
  ASSUME TypeOK, run \in Runs, NEW msg \in Message, Send(msg)
  PROVE  channel' \in [Runs -> Seq(Message)]
  <1>1. Append(channel[run], msg) \in Seq(Message)
    BY DEF TypeOK
  <1> QED BY <1>1 DEF Send, TypeOK

\* What a queue gives is a message, and the rest is a queue.
LEMMA TakenTyped ==
  ASSUME TypeOK, NEW r \in Runs, channel[r] # <<>>
  PROVE  Head(channel[r]) \in Message /\ Tail(channel[r]) \in Seq(Message)
  <1>1. channel[r] \in Seq(Message)
    BY DEF TypeOK
  <1> QED BY <1>1

LEMMA InitTyped == Init => TypeOK
  BY RunsFacts DEF Init, TypeOK, TaskOver

LEMMA RecordTyped == ASSUME TypeOK, FeedInv, Record PROVE TypeOK'
  <1>1. run \in Runs
    BY RunIsOne DEF Record
  <1>2. interval[run] + 1 \in Nat \ {0} /\ recorded[run] + 1 \in Nat
    BY <1>1 DEF TypeOK
  <1>3. Report(interval[run] + 1) \in Message
    BY <1>2 DEF Report, Message
  <1>4. channel' \in [Runs -> Seq(Message)]
    <2>1. CASE UNCHANGED channel
      BY <2>1 DEF TypeOK
    <2>2. CASE Send(Report(interval[run] + 1))
      BY <2>2, <1>1, <1>3, SendTyped
    <2> QED BY <2>1, <2>2 DEF Record
  <1>5. interval' \in [Runs -> Nat] /\ recorded' \in [Runs -> Nat]
    BY <1>1, <1>2 DEF Record, TypeOK
  <1> QED BY <1>4, <1>5 DEF Record, TypeOK, taskState

LEMMA LeaveLoopTyped == ASSUME TypeOK, FeedInv, LeaveLoop PROVE TypeOK'
  <1>1. run \in Runs
    BY RunIsOne DEF LeaveLoop
  <1>2. channel' \in [Runs -> Seq(Message)]
    BY <1>1, SendTyped DEF LeaveLoop, Message
  <1> QED BY <1>2 DEF LeaveLoop, TypeOK, taskState

LEMMA TaskTakesTyped == ASSUME TypeOK, NEW r \in Runs, TaskTakes(r) PROVE TypeOK'
  <1>1. Head(channel[r]) \in Message /\ Tail(channel[r]) \in Seq(Message)
    BY TakenTyped DEF TaskTakes
  <1>2. channel' \in [Runs -> Seq(Message)]
    BY <1>1 DEF TaskTakes, TypeOK
  <1>3. told' \in [Runs -> Nat] /\ task' \in [Runs -> {"none", "recv", "callback"} \cup TaskOver]
    <2>1. CASE Head(channel[r]) = Complete
      BY <2>1 DEF TaskTakes, TaskGoTo, TypeOK, TaskOver
    <2>2. CASE Head(channel[r]) # Complete
      <3>1. told[r] + Head(channel[r]).bytes \in Nat
        BY <1>1, <2>2 DEF Message, TypeOK
      <3> QED BY <2>2, <3>1 DEF TaskTakes, TaskGoTo, TypeOK
    <2> QED BY <2>1, <2>2
  <1> QED BY <1>2, <1>3 DEF TaskTakes, TypeOK, clientState

LEMMA StepTyped == ASSUME TypeOK, FeedInv, [Next]_vars PROVE TypeOK'
  <1>1. CASE StartRun
    <2>1. run' \in Runs /\ run' \in 0 .. MaxRuns
      BY <1>1, RunsFacts DEF StartRun, TypeOK, Runs
    <2> QED BY <1>1, <2>1 DEF StartRun, TypeOK
  <1>2. CASE Record
    BY <1>2, RecordTyped
  <1>3. CASE LeaveLoop
    BY <1>3, LeaveLoopTyped
  <1>4. CASE Await
    BY <1>4, RunIsOne DEF Await, TypeOK, taskState
  <1>5. CASE Notify
    BY <1>5, RunIsOne DEF Notify, TypeOK, taskState
  <1>6. CASE Abort
    BY <1>6, RunIsOne DEF Abort, TypeOK, taskState
  <1>7. ASSUME NEW r \in Runs, TaskStep(r) PROVE TypeOK'
    <2>1. CASE TaskTakes(r)
      BY <2>1, TaskTakesTyped
    <2>2. CASE CallbackReturns(r)
      BY <2>2 DEF CallbackReturns, TaskGoTo, TypeOK, clientState
    <2>3. CASE CallbackPanics(r)
      <3>1. <<>> \in Seq(Message)
        OBVIOUS
      <3> QED BY <2>3, <3>1 DEF CallbackPanics, TaskGoTo, TypeOK, TaskOver, clientState
    <2>4. CASE TaskClosed(r)
      BY <2>4 DEF TaskClosed, TaskGoTo, TypeOK, TaskOver, clientState
    <2> QED BY <1>7, <2>1, <2>2, <2>3, <2>4 DEF TaskStep
  <1>8. CASE UNCHANGED vars
    BY <1>8 DEF vars, TypeOK
  <1> QED BY <1>1, <1>2, <1>3, <1>4, <1>5, <1>6, <1>7, <1>8 DEF Next, Finished

(***************************************************************************)
(* The order of events.                                                    *)
(***************************************************************************)

LEMMA InitFeed == Init => FeedInv
  BY RunsFacts DEF Init, FeedInv, TaskOver

LEMMA StartRunFeed == ASSUME TypeOK, FeedInv, StartRun PROVE FeedInv'
  <1>1. run' \in Runs /\ run' = run + 1 /\ run \in Nat
    BY RunsFacts DEF StartRun, TypeOK, Runs
  <1>2. phase'[run'] = "started" /\ pc' = "loop"
    BY <1>1 DEF StartRun, TypeOK
  <1>3. \A r \in Runs : r # run' => phase'[r] = phase[r] /\ task'[r] = task[r]
    BY <1>1 DEF StartRun, TypeOK
  <1>4. \A r \in Runs : r > run' => r # run' /\ r > run
    BY <1>1, RunsFacts
  <1> QED BY <1>1, <1>2, <1>3, <1>4 DEF FeedInv

\* A run that goes on.
LEMMA RunStepFeed == ASSUME TypeOK, FeedInv, RunStep PROVE FeedInv'
  <1>1. run \in Runs /\ run' = run /\ task' = task /\ phase[run] = "started"
    BY DEF RunStep, Record, LeaveLoop, Await, Notify, Abort, FeedInv, taskState
  <1>2. CASE Record \/ LeaveLoop
    BY <1>1, <1>2 DEF Record, LeaveLoop, FeedInv, taskState
  <1>3. CASE Await
    BY <1>1, <1>3 DEF Await, FeedInv, taskState
  <1>4. CASE Notify
    <2>1. pc' = "idle" /\ task[run] \in TaskOver
      BY <1>4 DEF Notify, FeedInv
    <2>2. \A r \in Runs : r # run => phase'[r] = phase[r]
      BY <1>4 DEF Notify, TypeOK
    <2>3. \A r \in Runs : r > run => r # run
      BY <1>1, RunsFacts
    <2>4. task[run] \notin {"recv", "callback"}
      BY <2>1 DEF TaskOver
    <2> QED BY <1>1, <2>1, <2>2, <2>3, <2>4 DEF FeedInv
  <1>5. CASE Abort
    <2>1. pc' = "idle" /\ phase'[run] = "dropped"
      BY <1>1, <1>5 DEF Abort, TypeOK
    <2>2. \A r \in Runs : r # run => phase'[r] = phase[r]
      BY <1>5 DEF Abort, TypeOK
    <2>3. \A r \in Runs : r > run => r # run
      BY <1>1, RunsFacts
    <2> QED BY <1>1, <2>1, <2>2, <2>3 DEF FeedInv
  <1> QED BY <1>2, <1>3, <1>4, <1>5 DEF RunStep

LEMMA TaskStepFeed ==
  ASSUME TypeOK, FeedInv, NEW r \in Runs, TaskStep(r)
  PROVE  FeedInv'
  <1>1. UNCHANGED <<run, pc, phase>> /\ task[r] \in {"recv", "callback"}
    BY DEF TaskStep, TaskTakes, CallbackReturns, CallbackPanics, TaskClosed, clientState
  <1>2. task'[r] \in {"recv", "callback"} \cup TaskOver
    BY DEF TaskStep, TaskTakes, CallbackReturns, CallbackPanics, TaskClosed, TaskGoTo,
           TypeOK, TaskOver
  <1>3. \A q \in Runs : q # r => task'[q] = task[q]
    BY DEF TaskStep, TaskTakes, CallbackReturns, CallbackPanics, TaskClosed, TaskGoTo, TypeOK
  <1>4. ~(r > run)
    BY <1>1 DEF FeedInv
  <1>5. pc = "results" => run # r
    BY <1>1 DEF FeedInv, TaskOver
  <1> QED BY <1>1, <1>2, <1>3, <1>4, <1>5 DEF FeedInv, TaskOver

LEMMA StepFeed == ASSUME TypeOK, FeedInv, [Next]_vars PROVE FeedInv'
  <1>1. CASE StartRun
    BY <1>1, StartRunFeed
  <1>2. CASE RunStep
    BY <1>2, RunStepFeed
  <1>3. ASSUME NEW r \in Runs, TaskStep(r) PROVE FeedInv'
    BY <1>3, TaskStepFeed
  <1>4. CASE UNCHANGED vars
    BY <1>4 DEF vars, FeedInv
  <1> QED BY <1>1, <1>2, <1>3, <1>4 DEF Next, RunStep, Finished

(***************************************************************************)
(* The refinement.                                                         *)
(***************************************************************************)

\* An update that is taken is one that ProgressFeed allows.
LEMMA TaskStepRefines ==
  ASSUME TypeOK, FeedInv, NEW r \in Runs, TaskStep(r)
  PROVE  Feed!Update(r) \/ UNCHANGED Feed!vars
  <1>1. CASE TaskTakes(r)
    <2>1. Head(channel[r]) \in Message /\ phase[r] \in {"started", "dropped"}
      BY <1>1, TakenTyped DEF TaskTakes, FeedInv
    <2>2. CASE Head(channel[r]) = Complete
      BY <1>1, <2>2 DEF TaskTakes, clientState, Feed!vars
    <2>3. CASE Head(channel[r]) # Complete
      <3>1. Head(channel[r]).bytes \in Nat \ {0}
        BY <2>1, <2>3 DEF Message
      <3>2. told[r] \in Nat
        BY DEF TypeOK
      <3>3. told' = [told EXCEPT ![r] = told[r] + Head(channel[r]).bytes]
        BY <1>1, <2>3 DEF TaskTakes
      <3>4. told'[r] = told[r] + Head(channel[r]).bytes
        BY <3>3 DEF TypeOK
      <3>5. told'[r] \in Nat /\ told'[r] > told[r]
        BY <3>1, <3>2, <3>4
      <3>6. told' = [told EXCEPT ![r] = told'[r]]
        BY <3>3, <3>4
      <3>7. UNCHANGED phase
        BY <1>1 DEF TaskTakes, clientState
      <3> QED BY <2>1, <3>5, <3>6, <3>7 DEF Feed!Update
    <2> QED BY <2>2, <2>3
  <1>2. CASE CallbackReturns(r) \/ CallbackPanics(r) \/ TaskClosed(r)
    BY <1>2 DEF CallbackReturns, CallbackPanics, TaskClosed, clientState, Feed!vars
  <1> QED BY <1>1, <1>2 DEF TaskStep

\* Every step is one of ProgressFeed or invisible to the callback.
LEMMA NextRefines ==
  ASSUME TypeOK, FeedInv, [Next]_vars
  PROVE  [Feed!Next]_(Feed!vars)
  <1>1. CASE StartRun
    <2>1. run' \in Runs /\ run' > run
      BY <1>1, RunsFacts DEF StartRun, TypeOK, Runs
    <2>2. phase[run'] = "quiet"
      BY <2>1 DEF FeedInv
    <2>3. Feed!Start(run')
      BY <1>1, <2>2 DEF StartRun, Feed!Start
    <2> QED BY <2>1, <2>3 DEF Feed!Next
  <1>2. CASE Notify
    <2>1. run \in Runs /\ Feed!Over(run, "completed")
      BY <1>2 DEF Notify, FeedInv, taskState, Feed!Over
    <2> QED BY <2>1 DEF Feed!Next
  <1>3. CASE Abort
    <2>1. run \in Runs /\ Feed!Over(run, "dropped")
      BY <1>3 DEF Abort, FeedInv, taskState, Feed!Over
    <2> QED BY <2>1 DEF Feed!Next
  <1>4. CASE Record \/ LeaveLoop \/ Await \/ UNCHANGED vars
    BY <1>4 DEF Record, LeaveLoop, Await, taskState, vars, Feed!vars
  <1>5. ASSUME NEW r \in Runs, TaskStep(r) PROVE [Feed!Next]_(Feed!vars)
    BY <1>5, TaskStepRefines DEF Feed!Next
  <1> QED BY <1>1, <1>2, <1>3, <1>4, <1>5 DEF Next, Finished

(***************************************************************************)
(* Where the bytes are.                                                    *)
(***************************************************************************)

\* Complete is the last message of a run, sent when its data loop is over; a
\* task outlives the data loop unless its callback panics; and a run that has
\* not begun has sent nothing.
ByteInv ==
  /\ EveryByteReportedOnce
  /\ \A r \in Runs : \A i \in 1 .. Len(channel[r]) :
       channel[r][i] = Complete => i = Len(channel[r]) /\ (r = run => pc # "loop")
  /\ \A r \in Runs : r > run => channel[r] = <<>>
  /\ pc = "loop" => sender[run] /\ task[run] # "done"

LEMMA BytesType == ASSUME NEW msg \in Message PROVE Bytes(msg) \in Nat
  BY DEF Bytes, Message

LEMMA SizesType ==
  ASSUME NEW q \in Seq(Message)
  PROVE  /\ Len(q) \in Nat
         /\ \A i \in 1 .. Len(q) : Sizes(q)[i] = Bytes(q[i]) /\ Sizes(q)[i] \in Nat
  <1>1. Len(q) \in Nat /\ \A i \in 1 .. Len(q) : q[i] \in Message
    OBVIOUS
  <1>2. \A i \in 1 .. Len(q) : Sizes(q)[i] = Bytes(q[i])
    BY DEF Sizes
  <1> QED BY <1>1, <1>2, BytesType

LEMMA InChannelType ==
  ASSUME NEW q \in Seq(Message)
  PROVE  InChannel(q) \in Nat
  <1>1. Len(q) \in Nat /\ \A i \in 1 .. Len(q) : Sizes(q)[i] \in Nat
    BY SizesType
  <1> QED BY <1>1, TotalToType DEF InChannel

LEMMA InChannelEmpty == InChannel(<<>>) = 0
  BY TotalToZero DEF InChannel

LEMMA InChannelAppend ==
  ASSUME NEW q \in Seq(Message), NEW msg \in Message
  PROVE  InChannel(Append(q, msg)) = InChannel(q) + Bytes(msg)
  <1> DEFINE a == Append(q, msg)
  <1>1. a \in Seq(Message) /\ Len(a) = Len(q) + 1 /\ Len(q) \in Nat
    OBVIOUS
  <1>2. a[Len(q) + 1] = msg /\ \A i \in 1 .. Len(q) : a[i] = q[i]
    OBVIOUS
  <1> HIDE DEF a
  <1>3. \A i \in 1 .. Len(q) + 1 : Sizes(a)[i] = Bytes(a[i]) /\ Sizes(a)[i] \in Nat
    BY <1>1, SizesType
  <1>4. \A i \in 1 .. Len(q) : Sizes(q)[i] = Bytes(q[i])
    BY SizesType
  <1>5. TotalTo(Len(q) + 1, Sizes(a)) = TotalTo(Len(q), Sizes(a)) + Sizes(a)[Len(q) + 1]
    BY <1>1, <1>3, TotalToLast
  <1>6. \A i \in 1 .. Len(q) : Sizes(a)[i] = Sizes(q)[i]
    BY <1>1, <1>2, <1>3, <1>4
  <1>7. TotalTo(Len(q), Sizes(a)) = TotalTo(Len(q), Sizes(q))
    BY <1>1, <1>6, TotalToAgree
  <1>8. Sizes(a)[Len(q) + 1] = Bytes(msg)
    BY <1>1, <1>2, <1>3
  <1>9. InChannel(a) = InChannel(q) + Bytes(msg)
    BY <1>1, <1>5, <1>7, <1>8 DEF InChannel
  <1> QED BY <1>9 DEF a

LEMMA InChannelTail ==
  ASSUME NEW q \in Seq(Message), q # <<>>
  PROVE  InChannel(q) = Bytes(Head(q)) + InChannel(Tail(q))
  <1> DEFINE t == Tail(q)
             n == Len(t)
  <1>1. t \in Seq(Message) /\ Len(q) = n + 1 /\ n \in Nat /\ Head(q) = q[1]
    OBVIOUS
  <1>2. \A i \in 1 .. n : t[i] = q[i + 1]
    OBVIOUS
  <1> HIDE DEF t
  <1>3. \A i \in 1 .. n + 1 : Sizes(q)[i] = Bytes(q[i]) /\ Sizes(q)[i] \in Nat
    BY <1>1, SizesType
  <1>4. \A i \in 1 .. n : Sizes(t)[i] = Bytes(t[i])
    BY <1>1, SizesType
  <1>5. \A i \in 1 .. n : Sizes(t)[i] = Sizes(q)[i + 1]
    <2> SUFFICES ASSUME NEW i \in 1 .. n PROVE Sizes(t)[i] = Sizes(q)[i + 1]
      OBVIOUS
    <2>1. i + 1 \in 1 .. n + 1
      BY <1>1
    <2>2. Sizes(q)[i + 1] = Bytes(q[i + 1])
      BY <1>3, <2>1
    <2> QED BY <1>2, <1>4, <2>2
  <1> HIDE DEF n
  <1>6. TotalTo(n + 1, Sizes(q)) = Sizes(q)[1] + TotalTo(n, Sizes(t))
    BY <1>1, <1>3, <1>5, TotalToFirst
  <1>7. Sizes(q)[1] = Bytes(Head(q))
    BY <1>1, <1>3
  <1>8. InChannel(q) = Bytes(Head(q)) + InChannel(t)
    BY <1>1, <1>6, <1>7 DEF InChannel, n
  <1> QED BY <1>8 DEF t

LEMMA InitBytes == Init => ByteInv
  <1> SUFFICES ASSUME Init PROVE ByteInv
    OBVIOUS
  <1>1. EveryByteReportedOnce
    BY InChannelEmpty DEF Init, EveryByteReportedOnce, TaskOver
  <1>2. \A r \in Runs : Len(channel[r]) = 0
    BY DEF Init
  <1>3. \A r \in Runs : 1 .. Len(channel[r]) = {}
    BY <1>2
  <1> QED BY <1>1, <1>3 DEF Init, ByteInv

\* The invariant as it is about one run, so that a step need only be looked at
\* for the run it is about.
Balanced(r) ==
  /\ task[r] # "panicked" => told[r] + InChannel(channel[r]) + interval[r] = recorded[r]
  /\ task[r] \in TaskOver => channel[r] = <<>>
CompleteIsLast(r) ==
  \A i \in 1 .. Len(channel[r]) :
    channel[r][i] = Complete => i = Len(channel[r]) /\ (r = run => pc # "loop")
RunInv(r) ==
  /\ Balanced(r) /\ CompleteIsLast(r)
  /\ r > run => channel[r] = <<>>

LEMMA ByteInvByRun ==
  ByteInv <=> (\A r \in Runs : RunInv(r)) /\ (pc = "loop" => sender[run] /\ task[run] # "done")
  BY DEF ByteInv, RunInv, Balanced, CompleteIsLast, EveryByteReportedOnce

\* A run whose counts, channel and task are left alone, by a step that begins no
\* data loop of it.
LEMMA RunUntouched ==
  ASSUME NEW r, RunInv(r), UNCHANGED <<told[r], channel[r], interval[r], recorded[r], task[r]>>,
         r = run' /\ pc' = "loop" => r = run /\ pc = "loop", r > run' => r > run
  PROVE  RunInv(r)'
  BY DEF RunInv, Balanced, CompleteIsLast

LEMMA ByteInvNext ==
  ASSUME \A r \in Runs : RunInv(r)', pc' = "loop" => sender'[run'] /\ task'[run'] # "done"
  PROVE  ByteInv'
  BY DEF ByteInv, RunInv, Balanced, CompleteIsLast, EveryByteReportedOnce

LEMMA StartRunBytes == ASSUME TypeOK, FeedInv, ByteInv, StartRun PROVE ByteInv'
  <1>1. PICK u \in Runs : u = run + 1 /\ run' = u
    BY RunsFacts DEF StartRun, TypeOK, Runs
  <1>2. UNCHANGED <<told, channel, interval, recorded>>
    BY DEF StartRun
  <1>3. task'[u] = "recv" /\ sender'[u] /\ \A r \in Runs : r # u => task'[r] = task[r]
    BY <1>1 DEF StartRun, TypeOK
  <1>4. \A r \in Runs : RunInv(r)
    BY ByteInvByRun
  <1>5. ASSUME NEW r \in Runs, r # u PROVE RunInv(r)'
    <2>1. r > run' => r > run
      BY <1>1, RunsFacts DEF TypeOK
    <2> QED BY <1>1, <1>2, <1>3, <1>4, <1>5, <2>1, RunUntouched
  <1>6. RunInv(u)'
    <2>1. u > run
      BY <1>1 DEF TypeOK
    <2>2. channel[u] = <<>> /\ task[u] = "none" /\ RunInv(u)
      BY <1>4, <2>1 DEF RunInv, FeedInv
    <2>3. told[u] + InChannel(channel[u]) + interval[u] = recorded[u]
      BY <2>2 DEF RunInv, Balanced
    <2>4. Balanced(u)'
      BY <1>2, <1>3, <2>3 DEF Balanced, TaskOver
    <2>5. channel'[u] = <<>> /\ 1 .. Len(<<>>) = {}
      BY <1>2, <2>2
    <2>6. CompleteIsLast(u)'
      BY <2>5 DEF CompleteIsLast
    <2> QED BY <2>4, <2>5, <2>6 DEF RunInv
  <1>7. \A r \in Runs : RunInv(r)'
    BY <1>5, <1>6
  <1> QED BY <1>1, <1>3, <1>7, ByteInvNext

\* What an update or Complete adds to the channel of a run whose task lives.
LEMMA SendBytes ==
  ASSUME TypeOK, FeedInv, ByteInv, pc = "loop", NEW msg \in Message, Send(msg)
  PROVE  /\ run \in Runs
         /\ \A r \in Runs : r # run => channel'[r] = channel[r]
         /\ task[run] \in TaskOver => channel'[run] = <<>> /\ task[run] = "panicked"
         /\ task[run] \notin TaskOver =>
              /\ channel'[run] = Append(channel[run], msg)
              /\ InChannel(channel'[run]) = InChannel(channel[run]) + Bytes(msg)
         /\ \A i \in 1 .. Len(channel'[run]) :
              channel'[run][i] = Complete => i = Len(channel'[run]) /\ msg = Complete
  <1>1. run \in Runs /\ RunInv(run)
    BY RunIsOne, ByteInvByRun
  <1>2. channel[run] \in Seq(Message)
    BY <1>1 DEF TypeOK
  <1>3. CASE task[run] \in TaskOver
    <2>1. channel' = channel /\ channel[run] = <<>> /\ task[run] = "panicked"
      BY <1>1, <1>3 DEF Send, RunInv, Balanced, TaskOver, ByteInv
    <2>2. 1 .. Len(channel'[run]) = {}
      BY <2>1
    <2> QED BY <1>1, <1>3, <2>1, <2>2
  <1>4. CASE task[run] \notin TaskOver
    <2>1. channel' = [channel EXCEPT ![run] = Append(channel[run], msg)]
      BY <1>4 DEF Send
    <2>2. /\ channel'[run] = Append(channel[run], msg)
          /\ \A r \in Runs : r # run => channel'[r] = channel[r]
      BY <1>1, <2>1 DEF TypeOK
    <2>3. InChannel(channel'[run]) = InChannel(channel[run]) + Bytes(msg)
      BY <1>2, <2>2, InChannelAppend
    <2>4. \A i \in 1 .. Len(channel[run]) : channel[run][i] # Complete
      BY <1>1 DEF RunInv, CompleteIsLast
    <2>5. ASSUME NEW i \in 1 .. Len(channel'[run]), channel'[run][i] = Complete
          PROVE  i = Len(channel'[run]) /\ msg = Complete
      <3> DEFINE q == channel[run]
      <3>1. q \in Seq(Message) /\ i \in 1 .. Len(Append(q, msg))
        BY <1>2, <2>2, <2>5
      <3>2. channel'[run] = Append(q, msg)
        BY <2>2
      <3>3. \A j \in 1 .. Len(q) : q[j] # Complete
        BY <2>4
      <3> HIDE DEF q
      <3>4. /\ Len(Append(q, msg)) = Len(q) + 1 /\ Len(q) \in Nat
            /\ Append(q, msg)[Len(q) + 1] = msg
            /\ \A j \in 1 .. Len(q) : Append(q, msg)[j] = q[j]
        BY <3>1
      <3>5. i \notin 1 .. Len(q)
        BY <2>5, <3>2, <3>3, <3>4
      <3>6. i = Len(q) + 1
        BY <3>1, <3>4, <3>5
      <3> QED BY <2>5, <3>2, <3>4, <3>6
    <2> QED BY <1>1, <1>4, <2>2, <2>3, <2>5
  <1> QED BY <1>3, <1>4

\* What holds of the counts of one run.
LEMMA CountsTyped ==
  ASSUME TypeOK, NEW r \in Runs
  PROVE  /\ told[r] \in Nat /\ interval[r] \in Nat /\ recorded[r] \in Nat
         /\ channel[r] \in Seq(Message) /\ InChannel(channel[r]) \in Nat
  BY InChannelType DEF TypeOK

LEMMA RecordBytes == ASSUME TypeOK, FeedInv, ByteInv, Record PROVE ByteInv'
  <1>1. run \in Runs /\ pc = "loop" /\ run' = run /\ pc' = "loop"
    BY RunIsOne DEF Record
  <1>2. UNCHANGED <<told, task, sender>>
    BY DEF Record, taskState
  <1>3. \A r \in Runs : RunInv(r)
    BY ByteInvByRun
  <1>4. /\ recorded'[run] = recorded[run] + 1
        /\ \A r \in Runs : r # run =>
             recorded'[r] = recorded[r] /\ interval'[r] = interval[r]
    BY <1>1 DEF Record, TypeOK
  <1>5. task[run] # "done" /\ sender[run]
    BY <1>1 DEF ByteInv
  <1>6. ASSUME UNCHANGED channel, interval'[run] = interval[run] + 1
        PROVE  RunInv(run)'
    <2>1. Balanced(run)'
      <3>1. task[run] # "panicked" => told[run] + InChannel(channel[run]) + interval[run] = recorded[run]
        BY <1>1, <1>3 DEF RunInv, Balanced
      <3>2. task[run] # "panicked" =>
              told[run] + InChannel(channel[run]) + (interval[run] + 1) = recorded[run] + 1
        BY <1>1, <3>1, CountsTyped
      <3>3. task[run] \in TaskOver => channel[run] = <<>>
        BY <1>1, <1>3 DEF RunInv, Balanced
      <3> QED BY <1>1, <1>2, <1>4, <1>6, <3>2, <3>3 DEF Balanced
    <2> QED BY <1>1, <1>2, <1>3, <1>6, <2>1 DEF RunInv, CompleteIsLast
  <1>7. ASSUME Send(Report(interval[run] + 1)), interval'[run] = 0
        PROVE  /\ RunInv(run)'
               /\ \A r \in Runs : r # run => channel'[r] = channel[r]
    <2> DEFINE msg == Report(interval[run] + 1)
    <2>1. msg \in Message /\ Bytes(msg) = interval[run] + 1 /\ msg # Complete
      BY <1>1, CountsTyped DEF Report, Message, Bytes, Complete
    <2> HIDE DEF msg
    <2>2. /\ \A r \in Runs : r # run => channel'[r] = channel[r]
          /\ task[run] \in TaskOver => channel'[run] = <<>> /\ task[run] = "panicked"
          /\ task[run] \notin TaskOver =>
               InChannel(channel'[run]) = InChannel(channel[run]) + Bytes(msg)
          /\ \A i \in 1 .. Len(channel'[run]) :
               channel'[run][i] = Complete => i = Len(channel'[run]) /\ msg = Complete
      <3>1. Send(msg)
        BY <1>7 DEF msg
      <3> QED BY <1>1, <2>1, <3>1, SendBytes
    <2>3. Balanced(run)'
      <3>1. CASE task[run] \in TaskOver
        BY <1>1, <1>2, <2>2, <3>1 DEF Balanced
      <3>2. CASE task[run] \notin TaskOver
        <4>1. told[run] + InChannel(channel[run]) + interval[run] = recorded[run]
          BY <1>1, <1>3, <3>2 DEF RunInv, Balanced, TaskOver
        <4>2. InChannel(channel'[run]) = InChannel(channel[run]) + (interval[run] + 1)
          BY <2>1, <2>2, <3>2
        <4>3. told[run] + InChannel(channel'[run]) + 0 = recorded[run] + 1
          BY <1>1, <4>1, <4>2, CountsTyped
        <4> QED BY <1>1, <1>2, <1>4, <1>7, <3>2, <4>3 DEF Balanced
      <3> QED BY <3>1, <3>2
    <2>4. CompleteIsLast(run)'
      BY <1>1, <2>1, <2>2 DEF CompleteIsLast
    <2>5. ~(run > run)
      BY <1>1, RunsFacts
    <2> QED BY <1>1, <2>2, <2>3, <2>4, <2>5 DEF RunInv
  <1>8. RunInv(run)' /\ \A r \in Runs : r # run => channel'[r] = channel[r]
    <2>1. \/ UNCHANGED channel /\ interval'[run] = interval[run] + 1
          \/ Send(Report(interval[run] + 1)) /\ interval'[run] = 0
      BY <1>1 DEF Record, TypeOK
    <2> QED BY <1>6, <1>7, <2>1
  <1>9. ASSUME NEW r \in Runs PROVE RunInv(r)'
    <2>1. CASE r # run
      <3>1. UNCHANGED <<told[r], channel[r], interval[r], recorded[r], task[r]>>
        BY <1>2, <1>4, <1>8, <2>1
      <3>2. /\ RunInv(r) /\ (r > run' => r > run)
            /\ r = run' /\ pc' = "loop" => r = run /\ pc = "loop"
        BY <1>1, <1>3, <2>1
      <3> QED BY <3>1, <3>2, RunUntouched
    <2>2. CASE r = run
      BY <1>1, <1>8, <2>2 DEF RunInv, Balanced, CompleteIsLast
    <2> QED BY <2>1, <2>2
  <1> QED BY <1>1, <1>2, <1>5, <1>9, ByteInvNext

LEMMA LeaveLoopBytes == ASSUME TypeOK, FeedInv, ByteInv, LeaveLoop PROVE ByteInv'
  <1>1. pc = "loop" /\ run' = run /\ pc' = "wait" /\ Complete \in Message /\ Bytes(Complete) = 0
    BY DEF LeaveLoop, Message, Bytes
  <1>2. UNCHANGED <<told, task, interval, recorded>>
    BY DEF LeaveLoop, taskState
  <1>3. \A r \in Runs : RunInv(r)
    BY ByteInvByRun
  <1>4. /\ run \in Runs
        /\ \A r \in Runs : r # run => channel'[r] = channel[r]
        /\ task[run] \in TaskOver => channel'[run] = <<>> /\ task[run] = "panicked"
        /\ task[run] \notin TaskOver =>
             InChannel(channel'[run]) = InChannel(channel[run]) + Bytes(Complete)
        /\ \A i \in 1 .. Len(channel'[run]) :
             channel'[run][i] = Complete => i = Len(channel'[run])
    <2>1. Send(Complete)
      BY DEF LeaveLoop
    <2> QED BY <1>1, <2>1, SendBytes
  <1>5. Balanced(run)'
    <2>1. CASE task[run] \in TaskOver
      BY <1>1, <1>2, <1>4, <2>1 DEF Balanced
    <2>2. CASE task[run] \notin TaskOver
      <3>1. told[run] + InChannel(channel[run]) + interval[run] = recorded[run]
        BY <1>3, <1>4, <2>2 DEF RunInv, Balanced, TaskOver
      <3>2. InChannel(channel'[run]) = InChannel(channel[run])
        BY <1>1, <1>4, <2>2, CountsTyped
      <3> QED BY <1>1, <1>2, <2>2, <3>1, <3>2 DEF Balanced
    <2> QED BY <2>1, <2>2
  <1>6. CompleteIsLast(run)'
    BY <1>1, <1>4 DEF CompleteIsLast
  <1>7. ~(run > run)
    BY <1>4, RunsFacts
  <1>8. RunInv(run)'
    BY <1>1, <1>5, <1>6, <1>7 DEF RunInv
  <1>9. ASSUME NEW r \in Runs PROVE RunInv(r)'
    <2>1. CASE r # run
      <3>1. UNCHANGED <<told[r], channel[r], interval[r], recorded[r], task[r]>>
        BY <1>2, <1>4, <2>1
      <3>2. /\ RunInv(r) /\ (r > run' => r > run)
            /\ r = run' /\ pc' = "loop" => r = run /\ pc = "loop"
        BY <1>1, <1>3, <2>1
      <3> QED BY <3>1, <3>2, RunUntouched
    <2>2. CASE r = run
      BY <1>1, <1>8, <2>2 DEF RunInv, Balanced, CompleteIsLast
    <2> QED BY <2>1, <2>2
  <1> QED BY <1>1, <1>9, ByteInvNext

\* The task of a run takes what is at the head of its channel: an update, or the
\* Complete behind which there is nothing.
LEMMA TaskTakesBytes ==
  ASSUME TypeOK, FeedInv, ByteInv, NEW r \in Runs, TaskTakes(r)
  PROVE  ByteInv'
  <1> DEFINE q == channel[r]
  <1>1. /\ q \in Seq(Message) /\ q # <<>> /\ task[r] = "recv"
        /\ channel'[r] = Tail(q) /\ \A d \in Runs : d # r => channel'[d] = channel[d]
    BY DEF TaskTakes, TypeOK
  <1>2. UNCHANGED <<run, pc, recorded, interval, sender>>
    BY DEF TaskTakes, clientState
  <1>3. \A d \in Runs : RunInv(d)
    BY ByteInvByRun
  <1>4. \A d \in Runs : d # r => task'[d] = task[d] /\ told'[d] = told[d]
    BY DEF TaskTakes, TaskGoTo, TypeOK
  <1>5. told[r] + InChannel(q) + interval[r] = recorded[r]
    BY <1>1, <1>3 DEF RunInv, Balanced
  <1>6. ~(r > run)
    BY <1>1, <1>3 DEF RunInv
  <1>7. \A i \in 1 .. Len(q) : q[i] = Complete => i = Len(q) /\ (r = run => pc # "loop")
    BY <1>3 DEF RunInv, CompleteIsLast
  <1> HIDE DEF q
  <1>8. /\ Len(Tail(q)) = Len(q) - 1 /\ Len(q) \in Nat \ {0} /\ Head(q) = q[1]
        /\ \A i \in 1 .. Len(q) - 1 : Tail(q)[i] = q[i + 1]
    BY <1>1
  <1>9. InChannel(q) = Bytes(Head(q)) + InChannel(Tail(q))
    BY <1>1, InChannelTail
  <1>10. CompleteIsLast(r)'
    <2> SUFFICES ASSUME NEW i \in 1 .. Len(Tail(q)), Tail(q)[i] = Complete
                 PROVE  i = Len(Tail(q)) /\ (r = run => pc # "loop")
      BY <1>1, <1>2 DEF CompleteIsLast
    <2>1. i + 1 \in 1 .. Len(q) /\ i \in 1 .. Len(q) - 1
      BY <1>8
    <2>2. q[i + 1] = Complete
      BY <1>8, <2>1
    <2>3. i + 1 = Len(q) /\ (r = run => pc # "loop")
      BY <1>7, <2>1, <2>2
    <2>4. Len(q) - 1 = Len(Tail(q)) /\ Len(q) \in Nat /\ i \in Nat
      BY <1>8, <2>1
    <2>5. i = Len(q) - 1
      BY <2>3, <2>4
    <2> QED BY <2>3, <2>4, <2>5
  <1>11. CASE Head(q) = Complete
    <2>1. Len(q) = 1 /\ (r = run => pc # "loop")
      <3>1. 1 \in 1 .. Len(q)
        BY <1>8
      <3> QED BY <1>7, <1>8, <1>11, <3>1
    <2>2. Tail(q) = <<>>
      <3>1. Tail(q) \in Seq(Message)
        BY <1>1
      <3>2. Len(Tail(q)) = 0
        BY <1>8, <2>1
      <3> QED BY <3>1, <3>2, EmptySeq
    <2>3. task'[r] = "done" /\ told' = told
      BY <1>11 DEF TaskTakes, TaskGoTo, TypeOK, q
    <2>4. told[r] + InChannel(Tail(q)) + interval[r] = recorded[r]
      <3>1. Bytes(Head(q)) = 0 /\ InChannel(Tail(q)) = 0
        BY <1>11, <2>2, InChannelEmpty DEF Bytes
      <3>2. InChannel(q) = InChannel(Tail(q))
        BY <1>9, <3>1
      <3> QED BY <1>5, <3>2
    <2>5. Balanced(r)'
      BY <1>1, <1>2, <2>2, <2>3, <2>4 DEF Balanced
    <2>6. RunInv(r)'
      BY <1>2, <1>6, <1>10, <2>5 DEF RunInv
    <2>7. \A d \in Runs : d # r => RunInv(d)'
      BY <1>1, <1>2, <1>3, <1>4, RunUntouched
    <2>8. pc' = "loop" => sender'[run'] /\ task'[run'] # "done"
      <3> SUFFICES ASSUME pc = "loop" PROVE sender[run] /\ task'[run] # "done"
        BY <1>2
      <3>1. run \in Runs /\ run # r
        BY <2>1, RunIsOne
      <3> QED BY <1>4, <3>1 DEF ByteInv
    <2> QED BY <2>6, <2>7, <2>8, ByteInvNext
  <1>12. CASE Head(q) # Complete
    <2>1. task'[r] = "callback" /\ told' = [told EXCEPT ![r] = @ + Head(q).bytes]
      BY <1>12 DEF TaskTakes, TaskGoTo, TypeOK, q
    <2>2. told'[r] = told[r] + Head(q).bytes /\ told[r] \in Nat
      BY <2>1 DEF TypeOK
    <2>3. Bytes(Head(q)) = Head(q).bytes /\ Bytes(Head(q)) \in Nat
      BY <1>1, <1>12, BytesType DEF Bytes
    <2>4. InChannel(Tail(q)) \in Nat /\ interval[r] \in Nat
      <3>1. Tail(q) \in Seq(Message)
        BY <1>1
      <3> QED BY <3>1, InChannelType, CountsTyped
    <2>5. told'[r] + InChannel(Tail(q)) + interval[r] = recorded[r]
      BY <1>5, <1>9, <2>2, <2>3, <2>4
    <2>6. Balanced(r)'
      BY <1>1, <1>2, <2>1, <2>5 DEF Balanced, TaskOver
    <2>7. RunInv(r)'
      BY <1>2, <1>6, <1>10, <2>6 DEF RunInv
    <2>8. \A d \in Runs : d # r => RunInv(d)'
      BY <1>1, <1>2, <1>3, <1>4, RunUntouched
    <2>9. pc' = "loop" => sender'[run'] /\ task'[run'] # "done"
      <3> SUFFICES ASSUME pc = "loop" PROVE sender[run] /\ task'[run] # "done"
        BY <1>2
      <3>1. run \in Runs
        BY RunIsOne
      <3> QED BY <1>4, <2>1, <3>1 DEF ByteInv
    <2> QED BY <2>7, <2>8, <2>9, ByteInvNext
  <1> QED BY <1>11, <1>12

LEMMA TaskStepBytes ==
  ASSUME TypeOK, FeedInv, ByteInv, NEW r \in Runs, TaskStep(r)
  PROVE  ByteInv'
  <1>1. CASE TaskTakes(r)
    BY <1>1, TaskTakesBytes
  <1>2. CASE CallbackReturns(r) \/ CallbackPanics(r) \/ TaskClosed(r)
    <2>1. UNCHANGED <<run, pc, recorded, interval, sender, told>>
      BY <1>2 DEF CallbackReturns, CallbackPanics, TaskClosed, clientState
    <2>2. \A d \in Runs : d # r => task'[d] = task[d] /\ channel'[d] = channel[d]
      BY <1>2 DEF CallbackReturns, CallbackPanics, TaskClosed, TaskGoTo, TypeOK
    <2>3. \/ task'[r] = "recv" /\ task[r] = "callback" /\ channel'[r] = channel[r]
          \/ task'[r] = "panicked" /\ channel'[r] = <<>>
          \/ task'[r] = "done" /\ task[r] = "recv" /\ channel'[r] = <<>> /\ channel[r] = <<>>
               /\ ~sender[r]
      BY <1>2 DEF CallbackReturns, CallbackPanics, TaskClosed, TaskGoTo, TypeOK
    <2>4. RunInv(r) /\ \A d \in Runs : RunInv(d)
      BY ByteInvByRun
    <2>5. RunInv(r)'
      <3>1. Balanced(r)'
        BY <2>1, <2>3, <2>4 DEF RunInv, Balanced, TaskOver
      <3>2. CompleteIsLast(r)'
        <4>1. CASE channel'[r] = channel[r]
          BY <2>1, <2>4, <4>1 DEF RunInv, CompleteIsLast
        <4>2. CASE channel'[r] = <<>>
          <5>1. 1 .. Len(channel'[r]) = {}
            BY <4>2
          <5> QED BY <5>1 DEF CompleteIsLast
        <4> QED BY <2>3, <4>1, <4>2
      <3> QED BY <2>1, <2>3, <2>4, <3>1, <3>2 DEF RunInv
    <2>6. \A d \in Runs : d # r => RunInv(d)'
      BY <2>1, <2>2, <2>4, RunUntouched
    <2>7. pc' = "loop" => sender'[run'] /\ task'[run'] # "done"
      <3> SUFFICES ASSUME pc = "loop" PROVE sender[run] /\ task'[run] # "done"
        BY <2>1
      <3>1. run \in Runs /\ sender[run] /\ task[run] # "done"
        BY RunIsOne DEF ByteInv
      <3> QED BY <2>2, <2>3, <3>1
    <2> QED BY <2>5, <2>6, <2>7, ByteInvNext
  <1> QED BY <1>1, <1>2 DEF TaskStep

\* The other steps of a run move no bytes and are not in a data loop.
LEMMA OtherStepBytes ==
  ASSUME ByteInv, \/ Await \/ Notify \/ Abort \/ UNCHANGED vars
  PROVE  ByteInv'
  <1>1. UNCHANGED <<run, told, channel, interval, recorded, task>>
    BY DEF Await, Notify, Abort, vars, taskState
  <1>2. pc' = "loop" => pc = "loop" /\ sender' = sender
    BY DEF Await, Notify, Abort, vars
  <1>3. \A r \in Runs : RunInv(r)'
    BY <1>1, <1>2, ByteInvByRun, RunUntouched
  <1>4. pc' = "loop" => sender'[run'] /\ task'[run'] # "done"
    BY <1>1, <1>2 DEF ByteInv
  <1> QED BY <1>3, <1>4, ByteInvNext

LEMMA StepBytes == ASSUME TypeOK, FeedInv, ByteInv, [Next]_vars PROVE ByteInv'
  <1>1. CASE StartRun
    BY <1>1, StartRunBytes
  <1>2. CASE Record
    BY <1>2, RecordBytes
  <1>3. CASE LeaveLoop
    BY <1>3, LeaveLoopBytes
  <1>4. CASE Await \/ Notify \/ Abort \/ UNCHANGED vars
    BY <1>4, OtherStepBytes
  <1>5. ASSUME NEW r \in Runs, TaskStep(r) PROVE ByteInv'
    BY <1>5, TaskStepBytes
  <1> QED BY <1>1, <1>2, <1>3, <1>4, <1>5 DEF Next, Finished

-----------------------------------------------------------------------------

LEMMA FeedInvariant == Spec => [](TypeOK /\ FeedInv)
  <1>1. Init => TypeOK /\ FeedInv
    BY InitTyped, InitFeed
  <1>2. TypeOK /\ FeedInv /\ [Next]_vars => (TypeOK /\ FeedInv)'
    BY StepTyped, StepFeed
  <1> QED BY <1>1, <1>2, PTL DEF Spec

\* For any number of tests with one Client: the channels carry reports of at
\* least one byte and ends, and every task and run is where it can be.
THEOREM ReporterTypeCorrect == Spec => []TypeOK
  BY FeedInvariant, PTL

\* For any number of tests with one Client, dropped and with panics at any
\* moment: TestStarted comes first, then updates that each tell something
\* new, and nothing after TestCompleted.
THEOREM FeedIsKept == Spec => KeepsFeed
  <1>1. Init => Feed!Init
    BY DEF Init, Feed!Init
  <1>2. TypeOK /\ FeedInv /\ [Next]_vars => [Feed!Next]_(Feed!vars)
    BY NextRefines
  <1> QED BY <1>1, <1>2, FeedInvariant, PTL DEF Spec, KeepsFeed, Feed!Spec
\* For any number of tests with one Client and of records in each, whenever a
\* run is dropped or a callback panics: unless its callback panicked, every
\* byte of a run is told, queued or in the open interval, exactly once; and a
\* task that is over leaves nothing queued.
THEOREM BytesReportedOnce == Spec => []EveryByteReportedOnce
  <1>1. Init => ByteInv
    BY InitBytes
  <1>2. TypeOK /\ FeedInv /\ ByteInv /\ [Next]_vars => ByteInv'
    BY StepBytes
  <1>3. ByteInv => EveryByteReportedOnce
    BY DEF ByteInv
  <1> QED BY <1>1, <1>2, <1>3, FeedInvariant, PTL DEF Spec

=============================================================================
