------------------------ MODULE ExerciseControlProofs ------------------------
(* Theorems about ExerciseControl, for any number of request threads, loop    *)
(* workers and sequence threads, any loop, any sequence and any number of     *)
(* measured zeros.                                                            *)
EXTENDS ExerciseControl, TLAPS

USE DEF vars, threadVars, loopVars, lockVars, zeroVars, jobVars, workerFrame, Goto, Actors, Zeros

-----------------------------------------------------------------------------
(* Types. *)

LEMMA LoopStepType ==
  ASSUME NEW i \in 1..Len(LoopSteps)
  PROVE  LoopSteps[i] \in {"op", "reset", "wait"}
  BY ConstantsAssumption

LEMMA InitTypes == Init => TypeOK
  <1> SUFFICES ASSUME Init PROVE TypeOK
    OBVIOUS
  <1>1. ThreadTypes
    BY ConstantsAssumption DEF Init, ThreadTypes, Idle, FirstStep, AllOk, NoThread, ControlPoints
  <1>2. ServiceTypes
    BY DEF Init, ServiceTypes, NoSequence
  <1>3. WorldTypes
    BY ConstantsAssumption DEF Init, WorldTypes, NoLicence, NoRestarts
  <1> QED
    BY <1>1, <1>2, <1>3 DEF TypeOK

LEMMA NextStepTypes ==
  ASSUME ThreadTypes, NEW w \in Workers, NextStep(w), UNCHANGED seq
  PROVE  ThreadTypes'
  <1>1. CASE EndCycle(w, "ok") \/ EndCycle(w, "stopped")
    BY <1>1 DEF ThreadTypes, EndCycle, ControlPoints
  <1>2. CASE step[w] # Len(LoopSteps) /\ ~stopFlag
    <2>1. step[w] + 1 \in 1..Len(LoopSteps)
      BY <1>2, ConstantsAssumption DEF ThreadTypes
    <2>2. step' \in [Workers -> 1..Len(LoopSteps)]
      BY <1>2, <2>1 DEF ThreadTypes, NextStep
    <2> QED
      BY <1>2, <2>2 DEF ThreadTypes, NextStep, ControlPoints
  <1> QED
    BY <1>1, <1>2 DEF NextStep

LEMMA HandlerThreadTypes ==
  ASSUME ThreadTypes, NEW h \in Handlers, Request(h) \/ Handler(h)
  PROVE  ThreadTypes'
  <1>1. CASE Request(h)
    BY <1>1, ConstantsAssumption DEF ThreadTypes, Request, ControlPoints
  <1>2. CASE OpAnswered(h)
    BY <1>2 DEF ThreadTypes, OpAnswered, ControlPoints
  <1>3. CASE RestartGate(h) \/ RestartAnswered(h)
    BY <1>3 DEF ThreadTypes, RestartGate, RestartAnswered, ControlPoints
  <1>4. CASE Reset(h)
    BY <1>4 DEF ThreadTypes, Reset, ResetBegin, ResetLatest, ResetPause, ResetLaunch, ResetCreate,
                ResetEnds, ControlPoints
  <1>5. CASE SequenceBegin(h) \/ SequenceLatest(h)
    BY <1>5 DEF ThreadTypes, SequenceBegin, SequenceLatest, ControlPoints
  <1>6. CASE SequenceStart(h)
    BY <1>6, ConstantsAssumption DEF ThreadTypes, SequenceStart, ControlPoints
  <1>7. CASE LoopBegin(h) \/ LoopLatest(h)
    BY <1>7 DEF ThreadTypes, LoopBegin, LoopLatest, ControlPoints
  <1>8. CASE LoopStart(h)
    <2>1. 1 \in 1..Len(LoopSteps)
      BY ConstantsAssumption
    <2> QED
      BY <1>8, <2>1 DEF ThreadTypes, LoopStart, ControlPoints
  <1> QED
    BY <1>1, <1>2, <1>3, <1>4, <1>5, <1>6, <1>7, <1>8 DEF Handler

LEMMA WorkerThreadTypes ==
  ASSUME ThreadTypes, NEW w \in Workers, Worker(w)
  PROVE  ThreadTypes'
  <1>1. CASE BeginStep(w)
    <2>1. LoopSteps[step[w]] \in {"op", "reset", "wait"}
      BY LoopStepType DEF ThreadTypes
    <2> QED
      BY <1>1, <2>1 DEF ThreadTypes, BeginStep, EndCycle, ControlPoints
  <1>2. CASE NextStep(w) /\ UNCHANGED seq
    BY <1>2, NextStepTypes
  <1>3. CASE EndCycle(w, "stopped") /\ UNCHANGED seq
    BY <1>3 DEF ThreadTypes, EndCycle, ControlPoints
  <1>7. CASE Goto(w, "fail") /\ UNCHANGED <<step, outcome, seq>>
    BY <1>7 DEF ThreadTypes, ControlPoints
  <1>8. CASE LoopOpAnswered(w) \/ LoopWaitEnds(w) \/ PollJob(w)
    BY <1>2, <1>3, <1>7, <1>8 DEF LoopOpAnswered, LoopWaitEnds, PollJob
  <1>4. CASE Reset(w)
    BY <1>4 DEF ThreadTypes, Reset, ResetBegin, ResetLatest, ResetPause, ResetLaunch, ResetCreate,
                ResetEnds, ControlPoints
  <1>5. CASE Halt(w) \/ Finish(w)
    BY <1>5 DEF ThreadTypes, Halt, Finish, EndCycle, ControlPoints
  <1>6. CASE Emit(w)
    <2>1. 1 \in 1..Len(LoopSteps)
      BY ConstantsAssumption
    <2> QED
      BY <1>6, <2>1 DEF ThreadTypes, Emit, ControlPoints
  <1> QED
    BY <1>1, <1>4, <1>5, <1>6, <1>8 DEF Worker

LEMMA NextThreadTypes == ThreadTypes /\ [Next]_vars => ThreadTypes'
  <1> SUFFICES ASSUME ThreadTypes, [Next]_vars PROVE ThreadTypes'
    OBVIOUS
  <1>1. ASSUME NEW s \in SeqThreads, Sequence(s) PROVE ThreadTypes'
    <2>1. CASE SequenceStep(s)
      <3>1. seq[s].at + 1 \in 0..(SeqLen + 1) /\ SeqLen + 1 \in 0..(SeqLen + 1)
        BY <2>1, ConstantsAssumption DEF SequenceStep
      <3>2. CASE seq' = [seq EXCEPT ![s].at = @ + 1]
        BY <2>1, <3>1, <3>2 DEF ThreadTypes, SequenceStep
      <3>3. CASE seq' = [seq EXCEPT ![s] = [at |-> SeqLen + 1, halted |-> TRUE]]
        BY <2>1, <3>1, <3>3 DEF ThreadTypes, SequenceStep
      <3> QED
        BY <2>1, <3>2, <3>3 DEF SequenceStep
    <2>2. CASE SequenceEnds(s)
      <3>1. 0 \in 0..(SeqLen + 1)
        BY ConstantsAssumption
      <3> QED
        BY <2>2, <3>1 DEF ThreadTypes, SequenceEnds
    <2> QED
      BY <1>1, <2>1, <2>2 DEF Sequence
  <1>2. CASE PodRestart
    BY <1>2, ConstantsAssumption
    DEF ThreadTypes, PodRestart, Idle, FirstStep, AllOk, NoThread, ControlPoints
  <1>3. CASE UNCHANGED threadVars
    BY <1>3 DEF ThreadTypes
  <1>4. Stop \/ JobStarts \/ JobEnds \/ MeasureZero \/ ZeroAges => UNCHANGED threadVars
    BY DEF Stop, JobStarts, JobEnds, MeasureZero, ZeroAges
  <1> QED
    BY <1>1, <1>2, <1>3, <1>4, HandlerThreadTypes, WorkerThreadTypes DEF Next

LEMMA HandlerServiceTypes ==
  ASSUME ServiceTypes, NEW h \in Handlers, Request(h) \/ Handler(h)
  PROVE  ServiceTypes'
  <1>1. CASE Request(h) \/ OpAnswered(h)
    BY <1>1 DEF ServiceTypes, Request, OpAnswered
  <1>2. CASE RestartGate(h) \/ RestartAnswered(h)
    BY <1>2 DEF ServiceTypes, RestartGate, RestartAnswered
  <1>3. CASE Reset(h)
    BY <1>3 DEF ServiceTypes, Reset, ResetBegin, ResetLatest, ResetPause, ResetLaunch, ResetCreate,
                ResetEnds
  <1>4. CASE SequenceBegin(h) \/ SequenceLatest(h) \/ LoopBegin(h) \/ LoopLatest(h)
    BY <1>4 DEF ServiceTypes, SequenceBegin, SequenceLatest, LoopBegin, LoopLatest
  <1>5. CASE SequenceStart(h)
    BY <1>5 DEF ServiceTypes, SequenceStart
  <1>6. CASE LoopStart(h)
    BY <1>6 DEF ServiceTypes, LoopStart
  <1> QED
    BY <1>1, <1>2, <1>3, <1>4, <1>5, <1>6 DEF Handler

LEMMA NextServiceTypes == ServiceTypes /\ [Next]_vars => ServiceTypes'
  <1> SUFFICES ASSUME ServiceTypes, [Next]_vars PROVE ServiceTypes'
    OBVIOUS
  <1>1. ASSUME NEW w \in Workers, Reset(w) PROVE ServiceTypes'
    BY <1>1 DEF ServiceTypes, Reset, ResetBegin, ResetLatest, ResetPause, ResetLaunch, ResetCreate,
                ResetEnds
  <1>2. ASSUME NEW w \in Workers, Halt(w) \/ Finish(w) PROVE ServiceTypes'
    BY <1>2 DEF ServiceTypes, Halt, Finish
  <1>3. ASSUME NEW w \in Workers, Worker(w), ~Reset(w), ~Halt(w), ~Finish(w) PROVE ServiceTypes'
    BY <1>3 DEF ServiceTypes, Worker, BeginStep, LoopOpAnswered, LoopWaitEnds, PollJob, Emit
  <1>4. ASSUME NEW s \in SeqThreads, Sequence(s) PROVE ServiceTypes'
    BY <1>4 DEF ServiceTypes, Sequence, SequenceStep, SequenceEnds
  <1>5. CASE Stop
    BY <1>5 DEF ServiceTypes, Stop
  <1>6. CASE PodRestart
    BY <1>6 DEF ServiceTypes, PodRestart, NoSequence
  <1>7. CASE UNCHANGED <<loopVars, lockVars, sequenceRun>>
    BY <1>7 DEF ServiceTypes
  <1>8. JobStarts \/ JobEnds \/ MeasureZero \/ ZeroAges => UNCHANGED <<loopVars, lockVars, sequenceRun>>
    BY DEF JobStarts, JobEnds, MeasureZero, ZeroAges
  <1> QED
    BY <1>1, <1>2, <1>3, <1>4, <1>5, <1>6, <1>7, <1>8, HandlerServiceTypes DEF Next

LEMMA NextWorldTypes == WorldTypes /\ [Next]_vars => WorldTypes'
  <1> SUFFICES ASSUME WorldTypes, [Next]_vars PROVE WorldTypes'
    OBVIOUS
  <1>1. CASE UNCHANGED <<zeroVars, jobVars>>
    BY <1>1 DEF WorldTypes
  <1>2. ASSUME NEW h \in Handlers, RestartGate(h) PROVE WorldTypes'
    BY <1>2 DEF WorldTypes, RestartGate
  <1>3. ASSUME NEW h \in Handlers, RestartAnswered(h) PROVE WorldTypes'
    <2>1. 0 \in Zeros /\ licensed[h] \in Zeros
      BY ConstantsAssumption DEF WorldTypes
    <2>2. usedZero' \in Zeros /\ licensed' \in [Handlers -> Zeros]
      BY <1>3, <2>1 DEF WorldTypes, RestartAnswered
    <2>3. restarts' \in [Zeros -> Nat]
      BY <1>3, <2>1 DEF WorldTypes, RestartAnswered
    <2> QED
      BY <1>3, <2>2, <2>3 DEF WorldTypes, RestartAnswered
  <1>4. ASSUME NEW a \in Actors, Reset(a) PROVE WorldTypes'
    <2>1. CASE CreateJob(a) /\ UNCHANGED zeroVars
      BY <2>1 DEF WorldTypes, CreateJob
    <2>2. UNCHANGED <<zeroVars, jobVars>> \/ (CreateJob(a) /\ UNCHANGED zeroVars)
      BY <1>4 DEF Reset, ResetBegin, ResetLatest, ResetPause, ResetLaunch, ResetCreate
    <2> QED
      BY <1>1, <2>1, <2>2
  <1>5. ASSUME NEW h \in Handlers, Request(h) \/ Handler(h),
               ~RestartGate(h), ~RestartAnswered(h), ~Reset(h)
        PROVE  UNCHANGED <<zeroVars, jobVars>>
    BY <1>5 DEF Request, Handler, OpAnswered, SequenceBegin, SequenceLatest, SequenceStart,
                LoopBegin, LoopLatest, LoopStart
  <1>6. ASSUME NEW w \in Workers, Worker(w), ~Reset(w) PROVE UNCHANGED <<zeroVars, jobVars>>
    BY <1>6 DEF Worker, BeginStep, LoopOpAnswered, LoopWaitEnds, PollJob, Halt, Emit, Finish
  <1>7. ASSUME NEW s \in SeqThreads, Sequence(s) PROVE UNCHANGED <<zeroVars, jobVars>>
    BY <1>7 DEF Sequence, SequenceStep, SequenceEnds
  <1>8. CASE Stop
    BY <1>8, <1>1 DEF Stop
  <1>9. CASE JobStarts \/ JobEnds
    BY <1>9 DEF WorldTypes, JobStarts, JobEnds
  <1>10. CASE MeasureZero
    <2>1. zero.id + 1 \in Zeros
      BY <1>10, ConstantsAssumption DEF WorldTypes, MeasureZero
    <2>2. zero' \in [id : Zeros, passes : BOOLEAN]
      BY <1>10, <2>1 DEF MeasureZero
    <2> QED
      BY <1>10, <2>2 DEF WorldTypes, MeasureZero
  <1>11. CASE ZeroAges
    BY <1>11 DEF WorldTypes, ZeroAges
  <1>12. CASE PodRestart
    BY <1>12, ConstantsAssumption DEF WorldTypes, PodRestart, NoLicence, NoRestarts
  <1> QED
    BY <1>1, <1>2, <1>3, <1>4, <1>5, <1>6, <1>7, <1>8, <1>9, <1>10, <1>11, <1>12 DEF Next

LEMMA NextTypes == TypeOK /\ [Next]_vars => TypeOK'
  BY NextThreadTypes, NextServiceTypes, NextWorldTypes DEF TypeOK

\* Every thread is at a control point of the code, every step and record index
\* is one that exists, and every lock is held by a thread of the right kind.
THEOREM TypeCorrect == Spec => []TypeOK
  BY InitTypes, NextTypes, PTL DEF Spec

\* A worker's step moves no other thread.
LEMMA WorkerMovesItself ==
  ASSUME TypeOK, NEW w \in Workers, Worker(w)
  PROVE  \A a \in Actors \ {w} : pc'[a] = pc[a]
  BY DEF TypeOK, ThreadTypes, Worker, BeginStep, LoopOpAnswered, LoopWaitEnds, PollJob, Halt, Emit,
         Finish, NextStep, EndCycle,
         Reset, ResetBegin, ResetLatest, ResetPause, ResetLaunch, ResetCreate, ResetEnds

-----------------------------------------------------------------------------
(* Why one sequence, one reset Job and one restart per measured zero: each    *)
(* follows from what a lock protects.                                         *)

\* Where a request holds sequence_lock, and where a press holds reset_lock.
SequencePCs == {"seq_latest", "seq_start", "loop_latest", "loop_start"}
ResetPCs    == {"latest", "pause", "launch", "create"}

\* Who holds sequence_lock past its check knows that no sequence runs, and the
\* record names every sequence thread that is alive.
SequenceInv ==
    /\ \A h \in Handlers : pc[h] \in SequencePCs => sequenceLock = h /\ ~SequenceRunning
    /\ \A s \in SeqThreads : seq[s].at # 0 => sequenceRun = [by |-> s, state |-> "running"]

\* Who holds reset_lock past its check knows that no Job runs, and the newest
\* Job is the only one that may be unfinished.
JobInv ==
    /\ \A a \in Actors : pc[a] \in ResetPCs => resetLock = a
    /\ \A a \in Actors : pc[a] \in ResetPCs \ {"latest"} => ~JobRunning(job.state)
    /\ unfinished = IF JobRunning(job.state) THEN 1 ELSE 0

\* A restart under way was let through on a zero newer than any that was used,
\* and no zero newer than the last one used has had its restart.
ZeroInv ==
    /\ usedZero <= zero.id
    /\ \A h \in Handlers : pc[h] = "restarting" =>
          /\ restartLock = h
          /\ usedZero < licensed[h] /\ licensed[h] <= zero.id
    /\ \A z \in Zeros : restarts[z] <= 1 /\ (usedZero < z => restarts[z] = 0)

-----------------------------------------------------------------------------
(* Sequences. *)

LEMMA SequenceInit == Init => SequenceInv
  BY ConstantsAssumption DEF Init, SequenceInv, SequencePCs, Idle, NoThread

\* A step that leaves the lock, the record and the sequence threads alone and
\* takes no request into the locked part.
LEMMA SequenceFrame ==
  ASSUME SequenceInv, UNCHANGED <<sequenceLock, sequenceRun, seq>>,
         \A h \in Handlers : pc'[h] \in SequencePCs => pc[h] \in SequencePCs
  PROVE  SequenceInv'
  BY DEF SequenceInv, SequenceRunning

LEMMA SequenceHandler ==
  ASSUME TypeOK, SequenceInv, NEW h \in Handlers, Request(h) \/ Handler(h)
  PROVE  SequenceInv'
  <1>0. pc \in [Actors -> ControlPoints] /\ h \in Actors
    BY DEF TypeOK, ThreadTypes
  <1>1. CASE Request(h) \/ OpAnswered(h) \/ RestartGate(h) \/ RestartAnswered(h)
    BY <1>0, <1>1, SequenceFrame, ConstantsAssumption
    DEF Request, OpAnswered, RestartGate, RestartAnswered, SequencePCs
  <1>2. CASE Reset(h)
    BY <1>0, <1>2, SequenceFrame
    DEF Reset, ResetBegin, ResetLatest, ResetPause, ResetLaunch, ResetCreate, ResetEnds, SequencePCs
  <1>3. CASE SequenceBegin(h) \/ LoopBegin(h)
    BY <1>0, <1>3, ConstantsAssumption
    DEF SequenceInv, SequenceBegin, LoopBegin, SequenceRunning, SequencePCs
  <1>4. CASE SequenceLatest(h)
    BY <1>0, <1>4 DEF SequenceInv, SequenceLatest, SequenceRunning, SequencePCs
  <1>5. CASE LoopLatest(h)
    BY <1>0, <1>5 DEF SequenceInv, LoopLatest, SequenceRunning, SequencePCs
  <1>6. CASE SequenceStart(h)
    <2>1. \A g \in Handlers : pc'[g] \notin SequencePCs
      BY <1>0, <1>6 DEF SequenceInv, SequenceStart, SequencePCs
    <2>2. PICK s \in SeqThreads :
             /\ seq' = [seq EXCEPT ![s] = [at |-> 1, halted |-> FALSE]]
             /\ sequenceRun' = [by |-> s, state |-> "running"]
      BY <1>6 DEF SequenceStart
    <2>3. \A t \in SeqThreads : seq[t].at = 0
      BY <1>6 DEF SequenceInv, SequenceStart, SequenceRunning, SequencePCs
    <2>4. \A t \in SeqThreads : seq'[t].at # 0 => t = s
      BY <2>2, <2>3 DEF TypeOK, ThreadTypes
    <2> QED
      BY <2>1, <2>2, <2>4 DEF SequenceInv
  <1>7. CASE LoopStart(h)
    <2>1. \A g \in Handlers : pc'[g] \notin SequencePCs
      BY <1>0, <1>7, ConstantsAssumption DEF SequenceInv, LoopStart, SequencePCs
    <2> QED
      BY <1>7, <2>1 DEF SequenceInv, LoopStart
  <1> QED
    BY <1>1, <1>2, <1>3, <1>4, <1>5, <1>6, <1>7 DEF Handler

LEMMA SequenceWorker ==
  ASSUME TypeOK, SequenceInv, NEW w \in Workers, Worker(w)
  PROVE  SequenceInv'
  <1>1. UNCHANGED <<sequenceLock, sequenceRun, seq>>
    BY DEF Worker, BeginStep, LoopOpAnswered, LoopWaitEnds, PollJob, Halt, Emit, Finish,
           Reset, ResetBegin, ResetLatest, ResetPause, ResetLaunch, ResetCreate
  <1>2. \A h \in Handlers : pc'[h] = pc[h]
    BY WorkerMovesItself, ConstantsAssumption
  <1> QED
    BY <1>1, <1>2, SequenceFrame

LEMMA SequenceThread ==
  ASSUME TypeOK, SequenceInv, NEW s \in SeqThreads, Sequence(s)
  PROVE  SequenceInv'
  <1>1. seq[s].at # 0 /\ sequenceRun = [by |-> s, state |-> "running"]
    BY ConstantsAssumption DEF SequenceInv, Sequence, SequenceStep, SequenceEnds
  <1>2. \A t \in SeqThreads \ {s} : seq[t].at = 0
    BY <1>1 DEF SequenceInv
  <1>3. \A t \in SeqThreads \ {s} : seq'[t].at = 0
    BY <1>2 DEF TypeOK, ThreadTypes, Sequence, SequenceStep, SequenceEnds
  <1>4. \A h \in Handlers : pc[h] \notin SequencePCs
    BY <1>1 DEF SequenceInv, SequenceRunning
  <1>5. pc' = pc
    BY DEF Sequence, SequenceStep, SequenceEnds
  <1>6. CASE SequenceStep(s)
    BY <1>1, <1>3, <1>4, <1>5, <1>6 DEF SequenceInv, SequenceStep
  <1>7. CASE SequenceEnds(s)
    <2>1. seq'[s].at = 0
      BY <1>7 DEF TypeOK, ThreadTypes, SequenceEnds
    <2> QED
      BY <1>3, <1>4, <1>5, <2>1 DEF SequenceInv
  <1> QED
    BY <1>6, <1>7 DEF Sequence

LEMMA SequenceNext == TypeOK /\ SequenceInv /\ [Next]_vars => SequenceInv'
  <1> SUFFICES ASSUME TypeOK, SequenceInv, [Next]_vars PROVE SequenceInv'
    OBVIOUS
  <1>1. CASE Stop \/ JobStarts \/ JobEnds \/ MeasureZero \/ ZeroAges \/ UNCHANGED vars
    BY <1>1, SequenceFrame DEF Stop, JobStarts, JobEnds, MeasureZero, ZeroAges
  <1>2. CASE PodRestart
    BY <1>2, ConstantsAssumption DEF PodRestart, SequenceInv, SequencePCs, Idle, NoThread
  <1> QED
    BY <1>1, <1>2, SequenceHandler, SequenceWorker, SequenceThread DEF Next

\* For any number of requests and threads, at most one sequence runs and the
\* record that the display and the guards read is the one of that sequence.
THEOREM SequenceAlone == Spec => []OneSequence
  <1>1. SequenceInv => OneSequence
    BY DEF SequenceInv, OneSequence
  <1> QED
    BY <1>1, SequenceInit, SequenceNext, InitTypes, NextTypes, PTL DEF Spec

-----------------------------------------------------------------------------
(* The reset Job. *)

LEMMA JobInit == Init => JobInv
  BY ConstantsAssumption DEF Init, JobInv, ResetPCs, Idle, JobRunning

\* A step that leaves the lock and the Jobs alone and takes nobody further into
\* the press.
LEMMA JobFrame ==
  ASSUME JobInv, UNCHANGED <<resetLock, jobVars>>,
         \A a \in Actors : pc'[a] \in ResetPCs => pc'[a] = pc[a]
  PROVE  JobInv'
  BY DEF JobInv

\* The press is over: nobody else was in it.
LEMMA PressAlone ==
  ASSUME TypeOK, JobInv, NEW a \in Actors, pc[a] \in ResetPCs,
         NEW where \in ControlPoints \ ResetPCs, Goto(a, where)
  PROVE  \A b \in Actors : pc'[b] \notin ResetPCs
  BY DEF TypeOK, ThreadTypes, JobInv

LEMMA JobReset ==
  ASSUME TypeOK, JobInv, NEW a \in Actors, Reset(a)
  PROVE  JobInv'
  <1>0. pc \in [Actors -> ControlPoints]
    BY DEF TypeOK, ThreadTypes
  <1>1. ASSUME NEW created \in BOOLEAN, ResetEnds(a, created), pc[a] \in ResetPCs
        PROVE  \A b \in Actors : pc'[b] \notin ResetPCs
    <2> DEFINE where == IF a \in Handlers THEN "free" ELSE IF created THEN "poll" ELSE "fail"
    <2>1. where \in ControlPoints \ ResetPCs
      BY DEF ControlPoints, ResetPCs
    <2>2. Goto(a, where)
      BY <1>1 DEF ResetEnds
    <2> HIDE DEF where
    <2> QED
      BY <1>1, <2>1, <2>2, PressAlone
  <1>2. CASE ResetBegin(a)
    BY <1>0, <1>2, ConstantsAssumption DEF JobInv, ResetBegin, ResetPCs
  <1>3. CASE ResetLatest(a)
    BY <1>0, <1>1, <1>3 DEF JobInv, ResetLatest, ResetPCs
  <1>4. CASE ResetPause(a)
    BY <1>0, <1>1, <1>4 DEF JobInv, ResetPause, ResetPCs
  <1>5. CASE ResetLaunch(a)
    BY <1>0, <1>1, <1>5 DEF JobInv, ResetLaunch, ResetPCs
  <1>6. CASE ResetCreate(a)
    <2>1. \A b \in Actors : pc'[b] \notin ResetPCs
      BY <1>1, <1>6 DEF ResetCreate, ResetPCs
    <2>2. ~JobRunning(job.state) /\ unfinished = 0
      BY <1>6 DEF JobInv, ResetCreate, ResetPCs
    <2>3. UNCHANGED jobVars \/ CreateJob(a)
      BY <1>6 DEF ResetCreate
    <2> QED
      BY <2>1, <2>2, <2>3 DEF JobInv, CreateJob, JobRunning
  <1> QED
    BY <1>2, <1>3, <1>4, <1>5, <1>6 DEF Reset

LEMMA JobNext == TypeOK /\ JobInv /\ [Next]_vars => JobInv'
  <1> SUFFICES ASSUME TypeOK, JobInv, [Next]_vars PROVE JobInv'
    OBVIOUS
  <1>0. pc \in [Actors -> ControlPoints]
    BY DEF TypeOK, ThreadTypes
  <1>1. ASSUME NEW h \in Handlers, Request(h) \/ Handler(h), ~Reset(h) PROVE JobInv'
    BY <1>0, <1>1, JobFrame, ConstantsAssumption
    DEF Request, Handler, OpAnswered, RestartGate, RestartAnswered, SequenceBegin, SequenceLatest,
        SequenceStart, LoopBegin, LoopLatest, LoopStart, ResetPCs
  <1>2. ASSUME NEW w \in Workers, Worker(w), ~Reset(w) PROVE JobInv'
    <2>1. UNCHANGED <<resetLock, jobVars>>
      BY <1>2 DEF Worker, BeginStep, LoopOpAnswered, LoopWaitEnds, PollJob, Halt, Emit, Finish
    <2>2. LoopSteps[step[w]] \in {"op", "reset", "wait"}
      BY LoopStepType DEF TypeOK, ThreadTypes
    <2>3. pc'[w] \notin ResetPCs
      BY <1>0, <1>2, <2>2
      DEF Worker, BeginStep, LoopOpAnswered, LoopWaitEnds, PollJob, Halt, Emit, Finish, NextStep,
          EndCycle, ResetPCs
    <2> QED
      BY <1>2, <2>1, <2>3, JobFrame, WorkerMovesItself
  <1>3. ASSUME NEW a \in Actors, Reset(a) PROVE JobInv'
    BY <1>3, JobReset
  <1>4. CASE (\E s \in SeqThreads : Sequence(s)) \/ Stop \/ MeasureZero \/ ZeroAges \/ UNCHANGED vars
    BY <1>4, JobFrame DEF Sequence, SequenceStep, SequenceEnds, Stop, MeasureZero, ZeroAges
  <1>5. CASE JobStarts
    BY <1>5 DEF TypeOK, WorldTypes, JobInv, JobStarts, JobRunning
  <1>6. CASE JobEnds
    BY <1>6 DEF TypeOK, WorldTypes, JobInv, JobEnds, JobRunning
  <1>7. CASE PodRestart
    BY <1>7, ConstantsAssumption DEF JobInv, PodRestart, Idle, ResetPCs
  <1> QED
    BY <1>1, <1>2, <1>3, <1>4, <1>5, <1>6, <1>7 DEF Next

\* For any number of requests, loop workers and pod restarts, and whatever
\* answers of the Kubernetes API are lost, one reset Job runs at a time.
THEOREM JobAlone == Spec => []OneJob
  <1>1. JobInv => OneJob
    BY DEF JobInv, OneJob
  <1> QED
    BY <1>1, JobInit, JobNext, InitTypes, NextTypes, PTL DEF Spec

\* One press at a time is between its check and its Job, and no Job runs then.
THEOREM PressExclusive == Spec => []OnePress
  <1>1. JobInv => OnePress
    BY DEF JobInv, OnePress, ResetPCs
  <1> QED
    BY <1>1, JobInit, JobNext, InitTypes, NextTypes, PTL DEF Spec

-----------------------------------------------------------------------------
(* The zero that a restart needs. *)

LEMMA ZeroInit == Init => ZeroInv
  BY ConstantsAssumption DEF Init, ZeroInv, Idle, NoRestarts

LEMMA ZeroFrame ==
  ASSUME ZeroInv, UNCHANGED <<restartLock, usedZero, licensed, restarts>>, zero'.id = zero.id,
         \A h \in Handlers : pc'[h] = "restarting" => pc[h] = "restarting"
  PROVE  ZeroInv'
  BY DEF ZeroInv

LEMMA ZeroReset ==
  ASSUME TypeOK, ZeroInv, NEW a \in Actors, Reset(a)
  PROVE  ZeroInv'
  <1>0. pc \in [Actors -> ControlPoints]
    BY DEF TypeOK, ThreadTypes
  <1> QED
    BY <1>0, ZeroFrame
    DEF Reset, ResetBegin, ResetLatest, ResetPause, ResetLaunch, ResetCreate, ResetEnds

LEMMA ZeroNext == TypeOK /\ ZeroInv /\ [Next]_vars => ZeroInv'
  <1> SUFFICES ASSUME TypeOK, ZeroInv, [Next]_vars PROVE ZeroInv'
    OBVIOUS
  <1>0. /\ pc \in [Actors -> ControlPoints]
        /\ usedZero \in Nat /\ zero.id \in Zeros
        /\ licensed \in [Handlers -> Zeros] /\ restarts \in [Zeros -> Nat]
    BY ConstantsAssumption DEF TypeOK, ThreadTypes, WorldTypes
  <1>1. ASSUME NEW h \in Handlers, RestartGate(h) PROVE ZeroInv'
    <2>1. CASE ZeroLicenses
      <3>1. usedZero < zero.id
        BY <1>0, <2>1, ConstantsAssumption DEF ZeroInv, ZeroLicenses
      <3>2. \A g \in Handlers : pc'[g] = "restarting" => g = h
        BY <1>0, <1>1, <2>1, ConstantsAssumption DEF ZeroInv, RestartGate
      <3>3. restartLock' = h /\ licensed'[h] = zero.id /\ UNCHANGED <<usedZero, zero, restarts>>
        BY <1>0, <1>1, <2>1 DEF RestartGate
      <3> QED
        BY <1>0, <3>1, <3>2, <3>3 DEF ZeroInv
    <2>2. CASE ~ZeroLicenses
      BY <1>0, <1>1, <2>2, ZeroFrame DEF RestartGate
    <2> QED
      BY <2>1, <2>2
  <1>2. ASSUME NEW h \in Handlers, RestartAnswered(h) PROVE ZeroInv'
    <2>1. /\ usedZero < licensed[h] /\ licensed[h] <= zero.id
          /\ restarts[licensed[h]] = 0 /\ licensed[h] \in Zeros
      BY <1>0, <1>2 DEF ZeroInv, RestartAnswered
    <2>2. \A g \in Handlers : pc'[g] # "restarting"
      BY <1>0, <1>2 DEF ZeroInv, RestartAnswered
    <2>3. CASE UNCHANGED <<usedZero, restarts>>
      BY <1>2, <2>2, <2>3 DEF ZeroInv, RestartAnswered
    <2>4. CASE usedZero' = licensed[h] /\ restarts' = [restarts EXCEPT ![licensed[h]] = @ + 1]
      <3>1. \A z \in Zeros : restarts'[z] <= 1 /\ (licensed[h] < z => restarts'[z] = 0)
        <4>1. ASSUME NEW z \in Zeros, z # licensed[h] PROVE restarts'[z] = restarts[z]
          BY <1>0, <2>1, <2>4, <4>1
        <4>2. restarts'[licensed[h]] = 1
          BY <1>0, <2>1, <2>4
        <4>3. ASSUME NEW z \in Zeros, licensed[h] < z PROVE usedZero < z /\ z # licensed[h]
          BY <1>0, <2>1, <4>3
        <4> QED
          BY <4>1, <4>2, <4>3, <2>1 DEF ZeroInv
      <3> QED
        BY <1>2, <2>1, <2>2, <2>4, <3>1 DEF ZeroInv, RestartAnswered
    <2> QED
      BY <1>2, <2>3, <2>4 DEF RestartAnswered
  <1>3. ASSUME NEW h \in Handlers, Request(h) \/ Handler(h),
               ~RestartGate(h), ~RestartAnswered(h), ~Reset(h)
        PROVE  ZeroInv'
    BY <1>0, <1>3, ZeroFrame, ConstantsAssumption
    DEF Request, Handler, OpAnswered, SequenceBegin, SequenceLatest, SequenceStart, LoopBegin,
        LoopLatest, LoopStart
  <1>4. ASSUME NEW w \in Workers, Worker(w), ~Reset(w) PROVE ZeroInv'
    <2>1. UNCHANGED <<restartLock, zeroVars>>
      BY <1>4 DEF Worker, BeginStep, LoopOpAnswered, LoopWaitEnds, PollJob, Halt, Emit, Finish
    <2> QED
      BY <1>4, <2>1, ZeroFrame, WorkerMovesItself, ConstantsAssumption
  <1>5. ASSUME NEW a \in Actors, Reset(a) PROVE ZeroInv'
    BY <1>5, ZeroReset
  <1>6. CASE (\E s \in SeqThreads : Sequence(s)) \/ Stop \/ JobStarts \/ JobEnds \/ UNCHANGED vars
    BY <1>6, ZeroFrame DEF Sequence, SequenceStep, SequenceEnds, Stop, JobStarts, JobEnds
  <1>7. CASE MeasureZero
    <2>1. zero'.id = zero.id + 1 /\ UNCHANGED <<pc, restartLock, usedZero, licensed, restarts>>
      BY <1>7 DEF MeasureZero
    <2>2. zero.id \in Nat /\ \A h \in Handlers : licensed[h] \in Nat
      BY <1>0, ConstantsAssumption
    <2> QED
      BY <1>0, <2>1, <2>2 DEF ZeroInv
  <1>8. CASE ZeroAges
    BY <1>0, <1>8, ZeroFrame DEF TypeOK, WorldTypes, ZeroAges
  <1>9. CASE PodRestart
    BY <1>0, <1>9, ConstantsAssumption DEF ZeroInv, PodRestart, Idle, NoRestarts
  <1> QED
    BY <1>1, <1>2, <1>3, <1>4, <1>5, <1>6, <1>7, <1>8, <1>9 DEF Next

\* However many zeros are measured and however many restarts are asked for at
\* once, a zero licenses one successful restart.
THEOREM ZeroUsedOnce == Spec => []OneRestartPerZero
  <1>1. ZeroInv => OneRestartPerZero
    BY DEF ZeroInv, OneRestartPerZero
  <1> QED
    BY <1>1, ZeroInit, ZeroNext, InitTypes, NextTypes, PTL DEF Spec

-----------------------------------------------------------------------------
(* Steps of the loop. *)

\* Whoever stops the loop, starts it or dies while it is halted, the halt stays
\* on display until a new loop runs or the pod is replaced.
THEOREM HaltKept == Spec => HaltStays
  <1>1. [Next]_vars => [loopState = "halted" => loopState' \in {"halted", "running"} \/ PodRestart]_vars
    <2> SUFFICES ASSUME Next, loopState = "halted", ~PodRestart
                 PROVE  loopState' \in {"halted", "running"}
      OBVIOUS
    <2>1. ASSUME NEW h \in Handlers, Request(h) \/ Handler(h) PROVE loopState' \in {"halted", "running"}
      BY <2>1 DEF Request, Handler, OpAnswered, RestartGate, RestartAnswered, SequenceBegin,
                  SequenceLatest, SequenceStart, LoopBegin, LoopLatest, LoopStart,
                  Reset, ResetBegin, ResetLatest, ResetPause, ResetLaunch, ResetCreate
    <2>2. ASSUME NEW w \in Workers, Worker(w) PROVE loopState' = "halted"
      BY <2>2 DEF Worker, BeginStep, LoopOpAnswered, LoopWaitEnds, PollJob, Halt, Emit, Finish,
                  Reset, ResetBegin, ResetLatest, ResetPause, ResetLaunch, ResetCreate
    <2>3. ~Stop
      BY DEF Stop, Active
    <2>4. (\E s \in SeqThreads : Sequence(s)) \/ JobStarts \/ JobEnds \/ MeasureZero \/ ZeroAges
             => loopState' = "halted"
      BY DEF Sequence, SequenceStep, SequenceEnds, JobStarts, JobEnds, MeasureZero, ZeroAges
    <2> QED
      BY <2>1, <2>2, <2>3, <2>4 DEF Next
  <1> QED
    BY <1>1, PTL DEF Spec, HaltStays

\* A loop worker leaves its wait for the reset Job only to halt the loop, or when
\* no Job is unfinished: a stop does not let it go on beside the Job.
THEOREM ResetFollowed == Spec => ResetNotInterrupted
  <1>1. TypeOK /\ JobInv /\ [Next]_vars =>
           [\A w \in Workers :
              (pc[w] = "poll" /\ pc'[w] # "poll") => pc'[w] = "fail" \/ unfinished = 0 \/ PodRestart]_vars
    <2> SUFFICES ASSUME TypeOK, JobInv, Next, ~PodRestart,
                        NEW w \in Workers, pc[w] = "poll", pc'[w] # "poll"
                 PROVE  pc'[w] = "fail" \/ unfinished = 0
      OBVIOUS
    <2>0. pc \in [Actors -> ControlPoints]
      BY DEF TypeOK, ThreadTypes
    <2>1. ASSUME NEW h \in Handlers, Request(h) \/ Handler(h) PROVE FALSE
      BY <2>0, <2>1, ConstantsAssumption
      DEF Request, Handler, OpAnswered, RestartGate, RestartAnswered, SequenceBegin,
          SequenceLatest, SequenceStart, LoopBegin, LoopLatest, LoopStart,
          Reset, ResetBegin, ResetLatest, ResetPause, ResetLaunch, ResetCreate, ResetEnds
    <2>2. ASSUME NEW v \in Workers, Worker(v) PROVE pc'[w] = "fail" \/ unfinished = 0
      <3>1. v = w
        BY <2>2, WorkerMovesItself
      <3>2. PollJob(w)
        BY <2>2, <3>1
        DEF Worker, BeginStep, LoopOpAnswered, LoopWaitEnds, Halt, Emit, Finish,
            Reset, ResetBegin, ResetLatest, ResetPause, ResetLaunch, ResetCreate
      <3>3. CASE job.state = "succeeded"
        BY <3>3 DEF JobInv, JobRunning
      <3>4. CASE Goto(w, "fail")
        BY <2>0, <3>4
      <3> QED
        BY <3>2, <3>3, <3>4 DEF PollJob
    <2>3. (\E s \in SeqThreads : Sequence(s)) \/ Stop \/ JobStarts \/ JobEnds \/ MeasureZero \/ ZeroAges
             => pc' = pc
      BY DEF Sequence, SequenceStep, SequenceEnds, Stop, JobStarts, JobEnds, MeasureZero, ZeroAges
    <2> QED
      BY <2>1, <2>2, <2>3 DEF Next
  <1> QED
    BY <1>1, JobInit, JobNext, InitTypes, NextTypes, PTL DEF Spec, ResetNotInterrupted

=============================================================================
