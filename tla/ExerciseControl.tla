---------------------------- MODULE ExerciseControl ----------------------------
(***************************************************************************)
(* The exercise control service (src/exercise/control.py): a threaded HTTP *)
(* server whose requests pause, restart and reset the simulator, run a     *)
(* named sequence in a background thread, and start and stop the exercise  *)
(* loop, a worker thread that repeats a list of steps.  One Handler is one *)
(* request thread; every lock is the code's own.  External: the adapter in *)
(* front of the simulator (a call succeeds or fails), Kubernetes (which    *)
(* runs the reset Jobs) and whoever measures the zero a restart needs.     *)
(*                                                                         *)
(* Left out: last_command and the scraped rates, which only status shows,  *)
(* the cycle number, and what tells the loop a scenario has ended: an      *)
(* await step is a wait that ends, as its fallback makes it.               *)
(***************************************************************************)
EXTENDS Naturals, Sequences, FiniteSets

CONSTANTS
    Handlers,       \* HTTP request threads alive at one time
    Workers,        \* loop worker threads alive at one time
    SeqThreads,     \* sequence threads alive at one time
    Free,           \* a lock nobody holds, a record nobody made
    Ops,            \* what clients ask for
    LoopSteps,      \* the steps of EXERCISE_LOOP_FILE
    SeqLen,         \* how many steps the named sequence has
    MaxZeros        \* bound: how many zeros are ever measured

ASSUME ConstantsAssumption ==
    /\ Handlers \cap Workers = {}
    /\ Free \notin Handlers \cup Workers \cup SeqThreads
    /\ Ops \subseteq {"op", "restart", "reset", "sequence", "loop"}
    /\ LoopSteps \in Seq({"op", "reset", "wait"}) /\ LoopSteps # << >>
    /\ SeqLen \in Nat \ {0}
    /\ MaxZeros \in Nat

VARIABLES
    (* threads *)
    pc,             \* where a request or a loop worker is
    step,           \* step[w]: the index of the step worker w is at
    outcome,        \* outcome[w]: what has become of its cycle
    seq,            \* seq[s]: the step a sequence thread is at (0: none), and whether it halted
    (* shared memory *)
    loopState,      \* LoopRunner._s["state"]
    stopFlag,       \* LoopRunner._stop
    sequenceRun,    \* AppState.sequence_run: its thread and its state
    sequenceLock, resetLock, restartLock,   \* who holds them
    usedZero,       \* restart_zero_used (0: none)
    (* the world *)
    job,            \* the newest reset Job: who created it, and its state
    unfinished,     \* how many reset Jobs have not finished
    zero,           \* the reset record: which measurement, and whether it passes the gate now
    licensed,       \* licensed[h]: the zero that h's restart was let through on
    (* history *)
    restarts        \* restarts[z]: the restarts that succeeded on z since the pod started

threadVars == <<pc, step, outcome, seq>>
loopVars   == <<loopState, stopFlag>>
lockVars   == <<sequenceLock, resetLock, restartLock>>
zeroVars   == <<usedZero, zero, licensed, restarts>>
jobVars    == <<job, unfinished>>
vars == <<threadVars, loopVars, lockVars, zeroVars, jobVars, sequenceRun>>

Actors == Handlers \cup Workers
Zeros  == 0..MaxZeros

-----------------------------------------------------------------------------
(* What the code asks of its state. *)

Active == loopState \in {"running", "stopping"}

SequenceRunning == sequenceRun.state = "running"

\* [mutant] A Job that has no active pod yet, taken for one that is over.
JobStarted(state) == state = "active"

\* _job_state: a Job counts as running until a condition or a completion time
\* says otherwise, whether or not it has an active pod.
JobRunning(state) == state \in {"created", "active"}

Goto(a, where) == pc' = [pc EXCEPT ![a] = where]

-----------------------------------------------------------------------------
(* do_POST: where a request goes. *)

\* A request for the loop always gets to its handler; any other one is refused
\* at once while a loop is active, and the world is as it was.
Request(h) ==
    /\ pc[h] = "free"
    /\ \E o \in Ops :
        /\ o = "loop" \/ ~Active
        /\ Goto(h, o)
    /\ UNCHANGED <<step, outcome, seq, loopVars, lockVars, zeroVars, jobVars, sequenceRun>>

\* POST loopstop.
Stop ==
    /\ Active
    /\ loopState' = "stopping"
    /\ stopFlag' = TRUE
    /\ UNCHANGED <<threadVars, lockVars, zeroVars, jobVars, sequenceRun>>

\* An adapter op other than restart: one call, or several up to the first that
\* fails.
OpAnswered(h) ==
    /\ pc[h] = "op"
    /\ Goto(h, "free")
    /\ UNCHANGED <<step, outcome, seq, loopVars, lockVars, zeroVars, jobVars, sequenceRun>>

-----------------------------------------------------------------------------
(* The restart gate. *)

\* restart_refusal: a passing, parseable, recent zero that was not used before.
ZeroLicenses == zero.id # 0 /\ zero.passes /\ usedZero # zero.id

\* [mutant] The lock let go before the adapter is called.
RestartGateUnlocked(h) ==
    /\ pc[h] = "restart"
    /\ restartLock = Free
    /\ ZeroLicenses
    /\ licensed' = [licensed EXCEPT ![h] = zero.id]
    /\ Goto(h, "restarting")
    /\ UNCHANGED <<step, outcome, seq, loopVars, lockVars, usedZero, zero, restarts,
                   jobVars, sequenceRun>>

RestartGate(h) ==
    /\ pc[h] = "restart"
    /\ restartLock = Free
    /\ IF ZeroLicenses
       THEN /\ restartLock' = h
            /\ licensed' = [licensed EXCEPT ![h] = zero.id]
            /\ Goto(h, "restarting")
       ELSE /\ Goto(h, "free")
            /\ UNCHANGED <<restartLock, licensed>>
    /\ UNCHANGED <<step, outcome, seq, loopVars, sequenceLock, resetLock, usedZero, zero,
                   restarts, jobVars, sequenceRun>>

\* Only a sequence of calls that all answered 2xx uses the zero up.
RestartAnswered(h) ==
    /\ pc[h] = "restarting"
    /\ restartLock' = Free
    /\ licensed' = [licensed EXCEPT ![h] = 0]
    /\ Goto(h, "free")
    /\ \/ /\ usedZero' = licensed[h]
          /\ restarts' = [restarts EXCEPT ![licensed[h]] = @ + 1]
       \/ UNCHANGED <<usedZero, restarts>>
    /\ UNCHANGED <<step, outcome, seq, loopVars, sequenceLock, resetLock, zero, jobVars, sequenceRun>>

-----------------------------------------------------------------------------
(* run_reset: for a request, or for a step of the loop. *)

\* The lock is let go and the caller has its answer.
ResetEnds(a, created) ==
    /\ resetLock' = Free
    /\ Goto(a, IF a \in Handlers THEN "free" ELSE IF created THEN "poll" ELSE "fail")

\* [mutant] No reset_lock.
ResetUnlocked(a) ==
    /\ pc[a] = "reset"
    /\ Goto(a, "latest")
    /\ UNCHANGED <<step, outcome, seq, loopVars, lockVars, zeroVars, jobVars, sequenceRun>>

ResetBegin(a) ==
    /\ pc[a] = "reset"
    /\ resetLock = Free
    /\ resetLock' = a
    /\ Goto(a, "latest")
    /\ UNCHANGED <<step, outcome, seq, loopVars, sequenceLock, restartLock, zeroVars, jobVars, sequenceRun>>

\* [mutant] The refusal that returns with the lock held.
ResetLatestLeaks(a) ==
    /\ pc[a] = "latest"
    /\ IF JobRunning(job.state)
       THEN Goto(a, IF a \in Handlers THEN "free" ELSE "fail")
       ELSE Goto(a, "pause")
    /\ UNCHANGED <<step, outcome, seq, loopVars, lockVars, zeroVars, jobVars, sequenceRun>>

\* The newest Job is asked for: an API fault or a running Job ends the press.
ResetLatest(a) ==
    /\ pc[a] = "latest"
    /\ \/ ResetEnds(a, FALSE)
       \/ /\ ~JobRunning(job.state)
          /\ Goto(a, "pause")
          /\ UNCHANGED resetLock
    /\ UNCHANGED <<step, outcome, seq, loopVars, sequenceLock, restartLock, zeroVars, jobVars, sequenceRun>>

\* The simulator is quieted first; a failed pause refuses the reset.
ResetPause(a) ==
    /\ pc[a] = "pause"
    /\ \/ ResetEnds(a, FALSE)
       \/ Goto(a, "launch") /\ UNCHANGED resetLock
    /\ UNCHANGED <<step, outcome, seq, loopVars, sequenceLock, restartLock, zeroVars, jobVars, sequenceRun>>

CreateJob(a) ==
    /\ job' = [by |-> a, state |-> "created"]
    /\ unfinished' = unfinished + 1

\* launch: the newest Job is asked for again, and then the Job is created (under
\* a lock of its own, which only holders of reset_lock ever take).
ResetLaunch(a) ==
    /\ pc[a] = "launch"
    /\ \/ ResetEnds(a, FALSE)
       \/ /\ ~JobRunning(job.state)
          /\ Goto(a, "create")
          /\ UNCHANGED resetLock
    /\ UNCHANGED <<step, outcome, seq, loopVars, sequenceLock, restartLock, zeroVars, jobVars, sequenceRun>>

\* The API may have created it although the answer was lost.
ResetCreate(a) ==
    /\ pc[a] = "create"
    /\ \/ ResetEnds(a, FALSE) /\ UNCHANGED jobVars
       \/ CreateJob(a) /\ \E answered \in BOOLEAN : ResetEnds(a, answered)
    /\ UNCHANGED <<step, outcome, seq, loopVars, sequenceLock, restartLock, zeroVars, sequenceRun>>

\* Kubernetes starts the newest Job, and ends Jobs one way or the other (each
\* has an activeDeadlineSeconds).
JobStarts ==
    /\ job.state = "created"
    /\ job' = [job EXCEPT !.state = "active"]
    /\ UNCHANGED <<threadVars, loopVars, lockVars, zeroVars, unfinished, sequenceRun>>

JobEnds ==
    /\ unfinished > 0
    /\ unfinished' = unfinished - 1
    /\ IF JobRunning(job.state)
       THEN \E s \in {"succeeded", "failed"} : job' = [job EXCEPT !.state = s]
       ELSE UNCHANGED job
    /\ UNCHANGED <<threadVars, loopVars, lockVars, zeroVars, sequenceRun>>

\* The reset script (or an operator) writes a new record; a record ages out.
MeasureZero ==
    /\ zero.id < MaxZeros
    /\ \E passes \in BOOLEAN : zero' = [id |-> zero.id + 1, passes |-> passes]
    /\ UNCHANGED <<threadVars, loopVars, lockVars, usedZero, licensed, restarts, jobVars, sequenceRun>>

ZeroAges ==
    /\ zero.passes
    /\ zero' = [zero EXCEPT !.passes = FALSE]
    /\ UNCHANGED <<threadVars, loopVars, lockVars, usedZero, licensed, restarts, jobVars, sequenceRun>>

-----------------------------------------------------------------------------
(* _handle_sequence and _run_sequence. *)

\* [mutant] No check for a running sequence.
SequenceBeginUnchecked(h) ==
    /\ pc[h] = "sequence"
    /\ sequenceLock = Free
    /\ sequenceLock' = h
    /\ Goto(h, "seq_latest")
    /\ UNCHANGED <<step, outcome, seq, loopVars, resetLock, restartLock, zeroVars, jobVars, sequenceRun>>

SequenceBegin(h) ==
    /\ pc[h] = "sequence"
    /\ sequenceLock = Free
    /\ IF SequenceRunning
       THEN Goto(h, "free") /\ UNCHANGED sequenceLock
       ELSE Goto(h, "seq_latest") /\ sequenceLock' = h
    /\ UNCHANGED <<step, outcome, seq, loopVars, resetLock, restartLock, zeroVars, jobVars, sequenceRun>>

SequenceLatest(h) ==
    /\ pc[h] = "seq_latest"
    /\ \/ sequenceLock' = Free /\ Goto(h, "free")
       \/ /\ ~JobRunning(job.state)
          /\ Goto(h, "seq_start")
          /\ UNCHANGED sequenceLock
    /\ UNCHANGED <<step, outcome, seq, loopVars, resetLock, restartLock, zeroVars, jobVars, sequenceRun>>

\* start_sequence: the record, then the thread; the lock is let go.
SequenceStart(h) ==
    /\ pc[h] = "seq_start"
    /\ \E s \in SeqThreads :
        /\ seq[s].at = 0
        /\ seq' = [seq EXCEPT ![s] = [at |-> 1, halted |-> FALSE]]
        /\ sequenceRun' = [by |-> s, state |-> "running"]
    /\ sequenceLock' = Free
    /\ Goto(h, "free")
    /\ UNCHANGED <<step, outcome, loopVars, resetLock, restartLock, zeroVars, jobVars>>

\* One step; after one that failed the others are skipped.
SequenceStep(s) ==
    /\ seq[s].at \in 1..SeqLen
    /\ \/ seq' = [seq EXCEPT ![s].at = @ + 1]
       \/ seq' = [seq EXCEPT ![s] = [at |-> SeqLen + 1, halted |-> TRUE]]
    /\ UNCHANGED <<pc, step, outcome, loopVars, lockVars, zeroVars, jobVars, sequenceRun>>

SequenceEnds(s) ==
    /\ seq[s].at = SeqLen + 1
    /\ seq' = [seq EXCEPT ![s] = [at |-> 0, halted |-> FALSE]]
    /\ sequenceRun' = IF sequenceRun.by = s
                      THEN [by |-> s, state |-> IF seq[s].halted THEN "halted" ELSE "completed"]
                      ELSE sequenceRun
    /\ UNCHANGED <<pc, step, outcome, loopVars, lockVars, zeroVars, jobVars>>

-----------------------------------------------------------------------------
(* _handle_loop_start and LoopRunner. *)

LoopBegin(h) ==
    /\ pc[h] = "loop"
    /\ sequenceLock = Free
    /\ IF SequenceRunning
       THEN Goto(h, "free") /\ UNCHANGED sequenceLock
       ELSE Goto(h, "loop_latest") /\ sequenceLock' = h
    /\ UNCHANGED <<step, outcome, seq, loopVars, resetLock, restartLock, zeroVars, jobVars, sequenceRun>>

LoopLatest(h) ==
    /\ pc[h] = "loop_latest"
    /\ \/ sequenceLock' = Free /\ Goto(h, "free")
       \/ /\ ~JobRunning(job.state)
          /\ Goto(h, "loop_start")
          /\ UNCHANGED sequenceLock
    /\ UNCHANGED <<step, outcome, seq, loopVars, resetLock, restartLock, zeroVars, jobVars, sequenceRun>>

\* reset_lock.locked(), then start().  (Bound: no start without a free worker.)
LoopStart(h) ==
    /\ pc[h] = "loop_start"
    /\ sequenceLock' = Free
    /\ \/ /\ resetLock = Free
          /\ ~Active
          /\ loopState' = "running"
          /\ stopFlag' = FALSE
          /\ \E w \in Workers :
                /\ pc[w] = "dead"
                /\ pc' = [pc EXCEPT ![h] = "free", ![w] = "step"]
                /\ step' = [step EXCEPT ![w] = 1]
                /\ outcome' = [outcome EXCEPT ![w] = "ok"]
       \/ /\ resetLock # Free \/ Active \/ \A w \in Workers : pc[w] # "dead"
          /\ Goto(h, "free")
          /\ UNCHANGED <<step, outcome, loopVars>>
    /\ UNCHANGED <<seq, resetLock, restartLock, zeroVars, jobVars, sequenceRun>>

\* The cycle is over: its record is written.
EndCycle(w, how) ==
    /\ Goto(w, "emit")
    /\ outcome' = [outcome EXCEPT ![w] = how]
    /\ UNCHANGED step

\* [mutant] One step too many.
NextStepPastEnd(w) ==
    IF step[w] > Len(LoopSteps) THEN EndCycle(w, "ok")
    ELSE IF stopFlag THEN EndCycle(w, "stopped")
    ELSE /\ step' = [step EXCEPT ![w] = @ + 1]
         /\ Goto(w, "step")
         /\ UNCHANGED outcome

\* Step done: the stop flag is looked at between two steps.
NextStep(w) ==
    IF step[w] = Len(LoopSteps) THEN EndCycle(w, "ok")
    ELSE IF stopFlag THEN EndCycle(w, "stopped")
    ELSE /\ step' = [step EXCEPT ![w] = @ + 1]
         /\ Goto(w, "step")
         /\ UNCHANGED outcome

workerFrame == <<seq, loopVars, lockVars, zeroVars, jobVars, sequenceRun>>

BeginStep(w) ==
    /\ pc[w] = "step"
    /\ IF stopFlag
       THEN EndCycle(w, "stopped")
       ELSE Goto(w, LoopSteps[step[w]]) /\ UNCHANGED <<step, outcome>>
    /\ UNCHANGED workerFrame

LoopOpAnswered(w) ==
    /\ pc[w] = "op"
    /\ \/ NextStep(w)
       \/ Goto(w, "fail") /\ UNCHANGED <<step, outcome>>
    /\ UNCHANGED workerFrame

\* A wait (or an await) ends by itself, or at once when stopped.
LoopWaitEnds(w) ==
    /\ pc[w] = "wait"
    /\ IF stopFlag THEN EndCycle(w, "stopped") ELSE NextStep(w)
    /\ UNCHANGED workerFrame

\* [mutant] A stop that ends the wait for the reset Job.
PollJobOrStop(w) ==
    /\ pc[w] = "poll"
    /\ job.by = w
    /\ job.state = "succeeded" \/ stopFlag
    /\ NextStep(w)
    /\ UNCHANGED workerFrame

\* _reset: only its own Job's end, or the deadline, finishes the step.
PollJob(w) ==
    /\ pc[w] = "poll"
    /\ \/ job.by = w /\ job.state = "succeeded" /\ NextStep(w)
       \/ Goto(w, "fail") /\ UNCHANGED <<step, outcome>>
    /\ UNCHANGED workerFrame

\* A step failed: the loop is halted before its record is written.
Halt(w) ==
    /\ pc[w] = "fail"
    /\ loopState' = "halted"
    /\ EndCycle(w, "halted")
    /\ UNCHANGED <<seq, stopFlag, lockVars, zeroVars, jobVars, sequenceRun>>

\* [mutant] The loop going on whatever the outcome of its cycle.
EmitAndGoOn(w) ==
    /\ pc[w] = "emit"
    /\ Goto(w, "step")
    /\ step' = [step EXCEPT ![w] = 1]
    /\ outcome' = [outcome EXCEPT ![w] = "ok"]
    /\ UNCHANGED workerFrame

\* _emit: the record is patched into the ConfigMap; then another cycle, or out.
Emit(w) ==
    /\ pc[w] = "emit"
    /\ IF outcome[w] # "ok" \/ stopFlag
       THEN Goto(w, "finish") /\ UNCHANGED <<step, outcome>>
       ELSE /\ Goto(w, "step")
            /\ step' = [step EXCEPT ![w] = 1]
            /\ UNCHANGED outcome
    /\ UNCHANGED workerFrame

\* [mutant] The worker's end, whatever the state.
FinishAlways(w) ==
    /\ pc[w] = "finish"
    /\ loopState' = "stopped"
    /\ Goto(w, "dead")
    /\ UNCHANGED <<step, outcome, seq, stopFlag, lockVars, zeroVars, jobVars, sequenceRun>>

\* _run's finally.
Finish(w) ==
    /\ pc[w] = "finish"
    /\ loopState' = IF loopState # "halted" THEN "stopped" ELSE loopState
    /\ Goto(w, "dead")
    /\ UNCHANGED <<step, outcome, seq, stopFlag, lockVars, zeroVars, jobVars, sequenceRun>>

-----------------------------------------------------------------------------

\* The service's memory when its pod starts.
Idle       == [a \in Actors |-> IF a \in Handlers THEN "free" ELSE "dead"]
FirstStep  == [w \in Workers |-> 1]
AllOk      == [w \in Workers |-> "ok"]
NoThread   == [s \in SeqThreads |-> [at |-> 0, halted |-> FALSE]]
NoSequence == [by |-> Free, state |-> "none"]
NoLicence  == [h \in Handlers |-> 0]
NoRestarts == [z \in Zeros |-> 0]

Init ==
    /\ pc = Idle /\ step = FirstStep /\ outcome = AllOk /\ seq = NoThread
    /\ loopState = "idle" /\ stopFlag = FALSE
    /\ sequenceRun = NoSequence
    /\ sequenceLock = Free /\ resetLock = Free /\ restartLock = Free
    /\ usedZero = 0 /\ licensed = NoLicence /\ restarts = NoRestarts
    /\ job = [by |-> Free, state |-> "none"]
    /\ unfinished = 0
    /\ zero = [id |-> 0, passes |-> FALSE]

\* The pod is replaced: every thread, lock and mark is gone, the Jobs and the
\* reset record are not.
PodRestart ==
    /\ pc' = Idle /\ step' = FirstStep /\ outcome' = AllOk /\ seq' = NoThread
    /\ loopState' = "idle" /\ stopFlag' = FALSE
    /\ sequenceRun' = NoSequence
    /\ sequenceLock' = Free /\ resetLock' = Free /\ restartLock' = Free
    /\ usedZero' = 0 /\ licensed' = NoLicence /\ restarts' = NoRestarts
    /\ UNCHANGED <<jobVars, zero>>

Reset(a) == ResetBegin(a) \/ ResetLatest(a) \/ ResetPause(a) \/ ResetLaunch(a) \/ ResetCreate(a)

Handler(h) ==
    \/ OpAnswered(h)
    \/ RestartGate(h) \/ RestartAnswered(h)
    \/ Reset(h)
    \/ SequenceBegin(h) \/ SequenceLatest(h) \/ SequenceStart(h)
    \/ LoopBegin(h) \/ LoopLatest(h) \/ LoopStart(h)

Worker(w) ==
    \/ BeginStep(w) \/ LoopOpAnswered(w) \/ LoopWaitEnds(w)
    \/ Reset(w) \/ PollJob(w)
    \/ Halt(w) \/ Emit(w) \/ Finish(w)

Sequence(s) == SequenceStep(s) \/ SequenceEnds(s)

Next ==
    \/ \E h \in Handlers : Request(h) \/ Handler(h)
    \/ \E w \in Workers : Worker(w)
    \/ \E s \in SeqThreads : Sequence(s)
    \/ Stop
    \/ JobStarts \/ JobEnds \/ MeasureZero \/ ZeroAges
    \/ PodRestart

Spec == Init /\ [][Next]_vars

\* Threads are scheduled, calls time out and Jobs have a deadline; and nobody
\* presses reset without end, so that a worker that waits for reset_lock gets it.
\* Nobody has to send a request, measure a zero or replace the pod.
Fairness ==
    /\ \A h \in Handlers : WF_vars(Handler(h))
    /\ \A w \in Workers : WF_vars(Worker(w)) /\ SF_vars(ResetBegin(w))
    /\ \A s \in SeqThreads : WF_vars(Sequence(s))

FairSpec == Spec /\ Fairness

-----------------------------------------------------------------------------
(* Properties. *)

ControlPoints ==
    {"free", "dead", "op", "restart", "restarting", "reset", "latest", "pause", "launch", "create",
     "sequence", "seq_latest", "seq_start", "loop", "loop_latest", "loop_start",
     "step", "wait", "poll", "fail", "emit", "finish"}

ThreadTypes ==
    /\ pc \in [Actors -> ControlPoints]
    /\ step \in [Workers -> 1..Len(LoopSteps)]
    /\ outcome \in [Workers -> {"ok", "stopped", "halted"}]
    /\ seq \in [SeqThreads -> [at : 0..(SeqLen + 1), halted : BOOLEAN]]

ServiceTypes ==
    /\ loopState \in {"idle", "running", "stopping", "halted", "stopped"}
    /\ stopFlag \in BOOLEAN
    /\ sequenceRun \in [by : SeqThreads \cup {Free}, state : {"none", "running", "halted", "completed"}]
    /\ sequenceLock \in Handlers \cup {Free}
    /\ resetLock \in Actors \cup {Free}
    /\ restartLock \in Handlers \cup {Free}

WorldTypes ==
    /\ job \in [by : Actors \cup {Free}, state : {"none", "created", "active", "succeeded", "failed"}]
    /\ unfinished \in Nat
    /\ usedZero \in Zeros
    /\ zero \in [id : Zeros, passes : BOOLEAN]
    /\ licensed \in [Handlers -> Zeros]
    /\ restarts \in [Zeros -> Nat]

\* Every thread is at a control point of the code, every step and record index is
\* one that exists, and every lock is held by a thread of the kind that takes it.
TypeOK == ThreadTypes /\ ServiceTypes /\ WorldTypes

\* The cluster never runs two reset Jobs at once, whoever pressed, whatever
\* answer was lost and however often the pod was replaced.
OneJob == unfinished <= 1

\* "Concurrent presses send one pause and create one Job": while one press is
\* between its check and its Job, no Job runs and no other press is there.
OnePress ==
    \A a \in Actors : pc[a] \in {"pause", "launch", "create"} =>
        unfinished = 0 /\ \A b \in Actors \ {a} : pc[b] \notin {"latest", "pause", "launch", "create"}

\* Only one sequence runs at a time, and the record shows the one that does.
OneSequence ==
    \A s \in SeqThreads : seq[s].at # 0 =>
        /\ sequenceRun = [by |-> s, state |-> "running"]
        /\ \A t \in SeqThreads \ {s} : seq[t].at = 0

\* A measured zero licenses one successful restart (per life of the pod).
OneRestartPerZero == \A z \in Zeros : restarts[z] <= 1

\* A halt stays on display until somebody starts the loop again: no stop and no
\* worker's end replaces it.
HaltStays ==
    [][loopState = "halted" => loopState' \in {"halted", "running"} \/ PodRestart]_vars

\* A stop never ends the wait for a reset Job: a worker goes on from it only
\* when its Job is over, or it halts the loop.
ResetNotInterrupted ==
    [][\A w \in Workers :
          (pc[w] = "poll" /\ pc'[w] # "poll") => pc'[w] = "fail" \/ unfinished = 0 \/ PodRestart]_vars

\* stop: 202 "stopping".  An accepted stop ends every worker there is, the new
\* loop's and a halted one that is still saving its record, and the state then
\* says so, unless somebody starts the loop again first.  (That is refused while
\* the loop is stopping, but see StopIsKept.)
StopTakesEffect ==
    stopFlag ~> (~stopFlag \/ (loopState # "stopping" /\ \A w \in Workers : pc[w] = "dead"))

\* Every lock is let go again: no refusal, fault or failure leaves one held.
LocksReleased ==
    /\ (sequenceLock # Free) ~> (sequenceLock = Free)
    /\ (resetLock # Free) ~> (resetLock = Free)
    /\ (restartLock # Free) ~> (restartLock = Free)

\* do_POST: "while a loop runs nothing else may act on the exercise".
LoopExcludesSequence == ~(Active /\ \E s \in SeqThreads : seq[s].at # 0)

\* A worker that is carrying out steps.
Working(w) ==
    pc[w] \in {"step", "op", "wait", "reset", "latest", "pause", "launch", "create", "poll"}

\* active_cycle: "The cycle number while the loop is running or stopping, else
\* None".  A worker that is carrying out steps is a loop that is running.
WorkingLoopIsActive == \A w \in Workers : Working(w) => Active

\* start clears the stop flag of a loop that has ended.  A halted worker's end
\* makes "stopped" of a new loop's "stopping", and then start takes back the stop
\* that a worker has yet to see.
StopIsKept ==
    [][(stopFlag /\ ~stopFlag') => PodRestart \/ \A w \in Workers : ~Working(w)]_vars

=============================================================================
