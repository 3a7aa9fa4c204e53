--------------------------- MODULE MCExerciseControl ---------------------------
(* Small instances of ExerciseControl. *)
EXTENDS ExerciseControl, TLC

CONSTANTS h1, h2, w1, w2, s1, s2

\* A cycle that quiets the simulator, resets it and waits the scenario out.
ResetLoop == <<"op", "reset", "wait">>
ResetAndWait == <<"reset", "wait">>
OpLoop == <<"op">>

Symmetry == Permutations(Handlers) \cup Permutations(Workers) \cup Permutations(SeqThreads)

\* The liveness run.  Before there is a loop, two clients press what they like, a
\* loop excepted.  From a zero that was never used and no longer passes, one of
\* them starts loops, and presses reset when it can, while the other rests: what
\* two clients do to each other and what old and new workers do are both seen, one
\* after the other.  Stops, Jobs and pod restarts come at any time.
PressesAlone(h) ==
    /\ h = h1 /\ pc[h2] = "free"
    /\ zero.id = MaxZeros /\ ~zero.passes /\ usedZero = 0

LiveRequest(h) ==
    /\ Request(h)
    /\ \/ loopState = "idle" /\ pc'[h] # "loop"
       \/ PressesAlone(h) /\ pc'[h] \in {"loop", "reset"}

LiveNext ==
    \/ \E h \in Handlers : LiveRequest(h) \/ Handler(h)
    \/ \E w \in Workers : Worker(w)
    \/ \E s \in SeqThreads : Sequence(s)
    \/ Stop
    \/ JobStarts \/ JobEnds \/ MeasureZero \/ ZeroAges
    \/ PodRestart

LiveSpec == Init /\ [][LiveNext]_vars /\ Fairness
=============================================================================
