----------------------------- MODULE ExerciseStatus -----------------------------
(***************************************************************************)
(* The controller behind the HQ page's exercise panel (exerciseControl.ts, *)
(* useExerciseControl.ts): it polls the control service for its status and *)
(* sends it commands.  Requests are asynchronous: the service computes an  *)
(* answer when the request reaches it, and the page handles it later, so   *)
(* answers may be handled in any order.                                    *)
(*                                                                         *)
(* External: the service.  Of a status only the sequence run is kept, the  *)
(* part that the answers of commands write too; a refusal is a flag.       *)
(***************************************************************************)
EXTENDS Naturals

CONSTANT PollSlots      \* numbers: how many status requests are under way at once

VARIABLES
    exService,  \* what the service would report of its sequence
    exPoll,     \* exPoll[i]: the answer of a status request under way
    exCommand,  \* the command under way, and its answer
    exState     \* the controller's state

statusVars == <<exService, exPoll, exCommand, exState>>

Commands == {"op", "reset", "loop", "sequence"}
Status == {"idle", "running"}

NoPoll == [code |-> "none", status |-> "null"]
NoCommand == [op |-> "none", answer |-> "none"]
Absent == [kind |-> "absent", status |-> "null", stale |-> FALSE, refusal |-> FALSE]
Forbidden == [kind |-> "forbidden", status |-> "null", stale |-> FALSE, refusal |-> FALSE]

StatusTypeOK ==
    /\ exService \in Status
    /\ exPoll \in [PollSlots -> [code : {"none", "ok", "denied", "absent", "failed"},
                                 status : Status \cup {"null"}]]
    /\ exCommand \in [op : Commands \cup {"none"},
                      answer : {"none", "accepted", "denied", "absent", "conflict", "failed"}]
    /\ exState \in [kind : {"loading", "absent", "forbidden", "ok"}, status : Status \cup {"null"},
                    stale : BOOLEAN, refusal : BOOLEAN]

StatusInit ==
    /\ exService = "idle"
    /\ exPoll = [i \in PollSlots |-> NoPoll]
    /\ exCommand = NoCommand
    /\ exState = [kind |-> "loading", status |-> "null", stale |-> FALSE, refusal |-> FALSE]

-----------------------------------------------------------------------------
(* Status. *)

\* A sequence that another user started, or the end of one.
ServiceChanges ==
    /\ exService' \in Status \ {exService}
    /\ UNCHANGED <<exPoll, exCommand, exState>>

\* The interval fires; the answer is the service's, or none gets through.
Poll(i) ==
    /\ exPoll[i] = NoPoll /\ \A j \in PollSlots : j < i => exPoll[j] # NoPoll
    /\ \E code \in {"ok", "denied", "absent", "failed"} :
          exPoll' = [exPoll EXCEPT ![i] = [code |-> code,
                                           status |-> IF code = "ok" THEN exService ELSE "null"]]
    /\ UNCHANGED <<exService, exCommand, exState>>

\* [mutant] An answer that comes through does not end the staleness.
PolledStale(state, answer) ==
    CASE answer.code = "absent" -> Absent
      [] answer.code = "denied" -> Forbidden
      [] answer.code = "failed" -> [state EXCEPT !.stale = TRUE]
      [] answer.code = "ok"     -> [state EXCEPT !.kind = "ok", !.status = answer.status]

\* A refusal that is shown stays until a command is accepted.
Polled(state, answer) ==
    CASE answer.code = "absent" -> Absent
      [] answer.code = "denied" -> Forbidden
      [] answer.code = "failed" -> [state EXCEPT !.stale = TRUE]
      [] answer.code = "ok"     -> [state EXCEPT !.kind = "ok", !.status = answer.status, !.stale = FALSE]

PollHandled(i) ==
    /\ exPoll[i] # NoPoll
    /\ exState' = Polled(exState, exPoll[i])
    /\ exPoll' = [exPoll EXCEPT ![i] = NoPoll]
    /\ UNCHANGED <<exService, exCommand>>

-----------------------------------------------------------------------------
(* Commands. *)

\* A command reaches the service.  An answer that is lost may have been an
\* acceptance.
RunOp(op) ==
    /\ exCommand = NoCommand
    /\ \E answer \in {"accepted", "denied", "absent", "conflict", "failed"} :
          /\ exCommand' = [op |-> op, answer |-> answer]
          /\ \/ answer \in {"accepted", "failed"}
                /\ exService' = IF op = "sequence" THEN "running" ELSE exService
             \/ answer # "accepted" /\ UNCHANGED exService
    /\ UNCHANGED <<exPoll, exState>>

\* What an answer does to the state of now, which polls may have changed since
\* the press.  Only the denial of a command that is anybody's hides the panel.
Ran(state, op, answer) ==
    LET known      == state.status # "null"
        isSequence == op = "sequence" /\ known
        privileged == op \in {"reset", "loop"} \/ isSequence IN
    CASE answer = "denied" /\ privileged  -> [state EXCEPT !.refusal = TRUE]
      [] answer = "denied" /\ ~privileged -> [state EXCEPT !.kind = "forbidden", !.refusal = FALSE]
      [] answer = "absent"                -> Absent
      [] answer = "conflict"              -> [state EXCEPT !.refusal = TRUE]
      [] answer = "failed"                -> [state EXCEPT !.stale = TRUE]
      [] answer = "accepted" /\ (op = "loop" \/ ~known) -> state
      [] answer = "accepted" /\ ~(op = "loop" \/ ~known) ->
            [state EXCEPT !.kind = "ok", !.refusal = FALSE,
                          !.status = IF isSequence THEN "running" ELSE @]

CommandHandled ==
    /\ exCommand # NoCommand
    /\ exState' = Ran(exState, exCommand.op, exCommand.answer)
    /\ exCommand' = NoCommand
    /\ UNCHANGED <<exService, exPoll>>

-----------------------------------------------------------------------------
StatusNext ==
    \/ ServiceChanges \/ CommandHandled
    \/ \E i \in PollSlots : Poll(i) \/ PollHandled(i)
    \/ \E op \in Commands : RunOp(op)

\* The interval goes on firing, and every request is answered or fails.
StatusFairness ==
    /\ \A i \in PollSlots : WF_statusVars(Poll(i)) /\ WF_statusVars(PollHandled(i))
    /\ WF_statusVars(CommandHandled)

StatusSpec == StatusInit /\ [][StatusNext]_statusVars /\ StatusFairness

-----------------------------------------------------------------------------
(* Properties. *)

\* When the service keeps a status, its answers get through and the user is
\* done, the panel ends up showing that status and nothing else, whatever the
\* order in which older answers and the answers of commands were handled.
StatusConverges ==
    \A s \in Status :
        <>[](/\ exService = s /\ exCommand = NoCommand
             /\ \A i \in PollSlots : exPoll[i].code \in {"none", "ok"})
            => <>[](exState.kind = "ok" /\ exState.status = s /\ ~exState.stale)
=============================================================================
