---------------------------------- MODULE Intake ----------------------------------
(***************************************************************************)
(* Intake of the artifacts that a destination returns (egress/intake.py):  *)
(* one entry's process drains the topic of the records that artifacts      *)
(* answer, polls the destination's list, decides each artifact, publishes  *)
(* it onward if it is admitted, and then stores its row.  An artifact that *)
(* answers an unknown record is refused provisionally, and for good only   *)
(* when the refusal has stood for ProvisionalTimeout.                      *)
(*                                                                         *)
(* An artifact is a body with its key; the policy's answers about its      *)
(* approvers are external, and no answer is no decision.  The topic is one *)
(* log: the records of one id are in one partition.  Left out: the log and *)
(* the counters, the versions that a refusal cites, the refresh of those,  *)
(* bodies that are no object or have no key, and further entries.          *)
(***************************************************************************)
EXTENDS Naturals, SequencesExt

CONSTANTS
    Artifacts,
    KeyOf,              \* the fields of an artifact, by artifact
    RefOf,
    LabelOf,
    Malformed,          \* the artifacts that their schema refuses
    Unapproved,         \* those that name no approver
    OnBehalf,           \* those with an on_behalf_of
    AnswerRecords,      \* what the answers topic may carry: [id, label]
    ProvisionalTimeout, \* provisional_timeout_s
    MaxAnswerRecords, MaxOffers, MaxIntakeFaults, MaxIntakeNow

NotThere == "not there"

ASSUME IntakeAssumption ==
    /\ IsFiniteSet(Artifacts) /\ NotThere \notin Artifacts
    /\ ProvisionalTimeout \in Nat \ {0} /\ MaxIntakeNow \in Nat
    /\ MaxAnswerRecords \in Nat /\ MaxOffers \in Nat /\ MaxIntakeFaults \in Nat
    /\ DOMAIN KeyOf = Artifacts /\ DOMAIN RefOf = Artifacts /\ DOMAIN LabelOf = Artifacts

VARIABLES
    inNow,
    inOffer,            \* the destination's list: an artifact for each key, or none (external)
    inOffered,          \* history: how often each artifact was put there, and first when
    inAnswers,          \* the answers topic (external)
    inPhase,
    inHigh,             \* the topic's end when the process started
    inRead,             \* how far it is drained
    inAt,               \* the poll's now
    inTodo,             \* the artifacts of the poll that are still to be processed
    inDecision,         \* the decision about the first of them
    inRows,             \* intake_records, by key
    inOut,              \* how often the onward topic has each artifact
    inFaults

worldVars == <<inNow, inOffer, inOffered, inAnswers>>
intakeVars == <<worldVars, inPhase, inHigh, inRead, inAt, inTodo, inDecision, inRows, inOut, inFaults>>

Keys == {KeyOf[a] : a \in Artifacts}
NoIntakeRow == [artifact |-> NotThere, reason |-> "none", provisional |-> FALSE, since |-> 0, at |-> 0]
NeverOffered == [times |-> 0, first |-> 0]

Refusals == {"schema_invalid", "answered_record_unknown", "label_mismatch", "approvers_missing",
             "approver_unresolved", "approver_unentitled", "on_behalf_of_untrusted"}
IntakeRows == [artifact : Artifacts \cup {NotThere}, reason : Refusals \cup {"admit", "none"},
         provisional : BOOLEAN, since : Nat, at : Nat]

IntakeTypeOK ==
    /\ inNow \in Nat /\ inOffer \in [Keys -> Artifacts \cup {NotThere}]
    /\ inOffered \in [Artifacts -> [times : Nat, first : Nat]]
    /\ inAnswers \in Seq(AnswerRecords)
    /\ inPhase \in {"down", "drain", "poll", "process", "publish", "store"}
    /\ inHigh \in Nat /\ inRead \in Nat /\ inAt \in Nat
    /\ inHigh <= Len(inAnswers) /\ inRead <= Len(inAnswers)
    /\ inTodo \in Seq(Artifacts) /\ inDecision \in IntakeRows /\ inRows \in [Keys -> IntakeRows]
    /\ inOut \in [Artifacts -> Nat] /\ inFaults \in Nat

IntakeInit ==
    /\ inNow = 0 /\ inOffer = [k \in Keys |-> NotThere]
    /\ inOffered = [a \in Artifacts |-> NeverOffered] /\ inAnswers = << >>
    /\ inPhase = "down" /\ inHigh = 0 /\ inRead = 0 /\ inAt = 0
    /\ inTodo = << >> /\ inDecision = NoIntakeRow
    /\ inRows = [k \in Keys |-> NoIntakeRow] /\ inOut = [a \in Artifacts |-> 0] /\ inFaults = 0

-----------------------------------------------------------------------------
(* The loop. *)

\* The process starts: an empty map, and the end of the topic as of now.
IntakeStarts ==
    /\ inPhase = "down" /\ inPhase' = "drain"
    /\ inHigh' = Len(inAnswers) /\ inRead' = 0
    /\ UNCHANGED <<worldVars, inAt, inTodo, inDecision, inRows, inOut, inFaults>>

\* drain reads until the consumer has nothing at hand, wherever that is.
Drain ==
    /\ inPhase = "drain" /\ inPhase' = "poll"
    /\ inRead' \in inRead..Len(inAnswers)
    /\ UNCHANGED <<worldVars, inHigh, inAt, inTodo, inDecision, inRows, inOut, inFaults>>

Offered == {inOffer[k] : k \in Keys} \ {NotThere}

\* run_poll: the list is fetched, or the poll is given up until the next.
PollList ==
    /\ inPhase = "poll" /\ inAt' = inNow
    /\ \/ inPhase' = "process" /\ inTodo' \in SetToSeqs(Offered)
       \/ inPhase' = "drain" /\ UNCHANGED inTodo
    /\ UNCHANGED <<worldVars, inHigh, inRead, inDecision, inRows, inOut, inFaults>>

\* The poll is over.
PollEnds ==
    /\ inPhase = "process" /\ inTodo = << >> /\ inPhase' = "drain"
    /\ UNCHANGED <<worldVars, inHigh, inRead, inAt, inTodo, inDecision, inRows, inOut, inFaults>>

-----------------------------------------------------------------------------
(* The decision, decide_artifact. *)

\* [mutant] An empty map is taken for a topic that was read.
TakenForRead == TRUE

\* caught_up: what the topic had when the process started is drained.
CaughtUp == inRead >= inHigh

\* The answered record of an id: the last one drained.
Answering(id) == {n \in 1..inRead : inAnswers[n].id = id}
AnsweredLabel(id) == inAnswers[CHOOSE n \in Answering(id) : \A m \in Answering(id) : m <= n].label

\* A provisional refusal of the same body is decided anew, since when it was first made.
Row(a) == inRows[KeyOf[a]]
Resolves(a) == Row(a).artifact = a /\ Row(a).provisional
Since(a) == IF Resolves(a) THEN Row(a).since ELSE inAt

Verdict(a, reason) ==
    [artifact |-> a, reason |-> reason, provisional |-> FALSE, since |-> Since(a), at |-> inAt]

\* Steps 4 to 7: the label, the approvers, the one on whose behalf it is, each
\* asked of the policy; the first that is not entitled decides, and a policy that
\* does not answer leaves the artifact undecided.
ReasonsOfKnown(a) ==
    IF LabelOf[a] # AnsweredLabel(RefOf[a]) THEN {"label_mismatch"}
    ELSE IF a \in Unapproved THEN {"approvers_missing"}
    ELSE {"admit", "approver_unresolved", "approver_unentitled", "none"}
         \cup (IF a \in OnBehalf THEN {"on_behalf_of_untrusted"} ELSE {})

\* The decisions that there may be; none is made about an unknown record before the
\* topic is read.
Decisions(a) ==
    IF a \in Malformed THEN {Verdict(a, "schema_invalid")}
    ELSE IF Answering(RefOf[a]) # {} THEN {Verdict(a, reason) : reason \in ReasonsOfKnown(a)}
    ELSE IF CaughtUp THEN {[Verdict(a, "answered_record_unknown") EXCEPT
                               !.provisional = inAt - Since(a) < ProvisionalTimeout]}
    ELSE {Verdict(a, "none")}

\* A body whose row is final is skipped.
Skips(a) == Row(a).artifact = a /\ ~Row(a).provisional

\* One that is not decided, or whose refusal stays provisional, waits for the next poll.
Waits(a, v) == v.reason = "none" \/ (Resolves(a) /\ v.provisional)

\* The artifact is done with for this poll.
GoesOn == inTodo' = Tail(inTodo) /\ inPhase' = "process" /\ inDecision' = NoIntakeRow

DecideArtifact ==
    /\ inPhase = "process" /\ inTodo # << >>
    /\ LET a == Head(inTodo)
       IN \/ Skips(a) /\ GoesOn
          \/ /\ ~Skips(a)
             /\ \E v \in Decisions(a) :
                   \/ Waits(a, v) /\ GoesOn
                   \/ /\ ~Waits(a, v) /\ inDecision' = v /\ UNCHANGED inTodo
                      /\ inPhase' = IF v.reason = "admit" THEN "publish" ELSE "store"
    /\ UNCHANGED <<worldVars, inHigh, inRead, inAt, inRows, inOut, inFaults>>

-----------------------------------------------------------------------------
(* What follows an admission and a decision. *)

\* The process ends, and what it was at is gone.
IntakeEnds == inPhase' = "down" /\ inTodo' = << >> /\ inDecision' = NoIntakeRow

Faulty == inFaults < MaxIntakeFaults /\ inFaults' = inFaults + 1

\* The artifact is published and waited for; one that is not confirmed may be in the
\* topic or not, and is not stored.
Publish ==
    /\ inPhase = "publish"
    /\ LET a == Head(inTodo)  more == [inOut EXCEPT ![a] = @ + 1]
       IN \/ inOut' = more /\ inPhase' = "store" /\ UNCHANGED <<inTodo, inDecision, inFaults>>
          \/ Faulty /\ inOut' \in {inOut, more} /\ GoesOn
    /\ UNCHANGED <<worldVars, inHigh, inRead, inAt, inRows>>

\* The row is written; a write that fails, applied or not, ends the process.
Store ==
    /\ inPhase = "store"
    /\ LET written == [inRows EXCEPT ![KeyOf[Head(inTodo)]] = inDecision]
       IN \/ inRows' = written /\ GoesOn /\ UNCHANGED inFaults
          \/ Faulty /\ inRows' \in {inRows, written} /\ IntakeEnds
    /\ UNCHANGED <<worldVars, inHigh, inRead, inAt, inOut>>

IntakeDies ==
    /\ inPhase # "down" /\ Faulty /\ IntakeEnds
    /\ UNCHANGED <<worldVars, inHigh, inRead, inAt, inRows, inOut>>

-----------------------------------------------------------------------------
(* The world (external). *)

Outside == UNCHANGED <<inPhase, inHigh, inRead, inAt, inTodo, inDecision, inRows, inOut, inFaults>>

\* The destination offers another artifact under its key.
Offers(a) ==
    /\ inOffer[KeyOf[a]] # a /\ inOffered[a].times < MaxOffers
    /\ inOffer' = [inOffer EXCEPT ![KeyOf[a]] = a]
    /\ inOffered' = [inOffered EXCEPT ![a] =
           [times |-> @.times + 1, first |-> IF @.times = 0 THEN inNow ELSE @.first]]
    /\ UNCHANGED <<inNow, inAnswers>> /\ Outside

\* A record that may be answered is forwarded, again perhaps, with another label.
RecordComes ==
    /\ Len(inAnswers) < MaxAnswerRecords
    /\ \E r \in AnswerRecords : inAnswers' = Append(inAnswers, r)
    /\ UNCHANGED <<inNow, inOffer, inOffered>> /\ Outside

IntakeTick ==
    /\ inNow < MaxIntakeNow /\ inNow' = inNow + 1
    /\ UNCHANGED <<inOffer, inOffered, inAnswers>> /\ Outside

IntakeNext ==
    \/ IntakeStarts \/ Drain \/ PollList \/ PollEnds \/ DecideArtifact \/ Publish \/ Store \/ IntakeDies
    \/ RecordComes \/ IntakeTick \/ \E a \in Artifacts : Offers(a)

IntakeSpec == IntakeInit /\ [][IntakeNext]_intakeVars

-----------------------------------------------------------------------------
(* Properties. *)

IsUnknown(row) == row.reason = "answered_record_unknown"

\* A row that says admitted is of an artifact that is in the onward topic, although
\* the topic and the table are written one after the other (_process_artifact).
AdmittedIsPublished ==
    \A k \in Keys : inRows[k].reason = "admit" => inOut[inRows[k].artifact] > 0

\* An artifact is published once for each time that it is offered, and once more for
\* each crash or loss between the topic and the table.
PublishedPerOffer == \A a \in Artifacts : inOut[a] <= inOffered[a].times + inFaults

\* Nobody is refused for good as the answer to an unknown record before the artifact
\* has been on offer for the timeout, whatever was changed, changed back or restarted.
RefusalWaits ==
    \A k \in Keys : IsUnknown(inRows[k]) /\ ~inRows[k].provisional =>
        inRows[k].at >= inOffered[inRows[k].artifact].first + ProvisionalTimeout

\* No artifact is refused as the answer to an unknown record if the topic had that
\* record when the process started (drain's caught_up).
KnownIsNotRefused ==
    inPhase = "store" /\ IsUnknown(inDecision) =>
        \A n \in 1..inHigh : inAnswers[n].id # RefOf[inDecision.artifact]

ArtifactsKept == AdmittedIsPublished /\ PublishedPerOffer /\ RefusalWaits /\ KnownIsNotRefused

\* AnsweredMap: "latest record wins".  A process that is still catching up decides by
\* the latest it has read, also about a label, and for good.
LatestWins ==
    inPhase = "store" /\ inDecision.reason = "label_mismatch" =>
        LET id == RefOf[inDecision.artifact]  there == {n \in 1..inHigh : inAnswers[n].id = id}
        IN there # {} => LET newest == CHOOSE n \in there : \A m \in there : m <= n
                         IN inAnswers[newest].label # LabelOf[inDecision.artifact] \/ inRead >= inHigh
=============================================================================
