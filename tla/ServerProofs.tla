------------------------------ MODULE ServerProofs ------------------------------
(***************************************************************************)
(* Proofs about the processes behind the screens, for all their constants: *)
(* the release gate, for every policy, audience and log; intake, for all   *)
(* artifacts, keys, timeouts and faults; and a session at the gateway, for *)
(* every number of concurrent lookups and every lifetime.                  *)
(***************************************************************************)
EXTENDS Gate, Intake, Sessions, FiniteSetTheorems, TLAPS

-----------------------------------------------------------------------------
(* The release gate.  The inductive invariant has three parts: where the   *)
(* offset stands in each phase (AtInv), which answers are in force         *)
(* (AnswersInv), and what the log holds of the record being decided        *)
(* (DecidedInv).                                                           *)

\* The consumer is at the committed offset, but for the record it is deciding.
AtInv ==
    /\ gtPhase = "deciding" => gtAt = gtCommitted + 1
    /\ gtPhase \in {"starting", "loop", "asking", "poll"} => gtAt = gtCommitted

\* The gates are answers, those of the last round that was due; a round that is
\* under way has only answers of after it began, and none is kept of another.
AnswersInv ==
    /\ gtFloor <= gtPolicy.version
    /\ gtPhase \in {"loop", "asking", "poll", "deciding"} => AllAnswered(gtGates)
    /\ gtPhase \in {"loop", "poll", "deciding"} =>
          gtFresh = NoGates /\ \A r \in GateRoutes : gtGates[r].version >= gtFloor
    /\ gtPhase \in {"starting", "asking"} =>
          \A r \in GateRoutes : gtFresh[r] = NoAnswer \/ gtFresh[r].version >= gtFloor

\* A route's decision of a record is in the log, and its sink has what it admits.
IsAnswered(n, r) ==
    \E d \in gtLog : d.record = n /\ d.route = r /\ (d.allowed => n \in gtSunk[r])

\* Every route that is past its decision of the record has answered it.
DecidedInv == gtPhase = "deciding" => \A r \in GateRoutes \ gtPending : IsAnswered(gtAt, r)

GateInv == GateTypeOK /\ AtInv /\ AnswersInv /\ DecidedInv /\ CommittedIsAnswered

\* Nothing reaches a sink but what a logged decision of its route allows
\* (routes.py logs before it produces, and produces what is allowed).
OnlyAdmittedIsSunk ==
    \A r \in GateRoutes : \A n \in gtSunk[r] :
        \E d \in gtLog : d.record = n /\ d.route = r /\ d.allowed

-----------------------------------------------------------------------------
(* Types. *)

LEMMA AnswersTypes ==
    ASSUME GateTypeOK, NEW r \in GateRoutes
    PROVE  /\ FreshWith(r) \in [GateRoutes -> RouteAnswers \cup {NoAnswer}]
           /\ FreshWith(r)[r] \in RouteAnswers
           /\ FreshWith(r)[r].version = gtPolicy.version
           /\ \A s \in GateRoutes : s # r => FreshWith(r)[s] = gtFresh[s]
  BY DEF GateTypeOK, FreshWith, RouteAnswers, PolicyAnswers

LEMMA NoGatesTypes == NoGates \in [GateRoutes -> RouteAnswers \cup {NoAnswer}]
  BY DEF NoGates

\* NoAnswer is no answer: an answer has a version.
LEMMA NoAnswerIsNone == NoAnswer \notin RouteAnswers
  BY GateAssumption DEF NoAnswer, RouteAnswers

LEMMA TypesInit == GateInit => GateTypeOK
  <1> SUFFICES ASSUME GateInit PROVE GateTypeOK
    OBVIOUS
  <1>1. gtPolicy \in PolicyAnswers
    BY GateAssumption DEF GateInit, PolicyAnswers
  <1>2. QED
    BY <1>1, NoGatesTypes, GateAssumption DEF GateInit, GateTypeOK

LEMMA EntryTypes ==
    ASSUME GateInv, NEW r \in GateRoutes, gtPhase = "deciding"
    PROVE  /\ Entry(r) \in [record : GateRecords, route : GateRoutes,
                            version : 1..(MaxAnswers + 1), allowed : BOOLEAN]
           /\ gtAt \in GateRecords
           /\ Entry(r).record = gtAt /\ Entry(r).route = r /\ Entry(r).allowed = Admitted(r)
  <1>1. gtAt \in GateRecords
    BY GateAssumption DEF GateInv, GateTypeOK, AtInv, GateRecords
  <1>2. gtGates[r] \in RouteAnswers
    BY DEF GateInv, GateTypeOK, AnswersInv, AllAnswered
  <1>3. Admitted(r) \in BOOLEAN
    BY DEF Admitted
  <1>4. QED
    BY <1>1, <1>2, <1>3 DEF Entry, RouteAnswers

\* A step keeps the types, given where the process stands.
LEMMA GateTypesStep == GateInv /\ [GateNext]_gateVars => GateTypeOK'
  <1> SUFFICES ASSUME GateInv, [GateNext]_gateVars PROVE GateTypeOK'
    OBVIOUS
  <1> USE DEF GateInv
  <1>1. ASSUME NEW r \in GateRoutes, AskRoute(r) PROVE GateTypeOK'
    BY <1>1, AnswersTypes, NoGatesTypes, GateAssumption DEF AskRoute, GateTypeOK
  <1>2. ASSUME NEW r \in GateRoutes, Decide(r) PROVE GateTypeOK'
    <2>1. /\ gtPhase = "deciding" /\ gtLog' = gtLog \cup {Entry(r)}
          /\ gtPhase' \in {"deciding", "dead"}
          /\ gtPending' \subseteq gtPending
      BY <1>2 DEF Decide, AfterDelivery
    <2>2. gtLog' \subseteq [record : GateRecords, route : GateRoutes,
                            version : 1..(MaxAnswers + 1), allowed : BOOLEAN]
      BY <2>1, EntryTypes DEF GateTypeOK
    <2>3. gtSunk' \in [GateRoutes -> SUBSET GateRecords]
      BY <1>2, <2>1, EntryTypes DEF Decide, GateTypeOK
    <2>4. QED
      BY <1>2, <2>1, <2>2, <2>3 DEF Decide, GateTypeOK
  <1>3. CASE AskFails
    BY <1>3, NoGatesTypes, GateAssumption DEF AskFails, AfterWait, RefreshOver, GateTypeOK
  <1>4. CASE Loop
    BY <1>4, GateAssumption DEF Loop, GateTypeOK, PolicyAnswers
  <1>5. CASE PollEmpty
    BY <1>5 DEF PollEmpty, GateTypeOK
  <1>6. CASE PollRecord
    BY <1>6 DEF PollRecord, GateTypeOK
  <1>7. CASE CommitRecord
    BY <1>7 DEF CommitRecord, GateTypeOK
  <1>8. CASE PolicyChanges
    <2>1. gtPolicy' \in PolicyAnswers
      BY <1>8, GateAssumption DEF PolicyChanges, GateTypeOK, PolicyAnswers
    <2>2. QED
      BY <1>8, <2>1 DEF PolicyChanges, GateTypeOK
  <1>9. CASE StopSignal
    BY <1>9 DEF StopSignal, GateTypeOK
  <1>10. CASE Kill
    BY <1>10 DEF Kill, GateTypeOK
  <1>11. CASE Restart
    BY <1>11, NoGatesTypes, GateAssumption DEF Restart, GateTypeOK, PolicyAnswers
  <1>12. CASE UNCHANGED gateVars
    BY <1>12 DEF gateVars, GateTypeOK
  <1>13. QED
    BY <1>1, <1>2, <1>3, <1>4, <1>5, <1>6, <1>7, <1>8, <1>9, <1>10, <1>11, <1>12 DEF GateNext

-----------------------------------------------------------------------------
(* Where the offset stands. *)

LEMMA AtStep == GateInv /\ [GateNext]_gateVars => AtInv'
  <1> SUFFICES ASSUME GateInv, [GateNext]_gateVars PROVE AtInv'
    OBVIOUS
  <1> USE DEF GateInv, AtInv
  <1>1. ASSUME NEW r \in GateRoutes, AskRoute(r) PROVE AtInv'
    BY <1>1 DEF AskRoute
  <1>2. ASSUME NEW r \in GateRoutes, Decide(r) PROVE AtInv'
    BY <1>2 DEF Decide, AfterDelivery
  <1>3. CASE AskFails
    BY <1>3 DEF AskFails, AfterWait
  <1>4. CASE Loop \/ PollEmpty \/ PolicyChanges \/ StopSignal \/ Kill
    BY <1>4 DEF Loop, PollEmpty, PolicyChanges, StopSignal, Kill
  <1>5. CASE PollRecord
    BY <1>5 DEF PollRecord
  <1>6. CASE CommitRecord \/ Restart
    BY <1>6 DEF CommitRecord, Restart
  <1>7. CASE UNCHANGED gateVars
    BY <1>7 DEF gateVars
  <1>8. QED
    BY <1>1, <1>2, <1>3, <1>4, <1>5, <1>6, <1>7 DEF GateNext

-----------------------------------------------------------------------------
(* Which answers are in force. *)

\* A completed round is of answers of after it began.
LEMMA RoundIsFresh ==
    ASSUME GateInv, NEW r \in GateRoutes, AskRoute(r)
    PROVE  \A s \in GateRoutes : FreshWith(r)[s] = NoAnswer \/ FreshWith(r)[s].version >= gtFloor
  <1> SUFFICES ASSUME NEW s \in GateRoutes
               PROVE  FreshWith(r)[s] = NoAnswer \/ FreshWith(r)[s].version >= gtFloor
    OBVIOUS
  <1>1. CASE s = r
    BY <1>1, AnswersTypes DEF GateInv, AnswersInv, GateTypeOK, PolicyAnswers
  <1>2. CASE s # r
    BY <1>2, AnswersTypes DEF GateInv, AnswersInv, AskRoute
  <1>3. QED
    BY <1>1, <1>2

LEMMA AnswersStep == GateInv /\ [GateNext]_gateVars => AnswersInv'
  <1> SUFFICES ASSUME GateInv, [GateNext]_gateVars PROVE AnswersInv'
    OBVIOUS
  <1> USE DEF GateInv
  <1>1. ASSUME NEW r \in GateRoutes, AskRoute(r) PROVE AnswersInv'
    <2>1. CASE AllAnswered(FreshWith(r))
      <3>1. /\ gtGates' = FreshWith(r) /\ gtFresh' = NoGates
            /\ gtPhase' \in {"loop", "poll", "dead"}
            /\ gtFloor' = gtFloor /\ gtPolicy' = gtPolicy
        BY <1>1, <2>1 DEF AskRoute
      <3>2. \A s \in GateRoutes : FreshWith(r)[s].version >= gtFloor
        BY <1>1, <2>1, RoundIsFresh DEF AllAnswered
      <3>3. QED
        BY <2>1, <3>1, <3>2 DEF AnswersInv, AllAnswered
    <2>2. CASE ~AllAnswered(FreshWith(r))
      BY <1>1, <2>2, RoundIsFresh DEF AskRoute, AnswersInv, AllAnswered
    <2>3. QED
      BY <2>1, <2>2
  <1>2. ASSUME NEW r \in GateRoutes, Decide(r) PROVE AnswersInv'
    BY <1>2 DEF Decide, AfterDelivery, AnswersInv, AllAnswered
  <1>3. CASE AskFails
    BY <1>3 DEF AskFails, AfterWait, AnswersInv, AllAnswered, NoGates
  <1>4. CASE Loop
    <2>1. gtPolicy.version \in Nat
      BY GateAssumption DEF GateTypeOK, PolicyAnswers
    <2>2. QED
      BY <1>4, <2>1 DEF Loop, AnswersInv, AllAnswered, NoGates
  <1>5. CASE PollEmpty \/ PollRecord \/ CommitRecord
    BY <1>5 DEF PollEmpty, PollRecord, CommitRecord, AnswersInv, AllAnswered
  <1>6. CASE PolicyChanges
    <2>1. gtPolicy.version \in Nat /\ gtFloor \in Nat /\ gtPolicy'.version = gtPolicy.version + 1
      BY <1>6, GateAssumption DEF PolicyChanges, GateTypeOK, PolicyAnswers
    <2>2. QED
      BY <1>6, <2>1 DEF PolicyChanges, AnswersInv, AllAnswered
  <1>7. CASE StopSignal \/ Kill
    BY <1>7 DEF StopSignal, Kill, AnswersInv, AllAnswered
  <1>8. CASE Restart
    <2>1. gtPolicy.version \in Nat
      BY GateAssumption DEF GateTypeOK, PolicyAnswers
    <2>2. QED
      BY <1>8, <2>1 DEF Restart, AnswersInv, AllAnswered, NoGates
  <1>9. CASE UNCHANGED gateVars
    BY <1>9 DEF gateVars, AnswersInv, AllAnswered
  <1>10. QED
    BY <1>1, <1>2, <1>3, <1>4, <1>5, <1>6, <1>7, <1>8, <1>9 DEF GateNext

-----------------------------------------------------------------------------
(* What the log holds. *)

\* A step takes nothing from the log or from a sink.
LEMMA Grows ==
    ASSUME GateInv, [GateNext]_gateVars
    PROVE  gtLog \subseteq gtLog' /\ \A r \in GateRoutes : gtSunk[r] \subseteq gtSunk'[r]
  <1>1. ASSUME NEW r \in GateRoutes, Decide(r)
        PROVE  gtLog \subseteq gtLog' /\ \A s \in GateRoutes : gtSunk[s] \subseteq gtSunk'[s]
    BY <1>1 DEF Decide, GateInv, GateTypeOK
  <1>2. ASSUME NEW r \in GateRoutes, AskRoute(r) PROVE UNCHANGED <<gtLog, gtSunk>>
    BY <1>2 DEF AskRoute
  <1>3. CASE AskFails \/ Loop \/ PollEmpty \/ PollRecord \/ CommitRecord
             \/ PolicyChanges \/ StopSignal \/ Kill \/ Restart \/ UNCHANGED gateVars
    BY <1>3 DEF AskFails, Loop, PollEmpty, PollRecord, CommitRecord, PolicyChanges, StopSignal,
                Kill, Restart, gateVars
  <1>4. QED
    BY <1>1, <1>2, <1>3 DEF GateNext

\* What was answered stays answered.
LEMMA AnsweredStays ==
    ASSUME GateInv, [GateNext]_gateVars, NEW n, NEW r \in GateRoutes, IsAnswered(n, r)
    PROVE  IsAnswered(n, r)'
  BY Grows DEF IsAnswered

\* A decision that lets the record go on answers it.
LEMMA DecideAnswers ==
    ASSUME GateInv, NEW r \in GateRoutes, Decide(r), gtPhase' = "deciding"
    PROVE  IsAnswered(gtAt, r)'
  <1>1. Entry(r) \in gtLog' /\ gtAt' = gtAt /\ gtPhase = "deciding"
    BY DEF Decide
  <1>2. Admitted(r) => gtAt \in gtSunk'[r]
    BY DEF Decide, AfterDelivery, GateInv, GateTypeOK
  <1>3. Entry(r).record = gtAt /\ Entry(r).route = r /\ Entry(r).allowed = Admitted(r)
    BY <1>1, EntryTypes
  <1>4. QED
    BY <1>1, <1>2, <1>3 DEF IsAnswered

LEMMA DecidedStep == GateInv /\ [GateNext]_gateVars => DecidedInv'
  <1> SUFFICES ASSUME GateInv, [GateNext]_gateVars, gtPhase' = "deciding",
                      NEW s \in GateRoutes \ gtPending'
               PROVE  IsAnswered(gtAt, s)'
    BY DEF DecidedInv, IsAnswered
  <1>1. ASSUME NEW r \in GateRoutes, Decide(r) PROVE IsAnswered(gtAt, s)'
    <2>1. gtPhase = "deciding" /\ gtAt' = gtAt /\ gtPending' = gtPending \ {r}
      BY <1>1 DEF Decide
    <2>2. CASE s = r
      BY <1>1, <2>2, DecideAnswers
    <2>3. CASE s # r
      <3>1. IsAnswered(gtAt, s)
        BY <2>1, <2>3 DEF GateInv, DecidedInv
      <3>2. QED
        BY <2>1, <3>1, AnsweredStays DEF IsAnswered
    <2>4. QED
      BY <2>2, <2>3
  <1>2. CASE PollRecord
    BY <1>2 DEF PollRecord
  <1>3. CASE PolicyChanges \/ StopSignal \/ UNCHANGED gateVars
    <2>1. UNCHANGED <<gtPhase, gtAt, gtPending, gtLog, gtSunk>>
      BY <1>3 DEF PolicyChanges, StopSignal, gateVars
    <2>2. QED
      BY <2>1 DEF GateInv, DecidedInv, IsAnswered
  <1>4. ~AskFails /\ ~Loop /\ ~PollEmpty /\ ~CommitRecord /\ ~Kill /\ ~Restart
    BY DEF AskFails, AfterWait, Loop, PollEmpty, CommitRecord, Kill, Restart
  <1>5. \A r \in GateRoutes : ~AskRoute(r)
    BY DEF AskRoute
  <1>6. QED
    BY <1>1, <1>2, <1>3, <1>4, <1>5 DEF GateNext

LEMMA CommittedStep == GateInv /\ [GateNext]_gateVars => CommittedIsAnswered'
  <1> SUFFICES ASSUME GateInv, [GateNext]_gateVars, NEW n \in 1..gtCommitted', NEW r \in GateRoutes
               PROVE  IsAnswered(n, r)'
    BY DEF CommittedIsAnswered, IsAnswered
  <1>1. CASE CommitRecord
    <2>1. CASE n \in 1..gtCommitted
      BY <2>1, AnsweredStays DEF GateInv, CommittedIsAnswered, IsAnswered
    <2>2. CASE n \notin 1..gtCommitted
      <3>1. gtPhase = "deciding" /\ gtPending = {} /\ gtCommitted' \in {gtAt, gtCommitted}
        BY <1>1 DEF CommitRecord
      <3>2. n = gtAt
        BY <2>2, <3>1, GateAssumption DEF GateInv, AtInv, GateTypeOK, GateRecords
      <3>3. IsAnswered(n, r)
        BY <3>1, <3>2 DEF GateInv, DecidedInv
      <3>4. QED
        BY <3>3, AnsweredStays
    <2>3. QED
      BY <2>1, <2>2
  <1>2. CASE ~CommitRecord
    <2>1. gtCommitted' = gtCommitted
      BY <1>2 DEF GateNext, AskRoute, Decide, AskFails, Loop, PollEmpty, PollRecord, PolicyChanges,
                  StopSignal, Kill, Restart, gateVars
    <2>2. IsAnswered(n, r)
      BY <2>1 DEF GateInv, CommittedIsAnswered, IsAnswered
    <2>3. QED
      BY <2>2, AnsweredStays
  <1>3. QED
    BY <1>1, <1>2

-----------------------------------------------------------------------------
(* The theorems. *)

LEMMA GateInvInit == GateInit => GateInv
  <1> SUFFICES ASSUME GateInit PROVE GateInv
    OBVIOUS
  <1>1. GateTypeOK
    BY TypesInit
  <1>2. AtInv /\ DecidedInv /\ CommittedIsAnswered
    BY DEF GateInit, AtInv, DecidedInv, CommittedIsAnswered
  <1>3. AnswersInv
    BY GateAssumption DEF GateInit, AnswersInv, NoGates
  <1>4. QED
    BY <1>1, <1>2, <1>3 DEF GateInv

LEMMA GateInvStep == GateInv /\ [GateNext]_gateVars => GateInv'
  BY GateTypesStep, AtStep, AnswersStep, DecidedStep, CommittedStep DEF GateInv

\* Everything rests on one invariant.
THEOREM GateInvariant == GateSpec => []GateInv
  BY GateInvInit, GateInvStep, PTL DEF GateSpec

\* The gate keeps its types: it decides only with answers, whatever its
\* refreshes come to (main.py refresh_gates).
THEOREM GateTypeCorrect == GateSpec => []GateTypeOK
  BY GateInvariant, PTL DEF GateInv

\* No offset is committed past a record that a route has not answered, and no
\* admitted record is missing from its sink then (routes.py run_once).
THEOREM CommittedAnswered == GateSpec => []CommittedIsAnswered
  BY GateInvariant, PTL DEF GateInv

\* An answer of before the last due refresh decides nothing (main.py main).
THEOREM StaleDecidesNothing == GateSpec => []StaleNeverDecides
  <1>1. GateInv => StaleNeverDecides
    BY DEF GateInv, AnswersInv, StaleNeverDecides
  <1>2. QED
    BY <1>1, GateInvariant, PTL

\* Nothing reaches a sink that no logged decision of its route allows, however
\* many times the record is decided (routes.py run_once, delivery.py).
THEOREM SunkWasAdmitted == GateSpec => []OnlyAdmittedIsSunk
  <1>1. GateInit => OnlyAdmittedIsSunk
    BY DEF GateInit, OnlyAdmittedIsSunk
  <1>2. GateInv /\ OnlyAdmittedIsSunk /\ [GateNext]_gateVars => OnlyAdmittedIsSunk'
    <2> SUFFICES ASSUME GateInv, OnlyAdmittedIsSunk, [GateNext]_gateVars,
                        NEW r \in GateRoutes, NEW n \in gtSunk'[r]
                 PROVE  \E d \in gtLog' : d.record = n /\ d.route = r /\ d.allowed
      BY DEF OnlyAdmittedIsSunk
    <2>1. CASE n \in gtSunk[r]
      BY <2>1, Grows DEF OnlyAdmittedIsSunk
    <2>2. CASE n \notin gtSunk[r]
      <3>1. Decide(r) /\ Admitted(r) /\ n = gtAt
        BY <2>2 DEF GateNext, AskRoute, Decide, AskFails, Loop, PollEmpty, PollRecord, CommitRecord,
                    PolicyChanges, StopSignal, Kill, Restart, gateVars, GateInv, GateTypeOK
      <3>2. Entry(r) \in gtLog' /\ gtPhase = "deciding"
        BY <3>1 DEF Decide
      <3>3. QED
        BY <3>1, <3>2, EntryTypes
    <2>3. QED
      BY <2>1, <2>2
  <1>3. QED
    BY <1>1, <1>2, GateInvariant, PTL DEF GateSpec

-----------------------------------------------------------------------------
(* Intake.  The inductive invariant adds to the types and to what is proved: *)
(* a poll's list has one artifact for a key (OnePerKey), what is known while *)
(* one is worked on (Working), that whatever is listed or stored was on    *)
(* offer, and since when (WasOffered), and that an artifact which may be   *)
(* published without being offered again was so far published less often   *)
(* than it was offered and faults happened (CreditLeft).                   *)

\* An artifact is in what is left of the poll's list; another of its key is.
InList(a) == \E i \in 1..Len(inTodo) : inTodo[i] = a
Rivalled(a) == \E i \in 1..Len(inTodo) : inTodo[i] # a /\ KeyOf[inTodo[i]] = KeyOf[a]

OnePerKey ==
    \A i, j \in 1..Len(inTodo) : KeyOf[inTodo[i]] = KeyOf[inTodo[j]] => i = j

\* An artifact that is published or stored is the first of the list, and was not skipped;
\* between two polls there is no list.
Working ==
    /\ inPhase \in {"down", "drain", "poll"} => inTodo = << >>
    /\ inPhase \in {"publish", "store"} =>
        /\ inTodo # << >> /\ inDecision.artifact = Head(inTodo) /\ ~Skips(Head(inTodo))
        /\ inPhase = "publish" => inDecision.reason = "admit"
        /\ inDecision.reason = "admit" =>
              ~inDecision.provisional /\ (inPhase = "store" => inOut[inDecision.artifact] > 0)

\* An artifact was on offer, at the latest since time t.
OfferedBy(a, t) == inOffered[a].times > 0 /\ inOffered[a].first <= t

WasOffered ==
    /\ \A a \in Artifacts : inOffered[a].first <= inNow
    /\ \A k \in Keys : inOffer[k] \in Artifacts =>
          KeyOf[inOffer[k]] = k /\ OfferedBy(inOffer[k], inNow)
    /\ \A a \in Artifacts : InList(a) => OfferedBy(a, inAt)
    /\ \A k \in Keys : inRows[k].artifact \in Artifacts => OfferedBy(inRows[k].artifact, inRows[k].since)
    /\ inPhase \in {"publish", "store"} => OfferedBy(inDecision.artifact, inDecision.since)

\* A final refusal as the answer to an unknown record came the timeout after its since;
\* a row with a decision is of an artifact.
Stood(row) == IsUnknown(row) /\ ~row.provisional => row.at >= row.since + ProvisionalTimeout

RowsSound ==
    /\ inPhase \in {"publish", "store"} => Stood(inDecision)
    /\ \A k \in Keys : inRows[k].reason # "none" => inRows[k].artifact \in Artifacts

\* An artifact that may be published before it is offered again.
MayComeOut(a) ==
    /\ inOffer[KeyOf[a]] = a \/ InList(a)
    /\ Skips(a) => Rivalled(a)
    /\ ~(inPhase = "store" /\ inDecision.reason = "admit" /\ inDecision.artifact = a)

CreditLeft ==
    \A a \in Artifacts : MayComeOut(a) => inOut[a] + 1 <= inOffered[a].times + inFaults

IntakeInv ==
    /\ IntakeTypeOK /\ OnePerKey /\ Working /\ WasOffered /\ RowsSound /\ CreditLeft
    /\ ArtifactsKept

-----------------------------------------------------------------------------
(* The operators. *)

LEMMA RowTypes ==
    /\ NoIntakeRow \in IntakeRows /\ NoIntakeRow.artifact = NotThere /\ NoIntakeRow.reason = "none"
    /\ NoIntakeRow.provisional = FALSE /\ 0 \in Nat
  BY DEF NoIntakeRow, IntakeRows

LEMMA KeyTypes == \A a \in Artifacts : KeyOf[a] \in Keys /\ a # NotThere
  BY IntakeAssumption DEF Keys

\* The first artifact of the list is the only one of its key there.
LEMMA HeadOfKey ==
    ASSUME IntakeTypeOK, OnePerKey, inTodo # << >>, NEW h, h = Head(inTodo)
    PROVE  /\ h \in Artifacts /\ InList(h) /\ ~Rivalled(h)
           /\ \A a \in Artifacts : KeyOf[a] = KeyOf[h] /\ a # h => Rivalled(a) /\ ~InList(a)
  <1>1. /\ inTodo \in Seq(Artifacts) /\ Len(inTodo) \in Nat \ {0} /\ h = inTodo[1]
        /\ \A i \in 1..Len(inTodo) : inTodo[i] \in Artifacts
    BY DEF IntakeTypeOK
  <1>2. QED
    BY <1>1 DEF InList, Rivalled, OnePerKey

\* What is left of the list when its first artifact is done with, or the process ends.
LEMMA LeftOver ==
    ASSUME IntakeTypeOK, OnePerKey, inTodo # << >>, inTodo' \in {Tail(inTodo), << >>}
    PROVE  /\ inTodo' \in Seq(Artifacts) /\ OnePerKey'
           /\ \A a \in Artifacts : (InList(a)' => InList(a)) /\ (Rivalled(a)' => Rivalled(a))
  <1> DEFINE n == Len(inTodo)
  <1>1. inTodo \in Seq(Artifacts) /\ n \in Nat \ {0}
    BY DEF IntakeTypeOK
  <1>2. /\ inTodo' \in Seq(Artifacts) /\ Len(inTodo') \in {0, n - 1}
        /\ \A i \in 1..Len(inTodo') : i + 1 \in 1..n /\ inTodo'[i] = inTodo[i + 1]
    <2>1. CASE inTodo' = Tail(inTodo)
      BY <1>1, <2>1
    <2>2. CASE inTodo' = << >>
      BY <1>1, <2>2
    <2>3. QED
      BY <2>1, <2>2
  <1>3. OnePerKey'
    <2>1. ASSUME NEW i \in 1..Len(inTodo'), NEW j \in 1..Len(inTodo'), KeyOf[inTodo'[i]] = KeyOf[inTodo'[j]]
          PROVE  i = j
      <3>1. /\ i + 1 \in 1..Len(inTodo) /\ j + 1 \in 1..Len(inTodo)
            /\ KeyOf[inTodo[i + 1]] = KeyOf[inTodo[j + 1]]
        BY <1>2, <2>1
      <3>2. i + 1 = j + 1
        BY <3>1 DEF OnePerKey
      <3> QED
        BY <3>2, <1>1, <1>2
    <2> QED
      BY <2>1 DEF OnePerKey
  <1>4. \A a \in Artifacts : (InList(a)' => InList(a)) /\ (Rivalled(a)' => Rivalled(a))
    BY <1>1, <1>2 DEF InList, Rivalled
  <1>5. QED
    BY <1>2, <1>3, <1>4

\* A list that was fetched has every artifact once, and those of the offer only.
LEMMA ListTypes ==
    ASSUME IntakeTypeOK, WasOffered, NEW s \in SetToSeqs(Offered)
    PROVE  /\ s \in Seq(Artifacts)
           /\ \A i, j \in 1..Len(s) : s[i] = s[j] => i = j
           /\ \A i \in 1..Len(s) : inOffer[KeyOf[s[i]]] = s[i]
  <1>1. IsFiniteSet(Artifacts) /\ NotThere \notin Artifacts
    BY IntakeAssumption
  <1>2. Offered \in SUBSET Artifacts
    BY <1>1 DEF Offered, IntakeTypeOK
  <1>3. Cardinality(Offered) \in Nat
    BY <1>1, <1>2, FS_Subset, FS_CardinalityType
  <1>4. /\ s \in [1..Cardinality(Offered) -> Offered]
        /\ \A i, j \in 1..Cardinality(Offered) : i # j => s[i] # s[j]
    BY DEF SetToSeqs
  <1>5. s \in Seq(Artifacts) /\ Len(s) = Cardinality(Offered)
    BY <1>2, <1>3, <1>4
  <1>6. \A i \in 1..Len(s) : s[i] \in Offered
    BY <1>4, <1>5
  <1>7. \A a \in Offered : inOffer[KeyOf[a]] = a
    BY <1>2 DEF Offered, WasOffered
  <1>8. QED
    BY <1>4, <1>5, <1>6, <1>7

\* A decision about an artifact of the list: its since, and what a refusal needs.
LEMMA DecisionTypes ==
    ASSUME IntakeTypeOK, WasOffered, NEW a \in Artifacts, InList(a), NEW v \in Decisions(a)
    PROVE  /\ v \in IntakeRows /\ v.artifact = a /\ OfferedBy(a, v.since) /\ Stood(v)
           /\ v.reason = "admit" => ~v.provisional
           /\ IsUnknown(v) => \A n \in 1..inHigh : inAnswers[n].id # RefOf[a]
  <1>1. /\ KeyOf[a] \in Keys /\ Row(a) \in IntakeRows /\ inAt \in Nat
        /\ inRead \in Nat /\ inHigh \in Nat /\ OfferedBy(a, inAt)
    BY KeyTypes DEF IntakeTypeOK, Row, WasOffered
  <1>2. Since(a) \in Nat /\ OfferedBy(a, Since(a))
    BY <1>1 DEF Since, Resolves, Row, IntakeRows, WasOffered
  <1>3. ProvisionalTimeout \in Nat \ {0}
    BY IntakeAssumption
  <1>4. ASSUME NEW reason \in Refusals \cup {"admit", "none"}, v = Verdict(a, reason),
               reason # "answered_record_unknown"
        PROVE  /\ v \in IntakeRows /\ v.artifact = a /\ v.since = Since(a)
               /\ v.reason = reason /\ v.provisional = FALSE /\ ~IsUnknown(v)
    BY <1>1, <1>2, <1>4 DEF Verdict, IntakeRows, IsUnknown
  <1>5. CASE a \in Malformed
    <2>1. v = Verdict(a, "schema_invalid")
      BY <1>5 DEF Decisions
    <2>2. QED
      BY <1>2, <1>4, <2>1 DEF Refusals, Stood
  <1>6. CASE a \notin Malformed /\ Answering(RefOf[a]) # {}
    <2>1. PICK reason \in ReasonsOfKnown(a) : v = Verdict(a, reason)
      BY <1>6 DEF Decisions
    <2>2. reason \in Refusals \cup {"admit", "none"} /\ reason # "answered_record_unknown"
      BY DEF ReasonsOfKnown, Refusals
    <2>3. QED
      BY <1>2, <1>4, <2>1, <2>2 DEF Stood
  <1>7. CASE a \notin Malformed /\ Answering(RefOf[a]) = {} /\ CaughtUp
    <2>1. v = [Verdict(a, "answered_record_unknown") EXCEPT
                  !.provisional = inAt - Since(a) < ProvisionalTimeout]
      BY <1>7 DEF Decisions
    <2>2. v = [artifact |-> a, reason |-> "answered_record_unknown",
               provisional |-> (inAt - Since(a) < ProvisionalTimeout), since |-> Since(a), at |-> inAt]
      BY <2>1 DEF Verdict
    <2>3. v \in IntakeRows
      BY <1>1, <1>2, <2>2 DEF IntakeRows, Refusals
    <2>4. Stood(v)
      <3>1. v.since = Since(a) /\ v.at = inAt
        BY <2>2
      <3>2. CASE inAt - Since(a) < ProvisionalTimeout
        BY <2>2, <3>2 DEF Stood
      <3>3. CASE ~(inAt - Since(a) < ProvisionalTimeout)
        <4>1. inAt >= Since(a) + ProvisionalTimeout
          BY <1>1, <1>2, <1>3, <3>3
        <4>2. QED
          BY <3>1, <4>1 DEF Stood
      <3>4. QED
        BY <3>2, <3>3
    <2>5. \A n \in 1..inHigh : inAnswers[n].id # RefOf[a]
      BY <1>1, <1>7 DEF CaughtUp, Answering
    <2>6. QED
      BY <1>2, <2>2, <2>3, <2>4, <2>5
  <1>8. CASE a \notin Malformed /\ Answering(RefOf[a]) = {} /\ ~CaughtUp
    <2>1. v = Verdict(a, "none")
      BY <1>8 DEF Decisions
    <2>2. QED
      BY <1>2, <1>4, <2>1 DEF Refusals, Stood
  <1>9. QED
    BY <1>5, <1>6, <1>7, <1>8

-----------------------------------------------------------------------------
(* The invariant. *)

LEMMA IntakeInvInit == IntakeInit => IntakeInv
  <1> SUFFICES ASSUME IntakeInit PROVE IntakeInv
    OBVIOUS
  <1>1. IntakeTypeOK
    BY RowTypes DEF IntakeInit, IntakeTypeOK, NeverOffered
  <1>2. OnePerKey /\ Working /\ RowsSound
    BY RowTypes DEF IntakeInit, OnePerKey, Working, RowsSound
  <1>3. \A a \in Artifacts : ~InList(a) /\ inOffer[KeyOf[a]] # a
    BY KeyTypes DEF IntakeInit, InList
  <1>4. WasOffered /\ CreditLeft
    <2>1. /\ \A a \in Artifacts : inOffered[a].first = 0
          /\ \A k \in Keys : inOffer[k] \notin Artifacts /\ inRows[k].artifact \notin Artifacts
      BY RowTypes, IntakeAssumption DEF IntakeInit, NeverOffered
    <2>2. QED
      BY <1>3, <2>1 DEF IntakeInit, WasOffered, CreditLeft, MayComeOut
  <1>5. ArtifactsKept
    BY RowTypes, IntakeAssumption DEF IntakeInit, ArtifactsKept, AdmittedIsPublished, PublishedPerOffer,
       RefusalWaits, KnownIsNotRefused, IsUnknown, NeverOffered
  <1>6. QED
    BY <1>1, <1>2, <1>4, <1>5 DEF IntakeInv

\* A step of the loop between two artifacts.
LEMMA LoopKeeps ==
    ASSUME IntakeInv, IntakeStarts \/ Drain \/ PollEnds
    PROVE  IntakeInv'
  <1> USE DEF IntakeInv
  <1>1. /\ UNCHANGED <<worldVars, inAt, inTodo, inDecision, inRows, inOut, inFaults>>
        /\ inPhase \notin {"publish", "store"} /\ inPhase' \in {"drain", "poll"} /\ inTodo = << >>
    BY DEF IntakeStarts, Drain, PollEnds, Working
  <1>2. /\ inHigh' \in Nat /\ inHigh' <= Len(inAnswers)
        /\ inRead' \in Nat /\ inRead' <= Len(inAnswers) /\ Len(inAnswers) \in Nat
    BY DEF IntakeStarts, Drain, PollEnds, IntakeTypeOK
  <1>3. IntakeTypeOK'
    BY <1>1, <1>2 DEF IntakeTypeOK, worldVars
  <1>4. OnePerKey' /\ Working' /\ RowsSound'
    BY <1>1 DEF OnePerKey, Working, RowsSound
  <1>5. WasOffered'
    BY <1>1 DEF WasOffered, OfferedBy, InList, worldVars
  <1>6. CreditLeft'
    BY <1>1 DEF CreditLeft, MayComeOut, InList, Rivalled, Skips, Row, worldVars
  <1>7. ArtifactsKept'
    BY <1>1 DEF ArtifactsKept, AdmittedIsPublished, PublishedPerOffer, RefusalWaits, KnownIsNotRefused,
       worldVars
  <1>8. QED
    BY <1>3, <1>4, <1>5, <1>6, <1>7

\* A list that is fetched is of what is on offer now, one artifact for a key.
LEMMA PollKeeps ==
    ASSUME IntakeInv, PollList
    PROVE  IntakeInv'
  <1> USE DEF IntakeInv
  <1>1. /\ UNCHANGED <<worldVars, inHigh, inRead, inDecision, inRows, inOut, inFaults>>
        /\ inPhase = "poll" /\ inAt' = inNow /\ inTodo = << >>
    BY DEF PollList, Working
  <1>2. CASE inPhase' = "process" /\ inTodo' \in SetToSeqs(Offered)
    <2>1. /\ inTodo' \in Seq(Artifacts)
          /\ \A i, j \in 1..Len(inTodo') : inTodo'[i] = inTodo'[j] => i = j
          /\ \A i \in 1..Len(inTodo') : inOffer[KeyOf[inTodo'[i]]] = inTodo'[i]
      BY <1>2, ListTypes
    <2>2. \A i \in 1..Len(inTodo') : inTodo'[i] \in Artifacts /\ KeyOf[inTodo'[i]] \in Keys
      BY <2>1, KeyTypes
    <2>3. IntakeTypeOK'
      BY <1>1, <1>2, <2>1 DEF IntakeTypeOK, worldVars
    <2>4. OnePerKey'
      BY <2>1 DEF OnePerKey
    <2>5. Working' /\ RowsSound'
      BY <1>1, <1>2 DEF Working, RowsSound
    <2>6. WasOffered'
      BY <1>1, <1>2, <2>1, <2>2 DEF WasOffered, OfferedBy, InList, worldVars
    <2>7. ASSUME NEW a \in Artifacts, MayComeOut(a)' PROVE MayComeOut(a)
      <3>1. inOffer[KeyOf[a]] = a /\ ~Rivalled(a)'
        BY <1>1, <2>1, <2>7 DEF MayComeOut, InList, Rivalled, Skips, Row, worldVars
      <3>2. QED
        BY <1>1, <2>7, <3>1 DEF MayComeOut, Skips, Row
    <2>8. CreditLeft'
      BY <1>1, <2>7 DEF CreditLeft, worldVars
    <2>9. ArtifactsKept'
      BY <1>1, <1>2 DEF ArtifactsKept, AdmittedIsPublished, PublishedPerOffer, RefusalWaits,
         KnownIsNotRefused, worldVars
    <2>10. QED
      BY <2>3, <2>4, <2>5, <2>6, <2>8, <2>9
  <1>3. CASE inPhase' = "drain" /\ UNCHANGED inTodo
    <2>1. IntakeTypeOK' /\ OnePerKey' /\ Working' /\ RowsSound'
      BY <1>1, <1>3 DEF IntakeTypeOK, OnePerKey, Working, RowsSound, worldVars
    <2>2. WasOffered'
      BY <1>1, <1>3 DEF WasOffered, OfferedBy, InList, worldVars
    <2>3. CreditLeft'
      BY <1>1, <1>3 DEF CreditLeft, MayComeOut, InList, Rivalled, Skips, Row, worldVars
    <2>4. ArtifactsKept'
      BY <1>1, <1>3 DEF ArtifactsKept, AdmittedIsPublished, PublishedPerOffer, RefusalWaits,
         KnownIsNotRefused, worldVars
    <2>5. QED
      BY <2>1, <2>2, <2>3, <2>4
  <1>4. QED
    BY <1>2, <1>3 DEF PollList

\* Of an artifact that is done with, and of a process that ended, nothing is at work.
LEMMA DoneWith ==
    ASSUME IntakeTypeOK, OnePerKey, (inTodo # << >> /\ GoesOn) \/ IntakeEnds
    PROVE  /\ inTodo' \in Seq(Artifacts) /\ inDecision' \in IntakeRows /\ inPhase' \in {"process", "down"}
           /\ OnePerKey' /\ Working' /\ KnownIsNotRefused'
           /\ \A a \in Artifacts : (InList(a)' => InList(a)) /\ (Rivalled(a)' => Rivalled(a))
  <1>1. inDecision' = NoIntakeRow /\ (inPhase' = "process" \/ (inPhase' = "down" /\ inTodo' = << >>))
    BY DEF GoesOn, IntakeEnds
  <1>2. inDecision' \in IntakeRows /\ Working' /\ KnownIsNotRefused'
    BY <1>1, RowTypes DEF Working, KnownIsNotRefused
  <1>3. CASE inTodo # << >>
    <2>1. inTodo' \in {Tail(inTodo), << >>}
      BY DEF GoesOn, IntakeEnds
    <2>2. QED
      BY <1>1, <1>2, <1>3, <2>1, LeftOver
  <1>4. CASE inTodo = << >>
    <2>1. inTodo' = << >>
      BY <1>4 DEF IntakeEnds
    <2>2. QED
      BY <1>1, <1>2, <2>1 DEF OnePerKey, InList, Rivalled
  <1>5. QED
    BY <1>3, <1>4

\* The decision keeps what may come out, and is about an artifact that is not final.
LEMMA DecideKeeps ==
    ASSUME IntakeInv, DecideArtifact
    PROVE  IntakeInv'
  <1> USE DEF IntakeInv
  <1> DEFINE a == Head(inTodo)
  <1>1. /\ UNCHANGED <<worldVars, inHigh, inRead, inAt, inRows, inOut, inFaults>>
        /\ inPhase = "process" /\ inTodo # << >>
    BY DEF DecideArtifact
  <1>2. CASE GoesOn
    <2>1. /\ inTodo' \in Seq(Artifacts) /\ inDecision' \in IntakeRows /\ inPhase' \in {"process", "down"}
          /\ OnePerKey' /\ Working' /\ KnownIsNotRefused'
          /\ \A b \in Artifacts : (InList(b)' => InList(b)) /\ (Rivalled(b)' => Rivalled(b))
      BY <1>1, <1>2, DoneWith
    <2>2. IntakeTypeOK'
      BY <1>1, <2>1 DEF IntakeTypeOK, worldVars
    <2>3. WasOffered' /\ RowsSound'
      BY <1>1, <2>1 DEF WasOffered, OfferedBy, RowsSound, worldVars
    <2>4. CreditLeft'
      BY <1>1, <2>1 DEF CreditLeft, MayComeOut, Skips, Row, worldVars
    <2>5. ArtifactsKept'
      BY <1>1, <2>1 DEF ArtifactsKept, AdmittedIsPublished, PublishedPerOffer, RefusalWaits, worldVars
    <2>6. QED
      BY <2>1, <2>2, <2>3, <2>4, <2>5
  <1>3. CASE ~GoesOn
    <2>1. PICK v \in Decisions(a) :
              /\ inDecision' = v /\ UNCHANGED inTodo /\ ~Skips(a)
              /\ inPhase' = IF v.reason = "admit" THEN "publish" ELSE "store"
      BY <1>3 DEF DecideArtifact
    <2>2. a \in Artifacts /\ InList(a)
      BY <1>1 DEF IntakeTypeOK, InList
    <2>3. /\ v \in IntakeRows /\ v.artifact = a /\ OfferedBy(a, v.since) /\ Stood(v)
          /\ v.reason = "admit" => ~v.provisional
          /\ IsUnknown(v) => \A n \in 1..inHigh : inAnswers[n].id # RefOf[a]
      BY <2>2, DecisionTypes
    <2>4. IntakeTypeOK'
      BY <1>1, <2>1, <2>3 DEF IntakeTypeOK, worldVars
    <2>5. OnePerKey' /\ Working' /\ RowsSound'
      BY <1>1, <2>1, <2>3 DEF OnePerKey, Working, RowsSound, Skips, Row, Stood
    <2>6. WasOffered'
      BY <1>1, <2>1, <2>3 DEF WasOffered, OfferedBy, InList, worldVars
    <2>7. CreditLeft'
      BY <1>1, <2>1 DEF CreditLeft, MayComeOut, Skips, Row, InList, Rivalled, worldVars
    <2>8. ArtifactsKept'
      BY <1>1, <2>1, <2>3 DEF ArtifactsKept, AdmittedIsPublished, PublishedPerOffer, RefusalWaits,
         KnownIsNotRefused, worldVars
    <2>9. QED
      BY <2>4, <2>5, <2>6, <2>7, <2>8
  <1>4. QED
    BY <1>2, <1>3

\* What a fault costs is counted: whatever may come out afterwards has credit left.
LEMMA FaultPays ==
    ASSUME IntakeInv, NEW out \in [Artifacts -> Nat], inOut' = out, Faulty, UNCHANGED worldVars,
           \A a \in Artifacts : out[a] <= inOffered[a].times + inFaults
    PROVE  CreditLeft' /\ PublishedPerOffer' /\ inFaults' \in Nat
  <1>1. inFaults' = inFaults + 1 /\ inFaults \in Nat /\ \A a \in Artifacts : inOffered[a].times \in Nat
    BY DEF Faulty, IntakeInv, IntakeTypeOK
  <1>2. QED
    BY <1>1 DEF CreditLeft, PublishedPerOffer, worldVars

LEMMA DiesKeeps ==
    ASSUME IntakeInv, IntakeDies
    PROVE  IntakeInv'
  <1> USE DEF IntakeInv
  <1>1. /\ UNCHANGED <<worldVars, inHigh, inRead, inAt, inRows, inOut>> /\ Faulty /\ IntakeEnds
    BY DEF IntakeDies
  <1>2. /\ inTodo' \in Seq(Artifacts) /\ inDecision' \in IntakeRows /\ inPhase' \in {"process", "down"}
        /\ OnePerKey' /\ Working' /\ KnownIsNotRefused'
        /\ \A b \in Artifacts : (InList(b)' => InList(b)) /\ (Rivalled(b)' => Rivalled(b))
    BY <1>1, DoneWith
  <1>3. CreditLeft' /\ PublishedPerOffer' /\ inFaults' \in Nat
    BY <1>1, FaultPays DEF IntakeTypeOK, ArtifactsKept, PublishedPerOffer
  <1>4. IntakeTypeOK'
    BY <1>1, <1>2, <1>3 DEF IntakeTypeOK, worldVars
  <1>5. WasOffered' /\ RowsSound'
    BY <1>1, <1>2 DEF WasOffered, OfferedBy, RowsSound, worldVars
  <1>6. ArtifactsKept'
    BY <1>1, <1>2, <1>3 DEF ArtifactsKept, AdmittedIsPublished, RefusalWaits, worldVars
  <1>7. QED
    BY <1>2, <1>3, <1>4, <1>5, <1>6

\* A publication spends the artifact's credit; one that is not confirmed is a fault.
LEMMA PublishKeeps ==
    ASSUME IntakeInv, Publish
    PROVE  IntakeInv'
  <1> USE DEF IntakeInv
  <1> DEFINE a == Head(inTodo)
             more == [inOut EXCEPT ![a] = @ + 1]
  <1>1. /\ UNCHANGED <<worldVars, inHigh, inRead, inAt, inRows>> /\ inPhase = "publish"
        /\ inTodo # << >> /\ inDecision.artifact = a /\ ~Skips(a)
        /\ inDecision.reason = "admit" /\ ~inDecision.provisional
    BY DEF Publish, Working
  <1>2. a \in Artifacts /\ InList(a) /\ ~Rivalled(a)
    BY <1>1, HeadOfKey
  <1>3. /\ inOut \in [Artifacts -> Nat] /\ inFaults \in Nat
        /\ \A b \in Artifacts : inOut[b] \in Nat /\ inOffered[b].times \in Nat
    BY DEF IntakeTypeOK
  <1>4. /\ more \in [Artifacts -> Nat] /\ more[a] = inOut[a] + 1
        /\ \A b \in Artifacts : b # a => more[b] = inOut[b]
    BY <1>2, <1>3
  <1>5. \A b \in Artifacts : inOut[b] <= more[b] /\ more[b] <= inOffered[b].times + inFaults
    <2>1. MayComeOut(a)
      BY <1>1, <1>2 DEF MayComeOut
    <2>2. inOut[a] + 1 <= inOffered[a].times + inFaults
      BY <1>2, <2>1 DEF CreditLeft
    <2>3. QED
      BY <1>3, <1>4, <2>2 DEF ArtifactsKept, PublishedPerOffer
  <1>6. CASE inOut' = more /\ inPhase' = "store" /\ UNCHANGED <<inTodo, inDecision, inFaults>>
    <2>1. IntakeTypeOK'
      BY <1>1, <1>4, <1>6 DEF IntakeTypeOK, worldVars
    <2>2. OnePerKey' /\ RowsSound'
      BY <1>1, <1>6 DEF OnePerKey, RowsSound
    <2>3. Working'
      <3>1. inOut'[a] > 0
        BY <1>2, <1>3, <1>4, <1>6
      <3>2. inDecision'.artifact = a /\ Head(inTodo)' = a /\ inTodo' # << >> /\ ~Skips(Head(inTodo))'
        BY <1>1, <1>6 DEF Skips, Row
      <3>3. inOut'[inDecision'.artifact] > 0 /\ ~inDecision'.provisional
        BY <1>1, <1>6, <3>1, <3>2
      <3>4. QED
        BY <1>6, <3>2, <3>3 DEF Working
    <2>4. WasOffered'
      BY <1>1, <1>6 DEF WasOffered, OfferedBy, InList, worldVars
    <2>5. CreditLeft'
      <3> SUFFICES ASSUME NEW b \in Artifacts, MayComeOut(b)'
                   PROVE  inOut'[b] + 1 <= inOffered'[b].times + inFaults'
        BY DEF CreditLeft
      <3>1. b # a
        BY <1>1, <1>6 DEF MayComeOut
      <3>2. MayComeOut(b)
        BY <1>1, <1>6 DEF MayComeOut, InList, Rivalled, Skips, Row, worldVars
      <3>3. QED
        BY <1>1, <1>4, <1>6, <3>1, <3>2 DEF CreditLeft, worldVars
    <2>6. AdmittedIsPublished'
      <3> SUFFICES ASSUME NEW k \in Keys, inRows[k].reason = "admit"
                   PROVE  more[inRows[k].artifact] > 0
        BY <1>1, <1>6 DEF AdmittedIsPublished
      <3>1. inOut[inRows[k].artifact] > 0
        BY DEF ArtifactsKept, AdmittedIsPublished
      <3>2. inRows[k].artifact \in Artifacts
        BY DEF RowsSound
      <3>3. QED
        BY <1>3, <1>4, <1>5, <3>1, <3>2
    <2>7. PublishedPerOffer'
      BY <1>1, <1>5, <1>6 DEF PublishedPerOffer, worldVars
    <2>8. RefusalWaits' /\ KnownIsNotRefused'
      BY <1>1, <1>6 DEF ArtifactsKept, RefusalWaits, KnownIsNotRefused, IsUnknown, worldVars
    <2>9. QED
      BY <2>1, <2>2, <2>3, <2>4, <2>5, <2>6, <2>7, <2>8 DEF ArtifactsKept
  <1>7. CASE Faulty /\ inOut' \in {inOut, more} /\ GoesOn
    <2>1. /\ inTodo' \in Seq(Artifacts) /\ inDecision' \in IntakeRows /\ inPhase' \in {"process", "down"}
          /\ OnePerKey' /\ Working' /\ KnownIsNotRefused'
          /\ \A b \in Artifacts : (InList(b)' => InList(b)) /\ (Rivalled(b)' => Rivalled(b))
      BY <1>1, <1>7, DoneWith
    <2>2. inOut' \in [Artifacts -> Nat] /\ \A b \in Artifacts : inOut'[b] <= inOffered[b].times + inFaults
      BY <1>3, <1>4, <1>5, <1>7 DEF ArtifactsKept, PublishedPerOffer
    <2>3. CreditLeft' /\ PublishedPerOffer' /\ inFaults' \in Nat
      BY <1>1, <1>7, <2>2, FaultPays
    <2>4. IntakeTypeOK'
      BY <1>1, <2>1, <2>2, <2>3 DEF IntakeTypeOK, worldVars
    <2>5. WasOffered' /\ RowsSound'
      BY <1>1, <2>1 DEF WasOffered, OfferedBy, RowsSound, worldVars
    <2>6. AdmittedIsPublished'
      <3> SUFFICES ASSUME NEW k \in Keys, inRows[k].reason = "admit"
                   PROVE  inOut'[inRows[k].artifact] > 0
        BY <1>1 DEF AdmittedIsPublished
      <3>1. inOut[inRows[k].artifact] > 0
        BY DEF ArtifactsKept, AdmittedIsPublished
      <3>2. inRows[k].artifact \in Artifacts
        BY DEF RowsSound
      <3>3. QED
        BY <1>3, <1>4, <1>5, <1>7, <3>1, <3>2
    <2>7. RefusalWaits'
      BY <1>1 DEF ArtifactsKept, RefusalWaits, worldVars
    <2>8. QED
      BY <2>1, <2>3, <2>4, <2>5, <2>6, <2>7 DEF ArtifactsKept
  <1>8. QED
    BY <1>6, <1>7 DEF Publish

\* The row that is written says what was decided; the rows of the other keys stay.
LEMMA StoreKeeps ==
    ASSUME IntakeInv, Store
    PROVE  IntakeInv'
  <1> USE DEF IntakeInv
  <1> DEFINE a == Head(inTodo)
             written == [inRows EXCEPT ![KeyOf[a]] = inDecision]
  <1>1. /\ UNCHANGED <<worldVars, inHigh, inRead, inAt, inOut>> /\ inPhase = "store"
        /\ inTodo # << >> /\ inDecision.artifact = a /\ ~Skips(a)
        /\ inDecision.reason = "admit" => ~inDecision.provisional /\ inOut[a] > 0
        /\ OfferedBy(a, inDecision.since) /\ Stood(inDecision)
        /\ inDecision \in IntakeRows /\ inRows \in [Keys -> IntakeRows]
    BY DEF Store, Working, WasOffered, RowsSound, IntakeTypeOK
  <1>2. /\ a \in Artifacts /\ KeyOf[a] \in Keys /\ ~Rivalled(a)
        /\ \A b \in Artifacts : KeyOf[b] = KeyOf[a] /\ b # a => Rivalled(b) /\ ~InList(b)
    BY <1>1, HeadOfKey, KeyTypes
  <1>3. /\ inTodo' \in Seq(Artifacts) /\ inDecision' \in IntakeRows /\ inPhase' \in {"process", "down"}
        /\ OnePerKey' /\ Working' /\ KnownIsNotRefused'
        /\ \A b \in Artifacts : (InList(b)' => InList(b)) /\ (Rivalled(b)' => Rivalled(b))
    BY <1>1, DoneWith DEF Store
  <1>4. /\ inRows' \in {inRows, written} /\ written \in [Keys -> IntakeRows]
        /\ written[KeyOf[a]] = inDecision
        /\ \A k \in Keys : k # KeyOf[a] => written[k] = inRows[k]
    BY <1>1, <1>2 DEF Store
  <1>5. /\ \A k \in Keys : inRows'[k].artifact \in Artifacts =>
              OfferedBy(inRows'[k].artifact, inRows'[k].since)
        /\ \A k \in Keys : inRows'[k].reason # "none" => inRows'[k].artifact \in Artifacts
        /\ \A k \in Keys : inRows'[k].reason = "admit" => inOut[inRows'[k].artifact] > 0
    BY <1>1, <1>2, <1>4 DEF WasOffered, RowsSound, ArtifactsKept, AdmittedIsPublished
  <1>6. WasOffered' /\ RowsSound' /\ AdmittedIsPublished'
    BY <1>1, <1>3, <1>5 DEF WasOffered, OfferedBy, RowsSound, AdmittedIsPublished, worldVars
  <1>7. RefusalWaits'
    <2> SUFFICES ASSUME NEW k \in Keys, IsUnknown(inRows'[k]), ~inRows'[k].provisional
                 PROVE  inRows'[k].at >= inOffered[inRows'[k].artifact].first + ProvisionalTimeout
      BY <1>1 DEF RefusalWaits, IsUnknown, worldVars
    <2>1. CASE inRows'[k] = inRows[k]
      BY <2>1 DEF ArtifactsKept, RefusalWaits
    <2>2. CASE inRows'[k] = inDecision
      <3>1. /\ inDecision.at \in Nat /\ inDecision.since \in Nat /\ inOffered[a].first \in Nat
            /\ ProvisionalTimeout \in Nat
        BY <1>1, <1>2, IntakeAssumption DEF IntakeTypeOK, IntakeRows
      <3>2. inDecision.at >= inDecision.since + ProvisionalTimeout /\ inOffered[a].first <= inDecision.since
        BY <1>1, <2>2 DEF Stood, OfferedBy
      <3>3. QED
        BY <1>1, <2>2, <3>1, <3>2
    <2>3. QED
      BY <1>4, <2>1, <2>2
  <1>8. CASE inRows' = written /\ GoesOn /\ UNCHANGED inFaults
    <2>1. IntakeTypeOK' /\ PublishedPerOffer'
      BY <1>1, <1>3, <1>4, <1>8 DEF IntakeTypeOK, ArtifactsKept, PublishedPerOffer, worldVars
    <2>2. ASSUME NEW b \in Artifacts, MayComeOut(b)' PROVE MayComeOut(b)
      <3>1. KeyOf[b] \in Keys /\ (inOffer[KeyOf[b]] = b \/ InList(b)) /\ (Rivalled(b)' => Rivalled(b))
        BY <1>1, <1>3, <2>2, KeyTypes DEF MayComeOut, worldVars
      <3>2. CASE KeyOf[b] # KeyOf[a]
        BY <1>1, <1>4, <1>8, <2>2, <3>1, <3>2 DEF MayComeOut, Skips, Row
      <3>3. CASE KeyOf[b] = KeyOf[a] /\ b # a
        BY <1>1, <1>2, <3>1, <3>3 DEF MayComeOut
      <3>4. CASE b = a
        <4>1. ~Skips(b)'
          BY <1>2, <2>2, <3>1, <3>4 DEF MayComeOut
        <4>2. inRows'[KeyOf[b]] = inDecision /\ inDecision.artifact = b
          BY <1>1, <1>4, <1>8, <3>4
        <4>3. inDecision.provisional
          BY <4>1, <4>2 DEF Skips, Row
        <4>4. QED
          BY <1>1, <3>1, <3>4, <4>3 DEF MayComeOut
      <3>5. QED
        BY <3>2, <3>3, <3>4
    <2>3. CreditLeft'
      BY <1>1, <1>8, <2>2 DEF CreditLeft, worldVars
    <2>4. QED
      BY <1>3, <1>6, <1>7, <2>1, <2>3 DEF ArtifactsKept
  <1>9. CASE Faulty /\ IntakeEnds
    <2>1. CreditLeft' /\ PublishedPerOffer' /\ inFaults' \in Nat
      BY <1>1, <1>9, FaultPays DEF IntakeTypeOK, ArtifactsKept, PublishedPerOffer
    <2>2. IntakeTypeOK'
      BY <1>1, <1>3, <1>4, <2>1 DEF IntakeTypeOK, worldVars
    <2>3. QED
      BY <1>3, <1>6, <1>7, <2>1, <2>2 DEF ArtifactsKept
  <1>10. QED
    BY <1>8, <1>9 DEF Store

\* An artifact that is offered anew may come out once more.
LEMMA OffersKeeps ==
    ASSUME IntakeInv, NEW a \in Artifacts, Offers(a)
    PROVE  IntakeInv'
  <1> USE DEF IntakeInv
  <1> DEFINE times == inOffered[a].times
             first == IF times = 0 THEN inNow ELSE inOffered[a].first
  <1>1. /\ UNCHANGED <<inNow, inAnswers, inPhase, inHigh, inRead, inAt, inTodo, inDecision, inRows,
                       inOut, inFaults>>
        /\ inOffer' = [inOffer EXCEPT ![KeyOf[a]] = a]
        /\ inOffered' = [inOffered EXCEPT ![a] = [times |-> times + 1, first |-> first]]
    BY DEF Offers, Outside
  <1>2. /\ KeyOf[a] \in Keys /\ a # NotThere /\ inNow \in Nat /\ inFaults \in Nat
        /\ inOffer \in [Keys -> Artifacts \cup {NotThere}]
        /\ inOffered \in [Artifacts -> [times : Nat, first : Nat]]
        /\ \A b \in Artifacts : inOut[b] \in Nat /\ inOffered[b].times \in Nat /\ inOffered[b].first \in Nat
    BY KeyTypes DEF IntakeTypeOK
  <1>3. /\ inOffer' \in [Keys -> Artifacts \cup {NotThere}] /\ inOffer'[KeyOf[a]] = a
        /\ \A k \in Keys : k # KeyOf[a] => inOffer'[k] = inOffer[k]
        /\ inOffered' \in [Artifacts -> [times : Nat, first : Nat]]
        /\ inOffered'[a] = [times |-> times + 1, first |-> first]
        /\ \A b \in Artifacts : b # a => inOffered'[b] = inOffered[b]
    BY <1>1, <1>2
  <1>4. /\ inOffered'[a].times > 0 /\ inOffered'[a].first <= inNow
        /\ inOffered[a].times > 0 => inOffered'[a].first = inOffered[a].first
        /\ \A b \in Artifacts : inOffered'[b].times >= inOffered[b].times /\ inOffered'[b].times \in Nat
    BY <1>2, <1>3 DEF WasOffered
  <1>5. \A b \in Artifacts : \A t : OfferedBy(b, t) =>
            /\ inOffered'[b].times > 0 /\ inOffered'[b].first <= t
            /\ inOffered'[b].first = inOffered[b].first
    BY <1>2, <1>3, <1>4 DEF OfferedBy
  <1>6. IntakeTypeOK'
    BY <1>1, <1>3 DEF IntakeTypeOK
  <1>7. OnePerKey' /\ Working' /\ RowsSound'
    BY <1>1 DEF OnePerKey, Working, RowsSound, Skips, Row
  <1>8. WasOffered'
    <2>1. \A b \in Artifacts : inOffered'[b].first <= inNow
      BY <1>3, <1>4 DEF WasOffered
    <2>2. \A k \in Keys : inOffer'[k] \in Artifacts =>
              /\ KeyOf[inOffer'[k]] = k
              /\ inOffered'[inOffer'[k]].times > 0 /\ inOffered'[inOffer'[k]].first <= inNow
      BY <1>3, <1>4, <1>5 DEF WasOffered
    <2>3. \A b \in Artifacts : InList(b) => inOffered'[b].times > 0 /\ inOffered'[b].first <= inAt
      BY <1>5 DEF WasOffered
    <2>4. \A k \in Keys : inRows[k].artifact \in Artifacts =>
              inOffered'[inRows[k].artifact].times > 0
              /\ inOffered'[inRows[k].artifact].first <= inRows[k].since
      BY <1>5 DEF WasOffered
    <2>5. inPhase \in {"publish", "store"} =>
              inOffered'[inDecision.artifact].times > 0
              /\ inOffered'[inDecision.artifact].first <= inDecision.since
      <3>1. inPhase \in {"publish", "store"} => inDecision.artifact \in Artifacts
        BY HeadOfKey DEF Working
      <3>2. QED
        BY <1>5, <3>1 DEF WasOffered
    <2>6. QED
      BY <1>1, <2>1, <2>2, <2>3, <2>4, <2>5 DEF WasOffered, OfferedBy, InList
  <1>9. CreditLeft'
    <2> SUFFICES ASSUME NEW b \in Artifacts, MayComeOut(b)'
                 PROVE  inOut[b] + 1 <= inOffered'[b].times + inFaults
      BY <1>1 DEF CreditLeft
    <2>1. CASE b = a
      BY <1>2, <1>3, <2>1 DEF ArtifactsKept, PublishedPerOffer
    <2>2. CASE b # a
      <3>1. inOffer'[KeyOf[b]] = b => inOffer[KeyOf[b]] = b
        BY <1>3, <2>2, KeyTypes
      <3>2. MayComeOut(b)
        BY <1>1, <3>1 DEF MayComeOut, InList, Rivalled, Skips, Row
      <3>3. QED
        BY <1>3, <2>2, <3>2 DEF CreditLeft
    <2>3. QED
      BY <2>1, <2>2
  <1>10. ArtifactsKept'
    <2>1. RefusalWaits'
      <3> SUFFICES ASSUME NEW k \in Keys, IsUnknown(inRows[k]), ~inRows[k].provisional
                   PROVE  inRows[k].at >= inOffered'[inRows[k].artifact].first + ProvisionalTimeout
        BY <1>1 DEF RefusalWaits, IsUnknown
      <3>1. inRows[k].artifact \in Artifacts
        BY DEF RowsSound, IsUnknown
      <3>2. inOffered'[inRows[k].artifact].first = inOffered[inRows[k].artifact].first
        BY <1>5, <3>1 DEF WasOffered
      <3>3. QED
        BY <3>2 DEF ArtifactsKept, RefusalWaits
    <2>2. AdmittedIsPublished' /\ KnownIsNotRefused'
      BY <1>1 DEF ArtifactsKept, AdmittedIsPublished, KnownIsNotRefused, IsUnknown
    <2>3. PublishedPerOffer'
      <3> SUFFICES ASSUME NEW b \in Artifacts PROVE inOut[b] <= inOffered'[b].times + inFaults
        BY <1>1 DEF PublishedPerOffer
      <3>1. inOut[b] <= inOffered[b].times + inFaults /\ inOffered[b].times <= inOffered'[b].times
        BY <1>4 DEF ArtifactsKept, PublishedPerOffer
      <3>2. QED
        BY <1>2, <1>4, <3>1
    <2>4. QED
      BY <2>1, <2>2, <2>3 DEF ArtifactsKept
  <1>11. QED
    BY <1>6, <1>7, <1>8, <1>9, <1>10

\* A record that comes, and time that passes, take nothing away.
LEMMA WorldKeeps ==
    ASSUME IntakeInv, RecordComes \/ IntakeTick
    PROVE  IntakeInv'
  <1> USE DEF IntakeInv
  <1>1. /\ UNCHANGED <<inOffer, inOffered, inPhase, inHigh, inRead, inAt, inTodo, inDecision, inRows,
                       inOut, inFaults>>
        /\ inNow' \in Nat /\ inNow <= inNow' /\ inNow \in Nat
    BY DEF RecordComes, IntakeTick, Outside, IntakeTypeOK
  <1>2. /\ inAnswers' \in Seq(AnswerRecords) /\ Len(inAnswers) <= Len(inAnswers')
        /\ Len(inAnswers) \in Nat /\ Len(inAnswers') \in Nat
        /\ \A n \in 1..Len(inAnswers) : inAnswers'[n] = inAnswers[n]
    <2>1. inAnswers \in Seq(AnswerRecords)
      BY DEF IntakeTypeOK
    <2>2. CASE RecordComes
      <3>1. PICK r \in AnswerRecords : inAnswers' = Append(inAnswers, r)
        BY <2>2 DEF RecordComes
      <3>2. QED
        BY <2>1, <3>1
    <2>3. CASE IntakeTick
      BY <2>1, <2>3 DEF IntakeTick
    <2>4. QED
      BY <2>2, <2>3
  <1>3. IntakeTypeOK'
    BY <1>1, <1>2 DEF IntakeTypeOK
  <1>4. OnePerKey' /\ Working' /\ RowsSound'
    BY <1>1 DEF OnePerKey, Working, RowsSound, Skips, Row
  <1>5. WasOffered'
    <2>1. \A a \in Artifacts : inOffered[a].first \in Nat
      BY DEF IntakeTypeOK
    <2>2. QED
      BY <1>1, <2>1 DEF WasOffered, OfferedBy, InList
  <1>6. CreditLeft'
    BY <1>1 DEF CreditLeft, MayComeOut, InList, Rivalled, Skips, Row
  <1>7. AdmittedIsPublished' /\ PublishedPerOffer' /\ RefusalWaits'
    BY <1>1 DEF ArtifactsKept, AdmittedIsPublished, PublishedPerOffer, RefusalWaits
  <1>8. KnownIsNotRefused'
    <2> SUFFICES ASSUME inPhase = "store", IsUnknown(inDecision), NEW n \in 1..inHigh
                 PROVE  inAnswers'[n].id # RefOf[inDecision.artifact]
      BY <1>1 DEF KnownIsNotRefused, IsUnknown
    <2>1. n \in 1..Len(inAnswers)
      BY <1>2 DEF IntakeTypeOK
    <2>2. QED
      BY <1>2, <2>1 DEF ArtifactsKept, KnownIsNotRefused
  <1>9. QED
    BY <1>3, <1>4, <1>5, <1>6, <1>7, <1>8 DEF ArtifactsKept

LEMMA IntakeInvStep == IntakeInv /\ [IntakeNext]_intakeVars => IntakeInv'
  <1> SUFFICES ASSUME IntakeInv, [IntakeNext]_intakeVars PROVE IntakeInv'
    OBVIOUS
  <1>1. CASE IntakeStarts \/ Drain \/ PollEnds
    BY <1>1, LoopKeeps
  <1>2. CASE PollList
    BY <1>2, PollKeeps
  <1>3. CASE DecideArtifact
    BY <1>3, DecideKeeps
  <1>4. CASE Publish
    BY <1>4, PublishKeeps
  <1>5. CASE Store
    BY <1>5, StoreKeeps
  <1>6. CASE IntakeDies
    BY <1>6, DiesKeeps
  <1>7. CASE RecordComes \/ IntakeTick
    BY <1>7, WorldKeeps
  <1>8. ASSUME NEW a \in Artifacts, Offers(a) PROVE IntakeInv'
    BY <1>8, OffersKeeps
  <1>9. CASE UNCHANGED intakeVars
    BY <1>9 DEF IntakeInv, IntakeTypeOK, OnePerKey, Working, WasOffered, OfferedBy, RowsSound, CreditLeft,
       MayComeOut, InList, Rivalled, Skips, Row, ArtifactsKept, AdmittedIsPublished, PublishedPerOffer,
       RefusalWaits, KnownIsNotRefused, IsUnknown, intakeVars, worldVars
  <1>10. QED
    BY <1>1, <1>2, <1>3, <1>4, <1>5, <1>6, <1>7, <1>8, <1>9 DEF IntakeNext

-----------------------------------------------------------------------------
(* The theorems. *)

\* Intake keeps its types, whatever is offered and answered and whenever it dies.
THEOREM IntakeTypes == IntakeSpec => []IntakeTypeOK
  <1>1. IntakeInv => IntakeTypeOK
    BY DEF IntakeInv
  <1>2. QED
    BY <1>1, IntakeInvInit, IntakeInvStep, PTL DEF IntakeSpec

\* For all artifacts, keys and timeouts, and any number of faults: what the table
\* calls admitted is in the onward topic, an artifact comes out once per offer and
\* fault at the most, no refusal as unknown is final before the timeout, and none is
\* made about a record that was there when the process started (_process_artifact,
\* decide_artifact).
THEOREM IntakeKeepsArtifacts == IntakeSpec => []ArtifactsKept
  <1>1. IntakeInv => ArtifactsKept
    BY DEF IntakeInv
  <1>2. QED
    BY <1>1, IntakeInvInit, IntakeInvStep, PTL DEF IntakeSpec

-----------------------------------------------------------------------------
(* A session at the gateway.  The inductive invariant adds to the types and *)
(* to what is proved: how late a copy or the session can expire (LateInv), *)
(* what a lookup in a call has seen (CallInv), and what a refusal that is on *)
(* its way says (RejectInv).                                               *)

\* The ceiling, and the last time at which a deferral may let a session expire.
Ceiling == 1 + SessionCeiling
Late == Ceiling + CallTime + RenewRetry

\* The ceiling never moves, and no deferral sets expires beyond Late.
LateInv ==
    /\ ssSession.hard = Ceiling /\ ssSession.expires <= Late
    /\ \A l \in Lookups : ssLookups[l].phase = "looked" =>
          ssLookups[l].snapshot.hard = Ceiling /\ ssLookups[l].snapshot.expires <= Late

\* A call was begun under the ceiling, by a lookup that was not idle, and lasts
\* no longer than CallTime.
CallInv ==
    \A l \in Lookups : InACall(l) =>
        /\ ssLookups[l].at <= Ceiling /\ ssNow <= ssLookups[l].at + CallTime
        /\ ssSliding => ssLookups[l].at <= ssLookups[l].snapshot.active + SessionIdle

\* A refusal on its way is of a revoked grant or of a token that is too old.
RejectInv ==
    \A l \in Lookups :
        ssLookups[l].phase = "answered" /\ ssLookups[l].answer.kind = "rejected" /\ ~Rotates =>
            ssGrant = 0 \/ ssNow > ssLookups[l].snapshot.until

\* A lookup was served in time.
WasInTime(l) ==
    ssLookups[l].phase = "served" =>
        /\ ssLookups[l].at <= Late
        /\ ssSliding => ssLookups[l].at <= ssLookups[l].snapshot.active + SessionIdle + CallTime

SessionsInv ==
    /\ SessionsTypeOK /\ LateInv /\ CallInv /\ RejectInv
    /\ EndedStaysEnded /\ RefusalIsReal /\ \A l \in Lookups : WasInTime(l)

-----------------------------------------------------------------------------
(* The operators. *)

LEMMA LeastBounds ==
    ASSUME NEW a \in Nat, NEW b \in Nat
    PROVE  LeastOf(a, b) \in Nat /\ LeastOf(a, b) <= a /\ LeastOf(a, b) <= b
  BY DEF LeastOf

LEMMA NoLookupTypes ==
    /\ NoLookup \in LookupRecords /\ NoLookup.phase = "idle"
    /\ Unserved \in LookupRecords /\ Unserved.phase = "refused"
  BY DEF NoLookup, NoCopy, NoAnswerYet, Unserved, LookupRecords, Copies, Answers, AnswerKinds

LEMMA ServedTypes ==
    ASSUME NEW active \in Nat, ssNow \in Nat
    PROVE  /\ Served(active) \in LookupRecords /\ Served(active).phase = "served"
           /\ Served(active).at = ssNow /\ Served(active).snapshot.active = active
  BY DEF Served, NoLookup, NoCopy, NoAnswerYet, LookupRecords, Copies, Answers, AnswerKinds

LEMMA NowTypes == SessionsTypeOK => ssNow \in Nat /\ ssNow <= MaxSessionNow
  BY SessionsAssumption DEF SessionsTypeOK

-----------------------------------------------------------------------------
(* The invariant. *)

LEMMA SessionsInvInit == SessionsInit => SessionsInv
  <1> SUFFICES ASSUME SessionsInit PROVE SessionsInv
    OBVIOUS
  <1>1. PICK until \in {0, 1 + RefreshLife} : ssSession = NewSession(until)
    BY DEF SessionsInit
  <1>2. /\ ssSession \in Copies /\ ssSession.hard = Ceiling /\ ssSession.expires <= Late
    <2>1. /\ 1 + SessionCeiling \in Nat /\ 1 + TokenLife \in Nat /\ until \in Nat
          /\ CallTime \in Nat /\ RenewRetry \in Nat
      BY <1>1, SessionsAssumption
    <2>2. /\ LeastOf(1 + SessionCeiling, 1 + TokenLife) \in Nat
          /\ LeastOf(1 + SessionCeiling, 1 + TokenLife) <= 1 + SessionCeiling
      BY <2>1, LeastBounds
    <2>3. QED
      BY <1>1, <2>1, <2>2 DEF NewSession, Copies, Ceiling, Late
  <1>3. \A l \in Lookups : ssLookups[l] = NoLookup
    BY DEF SessionsInit
  <1>4. SessionsTypeOK
    BY <1>2, NoLookupTypes, SessionsAssumption DEF SessionsInit, SessionsTypeOK, NotEnded, EndRecords, Reasons, AnswerKinds
  <1>5. LateInv /\ CallInv /\ RejectInv /\ \A l \in Lookups : WasInTime(l)
    BY <1>2, <1>3, NoLookupTypes DEF LateInv, CallInv, RejectInv, WasInTime, InACall
  <1>6. EndedStaysEnded /\ RefusalIsReal
    BY DEF SessionsInit, EndedStaysEnded, RefusalIsReal, NotEnded
  <1>7. QED
    BY <1>4, <1>5, <1>6 DEF SessionsInv

\* A lookup that begins has a copy of the session, or finds none.
LEMMA LookUpKeeps ==
    ASSUME SessionsInv, NEW l \in Lookups, LookUp(l)
    PROVE  SessionsInv'
  <1> USE DEF SessionsInv
  <1>1. PICK touch \in {FALSE, ssSliding} :
            ssLookups' = [ssLookups EXCEPT ![l] =
                IF ssLive THEN [NoLookup EXCEPT !.phase = "looked", !.touch = touch, !.snapshot = ssSession]
                ELSE Unserved]
    BY DEF LookUp
  <1> DEFINE copy == [NoLookup EXCEPT !.phase = "looked", !.touch = touch, !.snapshot = ssSession]
  <1>2. copy \in LookupRecords /\ copy.phase = "looked" /\ copy.snapshot = ssSession
    BY DEF SessionsTypeOK, NoLookup, NoAnswerYet, NoCopy, LookupRecords, Answers, AnswerKinds
  <1>3. /\ UNCHANGED <<ssNow, ssSliding, ssLive, ssSession, ssEnd, ssGrant>>
        /\ \A m \in Lookups : m # l => ssLookups'[m] = ssLookups[m]
        /\ ssLookups'[l] \in {copy, Unserved}
    BY <1>1 DEF LookUp, SessionsTypeOK
  <1>4. SessionsTypeOK'
    BY <1>1, <1>2, <1>3, NoLookupTypes DEF SessionsTypeOK
  <1>5. LateInv' /\ CallInv' /\ RejectInv' /\ (\A m \in Lookups : WasInTime(m))'
    BY <1>2, <1>3, NoLookupTypes DEF LateInv, CallInv, RejectInv, WasInTime, InACall
  <1>6. EndedStaysEnded' /\ RefusalIsReal'
    BY <1>3 DEF EndedStaysEnded, RefusalIsReal
  <1>7. QED
    BY <1>4, <1>5, <1>6

\* What an end leaves.
LEMMA EndsKeeps ==
    ASSUME SessionsInv, NEW s \in Copies, NEW why \in Reasons \ {"none"}, NEW by \in AnswerKinds,
           Ends(why, by, s), ssNow' = ssNow, ssGrant' = ssGrant,
           why = "refresh_rejected" /\ ~Rotates => ssGrant = 0 \/ ssNow > s.until
    PROVE  /\ ssLive' = FALSE /\ EndedStaysEnded' /\ RefusalIsReal'
           /\ ssEnd' \in EndRecords
  <1>1. ssLive' = FALSE /\ ssEnd' = IF ssLive THEN [why |-> why, by |-> by, at |-> ssNow, until |-> s.until] ELSE ssEnd
    BY DEF Ends
  <1>2. ssNow \in Nat /\ s.until \in Nat
    BY NowTypes DEF SessionsInv, Copies
  <1>3. QED
    BY <1>1, <1>2 DEF SessionsInv, SessionsTypeOK, EndRecords, EndedStaysEnded, RefusalIsReal, NotEnded

\* A judged copy is served in time, called with under the ceiling, or over.
LEMMA JudgeKeeps ==
    ASSUME SessionsInv, NEW l \in Lookups, Judge(l)
    PROVE  SessionsInv'
  <1> USE DEF SessionsInv
  <1> DEFINE look == ssLookups[l]
             s == look.snapshot
             active == IF ssSliding /\ look.touch THEN ssNow ELSE s.active
             calling == [look EXCEPT !.phase = "calling", !.at = ssNow, !.snapshot.active = active]
  <1>1. /\ look \in LookupRecords /\ s \in Copies /\ s.active \in Nat /\ s.expires \in Nat /\ s.hard \in Nat
        /\ look.phase = "looked" /\ ssNow \in Nat /\ active \in Nat
    BY NowTypes DEF Judge, SessionsTypeOK, LookupRecords, Copies
  <1>2. s.hard = Ceiling /\ s.expires <= Late
    BY <1>1 DEF LateInv
  <1>3. /\ calling \in LookupRecords /\ calling.phase = "calling" /\ calling.at = ssNow
        /\ calling.snapshot.active = active
    BY <1>1 DEF LookupRecords, Copies
  <1>4. /\ Served(active) \in LookupRecords /\ Served(active).phase = "served"
        /\ Served(active).at = ssNow /\ Served(active).snapshot.active = active
    BY <1>1, ServedTypes
  <1>5. /\ UNCHANGED <<ssNow, ssSliding, ssGrant>>
        /\ \/ IsIdle(s) /\ Ends("idle", "none", s) /\ ssLookups' = [ssLookups EXCEPT ![l] = Unserved]
           \/ ~IsIdle(s) /\ Renews(s) /\ Lives /\ ssLookups' = [ssLookups EXCEPT ![l] = calling]
           \/ ~IsIdle(s) /\ Serves(s) /\ Lives /\ ssLookups' = [ssLookups EXCEPT ![l] = Served(active)]
           \/ Ends(Reason(s), "none", s) /\ ssLookups' = [ssLookups EXCEPT ![l] = Unserved]
    BY DEF Judge
  <1>6. ssSession' \in Copies /\ ssSession'.hard = ssSession.hard /\ ssSession'.expires = ssSession.expires
    BY <1>1 DEF Judge, SessionsTypeOK, Copies
  <1>7. ~IsIdle(s) /\ ssSliding => ssNow <= active + SessionIdle
    BY <1>1, SessionsAssumption DEF IsIdle
  <1>8. Renews(s) => ssNow <= Ceiling
    BY <1>1, <1>2, SessionsAssumption DEF Renews, CannotRenew, Ceiling
  <1>9. Serves(s) => ssNow <= Late
    BY <1>1, <1>2, SessionsAssumption DEF Serves, Late, Ceiling
  <1>10. Reason(s) \in {"ceiling", "no_refresh"}
    BY DEF Reason
  <1>11. /\ EndedStaysEnded' /\ RefusalIsReal' /\ ssLive' \in BOOLEAN
         /\ ssEnd' \in EndRecords
    <2>1. CASE Ends("idle", "none", s) \/ Ends(Reason(s), "none", s)
      BY <1>1, <1>5, <1>10, <2>1, EndsKeeps DEF Reasons, AnswerKinds
    <2>2. CASE Lives
      BY <1>5, <2>2 DEF Lives, EndedStaysEnded, RefusalIsReal, SessionsTypeOK
    <2>3. QED
      BY <1>5, <2>1, <2>2
  <1>12. PICK to \in LookupRecords :
            /\ ssLookups' = [ssLookups EXCEPT ![l] = to]
            /\ to.phase \in {"refused", "calling", "served"}
            /\ to.phase = "calling" =>
                  /\ to.at = ssNow /\ to.at <= Ceiling
                  /\ ssSliding => to.at <= to.snapshot.active + SessionIdle
            /\ to.phase = "served" =>
                  /\ to.at = ssNow /\ to.at <= Late
                  /\ ssSliding => to.at <= to.snapshot.active + SessionIdle
    <2>1. CASE ssLookups' = [ssLookups EXCEPT ![l] = Unserved]
      BY <2>1, NoLookupTypes
    <2>2. CASE ~IsIdle(s) /\ Renews(s) /\ ssLookups' = [ssLookups EXCEPT ![l] = calling]
      <3> HIDE DEF calling, active
      <3> QED
        BY <1>3, <1>7, <1>8, <2>2
    <2>3. CASE ~IsIdle(s) /\ Serves(s) /\ ssLookups' = [ssLookups EXCEPT ![l] = Served(active)]
      <3> HIDE DEF active
      <3> QED
        BY <1>4, <1>7, <1>9, <2>3
    <2>4. QED
      BY <1>5, <2>1, <2>2, <2>3
  <1> HIDE DEF look, s, active, calling
  <1>13. /\ ssLookups' \in [Lookups -> LookupRecords] /\ ssLookups'[l] = to
         /\ \A m \in Lookups : m # l => ssLookups'[m] = ssLookups[m]
    BY <1>12 DEF SessionsTypeOK
  <1>14. SessionsTypeOK'
    BY <1>5, <1>6, <1>11, <1>13 DEF SessionsTypeOK
  <1>15. LateInv' /\ RejectInv'
    BY <1>5, <1>6, <1>12, <1>13 DEF LateInv, RejectInv
  <1>16. CallInv'
    BY <1>1, <1>5, <1>12, <1>13, SessionsAssumption DEF CallInv, InACall
  <1>17. (\A m \in Lookups : WasInTime(m))'
    <2>1. to.phase = "served" /\ ssSliding => to.at <= to.snapshot.active + SessionIdle + CallTime
      <3>1. to.at \in Nat /\ to.snapshot.active \in Nat
        BY <1>12 DEF LookupRecords, Copies
      <3>2. QED
        BY <1>12, <3>1, SessionsAssumption
    <2>2. QED
      BY <1>5, <1>12, <1>13, <2>1 DEF WasInTime
  <1>18. QED
    BY <1>11, <1>14, <1>15, <1>16, <1>17

\* The provider's answer is on its way, and a refusal has its reason.
LEMMA ProviderKeeps ==
    ASSUME SessionsInv, NEW l \in Lookups, ProviderAnswers(l)
    PROVE  SessionsInv'
  <1> USE DEF SessionsInv
  <1> DEFINE s == ssLookups[l].snapshot
             takes == ssGrant # 0 /\ ssNow <= s.until /\ (Rotates => s.token = ssGrant)
             newest == IF Rotates THEN ssGrant + 1 ELSE ssGrant
             Brings(answer) == ssLookups' = [ssLookups EXCEPT ![l].phase = "answered", ![l].answer = answer]
  <1>1. /\ ssLookups[l] \in LookupRecords /\ ssLookups[l].phase = "calling" /\ ssNow \in Nat
        /\ s.until \in Nat /\ ssGrant \in Nat /\ newest \in Nat
        /\ UNCHANGED <<ssNow, ssSliding, ssLive, ssSession, ssEnd>>
    BY NowTypes DEF ProviderAnswers, SessionsTypeOK, LookupRecords, Copies
  <1>2. PICK answer \in Answers :
            /\ Brings(answer)
            /\ answer.kind = "rejected" => ~takes
            /\ ssGrant' \in Nat /\ (ssGrant = 0 => ssGrant' = 0)
            /\ answer.kind = "rejected" => ssGrant' = ssGrant
    <2>1. CASE \E kind \in {"renewed", "other", "bent"}, life \in {0, RefreshLife} :
                  /\ takes /\ ssGrant' = newest
                  /\ Brings([kind |-> kind, exp |-> ssNow + TokenLife, life |-> life, token |-> newest])
      <3>1. PICK kind \in {"renewed", "other", "bent"}, life \in {0, RefreshLife} :
                /\ takes /\ ssGrant' = newest
                /\ Brings([kind |-> kind, exp |-> ssNow + TokenLife, life |-> life, token |-> newest])
        BY <2>1
      <3>2. [kind |-> kind, exp |-> ssNow + TokenLife, life |-> life, token |-> newest] \in Answers
        BY <1>1, SessionsAssumption DEF Answers, AnswerKinds
      <3>3. QED
        BY <1>1, <3>1, <3>2
    <2>2. CASE ~takes /\ Brings([NoAnswerYet EXCEPT !.kind = "rejected"]) /\ UNCHANGED ssGrant
      <3>1. [NoAnswerYet EXCEPT !.kind = "rejected"] \in Answers
        BY DEF NoAnswerYet, Answers, AnswerKinds
      <3>2. QED
        BY <1>1, <2>2, <3>1
    <2>3. CASE /\ Brings([NoAnswerYet EXCEPT !.kind = "unreachable"])
               /\ ssGrant' \in {ssGrant} \cup (IF takes THEN {newest} ELSE {})
      <3>1. /\ [NoAnswerYet EXCEPT !.kind = "unreachable"] \in Answers
            /\ [NoAnswerYet EXCEPT !.kind = "unreachable"].kind = "unreachable"
        BY DEF NoAnswerYet, Answers, AnswerKinds
      <3>2. QED
        BY <1>1, <2>3, <3>1
    <2>4. QED
      BY <2>1, <2>2, <2>3 DEF ProviderAnswers
  <1>3. /\ ssLookups' \in [Lookups -> LookupRecords]
        /\ ssLookups'[l].phase = "answered" /\ ssLookups'[l].answer = answer
        /\ ssLookups'[l].snapshot = ssLookups[l].snapshot /\ ssLookups'[l].at = ssLookups[l].at
        /\ \A m \in Lookups : m # l => ssLookups'[m] = ssLookups[m]
    BY <1>1, <1>2 DEF SessionsTypeOK, LookupRecords
  <1>4. ~takes /\ ~Rotates => ssGrant = 0 \/ ssNow > s.until
    BY <1>1
  <1> HIDE DEF takes, newest, Brings
  <1>5. SessionsTypeOK'
    BY <1>1, <1>2, <1>3 DEF SessionsTypeOK
  <1>6. LateInv' /\ CallInv' /\ (\A m \in Lookups : WasInTime(m))'
    BY <1>1, <1>3 DEF LateInv, CallInv, InACall, WasInTime
  <1>7. RejectInv'
    BY <1>1, <1>2, <1>3, <1>4 DEF RejectInv
  <1>8. EndedStaysEnded' /\ RefusalIsReal'
    BY <1>1, <1>2 DEF EndedStaysEnded, RefusalIsReal
  <1>9. QED
    BY <1>5, <1>6, <1>7, <1>8

\* A handled answer ends the session, finds it gone, or renews or defers it: in
\* time, and never past Late.
LEMMA HandleKeeps ==
    ASSUME SessionsInv, NEW l \in Lookups, HandleAnswer(l)
    PROVE  SessionsInv'
  <1> USE DEF SessionsInv
  <1> DEFINE look == ssLookups[l]
             s == look.snapshot
             by == look.answer.kind
             why == IF by = "rejected" THEN "refresh_rejected" ELSE "subject_mismatch"
  <1>1. /\ look \in LookupRecords /\ s \in Copies /\ s.active \in Nat /\ s.until \in Nat /\ look.at \in Nat
        /\ look.answer.exp \in Nat /\ look.answer.life \in Nat /\ look.answer.token \in Nat
        /\ look.phase = "answered" /\ by \in AnswerKinds /\ ssNow \in Nat
        /\ UNCHANGED <<ssNow, ssSliding, ssGrant>>
    BY NowTypes DEF HandleAnswer, SessionsTypeOK, LookupRecords, Copies, Answers, AnswerKinds
  <1>2. /\ look.at <= Ceiling /\ ssNow <= look.at + CallTime
        /\ ssSliding => look.at <= s.active + SessionIdle
    BY <1>1 DEF CallInv, InACall
  <1>3. /\ ssNow <= Late
        /\ ssSliding => ssNow <= s.active + SessionIdle + CallTime
        /\ ssNow + RenewRetry <= Late /\ ssNow + RenewRetry \in Nat
    BY <1>1, <1>2, SessionsAssumption DEF Late, Ceiling
  <1>4. /\ Served(s.active) \in LookupRecords /\ Served(s.active).phase = "served"
        /\ Served(s.active).at = ssNow /\ Served(s.active).snapshot.active = s.active
    BY <1>1, ServedTypes
  <1>5. \/ Ends(why, by, s) /\ UNCHANGED ssSession
           /\ ssLookups' = [ssLookups EXCEPT ![l] = Unserved]
        \/ Lives /\ UNCHANGED ssSession /\ ssLookups' = [ssLookups EXCEPT ![l] = Unserved]
        \/ /\ ssLive /\ ssLive' = TRUE /\ UNCHANGED ssEnd
           /\ ssLookups' = [ssLookups EXCEPT ![l] = Served(s.active)]
           /\ ssSession' = IF look.answer.kind = "renewed" THEN TakenBy(look)
                           ELSE [ssSession EXCEPT !.expires = ssNow + RenewRetry]
    BY DEF HandleAnswer, StillThere
  <1>6. /\ ssSession' \in Copies /\ ssSession'.hard = Ceiling /\ ssSession'.expires <= Late
    <2>1. ssSession \in Copies /\ ssSession.hard = Ceiling /\ ssSession.expires <= Late
      BY DEF SessionsTypeOK, LateInv
    <2>2. TakenBy(look) \in Copies /\ TakenBy(look).hard = Ceiling /\ TakenBy(look).expires <= Late
      <3>1. /\ look.at + SessionCeiling \in Nat /\ Ceiling \in Nat /\ Ceiling <= Late /\ Late \in Nat
        BY <1>1, SessionsAssumption DEF Ceiling, Late
      <3> DEFINE least == LeastOf(LeastOf(look.at + SessionCeiling, look.answer.exp), ssSession.hard)
                 until == IF look.answer.life > 0 THEN look.at + look.answer.life ELSE s.until
      <3>2. least \in Nat /\ least <= Ceiling
        BY <1>1, <2>1, <3>1, LeastBounds
      <3>3. until \in Nat
        BY <1>1
      <3>4. TakenBy(look) = [ssSession EXCEPT !.token = look.answer.token, !.until = until, !.expires = least]
        BY DEF TakenBy
      <3>5. look.answer.token \in Nat
        BY <1>1
      <3> HIDE DEF least, until, look, s
      <3> DEFINE taken == [ssSession EXCEPT !.token = look.answer.token, !.until = until, !.expires = least]
      <3>6. taken \in Copies /\ taken.hard = ssSession.hard /\ taken.expires = least
        BY ONLY <2>1, <3>2, <3>3, <3>5 DEF Copies
      <3>7. QED
        BY <2>1, <3>1, <3>2, <3>4, <3>6
    <2>3. LET deferred == [ssSession EXCEPT !.expires = ssNow + RenewRetry]
          IN deferred \in Copies /\ deferred.hard = Ceiling /\ deferred.expires <= Late
      BY <1>3, <2>1 DEF Copies
    <2>4. QED
      BY <1>5, <2>1, <2>2, <2>3
  <1>7. /\ EndedStaysEnded' /\ RefusalIsReal' /\ ssLive' \in BOOLEAN
        /\ ssEnd' \in EndRecords
    <2>1. CASE Ends(why, by, s)
      <3>1. why = "refresh_rejected" /\ ~Rotates => ssGrant = 0 \/ ssNow > s.until
        BY <1>1 DEF RejectInv
      <3>2. why \in Reasons \ {"none"}
        BY DEF Reasons
      <3> HIDE DEF why, by, look, s
      <3>3. QED
        BY <1>1, <2>1, <3>1, <3>2, EndsKeeps
    <2>2. CASE Lives
      BY <1>1, <2>2 DEF Lives, EndedStaysEnded, RefusalIsReal, SessionsTypeOK
    <2>3. CASE ssLive /\ ssLive' = TRUE /\ UNCHANGED ssEnd
      BY <1>1, <2>3 DEF EndedStaysEnded, RefusalIsReal, SessionsTypeOK
    <2>4. QED
      BY <1>5, <2>1, <2>2, <2>3
  <1>8. PICK to \in LookupRecords :
            /\ ssLookups' = [ssLookups EXCEPT ![l] = to]
            /\ to.phase \in {"refused", "served"}
            /\ to.phase = "served" =>
                  /\ to.at <= Late
                  /\ ssSliding => to.at <= to.snapshot.active + SessionIdle + CallTime
    BY <1>3, <1>4, <1>5, NoLookupTypes
  <1> HIDE DEF look, s, why, by
  <1>9. /\ ssLookups' \in [Lookups -> LookupRecords] /\ ssLookups'[l] = to
        /\ \A m \in Lookups : m # l => ssLookups'[m] = ssLookups[m]
    BY <1>8 DEF SessionsTypeOK
  <1>10. SessionsTypeOK'
    BY <1>1, <1>6, <1>7, <1>9 DEF SessionsTypeOK
  <1>11. LateInv' /\ RejectInv' /\ CallInv' /\ (\A m \in Lookups : WasInTime(m))'
    BY <1>1, <1>6, <1>8, <1>9 DEF LateInv, RejectInv, CallInv, InACall, WasInTime
  <1>12. QED
    BY <1>7, <1>10, <1>11

\* A sign-out and the sweep only end the session; the provider's end only
\* explains a later refusal.
LEMMA OutsideKeeps ==
    ASSUME SessionsInv, SignOut \/ Sweep \/ Revoke
    PROVE  SessionsInv'
  <1> USE DEF SessionsInv
  <1>1. /\ UNCHANGED <<ssNow, ssSliding, ssSession, ssLookups>>
        /\ ssGrant' = ssGrant \/ ssGrant' = 0
    BY DEF SignOut, Sweep, Revoke
  <1>2. /\ EndedStaysEnded' /\ RefusalIsReal' /\ ssLive' \in BOOLEAN
        /\ ssEnd' \in EndRecords
    <2>1. CASE SignOut \/ Sweep
      <3>1. PICK why \in {"idle", "ceiling", "no_refresh", "signed_out"} : Ends(why, "none", ssSession)
        BY <2>1 DEF SignOut, Sweep
      <3>2. ssSession \in Copies /\ UNCHANGED <<ssNow, ssGrant>>
        BY <2>1 DEF SignOut, Sweep, SessionsTypeOK
      <3>3. QED
        BY <3>1, <3>2, EndsKeeps DEF Reasons, AnswerKinds
    <2>2. CASE Revoke
      BY <2>2 DEF Revoke, EndedStaysEnded, RefusalIsReal, SessionsTypeOK
    <2>3. QED
      BY <2>1, <2>2
  <1>3. SessionsTypeOK'
    BY <1>1, <1>2 DEF SessionsTypeOK
  <1>4. LateInv' /\ CallInv' /\ RejectInv' /\ (\A l \in Lookups : WasInTime(l))'
    BY <1>1 DEF LateInv, CallInv, RejectInv, WasInTime, InACall
  <1>5. QED
    BY <1>2, <1>3, <1>4

\* Time passes only while every call has time left, and makes no refusal unreal.
LEMMA TickKeeps ==
    ASSUME SessionsInv, SessionTick
    PROVE  SessionsInv'
  <1> USE DEF SessionsInv
  <1>1. /\ ssNow \in Nat /\ ssNow' = ssNow + 1 /\ ssNow < MaxSessionNow
        /\ UNCHANGED <<ssSliding, ssLive, ssSession, ssEnd, ssGrant, ssLookups>>
        /\ \A l \in Lookups : InACall(l) => ssNow < ssLookups[l].at + CallTime
    BY NowTypes DEF SessionTick
  <1>2. \A l \in Lookups : ssLookups[l].at \in Nat /\ ssLookups[l].snapshot.until \in Nat
    BY DEF SessionsTypeOK, LookupRecords, Copies
  <1>3. SessionsTypeOK'
    BY <1>1, SessionsAssumption DEF SessionsTypeOK
  <1>4. CallInv'
    <2>1. ASSUME NEW l \in Lookups, InACall(l)
          PROVE  /\ ssLookups[l].at <= Ceiling /\ ssNow' <= ssLookups[l].at + CallTime
                 /\ ssSliding => ssLookups[l].at <= ssLookups[l].snapshot.active + SessionIdle
      <3>1. ssNow + 1 <= ssLookups[l].at + CallTime
        BY <1>1, <1>2, <2>1, SessionsAssumption
      <3>2. QED
        BY <1>1, <2>1, <3>1 DEF CallInv
    <2>2. QED
      BY <1>1, <2>1 DEF CallInv, InACall
  <1>5. RejectInv'
    BY <1>1, <1>2 DEF RejectInv
  <1>6. LateInv' /\ EndedStaysEnded' /\ RefusalIsReal' /\ (\A l \in Lookups : WasInTime(l))'
    BY <1>1 DEF LateInv, EndedStaysEnded, RefusalIsReal, WasInTime
  <1>7. QED
    BY <1>3, <1>4, <1>5, <1>6

LEMMA SessionsInvStep == SessionsInv /\ [SessionsNext]_sessionsVars => SessionsInv'
  <1> SUFFICES ASSUME SessionsInv, [SessionsNext]_sessionsVars PROVE SessionsInv'
    OBVIOUS
  <1>1. ASSUME NEW l \in Lookups, LookUp(l) PROVE SessionsInv'
    BY <1>1, LookUpKeeps
  <1>2. ASSUME NEW l \in Lookups, Judge(l) PROVE SessionsInv'
    BY <1>2, JudgeKeeps
  <1>3. ASSUME NEW l \in Lookups, ProviderAnswers(l) PROVE SessionsInv'
    BY <1>3, ProviderKeeps
  <1>4. ASSUME NEW l \in Lookups, HandleAnswer(l) PROVE SessionsInv'
    BY <1>4, HandleKeeps
  <1>5. CASE SignOut \/ Sweep \/ Revoke
    BY <1>5, OutsideKeeps
  <1>6. CASE SessionTick
    BY <1>6, TickKeeps
  <1>7. CASE UNCHANGED sessionsVars
    BY <1>7 DEF sessionsVars, SessionsInv, SessionsTypeOK, LateInv, CallInv, RejectInv, EndedStaysEnded,
                RefusalIsReal, WasInTime, InACall
  <1>8. QED
    BY <1>1, <1>2, <1>3, <1>4, <1>5, <1>6, <1>7 DEF SessionsNext

\* What the invariant says of the session, to its readers.
LEMMA SessionsInvKept == SessionsInv => SessionsKept
  <1> SUFFICES ASSUME SessionsInv PROVE SessionsKept
    OBVIOUS
  <1>1. ASSUME NEW l \in Lookups, ssLookups[l].phase = "served"
        PROVE  /\ ssLookups[l].at <= ssSession.hard + CallTime + RenewRetry
               /\ ssSliding => ssLookups[l].at <= ssLookups[l].snapshot.active + SessionIdle + CallTime
    BY <1>1 DEF SessionsInv, WasInTime, LateInv, Late
  <1>2. QED
    BY <1>1 DEF SessionsInv, SessionsKept, ServedInTime

-----------------------------------------------------------------------------
(* The theorems. *)

\* The session's invariant holds of every behaviour, for any number of lookups
\* and any lifetimes.
THEOREM SessionsInvariant == SessionsSpec => []SessionsInv
  <1>1. SessionsInit => SessionsInv
    BY SessionsInvInit
  <1>2. SessionsInv /\ [SessionsNext]_sessionsVars => SessionsInv'
    BY SessionsInvStep
  <1>3. QED
    BY <1>1, <1>2, PTL DEF SessionsSpec

\* A session ends for good, in time, and is refused only when its grant was revoked
\* or its refresh token too old, at a provider that takes a token more than once
\* (get_session, destroy_session, _sweep_sessions).
THEOREM SessionsAreKept == SessionsSpec => []SessionsKept
  BY SessionsInvariant, SessionsInvKept, PTL

=============================================================================
