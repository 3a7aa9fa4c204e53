----------------------------------- MODULE Gate -----------------------------------
(***************************************************************************)
(* The release gate (egress/main.py, routes.py, delivery.py, gate.py): one *)
(* process that asks the policy decision point what each route's           *)
(* destination may have, decides every record of its topic for every       *)
(* route, sends the admitted ones to the routes' sinks and commits.  The   *)
(* answers are asked again at an interval, between records.                *)
(*                                                                         *)
(* A record is its audience: a record that is marked, without a label or   *)
(* not of the route's schema is refused whatever the answer, as one        *)
(* without an audience is, and has none here.  The answer's accepts and    *)
(* subject_known are folded into its nations.  Left out: reasons, counts   *)
(* and the wording of the log.                                             *)
(***************************************************************************)
EXTENDS Naturals

CONSTANTS
    GateRoutes,     \* the routes, which share one source topic: natural numbers, in order
    GateNations,
    LastRecord,     \* the records are 1..LastRecord
    Audience,       \* Audience[n]: the audience of record n
    Undecodable,    \* records that decode refuses
    NotAnObject,    \* records that decode to JSON that is no object
    RefreshDelays,  \* how many retry_delays a refresh has
    MaxAnswers,     \* changes of the policy of a behaviour
    MaxStarts       \* starts of the process of a behaviour

GateRecords == 1..LastRecord

ASSUME GateAssumption ==
    /\ GateRoutes \subseteq Nat /\ RefreshDelays \in Nat /\ MaxAnswers \in Nat
    /\ MaxStarts \in Nat \ {0}
    /\ LastRecord \in Nat /\ Audience \in [GateRecords -> SUBSET GateNations]

VARIABLES
    gtPolicy,       \* the decision point's answers (external): [version, nations]
    gtPhase,        \* where the process is
    gtRunning,      \* _running
    gtGates,        \* gates: the answer each route's gate was compiled from
    gtFresh,        \* what this round of asking has brought
    gtAttempt,      \* refresh_gates' attempt
    gtAt,           \* the record the consumer polls next
    gtPending,      \* the routes that have yet to decide the polled record
    gtCommitted,    \* the group's committed offset: records up to it are not polled again
    gtLog,          \* the decision log: [record, route, version, allowed]
    gtSunk,         \* the records each route's sink has
    gtFloor,        \* history: the policy's version when the last round that was due began
    gtStarts

gateVars == <<gtPolicy, gtPhase, gtRunning, gtGates, gtFresh, gtAttempt, gtAt, gtPending,
              gtCommitted, gtLog, gtSunk, gtFloor, gtStarts>>

PolicyAnswers == [version : 1..(MaxAnswers + 1), nations : [GateRoutes -> SUBSET GateNations]]
RouteAnswers == [version : 1..(MaxAnswers + 1), nations : SUBSET GateNations]
NoAnswer == [version |-> 0, nations |-> {}]

GateTypeOK ==
    /\ gtPolicy \in PolicyAnswers /\ gtRunning \in BOOLEAN
    /\ gtPhase \in {"starting", "loop", "asking", "poll", "deciding", "dead"}
    /\ gtGates \in [GateRoutes -> RouteAnswers \cup {NoAnswer}]
    /\ gtFresh \in [GateRoutes -> RouteAnswers \cup {NoAnswer}]
    /\ gtAttempt \in 0..RefreshDelays /\ gtPending \subseteq GateRoutes
    /\ gtAt \in GateRecords \cup {0} /\ gtCommitted \in GateRecords \cup {0}
    /\ gtLog \subseteq [record : GateRecords, route : GateRoutes,
                        version : 1..(MaxAnswers + 1), allowed : BOOLEAN]
    /\ gtSunk \in [GateRoutes -> SUBSET GateRecords]
    /\ gtFloor \in 0..(MaxAnswers + 1) /\ gtStarts \in 1..MaxStarts

NoGates == [r \in GateRoutes |-> NoAnswer]

GateInit ==
    /\ gtPolicy = [version |-> 1, nations |-> [r \in GateRoutes |-> GateNations]]
    /\ gtPhase = "starting" /\ gtRunning = TRUE
    /\ gtGates = NoGates /\ gtFresh = NoGates /\ gtAttempt = 0
    /\ gtAt = 0 /\ gtPending = {} /\ gtCommitted = 0
    /\ gtLog = {} /\ gtSunk = [r \in GateRoutes |-> {}] /\ gtFloor = 0 /\ gtStarts = 1

-----------------------------------------------------------------------------
(* The answers. *)

AskedInOrder(r) == \A s \in GateRoutes : s < r => gtFresh[s] # NoAnswer
FreshWith(r) == [gtFresh EXCEPT ![r] = [version |-> gtPolicy.version, nations |-> gtPolicy.nations[r]]]
AllAnswered(answers) == \A r \in GateRoutes : answers[r] # NoAnswer

\* _build_gates and refresh_gates: a route after the other; the gates are
\* replaced when the last one has its answer, all of them or none.
AskRoute(r) ==
    /\ gtPhase \in {"starting", "asking"} /\ gtFresh[r] = NoAnswer /\ AskedInOrder(r)
    /\ IF AllAnswered(FreshWith(r))
       THEN /\ gtGates' = FreshWith(r) /\ gtFresh' = NoGates /\ gtAttempt' = 0
            /\ gtPhase' = IF gtPhase = "starting" THEN "loop" ELSE IF gtRunning THEN "poll" ELSE "dead"
       ELSE gtFresh' = FreshWith(r) /\ UNCHANGED <<gtGates, gtAttempt, gtPhase>>
    /\ UNCHANGED <<gtPolicy, gtRunning, gtAt, gtPending, gtCommitted, gtLog, gtSunk, gtFloor, gtStarts>>

\* [mutant] A refresh that was stopped goes on to the poll, with its old gates.
PolledOnce(running) == "poll"

\* What follows a wait of the refresh: SIGTERM ends it, and then the loop.
AfterWait(running) == IF running THEN "asking" ELSE "dead"

\* [mutant] A wait too many is looked for.
RefreshOverLate == gtAttempt > RefreshDelays

\* A refresh has no wait left.
RefreshOver == gtAttempt = RefreshDelays

\* An ask fails.  At the start the process ends (the asks that a start repeats
\* are those of load_registry_versions, before the gates'); a refresh begins
\* its round again after a wait, as long as it has one.
AskFails ==
    /\ gtPhase \in {"starting", "asking"} /\ gtFresh' = NoGates
    /\ IF gtPhase = "starting" \/ RefreshOver
       THEN gtPhase' = "dead" /\ gtAttempt' = 0
       ELSE /\ gtPhase' = AfterWait(gtRunning)
            /\ gtAttempt' = IF gtRunning THEN gtAttempt + 1 ELSE 0
    /\ UNCHANGED <<gtPolicy, gtRunning, gtGates, gtAt, gtPending, gtCommitted, gtLog, gtSunk,
                   gtFloor, gtStarts>>

-----------------------------------------------------------------------------
(* The loop. *)

\* The top of the loop: a refresh that is due, or not; or the end.
Loop ==
    /\ gtPhase = "loop"
    /\ \/ gtRunning /\ gtPhase' = "asking" /\ gtFloor' = gtPolicy.version
       \/ gtRunning /\ gtPhase' = "poll" /\ UNCHANGED gtFloor
       \/ ~gtRunning /\ gtPhase' = "dead" /\ UNCHANGED gtFloor
    /\ UNCHANGED <<gtPolicy, gtRunning, gtGates, gtFresh, gtAttempt, gtAt, gtPending, gtCommitted,
                   gtLog, gtSunk, gtStarts>>

\* run_once finds nothing, or an error of the consumer.
PollEmpty ==
    /\ gtPhase = "poll" /\ gtPhase' = "loop"
    /\ UNCHANGED <<gtPolicy, gtRunning, gtGates, gtFresh, gtAttempt, gtAt, gtPending, gtCommitted,
                   gtLog, gtSunk, gtFloor, gtStarts>>

\* A record; one that decode makes something else than an object of ends the process.
PollRecord ==
    /\ gtPhase = "poll" /\ gtAt + 1 \in GateRecords /\ gtAt' = gtAt + 1
    /\ IF gtAt + 1 \in NotAnObject THEN gtPhase' = "dead" /\ gtPending' = {}
       ELSE gtPhase' = "deciding" /\ gtPending' = GateRoutes
    /\ UNCHANGED <<gtPolicy, gtRunning, gtGates, gtFresh, gtAttempt, gtCommitted, gtLog, gtSunk,
                   gtFloor, gtStarts>>

First(r) == \A s \in gtPending : r <= s

\* compile_predicate, of a label: authorship or an onward release to one of the nations.
Admitted(r) ==
    /\ gtAt \notin Undecodable
    /\ Audience[gtAt] \cap gtGates[r].nations # {}

Entry(r) == [record |-> gtAt, route |-> r, version |-> gtGates[r].version, allowed |-> Admitted(r)]

\* [mutant] A delivery that is not confirmed is logged, and the record goes on.
AfterSend(confirmed) == "deciding"

\* DeliveryFailed leaves the process, before the commit.
AfterDelivery(confirmed) == IF confirmed THEN "deciding" ELSE "dead"

\* One route's decision, logged before its record is sent.  A send that is not
\* confirmed may have reached the sink's broker or not (external).
Decide(r) ==
    /\ gtPhase = "deciding" /\ r \in gtPending /\ First(r)
    /\ gtLog' = gtLog \cup {Entry(r)}
    /\ IF Admitted(r)
       THEN \E sunk, confirmed \in BOOLEAN :
              /\ confirmed => sunk
              /\ gtSunk' = IF sunk THEN [gtSunk EXCEPT ![r] = @ \cup {gtAt}] ELSE gtSunk
              /\ gtPhase' = AfterDelivery(confirmed)
              /\ gtPending' = IF gtPhase' = "dead" THEN {} ELSE gtPending \ {r}
       ELSE gtPending' = gtPending \ {r} /\ UNCHANGED <<gtSunk, gtPhase>>
    /\ UNCHANGED <<gtPolicy, gtRunning, gtGates, gtFresh, gtAttempt, gtAt, gtCommitted, gtFloor, gtStarts>>

\* The synchronous commit: one that fails leaves the process.
CommitRecord ==
    /\ gtPhase = "deciding" /\ gtPending = {}
    /\ \/ gtCommitted' = gtAt /\ gtPhase' = "loop"
       \/ gtPhase' = "dead" /\ UNCHANGED gtCommitted
    /\ UNCHANGED <<gtPolicy, gtRunning, gtGates, gtFresh, gtAttempt, gtAt, gtPending, gtLog, gtSunk,
                   gtFloor, gtStarts>>

-----------------------------------------------------------------------------
(* What happens to it. *)

\* The policy grants a route's destination other nations (external).
PolicyChanges ==
    /\ gtPolicy.version <= MaxAnswers
    /\ \E r \in GateRoutes, nations \in SUBSET GateNations :
          gtPolicy' = [version |-> gtPolicy.version + 1,
                       nations |-> [gtPolicy.nations EXCEPT ![r] = nations]]
    /\ UNCHANGED <<gtPhase, gtRunning, gtGates, gtFresh, gtAttempt, gtAt, gtPending, gtCommitted,
                   gtLog, gtSunk, gtFloor, gtStarts>>

\* SIGTERM
StopSignal ==
    /\ gtRunning /\ gtPhase # "dead" /\ gtRunning' = FALSE
    /\ UNCHANGED <<gtPolicy, gtPhase, gtGates, gtFresh, gtAttempt, gtAt, gtPending, gtCommitted,
                   gtLog, gtSunk, gtFloor, gtStarts>>

\* The process is killed.
Kill ==
    /\ gtPhase # "dead" /\ gtPhase' = "dead"
    /\ UNCHANGED <<gtPolicy, gtRunning, gtGates, gtFresh, gtAttempt, gtAt, gtPending, gtCommitted,
                   gtLog, gtSunk, gtFloor, gtStarts>>

\* The container is started again, at the committed offset.
Restart ==
    /\ gtPhase = "dead" /\ gtStarts < MaxStarts /\ gtStarts' = gtStarts + 1
    /\ gtPhase' = "starting" /\ gtRunning' = TRUE /\ gtGates' = NoGates /\ gtFresh' = NoGates
    /\ gtAttempt' = 0 /\ gtPending' = {} /\ gtAt' = gtCommitted /\ gtFloor' = gtPolicy.version
    /\ UNCHANGED <<gtPolicy, gtCommitted, gtLog, gtSunk>>

GateNext ==
    \/ \E r \in GateRoutes : AskRoute(r) \/ Decide(r)
    \/ AskFails \/ Loop \/ PollEmpty \/ PollRecord \/ CommitRecord
    \/ PolicyChanges \/ StopSignal \/ Kill \/ Restart

GateSpec == GateInit /\ [][GateNext]_gateVars

-----------------------------------------------------------------------------
\* A record whose offset is committed has a logged decision of every route, and
\* one that admits it only where the route's sink has the record: no crash,
\* unconfirmed send or failed commit loses an admitted record, and none is
\* passed over without a decision (routes.py run_once, delivery.py).
CommittedIsAnswered ==
    \A n \in 1..gtCommitted, r \in GateRoutes :
        \E d \in gtLog : d.record = n /\ d.route = r /\ (d.allowed => n \in gtSunk[r])

\* No record is polled or decided under an answer of before the last refresh
\* that was due: a failed, retried or stopped refresh never falls back to it
\* (main.py, "It does not fall back to its last answer").
StaleNeverDecides ==
    gtPhase \in {"poll", "deciding"} => \A r \in GateRoutes : gtGates[r].version >= gtFloor
=============================================================================
