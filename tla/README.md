# OpenDDIL demo: a verification project in TLA+

OpenDDIL demo moves maintenance events of fielded assets from an edge cluster to
a destination abroad, past a releasability gate, lets an operator run a simulated
exercise against it, and shows the result in a web frontend at every tier, over
links that are cut, slow or stale. This directory holds TLA+ models of the parts of
that program whose correctness hangs on the order in which things happen, the
TLC configurations that check them on small instances, and proofs, checked by
TLAPS, of what holds for every instance.

Contents: [the system](#1-the-system), [what is modelled](#2-what-is-modelled),
[the back end's models](#3-the-back-end), [the frontend's models](#4-the-frontend),
[the runs](#5-the-runs), [bounds](#6-the-bounds-and-why-they-are-enough),
[the proofs](#7-what-is-proved), [disagreements found](#8-where-the-code-and-its-words-part),
[what is left out](#9-what-is-not-modelled), [the plan](#10-the-plan).

Run a check with `tlc -config X.cfg M` and a proof with `tlapm M.tla`, where the
table of section 5 pairs each configuration with its module.

## 1. The system

    asset telemetry -> (stream pipelines) -> asset-cm-state
        -> Assembler  -> egress-out (packages, arrivals, postures)
        -> Gate       -> one sink topic per admitted route   (asks the PDP)
        -> Forwarder  -> HTTP POST to the destination         (ledger in Postgres)
        <- Intake     <- artifacts the destination returns    (polls, records, re-publishes)

    browser <-> Gateway (sign-in, sessions, element views) <-> PDP, databases,
                picture, pane API, exercise control -> simulator, Kubernetes

Each component below is listed with the state it keeps, its operations, what is
hard about it, and what makes it correct.

**Assembler** (`egress/assembler.py`). *State*: in memory, per asset, the last
package produced, when it was ordered to march, whether it moved since, which
arrivals were produced; durable, only the consumer group's offset. *Operations*:
one record of the cm-state, posture or movement topic at a time: read, produce
whatever it gives rise to, note it, commit. *Hard*: a crash between the produce,
the note and the commit; state that a restart loses while the offset that
produced it is already committed; two topics with no order between them.
*Correct when* an open episode is always published under the same key and
revision however often it is produced, and an arrival is published once.

**Gate** (`egress/main.py`, `routes.py`, `delivery.py`, `gate.py`). *State*: the
gates of all routes, refreshed from the policy decision point (PDP) every
`REGISTRY_REFRESH_S`; the consumer group's offset. *Operations*: startup, refresh
(all routes or none), one record (decide for each route, log, produce, commit).
*Hard*: a partial delivery followed by a crash; a delivery report that times out
for a record the broker has; records decided by an older answer of the PDP.
*Correct when* nothing that was refused is produced, everything admitted is
produced at least once, and routes are never decided by a mixture of answers.

**Forwarder** (`egress/forwarder.py`). *State*: the group's offsets and
assignment, one record in flight with its retry clock, the delivered-events
ledger (`none`, `held`, `failed`, `delivered` per route and event).
*Operations*: deliver one record to each route of its topic, wait and retry, give
up, commit; `resend` by an operator. *Hard*: rebalances and evictions in the
middle of a delivery, crashes between POST, ledger and commit, lost responses,
writes that fail after they were applied. *Correct when* no record is skipped,
none overtakes another, the ledger is right and nothing is sent twice without
cause.

**Intake** (`egress/intake.py`). *State*: the `intake_records` table with since
when a refusal is provisional; in memory the map of answered records, a round-robin
cursor over the cases, the cases a 403 has closed for this process. *Operations*: poll a case, decide each
artifact, publish what is admitted, then store it. *Hard*: publish and store are
two steps; the cursor indexes a list that changes; the map is empty
after a start. *Correct when* an admitted artifact is published at least once, nobody
is refused for good too early and every case that stays open is asked for.

**Exercise control service** (`exercise/control.py`). *State*: three locks, the
loop's state and stop flag, the sequence record, the zero that licensed a
restart; outside it the reset Jobs and the reset record. *Operations*: adapter
operations, restart behind a gate, reset through a Kubernetes Job, sequences,
loop start and stop. *Hard*: one thread per request, a loop worker, a sequence
thread, locks held across HTTP calls, answers lost, pod restarts. *Correct when*
one reset Job runs at a time, one sequence runs at a time, a measured zero
licenses one restart, a stop is obeyed and a halt is not hidden.

**Gateway sessions** (`gateway/oidc.py`). *State*: login states, sessions with
`expires` and `hard_expires`. *Operations*: begin and finish a sign-in, look up
and renew a session, sign out, sweep. *Hard*: concurrent renewals of one session
with a rotating refresh token; a renewal deferred because the issuer is away.
*Correct when* a login state is consumed once, a session ends at its ceiling, and
a renewal race never resurrects a session that was ended.

**Gateway element views** (`gateway/pep.py`). *State*: views with holders and a
grace timer, a per-viewer bound, held messages of the screen window, at most
eight handle bindings of a feed. *Hard*: a grace timer that fires while a viewer
returns; value updates folded into held transitions. *Correct when* a view that
is held is not deleted, no transition is lost and releases keep their order.

**Gateway request handlers** (`gateway/pep.py`, `egress_view.py`, `manual_qa.py`)
keep no state of their own: they ask the PDP and an upstream for each request.
**Releasability policy** (`policy/releasability.rego`) is a function of its
input. **Client credentials cache** is one token used by one thread.
**Picture endpoint and pane API** read the others' state. **TAK adapter**, **stub
services** and **fleet simulator** stand in for outside parties. **Stream pipelines
and deployment** configure third-party services.

**Web frontend** (`frontend/src`). One page, in one thread, with many requests under
way at once: an answer was computed when the service sent it and is handled later, a
feed's rows reach the page in any order, timers fall between them. What the page
shows is derived from all of these, and what the operator then does is decided on
what the page showed. Its parts:

- **Browser session and shape feeds** (`useSession.ts`, `sessionExpiry.ts`,
  `shapeErrors.ts`, `electric.ts`, `Root.tsx`). *State*: what is known of the
  session, its deadline, the errors of the feeds. *Hard*: overlapping checks with
  retries; a feed's 401 and a deadline that may be the only signs of an end. *Correct
  when* a lost link is never read as a sign-out and an ended session leaves the screen.
- **Exercise panel** (`exerciseControl.ts`, `ExercisePopup.tsx`). *State*: the status
  polled, the command under way, the question asked. *Hard*: polls and commands
  answered out of order; a count that arrives for a press that was given up. *Correct
  when* it settles on the service's status and a reset cancels only what was counted
  for it.
- **Link control and link picture** (`linkControl.ts`, `LinkShapingPanel.tsx`,
  `linkStatus.ts`, `theaterTopology.ts`, `linkIndicator.ts`). *State*: optimistic
  values, drafts, rows that age by the page's clock. *Hard*: a draft begun over
  another state; a monitor that stopped; tiers below a cut link. *Correct when* the
  page converges on the link, APPLY cuts nothing the operator did not see, and what is
  shown up was measured of late.
- **Drill-down and element levels** (`SensorArrayView.tsx`, `useElementLevel.ts`).
  *State*: depth, path, open levels, the gateway's views. *Hard*: clicks during
  animations, releases by page-hide and clean-up, lost and overtaken DELETEs. *Correct
  when* the shown level is open, each view is released once and ends at the gateway.
- **Maintainer page** (`MaintainerApp.tsx`). *State*: edge, asset, a pending choice.
  *Hard*: effects that move a selection when the fleet changes under it. *Correct when*
  they come to rest on an asset and an edge that are there.
- **Deployment configuration** (`main.tsx`, `deployment.ts`, `siteTable.ts`,
  `tierShape.ts`, `terrainTiles.ts`, `prefs.ts`). *State*: three files, any of which may
  be missing or bent. *Correct when* a page draws its own sites only and fetches from
  another site only where the deployment says so.
- **Move panel** (`movePanel.ts`). Derives a launcher's newest move and rounds from rows
  that arrive late. *Correct when* the figures are those of one move.
- **Munitions and force posture** (`munitionsLedger.ts`, `useMunitionTrails.ts`,
  `TheaterReadinessPosture.tsx`). *Correct when* parts sum to the whole and an ending is
  drawn once and ends.
- **Regional map** (`RegionalSustainmentPosture.tsx`, `clusterKinds.ts`). Merges assets
  into marks. *Correct when* every asset drawn is in one mark and can be reached by
  clicks.
- **Fault report, manual, site panes** (`FaultReport*.tsx`, `ManualOverlay.tsx`,
  `useArrivals.ts`, `useEgressAdmission.ts`). Panes that stay mounted while the asset or
  edge changes. *Correct when* nothing shown is another's.
- **Fleet tiers** (`useFleetTiers.ts`). Live, stale or lost by age, with hysteresis.
  *Correct when* a recovery is earned.
- **Theater rollups** (`HqApp.tsx`, `useRegion*.ts`). Merge the rows of each region and
  class, and the regions, on every render. *Correct when* no asset is lost or doubled.
- **Telemetry charts** (`TelemetryCharts.tsx`, `AssetDeepDive.tsx`). Keep the last samples
  over renders, while the asset and its feeds change. *Correct when* every sample drawn is
  the asset's.
- **Terrain and imagery** (`terrainData.ts`, `theaterData.ts`, `ViewTiles.tsx`). Loads for
  a box or view that has changed meanwhile. *Correct when* every texture is disposed of
  once and the map settles on the box it wants.

Where they meet: the four egress processes share only Kafka topics and (forwarder,
intake, pane API) Postgres tables; each link is at-least-once, produce before
commit, so every consumer must bear a replay. The gateway and the exercise control
service call others over HTTP and share nothing with the egress path at run time.

## 2. What is modelled

| module | models | kind |
|---|---|---|
| `DeliveryPromise` | what the forwarder promises, without processes | abstract specification |
| `Forwarder` | the consumer group, delivery, ledger, re-send | specification, properties, refinement mapping |
| `ForwarderProofs` | types of `Forwarder`; nothing is lost, nothing is overtaken, no offset moves back; what a row of the ledger means, why an event is sent twice, the refinement | proofs |
| `MCForwarder` | small logs and route tables | TLC instances |
| `ExerciseControl` | the exercise control service | specification, properties |
| `ExerciseControlProofs` | its types, its locks and what they protect | proofs |
| `MCExerciseControl` | small loops | TLC instances |
| `Gate` | the release gate: start, refresh, record loop, restarts | specification, properties |
| `BrowserSession` | the session as a page knows it, its feeds and screens | specification, properties |
| `ExerciseStatus`, `ExercisePopup` | the exercise panel: its controller, its questions | specifications, properties |
| `ElementLevels` | the levels of a drill-down: page, wire, the gateway's views | specification, properties |
| `ScreenWindow` | a live read of a level, held and folded at the gateway | specification, property |
| `Drilldown` | the drill-down's selection, depth and animations | specification, properties |
| `Links` | the control of one link, its drafts | specification, properties |
| `LinkPicture`, `LinkLabel` | the links as the screens above and the tier itself show them | specifications, properties |
| `Maintainer` | the maintainer's edge and asset | specification, properties |
| `Boot` | which tier a page is, from its files | specification, properties |
| `Basemap` | where the terrain comes from, and the operator's choice of it | specification, properties |
| `Terrain`, `SharpTiles` | loads of ground and imagery | specifications, properties |
| `RegionMap` | the regional map's clusters, kinds, selection | specification, properties |
| `MovePanel` | a launcher's newest move and its rounds | specification, properties |
| `MunitionTrails`, `MunitionsLedger`, `ForcePosture` | munitions in flight, spent and left; the fleet by class and FOB | specifications, properties |
| `FaultReport`, `ManualPanel`, `SitePanes` | panes over an asset, an edge, a destination | specifications, properties |
| `FleetTiers` | how alive an asset is shown | specification, property |
| `Sessions` | a signed-in session at the gateway: lookups, renewals, its ends | specification, properties |
| `Assembler` | CM states and marches told as episodes and arrivals, restarts | specification, property |
| `Intake` | artifacts that a destination returns: decided, published onward, stored | specification, properties |
| `IntakeCases` | the round robin over the open cases | specification, liveness |
| `RegionRollups` | the theater's figures, merged on the page | specification, properties |
| `MCRollups` | small tables for it | TLC instances |
| `TelemetryCharts` | the charts of one asset and what they scroll over | specification, property |
| `MCPages` | the parts that must come to something, side by side | composition, TLC instances |
| `MCPanes` | the parts whose promises are safety, side by side | composition, TLC instances |
| `FoldProofs` | induction over numbers and finite sets, folds over sequences and sets, sums: the lemmas the modules below share | lemmas |
| `ServerProofs` | of `Gate`: its types, what a committed offset and a sink's record mean, which answers decide; of `Sessions`: that it ends for good and in time; of `Intake`: what crashes do to what is published and refused | proofs |
| `ToldProofs` | of `Assembler` and `ScreenWindow`: what must be told is | proofs |
| `FiguresProofs` | of `ForcePosture`, `RegionRollups`, `MunitionsLedger`, `RegionMap` and `MovePanel`: the figures are right | proofs |
| `PagesProofs` | the safety properties of `MCPages`, its types among them | proofs |
| `PanesProofs` | the safety properties of `MCPanes`, its types and figures among them | proofs |

The modules under `MCPages` and `MCPanes` share no state, as the hooks and components
they model do not. Each of the two puts its parts *side by side*: a variable `part`
names the one that runs, the others rest in an initial state, and the graph is the sum
of the parts' graphs instead of their product. A property reads one part or several.

A definition marked `[mutant]` is not part of the model. It is a plausible bug, in
the form the source could have had, and replaces the definition below it when one
asks whether a property would notice.

## 3. The back end

### Forwarder

**State.** `committed`, `membership` and `rebalance` are the group coordinator's:
the offset of each partition, whether it takes a process for a member, whether it
is asking all of them to rejoin. `assigned` and `position` are a process's own
consumer. `pc` and `job` are its one thread: where `_deliver_inner` stands, for
which record and which route, how much of the retry budget is spent, and whether
the destination already answered 2xx (the code's `delivered`). `ledger` is the
`outcome` column. `op` is the re-send command, a process of its own.

**Actions.** One per outcome of a call that can fail.

| code | actions |
|---|---|
| `run_once`: poll | `Poll`, `PollNothing`, `RejoinFromPoll` |
| `_deliver_inner`: identity, lookup | `NoEventId`, `Lookup`, `LookupFails` |
| held route | `Hold`, `HoldFails` |
| POST | `PostAccepted`, `PostFails`, `PostAcceptedUnseen`, `PostRejected` |
| `upsert_delivered` | `RecordDelivered`, `RecordFails` |
| `backoff()` | `WaitOver`, `Abandon`, `Exhaust` |
| `_Exhausted` handler | `GiveUpHeld`, `GiveUpHeldFails`, `GiveUpFailed`, `Declare` |
| commit | `CommitAccepted`, `CommitRefused` |
| `resend_once` | `ResendLookup`, `ResendPost`, `ResendPostFails`, `RecordResend` |
| process, coordinator | `Crash`, `Restart`, `Evict`, `CompleteRebalance` |

A failed write may have been applied: the actions ending in `Fails` write or do
not. `Upsert` is the SQL guard that never lowers a delivered row. A live member
that was evicted goes on, as the client does, until its next poll tells it. The
group is eager because no `partition.assignment.strategy` is configured, so
everything is revoked before anything is assigned; the code's hand-back of a
message polled during a wait is therefore unreachable and not modelled. A graceful
SIGTERM is a crash at `poll` followed at once by an eviction.

**History.** `accepted` counts how often the destination took an event on a route;
`excused` counts the acceptances that the ledger could not carry to the next
sender in time; `settled` collects terminal outcomes. No action reads them.

**Properties.** `NoSilentLoss` and `HeadOfLine` say that offsets and outcomes
follow the log. `Accounted` says that each outcome is still backed by the ledger,
whatever stale members and the operator wrote later. `DeliveredMeansAccepted` and
`DeliveredIsFinal` say what a row means and that it stays. `ExplainedDoubleSend`
bounds what the destination sees: one delivery and one more for each acceptance
that could not be known. `CommitNeverRegresses` is about a stale member's commit.
`PromiseKept` maps all of it onto `DeliveryPromise`. `EveryRecordCommitted` is
liveness.

**Fairness.** A live thread takes steps (`Thread`; every blocking call has a
timeout), a dead pod is restarted by its deployment, the session of a dead member
times out, and the coordinator completes a rebalance. Nothing obliges a live
member to crash or to be evicted or the operator to act.

### ExerciseControl

**State.** `pc` is where a request thread (`Handlers`) or a loop worker
(`Workers`) is, `seq` where a sequence thread is. `loopState` and `stopFlag` are
`LoopRunner`'s, `sequenceRun` is the run record, the three locks are named for
the code's, `usedZero` is `restart_zero_used`. `job` is the newest reset Job as
Kubernetes lists it and `unfinished` counts those that have not finished. `zero`
is the reset record: which measurement, and whether it passes the gate now.
`licensed` is the measurement a restart in progress was let through on, `restarts`
how many succeeded on each.

**Actions.** `Request` is `do_POST`'s routing with its loop check; `Stop`,
`OpAnswered`, `RestartGate` and `RestartAnswered` are requests; `ResetBegin`,
`ResetLatest`, `ResetPause`, `ResetLaunch` (is a Job unfinished?) and `ResetCreate`
(the create that follows) are `run_reset`, walked by requests and by the loop's reset
step alike; `SequenceBegin`, `SequenceLatest`,
`SequenceStart`, `SequenceStep` and `SequenceEnds` are a sequence; `LoopBegin`,
`LoopLatest` and `LoopStart` start the loop; `BeginStep`, `LoopOpAnswered`,
`LoopWaitEnds`, `PollJob`, `Halt`, `Emit` and `Finish` are its worker.
`JobStarts`, `JobEnds`, `MeasureZero`, `ZeroAges` and `PodRestart` are the world.
A call may fail wherever the code handles failure, and creating the Job may
succeed while its answer is lost.

**Abstractions.** The check that `reset_lock` is free and `start()` are one step
(`LoopStart`): between them the code does nothing another thread can see, except
that a reset may take the lock, which it may as well do just after. A wait ends by
itself or when stopped. `await` steps are waits, as their fallback makes them:
what tells the loop that a scenario ended is not modelled. The newest Job is the
last created (the code sorts by a timestamp of one-second resolution). The lock
inside `ResetJobLauncher.launch` is left out, because only a holder of `reset_lock`
ever calls it. A create request is applied before its answer is lost, or never: one
that the API server applies later, after its sender gave up or its pod was
replaced, is not modelled, and `OneJob` does not speak of it.

**Properties.** `OneJob` is about the cluster, `OnePress` about the requests
before there is a Job. `OneSequence` ties the threads to the record that the
display and the guards read. `OneRestartPerZero` counts successful restarts, per
life of the pod, which is the limit the source declares. `HaltStays` and
`ResetNotInterrupted` are action properties. `StopTakesEffect` and
`LocksReleased` are liveness. `StopTakesEffect` is about the workers and not only about the
state on display: an accepted stop ends each of them, the loop's own and a halted one that
is still saving its record, unless a new start clears the stop first. When a start may do
that although a worker is still to see the stop is the matter of `StopIsKept` (section 8).

**Fairness.** Every thread is scheduled, every HTTP call has a timeout and a Job's
wait a deadline, so each `Handler`, `Worker` and `Sequence` is weakly fair. A worker's
taking of `reset_lock` is strongly fair: the lock is held for one attempt to launch, and
the operators who might take it before the worker again and again do not press reset
without end. Requests, measurements, Job ends and pod restarts are not fair.

### Gate

**State.** `gtPhase` is where the process is: `starting` (the gates are built),
`loop` (the top of `main`'s loop), `asking` (a refresh), `poll`, `deciding` (in
`run_once`, with `gtPending` the routes to go), `dead`. `gtGates` is what each route's
gate was compiled from, `gtFresh` what the round of asking under way has brought.
`gtAt` is the consumer's position, `gtCommitted` the group's offset, `gtLog` the
decision log, `gtSunk` what each sink has. `gtPolicy`, the decision point, is external.

**Actions.** `AskRoute` and `AskFails` are `_build_gates` and `refresh_gates` with its
retries and interruptible waits; `Loop`, `PollEmpty`, `PollRecord`, `Decide` (one
route: log, produce, wait for the report), `CommitRecord`; `PolicyChanges`,
`StopSignal`, `Kill`, `Restart`. A send that was not confirmed may have arrived.

**Properties.** `CommittedIsAnswered` relates the offset to the log and the sinks
across partial deliveries and crashes; `StaleNeverDecides` relates the answers in
force to the policy when the last due refresh began (`gtFloor`, history).

### Sessions

**State.** `ssLive` and `ssSession` are the session's entry in `_sessions` (its token,
how long that can renew, when it was active, `expires`, `hard_expires`), `ssLookups` what
each request's `get_session` is doing with its copy, `ssGrant` the provider's side
(external), `ssEnd` history.

**Actions.** `LookUp` copies the session under the lock, `Judge` decides on the copy
(idle, not due, over, to be renewed), `ProviderAnswers` and `HandleAnswer` are a renewal,
which holds no lock while it calls. An answered renewal still has to verify (`Unverified`):
one with no ID token or a bad one, with one that has expired meanwhile, or with one whose key
must be fetched from a provider that is out of reach by then ends the session, as
`subject_mismatch` (995-1005). `SignOut`, `Sweep`, `Revoke` and `SessionTick` are
what else happens. Requests are numbered in the order they come. The pending sign-ins
(`_states`) and the handlers of `login`, `callback` and `logout` are not modelled.

**Properties.** `SessionsKept` has three parts: `EndedStaysEnded` (no renewal under way
brings a session back), `ServedInTime` (how long after the ceiling or an idle time it may
still be served) and `RefusalIsReal` (it is dropped as refused only when the grant was
revoked or the refresh token too old; a refresh call that fails or whose answer is lost drops
nothing). The last speaks of the refresh call alone: for what the provider's absence does
after the call, see `RenewalEndsNothing` in section 8.

### ScreenWindow

**State.** `swLog` is the shape's log at Electric (external), `swPhase`, `swCur`, `swHeld` and
`swControl` are the locals of `_screen_collect`, `swRows` and `swOffset` the page's client
(external). A column's value is the place in the log that set it.

**Actions.** `BeginRead`, `PollBrings` (a batch is folded in, and the read goes on, or is
answered), `PollTimesOut`, `PollFails` and `MustRefetch` are the loop; `AnswerApplied`,
`AnswerLost` and `ReadsAnew` the client. The window may end at any time, so that its length,
its last end (`_screen_last`) and the counts are left out; so are two pages of one session
that read one level, which share nothing but that time.

**Properties.** `ScreenToldAll`: the client's rows are those of the shape at its offset,
whatever was folded, dropped or lost; each transition is told once, in its order, and none is
held while another poll waits (`pep.py` 698); an answer says a row once if only values are held.

### Assembler

**State.** `asCm` and `asPosture` are the two topics (external), `asRead` the committed
offsets, `asMessage` and `asTodo` the message being handled and its episodes to go.
`asProduced`, `asLatest`, `asMarch`, `asMoved` and `asArrived` are the process's memory,
which a restart forgets (`Forgets`). `asOut` is the output topic.

**Actions.** `PollCm` and `PollPosture` read a message and work out what it gives rise
to, `Tell` is one record (skipped, confirmed, or not), `CommitMessage` the commit and the
end of a march; `KillAssembler` and `StartAgain` are the container. Not modelled: the
picture and the parts it shows (an unreadable one ends the process, as an unconfirmed
record does), messages that do not decode, further routes, the record's fields.

**Properties.** `EpisodesAreTold`: `NewestIsLast` relates the newest record of each key to
the CM states read so far across crashes, replays and arrivals that tell old states again;
`ArrivalsAreDue` relates arrivals to marches, both ways while the process lives. A restart
may lose an arrival, because the order is only in memory while its offset is committed:
the code's module comment accepts that, so the property does.

### Intake

**State.** `inPhase` is where an entry's process stands: it drains the topic of the records
that may be answered (`drain`, up to `inRead`, with `inHigh` its end at the start), polls the
destination's list (`poll`), decides its artifacts one by one (`process`, `inTodo`), and
publishes (`publish`) and stores (`store`) what it decided (`inDecision`). `inRows` is
`intake_records`, `inOut` how often the onward topic has each artifact. The list `inOffer`,
the topic `inAnswers` and the policy's answers are external; `inOffered` is history.

**Actions.** `IntakeStarts`, `Drain`, `PollList` and `PollEnds` are the loop, `DecideArtifact`
is `_process_artifact` up to the decision with `decide_artifact` in it, `Publish` and `Store`
the rest of it. An unconfirmed send leaves the artifact for the next poll, a failed write
ends the process, and `IntakeDies` is a crash anywhere. `IntakeCases` is one destination's
`_run_case_poll`: `ChooseCases` turns the list by the cursor and cuts it, `FetchCase` is one
request with its outcome, `KillIntake` and `StartIntake` empty the memory; `CaseComes` and
`CaseAges` are the ledger (external).

Left out: parsing of the configuration, the policy versions that a refusal cites, entries
that share a kind, bodies that are no object or have no key, and the log.

**Properties.** `ArtifactsKept` has four parts, each of which relates the table to something
written at another time: `AdmittedIsPublished` and `PublishedPerOffer` (the topic and the
table are written one after the other, and the process may die between), `RefusalWaits`
(a provisional refusal keeps its `since` over re-decisions and restarts) and
`KnownIsNotRefused` (the map of answered records is empty after a start). It does not say
that what was published stays admitted: an artifact that is published and whose row is lost
is decided anew, and may then be refused. `EachIsAskedFor` is the round robin's liveness.

## 4. The frontend

Each module's header says which files it translates and what is external to it. A
request is modelled in two steps at least: the service's answer is fixed in one (it
is of that moment), the page handles it in another, so answers overtake one another.

| module | state that matters | code behind its actions |
|---|---|---|
| `BrowserSession` | `check[c]` a request to `/auth/me` under way, `auth`, `expired`, `feed`, `feedErrors` | `checkOnce`, its retries, the minute's recheck, the deadline timer, `useTableShape`'s error paths, `Root`'s screens |
| `ExerciseStatus` | `exPoll`, `exCommand`, `exState` | `pollStatus`, `runOp`, their handlers |
| `ExercisePopup` | `exAsk` with its pre-flight, `exSent` | clicks, `resetPreflight`, `resetConfirmBody`, confirmation |
| `Links` | `lkShown`, drafts, listings and changes under way | `refresh`, `toggle`, `apply`, `clear`, the row's panel |
| `LinkPicture` | rows per link, each panel's clock `lpTick` | `readLinkState`, `place`, `cutBy`, `allLinksDown`, the headers' counts |
| `LinkLabel` | row, shape error, the label shown | `linkIndicator`'s hysteresis |
| `ElementLevels` | the page's `lvSub`, requests on the wire, the gateway's views, holders and graces | `useElementLevel`, `pep.py` 483-622, the sweeper |
| `Drilldown` | depth, parent, open levels, the animation | drill, pop, select, change of asset |
| `Maintainer` | edge, asset, pending choice, effects due | the page's effects, switcher, alerts |
| `Boot`, `Basemap` | files read, deployment in force; terrain block, stored preference | `loadDeployment`, the parsers' fallbacks, `withSites`, `resolveTerrain`, `loadPrefs` |
| `Terrain`, `SharpTiles` | loads under way, textures, what is drawn | `useTerrain`, `useSurround`, `useMask`, `ViewTiles`, `usePatches` |
| `RegionMap` | fleet, camera, merged pairs, selection | `clusters`, hysteresis of merging, `groupKinds`, clicks |
| `MovePanel` | the launcher (external), rows arrived | `latestEpisode`, `timeShown`, `replayLedger` |
| `MunitionTrails` | entries drawn, endings played | the hook's `step`, its timer |
| `MunitionsLedger`, `ForcePosture` | rows of each feed | the roll-ups by launcher, region and type; by class and FOB |
| `FaultReport`, `ManualPanel`, `SitePanes` | what is held, what is asked, for which asset or edge | effects with their cancel flags, forms, polls |
| `FleetTiers` | the row, the tracker's samples, the last tier | `classifyAssetTier`, recording, trimming, `applyRecoveryHysteresis` |
| `RegionRollups` | emitted rows, the mapped rows that `useTableShape` keeps, what the last render made of them | the merges of `useRegion*.ts`, `sumFleetBuckets`, `mergeWearTrends` |
| `TelemetryCharts` | what is known of the asset, the key last rebuilt and last reset for, the histories | the two effects, the rebuild key, the feeds that cause a render |

**Properties.** In `MCPages`: `LinkLossIsNotExpiry` and `EndNoticed` (session);
`DoneOnce` (a view released once, a texture disposed of once);
`ShownLevelIsOpen`; `NoStaleCut`; `ViewsEnd` (the gateway drops what the page gave up,
although DELETEs are lost or overtaken, and nothing that is held); `ShownSettles` (what is shown converges on what
is, once the world stops, and animations end); and `EachIsAskedFor` of section 3.
In `MCPanes`: `NoUnseenCancel`; `DeploymentObeyed`; `FiguresAddUp` (marks over assets, moves
over records, the ledger, the posture by class, FOB and attributed edge, the theater over its
regions and classes); `LinksShownTrue` (reachability is that of the declared tree, nothing
reads up longer than a row may live, the label's hysteresis never invents an up or a down);
`NothingOfAnother` (the codes a fault report offers, and its component and code once they are
filled since the asset's last change; the links to cases and the modules that the manual's answer
cites, once the asset's own lists are there; an edge's arrivals; the samples a chart scrolls over);
`RecoveryIsEarned`; the gate's two, `SessionsKept`, `ToldInFull` (`EpisodesAreTold` of the assembler
and `ScreenToldAll` of the screen window) and `ArtifactsKept`.
A property of both is a conjunction of its parts' properties, which the modules
define and comment one by one.

**Fairness** (`MCPages`; `MCPanes` has none). An answer that was sent is handled, a
timer that is armed fires, an effect that is due runs, a fetch is answered or times
out (the tiles' after 15 s), the gateway's sweeper runs (`pep.py` 678-682);
intake's next tick comes, its fetch ends (it has a timeout) and its container restarts. All
weak, but for the end of a link's change (`ChangeDone`, strong): it needs one of the two slots
for a listing, which polls may take between, and the slots are a bound of the model.
The operator, the feeds and the links owe nothing. Where a value flickers while the
world moves the property is of the form `[]<>`: the animation is over again and again,
the page is at rest again and again.

## 5. The runs

| run | module, configuration | shows |
|---|---|---|
| `forwarder_group` | `MCForwarder`, `forwarder_group.cfg` | two processes on a partition in which an event is replayed, and any one crash, eviction, lost response or re-send: no record is skipped or overtaken, every double send has one of the causes the code cannot see, offsets never move back, and the group implements `DeliveryPromise` |
| `forwarder_routes` | `MCForwarder`, `forwarder_routes.cfg` | a topic with a dedupe route, a plain one and a held dedupe one, and records that do not decode or have no identity: outcomes stay backed by the ledger, delivered rows are final |
| `forwarder_live` | `MCForwarder`, `forwarder_live.cfg` | every record is committed in the end |
| `forwarder_window` | `MCForwarder`, `forwarder_window.cfg` | violated: a double send without a crash (section 8) |
| `control_presses` | `MCExerciseControl`, `control_presses.cfg` | two requests, two loop workers, two sequence threads around the reset Job: one Job, one press, one sequence; halts stay; a stop does not cut a reset short |
| `control_live` | `MCExerciseControl`, `control_live.cfg` | a zero licenses one restart; a stop ends every worker, unless the loop is started again first; every lock is released on every path |
| `control_exclusion` | `MCExerciseControl`, `control_exclusion.cfg` | violated: a sequence beside a loop (section 8) |
| `control_worker` | `MCExerciseControl`, `control_worker.cfg` | violated: a working loop that is not active (section 8) |
| `pages` | `MCPages`, `pages.cfg` | ten parts, nine of a page and intake's cases: a lost link signs nobody out, an ended session is noticed, what must be done is done once, a stale draft cuts nothing, everything shown settles, and every case that stays open is asked for |
| `panes` | `MCPanes`, `panes.cfg` | twenty parts, fifteen of the frontend and beside them the gate, a gateway session, the screen window, the assembler and intake: nothing is cancelled or decided on what was not seen, what a pane asks for and fills in since its last switch is of the asset or edge it shows, figures add up in whatever order their rows come, an old link row is not believed, the gate commits what every route answered, an ended session stays ended, each episode, arrival and transition is told, an artifact is published as often as it may be and refused for good only in time |
| `pages_screen` | `MCPages`, `pages_screen.cfg` | violated: a failed check takes a good session's screen away (section 8) |
| `rollups_factors` | `MCRollups`, `rollups_factors.cfg` | violated: a factor's count grows with every render (section 8) |

The passing runs fire every action between them. The logs that the forwarder reads
are finite, so it ends up polling nothing, which is a stuttering action. `pages` and
`panes` turn the deadlock check off: the inputs of a part are bounded, and a page whose
operator and feeds are done stands still.

## 6. The bounds and why they are enough

- *Two members, one partition, two records.* What two members can do to each other
  they do on one partition: the code treats partitions independently, and with a
  third member nothing new can hold a stale record. Two records of the same event
  are needed for a replay to meet the ledger; more would repeat it.
- `RetryMax = 1`: one wait that is survived and one that exhausts the budget.
- `MaxFaults = 1`: one disturbance at any step. Rebalances caused by joining are
  not counted, so a single run still sees two processes exchange a partition
  several times.
- *Three routes and three records* in `forwarder_routes`: each kind of route meets
  each kind of record.
- *Two handlers* race for each lock; *two workers*, because one may still be dying
  when the next is started; a loop start needs a free worker, which is the bound on
  how many may be dying at once. The liveness run has both as well, so that a stop
  meets a new loop's worker beside an old one; it stays small because its requests come in
  two stretches (`LiveRequest`): before there is a loop two clients press anything but a loop;
  later, from a zero that no longer passes, one client starts loops and presses reset. Two
  clients that press while a loop runs are left to `control_presses`. `SeqLen = 1` suffices:
  a sequence thread shares nothing between its steps.
- `MaxZeros = 1`: one measurement and two requests that want it. The properties of
  `control_presses` do not depend on zeros, so it has none.
- *Symmetry* is used where only invariants and action properties are checked, over
  processes, handlers, workers and sequence threads, which the specifications treat
  alike; never in a run with liveness.

- *Two requests of a kind under way* (`Checks`, `PollSlots`, `Reads`, `Posts`): the
  smallest number that can overtake; the hooks keep no count of their requests, and a
  third is handled like the second.
- *Two of what can be mistaken for one another*: assets, edges, destinations, boxes,
  manuals, regions, feeds of a page.
- *Session*: one retry of three, which has the first failure, the last and one between
  them; *levels*: two views and a bound of one, so that the page exceeds it.
- *Drill-down*: three layers, the least with a level that is neither first nor last.
- *Links*: on, cut and slowed; two turns, so that somebody else changes the link under
  a draft. *Picture*: a chain of three with its middle unplaced, a fork, sites above a FOB and no
  tree at all; rows that age past `LinkRowStale` with a page's tick behind the clock.
- *Label*: the clock runs past both thresholds twice. *Tiers*: nine seconds against
  limits of two and four, so that an asset is lost and recovers.
- *Map*: four assets at two places, of which two are of one kind, two radii that merge
  and part them. *Ledger*: four rows with a move between a launch and a resupply, and one
  launch that nobody declared.
- *Gate*: two routes and three records, of which one does not decode and one is no
  object; one change of the policy, one retry, one restart.
- *Sessions*: two requests, the least whose renewals overlap; a ceiling of two ticks, tokens
  of two, refresh tokens of three, and a clock of six ticks: past the ceiling, a call and a
  deferral after it.
- *Screen window*: two rows, of which one is inserted later, and three messages: a value, one
  to fold, and a transition among them.
- *Assembler*: one asset (assets share nothing but the process), two episodes, of which one
  is open before the march order and one after, three CM states, four sequences of transitions
  (a march, an order after a move, a cancelled march and a move, a move before the order), one
  restart.
- *Intake*: two bodies of one key with different labels, each offered twice, so that one
  replaces the other and comes back; one answered record with either label; a timeout of one
  tick; one fault at any step. *Cases*: three against a cap of one, so that the cursor wraps
  in a list that shrinks; names are used again, so that behaviours need not end; one restart.
- *Rollups*: two classes of one region and one of another, that share a factor and a
  component; three rows emitted in any order, one replacing another too, and one render more.
- *Charts*: two assets, two variants, a history of two samples; steps are not bounded.
- Each `Max...` constant bounds turns of the operator or the outside, never a handler.

The proofs of section 7 have no bounds.

## 7. What is proved

For every value of the constants that meets the assumption of its module
(`ConstantsAssumption` and, for the forwarder, `RoutesAssumption`; `GateAssumption`;
`SessionsAssumption`; `IntakeAssumption`; `AssemblerAssumption`,
`TopicsAssumption`; `WindowAssumption`; in the frontend one for each module). `KeyedAssumption`
is used by the runs alone. What a theorem states is checked by a run of section 5 as
well, of the last three of the table as a part of a temporal property.

| theorem | of | says |
|---|---|---|
| `TypeCorrect` | both | every variable keeps its type, every thread stands where the code allows |
| `NothingLost` | `Forwarder` | `NoSilentLoss`: below the offset everything is settled |
| `InOrder` | `Forwarder` | `HeadOfLine`: nothing is settled before what precedes it |
| `CommitsForward` | `Forwarder` | `CommitNeverRegresses` |
| `DeliveredStays` | `Forwarder` | `DeliveredIsFinal` |
| `DeliveredIsTrue` | `Forwarder` | `DeliveredMeansAccepted` |
| `OutcomesAreKept` | `Forwarder` | `Accounted`: an outcome stays on its row |
| `SentOnceOrExcused` | `Forwarder` | `ExplainedDoubleSend` |
| `PromiseIsKept` | `Forwarder` | `PromiseKept`: it implements `DeliveryPromise` |
| `SequenceAlone` | `ExerciseControl` | `OneSequence` |
| `JobAlone`, `PressExclusive` | `ExerciseControl` | `OneJob`, `OnePress` |
| `ZeroUsedOnce` | `ExerciseControl` | `OneRestartPerZero` |
| `HaltKept`, `ResetFollowed` | `ExerciseControl` | `HaltStays`, `ResetNotInterrupted` |
| `GateTypeCorrect` | `Gate` | every variable keeps its type |
| `CommittedAnswered` | `Gate` | `CommittedIsAnswered` |
| `StaleDecidesNothing` | `Gate` | `StaleNeverDecides` |
| `SunkWasAdmitted` | `Gate` | what a sink has, a logged decision of its route allows |
| `RecoveryEarned` | `FleetTiers` | `RecoveryIsEarned` |
| `SessionsInvariant` | `Sessions` | every variable keeps its type, with the bounds below |
| `SessionsAreKept` | `Sessions` | `SessionsKept` |
| `IntakeTypes` | `Intake` | every variable keeps its type |
| `IntakeKeepsArtifacts` | `Intake` | `ArtifactsKept` |
| `LinkLossNotExpiry` | `BrowserSession` | `LinkLossIsNotExpiry` |
| `ShownIsOpen` | `Drilldown` | `ShownLevelIsOpen` |
| `CutIsNotStale` | `Links` | `NoStaleCut` |
| `ReleasedAndDisposedOnce` | `MCPages` | `DoneOnce`, of `ElementLevels`, `Terrain`, `SharpTiles` |
| `CancelsWereSeen` | `ExercisePopup` | `NoUnseenCancel` |
| `PanesShowTheirOwn` | `MCPanes` | `NothingOfAnother`, of `FaultReport`, `ManualPanel`, `SitePanes`, `TelemetryCharts` |
| `DeploymentIsObeyed` | `MCPanes` | `DeploymentObeyed`, of `Boot`, `Basemap` |
| `PictureIsTrue` | `LinkPicture` | `PictureTrue`: `UnreachableIsCut`, `SeveredMeansCutOff`, `UpIsRecent`, `FreezeAgrees` |
| `LabelIsVouched` | `LinkLabel` | `LabelTrue` |
| `LinksAreTrue` | `MCPanes` | `LinksShownTrue`, of `LinkPicture`, `LinkLabel` |
| `EpisodesTold` | `Assembler` | `EpisodesAreTold`: `NewestIsLast`, `ArrivalsAreDue` |
| `ScreenTold` | `ScreenWindow` | `ScreenToldAll`: `RowsAreTheShapes`, `TransitionsTold`, `EachRowOnce` |
| `AllIsTold` | `MCPanes` | `ToldInFull`, of `Assembler`, `ScreenWindow` |
| `FiguresAreTrue` | `MCPanes` | `FiguresAddUp`, of `MovePanel`, `RegionMap`, `MunitionsLedger`, `ForcePosture`, `RegionRollups` |
| `PanesTypes` | `MCPanes` | `PanesTypeOK`: every variable of its twenty parts keeps its type |
| `PagesTypes` | `MCPages` | `PagesTypeOK`: every variable of its ten parts keeps its type |
| `EndingsAreDrawnOnce` | `MunitionTrails` | `EndedOnce`, which `EndingsEnd` claims at all times |
| `HeldViewsAreKept` | `ElementLevels` | `HeldIsKept`, which `ViewsEnd` claims at all times |
| `ImageryStays` | `SharpTiles` | `SharpStays`, a part of `ShownSettles` |

**Forwarder, types.** `TypeOK` is inductive because it says more than types: `JobOK`
ties the place a thread stands at to its record and route (a ledger write needs an
identity and a dedupe route, the write of `delivered` needs a 2xx), and the guards
of the next step rely on it.

**Forwarder, order.** `NoSilentLoss` is not inductive: a commit is right only if the
thread that makes it has settled its record and all earlier ones, and that thread
may have been evicted long ago. `OrderInv` adds `Behind` (a thread in a delivery has
settled all earlier records and the earlier routes of its own) and `Passed` (a
consumer has settled everything up to its position but the record in flight); with
`NoSilentLoss` a new owner starts behind settled records, and with `Behind` a step
that settles keeps `HeadOfLine`. It needs no exclusion between members: a stale one
may repeat work, never skip it.

**Forwarder, offsets.** That a commit does not move the offset back does need
exclusion. `GroupInv` says that the members the coordinator knows hold disjoint
partitions (`OneOwner`) and that each is ahead of the offset on what it holds and
working on the last record it polled (`MemberOK`). A commit by anybody else is
refused, so `CommitForward` follows.

**Forwarder, ledger.** Every write goes through `Upsert`; the lemma `Writes` reduces a
step to the cell it writes, which gives `DeliveredStays`. `ReachInv` adds to
`DeliveredMeansAccepted` that whoever is about to record a delivery, a member or the
operator, has had its 2xx; acceptances only grow, so that stays true while others act.

**Forwarder, double sends.** `ExplainedDoubleSend` counts; what makes it inductive is where an
acceptance that is not excused is. `SendInv`: it is in the ledger as a delivered row, or in
the hands of a member that has its 2xx and is in the group (`Holding`), and a member that is about to
POST finds every earlier acceptance excused (`FirstToSend`). Two members cannot both hold one
event, because the owners of a partition exclude one another (`GroupInv`) and an event has one
partition. A member that lets go of the record excuses its acceptance in the same step.
`Accounted` needs only `ReachInv` and that rows are never taken back.

**Forwarder, refinement.** A step changes at most one of what `DeliveryPromise` speaks of, save
that an outcome and its row are one step of both. The guards of the abstract steps are the
invariants: `OrderInv` for the order of outcomes and the commit, `GroupInv` for the offset,
`ReachInv` for a delivered row. `PromiseStep` goes through the actions one by one.

**Exercise control.** `SequenceInv`: who is past the check under `sequence_lock` holds
it and no sequence runs. `JobInv`: who is past the check under `reset_lock` holds it
and no Job is unfinished; the newest Job is the only one that may be. `ZeroInv`: a
restart under way holds `restart_lock` and was let through on a zero newer than any
used, and no zero newer than the last used one has had its restart. `OneJob`,
`OnePress`, `OneSequence` and `OneRestartPerZero` are corollaries. The two action
properties need only the types.

**Gate.** `GateInv` has three parts besides the types. `AtInv`: the consumer stands at
the committed offset, one further while it decides; without it a commit could pass over
a record. `DecidedInv`: every route that is no longer pending has answered the polled
record, so that the commit extends `CommittedIsAnswered` by one record; the log and the
sinks only grow (`Grows`), which carries old answers along, and a restart forgets
neither. `AnswersInv`: a round under way has only answers of after it began, none is
kept from one round to the next, and outside a round the gates are of the last one.

**Fleet tiers.** `RecoveryIsEarned` counts samples since the asset was last live; the
code counts those in the tracker. `SilentInv` closes the gap: a silent asset's tracker
holds only samples of since, and its row's sample either came since or is too old for
the window. It holds when the asset falls silent because the window is no longer than the
age of staleness (`TiersAssumption`; 10 s against 30 s by default): everything in
the tracker is then out of the window. A deployment that configures a longer window
is outside the theorem, and in the model such a window breaks the property.

**Sessions.** `SessionsInv` adds three parts. `LateInv`: the ceiling never moves, and neither
the session nor a copy of it expires later than a call and a deferral after it, because
only a renewal begun under the ceiling can be deferred. `CallInv`: a lookup in a call began
it under the ceiling and not idle, and the call is not over its time. `RejectInv`: a
refusal on its way is of a revoked grant or an old token; both stay so until it is
handled, which gives `RefusalIsReal`. A renewal that does not verify is an end of another
reason; the other two parts hold of it as of any end.

**Intake.** None of the four parts is inductive. `IntakeInv` adds what is known of the artifact
at work (`AtWork`: an admitted one is not stored before it was published; a list has one
artifact for a key, `OnePerKey`), that whatever is listed or stored was on offer by then, and
since when (`WasOffered`), and that a final refusal stood its timeout (`RowsSound`). The bound
on publications needs `CreditLeft`: an artifact that may come out again without a new offer
was so far published less often than it was offered and faults happened. Every way to
lose a publication's row is a fault, which pays for the next one (`FaultPays`); an artifact
whose row is final comes out again only after another body of its key took the row, and
then only if it is offered again.

**Pages.** `SessionInv`: an answer under way that says the session is absent was given after it
ended (`EndIsKnown`), also one that is read by a later check. `DrillInv`: besides what is shown
the animation under way leads one level down, to a level that is open (`DrillIsOneDown`).
`DraftInv`: a draft remembers what it was made against, and one that a listing overtook is of
the state it shows. `ReleaseInv`: a view is released at most as often as it was dropped, and a
view still wanted was not. `TextureInv` and `PatchInv` say of each texture in which of its
hands it is: of a load under way, on screen, or disposed of. The parts run side by side
(`MCPages`): a step of one leaves the variables of the others, so each part's invariant is
one of the composition (`PartsStep`).

**Panes.** `PopupInv` ties a count to its press. `ReportInv`, `ManualInv` and `SiteInv` say of
every read under way and every answer held which asset or edge it is of, or that its effect was
cancelled; `FieldsOwn` that a report's fields, and what was sent of them, were filled from the
asset's own lists unless they were carried over a change; `ChartsInv` that the samples in a
history were taken while its asset was the one shown. They assume that there is an asset or an edge to show, and that arrivals are arrivals
somewhere. `BootInv` follows the configuration through its stages and `PrefsInv` the stored choice through reloads.
`PictureInv` bounds the distance between the clock and a panel's tick, `LabelInv` remembers
since when a row was stale.

**Link picture, the tree.** What is drawn and what cuts a tier off are recursive functions over
the declared tiers. That such a definition has a solution is shown by giving one, the least set
of pairs that its recursion gathers (`ClimbExists`, `DrawnClimbs`); the proofs then use only the
equation. Induction up the tree is the assumption itself: were a tier wrong, a set of wrong
tiers would have one whose parent is right (`TopTier`). So a cut is an ancestor whose own edge is
down (`ViaIsACut`), and where every edge into HQ is down everything is down or cut off
(`WaysCutAll`), while something drawn always has a way in (`AWayThere`), which is what the red
panel claims. `TreesAssumption` asks that the links are finitely many, that the declared tiers have
no cycle, and that none is called `hq`, the name of the root.

**Assembler.** Nothing that `EpisodesAreTold` says is inductive, because what the process
remembers is gone with it. `NewestInv` bounds how far the last record of an episode may be behind
the committed offset, `MemoryInv` says that what is remembered as produced is on top of the topic, and
`MarchInv` and `ArrivalInv` tie each noted march and each arrival sent to the transitions that
justify it. That every arrival that is due was sent holds only in a process that was never
started again (an assembler that restarts between an order and its emplacement sends none);
`FirstLatest`, `FirstMarch`, `FirstWork` and `FirstTold` follow that one process from what it has
read to what it has told. `TopicsAssumption` asks that a CM state lists an occurrence once and that
an occurrence is its asset's alone: `record_key` (`egress/assembler.py` 151-168) hashes the asset
with the component, the fault and the first-observed time. `AssemblerAssumption` asks that a
transition's time is not 0, which here stands for no march.

**Screen window.** `HeldIsTheRest`: what is held, put on the client's rows and on what it was
told, makes the rows and the transitions of the offset that is polled from. A batch keeps it because a value folded into an
earlier message does what it would have done last: the messages after that one are of other
rows (`OthersCommute`), and the two together are the one message (`FoldedDoesBoth`), so
`FoldKeepsRows` and `FoldKeepsTold` move it past them. This is the use of an insert saying every
column. The client's rows and the log are folds (`FoldLeft`); `AppliedLeads` and its like give
for each a chain of single steps, which exists by an induction over the places of the sequence
(`UpTo`: a set of numbers with 0 and every next one has them all), and the proofs go along the chain.

**Figures.** A figure counts or sums the parts of a whole, and what can go wrong is that a part is
counted twice or not at all. `CardParts` and `SumParts` (`FoldProofs`) reduce it to that: they ask
for parts that share nothing (`Apart`) and give the count or the sum of their union. A sum is a
`FoldFunctionOnSet` whose order is fixed by a CHOOSE; `MeasureExists` gives a function that adds up
in every order, and `SumIsMeasure` says that the fold is that function. What remains is one argument for each figure.
- *Posture* (`PostureAdds`): each asset is in one category and one severity (`RollupsAreParts`), a FOB
  has the assets of its edge (`FobsAreParts`), the table has a row for each edge it meets
  (`EdgesAreParts`).
- *Rollups* (`TheaterAdds`): the rows of a table are parts by region (`RowsAreParts`). A wear trend
  is merged list by list, so `RegionWeighed` and `WeighedTogether` follow the fold over the rows of
  a region with what each component weighs, for components of one unit (`WearOnce`); where units
  mix the code is wrong, and `UnitsStayApart` of section 8 says so. The inductive part says that a
  region of one row is rendered as it was emitted (`LoneRowStands`), which is where the counts of
  several rows grow.
- *Ledger* (`LedgerAdds`): stock is what was seen less what is gone (`StockIsWhole`), because the lines
  of a launcher are taken in the order of their time (`LastLineIn`). Regions add up to the theater
  and a panel or card shows the theater's rows (`RegionsAdd`, `ScopesAreTheTheaters`).
- *Map* (`MapLosesNothing`): every asset drawn is in one mark (`OneMark`): joined members of a place
  are a group apart from the others (`GroupsApart`). Clicks come to each member (`AllVisited`).
- *Move* (`MoveFigures`, `RoundsStock`): `MoveInv` keeps how the rows written since the last march
  order stand to what happened, `EpisodeIs` finds that order again among all rows, and
  `RoundsInv` that the rows up to an instant, replayed in their order, give the stock of it
  (`RowOrder`).

**Types of the parts.** Most of the types are inductive only with more. `DrillTyped` knows that
what is opened is a path of names; `LinkTyped` which changes are under way; `TerrainTyped` and
`TilesTyped` the boxes of loads; `CasesTyped` that the ledger holds a case once, so that it is no
longer than there are cases (`LedgerFits`), which bounds the cursor. `TrailsTyped` says that an
entry is drawn with a trail that has a head, no place twice in a row and no more than `TRAIL_LEN`
samples, and that a munition has one entry: `NextDraws` goes through the fold of a feed into the
entries, whose parts have one entry at most each (`AtMost`) and are joined in the order of ids
(`JoinedApart`). `EndingInv` adds that an ending that ran out is noted as spent; the row of a
spent ending draws nothing, and an ending that is not over is never dropped because an entry
has a trail to go on with (`EndingGoesOn`). For `MCPanes` the invariants of the other proofs carry most of
the types; `ScreensInv` has the rest.

**Assumptions that the proofs made explicit.** They exclude what no deployment
is: sets are finite where the code has an array or a map (`Cases`, `Munitions`, patches, launchers,
ledger lines, FOB edges); there is an asset, an edge, a destination where a page shows one; a preset
is of a state and a shape that the link knows; the parts of a configuration are those that the
parsers know.

**Only model-checked.** Liveness (`EveryRecordCommitted`, `StopTakesEffect`, `LocksReleased`,
`EndNoticed`, `EachIsAskedFor`, and what `ViewsEnd` and `ShownSettles` say of the end of things),
which rests on fairness and so on ENABLED, is out of the prover's reach. Every other property of
a passing run has a theorem above.

## 8. Where the code and its words part

- **A second window for a double send.** The docstring of `egress/forwarder.py`
  (57-60) knows one: "a crash after the destination returns 2xx and before the row
  recording it is written". `forwarder_window` finds another with no fault at all:
  the ledger write fails after a 2xx, `backoff()` waits in a poll, a second process
  joins, the partition is revoked there, the record is abandoned with no row, and
  its next owner POSTs it again. `ExplainedDoubleSend` states what does hold.
- **A sequence beside a loop.** `do_POST` says "while a loop runs nothing else may
  act on the exercise" (`exercise/control.py` 1519-1520). It looks at the loop
  before the sequence handler waits for `sequence_lock`, and no one looks again:
  `control_exclusion` has a sequence request queue behind a loop start and begin
  once the loop runs.
- **A working loop that is not active.** `active_cycle` gives the cycle number
  "while the loop is running or stopping" (1202). A worker that halts sets the state
  and then saves its record over HTTP; meanwhile a new loop may start, and the old
  worker's `finally` turns its `running` into `stopped`. In `control_worker` the new
  worker goes on acting while other operations are let through and a stop is refused.
  With a stop in between it is the stop that is lost: the old worker's `finally` turns
  `stopping` into `stopped`, a start is let through and clears the stop flag (1213), and the
  worker that was told to stop works on. `StopIsKept` (`ExerciseControl`), which says that no
  start does that, is violated with the constants of `control_worker`.

- **A failed check over a working session.** `checkOnce` says that a failed `/auth/me`
  "is NOT a reason to ... unmount the screen, over a working session"
  (`hooks/useSession.ts` 229-232). In `pages_screen` the first check is still being
  retried when the minute's recheck finds the session good and the application is shown;
  then the first check's last retry fails, and line 251 replaces the screen by that of an
  unreachable gateway.
- **Factor counts that grow with every render.** "Counts for factors that DO appear are exact
  (the classes partition the contributors)" (`hooks/useRegionTopFactors.ts` 51-52). The merge
  copies a region's first row as `factors: [...p.factors]` (66), an array of the same objects,
  and adds the other classes' counts to them (79): to the rows that `useTableShape` keeps for
  the whole snapshot. Each further render, by the page's 5 s clock or any other feed, adds them
  again. In `rollups_factors` two rows of one region and one more render suffice.

Smaller disagreements are stated as definitions of their modules, without a run of
their own; the model violates each where the constants named allow it:

- `FailedFeedIsNamed` (`BrowserSession`, two feeds of one table): the registry is keyed
  by the table, and one feed's recovery clears the error of the other.
- `IdentityIsDeclared` (`Boot`): the merged file is parsed in one try, so a title that is
  no text throws away the declared tier with it, and the page takes itself for the root.
- `TierKeepsItsEdge` (`Maintainer`, `TierScope = 1`): the effect that rehomes the edge
  does not look at the tier's own.
- `RecordedWasFiled` (`FaultReport`): the key of the last discrepancy filed names no
  asset, so another asset's card reads as recorded. `FieldsAgree` (two faults): a component
  chosen after the code leaves the code as it was. `ReportedFromItsOwn`: a change of the asset
  reads its catalog anew, because "the catalog is scoped to this asset's platform_variant"
  (`FaultReportForm.tsx` 72-73), but leaves component, code and description in the form, which a
  submit then sends as the next asset's. The select draws no option for a component that the
  new asset does not have; the state has it all the same.
- An answer of the manual stays when the asset changes, and is drawn over the next one if all
  that it cites is in that one's manual too (`ManualQuestionPanel.tsx` 168), or as long as the
  old catalog is held. `AnswerIsOnTheAsset` says no more than where its citations are.
- `AdmissionIsOfItsDestination` (`SitePanes`): the body of an answer whose request was
  cancelled after its head is committed all the same.
- `TracksAreCounted` (`MunitionsLedger`): a track whose launch has not come is in no row.
- `CeilingIsAbsolute` (`Sessions`): a deferral sets `expires` to `RENEW_RETRY_S` from now
  and does not cap it, so a session whose provider is away is served past its "absolute
  ceiling" (`gateway/oidc.py` 789-792), by no more than `ServedInTime` allows.
- `RenewalEndsNothing` (`Sessions`): `get_session` says that a session is dropped "when the
  provider REJECTS the refresh" or "answers with a different `sub`", and kept when it "is merely
  UNREACHABLE" (`gateway/oidc.py` 924-928). A renewal that the provider granted, of the same
  subject, ends the session too when its ID token does not verify (995-1005): its key is not
  known here and fetching it (`_signing_key`, 317-322) finds the provider gone, or the token
  expired on the way. The reason logged is `subject_mismatch`.
- `RaceIsHarmless` (`Sessions`, `Rotates = TRUE`): two renewals at once do not "both succeed
  or fail together" with a provider that takes a refresh token once; the second is refused
  and ends the session that the first renewed.
- `SurroundIsOfItsBox` (`Terrain`): a failed load leaves the surround of the box before.
- `FaultedKindIsShown` (`RegionMap`, five kinds at a place and four in fault): "A faulted kind
  is never hidden behind the chip" (`lib/clusterKinds.ts` 42), but no more than
  `MAX_KINDS - 1` kinds are shown, the faulted ones first.
- `UnitsStayApart` (`RegionRollups`): "NEVER cross-unit-mean" (`hooks/useRegionWearTrends.ts` 7).
  The merge of two classes looks a component up by its id alone (66-78), so hours in one row
  and kilometres in another are averaged. A code bug of the same kind as the one above.
- `ResetOnRebuild` (`TelemetryCharts`): the histories are not reset "when ANY of these change"
  (`TelemetryCharts.tsx` 287-288): an asset that was off comes back to the key they were last
  reset for. `ChartsAreDrawn`: the first answer of the telemetry puts the canvases on screen and
  is not in the key, so a rollup that was there before it has no chart until the key changes.
- `LatestWins` (`Intake`, two answer records): "latest record wins" (`egress/intake.py` 355),
  but a process that is still catching up refuses a label for good by the latest it has read.
- `NoCaseStarves` (`IntakeCases`): the cursor is there so that no case starves
  (`egress/intake.py` 916-917), but it is an index into the last tick's list (918-921), and cases
  settled since are no longer in it: while others come and are settled, one case may be passed
  over until it leaves the window. `EachIsAskedFor` is what holds.

And some things the models had to take as they are: a declared tier tree with a cycle
is not refused and is drawn by the order in which tiers are met (`LinkPicture` assumes
none); the region's markers read `hq_link_severed !== true`, so that an absent row counts
as not severed where the line reads UNKNOWN (`RegionalSustainmentPosture.tsx` 1146); the
largest load a page has seen is kept per use of the hook, so two panels may differ;
a recovery window longer than `stale_after_s` is accepted.

## 9. What is not modelled

Within the forwarder and the exercise control service: logging, counters, envelopes,
the status page, `last_command`, scraped rates and the cycle number, which no decision
reads; the contents of records beyond whether they decode and carry an identity; a JSON
value that is not an object (it needs the gate, which admits only what it could read).
Within the gate: the log's reasons and counts, the corpus behind an answer, the
registry's versions, which are asked once at the start; its sinks are not yet composed
with the forwarder's topics.

Within the frontend: drawing, layout, texts, three-dimensional scenes, projections and
camera paths, and panels that render one shape as it comes. The parts that are `partly`
modelled in `PROJECT.json` leave out what their note says. Parsing of a configured field
is modelled by what becomes of a bent value, not by its syntax. A fetch without a timeout
may hang: the models then owe no answer unless fairness says so, and the fairness is given
only where the code or the browser bounds the wait.

Of the assembler and the gateway's sessions: what section 3 names.

Of intake: what section 3 names. Of the theater's page: its configuration posture (compliance
and baselines by family) and what draws the rollups; that counts merged over classes are
approximate is carried in a flag (`merged_lossy`) which no panel reads.

Components of section 1 without a module keep no state, only display, or stand in for third
parties.

## 10. The plan

1. *(done)* `Forwarder` with `DeliveryPromise`, its proofs; `ExerciseControl` with its
   proofs; `Gate` with its proofs.
2. *(done)* The frontend: session, exercise panel, links, drill-down and its views at the
   gateway, configuration, maintainer, map, munitions, panes, tiers, terrain.
3. *(done)* Proofs of what explains a double send, of what backs an outcome, of the refinement
   `PromiseKept`, and of the safety properties of the pages and panes that section 7 lists;
   of what the assembler and the screen window tell; of the figures and of the types of all
   parts. Every safety property of a passing run is proved.
4. `Gate` and `Forwarder` composed over a sink topic: nothing that was refused is ever
   delivered, everything admitted is, at least once.
5. *(done)* `Sessions` with its proofs; `Assembler`. Left of them: the sign-in's states
   consumed once, the parts book and the picture.
6. *(done)* `Intake` with its proofs, `IntakeCases`. Left of them: entries that share a kind,
   the versions that a refusal cites.
7. The element views' per-viewer bound among several viewers at the gateway; the closing of a
   fault report under a newer form.
