------------------------------- MODULE Forwarder -------------------------------
(***************************************************************************)
(* The egress forwarder (src/egress/forwarder.py): the last hop of the     *)
(* egress path.  Several copies of one process form a Kafka consumer       *)
(* group.  Each takes one record at a time from a sink topic and POSTs it  *)
(* to the destination of every route of that topic, retrying in place; the *)
(* delivered-events ledger (a Postgres table) keeps a route with a         *)
(* dedupe_field from sending an event twice; the offset is committed once  *)
(* every route has reached a terminal outcome.  Beside them an operator    *)
(* may re-send one recorded event ("forwarder.py resend").                 *)
(*                                                                         *)
(* The broker's group coordinator, Postgres and the destination are        *)
(* external: they are modelled by what the code can observe of them.  The  *)
(* group is eager (no partition.assignment.strategy is configured), so a   *)
(* rebalance revokes everything a member holds before it assigns anything. *)
(***************************************************************************)
EXTENDS Naturals, Sequences

CONSTANTS
    Members,        \* the forwarder processes of the group
    Partitions,     \* the sink-topic partitions they share
    Routes,         \* the entries of OPENDDIL_FORWARD_CONFIG
    EventIds,       \* event identities a record may carry
    NoId,           \* a record whose dedupe_field is absent or not a string
    Undecodable,    \* a record value that is not JSON
    Log,            \* Log[p]: the records of p, in offset order
    RoutesAt,       \* RoutesAt[p]: the routes of p's topic, in config order
    Dedupe,         \* the routes with a dedupe_field
    Held,           \* the routes with held: true
    RetryMax,       \* RETRY_MAX_S, counted in backoff waits
    FaultKinds,     \* which disturbances a behaviour may contain ...
    MaxFaults       \* ... and how many of them together

Records == EventIds \cup {NoId, Undecodable}

ASSUME ConstantsAssumption ==
    /\ Partitions # {}
    /\ NoId \notin EventIds
    /\ Undecodable \notin EventIds \cup {NoId}
    /\ Log \in [Partitions -> Seq(Records)]
    /\ RoutesAt \in [Partitions -> Seq(Routes)]
    /\ Dedupe \subseteq Routes
    /\ Held \subseteq Routes
    /\ RetryMax \in Nat
    /\ FaultKinds \subseteq {"crash", "eviction", "lost_response", "resend"}
    /\ MaxFaults \in Nat

\* A topic is subscribed only because some route names it, and route names are
\* unique (load_forward_config), so a topic's list has no repetition.
ASSUME RoutesAssumption ==
    \A p \in Partitions :
        /\ RoutesAt[p] # << >>
        /\ \A i, j \in 1..Len(RoutesAt[p]) : RoutesAt[p][i] = RoutesAt[p][j] => i = j

\* The assembler keys every record of one event alike, so the records a route
\* sees of one event share a partition.
ASSUME KeyedAssumption ==
    \A p, q \in Partitions : \A k \in 1..Len(Log[p]), l \in 1..Len(Log[q]) :
        (Log[p][k] = Log[q][l] /\ Log[p][k] \in EventIds) => p = q

VARIABLES
    (* the broker's side of the group *)
    committed,      \* committed[p]: how many records of p the group has committed
    membership,     \* the coordinator's view of each member
    rebalance,      \* the coordinator is asking every member to rejoin
    (* each process: its librdkafka consumer and its one thread *)
    assigned,       \* the partitions the process believes it holds
    position,       \* position[m][p]: the offset of the last record m polled from p
    pc,             \* where m's thread is
    job,            \* the record m is delivering, and to which of its routes
    (* the shared world *)
    ledger,         \* egress_delivered_events: the outcome column per route and event
    op,             \* the operator's re-send command
    faults,         \* how many disturbances are left of MaxFaults
    (* history, read by no action *)
    accepted,       \* how often the destination accepted an event on a route
    excused,        \* acceptances the ledger could not have known about in time
    settled         \* every terminal outcome reached: [p, k, i, how]

groupVars   == <<committed, membership, rebalance>>
clientVars  == <<assigned, position>>
threadVars  == <<pc, job>>
historyVars == <<accepted, excused>>
vars == <<groupVars, clientVars, threadVars, ledger, op, faults, historyVars, settled>>

Memberships == {"out", "joining", "member"}
PCs  == {"down", "poll", "lookup", "send", "record", "backoff", "giveup", "giveup2", "commit"}
Rows == {"none", "held", "failed", "delivered"}
Hows == {"undecodable", "no_event_id", "duplicate", "held", "delivered", "rejected",
         "exhausted", "failed", "declared"}

-----------------------------------------------------------------------------
(* What a thread is working on. *)

\* A disturbance of the given kind, counted against the bound.
Fault(kind) ==
    /\ kind \in FaultKinds
    /\ faults > 0
    /\ faults' = faults - 1

\* _deliver_inner's start: record k of p for its i-th route, no wait spent yet,
\* nothing got by the destination.
Job(p, k, i) == [p |-> p, k |-> k, i |-> i, spent |-> 0, got |-> FALSE]

Record(m) == Log[job[m].p][job[m].k]
Route(m)  == RoutesAt[job[m].p][job[m].i]

\* The record's identity on this route: it has one only on a dedupe route.
HasIdentity(m) == Route(m) \in Dedupe /\ Record(m) \in EventIds

\* m is the member the coordinator knows, not one it has already evicted.
InGroup(m) == membership[m] = "member"

\* [mutant] Going on to the commit as soon as one route has an outcome.
NextRouteNever(m) ==
    /\ job' = job
    /\ pc' = [pc EXCEPT ![m] = "commit"]

\* _deliver: on to the next route with a fresh retry budget, or to the commit.
NextRoute(m) ==
    IF job[m].i < Len(RoutesAt[job[m].p])
    THEN /\ job' = [job EXCEPT ![m] = Job(job[m].p, job[m].k, job[m].i + 1)]
         /\ pc' = [pc EXCEPT ![m] = "lookup"]
    ELSE /\ job' = job
         /\ pc' = [pc EXCEPT ![m] = "commit"]

\* A terminal outcome on the current route.
Settle(m, how) ==
    /\ settled' = settled \cup {[p |-> job[m].p, k |-> job[m].k, i |-> job[m].i, how |-> how]}
    /\ NextRoute(m)

Goto(m, where) == pc' = [pc EXCEPT ![m] = where] /\ UNCHANGED job

\* No record is in flight (flight.end).
NoJob == Job(CHOOSE p \in Partitions : TRUE, 0, 0)
NoPosition == [p \in Partitions |-> 0]

LetGo(m, where) ==
    /\ pc' = [pc EXCEPT ![m] = where]
    /\ job' = [job EXCEPT ![m] = NoJob]

\* [mutant] The upsert without its WHERE guard.
UpsertUnguarded(row, outcome) == outcome

\* The row an upsert leaves: the ON CONFLICT ... WHERE guard of _upsert.
Upsert(row, outcome) ==
    IF row # "delivered" \/ outcome = "delivered" THEN outcome ELSE row

WriteRow(r, e, outcome) == ledger' = [ledger EXCEPT ![r][e] = Upsert(@, outcome)]

\* The destination takes an event; an acceptance is excused when the ledger
\* cannot carry it to the next sender in time.
Accept(r, e, isExcused) ==
    /\ accepted' = [accepted EXCEPT ![r][e] = @ + 1]
    /\ excused' = IF isExcused THEN [excused EXCEPT ![r][e] = @ + 1] ELSE excused

\* The destination has m's event and the ledger does not, so if m lets go of
\* the record now its successor will not find the row.
Unrecorded(m) ==
    /\ pc[m] \in {"record", "backoff"}
    /\ job[m].got
    /\ InGroup(m)
    /\ ledger[Route(m)][Record(m)] # "delivered"

Orphan(m) ==
    /\ accepted' = accepted
    /\ excused' = IF Unrecorded(m) THEN [excused EXCEPT ![Route(m)][Record(m)] = @ + 1] ELSE excused

-----------------------------------------------------------------------------
(* run_once: one poll, and what a rebalance does inside it. *)

\* consumer.poll returned a record.  A value that is not JSON is terminal for
\* every route at once.
Poll(m) ==
    /\ pc[m] = "poll"
    /\ \E p \in assigned[m] :
        /\ position[m][p] < Len(Log[p])
        /\ LET k == position[m][p] + 1
               bad == Log[p][k] = Undecodable
           IN /\ position' = [position EXCEPT ![m][p] = k]
              /\ job' = [job EXCEPT ![m] = Job(p, k, 1)]
              /\ pc' = [pc EXCEPT ![m] = IF bad THEN "commit" ELSE "lookup"]
              /\ settled' = IF bad
                            THEN settled \cup {[p |-> p, k |-> k, i |-> i, how |-> "undecodable"] :
                                                  i \in 1..Len(RoutesAt[p])}
                            ELSE settled
    /\ UNCHANGED <<groupVars, assigned, ledger, op, faults, historyVars>>

\* consumer.poll returned nothing.
PollNothing(m) ==
    /\ pc[m] = "poll"
    /\ \A p \in assigned[m] : position[m][p] = Len(Log[p])
    /\ UNCHANGED vars

\* The rebalance callback runs inside poll: a member that is asked to rejoin,
\* or that learns it was evicted, gives up its whole assignment.
Rejoin(m) ==
    /\ membership[m] = "out" \/ (InGroup(m) /\ rebalance)
    /\ membership' = [membership EXCEPT ![m] = "joining"]
    /\ rebalance' = TRUE
    /\ assigned' = [assigned EXCEPT ![m] = {}]
    /\ position' = [position EXCEPT ![m] = NoPosition]
    /\ UNCHANGED committed

RejoinFromPoll(m) ==
    /\ pc[m] = "poll"
    /\ Rejoin(m)
    /\ UNCHANGED <<threadVars, ledger, op, faults, historyVars, settled>>

\* run_once's commit, of the offset after the record just finished.
CommitAccepted(m) ==
    /\ pc[m] = "commit"
    /\ InGroup(m)
    /\ committed' = [committed EXCEPT ![job[m].p] = job[m].k]
    /\ LetGo(m, "poll")
    /\ UNCHANGED <<membership, rebalance, clientVars, ledger, op, faults, historyVars, settled>>

\* _COMMIT_NONFATAL: the member was evicted or the group is rebalancing.
CommitRefused(m) ==
    /\ pc[m] = "commit"
    /\ ~InGroup(m) \/ rebalance
    /\ LetGo(m, "poll")
    /\ UNCHANGED <<groupVars, clientVars, ledger, op, faults, historyVars, settled>>

-----------------------------------------------------------------------------
(* _deliver_inner: one record to one route. *)

\* A dedupe route cannot identify the record.
NoEventId(m) ==
    /\ pc[m] = "lookup"
    /\ Route(m) \in Dedupe
    /\ Record(m) = NoId
    /\ Settle(m, "no_event_id")
    /\ UNCHANGED <<groupVars, clientVars, ledger, op, faults, historyVars>>

\* store.lookup, which a route without a dedupe_field never makes.
LookupRow(m) ==
    /\ HasIdentity(m)
    /\ ledger[Route(m)][Record(m)] = "delivered"

Lookup(m) ==
    /\ pc[m] = "lookup"
    /\ ~(Route(m) \in Dedupe /\ Record(m) = NoId)
    /\ IF LookupRow(m)
       THEN Settle(m, "duplicate")
       ELSE Goto(m, "send") /\ UNCHANGED settled
    /\ UNCHANGED <<groupVars, clientVars, ledger, op, faults, historyVars>>

LookupFails(m) ==
    /\ pc[m] = "lookup"
    /\ HasIdentity(m)
    /\ Goto(m, "backoff")
    /\ UNCHANGED <<groupVars, clientVars, ledger, op, faults, historyVars, settled>>

\* A held route never POSTs; on a dedupe route it leaves a row to re-send from.
Hold(m) ==
    /\ pc[m] = "send"
    /\ Route(m) \in Held
    /\ IF HasIdentity(m) THEN WriteRow(Route(m), Record(m), "held") ELSE UNCHANGED ledger
    /\ Settle(m, "held")
    /\ UNCHANGED <<groupVars, clientVars, op, faults, historyVars>>

\* The held write raised; Postgres may have applied it nevertheless.
HoldFails(m) ==
    /\ pc[m] = "send"
    /\ Route(m) \in Held
    /\ HasIdentity(m)
    /\ WriteRow(Route(m), Record(m), "held") \/ UNCHANGED ledger
    /\ Goto(m, "backoff")
    /\ UNCHANGED <<groupVars, clientVars, op, faults, historyVars, settled>>

\* 2xx.  Without a dedupe_field that is the end of it.
PostAccepted(m) ==
    /\ pc[m] = "send"
    /\ Route(m) \notin Held
    /\ IF HasIdentity(m)
       THEN /\ Accept(Route(m), Record(m), ~InGroup(m))
            /\ job' = [job EXCEPT ![m].got = TRUE]
            /\ pc' = [pc EXCEPT ![m] = "record"]
            /\ UNCHANGED settled
       ELSE Settle(m, "delivered") /\ UNCHANGED historyVars
    /\ UNCHANGED <<groupVars, clientVars, ledger, op, faults>>

\* No credential, a connection error, 408, 429 or 5xx: nothing was delivered.
PostFails(m) ==
    /\ pc[m] = "send"
    /\ Route(m) \notin Held
    /\ Goto(m, "backoff")
    /\ UNCHANGED <<groupVars, clientVars, ledger, op, faults, historyVars, settled>>

\* The destination has the event but the response was lost (OSError, 5xx).
PostAcceptedUnseen(m) ==
    /\ pc[m] = "send"
    /\ Route(m) \notin Held
    /\ HasIdentity(m)
    /\ Fault("lost_response")
    /\ Accept(Route(m), Record(m), TRUE)
    /\ Goto(m, "backoff")
    /\ UNCHANGED <<groupVars, clientVars, ledger, op, settled>>

\* Another 4xx is a decision: never retried, no row.
PostRejected(m) ==
    /\ pc[m] = "send"
    /\ Route(m) \notin Held
    /\ Settle(m, "rejected")
    /\ UNCHANGED <<groupVars, clientVars, ledger, op, faults, historyVars>>

\* upsert_delivered after a 2xx: the write is retried, never the POST.
RecordDelivered(m) ==
    /\ pc[m] = "record"
    /\ WriteRow(Route(m), Record(m), "delivered")
    /\ Settle(m, "delivered")
    /\ UNCHANGED <<groupVars, clientVars, op, faults, historyVars>>

RecordFails(m) ==
    /\ pc[m] = "record"
    /\ WriteRow(Route(m), Record(m), "delivered") \/ UNCHANGED ledger
    /\ Goto(m, "backoff")
    /\ UNCHANGED <<groupVars, clientVars, op, faults, historyVars, settled>>

-----------------------------------------------------------------------------
(* backoff(): give up, wait it out, or lose the partition while waiting. *)

\* [mutants] Resuming at the POST after a 2xx, and at the write without one.
ResumeAtLookup(j) == "lookup"
ResumeAtRecord(j) == "record"

\* Where the loop resumes after a wait: at the write once the destination has
\* the record, at the lookup before that.
ResumeAt(j) == IF j.got THEN "record" ELSE "lookup"

\* [mutant] A retry loop with no budget.
WaitForever(m) ==
    /\ pc[m] = "backoff"
    /\ pc' = [pc EXCEPT ![m] = ResumeAt(job[m])]
    /\ UNCHANGED <<groupVars, clientVars, job, ledger, op, faults, historyVars, settled>>

\* [mutant] A wait that polls the next record without pausing: the one in
\* flight is dropped for it.
WaitUnpaused(m) ==
    /\ pc[m] = "backoff"
    /\ position[m][job[m].p] < Len(Log[job[m].p])
    /\ position' = [position EXCEPT ![m][job[m].p] = @ + 1]
    /\ job' = [job EXCEPT ![m].k = @ + 1]
    /\ pc' = [pc EXCEPT ![m] = "lookup"]
    /\ UNCHANGED <<groupVars, assigned, ledger, op, faults, historyVars, settled>>

\* The pause-and-poll wait ran its course.
WaitOver(m) ==
    /\ pc[m] = "backoff"
    /\ job[m].spent < RetryMax
    /\ job' = [job EXCEPT ![m].spent = @ + 1]
    /\ pc' = [pc EXCEPT ![m] = ResumeAt(job[m])]
    /\ UNCHANGED <<groupVars, clientVars, ledger, op, faults, historyVars, settled>>

\* [mutant] run_once going on to the commit after an abandoned record.
AbandonThenCommit(m) ==
    /\ pc[m] = "backoff"
    /\ job[m].spent < RetryMax
    /\ Rejoin(m)
    /\ Orphan(m)
    /\ Goto(m, "commit")
    /\ UNCHANGED <<ledger, op, faults, settled>>

\* _Abandoned: flight.revoked was set inside a wait's poll.  Back to the main
\* loop without a commit.
Abandon(m) ==
    /\ pc[m] = "backoff"
    /\ job[m].spent < RetryMax
    /\ Rejoin(m)
    /\ Orphan(m)
    /\ LetGo(m, "poll")
    /\ UNCHANGED <<ledger, op, faults, settled>>

\* _Exhausted: the clock has passed RETRY_MAX_S at some backoff.  Only a dedupe
\* route the destination has not accepted has a row left to write.
Exhaust(m) ==
    /\ pc[m] = "backoff"
    /\ IF HasIdentity(m) /\ ~job[m].got
       THEN Goto(m, "giveup") /\ UNCHANGED <<historyVars, settled>>
       ELSE Settle(m, "exhausted") /\ Orphan(m)
    /\ UNCHANGED <<groupVars, clientVars, ledger, op, faults>>

\* The exhausted record is recorded held ...
GiveUpHeld(m) ==
    /\ pc[m] = "giveup"
    /\ WriteRow(Route(m), Record(m), "held")
    /\ Settle(m, "exhausted")
    /\ UNCHANGED <<groupVars, clientVars, op, faults, historyVars>>

\* [mutant] A held write that raised, taken for one that did not.
GiveUpUnwritten(m) ==
    /\ pc[m] = "giveup"
    /\ Settle(m, "exhausted")
    /\ UNCHANGED <<groupVars, clientVars, ledger, op, faults, historyVars>>

GiveUpHeldFails(m) ==
    /\ pc[m] = "giveup"
    /\ WriteRow(Route(m), Record(m), "held") \/ UNCHANGED ledger
    /\ Goto(m, "giveup2")
    /\ UNCHANGED <<groupVars, clientVars, op, faults, historyVars, settled>>

\* ... or failed if that write fails ...
GiveUpFailed(m) ==
    /\ pc[m] = "giveup2"
    /\ WriteRow(Route(m), Record(m), "failed")
    /\ Settle(m, "failed")
    /\ UNCHANGED <<groupVars, clientVars, op, faults, historyVars>>

\* ... or only declared undelivered, on the log and a counter.
Declare(m) ==
    /\ pc[m] = "giveup2"
    /\ WriteRow(Route(m), Record(m), "failed") \/ UNCHANGED ledger
    /\ Settle(m, "declared")
    /\ UNCHANGED <<groupVars, clientVars, op, faults, historyVars>>

-----------------------------------------------------------------------------
(* The process's life and the group coordinator. *)

\* Killed, or a commit error or exception the code does not catch.  The
\* coordinator notices only when the session times out (Evict).
Crash(m) ==
    /\ pc[m] # "down"
    /\ Fault("crash")
    /\ LetGo(m, "down")
    /\ assigned' = [assigned EXCEPT ![m] = {}]
    /\ position' = [position EXCEPT ![m] = NoPosition]
    /\ Orphan(m)
    /\ UNCHANGED <<groupVars, ledger, op, settled>>

\* A new incarnation; it is a new member of the group, so it can be assigned
\* nothing before the old one has been evicted.
Restart(m) ==
    /\ pc[m] = "down"
    /\ membership[m] = "out"
    /\ Goto(m, "poll")
    /\ assigned' = [assigned EXCEPT ![m] = {}]
    /\ position' = [position EXCEPT ![m] = NoPosition]
    /\ UNCHANGED <<groupVars, ledger, op, faults, historyVars, settled>>

\* Session or max.poll.interval.ms timeout.  A live member goes on unaware
\* until its next poll.
Evict(m) ==
    /\ membership[m] # "out"
    /\ \/ pc[m] = "down" /\ UNCHANGED faults
       \/ /\ pc[m] # "down"
          /\ InGroup(m)
          /\ Fault("eviction")
    /\ membership' = [membership EXCEPT ![m] = "out"]
    /\ rebalance' = TRUE
    /\ Orphan(m)
    /\ UNCHANGED <<committed, clientVars, threadVars, ledger, op, settled>>

\* Every member that was left in the group has rejoined: the coordinator
\* assigns the partitions afresh and each new owner starts from the committed
\* offset.
CompleteRebalance ==
    LET joining == {m \in Members : membership[m] = "joining"}
    IN /\ rebalance
       /\ joining # {}
       /\ \A m \in Members : ~InGroup(m)
       /\ \E owner \in [Partitions -> joining] :
            assigned' = [m \in Members |-> IF m \in joining
                                           THEN {p \in Partitions : owner[p] = m}
                                           ELSE assigned[m]]
       /\ position' = [m \in Members |-> IF m \in joining THEN committed ELSE position[m]]
       /\ membership' = [m \in Members |-> IF m \in joining THEN "member" ELSE membership[m]]
       /\ rebalance' = FALSE
       /\ UNCHANGED <<committed, threadVars, ledger, op, faults, historyVars, settled>>

-----------------------------------------------------------------------------
(* resend_once: the operator's logged action. *)

NoOp == [stage |-> "idle"]

\* Every refusal leaves the world alone; what passes them is an event that has
\* a row, on a dedupe route that is not held.
ResendLookup ==
    /\ op = NoOp
    /\ Fault("resend")
    /\ \E r \in Dedupe \ Held, e \in EventIds :
        /\ ledger[r][e] # "none"
        /\ op' = [stage |-> "checked", r |-> r, e |-> e]
    /\ UNCHANGED <<groupVars, clientVars, threadVars, ledger, historyVars, settled>>

\* Exactly one POST.
ResendPost ==
    /\ op.stage = "checked"
    /\ Accept(op.r, op.e, TRUE)
    /\ op' = [op EXCEPT !.stage = "sent"]
    /\ UNCHANGED <<groupVars, clientVars, threadVars, ledger, faults, settled>>

\* An unwritable audit line, no credential, a refusal, an error (after which the
\* destination may have the event all the same): exit 1 or 2.
ResendPostFails ==
    /\ op.stage = "checked"
    /\ op' = NoOp
    /\ \/ UNCHANGED historyVars
       \/ Accept(op.r, op.e, TRUE)
    /\ UNCHANGED <<groupVars, clientVars, threadVars, ledger, faults, settled>>

\* record_resend: an UPDATE, never an INSERT; exit 0, or 3 when it raised.
RecordResend ==
    /\ op.stage = "sent"
    /\ op' = NoOp
    /\ \/ ledger' = [ledger EXCEPT ![op.r][op.e] = IF @ = "none" THEN "none" ELSE "delivered"]
       \/ UNCHANGED ledger
    /\ UNCHANGED <<groupVars, clientVars, threadVars, faults, historyVars, settled>>

Resend == ResendLookup \/ ResendPost \/ ResendPostFails \/ RecordResend

-----------------------------------------------------------------------------

Init ==
    /\ committed = [p \in Partitions |-> 0]
    /\ membership = [m \in Members |-> "out"]
    /\ rebalance = FALSE
    /\ assigned = [m \in Members |-> {}]
    /\ position = [m \in Members |-> NoPosition]
    /\ pc = [m \in Members |-> "poll"]
    /\ job = [m \in Members |-> NoJob]
    /\ ledger = [r \in Routes |-> [e \in EventIds |-> "none"]]
    /\ op = NoOp
    /\ faults = MaxFaults
    /\ accepted = [r \in Routes |-> [e \in EventIds |-> 0]]
    /\ excused = [r \in Routes |-> [e \in EventIds |-> 0]]
    /\ settled = {}

\* One step of m's thread.
Deliver(m) ==
    \/ NoEventId(m) \/ Lookup(m) \/ LookupFails(m)
    \/ Hold(m) \/ HoldFails(m)
    \/ PostAccepted(m) \/ PostFails(m) \/ PostAcceptedUnseen(m) \/ PostRejected(m)
    \/ RecordDelivered(m) \/ RecordFails(m)

GiveUp(m) ==
    \/ Exhaust(m)
    \/ GiveUpHeld(m) \/ GiveUpHeldFails(m) \/ GiveUpFailed(m) \/ Declare(m)

Thread(m) ==
    \/ Poll(m) \/ PollNothing(m) \/ RejoinFromPoll(m)
    \/ Deliver(m) \/ WaitOver(m) \/ Abandon(m) \/ GiveUp(m)
    \/ CommitAccepted(m) \/ CommitRefused(m)

Next ==
    \/ \E m \in Members : Thread(m) \/ Crash(m) \/ Restart(m) \/ Evict(m)
    \/ CompleteRebalance
    \/ Resend

Spec == Init /\ [][Next]_vars

\* The thread keeps running, a dead session times out, the pod is restarted and
\* the coordinator finishes the rebalances it starts.  Nothing obliges a live
\* member to crash, to be evicted, or the operator to act.
Fairness ==
    /\ \A m \in Members : WF_vars(Thread(m)) /\ WF_vars(Restart(m))
    /\ \A m \in Members : WF_vars(pc[m] = "down" /\ Evict(m))
    /\ WF_vars(CompleteRebalance)

FairSpec == Spec /\ Fairness

-----------------------------------------------------------------------------
(* Properties. *)

Busy(m) == pc[m] \notin {"down", "poll"}

\* The control points only reached once the destination has the record.
Sent(m) == pc[m] = "record" \/ (pc[m] = "backoff" /\ job[m].got)

\* A thread in a delivery holds a record that decoded and a route of its topic,
\* and the control points past the lookup know what kind of route it is.
JobOK(m) ==
    /\ job[m].k \in 1..Len(Log[job[m].p])
    /\ job[m].i \in 1..Len(RoutesAt[job[m].p])
    /\ pc[m] # "commit" => Record(m) # Undecodable
    /\ pc[m] \notin {"lookup", "commit"} => ~(Route(m) \in Dedupe /\ Record(m) = NoId)
    /\ pc[m] \in {"giveup", "giveup2"} => HasIdentity(m)
    /\ Sent(m) => job[m].got /\ HasIdentity(m) /\ Route(m) \notin Held
    /\ job[m].got => pc[m] \in {"record", "backoff", "commit"}

Jobs == [p : Partitions, k : Nat, i : Nat, spent : Nat, got : BOOLEAN]

Types ==
    /\ committed \in [Partitions -> Nat]
    /\ membership \in [Members -> Memberships]
    /\ rebalance \in BOOLEAN
    /\ assigned \in [Members -> SUBSET Partitions]
    /\ position \in [Members -> [Partitions -> Nat]]
    /\ pc \in [Members -> PCs]
    /\ job \in [Members -> Jobs]
    /\ ledger \in [Routes -> [EventIds -> Rows]]
    /\ op \in {NoOp} \cup [stage : {"checked", "sent"}, r : Dedupe \ Held, e : EventIds]
    /\ faults \in Nat
    /\ accepted \in [Routes -> [EventIds -> Nat]]
    /\ excused \in [Routes -> [EventIds -> Nat]]
    /\ settled \subseteq [p : Partitions, k : Nat, i : Nat, how : Hows]

\* Every variable has its type, and no thread is at a control point its record
\* and route do not allow (no ledger write for a record with no identity).
TypeOK == Types /\ \A m \in Members : Busy(m) => JobOK(m)

\* The pair (record k of p, i-th route) has reached a terminal outcome.
Done(p, k, i) == \E s \in settled : s.p = p /\ s.k = k /\ s.i = i

AllDone(p, k) == \A i \in 1..Len(RoutesAt[p]) : Done(p, k, i)

\* run_once commits only after every matching route has reached a terminal
\* outcome, so no crash, eviction or abandoned retry can make the group skip a
\* record: everything below the committed offset was settled on every route.
NoSilentLoss ==
    \A p \in Partitions : \A k \in 1..committed[p] : AllDone(p, k)

\* Head-of-line order ("one record in flight"): no outcome is reached for a
\* record while an earlier record of the partition still lacks one, whoever of
\* the group was working on it.
HeadOfLine ==
    \A s \in settled : \A k \in 1..(s.k - 1) : AllDone(s.p, k)

\* What each outcome promises is still in the ledger, whatever replays, stale
\* members and re-sends did to the row since: a delivered or duplicate outcome
\* stands on a delivered row, a held or failed one on some row, and a dedupe
\* record that was given up on has a row or has reached the destination.
Accounted ==
    \A s \in settled :
        LET r == RoutesAt[s.p][s.i]
            e == Log[s.p][s.k]
        IN (r \in Dedupe /\ e \in EventIds) =>
              /\ s.how \in {"delivered", "duplicate"} => ledger[r][e] = "delivered"
              /\ s.how \in {"held", "failed"} => ledger[r][e] # "none"
              /\ s.how = "exhausted" => ledger[r][e] # "none" \/ accepted[r][e] > 0

\* A delivered row is never a guess: the destination has taken the event.
DeliveredMeansAccepted ==
    \A r \in Routes, e \in EventIds :
        ledger[r][e] = "delivered" => accepted[r][e] > 0

\* The destination receives an event on a dedupe route once, except for the
\* acceptances the code cannot see in time: those of a member already evicted,
\* those whose response was lost, the operator's, and those whose owner let go
\* of the record (crash, eviction, revocation, exhaustion) before the row was
\* written.
ExplainedDoubleSend ==
    \A r \in Dedupe, e \in EventIds : accepted[r][e] <= 1 + excused[r][e]

\* The module docstring: "The one window this does not close: a crash after the
\* destination returns 2xx and before the row recording it is written".  So
\* where nothing crashes a dedupe route sends an event once.
OnlyACrashSendsTwice ==
    MaxFaults = 0 => \A r \in Dedupe, e \in EventIds : accepted[r][e] <= 1

\* The ledger never forgets a delivery, and a row is never deleted: not even by
\* the late held or failed write of a member that gave up on the record.
DeliveredIsFinal ==
    [][\A r \in Routes, e \in EventIds :
        /\ ledger[r][e] = "delivered" => ledger'[r][e] = "delivered"
        /\ ledger[r][e] # "none" => ledger'[r][e] # "none"]_vars

\* The group's committed offset never moves back: a member that was evicted or
\* abandoned its record can not overwrite the commit of its successor.
CommitNeverRegresses ==
    [][\A p \in Partitions : committed'[p] >= committed[p]]_vars

\* All of the above at once, as an abstract specification: see DeliveryPromise.
Promise == INSTANCE DeliveryPromise WITH
    done    <- {<<s.p, s.k, s.i>> : s \in settled},
    row     <- ledger,
    reached <- {re \in Routes \X EventIds : accepted[re[1]][re[2]] > 0}

\* The forwarder implements the abstract promise: rebalances, replays, crashes
\* and re-sends never show through as an outcome out of order, an offset past
\* an unsettled record or a ledger row that claims too much.
PromiseKept == Promise!Spec

\* "Nothing is committed until every entry has reached a terminal outcome" must
\* not mean never: the retry budget makes every record terminal, and the group
\* commits the whole log once it is left in peace.
EveryRecordCommitted ==
    \A p \in Partitions : <>[](committed[p] = Len(Log[p]))

=============================================================================
