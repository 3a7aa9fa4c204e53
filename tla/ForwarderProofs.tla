--------------------------- MODULE ForwarderProofs ---------------------------
(***************************************************************************)
(* What holds of the Forwarder for any group, log and route configuration: *)
(* its types; that it settles the records of a partition in order and      *)
(* commits only what is settled (NoSilentLoss, HeadOfLine); that its       *)
(* offsets never move back (CommitNeverRegresses); what a row of the       *)
(* ledger means, whoever writes to it and in what order, and what follows  *)
(* for the destination, for the outcomes and for the promise the whole     *)
(* forwarder makes (DeliveryPromise).                                      *)
(***************************************************************************)
EXTENDS Forwarder, TLAPS

USE DEF Memberships, PCs, Rows, Hows

-----------------------------------------------------------------------------
(* The thread's part of a step: what pc and job may become. *)

ThreadOK ==
    /\ pc \in [Members -> PCs]
    /\ job \in [Members -> Jobs]
    /\ \A m \in Members : Busy(m) => JobOK(m)

LEMMA NoJobType == NoJob \in Jobs
  BY ConstantsAssumption DEF NoJob, Job, Jobs

\* JobOK speaks of one thread only.
LEMMA JobStable ==
  ASSUME NEW m \in Members, pc'[m] = pc[m], job'[m] = job[m], Busy(m) => JobOK(m)
  PROVE  Busy(m)' => JobOK(m)'
  BY DEF Busy, JobOK, Sent, HasIdentity, Record, Route

\* Leaving the delivery.
LEMMA LetGoOK ==
  ASSUME ThreadOK, NEW m \in Members, NEW where \in {"poll", "down"}, LetGo(m, where)
  PROVE  ThreadOK'
  <1>1. pc' \in [Members -> PCs] /\ job' \in [Members -> Jobs]
    BY NoJobType DEF ThreadOK, LetGo
  <1>2. ASSUME NEW n \in Members PROVE Busy(n)' => JobOK(n)'
    <2>1. CASE n = m
      BY <2>1 DEF ThreadOK, LetGo, Busy
    <2>2. CASE n # m
      <3>1. pc'[n] = pc[n] /\ job'[n] = job[n]
        BY <2>2 DEF ThreadOK, LetGo
      <3> QED
        BY <3>1, JobStable DEF ThreadOK
    <2> QED
      BY <2>1, <2>2
  <1> QED
    BY <1>1, <1>2 DEF ThreadOK

\* Moving between control points of one delivery.
LEMMA GotoOK ==
  ASSUME ThreadOK, NEW m \in Members, NEW where \in PCs, Goto(m, where),
         Busy(m)' => JobOK(m)'
  PROVE  ThreadOK'
  <1>1. pc' \in [Members -> PCs] /\ job' = job
    BY DEF ThreadOK, Goto
  <1>2. ASSUME NEW n \in Members PROVE Busy(n)' => JobOK(n)'
    <2>1. CASE n # m
      <3>1. pc'[n] = pc[n] /\ job'[n] = job[n]
        BY <2>1 DEF ThreadOK, Goto
      <3> QED
        BY <3>1, JobStable DEF ThreadOK
    <2> QED
      BY <2>1
  <1> QED
    BY <1>1, <1>2 DEF ThreadOK

\* A terminal outcome: on to the next route of the same record, or the commit.
LEMMA NextRouteOK ==
  ASSUME ThreadOK, NEW m \in Members, Busy(m), Record(m) # Undecodable, NextRoute(m)
  PROVE  ThreadOK'
  <1>1. job[m] \in Jobs /\ JobOK(m)
    BY DEF ThreadOK
  <1>2. pc' \in [Members -> PCs] /\ job' \in [Members -> Jobs]
    <2>1. Job(job[m].p, job[m].k, job[m].i + 1) \in Jobs
      BY <1>1 DEF Job, Jobs
    <2> QED
      BY <2>1 DEF ThreadOK, NextRoute
  <1>3. ASSUME NEW n \in Members PROVE Busy(n)' => JobOK(n)'
    <2>1. CASE n # m
      <3>1. pc'[n] = pc[n] /\ job'[n] = job[n]
        BY <2>1 DEF ThreadOK, NextRoute
      <3> QED
        BY <3>1, JobStable DEF ThreadOK
    <2>2. CASE n = m /\ job[m].i < Len(RoutesAt[job[m].p])
      <3>1. /\ pc'[m] = "lookup"
            /\ job'[m] = Job(job[m].p, job[m].k, job[m].i + 1)
        BY <2>2 DEF ThreadOK, NextRoute
      <3>2. job'[m].p = job[m].p /\ job'[m].k = job[m].k /\ job'[m].i = job[m].i + 1 /\ job'[m].got = FALSE
        BY <3>1, <1>1 DEF Job, Jobs
      <3>3. Len(RoutesAt[job[m].p]) \in Nat
        BY <1>1, ConstantsAssumption DEF Jobs
      <3> QED
        BY <1>1, <2>2, <3>1, <3>2, <3>3 DEF JobOK, Sent, HasIdentity, Record, Route
    <2>3. CASE n = m /\ ~(job[m].i < Len(RoutesAt[job[m].p]))
      <3>1. pc'[m] = "commit" /\ job'[m] = job[m]
        BY <2>3 DEF ThreadOK, NextRoute
      <3> QED
        BY <1>1, <2>3, <3>1 DEF JobOK, Sent, HasIdentity, Record, Route
    <2> QED
      BY <2>1, <2>2, <2>3
  <1> QED
    BY <1>2, <1>3 DEF ThreadOK

LEMMA SettleOK ==
  ASSUME ThreadOK, NEW m \in Members, Busy(m), Record(m) # Undecodable, NEW how \in Hows, Settle(m, how)
  PROVE  ThreadOK'
  BY NextRouteOK DEF Settle

\* A step that leaves pc and job alone.
LEMMA ThreadStable ==
  ASSUME ThreadOK, UNCHANGED threadVars
  PROVE  ThreadOK'
  <1>1. pc' = pc /\ job' = job
    BY DEF threadVars
  <1>2. ASSUME NEW n \in Members PROVE Busy(n)' => JobOK(n)'
    BY <1>1, JobStable DEF ThreadOK
  <1> QED
    BY <1>1, <1>2 DEF ThreadOK

\* The delivery of a record to one route keeps threads well-formed.
LEMMA DeliverThreadOK ==
  ASSUME TypeOK, NEW m \in Members, Deliver(m)
  PROVE  ThreadOK'
  <1>1. ThreadOK /\ job[m] \in Jobs /\ pc[m] \in PCs
    BY DEF TypeOK, Types, ThreadOK
  <1>2. Busy(m)
    BY DEF Busy, Deliver, NoEventId, Lookup, LookupFails, Hold, HoldFails, PostAccepted, PostFails,
           PostAcceptedUnseen, PostRejected, RecordDelivered, RecordFails
  <1>3. JobOK(m)
    BY <1>1, <1>2 DEF ThreadOK
  <1>4. ASSUME NEW where \in {"send", "backoff"}, Goto(m, where),
               pc[m] \in {"lookup", "send"}, ~(Route(m) \in Dedupe /\ Record(m) = NoId)
        PROVE  ThreadOK'
    <2>1. pc'[m] = where /\ job'[m] = job[m]
      BY <1>1, <1>4 DEF ThreadOK, Goto
    <2>2. JobOK(m)'
      BY <1>3, <1>4, <2>1 DEF JobOK, Sent, HasIdentity, Record, Route
    <2> QED
      BY <1>1, <1>4, <2>2, GotoOK
  <1>5. CASE NoEventId(m)
    BY <1>1, <1>2, <1>3, <1>5, SettleOK DEF NoEventId, JobOK
  <1>6. CASE Lookup(m)
    <2>1. Record(m) # Undecodable
      BY <1>3, <1>6 DEF Lookup, JobOK
    <2>2. Settle(m, "duplicate") \/ Goto(m, "send")
      BY <1>6 DEF Lookup
    <2> QED
      BY <1>1, <1>2, <1>4, <1>6, <2>1, <2>2, SettleOK DEF Lookup
  <1>7. CASE LookupFails(m)
    <2>1. ~(Route(m) \in Dedupe /\ Record(m) = NoId)
      BY <1>7, ConstantsAssumption DEF LookupFails, HasIdentity
    <2> QED
      BY <1>4, <1>7, <2>1 DEF LookupFails
  <1>8. CASE Hold(m) \/ PostRejected(m)
    <2>1. Record(m) # Undecodable
      BY <1>3, <1>8 DEF Hold, PostRejected, JobOK
    <2> QED
      BY <1>1, <1>2, <1>8, <2>1, SettleOK DEF Hold, PostRejected
  <1>9. CASE HoldFails(m) \/ PostFails(m) \/ PostAcceptedUnseen(m)
    <2>1. pc[m] = "send" /\ Goto(m, "backoff")
      BY <1>9 DEF HoldFails, PostFails, PostAcceptedUnseen
    <2>2. ~(Route(m) \in Dedupe /\ Record(m) = NoId)
      BY <1>3, <2>1 DEF JobOK
    <2> QED
      BY <1>4, <2>1, <2>2
  <1>10. CASE PostAccepted(m) /\ HasIdentity(m)
    <2>1. pc[m] = "send" /\ Route(m) \notin Held
      BY <1>10 DEF PostAccepted
    <2>2. job' = [job EXCEPT ![m].got = TRUE] /\ pc' = [pc EXCEPT ![m] = "record"]
      BY <1>10 DEF PostAccepted
    <2>3. /\ job'[m] = [job[m] EXCEPT !.got = TRUE]
          /\ pc'[m] = "record"
      BY <1>1, <2>2 DEF ThreadOK
    <2>4. /\ job'[m].p = job[m].p /\ job'[m].k = job[m].k /\ job'[m].i = job[m].i
          /\ job'[m].got = TRUE /\ job'[m] \in Jobs
      BY <1>1, <2>3 DEF Jobs
    <2>5. pc' \in [Members -> PCs] /\ job' \in [Members -> Jobs]
      BY <1>1, <2>2, <2>4 DEF ThreadOK
    <2>6. JobOK(m)'
      BY <1>3, <1>10, <2>1, <2>3, <2>4 DEF JobOK, Sent, HasIdentity, Record, Route
    <2>7. ASSUME NEW n \in Members, n # m PROVE Busy(n)' => JobOK(n)'
      <3>1. pc'[n] = pc[n] /\ job'[n] = job[n]
        BY <1>1, <2>2, <2>7 DEF ThreadOK
      <3> QED
        BY <1>1, <3>1, JobStable DEF ThreadOK
    <2> QED
      BY <2>5, <2>6, <2>7 DEF ThreadOK
  <1>11. CASE PostAccepted(m) /\ ~HasIdentity(m)
    <2>1. Record(m) # Undecodable
      BY <1>3, <1>11 DEF PostAccepted, JobOK
    <2> QED
      BY <1>1, <1>2, <1>11, <2>1, SettleOK DEF PostAccepted
  <1>12. CASE RecordDelivered(m)
    <2>1. Record(m) # Undecodable
      BY <1>3, <1>12 DEF RecordDelivered, JobOK
    <2> QED
      BY <1>1, <1>2, <1>12, <2>1, SettleOK DEF RecordDelivered
  <1>13. CASE RecordFails(m)
    <2>1. pc'[m] = "backoff" /\ job'[m] = job[m]
      BY <1>1, <1>13 DEF ThreadOK, RecordFails, Goto
    <2>2. JobOK(m)'
      BY <1>3, <1>13, <2>1, ConstantsAssumption DEF RecordFails, JobOK, Sent, HasIdentity, Record, Route
    <2> QED
      BY <1>1, <1>13, <2>2, GotoOK DEF RecordFails
  <1> QED
    BY <1>5, <1>6, <1>7, <1>8, <1>9, <1>10, <1>11, <1>12, <1>13 DEF Deliver

\* Backing off and giving up do too.
LEMMA BackoffThreadOK ==
  ASSUME TypeOK, NEW m \in Members, WaitOver(m) \/ Abandon(m) \/ GiveUp(m)
  PROVE  ThreadOK'
  <1>1. ThreadOK /\ job[m] \in Jobs /\ pc[m] \in PCs
    BY DEF TypeOK, Types, ThreadOK
  <1>2. Busy(m) /\ pc[m] # "commit"
    BY DEF Busy, GiveUp, WaitOver, Abandon, Exhaust, GiveUpHeld, GiveUpHeldFails, GiveUpFailed, Declare
  <1>3. JobOK(m)
    BY <1>1, <1>2 DEF ThreadOK
  <1>4. Record(m) # Undecodable
    BY <1>2, <1>3 DEF JobOK
  <1>5. CASE WaitOver(m)
    <2>1. job' = [job EXCEPT ![m].spent = @ + 1] /\ pc' = [pc EXCEPT ![m] = ResumeAt(job[m])]
      BY <1>5 DEF WaitOver
    <2>2. /\ job'[m] = [job[m] EXCEPT !.spent = @ + 1]
          /\ pc'[m] = IF job[m].got THEN "record" ELSE "lookup"
      BY <1>1, <2>1 DEF ThreadOK, ResumeAt
    <2>3. /\ job'[m].p = job[m].p /\ job'[m].k = job[m].k /\ job'[m].i = job[m].i
          /\ job'[m].got = job[m].got /\ job'[m] \in Jobs
      BY <1>1, <2>2 DEF Jobs
    <2>4. pc' \in [Members -> PCs] /\ job' \in [Members -> Jobs]
      BY <1>1, <2>1, <2>3 DEF ThreadOK, ResumeAt
    <2>5. JobOK(m)'
      BY <1>1, <1>3, <1>5, <2>2, <2>3 DEF WaitOver, JobOK, Sent, HasIdentity, Record, Route, Jobs
    <2>6. ASSUME NEW n \in Members, n # m PROVE Busy(n)' => JobOK(n)'
      <3>1. pc'[n] = pc[n] /\ job'[n] = job[n]
        BY <1>1, <2>1, <2>6 DEF ThreadOK
      <3> QED
        BY <1>1, <3>1, JobStable DEF ThreadOK
    <2> QED
      BY <2>4, <2>5, <2>6 DEF ThreadOK
  <1>6. CASE Abandon(m)
    BY <1>1, <1>6, LetGoOK DEF Abandon
  <1>7. ASSUME NEW where \in {"giveup", "giveup2"}, Goto(m, where), HasIdentity(m), ~job[m].got
        PROVE  ThreadOK'
    <2>1. pc'[m] = where /\ job'[m] = job[m]
      BY <1>1, <1>7 DEF ThreadOK, Goto
    <2>2. JobOK(m)'
      BY <1>3, <1>4, <1>7, <2>1, ConstantsAssumption DEF JobOK, Sent, HasIdentity, Record, Route
    <2> QED
      BY <1>1, <1>7, <2>2, GotoOK
  <1>8. CASE Exhaust(m)
    <2>1. CASE HasIdentity(m) /\ ~job[m].got
      BY <1>7, <1>8, <2>1 DEF Exhaust
    <2>2. CASE ~(HasIdentity(m) /\ ~job[m].got)
      BY <1>1, <1>2, <1>4, <1>8, <2>2, SettleOK DEF Exhaust
    <2> QED
      BY <2>1, <2>2
  <1>9. CASE GiveUpHeldFails(m)
    BY <1>3, <1>7, <1>9 DEF GiveUpHeldFails, JobOK
  <1>10. CASE GiveUpHeld(m) \/ GiveUpFailed(m) \/ Declare(m)
    BY <1>1, <1>2, <1>4, <1>10, SettleOK DEF GiveUpHeld, GiveUpFailed, Declare
  <1> QED
    BY <1>5, <1>6, <1>8, <1>9, <1>10 DEF GiveUp

\* The record a poll returns is one of its partition's log.
LEMMA PollThreadOK ==
  ASSUME TypeOK, NEW m \in Members, Poll(m)
  PROVE  ThreadOK'
  <1>1. ThreadOK /\ position[m] \in [Partitions -> Nat] /\ assigned[m] \subseteq Partitions
    BY DEF TypeOK, Types, ThreadOK
  <1>2. PICK p \in assigned[m] :
          /\ position[m][p] < Len(Log[p])
          /\ job' = [job EXCEPT ![m] = Job(p, position[m][p] + 1, 1)]
          /\ pc' = [pc EXCEPT ![m] = IF Log[p][position[m][p] + 1] = Undecodable THEN "commit" ELSE "lookup"]
    BY DEF Poll
  <1>3. p \in Partitions /\ position[m][p] \in Nat
    BY <1>1
  <1>4. Len(Log[p]) \in Nat /\ Len(RoutesAt[p]) \in Nat \ {0}
    <2>1. Log[p] \in Seq(Records) /\ RoutesAt[p] \in Seq(Routes) /\ RoutesAt[p] # << >>
      BY <1>3, ConstantsAssumption, RoutesAssumption
    <2> QED
      BY <2>1
  <1>5. Job(p, position[m][p] + 1, 1) \in Jobs
    BY <1>3 DEF Job, Jobs
  <1>6. pc' \in [Members -> PCs] /\ job' \in [Members -> Jobs]
    BY <1>1, <1>2, <1>5 DEF ThreadOK
  <1>7. /\ job'[m].p = p /\ job'[m].k = position[m][p] + 1 /\ job'[m].i = 1 /\ job'[m].got = FALSE
        /\ pc'[m] = IF Log[p][position[m][p] + 1] = Undecodable THEN "commit" ELSE "lookup"
    BY <1>1, <1>2 DEF ThreadOK, Job
  <1>8. JobOK(m)'
    BY <1>2, <1>3, <1>4, <1>7 DEF JobOK, Sent, HasIdentity, Record, Route
  <1>9. ASSUME NEW n \in Members, n # m PROVE Busy(n)' => JobOK(n)'
    <2>1. pc'[n] = pc[n] /\ job'[n] = job[n]
      BY <1>1, <1>2, <1>9 DEF ThreadOK
    <2> QED
      BY <1>1, <2>1, JobStable DEF ThreadOK
  <1> QED
    BY <1>6, <1>8, <1>9 DEF ThreadOK

LEMMA ThreadStep ==
  ASSUME TypeOK, [Next]_vars
  PROVE  ThreadOK'
  <1>1. ThreadOK
    BY DEF TypeOK, Types, ThreadOK
  <1>2. ASSUME NEW m \in Members, Thread(m) PROVE ThreadOK'
    <2>1. CASE Poll(m)
      BY <2>1, PollThreadOK
    <2>2. CASE PollNothing(m) \/ RejoinFromPoll(m)
      BY <1>1, <2>2, ThreadStable DEF PollNothing, RejoinFromPoll, vars, threadVars
    <2>3. CASE Deliver(m)
      BY <2>3, DeliverThreadOK
    <2>4. CASE WaitOver(m) \/ Abandon(m) \/ GiveUp(m)
      BY <2>4, BackoffThreadOK
    <2>5. CASE CommitAccepted(m) \/ CommitRefused(m)
      BY <1>1, <2>5, LetGoOK DEF CommitAccepted, CommitRefused
    <2> QED
      BY <1>2, <2>1, <2>2, <2>3, <2>4, <2>5 DEF Thread
  <1>3. ASSUME NEW m \in Members, Crash(m) PROVE ThreadOK'
    BY <1>1, <1>3, LetGoOK DEF Crash
  <1>4. ASSUME NEW m \in Members, Restart(m) PROVE ThreadOK'
    <2>1. pc'[m] = "poll" /\ Goto(m, "poll")
      BY <1>1, <1>4 DEF Restart, Goto, ThreadOK
    <2> QED
      BY <1>1, <2>1, GotoOK DEF Busy
  <1>5. ASSUME NEW m \in Members, Evict(m) PROVE ThreadOK'
    BY <1>1, <1>5, ThreadStable DEF Evict
  <1>6. CASE CompleteRebalance
    BY <1>1, <1>6, ThreadStable DEF CompleteRebalance
  <1>7. CASE Resend
    BY <1>1, <1>7, ThreadStable DEF Resend, ResendLookup, ResendPost, ResendPostFails, RecordResend
  <1>8. CASE UNCHANGED vars
    BY <1>1, <1>8, ThreadStable DEF vars
  <1> QED
    BY <1>2, <1>3, <1>4, <1>5, <1>6, <1>7, <1>8 DEF Next

-----------------------------------------------------------------------------
(* The rest of the state. *)

GroupOK ==
    /\ committed \in [Partitions -> Nat]
    /\ membership \in [Members -> Memberships]
    /\ rebalance \in BOOLEAN
    /\ assigned \in [Members -> SUBSET Partitions]
    /\ position \in [Members -> [Partitions -> Nat]]
    /\ faults \in Nat

LedgerOK ==
    /\ ledger \in [Routes -> [EventIds -> Rows]]
    /\ op \in {NoOp} \cup [stage : {"checked", "sent"}, r : Dedupe \ Held, e : EventIds]
    /\ accepted \in [Routes -> [EventIds -> Nat]]
    /\ excused \in [Routes -> [EventIds -> Nat]]

LEMMA NoPositionType == NoPosition \in [Partitions -> Nat]
  BY DEF NoPosition

LEMMA RejoinOK ==
  ASSUME GroupOK, faults' = faults, NEW m \in Members, Rejoin(m)
  PROVE  GroupOK'
  BY NoPositionType DEF GroupOK, Rejoin

LEMMA GroupStable ==
  ASSUME GroupOK, UNCHANGED <<groupVars, clientVars>>, faults' \in Nat
  PROVE  GroupOK'
  BY DEF GroupOK, groupVars, clientVars

LEMMA FaultOK ==
  ASSUME faults \in Nat, NEW kind, Fault(kind)
  PROVE  faults' \in Nat
  BY DEF Fault

LEMMA GroupStep ==
  ASSUME TypeOK, [Next]_vars
  PROVE  GroupOK'
  <1>1. GroupOK /\ faults \in Nat
    BY DEF TypeOK, Types, GroupOK
  <1>2. ASSUME NEW m \in Members, Thread(m) PROVE GroupOK'
    <2>1. CASE Poll(m)
      <3>1. PICK p \in assigned[m] : position' = [position EXCEPT ![m][p] = position[m][p] + 1]
        BY <2>1 DEF Poll
      <3>2. position' \in [Members -> [Partitions -> Nat]]
        BY <1>1, <3>1 DEF GroupOK
      <3> QED
        BY <1>1, <2>1, <3>2 DEF Poll, GroupOK, groupVars
    <2>2. CASE RejoinFromPoll(m) \/ Abandon(m)
      BY <1>1, <2>2, RejoinOK DEF RejoinFromPoll, Abandon
    <2>3. CASE PollNothing(m)
      BY <1>1, <2>3, GroupStable DEF PollNothing, vars
    <2>4. CASE Deliver(m)
      <3>1. UNCHANGED <<groupVars, clientVars>>
        BY <2>4 DEF Deliver, NoEventId, Lookup, LookupFails, Hold, HoldFails, PostAccepted, PostFails,
           PostAcceptedUnseen, PostRejected, RecordDelivered, RecordFails
      <3>2. faults' = faults \/ Fault("lost_response")
        BY <2>4 DEF Deliver, NoEventId, Lookup, LookupFails, Hold, HoldFails, PostAccepted, PostFails,
           PostAcceptedUnseen, PostRejected, RecordDelivered, RecordFails
      <3> QED
        BY <1>1, <3>1, <3>2, FaultOK, GroupStable
    <2>5. CASE WaitOver(m) \/ GiveUp(m)
      BY <1>1, <2>5, GroupStable
         DEF WaitOver, GiveUp, Exhaust, GiveUpHeld, GiveUpHeldFails, GiveUpFailed, Declare
    <2>6. CASE CommitAccepted(m)
      <3>1. job[m].k \in Nat /\ committed' = [committed EXCEPT ![job[m].p] = job[m].k]
        BY <2>6 DEF TypeOK, Types, Jobs, CommitAccepted
      <3> QED
        BY <1>1, <2>6, <3>1 DEF GroupOK, CommitAccepted, clientVars
    <2>7. CASE CommitRefused(m)
      BY <1>1, <2>7, GroupStable DEF CommitRefused
    <2> QED
      BY <1>2, <2>1, <2>2, <2>3, <2>4, <2>5, <2>6, <2>7 DEF Thread
  <1>3. ASSUME NEW m \in Members, Crash(m) PROVE GroupOK'
    BY <1>1, <1>3, FaultOK, NoPositionType DEF Crash, GroupOK, groupVars
  <1>4. ASSUME NEW m \in Members, Restart(m) PROVE GroupOK'
    BY <1>1, <1>4, NoPositionType DEF Restart, GroupOK, groupVars
  <1>5. ASSUME NEW m \in Members, Evict(m) PROVE GroupOK'
    BY <1>1, <1>5, FaultOK DEF Evict, GroupOK, clientVars
  <1>6. CASE CompleteRebalance
    <2>1. assigned' \in [Members -> SUBSET Partitions]
      <3> DEFINE joining == {m \in Members : membership[m] = "joining"}
      <3>1. PICK owner \in [Partitions -> joining] :
              assigned' = [m \in Members |-> IF m \in joining
                                             THEN {p \in Partitions : owner[p] = m}
                                             ELSE assigned[m]]
        BY <1>6 DEF CompleteRebalance
      <3>2. ASSUME NEW m \in Members
            PROVE  (IF m \in joining THEN {p \in Partitions : owner[p] = m} ELSE assigned[m])
                     \in SUBSET Partitions
        BY <1>1 DEF GroupOK
      <3> QED
        BY <3>1, <3>2
    <2>2. position' \in [Members -> [Partitions -> Nat]]
      <3> DEFINE joining == {m \in Members : membership[m] = "joining"}
      <3>1. position' = [m \in Members |-> IF m \in joining THEN committed ELSE position[m]]
        BY <1>6 DEF CompleteRebalance
      <3>2. ASSUME NEW m \in Members
            PROVE  (IF m \in joining THEN committed ELSE position[m]) \in [Partitions -> Nat]
        BY <1>1 DEF GroupOK
      <3> QED
        BY <3>1, <3>2
    <2>3. membership' \in [Members -> Memberships]
      BY <1>1, <1>6 DEF CompleteRebalance, GroupOK
    <2> QED
      BY <1>1, <1>6, <2>1, <2>2, <2>3 DEF CompleteRebalance, GroupOK
  <1>7. CASE Resend
    <2>1. UNCHANGED <<groupVars, clientVars>> /\ (faults' = faults \/ Fault("resend"))
      BY <1>7 DEF Resend, ResendLookup, ResendPost, ResendPostFails, RecordResend
    <2> QED
      BY <1>1, <2>1, FaultOK, GroupStable
  <1>8. CASE UNCHANGED vars
    BY <1>1, <1>8, GroupStable DEF vars
  <1> QED
    BY <1>2, <1>3, <1>4, <1>5, <1>6, <1>7, <1>8 DEF Next

LEMMA UpsertType ==
  ASSUME NEW row \in Rows, NEW outcome \in Rows
  PROVE  Upsert(row, outcome) \in Rows
  BY DEF Upsert

\* Changing one cell of a table keeps it one.
LEMMA CellType ==
  ASSUME NEW S, NEW A, NEW B, NEW f \in [A -> [B -> S]], NEW a, NEW b, NEW v,
         (a \in A /\ b \in B) => v \in S
  PROVE  [f EXCEPT ![a][b] = v] \in [A -> [B -> S]]
  <1> DEFINE g == [f EXCEPT ![a][b] = v]
  <1>1. ASSUME NEW x \in A PROVE g[x] \in [B -> S]
    <2>1. CASE x = a
      <3>1. g[x] = [f[a] EXCEPT ![b] = v] /\ f[a] \in [B -> S]
        BY <2>1
      <3> HIDE DEF g
      <3>2. ASSUME NEW y \in B PROVE [f[a] EXCEPT ![b] = v][y] \in S
        BY <2>1, <3>1
      <3> QED
        BY <3>1, <3>2
    <2>2. CASE x # a
      BY <2>2
    <2> QED
      BY <2>1, <2>2
  <1> QED
    BY <1>1

LEMMA WriteRowType ==
  ASSUME ledger \in [Routes -> [EventIds -> Rows]],
         NEW r, NEW e, NEW outcome \in Rows, WriteRow(r, e, outcome)
  PROVE  ledger' \in [Routes -> [EventIds -> Rows]]
  <1> DEFINE row == Upsert(ledger[r][e], outcome)
  <1>1. (r \in Routes /\ e \in EventIds) => row \in Rows
    BY UpsertType
  <1>2. ledger' = [ledger EXCEPT ![r][e] = row]
    BY DEF WriteRow
  <1> HIDE DEF row
  <1> QED
    BY <1>1, <1>2, CellType

\* One more in a table of counters.
LEMMA CountType ==
  ASSUME NEW f \in [Routes -> [EventIds -> Nat]], NEW r, NEW e
  PROVE  [f EXCEPT ![r][e] = @ + 1] \in [Routes -> [EventIds -> Nat]]
  <1> DEFINE n == f[r][e] + 1
  <1>1. (r \in Routes /\ e \in EventIds) => n \in Nat
    OBVIOUS
  <1>2. [f EXCEPT ![r][e] = @ + 1] = [f EXCEPT ![r][e] = n]
    OBVIOUS
  <1> HIDE DEF n
  <1>3. [f EXCEPT ![r][e] = n] \in [Routes -> [EventIds -> Nat]]
    BY <1>1, CellType
  <1> QED
    BY <1>2, <1>3

LEMMA AcceptType ==
  ASSUME accepted \in [Routes -> [EventIds -> Nat]], excused \in [Routes -> [EventIds -> Nat]],
         NEW r, NEW e, NEW isExcused, Accept(r, e, isExcused)
  PROVE  accepted' \in [Routes -> [EventIds -> Nat]] /\ excused' \in [Routes -> [EventIds -> Nat]]
  BY CountType DEF Accept

LEMMA OrphanType ==
  ASSUME accepted \in [Routes -> [EventIds -> Nat]], excused \in [Routes -> [EventIds -> Nat]],
         NEW m, Orphan(m)
  PROVE  accepted' \in [Routes -> [EventIds -> Nat]] /\ excused' \in [Routes -> [EventIds -> Nat]]
  BY CountType DEF Orphan

LEMMA LedgerStep ==
  ASSUME TypeOK, [Next]_vars
  PROVE  LedgerOK'
  <1>1. LedgerOK
    BY DEF TypeOK, Types, LedgerOK
  <1>2. ASSUME NEW m \in Members, Deliver(m) PROVE LedgerOK'
    <2>1. op' = op
      BY <1>2 DEF Deliver, NoEventId, Lookup, LookupFails, Hold, HoldFails, PostAccepted, PostFails,
         PostAcceptedUnseen, PostRejected, RecordDelivered, RecordFails
    <2>2. ledger' = ledger \/ \E o \in Rows : WriteRow(Route(m), Record(m), o)
      BY <1>2 DEF Deliver, NoEventId, Lookup, LookupFails, Hold, HoldFails, PostAccepted, PostFails,
         PostAcceptedUnseen, PostRejected, RecordDelivered, RecordFails
    <2>3. UNCHANGED historyVars \/ \E b \in BOOLEAN : Accept(Route(m), Record(m), b)
      BY <1>2 DEF Deliver, NoEventId, Lookup, LookupFails, Hold, HoldFails, PostAccepted, PostFails,
         PostAcceptedUnseen, PostRejected, RecordDelivered, RecordFails
    <2>4. ledger' \in [Routes -> [EventIds -> Rows]]
      BY <1>1, <2>2, WriteRowType DEF LedgerOK
    <2>5. accepted' \in [Routes -> [EventIds -> Nat]] /\ excused' \in [Routes -> [EventIds -> Nat]]
      BY <1>1, <2>3, AcceptType DEF LedgerOK, historyVars
    <2> QED
      BY <1>1, <2>1, <2>4, <2>5 DEF LedgerOK
  <1>3. ASSUME NEW m \in Members, GiveUp(m) PROVE LedgerOK'
    <2>1. op' = op
      BY <1>3 DEF GiveUp, Exhaust, GiveUpHeld, GiveUpHeldFails, GiveUpFailed, Declare
    <2>2. ledger' = ledger \/ \E o \in Rows : WriteRow(Route(m), Record(m), o)
      BY <1>3 DEF GiveUp, Exhaust, GiveUpHeld, GiveUpHeldFails, GiveUpFailed, Declare
    <2>3. UNCHANGED historyVars \/ Orphan(m)
      BY <1>3 DEF GiveUp, Exhaust, GiveUpHeld, GiveUpHeldFails, GiveUpFailed, Declare
    <2>4. ledger' \in [Routes -> [EventIds -> Rows]]
      BY <1>1, <2>2, WriteRowType DEF LedgerOK
    <2>5. accepted' \in [Routes -> [EventIds -> Nat]] /\ excused' \in [Routes -> [EventIds -> Nat]]
      BY <1>1, <2>3, OrphanType DEF LedgerOK, historyVars
    <2> QED
      BY <1>1, <2>1, <2>4, <2>5 DEF LedgerOK
  <1>4. ASSUME NEW m \in Members, Abandon(m) \/ Crash(m) \/ Evict(m) PROVE LedgerOK'
    <2>1. UNCHANGED <<ledger, op>> /\ Orphan(m)
      BY <1>4 DEF Abandon, Crash, Evict
    <2> QED
      BY <1>1, <2>1, OrphanType DEF LedgerOK
  <1>5. ASSUME NEW m \in Members,
               Poll(m) \/ PollNothing(m) \/ RejoinFromPoll(m) \/ WaitOver(m)
                 \/ CommitAccepted(m) \/ CommitRefused(m) \/ Restart(m)
        PROVE  LedgerOK'
    BY <1>1, <1>5 DEF Poll, PollNothing, RejoinFromPoll, WaitOver, CommitAccepted, CommitRefused, Restart,
       LedgerOK, historyVars, vars
  <1>6. CASE CompleteRebalance
    BY <1>1, <1>6 DEF CompleteRebalance, LedgerOK, historyVars
  <1>7. CASE ResendLookup
    BY <1>1, <1>7 DEF ResendLookup, LedgerOK, historyVars
  <1>8. CASE ResendPost \/ ResendPostFails
    <2>1. op.stage = "checked"
      BY <1>8 DEF ResendPost, ResendPostFails
    <2>2. op \in [stage : {"checked", "sent"}, r : Dedupe \ Held, e : EventIds]
      BY <1>1, <2>1 DEF LedgerOK, NoOp
    <2>3. op' \in {NoOp, [op EXCEPT !.stage = "sent"]}
      BY <1>8 DEF ResendPost, ResendPostFails
    <2>4. op' \in {NoOp} \cup [stage : {"checked", "sent"}, r : Dedupe \ Held, e : EventIds]
      BY <2>2, <2>3
    <2>5. UNCHANGED historyVars \/ Accept(op.r, op.e, TRUE)
      BY <1>8 DEF ResendPost, ResendPostFails
    <2>6. accepted' \in [Routes -> [EventIds -> Nat]] /\ excused' \in [Routes -> [EventIds -> Nat]]
      BY <1>1, <2>5, AcceptType DEF LedgerOK, historyVars
    <2> QED
      BY <1>1, <1>8, <2>4, <2>6 DEF LedgerOK, ResendPost, ResendPostFails
  <1>9. CASE RecordResend
    <2>1. ledger' \in [Routes -> [EventIds -> Rows]]
      <3> DEFINE row == IF ledger[op.r][op.e] = "none" THEN "none" ELSE "delivered"
      <3>1. row \in Rows
        OBVIOUS
      <3>2. ledger' = ledger \/ ledger' = [ledger EXCEPT ![op.r][op.e] = row]
        BY <1>9 DEF RecordResend
      <3> HIDE DEF row
      <3>3. [ledger EXCEPT ![op.r][op.e] = row] \in [Routes -> [EventIds -> Rows]]
        BY <1>1, <3>1, CellType DEF LedgerOK
      <3> QED
        BY <1>1, <3>2, <3>3 DEF LedgerOK
    <2> QED
      BY <1>1, <1>9, <2>1 DEF LedgerOK, RecordResend, historyVars
  <1>10. CASE UNCHANGED vars
    BY <1>1, <1>10 DEF LedgerOK, vars, historyVars
  <1> QED
    BY <1>2, <1>3, <1>4, <1>5, <1>6, <1>7, <1>8, <1>9, <1>10 DEF Next, Thread, Resend

Settlements == [p : Partitions, k : Nat, i : Nat, how : Hows]

\* Outcomes are recorded of records that are being delivered, and are kept.
LEMMA SettledStep ==
  ASSUME TypeOK, [Next]_vars
  PROVE  settled \subseteq settled' /\ settled' \subseteq Settlements
  <1>1. settled \subseteq Settlements /\ \A m \in Members : job[m] \in Jobs
    BY DEF TypeOK, Types, Settlements
  <1>2. ASSUME NEW m \in Members, NEW how \in Hows, Settle(m, how)
        PROVE  settled \subseteq settled' /\ settled' \subseteq Settlements
    BY <1>1, <1>2 DEF Settle, Settlements, Jobs
  <1>3. ASSUME NEW m \in Members, Poll(m)
        PROVE  settled \subseteq settled' /\ settled' \subseteq Settlements
    <2>1. PICK p \in assigned[m] :
            settled' \in {settled, settled \cup
              {[p |-> p, k |-> position[m][p] + 1, i |-> i, how |-> "undecodable"] : i \in 1..Len(RoutesAt[p])}}
      BY <1>3 DEF Poll
    <2>2. p \in Partitions /\ position[m][p] \in Nat
      BY DEF TypeOK, Types
    <2>3. Len(RoutesAt[p]) \in Nat
      BY <2>2, ConstantsAssumption
    <2>4. \A i \in 1..Len(RoutesAt[p]) :
            [p |-> p, k |-> position[m][p] + 1, i |-> i, how |-> "undecodable"] \in Settlements
      BY <2>2, <2>3 DEF Settlements
    <2> QED
      BY <1>1, <2>1, <2>4
  <1>4. CASE UNCHANGED settled
    BY <1>1, <1>4
  <1>5. ASSUME NEW m \in Members, Deliver(m) \/ GiveUp(m)
        PROVE  UNCHANGED settled \/ \E how \in Hows : Settle(m, how)
    BY <1>5 DEF Deliver, NoEventId, Lookup, LookupFails, Hold, HoldFails, PostAccepted, PostFails,
       PostAcceptedUnseen, PostRejected, RecordDelivered, RecordFails,
       GiveUp, Exhaust, GiveUpHeld, GiveUpHeldFails, GiveUpFailed, Declare
  <1>6. ASSUME NEW m \in Members,
               PollNothing(m) \/ RejoinFromPoll(m) \/ WaitOver(m) \/ Abandon(m)
                 \/ CommitAccepted(m) \/ CommitRefused(m) \/ Crash(m) \/ Restart(m) \/ Evict(m)
        PROVE  UNCHANGED settled
    BY <1>6 DEF PollNothing, RejoinFromPoll, WaitOver, Abandon, CommitAccepted, CommitRefused,
       Crash, Restart, Evict, vars
  <1>7. ASSUME CompleteRebalance \/ Resend \/ UNCHANGED vars
        PROVE  UNCHANGED settled
    BY <1>7 DEF CompleteRebalance, Resend, ResendLookup, ResendPost, ResendPostFails, RecordResend, vars
  <1> QED
    BY <1>2, <1>3, <1>4, <1>5, <1>6, <1>7 DEF Next, Thread

-----------------------------------------------------------------------------

LEMMA InitType == Init => TypeOK
  <1> SUFFICES ASSUME Init PROVE TypeOK
    OBVIOUS
  <1>1. Types
    BY NoJobType, NoPositionType, ConstantsAssumption DEF Init, Types
  <1>2. \A m \in Members : ~Busy(m)
    BY DEF Init, Busy
  <1> QED
    BY <1>1, <1>2 DEF TypeOK

LEMMA StepType == TypeOK /\ [Next]_vars => TypeOK'
  <1> SUFFICES ASSUME TypeOK, [Next]_vars PROVE TypeOK'
    OBVIOUS
  <1>1. ThreadOK' /\ GroupOK' /\ LedgerOK' /\ settled' \subseteq Settlements
    BY ThreadStep, GroupStep, LedgerStep, SettledStep
  <1> QED
    BY <1>1 DEF TypeOK, Types, ThreadOK, GroupOK, LedgerOK, Settlements

\* Every variable keeps its type and no process ever stands at a point of
\* _deliver_inner that its record and route do not allow: a ledger write is
\* reached only with an event identity, and the write of a delivered row only
\* after a 2xx.
THEOREM TypeCorrect == Spec => []TypeOK
  BY InitType, StepType, PTL DEF Spec

\* A thread's step moves no other thread.
LEMMA ThreadMovesItself ==
  ASSUME TypeOK, NEW n \in Members, NEW m \in Members \ {n},
         Thread(n) \/ Crash(n) \/ Restart(n) \/ Evict(n)
  PROVE  pc'[m] = pc[m] /\ job'[m] = job[m]
  <1>0. pc \in [Members -> PCs] /\ job \in [Members -> Jobs]
    BY DEF TypeOK, Types
  <1>1. \A where : Goto(n, where) \/ LetGo(n, where) => pc'[m] = pc[m] /\ job'[m] = job[m]
    BY <1>0 DEF Goto, LetGo
  <1>2. NextRoute(n) => pc'[m] = pc[m] /\ job'[m] = job[m]
    BY <1>0 DEF NextRoute
  <1>3. CASE Poll(n)
    BY <1>0, <1>3 DEF Poll
  <1>4. CASE PollNothing(n) \/ RejoinFromPoll(n) \/ Evict(n)
    BY <1>4 DEF PollNothing, RejoinFromPoll, Evict, vars, threadVars
  <1>5. CASE Deliver(n)
    BY <1>0, <1>1, <1>2, <1>5
    DEF Deliver, NoEventId, Lookup, LookupFails, Hold, HoldFails, PostAccepted, PostFails,
        PostAcceptedUnseen, PostRejected, RecordDelivered, RecordFails, Settle
  <1>6. CASE WaitOver(n)
    BY <1>0, <1>6 DEF WaitOver
  <1>7. CASE GiveUp(n)
    BY <1>1, <1>2, <1>7
    DEF GiveUp, Exhaust, GiveUpHeld, GiveUpHeldFails, GiveUpFailed, Declare, Settle
  <1>8. CASE Abandon(n) \/ CommitAccepted(n) \/ CommitRefused(n) \/ Crash(n) \/ Restart(n)
    BY <1>1, <1>8 DEF Abandon, CommitAccepted, CommitRefused, Crash, Restart
  <1> QED
    BY <1>3, <1>4, <1>5, <1>6, <1>7, <1>8 DEF Thread

-----------------------------------------------------------------------------
(* The order of outcomes. *)

\* What a thread in a delivery has behind it: every earlier record, and every
\* earlier route of its own record.
Behind(m) ==
    Busy(m) =>
        /\ \A l \in 1..(job[m].k - 1) : AllDone(job[m].p, l)
        /\ pc[m] # "commit" => \A j \in 1..(job[m].i - 1) : Done(job[m].p, job[m].k, j)
        /\ pc[m] = "commit" => AllDone(job[m].p, job[m].k)

\* What a consumer's position has behind it: everything but the record in flight.
Passed(m) ==
    \A p \in assigned[m] : \A l \in 1..position[m][p] :
        AllDone(p, l) \/ (Busy(m) /\ job[m].p = p /\ job[m].k = l)

\* The inductive invariant.
OrderInv ==
    /\ \A m \in Members : Behind(m) /\ Passed(m)
    /\ NoSilentLoss
    /\ HeadOfLine

-----------------------------------------------------------------------------
(* Outcomes are only added. *)

LEMMA DoneGrows ==
  ASSUME settled \subseteq settled', NEW p, NEW k
  PROVE  (\A i : Done(p, k, i) => Done(p, k, i)') /\ (AllDone(p, k) => AllDone(p, k)')
  BY DEF Done, AllDone

LEMMA NoSilentLossStable ==
  ASSUME NoSilentLoss, settled \subseteq settled', committed' = committed
  PROVE  NoSilentLoss'
  BY DoneGrows DEF NoSilentLoss

LEMMA HeadOfLineStable ==
  ASSUME HeadOfLine, settled' = settled
  PROVE  HeadOfLine'
  BY DoneGrows DEF HeadOfLine

LEMMA BehindStable ==
  ASSUME NEW m, Behind(m), settled \subseteq settled',
         Busy(m)' => Busy(m) /\ (pc'[m] = "commit" <=> pc[m] = "commit")
                     /\ job'[m].p = job[m].p /\ job'[m].k = job[m].k /\ job'[m].i = job[m].i
  PROVE  Behind(m)'
  BY DoneGrows DEF Behind

LEMMA PassedStable ==
  ASSUME NEW m, Passed(m), settled \subseteq settled',
         assigned'[m] = {} \/ (assigned'[m] = assigned[m] /\ position'[m] = position[m]),
         \/ assigned'[m] = {}
         \/ ~Busy(m)
         \/ Busy(m)' /\ job'[m].p = job[m].p /\ job'[m].k = job[m].k
         \/ AllDone(job[m].p, job[m].k)
  PROVE  Passed(m)'
  BY DoneGrows DEF Passed

\* A step that settles nothing, commits nothing and lets every thread either
\* stay on its record and route or drop what it holds.
LEMMA OrderStable ==
  ASSUME OrderInv, settled' = settled, committed' = committed,
         \A m \in Members :
            /\ assigned'[m] = {} \/ (assigned'[m] = assigned[m] /\ position'[m] = position[m])
            /\ \/ pc'[m] = pc[m] /\ job'[m] = job[m]
               \/ ~Busy(m)' /\ (~Busy(m) \/ assigned'[m] = {})
               \/ /\ Busy(m) /\ Busy(m)' /\ pc[m] # "commit" /\ pc'[m] # "commit"
                  /\ job'[m].p = job[m].p /\ job'[m].k = job[m].k /\ job'[m].i = job[m].i
  PROVE  OrderInv'
  <1>1. ASSUME NEW m \in Members PROVE Behind(m)'
    BY <1>1, BehindStable DEF OrderInv, Busy
  <1>2. ASSUME NEW m \in Members PROVE Passed(m)'
    BY <1>2, PassedStable DEF OrderInv, Busy
  <1> QED
    BY <1>1, <1>2, NoSilentLossStable, HeadOfLineStable DEF OrderInv

-----------------------------------------------------------------------------
(* The steps that settle or commit. *)

\* A terminal outcome of m's record on its current route.
LEMMA SettleOrder ==
  ASSUME TypeOK, OrderInv, NEW m \in Members, Busy(m), pc[m] # "commit",
         NEW how, Settle(m, how), UNCHANGED <<committed, assigned, position>>
  PROVE  OrderInv'
  <1>0. PICK p, k, i : p = job[m].p /\ k = job[m].k /\ i = job[m].i
    OBVIOUS
  <1>1. /\ p \in Partitions /\ k \in Nat /\ i \in 1..Len(RoutesAt[p])
        /\ pc \in [Members -> PCs] /\ job \in [Members -> Jobs]
    BY <1>0 DEF TypeOK, Types, Jobs, JobOK
  <1>2. settled' = settled \cup {[p |-> p, k |-> k, i |-> i, how |-> how]}
    BY <1>0 DEF Settle
  <1>3. settled \subseteq settled' /\ Done(p, k, i)'
    <2> DEFINE new == [p |-> p, k |-> k, i |-> i, how |-> how]
    <2>1. settled \subseteq settled' /\ new \in settled'
      BY <1>2
    <2>2. new.p = p /\ new.k = k /\ new.i = i
      OBVIOUS
    <2> HIDE DEF new
    <2> QED
      BY <2>1, <2>2 DEF Done
  <1>4. Len(RoutesAt[p]) \in Nat
    BY <1>1, ConstantsAssumption
  <1>5. (\A l \in 1..(k - 1) : AllDone(p, l)') /\ (\A j \in 1..i : Done(p, k, j)')
    <2>1. (\A l \in 1..(k - 1) : AllDone(p, l)) /\ (\A j \in 1..(i - 1) : Done(p, k, j))
      BY <1>0 DEF OrderInv, Behind
    <2>2. \A l \in 1..(k - 1) : AllDone(p, l)'
      BY <1>3, <2>1, DoneGrows
    <2>3. ASSUME NEW j \in 1..i PROVE Done(p, k, j)'
      <3>1. j \in 1..(i - 1) \/ j = i
        BY <1>1, <1>4
      <3> QED
        BY <1>3, <2>1, <3>1, DoneGrows
    <2> QED
      BY <2>2, <2>3
  <1>6. /\ job'[m].p = p /\ job'[m].k = k /\ Busy(m)'
        /\ \/ pc'[m] = "commit" /\ i = Len(RoutesAt[p])
           \/ pc'[m] # "commit" /\ job'[m].i = i + 1
    BY <1>0, <1>1, <1>4 DEF Settle, NextRoute, Busy, Job
  <1>7. Behind(m)'
    BY <1>1, <1>4, <1>5, <1>6 DEF Behind, AllDone
  <1>8. ASSUME NEW n \in Members, n # m PROVE pc'[n] = pc[n] /\ job'[n] = job[n]
    BY <1>1, <1>8 DEF Settle, NextRoute
  <1>9. ASSUME NEW n \in Members PROVE Behind(n)'
    BY <1>3, <1>7, <1>8, BehindStable DEF OrderInv, Busy
  <1>10. ASSUME NEW n \in Members PROVE Passed(n)'
    <2>1. assigned'[n] = assigned[n] /\ position'[n] = position[n]
      OBVIOUS
    <2>2. ~Busy(n) \/ (Busy(n)' /\ job'[n].p = job[n].p /\ job'[n].k = job[n].k)
      BY <1>0, <1>6, <1>8 DEF Busy
    <2> QED
      BY <1>3, <2>1, <2>2, PassedStable DEF OrderInv
  <1>11. HeadOfLine'
    <2>1. ASSUME NEW s \in settled', NEW l \in 1..(s.k - 1) PROVE AllDone(s.p, l)'
      <3>1. CASE s \in settled
        BY <1>3, <2>1, <3>1, DoneGrows DEF OrderInv, HeadOfLine
      <3>2. CASE s \notin settled
        <4>1. s.p = p /\ s.k = k
          BY <1>2, <2>1, <3>2
        <4> QED
          BY <1>5, <2>1, <4>1
      <3> QED
        BY <3>1, <3>2
    <2> QED
      BY <2>1 DEF HeadOfLine
  <1> QED
    BY <1>3, <1>9, <1>10, <1>11, NoSilentLossStable DEF OrderInv

\* A record enters the thread; one that does not decode is settled at once.
LEMMA PollOrder ==
  ASSUME TypeOK, OrderInv, NEW m \in Members, Poll(m)
  PROVE  OrderInv'
  <1>1. PICK p \in assigned[m] :
          LET k == position[m][p] + 1
              bad == Log[p][k] = Undecodable
          IN /\ position' = [position EXCEPT ![m][p] = k]
             /\ job' = [job EXCEPT ![m] = Job(p, k, 1)]
             /\ pc' = [pc EXCEPT ![m] = IF bad THEN "commit" ELSE "lookup"]
             /\ settled' = IF bad
                           THEN settled \cup {[p |-> p, k |-> k, i |-> i, how |-> "undecodable"] :
                                                 i \in 1..Len(RoutesAt[p])}
                           ELSE settled
    BY DEF Poll
  <1>0. PICK k : k = position[m][p] + 1
    OBVIOUS
  <1>2. /\ p \in Partitions /\ k \in Nat /\ position[m] \in [Partitions -> Nat]
        /\ pc \in [Members -> PCs] /\ job \in [Members -> Jobs]
        /\ position \in [Members -> [Partitions -> Nat]]
    BY <1>0 DEF TypeOK, Types
  <1>3. settled \subseteq settled' /\ ~Busy(m)
    BY <1>1 DEF Poll, Busy
  <1>4. \A l \in 1..(k - 1) : AllDone(p, l)
    BY <1>0, <1>2, <1>3 DEF OrderInv, Passed
  <1>5. \A l \in 1..(k - 1) : AllDone(p, l)'
    BY <1>3, <1>4, DoneGrows
  <1>6. /\ Busy(m)' /\ job'[m].p = p /\ job'[m].k = k /\ job'[m].i = 1
        /\ pc'[m] = IF Log[p][k] = Undecodable THEN "commit" ELSE "lookup"
    BY <1>0, <1>1, <1>2 DEF Busy, Job
  <1>7. Log[p][k] = Undecodable => AllDone(p, k)'
    <2> SUFFICES ASSUME Log[p][k] = Undecodable, NEW i \in 1..Len(RoutesAt[p])
                 PROVE  Done(p, k, i)'
      BY DEF AllDone
    <2>1. [p |-> p, k |-> k, i |-> i, how |-> "undecodable"] \in settled'
      BY <1>0, <1>1
    <2> QED
      BY <2>1 DEF Done
  <1>8. Behind(m)'
    BY <1>5, <1>6, <1>7 DEF Behind
  <1>9. ASSUME NEW n \in Members, n # m
        PROVE  pc'[n] = pc[n] /\ job'[n] = job[n] /\ position'[n] = position[n]
    BY <1>1, <1>2, <1>9
  <1>10. ASSUME NEW n \in Members PROVE Behind(n)'
    BY <1>3, <1>8, <1>9, BehindStable DEF OrderInv, Busy
  <1>11. assigned' = assigned /\ committed' = committed
    BY DEF Poll, groupVars
  <1>12. Passed(m)'
    <2>1. ASSUME NEW q \in assigned[m], NEW l \in 1..position'[m][q]
          PROVE  AllDone(q, l)' \/ (Busy(m)' /\ job'[m].p = q /\ job'[m].k = l)
      <3>1. q \in Partitions /\ position[m][q] \in Nat
        BY <1>2 DEF TypeOK, Types
      <3>2. CASE q = p
        <4>1. position'[m][q] = k
          BY <1>0, <1>1, <1>2, <3>2
        <4>2. l \in 1..k /\ k \in Nat
          BY <1>2, <2>1, <4>1
        <4>3. l = k \/ l \in 1..(k - 1)
          BY <4>2
        <4>4. CASE l = k
          BY <1>6, <3>2, <4>4
        <4>5. CASE l \in 1..(k - 1)
          BY <1>5, <3>2, <4>5
        <4> QED
          BY <4>3, <4>4, <4>5
      <3>3. CASE q # p
        <4>1. position'[m][q] = position[m][q]
          BY <1>1, <1>2, <3>1, <3>3
        <4>2. AllDone(q, l)
          BY <1>3, <2>1, <4>1 DEF OrderInv, Passed
        <4> QED
          BY <1>3, <4>2, DoneGrows
      <3> QED
        BY <3>2, <3>3
    <2> QED
      BY <1>11, <2>1 DEF Passed
  <1>13. ASSUME NEW n \in Members PROVE Passed(n)'
    <2>1. CASE n = m
      BY <1>12, <2>1
    <2>2. CASE n # m
      BY <1>3, <1>9, <1>11, <2>2, PassedStable DEF OrderInv, Busy
    <2> QED
      BY <2>1, <2>2
  <1>14. HeadOfLine'
    <2>1. ASSUME NEW s \in settled', NEW l \in 1..(s.k - 1) PROVE AllDone(s.p, l)'
      <3>1. CASE s \in settled
        BY <1>3, <2>1, <3>1, DoneGrows DEF OrderInv, HeadOfLine
      <3>2. CASE s \notin settled
        <4>1. s.p = p /\ s.k = k
          BY <1>0, <1>1, <2>1, <3>2
        <4> QED
          BY <1>5, <2>1, <4>1
      <3> QED
        BY <3>1, <3>2
    <2> QED
      BY <2>1 DEF HeadOfLine
  <1> QED
    BY <1>3, <1>10, <1>11, <1>13, <1>14, NoSilentLossStable DEF OrderInv

\* The commit: the record in flight is settled, and so are those before it.
LEMMA CommitOrder ==
  ASSUME TypeOK, OrderInv, NEW m \in Members, CommitAccepted(m) \/ CommitRefused(m)
  PROVE  OrderInv'
  <1>1. /\ pc[m] = "commit" /\ Busy(m) /\ settled' = settled
        /\ assigned' = assigned /\ position' = position
        /\ LetGo(m, "poll")
    BY DEF CommitAccepted, CommitRefused, clientVars, Busy
  <1>2. pc \in [Members -> PCs] /\ job \in [Members -> Jobs] /\ committed \in [Partitions -> Nat]
    BY DEF TypeOK, Types
  <1>3. /\ ~Busy(m)'
        /\ \A n \in Members : n # m => pc'[n] = pc[n] /\ job'[n] = job[n]
    BY <1>1, <1>2 DEF LetGo, Busy
  <1>4. AllDone(job[m].p, job[m].k) /\ \A l \in 1..(job[m].k - 1) : AllDone(job[m].p, l)
    BY <1>1 DEF OrderInv, Behind
  <1>5. ASSUME NEW n \in Members PROVE Behind(n)' /\ Passed(n)'
    <2>1. Behind(n)'
      BY <1>1, <1>3, BehindStable DEF OrderInv, Busy
    <2>2. Passed(n)'
      BY <1>1, <1>3, <1>4, PassedStable DEF OrderInv, Busy
    <2> QED
      BY <2>1, <2>2
  <1>6. job[m].p \in Partitions /\ job[m].k \in Nat
    BY <1>2 DEF Jobs
  <1>7. committed' \in {committed, [committed EXCEPT ![job[m].p] = job[m].k]}
    BY DEF CommitAccepted, CommitRefused, groupVars
  <1>8. NoSilentLoss'
    <2>1. ASSUME NEW p \in Partitions, NEW l \in 1..committed'[p] PROVE AllDone(p, l)
      <3>1. CASE committed'[p] = committed[p]
        BY <2>1, <3>1 DEF OrderInv, NoSilentLoss
      <3>2. CASE p = job[m].p /\ committed'[p] = job[m].k
        BY <1>4, <1>6, <2>1, <3>2
      <3> QED
        BY <1>2, <1>6, <1>7, <3>1, <3>2
    <2> QED
      BY <1>1, <2>1, DoneGrows DEF NoSilentLoss
  <1> QED
    BY <1>1, <1>5, <1>8, HeadOfLineStable DEF OrderInv

\* A rebalance: the new owners start from the committed offsets.
LEMMA RebalanceOrder ==
  ASSUME TypeOK, OrderInv, CompleteRebalance
  PROVE  OrderInv'
  <1>1. /\ UNCHANGED <<pc, job, settled, committed>>
    BY DEF CompleteRebalance, threadVars
  <1>2. /\ assigned \in [Members -> SUBSET Partitions] /\ committed \in [Partitions -> Nat]
        /\ assigned' \in [Members -> SUBSET Partitions]
    BY GroupStep DEF TypeOK, Types, GroupOK, Next
  <1>3. ASSUME NEW m \in Members PROVE Passed(m)'
    <2>1. CASE position'[m] = committed
      <3>1. \A p \in assigned'[m] : p \in Partitions
        BY <1>2
      <3> QED
        BY <1>1, <2>1, <3>1, DoneGrows DEF OrderInv, NoSilentLoss, Passed
    <2>2. CASE membership[m] # "joining"
      <3>1. assigned'[m] = assigned[m] /\ position'[m] = position[m]
        BY <2>2 DEF CompleteRebalance
      <3> QED
        BY <1>1, <3>1, PassedStable DEF OrderInv, Busy
    <2>3. CASE membership[m] = "joining"
      BY <2>1, <2>3 DEF CompleteRebalance
    <2> QED
      BY <2>2, <2>3
  <1>4. ASSUME NEW m \in Members PROVE Behind(m)'
    BY <1>1, BehindStable DEF OrderInv, Busy
  <1> QED
    BY <1>1, <1>3, <1>4, NoSilentLossStable, HeadOfLineStable DEF OrderInv

-----------------------------------------------------------------------------
(* Every other step. *)

LEMMA DeliverOrder ==
  ASSUME TypeOK, OrderInv, NEW m \in Members, Deliver(m) \/ GiveUp(m) \/ WaitOver(m)
  PROVE  OrderInv'
  <1>1. Busy(m) /\ pc[m] # "commit" /\ UNCHANGED <<committed, assigned, position>>
    BY DEF Busy, groupVars, clientVars, WaitOver,
       Deliver, NoEventId, Lookup, LookupFails, Hold, HoldFails, PostAccepted, PostFails,
       PostAcceptedUnseen, PostRejected, RecordDelivered, RecordFails,
       GiveUp, Exhaust, GiveUpHeld, GiveUpHeldFails, GiveUpFailed, Declare
  <1>2. \/ \E how \in Hows : Settle(m, how)
        \/ /\ settled' = settled
           /\ \E where \in {"send", "backoff", "giveup", "giveup2"} : Goto(m, where)
        \/ /\ settled' = settled
           /\ job' = [job EXCEPT ![m].got = TRUE]
           /\ pc' = [pc EXCEPT ![m] = "record"]
        \/ WaitOver(m)
    <2>1. ASSUME NoEventId(m) \/ Hold(m) \/ PostRejected(m) \/ RecordDelivered(m)
                   \/ GiveUpHeld(m) \/ GiveUpFailed(m) \/ Declare(m)
          PROVE  \E how \in Hows : Settle(m, how)
      BY <2>1 DEF NoEventId, Hold, PostRejected, RecordDelivered, GiveUpHeld, GiveUpFailed, Declare
    <2>2. ASSUME LookupFails(m) \/ HoldFails(m) \/ PostFails(m) \/ PostAcceptedUnseen(m)
                   \/ RecordFails(m) \/ GiveUpHeldFails(m)
          PROVE  settled' = settled /\ \E where \in {"backoff", "giveup2"} : Goto(m, where)
      BY <2>2 DEF LookupFails, HoldFails, PostFails, PostAcceptedUnseen, RecordFails, GiveUpHeldFails
    <2>3. CASE Lookup(m)
      BY <2>3 DEF Lookup
    <2>4. CASE PostAccepted(m)
      BY <2>4 DEF PostAccepted
    <2>5. CASE Exhaust(m)
      BY <2>5 DEF Exhaust
    <2> QED
      BY <2>1, <2>2, <2>3, <2>4, <2>5 DEF Deliver, GiveUp
  <1>3. pc \in [Members -> PCs] /\ job \in [Members -> Jobs]
    BY DEF TypeOK, Types
  <1>4. CASE \E how \in Hows : Settle(m, how)
    BY <1>1, <1>4, SettleOrder
  <1>5. ASSUME settled' = settled,
               \A n \in Members : n # m => pc'[n] = pc[n] /\ job'[n] = job[n],
               Busy(m)', pc'[m] # "commit",
               job'[m].p = job[m].p, job'[m].k = job[m].k, job'[m].i = job[m].i
        PROVE  OrderInv'
    <2>1. ASSUME NEW n \in Members
          PROVE  /\ assigned'[n] = assigned[n] /\ position'[n] = position[n]
                 /\ \/ pc'[n] = pc[n] /\ job'[n] = job[n]
                    \/ /\ Busy(n) /\ Busy(n)' /\ pc[n] # "commit" /\ pc'[n] # "commit"
                       /\ job'[n].p = job[n].p /\ job'[n].k = job[n].k /\ job'[n].i = job[n].i
      BY <1>1, <1>5
    <2> QED
      BY <1>1, <1>5, <2>1, OrderStable
  <1>6. CASE settled' = settled /\ \E where \in {"send", "backoff", "giveup", "giveup2"} : Goto(m, where)
    BY <1>3, <1>5, <1>6 DEF Goto, Busy
  <1>7. CASE settled' = settled /\ job' = [job EXCEPT ![m].got = TRUE] /\ pc' = [pc EXCEPT ![m] = "record"]
    <2>1. pc'[m] = "record" /\ job'[m] = [job[m] EXCEPT !.got = TRUE]
      BY <1>3, <1>7
    <2>2. job'[m].p = job[m].p /\ job'[m].k = job[m].k /\ job'[m].i = job[m].i
      BY <1>3, <2>1 DEF Jobs
    <2> QED
      BY <1>3, <1>5, <1>7, <2>1, <2>2 DEF Busy
  <1>8. CASE WaitOver(m)
    <2>1. pc'[m] \in {"record", "lookup"} /\ job'[m] = [job[m] EXCEPT !.spent = @ + 1]
      BY <1>3, <1>8 DEF WaitOver, ResumeAt
    <2>2. job'[m].p = job[m].p /\ job'[m].k = job[m].k /\ job'[m].i = job[m].i
      BY <1>3, <2>1 DEF Jobs
    <2> QED
      BY <1>3, <1>5, <1>8, <2>1, <2>2 DEF Busy, WaitOver
  <1> QED
    BY <1>2, <1>4, <1>6, <1>7, <1>8

\* Steps that take the assignment away.
LEMMA DropOrder ==
  ASSUME TypeOK, OrderInv, NEW m \in Members,
         RejoinFromPoll(m) \/ Abandon(m) \/ Crash(m) \/ Restart(m)
  PROVE  OrderInv'
  <1>1. /\ pc \in [Members -> PCs] /\ job \in [Members -> Jobs]
        /\ assigned \in [Members -> SUBSET Partitions] /\ position \in [Members -> [Partitions -> Nat]]
    BY DEF TypeOK, Types
  <1>2. settled' = settled /\ committed' = committed
    BY DEF RejoinFromPoll, Abandon, Crash, Restart, Rejoin, groupVars
  <1>3. /\ assigned'[m] = {}
        /\ \A n \in Members : n # m => assigned'[n] = assigned[n] /\ position'[n] = position[n]
    BY <1>1 DEF RejoinFromPoll, Abandon, Crash, Restart, Rejoin
  <1>4. /\ ~Busy(m)'
        /\ \A n \in Members : n # m => pc'[n] = pc[n] /\ job'[n] = job[n]
    BY <1>1 DEF RejoinFromPoll, Abandon, Crash, Restart, Goto, LetGo, Busy, threadVars
  <1>5. ASSUME NEW n \in Members
        PROVE  /\ assigned'[n] = {} \/ (assigned'[n] = assigned[n] /\ position'[n] = position[n])
               /\ \/ pc'[n] = pc[n] /\ job'[n] = job[n]
                  \/ ~Busy(n)' /\ (~Busy(n) \/ assigned'[n] = {})
    BY <1>3, <1>4 DEF Busy
  <1> QED
    BY <1>2, <1>5, OrderStable

LEMMA OrderStep ==
  ASSUME TypeOK, OrderInv, [Next]_vars
  PROVE  OrderInv'
  <1>1. ASSUME UNCHANGED <<committed, assigned, position, pc, job, settled>> PROVE OrderInv'
    BY <1>1, OrderStable
  <1>2. ASSUME NEW m \in Members, Thread(m) PROVE OrderInv'
    <2>1. CASE PollNothing(m)
      BY <1>1, <2>1 DEF PollNothing, vars, groupVars, clientVars, threadVars
    <2> QED
      BY <1>2, <2>1, PollOrder, DropOrder, DeliverOrder, CommitOrder DEF Thread
  <1>3. ASSUME NEW m \in Members, Crash(m) \/ Restart(m) PROVE OrderInv'
    BY <1>3, DropOrder
  <1>4. ASSUME NEW m \in Members, Evict(m) PROVE OrderInv'
    BY <1>1, <1>4 DEF Evict, clientVars, threadVars
  <1>5. CASE Resend
    BY <1>1, <1>5 DEF Resend, ResendLookup, ResendPost, ResendPostFails, RecordResend,
       groupVars, clientVars, threadVars
  <1>6. CASE UNCHANGED vars
    BY <1>1, <1>6 DEF vars, groupVars, clientVars, threadVars
  <1> QED
    BY <1>2, <1>3, <1>4, <1>5, <1>6, RebalanceOrder DEF Next

LEMMA OrderInit == Init => OrderInv
  <1> SUFFICES ASSUME Init PROVE OrderInv
    OBVIOUS
  <1>1. \A m \in Members : Behind(m) /\ Passed(m)
    BY DEF Init, Behind, Passed, Busy
  <1>2. NoSilentLoss /\ HeadOfLine
    BY DEF Init, NoSilentLoss, HeadOfLine
  <1> QED
    BY <1>1, <1>2 DEF OrderInv

LEMMA OrderAlways == Spec => []OrderInv
  <1>1. TypeOK /\ OrderInv /\ [Next]_vars => OrderInv'
    BY OrderStep
  <1> QED
    BY <1>1, OrderInit, TypeCorrect, PTL DEF Spec

\* A record below the group's committed offset has reached a terminal outcome on
\* every route of its topic, whatever crashed, was evicted, was abandoned or
\* was refused its commit on the way.
THEOREM NothingLost == Spec => []NoSilentLoss
  BY OrderAlways, PTL DEF OrderInv

\* No process of the group, not even one that was evicted and does not know it
\* yet, settles a record before every earlier record of its partition.
THEOREM InOrder == Spec => []HeadOfLine
  BY OrderAlways, PTL DEF OrderInv

-----------------------------------------------------------------------------
(* Why no commit takes the offset back: the members that the coordinator      *)
(* knows hold disjoint partitions, each from the committed offset on, and a   *)
(* commit by anybody else is refused.                                         *)

\* A member that is rejoining holds nothing; one that the coordinator knows is
\* ahead of the committed offset on all it holds, and works on the last record
\* it polled.
MemberOK(m) ==
    /\ membership[m] = "joining" => ~Busy(m) /\ assigned[m] = {}
    /\ InGroup(m) => \A p \in assigned[m] : committed[p] <= position[m][p]
    /\ InGroup(m) /\ Busy(m) =>
          /\ job[m].p \in assigned[m]
          /\ job[m].k = position[m][job[m].p]
          /\ committed[job[m].p] < job[m].k

OneOwner ==
    \A m, n \in Members : (m # n /\ InGroup(m) /\ InGroup(n)) => assigned[m] \cap assigned[n] = {}

GroupInv == OneOwner /\ \A m \in Members : MemberOK(m)

LEMMA GroupStays ==
  ASSUME NEW m \in Members, MemberOK(m), committed' = committed,
         membership'[m] = membership[m], assigned'[m] = assigned[m], position'[m] = position[m],
         pc'[m] = pc[m], job'[m] = job[m]
  PROVE  MemberOK(m)'
  BY DEF MemberOK, Busy, InGroup

\* A step of m alone that leaves the group and the consumers alone.
LEMMA GroupFrame ==
  ASSUME TypeOK, GroupInv, NEW m \in Members, UNCHANGED <<groupVars, clientVars>>, MemberOK(m)',
         \A n \in Members \ {m} : pc'[n] = pc[n] /\ job'[n] = job[n]
  PROVE  GroupInv'
  <1>1. OneOwner'
    BY DEF GroupInv, OneOwner, InGroup, groupVars, clientVars
  <1>2. ASSUME NEW n \in Members, n # m PROVE MemberOK(n)'
    BY <1>2, GroupStays DEF GroupInv, groupVars, clientVars
  <1> QED
    BY <1>1, <1>2 DEF GroupInv

\* Delivering, waiting and giving up are work on the record in flight.
LEMMA WorkOnRecord ==
  ASSUME TypeOK, NEW m \in Members, Deliver(m) \/ WaitOver(m) \/ GiveUp(m)
  PROVE  /\ Busy(m) /\ Busy(m)'
         /\ job'[m].p = job[m].p /\ job'[m].k = job[m].k
         /\ UNCHANGED <<groupVars, clientVars>>
  <1>0. pc \in [Members -> PCs] /\ job \in [Members -> Jobs]
    BY DEF TypeOK, Types
  <1>1. ASSUME NextRoute(m) PROVE Busy(m)' /\ job'[m].p = job[m].p /\ job'[m].k = job[m].k
    BY <1>0, <1>1 DEF NextRoute, Job, Busy
  <1>2. ASSUME NEW where \in PCs \ {"poll", "down"}, Goto(m, where) PROVE Busy(m)' /\ job' = job
    BY <1>0, <1>2 DEF Goto, Busy
  <1>3. Busy(m) /\ UNCHANGED <<groupVars, clientVars>>
    BY DEF Deliver, NoEventId, Lookup, LookupFails, Hold, HoldFails, PostAccepted, PostFails,
           PostAcceptedUnseen, PostRejected, RecordDelivered, RecordFails, WaitOver, GiveUp, Exhaust,
           GiveUpHeld, GiveUpHeldFails, GiveUpFailed, Declare, Busy
  <1>4. CASE PostAccepted(m)
    <2>1. CASE HasIdentity(m)
      BY <1>0, <2>1, <1>4 DEF PostAccepted, Busy, Jobs
    <2>2. CASE ~HasIdentity(m)
      BY <1>1, <1>3, <2>2, <1>4 DEF PostAccepted, Settle
    <2> QED
      BY <1>3, <2>1, <2>2
  <1>5. CASE WaitOver(m)
    BY <1>0, <1>3, <1>5 DEF WaitOver, ResumeAt, Busy, Jobs
  <1>6. CASE \/ NoEventId(m) \/ Lookup(m) \/ LookupFails(m) \/ Hold(m) \/ HoldFails(m) \/ PostFails(m)
           \/ PostAcceptedUnseen(m) \/ PostRejected(m) \/ RecordDelivered(m) \/ RecordFails(m)
    <2>1. NextRoute(m) \/ \E where \in {"backoff", "send"} : Goto(m, where)
      BY <1>6
      DEF NoEventId, Lookup, LookupFails, Hold, HoldFails, PostFails, PostAcceptedUnseen,
          PostRejected, RecordDelivered, RecordFails, Settle
    <2> QED
      BY <1>1, <1>2, <1>3, <2>1 DEF PCs
  <1>7. CASE GiveUp(m)
    <2>1. NextRoute(m) \/ \E where \in {"giveup", "giveup2"} : Goto(m, where)
      BY <1>7 DEF GiveUp, Exhaust, GiveUpHeld, GiveUpHeldFails, GiveUpFailed, Declare, Settle
    <2> QED
      BY <1>1, <1>2, <1>3, <2>1 DEF PCs
  <1> QED
    BY <1>4, <1>5, <1>6, <1>7 DEF Deliver

LEMMA GroupWork ==
  ASSUME TypeOK, GroupInv, NEW m \in Members, Deliver(m) \/ WaitOver(m) \/ GiveUp(m)
  PROVE  GroupInv'
  <1>1. MemberOK(m)'
    BY WorkOnRecord DEF GroupInv, MemberOK, InGroup, groupVars, clientVars
  <1>2. \A n \in Members \ {m} : pc'[n] = pc[n] /\ job'[n] = job[n]
    BY ThreadMovesItself DEF Thread
  <1> QED
    BY <1>1, <1>2, WorkOnRecord, GroupFrame

\* A record is polled from behind everything the group has committed.
LEMMA GroupPoll ==
  ASSUME TypeOK, GroupInv, NEW m \in Members, Poll(m)
  PROVE  GroupInv'
  <1>0. /\ pc \in [Members -> PCs] /\ job \in [Members -> Jobs] /\ assigned[m] \subseteq Partitions
        /\ committed \in [Partitions -> Nat] /\ position \in [Members -> [Partitions -> Nat]]
    BY DEF TypeOK, Types
  <1>1. PICK p \in assigned[m] :
           /\ position' = [position EXCEPT ![m][p] = position[m][p] + 1]
           /\ job' = [job EXCEPT ![m] = Job(p, position[m][p] + 1, 1)]
           /\ pc'[m] # "poll"
    BY <1>0 DEF Poll
  <1>2. UNCHANGED <<groupVars, assigned>> /\ ~Busy(m)
    BY DEF Poll, Busy
  <1>3. /\ job'[m].p = p /\ job'[m].k = position[m][p] + 1
        /\ position'[m][p] = position[m][p] + 1
        /\ \A q \in Partitions \ {p} : position'[m][q] = position[m][q]
    BY <1>0, <1>1 DEF Job
  <1>4. \A q \in assigned[m] : q \in Partitions /\ position[m][q] \in Nat /\ committed[q] \in Nat
    BY <1>0
  <1>5. InGroup(m) => \A q \in assigned[m] : committed[q] <= position[m][q]
    BY DEF GroupInv, MemberOK
  <1>6. InGroup(m) => committed[p] < position[m][p] + 1
    BY <1>4, <1>5
  <1>7. InGroup(m) => \A q \in assigned[m] : committed[q] <= position'[m][q]
    BY <1>3, <1>4, <1>5
  <1>8. membership[m] # "joining"
    BY <1>1 DEF GroupInv, MemberOK
  <1>9. MemberOK(m)'
    BY <1>1, <1>2, <1>3, <1>6, <1>7, <1>8 DEF MemberOK, InGroup, groupVars
  <1>10. ASSUME NEW n \in Members, n # m PROVE MemberOK(n)'
    <2>1. pc'[n] = pc[n] /\ job'[n] = job[n]
      BY <1>10, ThreadMovesItself DEF Thread
    <2>2. position'[n] = position[n]
      BY <1>0, <1>1, <1>10
    <2> QED
      BY <1>2, <2>1, <2>2, GroupStays DEF GroupInv, groupVars
  <1>11. OneOwner'
    BY <1>2 DEF GroupInv, OneOwner, InGroup, groupVars
  <1> QED
    BY <1>9, <1>10, <1>11 DEF GroupInv

\* A member that leaves, rejoins or dies gives up what it held.
LEMMA GroupLeave ==
  ASSUME TypeOK, GroupInv, NEW m \in Members, committed' = committed,
         \/ membership'[m] = "joining" /\ assigned'[m] = {} /\ ~Busy(m)'
         \/ membership'[m] = "out"
         \/ membership'[m] = membership[m] /\ assigned'[m] = {} /\ ~Busy(m)',
         \A n \in Members \ {m} : /\ membership'[n] = membership[n] /\ assigned'[n] = assigned[n]
                                  /\ position'[n] = position[n] /\ pc'[n] = pc[n] /\ job'[n] = job[n]
  PROVE  GroupInv'
  <1>1. MemberOK(m)'
    BY DEF MemberOK, InGroup
  <1>2. ASSUME NEW n \in Members, n # m PROVE MemberOK(n)'
    BY <1>2, GroupStays DEF GroupInv
  <1>3. OneOwner'
    BY DEF GroupInv, OneOwner, InGroup
  <1> QED
    BY <1>1, <1>2, <1>3 DEF GroupInv

\* The commit of a member the coordinator knows moves its partition's offset
\* forward, and the partition is nobody else's.
LEMMA CommitForward ==
  ASSUME TypeOK, GroupInv, NEW m \in Members, CommitAccepted(m)
  PROVE  /\ GroupInv'
         /\ \A p \in Partitions : committed'[p] >= committed[p]
  <1>0. /\ pc \in [Members -> PCs] /\ job \in [Members -> Jobs] /\ assigned[m] \subseteq Partitions
        /\ committed \in [Partitions -> Nat] /\ position \in [Members -> [Partitions -> Nat]]
    BY DEF TypeOK, Types
  <1>1. /\ InGroup(m) /\ Busy(m)
        /\ committed' = [committed EXCEPT ![job[m].p] = job[m].k]
        /\ UNCHANGED <<membership, clientVars>>
    BY DEF CommitAccepted, Busy
  <1>2. /\ job[m].p \in assigned[m] /\ job[m].p \in Partitions
        /\ job[m].k = position[m][job[m].p] /\ committed[job[m].p] < job[m].k
        /\ job[m].k \in Nat
    BY <1>0, <1>1 DEF GroupInv, MemberOK
  <1>3. ~Busy(m)'
    BY <1>0 DEF CommitAccepted, LetGo, Busy
  <1>4. ASSUME NEW p \in Partitions
        PROVE  committed'[p] = (IF p = job[m].p THEN job[m].k ELSE committed[p])
               /\ committed[p] \in Nat /\ position[m][p] \in Nat
    BY <1>0, <1>1
  <1>5. MemberOK(m)'
    <2>1. \A p \in assigned[m] : committed'[p] <= position[m][p]
      BY <1>0, <1>1, <1>2, <1>4 DEF GroupInv, MemberOK
    <2> QED
      BY <1>1, <1>3, <2>1 DEF MemberOK, InGroup, clientVars
  <1>6. ASSUME NEW n \in Members, n # m PROVE MemberOK(n)'
    <2>1. pc'[n] = pc[n] /\ job'[n] = job[n]
      BY <1>6, ThreadMovesItself DEF Thread
    <2>2. InGroup(n) => job[m].p \notin assigned[n] /\ assigned[n] \subseteq Partitions
      BY <1>1, <1>2, <1>6 DEF GroupInv, OneOwner, TypeOK, Types
    <2>3. InGroup(n) => \A p \in assigned[n] : committed'[p] = committed[p]
      BY <1>4, <2>2
    <2> QED
      BY <1>1, <2>1, <2>3 DEF GroupInv, MemberOK, InGroup, Busy, clientVars
  <1>7. OneOwner'
    BY <1>1 DEF GroupInv, OneOwner, InGroup, clientVars
  <1>8. \A p \in Partitions : committed'[p] >= committed[p]
    BY <1>2, <1>4
  <1> QED
    BY <1>5, <1>6, <1>7, <1>8 DEF GroupInv

\* A completed rebalance gives each partition one owner, which starts from the
\* committed offset.
LEMMA GroupAssign ==
  ASSUME TypeOK, GroupInv, CompleteRebalance
  PROVE  GroupInv'
  <1> DEFINE joining == {m \in Members : membership[m] = "joining"}
  <1>0. committed \in [Partitions -> Nat] /\ membership \in [Members -> Memberships]
    BY DEF TypeOK, Types
  <1>1. PICK owner \in [Partitions -> joining] :
           assigned' = [m \in Members |-> IF m \in joining THEN {p \in Partitions : owner[p] = m}
                                          ELSE assigned[m]]
    BY DEF CompleteRebalance
  <1>2. /\ position' = [m \in Members |-> IF m \in joining THEN committed ELSE position[m]]
        /\ membership' = [m \in Members |-> IF m \in joining THEN "member" ELSE membership[m]]
        /\ UNCHANGED <<committed, threadVars>> /\ \A m \in Members : ~InGroup(m)
    BY DEF CompleteRebalance
  <1>3. \A m \in Members : InGroup(m)' => m \in joining
    BY <1>2 DEF InGroup
  <1>4. \A m \in Members : membership'[m] # "joining"
    BY <1>2
  <1>5. ASSUME NEW m \in Members PROVE MemberOK(m)'
    <2>1. CASE m \in joining
      <3>1. ~Busy(m)'
        BY <1>2, <2>1 DEF GroupInv, MemberOK, Busy, threadVars
      <3>2. position'[m] = committed /\ assigned'[m] \subseteq Partitions
        BY <1>1, <1>2, <2>1
      <3>3. \A p \in assigned'[m] : committed'[p] <= position'[m][p]
        BY <1>0, <1>2, <3>2
      <3> QED
        BY <1>4, <3>1, <3>3 DEF MemberOK
    <2>2. CASE m \notin joining
      BY <1>3, <1>4, <2>2 DEF MemberOK
    <2> QED
      BY <2>1, <2>2
  <1>6. OneOwner'
    BY <1>1, <1>3 DEF OneOwner
  <1> QED
    BY <1>5, <1>6 DEF GroupInv

LEMMA GroupInit == Init => GroupInv
  BY DEF Init, GroupInv, MemberOK, OneOwner, InGroup, Busy

LEMMA GroupNext ==
  ASSUME TypeOK, GroupInv, [Next]_vars
  PROVE  GroupInv' /\ \A p \in Partitions : committed'[p] >= committed[p]
  <1>0. /\ pc \in [Members -> PCs] /\ assigned \in [Members -> SUBSET Partitions]
        /\ membership \in [Members -> Memberships] /\ position \in [Members -> [Partitions -> Nat]]
        /\ committed \in [Partitions -> Nat]
    BY DEF TypeOK, Types
  <1>1. committed' = committed => \A p \in Partitions : committed'[p] >= committed[p]
    BY <1>0
  <1>2. ASSUME NEW m \in Members, Deliver(m) \/ WaitOver(m) \/ GiveUp(m)
        PROVE  GroupInv' /\ committed' = committed
    BY <1>2, GroupWork, WorkOnRecord DEF groupVars
  <1>3. ASSUME NEW m \in Members, Poll(m) PROVE GroupInv' /\ committed' = committed
    BY <1>3, GroupPoll DEF Poll, groupVars
  <1>4. ASSUME NEW m \in Members, RejoinFromPoll(m) \/ Abandon(m) \/ Crash(m) \/ Evict(m)
        PROVE  GroupInv' /\ committed' = committed
    <2>1. \A n \in Members \ {m} : pc'[n] = pc[n] /\ job'[n] = job[n]
      BY <1>4, ThreadMovesItself DEF Thread
    <2>2. CASE RejoinFromPoll(m) \/ Abandon(m)
      <3>1. Rejoin(m) /\ ~Busy(m)'
        BY <1>0, <2>2 DEF RejoinFromPoll, Abandon, LetGo, Busy, threadVars
      <3> QED
        BY <1>0, <2>1, <3>1, GroupLeave DEF Rejoin
    <2>3. CASE Crash(m)
      <3>1. ~Busy(m)' /\ UNCHANGED groupVars /\ assigned'[m] = {}
            /\ \A n \in Members \ {m} : assigned'[n] = assigned[n] /\ position'[n] = position[n]
        BY <1>0, <2>3 DEF Crash, LetGo, Busy
      <3> QED
        BY <2>1, <3>1, GroupLeave DEF groupVars
    <2>4. CASE Evict(m)
      <3>1. membership'[m] = "out" /\ UNCHANGED <<committed, clientVars>>
            /\ \A n \in Members \ {m} : membership'[n] = membership[n]
        BY <1>0, <2>4 DEF Evict
      <3> QED
        BY <2>1, <3>1, GroupLeave DEF clientVars
    <2> QED
      BY <1>4, <2>2, <2>3, <2>4
  <1>5. ASSUME NEW m \in Members, Restart(m) PROVE GroupInv' /\ committed' = committed
    <2>1. \A n \in Members \ {m} : pc'[n] = pc[n] /\ job'[n] = job[n]
      BY <1>5, ThreadMovesItself
    <2>2. membership'[m] = "out" /\ UNCHANGED groupVars
          /\ \A n \in Members \ {m} : assigned'[n] = assigned[n] /\ position'[n] = position[n]
      BY <1>0, <1>5 DEF Restart, groupVars
    <2> QED
      BY <2>1, <2>2, GroupLeave DEF groupVars
  <1>6. ASSUME NEW m \in Members, CommitRefused(m) PROVE GroupInv' /\ committed' = committed
    <2>1. \A n \in Members \ {m} : pc'[n] = pc[n] /\ job'[n] = job[n]
      BY <1>6, ThreadMovesItself DEF Thread
    <2>2. UNCHANGED <<groupVars, clientVars>> /\ ~Busy(m)' /\ Busy(m)
      BY <1>0, <1>6 DEF CommitRefused, LetGo, Busy
    <2>3. MemberOK(m)'
      BY <2>2 DEF GroupInv, MemberOK, InGroup, groupVars, clientVars
    <2> QED
      BY <2>1, <2>2, <2>3, GroupFrame DEF groupVars
  <1>7. CASE CompleteRebalance
    BY <1>1, <1>7, GroupAssign DEF CompleteRebalance
  <1>8. CASE Resend \/ UNCHANGED vars \/ \E m \in Members : PollNothing(m)
    <2>1. UNCHANGED <<groupVars, clientVars, threadVars>>
      BY <1>8 DEF Resend, ResendLookup, ResendPost, ResendPostFails, RecordResend, PollNothing, vars
    <2> QED
      BY <1>1, <2>1, GroupStays DEF GroupInv, OneOwner, InGroup, groupVars, clientVars, threadVars
  <1> QED
    BY <1>1, <1>2, <1>3, <1>4, <1>5, <1>6, <1>7, <1>8, CommitForward DEF Next, Thread

\* The group's offset of a partition never moves back, whatever members crash,
\* are evicted or abandon their record, and however late they commit.
THEOREM CommitsForward == Spec => CommitNeverRegresses
  <1>1. TypeOK /\ GroupInv /\ [Next]_vars => [\A p \in Partitions : committed'[p] >= committed[p]]_vars
    BY GroupNext
  <1>2. TypeOK /\ GroupInv /\ [Next]_vars => GroupInv'
    BY GroupNext
  <1> QED
    BY <1>1, <1>2, GroupInit, InitType, StepType, PTL DEF Spec, CommitNeverRegresses

-----------------------------------------------------------------------------
(* The ledger: a delivered row is never a guess and never taken back. *)

\* The destination has every event that somebody is about to record.
ReachInv ==
    /\ DeliveredMeansAccepted
    /\ \A m \in Members : Sent(m) => accepted[Route(m)][Record(m)] > 0
    /\ op.stage = "sent" => accepted[op.r][op.e] > 0

\* One cell of a table after one cell was changed.
LEMMA CellRead ==
  ASSUME NEW S, NEW A, NEW B, NEW f \in [A -> [B -> S]], NEW a \in A, NEW b \in B, NEW v,
         NEW x \in A, NEW y \in B
  PROVE  [f EXCEPT ![a][b] = v][x][y] = IF x = a /\ y = b THEN v ELSE f[x][y]
  <1>1. CASE x = a
    <2>1. [f EXCEPT ![a][b] = v][x] = [f[a] EXCEPT ![b] = v]
      BY <1>1
    <2>2. f[a] \in [B -> S]
      OBVIOUS
    <2> QED
      BY <1>1, <2>1, <2>2
  <1>2. CASE x # a
    BY <1>2
  <1> QED
    BY <1>1, <1>2

\* A busy thread past the lookup on an identified record names a cell.
LEMMA JobCell ==
  ASSUME TypeOK, NEW m \in Members, Busy(m), HasIdentity(m)
  PROVE  Route(m) \in Routes /\ Record(m) \in EventIds
  BY ConstantsAssumption DEF HasIdentity

LEMMA SentCell ==
  ASSUME TypeOK, NEW m \in Members, Sent(m)
  PROVE  Route(m) \in Routes /\ Record(m) \in EventIds
  <1>1. Busy(m)
    BY DEF Sent, Busy
  <1>2. HasIdentity(m)
    BY <1>1 DEF TypeOK, JobOK
  <1> QED
    BY <1>1, <1>2, JobCell

\* Only the operator's steps change the operator's command.
LEMMA OperatorActs ==
  ASSUME [Next]_vars
  PROVE  op' = op \/ Resend
  <1>1. ASSUME NEW m \in Members, Thread(m) \/ Crash(m) \/ Restart(m) \/ Evict(m) PROVE op' = op
    BY <1>1
    DEF Thread, Poll, PollNothing, RejoinFromPoll, Deliver, NoEventId, Lookup, LookupFails, Hold,
        HoldFails, PostAccepted, PostFails, PostAcceptedUnseen, PostRejected, RecordDelivered,
        RecordFails, WaitOver, Abandon, GiveUp, Exhaust, GiveUpHeld, GiveUpHeldFails, GiveUpFailed,
        Declare, CommitAccepted, CommitRefused, Crash, Restart, Evict, vars
  <1>2. CASE CompleteRebalance \/ UNCHANGED vars
    BY <1>2 DEF CompleteRebalance, vars
  <1> QED
    BY <1>1, <1>2 DEF Next

-----------------------------------------------------------------------------
(* Who writes what. *)

\* A lesser claim, a thread's record of a 2xx, or the operator's.
LesserWrite ==
    \E r \in Routes, e \in EventIds, o \in {"held", "failed"} : WriteRow(r, e, o)

ThreadWrite ==
    \E m \in Members : Sent(m) /\ WriteRow(Route(m), Record(m), "delivered")

ResendWrite ==
    /\ op.stage = "sent"
    /\ ledger' = [ledger EXCEPT ![op.r][op.e] = IF @ = "none" THEN "none" ELSE "delivered"]

LEMMA Writes ==
  ASSUME TypeOK, [Next]_vars
  PROVE  ledger' = ledger \/ LesserWrite \/ ThreadWrite \/ ResendWrite
  <1>1. ASSUME NEW m \in Members, Deliver(m)
        PROVE  ledger' = ledger \/ LesserWrite \/ ThreadWrite
    <2>1. CASE Hold(m) \/ HoldFails(m)
      <3>1. Busy(m)
        BY <2>1 DEF Hold, HoldFails, Busy
      <3>2. ledger' = ledger \/ (HasIdentity(m) /\ WriteRow(Route(m), Record(m), "held"))
        BY <2>1 DEF Hold, HoldFails
      <3> QED
        BY <3>1, <3>2, JobCell DEF LesserWrite
    <2>2. CASE RecordDelivered(m) \/ RecordFails(m)
      BY <2>2 DEF RecordDelivered, RecordFails, ThreadWrite, Sent
    <2>3. CASE NoEventId(m) \/ Lookup(m) \/ LookupFails(m) \/ PostAccepted(m) \/ PostFails(m)
                 \/ PostAcceptedUnseen(m) \/ PostRejected(m)
      BY <2>3 DEF NoEventId, Lookup, LookupFails, PostAccepted, PostFails, PostAcceptedUnseen, PostRejected
    <2> QED
      BY <1>1, <2>1, <2>2, <2>3 DEF Deliver
  <1>2. ASSUME NEW m \in Members, GiveUp(m) PROVE ledger' = ledger \/ LesserWrite
    <2>1. CASE Exhaust(m)
      BY <2>1 DEF Exhaust
    <2>2. CASE pc[m] \in {"giveup", "giveup2"}
      <3>1. Busy(m)
        BY <2>2 DEF Busy
      <3>2. HasIdentity(m)
        BY <2>2, <3>1 DEF TypeOK, JobOK
      <3>3. ledger' = ledger \/ \E o \in {"held", "failed"} : WriteRow(Route(m), Record(m), o)
        BY <1>2, <2>2 DEF GiveUp, Exhaust, GiveUpHeld, GiveUpHeldFails, GiveUpFailed, Declare
      <3> QED
        BY <3>1, <3>2, <3>3, JobCell DEF LesserWrite
    <2> QED
      BY <1>2, <2>1, <2>2 DEF GiveUp, GiveUpHeld, GiveUpHeldFails, GiveUpFailed, Declare
  <1>3. ASSUME NEW m \in Members,
               \/ Poll(m) \/ PollNothing(m) \/ RejoinFromPoll(m) \/ WaitOver(m) \/ Abandon(m)
               \/ CommitAccepted(m) \/ CommitRefused(m) \/ Crash(m) \/ Restart(m) \/ Evict(m)
        PROVE  ledger' = ledger
    BY <1>3 DEF Poll, PollNothing, RejoinFromPoll, WaitOver, Abandon, CommitAccepted, CommitRefused,
                Crash, Restart, Evict, vars
  <1>4. CASE CompleteRebalance \/ ResendLookup \/ ResendPost \/ ResendPostFails
    BY <1>4 DEF CompleteRebalance, ResendLookup, ResendPost, ResendPostFails
  <1>5. CASE RecordResend
    BY <1>5 DEF RecordResend, ResendWrite
  <1>6. CASE UNCHANGED vars
    BY <1>6 DEF vars
  <1> QED
    BY <1>1, <1>2, <1>3, <1>4, <1>5, <1>6 DEF Next, Thread, Resend

\* No write lowers a delivered row or removes a row.
LEMMA RowsStay ==
  ASSUME TypeOK, [Next]_vars, NEW r \in Routes, NEW e \in EventIds
  PROVE  /\ ledger[r][e] = "delivered" => ledger'[r][e] = "delivered"
         /\ ledger[r][e] # "none" => ledger'[r][e] # "none"
  <1>0. ledger \in [Routes -> [EventIds -> Rows]]
    BY DEF TypeOK, Types
  <1>1. ASSUME NEW q \in Routes, NEW f \in EventIds, NEW o \in {"held", "failed", "delivered"},
               WriteRow(q, f, o)
        PROVE  ledger'[r][e] = IF r = q /\ e = f THEN Upsert(ledger[q][f], o) ELSE ledger[r][e]
    BY <1>0, <1>1, CellRead DEF WriteRow
  <1>2. CASE LesserWrite
    BY <1>1, <1>2 DEF LesserWrite, Upsert
  <1>3. CASE ThreadWrite
    BY <1>1, <1>3, SentCell DEF ThreadWrite, Upsert
  <1>4. CASE ResendWrite
    <2>1. op.r \in Routes /\ op.e \in EventIds
      BY <1>4, ConstantsAssumption DEF ResendWrite, TypeOK, Types, NoOp
    <2>2. ledger'[r][e] = IF r = op.r /\ e = op.e
                          THEN IF ledger[op.r][op.e] = "none" THEN "none" ELSE "delivered"
                          ELSE ledger[r][e]
      BY <1>0, <1>4, <2>1, CellRead DEF ResendWrite
    <2> QED
      BY <2>2
  <1> QED
    BY <1>2, <1>3, <1>4, Writes

\* Whatever stale members, exhausted retries and the operator write, and in
\* whatever order: a row stays, and a delivered row stays delivered.
THEOREM DeliveredStays == Spec => DeliveredIsFinal
  <1>1. TypeOK /\ [Next]_vars =>
          [\A r \in Routes, e \in EventIds :
              /\ ledger[r][e] = "delivered" => ledger'[r][e] = "delivered"
              /\ ledger[r][e] # "none" => ledger'[r][e] # "none"]_vars
    BY RowsStay
  <1> QED
    BY <1>1, TypeCorrect, PTL DEF Spec, DeliveredIsFinal

-----------------------------------------------------------------------------
(* What the destination has. *)

LEMMA AcceptGrows ==
  ASSUME accepted \in [Routes -> [EventIds -> Nat]],
         NEW q \in Routes, NEW f \in EventIds, NEW isExcused, Accept(q, f, isExcused)
  PROVE  /\ accepted'[q][f] > 0
         /\ \A r \in Routes, e \in EventIds : accepted'[r][e] >= accepted[r][e]
  <1> DEFINE n == accepted[q][f] + 1
  <1>1. n \in Nat /\ n > 0 /\ n >= accepted[q][f]
    OBVIOUS
  <1>2. accepted' = [accepted EXCEPT ![q][f] = n]
    BY DEF Accept
  <1> HIDE DEF n
  <1>3. ASSUME NEW r \in Routes, NEW e \in EventIds
        PROVE  accepted'[r][e] = IF r = q /\ e = f THEN n ELSE accepted[r][e]
    BY <1>2, CellRead
  <1>4. ASSUME NEW r \in Routes, NEW e \in EventIds PROVE accepted'[r][e] >= accepted[r][e]
    <2>1. accepted[r][e] \in Nat
      OBVIOUS
    <2> QED
      BY <1>1, <1>3, <2>1
  <1> QED
    BY <1>1, <1>3, <1>4

\* Who makes the destination take an event.
ThreadAccept ==
    \E m \in Members : \E b \in BOOLEAN :
        pc[m] = "send" /\ HasIdentity(m) /\ Accept(Route(m), Record(m), b)

OperatorAccept == op.stage = "checked" /\ \E b \in BOOLEAN : Accept(op.r, op.e, b)

LEMMA Accepts ==
  ASSUME TypeOK, [Next]_vars
  PROVE  accepted' = accepted \/ ThreadAccept \/ OperatorAccept
  <1>1. ASSUME NEW m \in Members, Deliver(m) PROVE accepted' = accepted \/ ThreadAccept
    <2>1. CASE PostAccepted(m)
      BY <2>1 DEF PostAccepted, ThreadAccept, historyVars
    <2>2. CASE PostAcceptedUnseen(m)
      BY <2>2 DEF PostAcceptedUnseen, ThreadAccept
    <2>3. CASE \/ NoEventId(m) \/ Lookup(m) \/ LookupFails(m) \/ Hold(m) \/ HoldFails(m)
               \/ PostFails(m) \/ PostRejected(m) \/ RecordDelivered(m) \/ RecordFails(m)
      BY <2>3 DEF NoEventId, Lookup, LookupFails, Hold, HoldFails, PostFails, PostRejected,
                  RecordDelivered, RecordFails, historyVars
    <2> QED
      BY <1>1, <2>1, <2>2, <2>3 DEF Deliver
  <1>2. ASSUME NEW m \in Members, GiveUp(m) PROVE accepted' = accepted
    BY <1>2 DEF GiveUp, Exhaust, GiveUpHeld, GiveUpHeldFails, GiveUpFailed, Declare, Orphan, historyVars
  <1>3. ASSUME NEW m \in Members,
               \/ Poll(m) \/ PollNothing(m) \/ RejoinFromPoll(m) \/ WaitOver(m) \/ Abandon(m)
               \/ CommitAccepted(m) \/ CommitRefused(m) \/ Crash(m) \/ Restart(m) \/ Evict(m)
        PROVE  accepted' = accepted
    BY <1>3 DEF Poll, PollNothing, RejoinFromPoll, WaitOver, Abandon, CommitAccepted, CommitRefused,
                Crash, Restart, Evict, Orphan, historyVars, vars
  <1>4. CASE CompleteRebalance \/ ResendLookup \/ RecordResend
    BY <1>4 DEF CompleteRebalance, ResendLookup, RecordResend, historyVars
  <1>5. CASE ResendPost \/ ResendPostFails
    BY <1>5 DEF ResendPost, ResendPostFails, OperatorAccept, historyVars
  <1>6. CASE UNCHANGED vars
    BY <1>6 DEF vars, historyVars
  <1> QED
    BY <1>1, <1>2, <1>3, <1>4, <1>5, <1>6 DEF Next, Thread, Resend

LEMMA AcceptedGrows ==
  ASSUME TypeOK, [Next]_vars, NEW r \in Routes, NEW e \in EventIds
  PROVE  accepted'[r][e] >= accepted[r][e]
  <1>0. accepted \in [Routes -> [EventIds -> Nat]]
    BY DEF TypeOK, Types
  <1>1. CASE ThreadAccept
    <2>1. PICK m \in Members, b \in BOOLEAN :
             pc[m] = "send" /\ HasIdentity(m) /\ Accept(Route(m), Record(m), b)
      BY <1>1 DEF ThreadAccept
    <2>2. Route(m) \in Routes /\ Record(m) \in EventIds
      BY <2>1, JobCell DEF Busy
    <2> QED
      BY <1>0, <2>1, <2>2, AcceptGrows
  <1>2. CASE OperatorAccept
    <2>1. op.r \in Routes /\ op.e \in EventIds
      BY <1>2, ConstantsAssumption DEF OperatorAccept, TypeOK, Types, NoOp
    <2> QED
      BY <1>0, <1>2, <2>1, AcceptGrows DEF OperatorAccept
  <1>3. CASE accepted' = accepted
    <2>1. accepted[r][e] \in Nat
      BY <1>0
    <2> QED
      BY <1>3, <2>1
  <1> QED
    BY <1>1, <1>2, <1>3, Accepts

\* A thread comes to hold a record that the destination has by a POST, and keeps
\* hold of the same record.
LEMMA SentSource ==
  ASSUME TypeOK, [Next]_vars, NEW m \in Members, Sent(m)'
  PROVE  \/ Sent(m) /\ Route(m)' = Route(m) /\ Record(m)' = Record(m)
         \/ /\ pc[m] = "send" /\ HasIdentity(m)
            /\ \E b \in BOOLEAN : Accept(Route(m), Record(m), b)
            /\ Route(m)' = Route(m) /\ Record(m)' = Record(m)
  <1>0. pc \in [Members -> PCs] /\ job \in [Members -> Jobs]
    BY DEF TypeOK, Types
  <1>1. Busy(m) => JobOK(m)
    BY DEF TypeOK
  <1>2. CASE pc'[m] = pc[m] /\ job'[m] = job[m]
    BY <1>2 DEF Sent, Route, Record
  <1>3. CASE Deliver(m)
    <2>1. CASE PostAccepted(m)
      BY <1>0, <2>1 DEF PostAccepted, Sent, Settle, NextRoute, Route, Record, Jobs
    <2>2. CASE RecordFails(m)
      BY <1>0, <2>2 DEF RecordFails, Goto, Sent, Route, Record
    <2>3. CASE LookupFails(m) \/ HoldFails(m) \/ PostFails(m) \/ PostAcceptedUnseen(m)
      <3>1. ~job[m].got
        BY <1>1, <2>3 DEF LookupFails, HoldFails, PostFails, PostAcceptedUnseen, Busy, JobOK
      <3>2. pc'[m] = "backoff" /\ job' = job
        BY <1>0, <2>3 DEF LookupFails, HoldFails, PostFails, PostAcceptedUnseen, Goto
      <3> QED
        BY <3>1, <3>2 DEF Sent
    <2>4. CASE NextRoute(m)
      BY <1>0, <2>4 DEF NextRoute, Sent, Job
    <2>5. CASE Lookup(m) /\ Goto(m, "send")
      BY <1>0, <2>5 DEF Goto, Sent
    <2> QED
      BY <1>3, <2>1, <2>2, <2>3, <2>4, <2>5
      DEF Deliver, NoEventId, Lookup, Hold, PostRejected, RecordDelivered, Settle
  <1>4. CASE GiveUp(m)
    <2>1. CASE NextRoute(m)
      BY <1>0, <2>1 DEF NextRoute, Sent, Job
    <2>2. CASE Goto(m, "giveup") \/ Goto(m, "giveup2")
      BY <1>0, <2>2 DEF Goto, Sent
    <2> QED
      BY <1>4, <2>1, <2>2
      DEF GiveUp, Exhaust, GiveUpHeld, GiveUpHeldFails, GiveUpFailed, Declare, Settle
  <1>5. CASE WaitOver(m)
    BY <1>0, <1>5 DEF WaitOver, ResumeAt, Sent, Route, Record, Jobs
  <1>6. CASE Poll(m)
    BY <1>0, <1>6 DEF Poll, Sent, Job
  <1>7. CASE LetGo(m, "poll") \/ LetGo(m, "down") \/ Goto(m, "poll")
    BY <1>0, <1>7 DEF LetGo, Goto, Sent
  <1>8. CASE \E n \in Members \ {m} : Thread(n) \/ Crash(n) \/ Restart(n) \/ Evict(n)
    BY <1>2, <1>8, ThreadMovesItself
  <1>9. CASE PollNothing(m) \/ RejoinFromPoll(m) \/ Evict(m) \/ CompleteRebalance \/ Resend \/ UNCHANGED vars
    BY <1>2, <1>9 DEF PollNothing, RejoinFromPoll, Evict, CompleteRebalance, Resend, ResendLookup,
                      ResendPost, ResendPostFails, RecordResend, vars, threadVars
  <1> QED
    BY <1>3, <1>4, <1>5, <1>6, <1>7, <1>8, <1>9
    DEF Next, Thread, Abandon, CommitAccepted, CommitRefused, Crash, Restart

LEMMA ReachInit == Init => ReachInv
  BY DEF Init, ReachInv, DeliveredMeansAccepted, Sent, NoOp

LEMMA ReachNext == TypeOK /\ ReachInv /\ [Next]_vars => ReachInv'
  <1> SUFFICES ASSUME TypeOK, ReachInv, [Next]_vars PROVE ReachInv'
    OBVIOUS
  <1>0. /\ accepted \in [Routes -> [EventIds -> Nat]]
        /\ accepted' \in [Routes -> [EventIds -> Nat]]
        /\ ledger \in [Routes -> [EventIds -> Rows]]
    BY StepType DEF TypeOK, Types
  <1>1. ASSUME NEW r \in Routes, NEW e \in EventIds, accepted[r][e] > 0 PROVE accepted'[r][e] > 0
    <2>1. accepted[r][e] \in Nat /\ accepted'[r][e] \in Nat
      BY <1>0
    <2> QED
      BY <1>1, <2>1, AcceptedGrows
  <1>2. ASSUME NEW r \in Routes, NEW e \in EventIds, ledger'[r][e] = "delivered"
        PROVE  accepted'[r][e] > 0
    <2>1. CASE ledger[r][e] = "delivered"
      BY <1>1, <2>1 DEF ReachInv, DeliveredMeansAccepted
    <2>2. CASE ledger[r][e] # "delivered" /\ LesserWrite
      <3>1. PICK q \in Routes, f \in EventIds, o \in {"held", "failed"} : WriteRow(q, f, o)
        BY <2>2 DEF LesserWrite
      <3>2. ledger'[r][e] = IF r = q /\ e = f THEN Upsert(ledger[q][f], o) ELSE ledger[r][e]
        BY <1>0, <3>1, CellRead DEF WriteRow
      <3> QED
        BY <1>2, <2>2, <3>2 DEF Upsert
    <2>3. CASE ledger[r][e] # "delivered" /\ ThreadWrite
      <3>1. PICK m \in Members : Sent(m) /\ WriteRow(Route(m), Record(m), "delivered")
        BY <2>3 DEF ThreadWrite
      <3>2. Route(m) \in Routes /\ Record(m) \in EventIds
        BY <3>1, SentCell
      <3>3. r = Route(m) /\ e = Record(m)
        BY <1>0, <1>2, <2>3, <3>1, <3>2, CellRead DEF WriteRow
      <3> QED
        BY <1>1, <3>1, <3>3 DEF ReachInv
    <2>4. CASE ledger[r][e] # "delivered" /\ ResendWrite
      <3>1. op.r \in Routes /\ op.e \in EventIds
        BY <2>4, ConstantsAssumption DEF ResendWrite, TypeOK, Types, NoOp
      <3>2. r = op.r /\ e = op.e
        BY <1>0, <1>2, <2>4, <3>1, CellRead DEF ResendWrite
      <3> QED
        BY <1>1, <2>4, <3>2 DEF ReachInv, ResendWrite
    <2> QED
      BY <1>2, <2>1, <2>2, <2>3, <2>4, Writes
  <1>3. ASSUME NEW m \in Members, Sent(m)' PROVE accepted'[Route(m)'][Record(m)'] > 0
    <2>1. CASE Sent(m) /\ Route(m)' = Route(m) /\ Record(m)' = Record(m)
      BY <1>1, <2>1, SentCell DEF ReachInv
    <2>2. CASE /\ pc[m] = "send" /\ HasIdentity(m)
               /\ \E b \in BOOLEAN : Accept(Route(m), Record(m), b)
               /\ Route(m)' = Route(m) /\ Record(m)' = Record(m)
      <3>1. Route(m) \in Routes /\ Record(m) \in EventIds
        BY <2>2, JobCell DEF Busy
      <3> QED
        BY <1>0, <2>2, <3>1, AcceptGrows
    <2> QED
      BY <1>3, <2>1, <2>2, SentSource
  <1>4. op'.stage = "sent" => accepted'[op'.r][op'.e] > 0
    <2>1. CASE ResendPost
      <3>1. op.r \in Routes /\ op.e \in EventIds /\ op'.r = op.r /\ op'.e = op.e
        BY <2>1, ConstantsAssumption DEF ResendPost, TypeOK, Types, NoOp
      <3>2. Accept(op.r, op.e, TRUE)
        BY <2>1 DEF ResendPost
      <3>3. accepted'[op.r][op.e] > 0
        BY <1>0, <3>1, <3>2, AcceptGrows
      <3> QED
        BY <3>1, <3>3
    <2>2. CASE op' = op
      <3>1. op.stage = "sent" => op.r \in Routes /\ op.e \in EventIds
        BY ConstantsAssumption DEF TypeOK, Types, NoOp
      <3>2. op.stage = "sent" => accepted[op.r][op.e] > 0
        BY DEF ReachInv
      <3>3. op.stage = "sent" => accepted'[op.r][op.e] > 0
        BY <1>1, <3>1, <3>2
      <3> QED
        BY <2>2, <3>3
    <2>3. CASE ResendLookup \/ ResendPostFails \/ RecordResend
      <3>1. CASE ResendLookup
        BY <3>1 DEF ResendLookup
      <3>2. CASE op' = NoOp
        BY <3>2 DEF NoOp
      <3> QED
        BY <2>3, <3>1, <3>2 DEF ResendPostFails, RecordResend
    <2>4. ResendPost \/ op' = op \/ ResendLookup \/ ResendPostFails \/ RecordResend
      BY OperatorActs DEF Resend
    <2> QED
      BY <2>1, <2>2, <2>3, <2>4
  <1> QED
    BY <1>2, <1>3, <1>4 DEF ReachInv, DeliveredMeansAccepted

\* A delivered row is never a guess: whoever wrote it, the destination had taken
\* the event.
THEOREM DeliveredIsTrue == Spec => []DeliveredMeansAccepted
  <1>1. ReachInv => DeliveredMeansAccepted
    BY DEF ReachInv
  <1> QED
    BY <1>1, ReachInit, ReachNext, InitType, StepType, PTL DEF Spec

-----------------------------------------------------------------------------
(* What an outcome promises of its row. *)

Kept(s) ==
    LET r == RoutesAt[s.p][s.i]
        e == Log[s.p][s.k]
    IN (r \in Dedupe /\ e \in EventIds) =>
          /\ s.how \in {"delivered", "duplicate"} => ledger[r][e] = "delivered"
          /\ s.how \in {"held", "failed"} => ledger[r][e] # "none"
          /\ s.how = "exhausted" => ledger[r][e] # "none" \/ accepted[r][e] > 0

\* A promise once true stays true: rows are not lowered, acceptances not undone.
LEMMA KeptStable ==
  ASSUME TypeOK, [Next]_vars, NEW s, Kept(s)
  PROVE  Kept(s)'
  <1> DEFINE r == RoutesAt[s.p][s.i]
             e == Log[s.p][s.k]
  <1>1. CASE r \in Dedupe /\ e \in EventIds
    <2>1. r \in Routes
      BY <1>1, ConstantsAssumption
    <2>2. /\ ledger[r][e] = "delivered" => ledger'[r][e] = "delivered"
          /\ ledger[r][e] # "none" => ledger'[r][e] # "none"
      BY <1>1, <2>1, RowsStay
    <2>3. accepted[r][e] > 0 => accepted'[r][e] > 0
      <3>1. accepted[r][e] \in Nat /\ accepted'[r][e] \in Nat
        BY <1>1, <2>1, StepType DEF TypeOK, Types
      <3>2. accepted'[r][e] >= accepted[r][e]
        BY <1>1, <2>1, AcceptedGrows
      <3> QED
        BY <3>1, <3>2
    <2> QED
      BY <1>1, <2>2, <2>3 DEF Kept
  <1>2. CASE ~(r \in Dedupe /\ e \in EventIds)
    BY <1>2 DEF Kept
  <1> QED
    BY <1>1, <1>2

\* What a write leaves in its cell.
LEMMA WrittenRow ==
  ASSUME TypeOK, NEW r \in Routes, NEW e \in EventIds,
         NEW o \in {"held", "failed", "delivered"}, WriteRow(r, e, o)
  PROVE  ledger'[r][e] # "none" /\ (o = "delivered" => ledger'[r][e] = "delivered")
  <1>1. ledger \in [Routes -> [EventIds -> Rows]]
    BY DEF TypeOK, Types
  <1>2. ledger'[r][e] = Upsert(ledger[r][e], o)
    BY <1>1, CellRead DEF WriteRow
  <1> QED
    BY <1>2 DEF Upsert

\* The outcome m reaches on its route is one that its row bears out.
BornKept(m, how) ==
    HasIdentity(m) =>
        /\ how \in {"delivered", "duplicate"} => ledger'[Route(m)][Record(m)] = "delivered"
        /\ how \in {"held", "failed"} => ledger'[Route(m)][Record(m)] # "none"
        /\ how = "exhausted" => \/ ledger'[Route(m)][Record(m)] # "none"
                                \/ accepted'[Route(m)][Record(m)] > 0

USE DEF Hows

LEMMA SettlesKept ==
  ASSUME TypeOK, ReachInv, NEW m \in Members, Deliver(m) \/ GiveUp(m)
  PROVE  settled' = settled \/ \E how \in Hows : Settle(m, how) /\ BornKept(m, how)
  <1>1. CASE NoEventId(m)
    BY <1>1, ConstantsAssumption DEF NoEventId, HasIdentity, BornKept
  <1>2. CASE Lookup(m)
    BY <1>2 DEF Lookup, LookupRow, BornKept
  <1>3. CASE Hold(m)
    <2>1. HasIdentity(m) => ledger'[Route(m)][Record(m)] # "none"
      <3>1. HasIdentity(m) => WriteRow(Route(m), Record(m), "held") /\ Busy(m)
        BY <1>3 DEF Hold, Busy
      <3> QED
        BY <3>1, JobCell, WrittenRow
    <2> QED
      BY <1>3, <2>1 DEF Hold, BornKept
  <1>4. CASE PostAccepted(m)
    BY <1>4 DEF PostAccepted, BornKept
  <1>5. CASE PostRejected(m)
    BY <1>5 DEF PostRejected, BornKept
  <1>6. CASE RecordDelivered(m)
    <2>1. Sent(m) /\ WriteRow(Route(m), Record(m), "delivered")
      BY <1>6 DEF RecordDelivered, Sent
    <2>2. ledger'[Route(m)][Record(m)] = "delivered"
      BY <2>1, SentCell, WrittenRow
    <2> QED
      BY <1>6, <2>2 DEF RecordDelivered, BornKept
  <1>7. CASE Exhaust(m)
    <2>1. CASE HasIdentity(m) /\ ~job[m].got
      BY <1>7, <2>1 DEF Exhaust
    <2>2. CASE ~(HasIdentity(m) /\ ~job[m].got)
      <3>1. Settle(m, "exhausted") /\ accepted' = accepted /\ pc[m] = "backoff"
        BY <1>7, <2>2 DEF Exhaust, Orphan
      <3>2. HasIdentity(m) => accepted'[Route(m)][Record(m)] > 0
        BY <2>2, <3>1 DEF ReachInv, Sent
      <3> QED
        BY <3>1, <3>2 DEF BornKept
    <2> QED
      BY <2>1, <2>2
  <1>8. CASE GiveUpHeld(m) \/ GiveUpFailed(m)
    <2>1. HasIdentity(m) /\ Busy(m)
      BY <1>8 DEF GiveUpHeld, GiveUpFailed, Busy, TypeOK, JobOK
    <2>2. \E o \in {"held", "failed"} : WriteRow(Route(m), Record(m), o)
      BY <1>8 DEF GiveUpHeld, GiveUpFailed
    <2>3. ledger'[Route(m)][Record(m)] # "none"
      BY <2>1, <2>2, JobCell, WrittenRow
    <2>4. \E how \in {"exhausted", "failed"} : Settle(m, how)
      BY <1>8 DEF GiveUpHeld, GiveUpFailed
    <2> QED
      BY <2>3, <2>4 DEF BornKept
  <1>9. CASE Declare(m)
    BY <1>9 DEF Declare, BornKept
  <1>10. CASE \/ LookupFails(m) \/ HoldFails(m) \/ PostFails(m) \/ PostAcceptedUnseen(m)
              \/ RecordFails(m) \/ GiveUpHeldFails(m)
    BY <1>10 DEF LookupFails, HoldFails, PostFails, PostAcceptedUnseen, RecordFails, GiveUpHeldFails
  <1> QED
    BY <1>1, <1>2, <1>3, <1>4, <1>5, <1>6, <1>7, <1>8, <1>9, <1>10 DEF Deliver, GiveUp

\* Every other step settles nothing, or a record that no route can read.
LEMMA OtherSettles ==
  ASSUME [Next]_vars, \A m \in Members : ~Deliver(m) /\ ~GiveUp(m)
  PROVE  \A s \in settled' \ settled : s.how = "undecodable"
  <1>1. ASSUME NEW m \in Members, Poll(m) PROVE \A s \in settled' \ settled : s.how = "undecodable"
    BY <1>1 DEF Poll
  <1>2. ASSUME NEW m \in Members,
               \/ PollNothing(m) \/ RejoinFromPoll(m) \/ WaitOver(m) \/ Abandon(m)
               \/ CommitAccepted(m) \/ CommitRefused(m) \/ Crash(m) \/ Restart(m) \/ Evict(m)
        PROVE  settled' = settled
    BY <1>2 DEF PollNothing, RejoinFromPoll, WaitOver, Abandon, CommitAccepted, CommitRefused, Crash,
                Restart, Evict, vars
  <1>3. CASE CompleteRebalance \/ Resend \/ UNCHANGED vars
    BY <1>3 DEF CompleteRebalance, Resend, ResendLookup, ResendPost, ResendPostFails, RecordResend, vars
  <1> QED
    BY <1>1, <1>2, <1>3 DEF Next, Thread

LEMMA AccountedNext ==
  ASSUME TypeOK, ReachInv, Accounted, [Next]_vars
  PROVE  Accounted'
  <1>1. ASSUME NEW s \in settled PROVE Kept(s)'
    BY <1>1, KeptStable DEF Accounted, Kept
  <1>2. ASSUME NEW m \in Members, Deliver(m) \/ GiveUp(m), NEW s \in settled' \ settled
        PROVE  Kept(s)'
    <2>1. PICK how \in Hows : Settle(m, how) /\ BornKept(m, how)
      BY <1>2, SettlesKept
    <2>2. s = [p |-> job[m].p, k |-> job[m].k, i |-> job[m].i, how |-> how]
      BY <1>2, <2>1 DEF Settle
    <2>3. s.p = job[m].p /\ s.k = job[m].k /\ s.i = job[m].i /\ s.how = how
      BY <2>2
    <2> QED
      BY <2>1, <2>3 DEF Kept, BornKept, HasIdentity, Route, Record
  <1>3. ASSUME \A m \in Members : ~Deliver(m) /\ ~GiveUp(m), NEW s \in settled' \ settled
        PROVE  Kept(s)'
    BY <1>3, OtherSettles DEF Kept
  <1>4. ASSUME NEW s \in settled' PROVE Kept(s)'
    BY <1>1, <1>2, <1>3, <1>4
  <1> QED
    BY <1>4 DEF Accounted, Kept

\* Whatever replays, stale members, exhausted retries and re-sends did to a row
\* since, it still bears out every outcome that was reached on it: the ledger
\* and the forwarder's own account of what it did never disagree.
THEOREM OutcomesAreKept == Spec => []Accounted
  <1>1. Init => Accounted
    BY DEF Init, Accounted
  <1>2. TypeOK /\ ReachInv /\ Accounted /\ [Next]_vars => Accounted'
    BY AccountedNext
  <1> QED
    BY <1>1, <1>2, ReachInit, ReachNext, InitType, StepType, PTL DEF Spec

-----------------------------------------------------------------------------
(* Why a dedupe route sends an event once but for the excused acceptances:   *)
(* an acceptance that is not excused is either in the ledger already or on   *)
(* its way there, in the hands of the one member that owns the partition.    *)

\* A member the coordinator knows is about to record event e on route r.
Holding(n, r, e) == InGroup(n) /\ Sent(n) /\ Route(n) = r /\ Record(n) = e

Explained(r, e) ==
    /\ accepted[r][e] <= 1 + excused[r][e]
    /\ \/ accepted[r][e] <= excused[r][e]
       \/ ledger[r][e] = "delivered"
       \/ \E n \in Members : Holding(n, r, e)

\* A member that is about to POST is the first to, as far as one can know.
FirstToSend(m) ==
    (InGroup(m) /\ pc[m] = "send" /\ HasIdentity(m)) =>
        accepted[Route(m)][Record(m)] <= excused[Route(m)][Record(m)]

SendInv ==
    /\ \A r \in Dedupe, e \in EventIds : Explained(r, e)
    /\ \A m \in Members : FirstToSend(m)

\* Two members that the coordinator knows never work on the same event: its
\* records share a partition, and a partition has one owner.
LEMMA AloneOnEvent ==
  ASSUME TypeOK, GroupInv, NEW m \in Members, NEW n \in Members, m # n,
         InGroup(m), InGroup(n), Busy(m), Busy(n), Record(m) \in EventIds
  PROVE  Record(m) # Record(n)
  <1>1. SUFFICES ASSUME Record(m) = Record(n) PROVE FALSE
    OBVIOUS
  <1>2. /\ job[m].p \in Partitions /\ job[n].p \in Partitions
        /\ job[m].k \in 1..Len(Log[job[m].p]) /\ job[n].k \in 1..Len(Log[job[n].p])
    BY DEF TypeOK, Types, Jobs, JobOK
  <1>3. job[m].p = job[n].p
    BY <1>1, <1>2, KeyedAssumption DEF Record
  <1>4. job[m].p \in assigned[m] /\ job[n].p \in assigned[n] /\ assigned[m] \cap assigned[n] = {}
    BY DEF GroupInv, MemberOK, OneOwner
  <1> QED
    BY <1>3, <1>4

\* One more in a cell of a table of counters.
LEMMA CellCount ==
  ASSUME NEW t \in [Routes -> [EventIds -> Nat]], NEW q \in Routes, NEW f \in EventIds,
         NEW r \in Routes, NEW e \in EventIds
  PROVE  [t EXCEPT ![q][f] = @ + 1][r][e] = IF r = q /\ e = f THEN t[r][e] + 1 ELSE t[r][e]
  <1> DEFINE n == t[q][f] + 1
  <1>1. [t EXCEPT ![q][f] = @ + 1] = [t EXCEPT ![q][f] = n]
    OBVIOUS
  <1>2. (r = q /\ e = f) => n = t[r][e] + 1
    OBVIOUS
  <1> HIDE DEF n
  <1>3. [t EXCEPT ![q][f] = n][r][e] = IF r = q /\ e = f THEN n ELSE t[r][e]
    BY CellRead
  <1> QED
    BY <1>1, <1>2, <1>3

\* An acceptance counts in its own cell only.
LEMMA AcceptCounts ==
  ASSUME TypeOK, NEW q \in Routes, NEW f \in EventIds, accepted' = [accepted EXCEPT ![q][f] = @ + 1]
  PROVE  \A r \in Routes, e \in EventIds :
            accepted'[r][e] = IF r = q /\ e = f THEN accepted[r][e] + 1 ELSE accepted[r][e]
  <1>1. accepted \in [Routes -> [EventIds -> Nat]]
    BY DEF TypeOK, Types
  <1> TAKE r \in Routes, e \in EventIds
  <1>2. [accepted EXCEPT ![q][f] = @ + 1][r][e] = IF r = q /\ e = f THEN accepted[r][e] + 1 ELSE accepted[r][e]
    BY <1>1, CellCount
  <1> QED
    BY <1>2

\* A record let go of is excused if it had to be, and nothing else is.
LEMMA OrphanCounts ==
  ASSUME TypeOK, NEW m \in Members, Orphan(m), NEW r \in Routes, NEW e \in EventIds
  PROVE  /\ accepted'[r][e] = accepted[r][e]
         /\ excused'[r][e] \in {excused[r][e], excused[r][e] + 1}
         /\ (Unrecorded(m) /\ r = Route(m) /\ e = Record(m)) => excused'[r][e] = excused[r][e] + 1
  <1>1. accepted' = accepted
    BY DEF Orphan
  <1>2. CASE ~Unrecorded(m)
    BY <1>1, <1>2 DEF Orphan
  <1>3. CASE Unrecorded(m)
    <2>1. Busy(m) /\ (pc[m] = "record" \/ (pc[m] = "backoff" /\ job[m].got))
      BY <1>3 DEF Unrecorded, Busy
    <2>2. Route(m) \in Routes /\ Record(m) \in EventIds
      BY <2>1, SentCell DEF Sent
    <2>3. excused' = [excused EXCEPT ![Route(m)][Record(m)] = @ + 1]
      BY <1>3 DEF Orphan
    <2>4. PICK q \in Routes, f \in EventIds : q = Route(m) /\ f = Record(m)
      BY <2>2
    <2>5. excused' = [excused EXCEPT ![q][f] = @ + 1]
      BY <2>3, <2>4
    <2>6. excused \in [Routes -> [EventIds -> Nat]]
      BY DEF TypeOK, Types
    <2>7. [excused EXCEPT ![q][f] = @ + 1][r][e] = IF r = q /\ e = f THEN excused[r][e] + 1 ELSE excused[r][e]
      BY <2>6, CellCount
    <2>8. excused'[r][e] = IF r = q /\ e = f THEN excused[r][e] + 1 ELSE excused[r][e]
      BY <2>5, <2>7
    <2> QED
      BY <1>1, <2>4, <2>8
  <1> QED
    BY <1>2, <1>3

\* Whether the acceptance of this step is excused.
GroupAccept(m) ==
    /\ InGroup(m) /\ HasIdentity(m) /\ PostAccepted(m)
    /\ Accept(Route(m), Record(m), FALSE)

ExcusedAccept == \E r \in Routes, e \in EventIds : Accept(r, e, TRUE)

LEMMA Counts ==
  ASSUME TypeOK, [Next]_vars
  PROVE  \/ UNCHANGED historyVars
         \/ \E m \in Members : GroupAccept(m) \/ Orphan(m)
         \/ ExcusedAccept
  <1>1. ASSUME NEW m \in Members, Deliver(m)
        PROVE  UNCHANGED historyVars \/ GroupAccept(m) \/ ExcusedAccept
    <2>1. CASE PostAccepted(m) \/ PostAcceptedUnseen(m)
      <3>1. CASE ~HasIdentity(m)
        BY <2>1, <3>1 DEF PostAccepted, PostAcceptedUnseen
      <3>2. CASE HasIdentity(m)
        <4>1. Route(m) \in Routes /\ Record(m) \in EventIds
          BY <2>1, <3>2, JobCell DEF PostAccepted, PostAcceptedUnseen, Busy
        <4>2. CASE PostAcceptedUnseen(m)
          BY <4>1, <4>2 DEF PostAcceptedUnseen, ExcusedAccept
        <4>3. CASE PostAccepted(m) /\ InGroup(m)
          BY <3>2, <4>3 DEF PostAccepted, GroupAccept, Accept
        <4>4. CASE PostAccepted(m) /\ ~InGroup(m)
          BY <3>2, <4>1, <4>4 DEF PostAccepted, ExcusedAccept, Accept
        <4> QED
          BY <2>1, <4>2, <4>3, <4>4
      <3> QED
        BY <3>1, <3>2
    <2>2. CASE \/ NoEventId(m) \/ Lookup(m) \/ LookupFails(m) \/ Hold(m) \/ HoldFails(m)
               \/ PostFails(m) \/ PostRejected(m) \/ RecordDelivered(m) \/ RecordFails(m)
      BY <2>2 DEF NoEventId, Lookup, LookupFails, Hold, HoldFails, PostFails, PostRejected,
                  RecordDelivered, RecordFails
    <2> QED
      BY <1>1, <2>1, <2>2 DEF Deliver
  <1>2. ASSUME NEW m \in Members, GiveUp(m) \/ Abandon(m) \/ Crash(m) \/ Evict(m)
        PROVE  UNCHANGED historyVars \/ Orphan(m)
    BY <1>2 DEF GiveUp, Exhaust, GiveUpHeld, GiveUpHeldFails, GiveUpFailed, Declare, Abandon, Crash, Evict
  <1>3. ASSUME NEW m \in Members,
               \/ Poll(m) \/ PollNothing(m) \/ RejoinFromPoll(m) \/ WaitOver(m)
               \/ CommitAccepted(m) \/ CommitRefused(m) \/ Restart(m)
        PROVE  UNCHANGED historyVars
    BY <1>3 DEF Poll, PollNothing, RejoinFromPoll, WaitOver, CommitAccepted, CommitRefused, Restart, vars
  <1>4. CASE CompleteRebalance \/ ResendLookup \/ RecordResend \/ UNCHANGED vars
    BY <1>4 DEF CompleteRebalance, ResendLookup, RecordResend, vars
  <1>5. CASE ResendPost \/ ResendPostFails
    <2>1. op.stage = "checked" /\ (UNCHANGED historyVars \/ Accept(op.r, op.e, TRUE))
      BY <1>5 DEF ResendPost, ResendPostFails
    <2>2. op.r \in Routes /\ op.e \in EventIds
      BY <2>1, ConstantsAssumption DEF TypeOK, Types, NoOp
    <2> QED
      BY <2>1, <2>2 DEF ExcusedAccept
  <1> QED
    BY <1>1, <1>2, <1>3, <1>4, <1>5 DEF Next, Thread, Resend

\* In a cell that no known member has just got accepted, the balance keeps.
LEMMA BalanceKeeps ==
  ASSUME TypeOK, [Next]_vars, NEW r \in Routes, NEW e \in EventIds,
         \A m \in Members : GroupAccept(m) => ~(Route(m) = r /\ Record(m) = e)
  PROVE  /\ accepted[r][e] <= excused[r][e] => accepted'[r][e] <= excused'[r][e]
         /\ accepted[r][e] <= 1 + excused[r][e] => accepted'[r][e] <= 1 + excused'[r][e]
  <1>0. accepted[r][e] \in Nat /\ excused[r][e] \in Nat
    BY DEF TypeOK, Types
  <1>1. CASE UNCHANGED historyVars
    BY <1>1 DEF historyVars
  <1>2. ASSUME NEW m \in Members, GroupAccept(m)
        PROVE  accepted'[r][e] = accepted[r][e] /\ excused'[r][e] = excused[r][e]
    <2>1. Route(m) \in Routes /\ Record(m) \in EventIds
      BY <1>2, JobCell DEF GroupAccept, PostAccepted, Busy
    <2>2. PICK q \in Routes, f \in EventIds : q = Route(m) /\ f = Record(m)
      BY <2>1
    <2>3. accepted' = [accepted EXCEPT ![q][f] = @ + 1]
      BY <1>2, <2>2 DEF GroupAccept, Accept
    <2>4. \A x \in Routes, y \in EventIds :
             accepted'[x][y] = IF x = q /\ y = f THEN accepted[x][y] + 1 ELSE accepted[x][y]
      BY <2>3, AcceptCounts
    <2>5. excused' = excused /\ ~(q = r /\ f = e)
      BY <1>2, <2>2 DEF GroupAccept, Accept
    <2> QED
      BY <2>4, <2>5
  <1>3. ASSUME NEW m \in Members, Orphan(m)
        PROVE  accepted'[r][e] = accepted[r][e] /\ excused'[r][e] \in {excused[r][e], excused[r][e] + 1}
    BY <1>3, OrphanCounts
  <1>4. CASE ExcusedAccept
    <2>1. PICK q \in Routes, f \in EventIds :
             /\ accepted' = [accepted EXCEPT ![q][f] = @ + 1]
             /\ excused' = [excused EXCEPT ![q][f] = @ + 1]
      BY <1>4 DEF ExcusedAccept, Accept
    <2>2. accepted'[r][e] = IF r = q /\ e = f THEN accepted[r][e] + 1 ELSE accepted[r][e]
      <3>1. accepted \in [Routes -> [EventIds -> Nat]]
        BY DEF TypeOK, Types
      <3>2. [accepted EXCEPT ![q][f] = @ + 1][r][e] = IF r = q /\ e = f THEN accepted[r][e] + 1 ELSE accepted[r][e]
        BY <3>1, CellCount
      <3>3. accepted' = [accepted EXCEPT ![q][f] = @ + 1]
        BY <2>1
      <3> QED
        BY <3>2, <3>3
    <2>3. excused'[r][e] = IF r = q /\ e = f THEN excused[r][e] + 1 ELSE excused[r][e]
      <3>1. excused \in [Routes -> [EventIds -> Nat]]
        BY DEF TypeOK, Types
      <3>2. [excused EXCEPT ![q][f] = @ + 1][r][e] = IF r = q /\ e = f THEN excused[r][e] + 1 ELSE excused[r][e]
        BY <3>1, CellCount
      <3>3. excused' = [excused EXCEPT ![q][f] = @ + 1]
        BY <2>1
      <3> QED
        BY <3>2, <3>3
    <2>4. CASE r = q /\ e = f
      BY <1>0, <2>2, <2>3, <2>4
    <2>5. CASE ~(r = q /\ e = f)
      BY <1>0, <2>2, <2>3, <2>5
    <2> QED
      BY <2>4, <2>5
  <1> QED
    BY <1>0, <1>1, <1>2, <1>3, <1>4, Counts

\* A step of one member is no step of another member's membership.
LEMMA OthersStay ==
  ASSUME TypeOK, NEW n \in Members, NEW m \in Members \ {n},
         Thread(n) \/ Crash(n) \/ Restart(n) \/ Evict(n)
  PROVE  membership'[m] = membership[m] /\ pc'[m] = pc[m] /\ job'[m] = job[m]
  <1>1. membership' = membership \/ \E v : membership' = [membership EXCEPT ![n] = v]
    BY DEF Thread, Poll, PollNothing, RejoinFromPoll, Rejoin, Deliver, NoEventId, Lookup, LookupFails, Hold,
           HoldFails, PostAccepted, PostFails, PostAcceptedUnseen, PostRejected, RecordDelivered,
           RecordFails, WaitOver, Abandon, GiveUp, Exhaust, GiveUpHeld, GiveUpHeldFails, GiveUpFailed,
           Declare, CommitAccepted, CommitRefused, Crash, Restart, Evict, vars, groupVars
  <1>2. membership \in [Members -> Memberships]
    BY DEF TypeOK, Types
  <1>3. membership'[m] = membership[m]
    BY <1>1, <1>2
  <1> QED
    BY <1>3, ThreadMovesItself

\* Nobody enters the group with a record in hand.
LEMMA EntersIdle ==
  ASSUME TypeOK, GroupInv, [Next]_vars, NEW n \in Members, InGroup(n)', Busy(n)'
  PROVE  InGroup(n)
  <1>0. membership \in [Members -> Memberships] /\ pc \in [Members -> PCs]
    BY DEF TypeOK, Types
  <1>1. CASE CompleteRebalance
    <2>1. pc' = pc
      BY <1>1 DEF CompleteRebalance, threadVars
    <2>2. membership[n] = "joining" \/ InGroup(n)
      BY <1>0, <1>1 DEF CompleteRebalance, InGroup
    <2> QED
      BY <2>1, <2>2 DEF GroupInv, MemberOK, Busy
  <1>2. CASE Resend \/ UNCHANGED vars
    BY <1>2 DEF Resend, ResendLookup, ResendPost, ResendPostFails, RecordResend, InGroup, groupVars, vars
  <1>3. ASSUME NEW m \in Members, m # n, Thread(m) \/ Crash(m) \/ Restart(m) \/ Evict(m)
        PROVE  membership'[n] = membership[n]
    BY <1>3, OthersStay
  <1>4. ASSUME Thread(n) \/ Crash(n) \/ Restart(n) \/ Evict(n)
        PROVE  membership'[n] \in {membership[n], "joining", "out"}
    BY <1>0, <1>4 DEF Thread, Poll, PollNothing, RejoinFromPoll, Rejoin, Deliver, NoEventId, Lookup, LookupFails, Hold,
           HoldFails, PostAccepted, PostFails, PostAcceptedUnseen, PostRejected, RecordDelivered,
           RecordFails, WaitOver, Abandon, GiveUp, Exhaust, GiveUpHeld, GiveUpHeldFails, GiveUpFailed,
           Declare, CommitAccepted, CommitRefused, Crash, Restart, Evict, vars, groupVars
  <1> QED
    BY <1>1, <1>2, <1>3, <1>4 DEF Next, InGroup

\* A member comes to the POST from the lookup that found no delivered row.
LEMMA SendSource ==
  ASSUME TypeOK, [Next]_vars, NEW n \in Members, pc'[n] = "send"
  PROVE  /\ job'[n] = job[n]
         /\ \/ pc[n] = "send"
            \/ pc[n] = "lookup" /\ ~LookupRow(n) /\ UNCHANGED historyVars
  <1>0. pc \in [Members -> PCs] /\ job \in [Members -> Jobs]
    BY DEF TypeOK, Types
  <1>1. CASE CompleteRebalance \/ Resend \/ UNCHANGED vars
    BY <1>1 DEF CompleteRebalance, Resend, ResendLookup, ResendPost, ResendPostFails, RecordResend,
                threadVars, vars
  <1>2. ASSUME NEW m \in Members, m # n, Thread(m) \/ Crash(m) \/ Restart(m) \/ Evict(m)
        PROVE  pc'[n] = pc[n] /\ job'[n] = job[n]
    BY <1>2, ThreadMovesItself
  <1>3. CASE Evict(n) \/ PollNothing(n) \/ RejoinFromPoll(n)
    BY <1>3 DEF Evict, PollNothing, RejoinFromPoll, threadVars, vars
  <1>4. \A where : (Goto(n, where) \/ LetGo(n, where)) => pc'[n] = where
    BY <1>0 DEF Goto, LetGo
  <1>5. NextRoute(n) => pc'[n] \in {"lookup", "commit"}
    BY <1>0 DEF NextRoute
  <1>6. CASE Lookup(n)
    BY <1>0, <1>5, <1>6 DEF Lookup, Settle, Goto, historyVars
  <1>7. CASE PostAccepted(n)
    BY <1>0, <1>5, <1>7 DEF PostAccepted, Settle
  <1>8. CASE \/ NoEventId(n) \/ LookupFails(n) \/ Hold(n) \/ HoldFails(n) \/ PostFails(n)
             \/ PostAcceptedUnseen(n) \/ PostRejected(n) \/ RecordDelivered(n) \/ RecordFails(n)
    BY <1>4, <1>5, <1>8 DEF NoEventId, LookupFails, Hold, HoldFails, PostFails, PostAcceptedUnseen,
                            PostRejected, RecordDelivered, RecordFails, Settle
  <1>9. CASE GiveUp(n)
    BY <1>4, <1>5, <1>9 DEF GiveUp, Exhaust, GiveUpHeld, GiveUpHeldFails, GiveUpFailed, Declare, Settle
  <1>10. CASE Poll(n) \/ WaitOver(n)
    BY <1>0, <1>10 DEF Poll, WaitOver, ResumeAt
  <1>11. CASE Abandon(n) \/ CommitAccepted(n) \/ CommitRefused(n) \/ Crash(n) \/ Restart(n)
    BY <1>4, <1>11 DEF Abandon, CommitAccepted, CommitRefused, Crash, Restart
  <1> QED
    BY <1>1, <1>2, <1>3, <1>6, <1>7, <1>8, <1>9, <1>10, <1>11 DEF Next, Thread, Deliver

\* What becomes of an acceptance that a known member is about to record.
LEMMA HoldingStep ==
  ASSUME TypeOK, [Next]_vars, NEW n \in Members, InGroup(n), Sent(n)
  PROVE  \/ InGroup(n)' /\ Sent(n)' /\ Route(n)' = Route(n) /\ Record(n)' = Record(n)
         \/ ledger'[Route(n)][Record(n)] = "delivered"
         \/ Orphan(n)
  <1>0. pc \in [Members -> PCs] /\ job \in [Members -> Jobs]
    BY DEF TypeOK, Types
  <1>1. job[n].got /\ HasIdentity(n) /\ pc[n] \in {"record", "backoff"}
    BY DEF TypeOK, JobOK, Sent, Busy
  <1>2. ASSUME pc'[n] = pc[n], job'[n] = job[n], membership'[n] = membership[n]
        PROVE  InGroup(n)' /\ Sent(n)' /\ Route(n)' = Route(n) /\ Record(n)' = Record(n)
    BY <1>2 DEF InGroup, Sent, Route, Record
  <1>3. CASE CompleteRebalance
    BY <1>3 DEF CompleteRebalance
  <1>4. CASE Resend \/ UNCHANGED vars
    BY <1>2, <1>4 DEF Resend, ResendLookup, ResendPost, ResendPostFails, RecordResend, threadVars,
                      groupVars, vars
  <1>5. ASSUME NEW m \in Members, m # n, Thread(m) \/ Crash(m) \/ Restart(m) \/ Evict(m)
        PROVE  InGroup(n)' /\ Sent(n)' /\ Route(n)' = Route(n) /\ Record(n)' = Record(n)
    BY <1>2, <1>5, OthersStay
  <1>6. CASE RecordDelivered(n)
    <2>1. WriteRow(Route(n), Record(n), "delivered")
      BY <1>6 DEF RecordDelivered
    <2> QED
      BY <2>1, SentCell, WrittenRow
  <1>7. CASE RecordFails(n)
    BY <1>0, <1>1, <1>7 DEF RecordFails, Goto, groupVars, InGroup, Sent, Route, Record
  <1>8. CASE WaitOver(n)
    <2>1. job'[n] = [job[n] EXCEPT !.spent = @ + 1] /\ pc'[n] = "record" /\ membership' = membership
      BY <1>0, <1>1, <1>8 DEF WaitOver, ResumeAt, groupVars
    <2>2. job'[n].p = job[n].p /\ job'[n].k = job[n].k /\ job'[n].i = job[n].i
      BY <1>0, <2>1 DEF Jobs
    <2> QED
      BY <2>1, <2>2 DEF InGroup, Sent, Route, Record
  <1>9. CASE Abandon(n) \/ Crash(n) \/ Evict(n) \/ Exhaust(n)
    BY <1>1, <1>9 DEF Abandon, Crash, Evict, Exhaust
  <1>10. ~(\/ Poll(n) \/ PollNothing(n) \/ RejoinFromPoll(n) \/ NoEventId(n) \/ Lookup(n) \/ LookupFails(n)
           \/ Hold(n) \/ HoldFails(n) \/ PostAccepted(n) \/ PostFails(n) \/ PostAcceptedUnseen(n)
           \/ PostRejected(n) \/ GiveUpHeld(n) \/ GiveUpHeldFails(n) \/ GiveUpFailed(n) \/ Declare(n)
           \/ CommitAccepted(n) \/ CommitRefused(n) \/ Restart(n))
    BY <1>1 DEF Poll, PollNothing, RejoinFromPoll, NoEventId, Lookup, LookupFails, Hold, HoldFails,
                PostAccepted, PostFails, PostAcceptedUnseen, PostRejected, GiveUpHeld, GiveUpHeldFails,
                GiveUpFailed, Declare, CommitAccepted, CommitRefused, Restart
  <1> QED
    BY <1>3, <1>4, <1>5, <1>6, <1>7, <1>8, <1>9, <1>10 DEF Next, Thread, Deliver, GiveUp

\* The acceptance that a known member has just got is the first in its cell, and
\* the member goes on to record it.
LEMMA GroupAcceptFirst ==
  ASSUME TypeOK, SendInv, NEW m \in Members, GroupAccept(m)
  PROVE  /\ accepted[Route(m)][Record(m)] <= excused[Route(m)][Record(m)]
         /\ accepted'[Route(m)][Record(m)] = accepted[Route(m)][Record(m)] + 1
         /\ excused' = excused
         /\ InGroup(m)' /\ Sent(m)' /\ Route(m)' = Route(m) /\ Record(m)' = Record(m)
  <1>1. /\ InGroup(m) /\ HasIdentity(m) /\ pc[m] = "send" /\ Busy(m)
        /\ job' = [job EXCEPT ![m].got = TRUE] /\ pc' = [pc EXCEPT ![m] = "record"]
        /\ membership' = membership
    BY DEF GroupAccept, PostAccepted, Busy, groupVars
  <1>2. Route(m) \in Routes /\ Record(m) \in EventIds
    BY <1>1, JobCell
  <1>3. accepted' = [accepted EXCEPT ![Route(m)][Record(m)] = @ + 1] /\ excused' = excused
    BY DEF GroupAccept, Accept
  <1>4. accepted'[Route(m)][Record(m)] = accepted[Route(m)][Record(m)] + 1
    <2>1. PICK q \in Routes, f \in EventIds : q = Route(m) /\ f = Record(m)
      BY <1>2
    <2>2. accepted' = [accepted EXCEPT ![q][f] = @ + 1]
      BY <1>3, <2>1
    <2>3. \A x \in Routes, y \in EventIds :
             accepted'[x][y] = IF x = q /\ y = f THEN accepted[x][y] + 1 ELSE accepted[x][y]
      BY <2>2, AcceptCounts
    <2>4. accepted'[q][f] = accepted[q][f] + 1
      BY <2>3
    <2> QED
      BY <2>1, <2>4
  <1>5. pc \in [Members -> PCs] /\ job \in [Members -> Jobs]
    BY DEF TypeOK, Types
  <1>6. pc'[m] = "record" /\ job'[m].p = job[m].p /\ job'[m].k = job[m].k /\ job'[m].i = job[m].i
    BY <1>1, <1>5 DEF Jobs
  <1> QED
    BY <1>1, <1>3, <1>4, <1>6 DEF SendInv, FirstToSend, InGroup, Sent, Route, Record

LEMMA FirstToSendNext ==
  ASSUME TypeOK, GroupInv, SendInv, [Next]_vars, NEW n \in Members
  PROVE  FirstToSend(n)'
  <1> SUFFICES ASSUME InGroup(n)', pc'[n] = "send", HasIdentity(n)'
               PROVE  accepted'[Route(n)'][Record(n)'] <= excused'[Route(n)'][Record(n)']
    BY DEF FirstToSend
  <1>1. /\ job'[n] = job[n]
        /\ \/ pc[n] = "send"
           \/ pc[n] = "lookup" /\ ~LookupRow(n) /\ UNCHANGED historyVars
    BY SendSource
  <1>2. Route(n)' = Route(n) /\ Record(n)' = Record(n) /\ HasIdentity(n) /\ Busy(n) /\ Busy(n)'
    BY <1>1 DEF Route, Record, HasIdentity, Busy
  <1>3. Route(n) \in Dedupe /\ Route(n) \in Routes /\ Record(n) \in EventIds
    BY <1>2, JobCell DEF HasIdentity
  <1>4. InGroup(n)
    BY <1>2, EntersIdle
  <1>5. CASE pc[n] = "send"
    <2>1. ASSUME NEW m \in Members, GroupAccept(m) PROVE ~(Route(m) = Route(n) /\ Record(m) = Record(n))
      <3>1. m # n
        <4>1. pc'[m] = "record"
          BY <2>1 DEF GroupAccept, PostAccepted, TypeOK, Types
        <4> QED
          BY <4>1
      <3>2. InGroup(m) /\ Busy(m) /\ Record(m) \in EventIds
        BY <2>1 DEF GroupAccept, PostAccepted, Busy, HasIdentity
      <3> QED
        BY <1>2, <1>4, <3>1, <3>2, AloneOnEvent
    <2>2. accepted[Route(n)][Record(n)] <= excused[Route(n)][Record(n)]
      BY <1>2, <1>4, <1>5 DEF SendInv, FirstToSend
    <2> QED
      BY <1>2, <1>3, <2>1, <2>2, BalanceKeeps
  <1>6. CASE pc[n] = "lookup" /\ ~LookupRow(n) /\ UNCHANGED historyVars
    <2>1. ledger[Route(n)][Record(n)] # "delivered"
      BY <1>2, <1>6 DEF LookupRow
    <2>2. ASSUME NEW m \in Members, Holding(m, Route(n), Record(n)) PROVE FALSE
      <3>1. m # n /\ Busy(m) /\ InGroup(m)
        BY <1>6, <2>2 DEF Holding, Sent, Busy
      <3>2. Record(m) = Record(n)
        BY <2>2 DEF Holding
      <3> QED
        BY <1>2, <1>3, <1>4, <3>1, <3>2, AloneOnEvent
    <2>3. accepted[Route(n)][Record(n)] <= excused[Route(n)][Record(n)]
      BY <1>3, <2>1, <2>2 DEF SendInv, Explained
    <2> QED
      BY <1>2, <1>6, <2>3 DEF historyVars
  <1> QED
    BY <1>1, <1>5, <1>6

LEMMA ExplainedNext ==
  ASSUME TypeOK, GroupInv, SendInv, [Next]_vars, NEW r \in Dedupe, NEW e \in EventIds
  PROVE  Explained(r, e)'
  <1>0. r \in Routes
    BY ConstantsAssumption
  <1>1. /\ accepted[r][e] \in Nat /\ excused[r][e] \in Nat
        /\ accepted'[r][e] \in Nat /\ excused'[r][e] \in Nat
    BY <1>0, StepType DEF TypeOK, Types
  <1>2. Explained(r, e)
    BY DEF SendInv
  <1>3. ASSUME NEW m \in Members, GroupAccept(m), Route(m) = r, Record(m) = e
        PROVE  Explained(r, e)'
    BY <1>1, <1>3, GroupAcceptFirst DEF Explained, Holding
  <1>4. ASSUME \A m \in Members : GroupAccept(m) => ~(Route(m) = r /\ Record(m) = e)
        PROVE  Explained(r, e)'
    <2>1. /\ accepted[r][e] <= excused[r][e] => accepted'[r][e] <= excused'[r][e]
          /\ accepted'[r][e] <= 1 + excused'[r][e]
      BY <1>0, <1>2, <1>4, BalanceKeeps DEF Explained
    <2>2. CASE accepted[r][e] <= excused[r][e]
      BY <2>1, <2>2 DEF Explained
    <2>3. CASE ledger[r][e] = "delivered"
      <3>1. ledger'[r][e] = "delivered"
        BY <1>0, <2>3, RowsStay
      <3> QED
        BY <2>1, <3>1 DEF Explained
    <2>4. ASSUME NEW n \in Members, Holding(n, r, e) PROVE Explained(r, e)'
      <3>1. InGroup(n) /\ Sent(n) /\ Route(n) = r /\ Record(n) = e
        BY <2>4 DEF Holding
      <3>2. CASE InGroup(n)' /\ Sent(n)' /\ Route(n)' = Route(n) /\ Record(n)' = Record(n)
        BY <2>1, <3>1, <3>2 DEF Explained, Holding
      <3>3. CASE ledger'[Route(n)][Record(n)] = "delivered"
        BY <2>1, <3>1, <3>3 DEF Explained
      <3>4. CASE Orphan(n) /\ ledger[r][e] # "delivered"
        <4>1. Unrecorded(n)
          BY <3>1, <3>4 DEF Unrecorded, Sent, TypeOK, JobOK, Busy
        <4>2. accepted'[r][e] = accepted[r][e] /\ excused'[r][e] = excused[r][e] + 1
          BY <1>0, <3>1, <3>4, <4>1, OrphanCounts
        <4>3. accepted'[r][e] <= excused'[r][e]
          BY <1>1, <1>2, <4>2 DEF Explained
        <4> QED
          BY <2>1, <4>3 DEF Explained
      <3> QED
        BY <2>3, <3>1, <3>2, <3>3, <3>4, HoldingStep
    <2> QED
      BY <1>2, <2>2, <2>3, <2>4 DEF Explained
  <1> QED
    BY <1>3, <1>4

\* On a dedupe route the destination receives an event once, plus the excused
\* acceptances: those of a member already evicted, of a response that was lost,
\* of the operator, and of an owner that let go of the record before its row
\* was written.  Nothing else in the code can send an event again.
THEOREM SentOnceOrExcused == Spec => []ExplainedDoubleSend
  <1>1. Init => SendInv
    <2> SUFFICES ASSUME Init PROVE SendInv
      OBVIOUS
    <2>1. ASSUME NEW r \in Dedupe, NEW e \in EventIds PROVE Explained(r, e)
      <3>1. r \in Routes
        BY ConstantsAssumption
      <3>2. accepted[r][e] = 0 /\ excused[r][e] = 0
        BY <3>1 DEF Init
      <3> QED
        BY <3>2 DEF Explained
    <2>2. ASSUME NEW m \in Members PROVE FirstToSend(m)
      BY DEF Init, FirstToSend
    <2> QED
      BY <2>1, <2>2 DEF SendInv
  <1>2. TypeOK /\ GroupInv /\ SendInv /\ [Next]_vars => SendInv'
    BY FirstToSendNext, ExplainedNext DEF SendInv
  <1>3. SendInv => ExplainedDoubleSend
    BY DEF SendInv, Explained, ExplainedDoubleSend
  <1>4. TypeOK /\ GroupInv /\ [Next]_vars => GroupInv'
    BY GroupNext
  <1> QED
    BY <1>1, <1>2, <1>3, <1>4, GroupInit, InitType, StepType, PTL DEF Spec

-----------------------------------------------------------------------------
(* The refinement of DeliveryPromise.  Each step of the forwarder changes at *)
(* most one of the four things the promise speaks of, save that an outcome   *)
(* and its row are one step of both.                                         *)

\* The abstract state, as Promise's substitution defines it.
PairsDone == {<<s.p, s.k, s.i>> : s \in settled}
Reached   == {re \in Routes \X EventIds : accepted[re[1]][re[2]] > 0}

LEMMA PairIsDone ==
  ASSUME NEW p, NEW k, NEW i
  PROVE  <<p, k, i>> \in PairsDone <=> Done(p, k, i)
  <1>1. ASSUME <<p, k, i>> \in PairsDone PROVE Done(p, k, i)
    <2>1. PICK s \in settled : <<p, k, i>> = <<s.p, s.k, s.i>>
      BY <1>1 DEF PairsDone
    <2> QED
      BY <2>1 DEF Done
  <1>2. ASSUME Done(p, k, i) PROVE <<p, k, i>> \in PairsDone
    BY <1>2 DEF Done, PairsDone
  <1> QED
    BY <1>1, <1>2

LEMMA RecordIsDone ==
  ASSUME NEW p, NEW k
  PROVE  Promise!RecordDone(p, k) <=> AllDone(p, k)
  BY PairIsDone DEF Promise!RecordDone, Promise!RouteIndexes, AllDone, PairsDone

LEMMA OnePairMore ==
  ASSUME NEW p, NEW k, NEW i, NEW how,
         settled' = settled \cup {[p |-> p, k |-> k, i |-> i, how |-> how]}
  PROVE  PairsDone' = PairsDone \cup {<<p, k, i>>}
  <1> DEFINE new == [p |-> p, k |-> k, i |-> i, how |-> how]
  <1>1. new.p = p /\ new.k = k /\ new.i = i
    OBVIOUS
  <1>2. settled' = settled \cup {new}
    OBVIOUS
  <1> HIDE DEF new
  <1> QED
    BY <1>1, <1>2 DEF PairsDone

\* What a step may be, seen from the promise.
LEMMA StepKinds ==
  ASSUME TypeOK, [Next]_vars
  PROVE  \/ /\ \E m \in Members, how \in Hows : Busy(m) /\ pc[m] # "commit" /\ Settle(m, how)
            /\ UNCHANGED <<committed, accepted>>
         \/ UNCHANGED <<settled, committed, accepted>>
         \/ (ThreadAccept \/ OperatorAccept) /\ UNCHANGED <<settled, committed, ledger>>
         \/ \E m \in Members : CommitAccepted(m) \/ Poll(m)
  <1>1. ASSUME NEW m \in Members, Deliver(m)
        PROVE  \/ /\ \E how \in Hows : Busy(m) /\ pc[m] # "commit" /\ Settle(m, how)
                  /\ UNCHANGED <<committed, accepted>>
               \/ UNCHANGED <<settled, committed, accepted>>
               \/ ThreadAccept /\ UNCHANGED <<settled, committed, ledger>>
    <2>1. CASE NoEventId(m) \/ Hold(m) \/ PostRejected(m) \/ RecordDelivered(m)
      BY <2>1 DEF NoEventId, Hold, PostRejected, RecordDelivered, Busy, groupVars, historyVars
    <2>2. CASE Lookup(m)
      BY <2>2 DEF Lookup, Busy, groupVars, historyVars
    <2>3. CASE LookupFails(m) \/ HoldFails(m) \/ PostFails(m) \/ RecordFails(m)
      BY <2>3 DEF LookupFails, HoldFails, PostFails, RecordFails, groupVars, historyVars
    <2>4. CASE PostAccepted(m)
      BY <2>4 DEF PostAccepted, Busy, ThreadAccept, groupVars, historyVars
    <2>5. CASE PostAcceptedUnseen(m)
      BY <2>5 DEF PostAcceptedUnseen, ThreadAccept, groupVars
    <2> QED
      BY <1>1, <2>1, <2>2, <2>3, <2>4, <2>5 DEF Deliver
  <1>2. ASSUME NEW m \in Members, GiveUp(m)
        PROVE  \/ /\ \E how \in Hows : Busy(m) /\ pc[m] # "commit" /\ Settle(m, how)
                  /\ UNCHANGED <<committed, accepted>>
               \/ UNCHANGED <<settled, committed, accepted>>
    BY <1>2 DEF GiveUp, Exhaust, GiveUpHeld, GiveUpHeldFails, GiveUpFailed, Declare, Orphan, Busy,
                groupVars, historyVars
  <1>3. ASSUME NEW m \in Members,
               \/ PollNothing(m) \/ RejoinFromPoll(m) \/ WaitOver(m) \/ Abandon(m) \/ CommitRefused(m)
               \/ Crash(m) \/ Restart(m) \/ Evict(m)
        PROVE  UNCHANGED <<settled, committed, accepted>>
    BY <1>3 DEF PollNothing, RejoinFromPoll, WaitOver, Abandon, Rejoin, CommitRefused, Crash, Restart,
                Evict, Orphan, groupVars, historyVars, vars
  <1>4. CASE CompleteRebalance \/ ResendLookup \/ RecordResend \/ UNCHANGED vars
    BY <1>4 DEF CompleteRebalance, ResendLookup, RecordResend, groupVars, historyVars, vars
  <1>5. CASE ResendPost \/ ResendPostFails
    BY <1>5 DEF ResendPost, ResendPostFails, OperatorAccept, groupVars, historyVars
  <1> QED
    BY <1>1, <1>2, <1>3, <1>4, <1>5 DEF Next, Thread, Resend

\* A row is written as the promise has it: what the guarded upsert leaves is no
\* lesser claim than the row was, and no claim that the destination does not bear out.
LEMMA LedgerKeepsPromise ==
  ASSUME TypeOK, ReachInv, [Next]_vars
  PROVE  ledger' = ledger \/ Promise!WriteRow
  <1>0. ledger \in [Routes -> [EventIds -> Rows]]
    BY DEF TypeOK, Types
  <1>1. ASSUME NEW r \in Routes, NEW e \in EventIds, NEW o \in {"held", "failed", "delivered"},
               WriteRow(r, e, o), o = "delivered" => accepted[r][e] > 0
        PROVE  Promise!WriteRow
    <2> DEFINE new == Upsert(ledger[r][e], o)
    <2>1. new \in {"held", "failed", "delivered"} /\ (ledger[r][e] = "delivered" => new = "delivered")
      BY DEF Upsert
    <2>2. new = "delivered" => <<r, e>> \in Reached
      <3>1. new = "delivered" => accepted[r][e] > 0
        BY <1>1 DEF Upsert, ReachInv, DeliveredMeansAccepted
      <3> QED
        BY <3>1 DEF Reached
    <2>3. ledger' = [ledger EXCEPT ![r][e] = new]
      BY <1>1 DEF WriteRow
    <2> HIDE DEF new
    <2>4. Promise!Write(r, e, new)
      BY <2>1, <2>2, <2>3 DEF Promise!Write, Reached
    <2> QED
      BY <2>1, <2>4 DEF Promise!WriteRow
  <1>2. CASE LesserWrite
    BY <1>1, <1>2 DEF LesserWrite
  <1>3. CASE ThreadWrite
    BY <1>1, <1>3, SentCell DEF ThreadWrite, ReachInv
  <1>4. CASE ResendWrite
    <2>1. op.r \in Routes /\ op.e \in EventIds /\ accepted[op.r][op.e] > 0
      BY <1>4, ConstantsAssumption DEF ResendWrite, ReachInv, TypeOK, Types, NoOp
    <2>2. CASE ledger[op.r][op.e] = "none"
      BY <1>0, <1>4, <2>1, <2>2 DEF ResendWrite
    <2>3. CASE ledger[op.r][op.e] # "none"
      <3>1. WriteRow(op.r, op.e, "delivered")
        BY <1>4, <2>3 DEF ResendWrite, WriteRow, Upsert
      <3> QED
        BY <1>1, <2>1, <3>1
    <2> QED
      BY <2>2, <2>3
  <1> QED
    BY <1>2, <1>3, <1>4, Writes

\* An acceptance adds its event to what the destination has.
LEMMA AcceptReaches ==
  ASSUME TypeOK, NEW q \in Routes, NEW f \in EventIds, NEW isExcused, Accept(q, f, isExcused)
  PROVE  Reached' = Reached \cup {<<q, f>>}
  <1> DEFINE n == accepted[q][f] + 1
  <1>0. accepted \in [Routes -> [EventIds -> Nat]]
    BY DEF TypeOK, Types
  <1>1. n \in Nat /\ n > 0
    BY <1>0
  <1>2. accepted' = [accepted EXCEPT ![q][f] = n]
    BY DEF Accept
  <1> HIDE DEF n
  <1>3. ASSUME NEW r \in Routes, NEW e \in EventIds
        PROVE  accepted'[r][e] > 0 <=> (accepted[r][e] > 0 \/ (r = q /\ e = f))
    <2>1. accepted'[r][e] = IF r = q /\ e = f THEN n ELSE accepted[r][e]
      BY <1>0, <1>2, CellRead
    <2> QED
      BY <1>1, <2>1
  <1> QED
    BY <1>3 DEF Reached

LEMMA AcceptIsReach ==
  ASSUME TypeOK, ThreadAccept \/ OperatorAccept, UNCHANGED <<settled, committed, ledger>>
  PROVE  Promise!Reach
  <1>1. \E q \in Routes, f \in EventIds, b \in BOOLEAN : Accept(q, f, b)
    <2>1. CASE ThreadAccept
      BY <2>1, JobCell DEF ThreadAccept, Busy
    <2>2. CASE OperatorAccept
      BY <2>2, ConstantsAssumption DEF OperatorAccept, TypeOK, Types, NoOp
    <2> QED
      BY <2>1, <2>2
  <1>2. \E q \in Routes, f \in EventIds : Reached' = Reached \cup {<<q, f>>}
    BY <1>1, AcceptReaches
  <1> QED
    BY <1>2 DEF Promise!Reach, Reached

\* An outcome is reached in its turn.
LEMMA SettleInTurn ==
  ASSUME TypeOK, OrderInv, NEW m \in Members, NEW how, Busy(m), pc[m] # "commit", Settle(m, how)
  PROVE  \E p \in Partitions : \E k \in 1..Len(Log[p]) : \E i \in Promise!RouteIndexes(p) :
            Promise!SettleOne(p, k, i)
  <1>0. PICK p, k, i : p = job[m].p /\ k = job[m].k /\ i = job[m].i
    OBVIOUS
  <1>1. p \in Partitions /\ k \in 1..Len(Log[p]) /\ i \in Promise!RouteIndexes(p)
    BY <1>0 DEF TypeOK, Types, Jobs, JobOK, Promise!RouteIndexes
  <1>2. (\A l \in 1..(k - 1) : AllDone(p, l)) /\ (\A j \in 1..(i - 1) : Done(p, k, j))
    BY <1>0 DEF OrderInv, Behind
  <1>3. Promise!InTurn(p, k, i)
    BY <1>2, PairIsDone, RecordIsDone DEF Promise!InTurn, PairsDone
  <1>4. PairsDone' = PairsDone \cup {<<p, k, i>>}
    BY <1>0, OnePairMore DEF Settle
  <1>5. Promise!SettleOne(p, k, i)
    BY <1>3, <1>4 DEF Promise!SettleOne, PairsDone
  <1> QED
    BY <1>1, <1>5

\* A record that does not decode is settled on all its routes, in its turn; any
\* other record settles nothing by being polled.
LEMMA PollKeepsPromise ==
  ASSUME TypeOK, OrderInv, NEW m \in Members, Poll(m)
  PROVE  \/ \E p \in Partitions : \E k \in 1..Len(Log[p]) : Promise!SettleRecord(p, k)
         \/ settled' = settled
  <1>1. PICK p \in assigned[m] :
           /\ position[m][p] < Len(Log[p])
           /\ \/ settled' = settled
              \/ settled' = settled \cup {[p |-> p, k |-> position[m][p] + 1, i |-> i, how |-> "undecodable"] :
                                             i \in 1..Len(RoutesAt[p])}
    BY DEF Poll
  <1>0. PICK k : k = position[m][p] + 1
    OBVIOUS
  <1>2. p \in Partitions /\ position[m][p] \in Nat /\ Len(Log[p]) \in Nat
    <2>1. assigned[m] \subseteq Partitions /\ position[m] \in [Partitions -> Nat]
      BY DEF TypeOK, Types
    <2>2. p \in Partitions
      BY <2>1
    <2> QED
      BY <2>1, <2>2, ConstantsAssumption
  <1>3. k \in 1..Len(Log[p])
    BY <1>0, <1>1, <1>2
  <1>4. Promise!InTurn(p, k, 1)
    <2>1. ~Busy(m)
      BY DEF Poll, Busy
    <2>2. \A l \in 1..position[m][p] : AllDone(p, l)
      BY <2>1 DEF OrderInv, Passed
    <2>3. \A l \in 1..(k - 1) : AllDone(p, l)
      BY <1>0, <1>2, <2>2
    <2> QED
      BY <2>3, RecordIsDone DEF Promise!InTurn
  <1>5. CASE settled' = settled \cup {[p |-> p, k |-> k, i |-> i, how |-> "undecodable"] :
                                         i \in 1..Len(RoutesAt[p])}
    <2> DEFINE N == 1..Len(RoutesAt[p])
               new(i) == [p |-> p, k |-> k, i |-> i, how |-> "undecodable"]
    <2>1. \A i \in N : <<new(i).p, new(i).k, new(i).i>> = <<p, k, i>>
      OBVIOUS
    <2>2. settled' = settled \cup {new(i) : i \in N}
      BY <1>5
    <2> HIDE DEF new, N
    <2>3. PairsDone' = PairsDone \cup {<<p, k, i>> : i \in N}
      BY <2>1, <2>2 DEF PairsDone
    <2>4. Promise!SettleRecord(p, k)
      BY <1>4, <2>3 DEF Promise!SettleRecord, Promise!RouteIndexes, PairsDone, N
    <2> QED
      BY <1>2, <1>3, <2>4
  <1> QED
    BY <1>0, <1>1, <1>5

\* A commit covers only settled records, and moves the offset forward.
LEMMA CommitKeepsPromise ==
  ASSUME TypeOK, OrderInv, GroupInv, NEW m \in Members, CommitAccepted(m)
  PROVE  Promise!Commit
  <1> DEFINE p == job[m].p
             k == job[m].k
  <1>1. Busy(m) /\ InGroup(m) /\ pc[m] = "commit"
    BY DEF CommitAccepted, Busy
  <1>2. p \in Partitions /\ k \in 1..Len(Log[p]) /\ committed[p] < k
    <2>1. p \in Partitions /\ k \in 1..Len(Log[p])
      BY <1>1 DEF TypeOK, Types, Jobs, JobOK
    <2>2. committed[p] < k
      BY <1>1 DEF GroupInv, MemberOK
    <2> QED
      BY <2>1, <2>2
  <1>3. (\A l \in 1..(k - 1) : AllDone(p, l)) /\ AllDone(p, k)
    BY <1>1 DEF OrderInv, Behind
  <1>4. \A l \in 1..k : AllDone(p, l)
    <2>1. k \in Nat
      BY DEF TypeOK, Types, Jobs
    <2>2. \A l \in 1..k : l \in 1..(k - 1) \/ l = k
      BY <2>1
    <2> QED
      BY <1>3, <2>2
  <1>5. \A l \in 1..k : Promise!RecordDone(p, l)
    BY <1>4, RecordIsDone
  <1>6. /\ committed' = [committed EXCEPT ![p] = k]
        /\ UNCHANGED <<settled, ledger, accepted>>
    BY DEF CommitAccepted, historyVars
  <1> QED
    BY <1>2, <1>5, <1>6 DEF Promise!Commit

LEMMA PromiseStep ==
  ASSUME TypeOK, OrderInv, GroupInv, ReachInv, [Next]_vars
  PROVE  [Promise!Next]_(Promise!vars)
  <1>1. ledger' = ledger \/ Promise!WriteRow
    BY LedgerKeepsPromise
  <1>2. CASE /\ \E m \in Members, how \in Hows : Busy(m) /\ pc[m] # "commit" /\ Settle(m, how)
             /\ UNCHANGED <<committed, accepted>>
    <2>1. \E p \in Partitions : \E k \in 1..Len(Log[p]) : \E i \in Promise!RouteIndexes(p) :
            Promise!SettleOne(p, k, i)
      BY <1>2, SettleInTurn
    <2>2. Promise!Settle
      BY <1>1, <1>2, <2>1 DEF Promise!Settle
    <2> QED
      BY <2>2 DEF Promise!Next
  <1>3. CASE UNCHANGED <<settled, committed, accepted>>
    BY <1>1, <1>3 DEF Promise!Record, Promise!Next, Promise!vars
  <1>4. CASE (ThreadAccept \/ OperatorAccept) /\ UNCHANGED <<settled, committed, ledger>>
    BY <1>4, AcceptIsReach DEF Promise!Next
  <1>5. ASSUME NEW m \in Members, CommitAccepted(m) PROVE Promise!Next
    BY <1>5, CommitKeepsPromise DEF Promise!Next
  <1>6. ASSUME NEW m \in Members, Poll(m) PROVE [Promise!Next]_(Promise!vars)
    <2>1. UNCHANGED <<committed, ledger, accepted>>
      BY <1>6 DEF Poll, groupVars, historyVars
    <2>2. CASE \E p \in Partitions : \E k \in 1..Len(Log[p]) : Promise!SettleRecord(p, k)
      BY <2>1, <2>2 DEF Promise!Settle, Promise!Next
    <2>3. CASE settled' = settled
      BY <2>1, <2>3 DEF Promise!vars
    <2> QED
      BY <1>6, <2>2, <2>3, PollKeepsPromise
  <1> QED
    BY <1>2, <1>3, <1>4, <1>5, <1>6, StepKinds

\* The forwarder is an implementation of DeliveryPromise: whatever the group,
\* the broker, the ledger and the operator do, what shows is records settled in
\* log order, offsets that move forward over settled records, and rows that
\* claim no more than the destination has.
THEOREM PromiseIsKept == Spec => PromiseKept
  <1>1. Init => Promise!Init
    BY DEF Init, Promise!Init
  <1>2. TypeOK /\ OrderInv /\ GroupInv /\ ReachInv /\ [Next]_vars => [Promise!Next]_(Promise!vars)
    BY PromiseStep
  <1>3. TypeOK /\ GroupInv /\ [Next]_vars => GroupInv'
    BY GroupNext
  <1> QED
    BY <1>1, <1>2, <1>3, GroupInit, OrderAlways, ReachInit, ReachNext, TypeCorrect, PTL
    DEF Spec, PromiseKept, Promise!Spec

=============================================================================
