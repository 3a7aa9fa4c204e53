--------------------------- MODULE DeliveryPromise ---------------------------
(***************************************************************************)
(* What the egress forwarder promises, without processes, polls, retries,  *)
(* rebalances or the operator: the records of a partition are settled in   *)
(* log order, each on its topic's routes in configuration order; the       *)
(* group's offset only moves forward and only over settled records; a      *)
(* ledger row is never removed, says "delivered" only of an event the      *)
(* destination has taken, and once it says so it says so for ever.         *)
(***************************************************************************)
EXTENDS Naturals, Sequences

CONSTANTS Partitions, Routes, EventIds, Log, RoutesAt

VARIABLES
    done,       \* the settled <<p, k, i>>: record k of p on its i-th route
    committed,  \* committed[p]: the records of p that will not be read again
    row,        \* row[r][e]: what the ledger says of event e on route r
    reached     \* the <<r, e>> that the destination has taken

vars == <<done, committed, row, reached>>

RouteIndexes(p) == 1..Len(RoutesAt[p])

RecordDone(p, k) == \A i \in RouteIndexes(p) : <<p, k, i>> \in done

\* Everything that must be settled before record k of p on its i-th route.
InTurn(p, k, i) ==
    /\ \A l \in 1..(k - 1) : RecordDone(p, l)
    /\ \A j \in 1..(i - 1) : <<p, k, j>> \in done

Init ==
    /\ done = {}
    /\ committed = [p \in Partitions |-> 0]
    /\ row = [r \in Routes |-> [e \in EventIds |-> "none"]]
    /\ reached = {}

\* One outcome, or all those of a record that no route can read; an outcome
\* the ledger keeps is written in the same step.
SettleOne(p, k, i) == InTurn(p, k, i) /\ done' = done \cup {<<p, k, i>>}

SettleRecord(p, k) ==
    /\ InTurn(p, k, 1)
    /\ done' = done \cup {<<p, k, i>> : i \in RouteIndexes(p)}

\* A row is created, or changed to anything but a lesser claim.
Write(r, e, outcome) ==
    /\ row[r][e] = "delivered" => outcome = "delivered"
    /\ outcome = "delivered" => <<r, e>> \in reached
    /\ row' = [row EXCEPT ![r][e] = outcome]

WriteRow == \E r \in Routes, e \in EventIds, o \in {"held", "failed", "delivered"} : Write(r, e, o)

Settle ==
    /\ \E p \in Partitions : \E k \in 1..Len(Log[p]) :
          SettleRecord(p, k) \/ \E i \in RouteIndexes(p) : SettleOne(p, k, i)
    /\ WriteRow \/ UNCHANGED row
    /\ UNCHANGED <<committed, reached>>

Record == WriteRow /\ UNCHANGED <<done, committed, reached>>

Reach ==
    /\ \E r \in Routes, e \in EventIds : reached' = reached \cup {<<r, e>>}
    /\ UNCHANGED <<done, committed, row>>

Commit ==
    /\ \E p \in Partitions : \E k \in 1..Len(Log[p]) :
          /\ committed[p] < k
          /\ \A l \in 1..k : RecordDone(p, l)
          /\ committed' = [committed EXCEPT ![p] = k]
    /\ UNCHANGED <<done, row, reached>>

Next == Settle \/ Record \/ Reach \/ Commit

Spec == Init /\ [][Next]_vars

=============================================================================
