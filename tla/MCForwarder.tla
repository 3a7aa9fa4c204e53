----------------------------- MODULE MCForwarder -----------------------------
(* Small instances of Forwarder: two processes sharing one sink partition. *)
EXTENDS Forwarder, TLC

CONSTANTS m1, m2, p1, r1, r2, r3, a

\* The event a is re-emitted by a later record, as after a scenario reset.
ReplayLog   == p1 :> <<a, a>>
DedupeRoute == p1 :> <<r1>>

OneLog == p1 :> <<a>>

\* Every kind of record, on a topic with a dedupe route, a held route that
\* dedupes and a route with no dedupe_field.
MixedLog   == p1 :> <<a, Undecodable, NoId>>
ThreeRoutes == p1 :> <<r1, r2, r3>>

\* The processes run the same code and start alike.
Symmetry == Permutations(Members)
=============================================================================
