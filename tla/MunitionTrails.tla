----------------------------- MODULE MunitionTrails -----------------------------
(***************************************************************************)
(* The tracks of munitions on a map (hooks/useMunitionTracks.ts,           *)
(* hooks/useMunitionTrails.ts, components/MunitionTrackHolo.tsx).  The     *)
(* feed has the rows in flight and those that ended since the page came    *)
(* up; each update of the feed, and a timer, folds its rows into the       *)
(* entries drawn: a trail of places and, once the flight is over, an       *)
(* ending that plays for a while.  Clocks are kept as ages: how long an    *)
(* ending has played, how long ago a row says its flight ended, below zero *)
(* where the server's clock is ahead of the browser's.                     *)
(*                                                                         *)
(* External: the writer of munition_track and Electric.  A row flies, ends *)
(* once, may have its ending corrected, and may leave the feed and return. *)
(***************************************************************************)
EXTENDS Integers, SequencesExt

CONSTANTS
    Munitions,   \* ids, numbers: the order of the feed's rows
    SamplesOf,   \* what a row may say of the flight, by id: a set of [place, trail]
    TrailLen,    \* TRAIL_LEN
    BurstFor,    \* BURST_MS
    SilenceFor,  \* SILENCE_MS
    Ahead        \* the most the server's clock is ahead of the browser's

ASSUME TrailAssumption ==
    /\ Munitions \subseteq Nat /\ IsFiniteSet(Munitions)
    /\ \A id \in Munitions : SamplesOf[id] \subseteq [place : Nat, trail : Seq(Nat)]
    /\ TrailLen \in Nat \ {0}
    /\ BurstFor \in Nat \ {0} /\ SilenceFor \in Nat \ {0} /\ Ahead \in Nat

VARIABLES
    trRows,     \* the feed's rows, by id
    trEntries,  \* entries: what is drawn, in the order first seen
    trSpent,    \* spent: ids whose ending has played and whose row is still here
    trOver      \* history: ids whose ending was drawn and ran out since their row ended

trailVars == <<trRows, trEntries, trSpent, trOver>>

NoPlace == 0    \* a place the map cannot project
Endings == {"detonation", "silence"}
Flying == [kind |-> "none", age |-> 0]
Lasts(kind) == IF kind = "detonation" THEN BurstFor ELSE SilenceFor
Longest == IF BurstFor > SilenceFor THEN BurstFor ELSE SilenceFor

TrackRows(id) == [sample : SamplesOf[id], ending : {"none"} \cup Endings, ago : -Ahead..Longest]

Played(ending) == ending.kind # "none" /\ ending.age >= Lasts(ending.kind)

\* What is drawn always has a head, and never a place twice in a row: the head
\* is read, and a span of no length is drawn as one, without a check.
TrailsTypeOK ==
    /\ DOMAIN trRows \subseteq Munitions /\ \A id \in DOMAIN trRows : trRows[id] \in TrackRows(id)
    /\ trSpent \subseteq Munitions /\ trOver \subseteq Munitions
    /\ \A n, m \in DOMAIN trEntries : trEntries[n].id = trEntries[m].id => n = m
    /\ \A e \in ToSet(trEntries) :
          /\ e.id \in Munitions /\ e.ending.kind \in {"none"} \cup Endings /\ e.ending.age \in 0..Longest
          /\ Len(e.trail) \in 1..TrailLen
          /\ \A n \in DOMAIN e.trail : e.trail[n] # NoPlace /\ (n > 1 => e.trail[n] # e.trail[n - 1])

TrailsInit == trRows = << >> /\ trEntries = << >> /\ trSpent = {} /\ trOver = {}

-----------------------------------------------------------------------------
(* nextTrails. *)

LastOf(s) == SubSeq(s, IF Len(s) > TrailLen THEN Len(s) - TrailLen + 1 ELSE 1, Len(s))

\* A trail with one more sample, unless there is none or it is the last again.
Grown(trail, place) ==
    IF place = NoPlace \/ (trail # << >> /\ Last(trail) = place) THEN trail ELSE Append(trail, place)

\* serverTrail: the row's own samples, then its head.
ServerTrail(sample) ==
    IF sample.trail = << >> THEN << >>
    ELSE LastOf(Grown(FoldLeft(Grown, << >>, sample.trail), sample.place))

\* The server's trail when the row has one, else that of the entry before.
TrailAfter(old, sample) ==
    LET server == ServerTrail(sample) IN
    IF server # << >> THEN server
    ELSE LastOf(Grown(IF old = << >> THEN << >> ELSE old[1].trail, sample.place))

\* Entries before and after are sequences of at most one entry.
Drawn(id, trail, ending) ==
    IF trail = << >> THEN << >> ELSE <<[id |-> id, trail |-> trail, ending |-> ending]>>

\* A row in flight: an ending still playing is taken back, one that is over was
\* of a flight before this one.
InFlight(id, old, row) ==
    Drawn(id, TrailAfter(IF old # << >> /\ Played(old[1].ending) THEN << >> ELSE old, row.sample), Flying)

\* The ending of a row that ended: the one already playing; else, of a flight
\* that was seen, from now; else by the row's own time of it.
EndingOf(old, row) ==
    CASE old # << >> /\ old[1].ending.kind # "none" -> old[1].ending
      [] old # << >> /\ old[1].ending.kind = "none" -> [kind |-> row.ending, age |-> 0]
      [] OTHER -> [kind |-> row.ending, age |-> IF row.ago < 0 THEN 0 ELSE row.ago]

Ended(id, old, row) ==
    IF Played(EndingOf(old, row)) THEN << >>
    ELSE Drawn(id, TrailAfter(old, row.sample), EndingOf(old, row))

\* A row that left the feed: silence, once, as long as that plays.
Vanished(e) ==
    CASE e.ending.kind = "none" -> <<[e EXCEPT !.ending = [kind |-> "silence", age |-> 0]]>>
      [] Played(e.ending)       -> << >>
      [] OTHER                  -> <<e>>

EntryOf(entries, id) ==
    LET found == {e \in ToSet(entries) : e.id = id} IN
    IF found = {} THEN << >> ELSE <<CHOOSE e \in found : TRUE>>

SpentAfter(entries, rows, spent) ==
    {id \in DOMAIN rows :
        \/ id \in spent
        \/ rows[id].ending # "none" /\ Played(EndingOf(EntryOf(entries, id), rows[id]))}

Join(list, part) == list \o part
Joined(parts) == FoldLeft(Join, << >>, parts)

\* The ids in the order of the feed.
InOrder(ids) == CHOOSE s \in SetToSeqs(ids) : \A n, m \in DOMAIN s : n < m => s[n] < s[m]

\* Entries keep their order, new ones come after in the order of the feed.
NextTrails(entries, rows, spent) ==
    LET present(id) ==
            CASE rows[id].ending = "none" -> InFlight(id, EntryOf(entries, id), rows[id])
              [] rows[id].ending # "none" /\ id \in spent -> << >>
              [] OTHER -> Ended(id, EntryOf(entries, id), rows[id])
        known == {e.id : e \in ToSet(entries)}
        kept  == [n \in DOMAIN entries |->
                     IF entries[n].id \in DOMAIN rows THEN present(entries[n].id) ELSE Vanished(entries[n])]
        new   == InOrder(DOMAIN rows \ known) IN
    Joined(kept) \o Joined([n \in DOMAIN new |-> present(new[n])])

\* One step of the hook over the rows at hand.
Step(rows) ==
    LET after  == NextTrails(trEntries, rows, trSpent \cap DOMAIN rows)
        drawn  == {e.id : e \in ToSet(after)}
        ending == {e.id : e \in {d \in ToSet(trEntries) : d.ending.kind # "none"}} IN
    /\ trEntries' = after
    /\ trSpent' = SpentAfter(trEntries, rows, trSpent)
    /\ trOver' = {id \in DOMAIN rows : rows[id].ending # "none" /\ (id \in trOver \/ id \in ending \ drawn)}

-----------------------------------------------------------------------------
(* The feed: every update is a step. *)

FeedBecomes(rows) == trRows' = rows /\ Step(rows)

RowComes(id) ==
    /\ id \notin DOMAIN trRows
    /\ \E row \in TrackRows(id) :
          /\ row.ending = "none" => row.ago = 0
          \* useMunitionTrackFeed: not one that ended before the page came up
          /\ row.ago < Longest
          /\ FeedBecomes([i \in DOMAIN trRows \cup {id} |-> IF i = id THEN row ELSE trRows[i]])

RowMoves(id) ==
    /\ id \in DOMAIN trRows /\ trRows[id].ending = "none"
    /\ \E s \in SamplesOf[id] : FeedBecomes([trRows EXCEPT ![id].sample = s])

\* The end of a flight, or what it was after all, when it comes late.
RowEnds(id) ==
    /\ id \in DOMAIN trRows
    /\ \E kind \in Endings, ago \in -Ahead..(Longest - 1) :
          /\ trRows[id].ending # "none" => kind # trRows[id].ending /\ ago = trRows[id].ago
          /\ FeedBecomes([trRows EXCEPT ![id].ending = kind, ![id].ago = ago])

RowGone(id) == id \in DOMAIN trRows /\ FeedBecomes([i \in DOMAIN trRows \ {id} |-> trRows[i]])

\* Time: an ending plays on, a row's end is longer ago.
Older(age) == IF age < Longest THEN age + 1 ELSE age

TimePasses ==
    /\ trEntries' = [n \in DOMAIN trEntries |->
                        IF trEntries[n].ending.kind = "none" THEN trEntries[n]
                        ELSE [trEntries[n] EXCEPT !.ending.age = Older(@)]]
    /\ trRows' = [id \in DOMAIN trRows |->
                     IF trRows[id].ending = "none" THEN trRows[id] ELSE [trRows[id] EXCEPT !.ago = Older(@)]]
    /\ UNCHANGED <<trSpent, trOver>>

\* The timer set for the earliest ending: a step over the same rows.
TimerDue == \E e \in ToSet(trEntries) : Played(e.ending)

TimerFires == TimerDue /\ UNCHANGED trRows /\ Step(trRows)

-----------------------------------------------------------------------------
TrailsNext ==
    \/ \E id \in Munitions : RowComes(id) \/ RowMoves(id) \/ RowEnds(id) \/ RowGone(id)
    \/ TimePasses \/ TimerFires

\* Time goes on and a browser's timer fires once it is due.
TrailsFairness == WF_trailVars(TimePasses) /\ WF_trailVars(TimerFires)

TrailsSpec == TrailsInit /\ [][TrailsNext]_trailVars /\ TrailsFairness

-----------------------------------------------------------------------------
(* Properties. *)

\* An ending that was drawn and ran out is not drawn again while its row stays
\* in the feed, whatever the clocks, the timer and late corrections do.
EndedOnce == \A e \in ToSet(trEntries) : e.id \notin trOver

\* An ending plays once and comes to an end: it is taken back by a flight, or no
\* longer drawn.
EndingsEnd ==
    /\ []EndedOnce
    /\ \A id \in Munitions : []<>~\E e \in ToSet(trEntries) : e.id = id /\ e.ending.kind # "none"
=============================================================================
