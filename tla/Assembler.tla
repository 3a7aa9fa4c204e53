---------------------------------- MODULE Assembler ----------------------------------
(***************************************************************************)
(* The assembler (egress/assembler.py, delivery.py): one process that      *)
(* reads the CM states of assets and the posture transitions of their      *)
(* units, and produces one record for each open episode of a state: again  *)
(* when its sources change, and when a unit that was ordered to march, and *)
(* moved, is emplaced.  A message is committed when all of its records are *)
(* confirmed; what the process remembers is in its memory alone.           *)
(*                                                                         *)
(* An episode is its record key, which its first time belongs to, and its  *)
(* sources.  Left out: the fields of a record, the picture and the parts   *)
(* it is drawn from (one that cannot be read ends the process as a record  *)
(* that is not confirmed does), messages that do not decode, which are     *)
(* committed unread, the picture endpoint's thread, and further routes,    *)
(* each of which keeps a state of its own.                                 *)
(***************************************************************************)
EXTENDS Naturals, SequencesExt

CONSTANTS
    EpisodeKeys,
    DetectedAt,         \* DetectedAt[k]: the first time of an episode
    CmAssets,
    SourceSets,         \* what may be the sources of an episode
    CmTopics,           \* the topics there may be of CM states: [asset, open], open the
                        \* sequence of its episodes, [key, sources]
    PostureTopics,      \* the topics there may be of transitions: [asset, to, at]
    MaxAssemblers       \* starts of the process of a behaviour

NotProduced == {"nothing yet"}

ASSUME AssemblerAssumption ==
    /\ DetectedAt \in [EpisodeKeys -> Nat] /\ MaxAssemblers \in Nat \ {0}
    /\ NotProduced \notin SourceSets
    /\ \A topic \in PostureTopics : topic \in Seq([asset : CmAssets, to : STRING, at : Nat \ {0}])

\* A CM state lists an occurrence once, and an occurrence is its asset's alone.
ASSUME TopicsAssumption ==
    \A topic \in CmTopics :
        /\ topic \in Seq([asset : CmAssets, open : Seq([key : EpisodeKeys, sources : SourceSets])])
        /\ \A n \in DOMAIN topic : \A i, j \in DOMAIN topic[n].open :
              topic[n].open[i].key = topic[n].open[j].key => i = j
        /\ \A n, m \in DOMAIN topic : \A i \in DOMAIN topic[n].open, j \in DOMAIN topic[m].open :
              topic[n].open[i].key = topic[m].open[j].key => topic[n].asset = topic[m].asset

VARIABLES
    asCm, asPosture,    \* the two topics (external)
    asRead,             \* the offsets the group has committed
    asPhase,
    asMessage,          \* the message being handled: [topic, n]
    asTodo,             \* its episodes that are still to be told
    asProduced,         \* last_produced: the sources each key was last produced with
    asLatest,           \* latest_cm_state: where in its topic each asset's is, or 0
    asMarch,            \* march_ordered_at_ns, or 0
    asMoved,            \* moved_since_march_order
    asArrived,          \* arrivals_produced: [key, n]
    asOut,              \* the output topic: [key, sources, arrival], arrival 0 or a transition
    asSeen,             \* history: how many CM states were read before each transition
    asStarts

memoryVars == <<asProduced, asLatest, asMarch, asMoved, asArrived>>
assemblerVars == <<asCm, asPosture, asRead, asPhase, asMessage, asTodo, memoryVars, asOut, asSeen, asStarts>>

NoMessage == [topic |-> "none", n |-> 0]

AssemblerTypeOK ==
    /\ asPhase \in {"loop", "handling", "dead"}
    /\ asRead.cm \in 0..Len(asCm) /\ asRead.posture \in 0..Len(asPosture)
    /\ asMessage.topic \in {"none", "cm", "posture"}
    /\ DOMAIN asProduced = EpisodeKeys /\ asLatest \in [CmAssets -> 0..Len(asCm)]
    /\ asMarch \in [CmAssets -> Nat] /\ asMoved \subseteq CmAssets
    /\ asArrived \subseteq [key : EpisodeKeys, n : DOMAIN asPosture]
    /\ \A r \in ToSet(asOut) : r.key \in EpisodeKeys /\ r.arrival \in 0..Len(asPosture)
    /\ asStarts \in 1..MaxAssemblers

Forgets ==
    /\ asProduced' = [k \in EpisodeKeys |-> NotProduced] /\ asLatest' = [a \in CmAssets |-> 0]
    /\ asMarch' = [a \in CmAssets |-> 0] /\ asMoved' = {} /\ asArrived' = {}

AssemblerInit ==
    /\ asCm \in CmTopics /\ asPosture \in PostureTopics
    /\ asRead = [cm |-> 0, posture |-> 0] /\ asPhase = "loop" /\ asMessage = NoMessage /\ asTodo = << >>
    /\ asProduced = [k \in EpisodeKeys |-> NotProduced] /\ asLatest = [a \in CmAssets |-> 0]
    /\ asMarch = [a \in CmAssets |-> 0] /\ asMoved = {} /\ asArrived = {}
    /\ asOut = << >> /\ asSeen = [n \in DOMAIN asPosture |-> 0] /\ asStarts = 1

-----------------------------------------------------------------------------
(* The messages. *)

Handles(topic, n, todo) ==
    /\ asPhase' = "handling" /\ asMessage' = [topic |-> topic, n |-> n] /\ asTodo' = todo
    /\ UNCHANGED <<asCm, asPosture, asRead, asOut, asStarts>>

\* handle_cm_state_message: the state is its asset's latest, whatever comes of it.
PollCm ==
    LET n == asRead.cm + 1
    IN /\ asPhase = "loop" /\ n \in DOMAIN asCm
       /\ asLatest' = [asLatest EXCEPT ![asCm[n].asset] = n]
       /\ Handles("cm", n, asCm[n].open)
       /\ UNCHANGED <<asProduced, asMarch, asMoved, asArrived, asSeen>>

\* [mutant] A march order keeps the moves of the one before.
MovedBefore(asset) == asMoved

\* A march order begins anew: what was moved before it does not count.
MovedAfterOrder(asset) == asMoved \ {asset}

\* The episodes that an emplacement may tell again: those of the asset's latest
\* CM state.
OpenOf(asset) == IF asLatest[asset] = 0 THEN << >> ELSE asCm[asLatest[asset]].open

\* handle_posture_message: orders and moves are noted; an emplacement after both
\* tells what was deferred, one without a move is a cancelled march.
PollPosture ==
    LET n == asRead.posture + 1  t == asPosture[n]  asset == t.asset
        emplaced == t.to = "emplaced" /\ asMarch[asset] # 0
    IN /\ asPhase = "loop" /\ n \in DOMAIN asPosture
       /\ Handles("posture", n, IF emplaced /\ asset \in asMoved THEN OpenOf(asset) ELSE << >>)
       /\ asMarch' = [asMarch EXCEPT ![asset] =
              IF t.to = "march_ordered" THEN t.at ELSE IF emplaced /\ asset \notin asMoved THEN 0 ELSE @]
       /\ asMoved' = IF t.to = "march_ordered" THEN MovedAfterOrder(asset)
                     ELSE IF t.to = "moving" /\ asMarch[asset] # 0 THEN asMoved \cup {asset} ELSE asMoved
       /\ asSeen' = [asSeen EXCEPT ![n] = asRead.cm]
       /\ UNCHANGED <<asProduced, asLatest, asArrived>>

-----------------------------------------------------------------------------
(* Their records. *)

Arrival == IF asMessage.topic = "posture" THEN asMessage.n ELSE 0
Told(e) == [key |-> e.key, sources |-> e.sources, arrival |-> Arrival]

\* What is passed over: an episode with the sources it was last produced with;
\* on an arrival one that was not open at the march order, or was sent.
PassedOver(e) ==
    IF Arrival = 0 THEN asProduced[e.key] = e.sources
    ELSE DetectedAt[e.key] >= asMarch[asPosture[Arrival].asset] \/ [key |-> e.key, n |-> Arrival] \in asArrived

\* A record that is confirmed is noted; an arrival leaves last_produced alone.
Notes(e) ==
    IF Arrival = 0 THEN asProduced' = [asProduced EXCEPT ![e.key] = e.sources] /\ UNCHANGED asArrived
    ELSE asArrived' = asArrived \cup {[key |-> e.key, n |-> Arrival]} /\ UNCHANGED asProduced

\* One episode: skipped, or produced and waited for.  One that is not confirmed
\* may be in the topic or not (external), and leaves the process unnoted.
Tell ==
    /\ asPhase = "handling" /\ asTodo # << >>
    /\ LET e == Head(asTodo)
       IN \/ /\ PassedOver(e) /\ asTodo' = Tail(asTodo)
             /\ UNCHANGED <<asPhase, asProduced, asArrived, asOut>>
          \/ /\ ~PassedOver(e) /\ asOut' = Append(asOut, Told(e)) /\ Notes(e)
             /\ asTodo' = Tail(asTodo) /\ UNCHANGED asPhase
          \/ /\ ~PassedOver(e) /\ asOut' \in {asOut, Append(asOut, Told(e))}
             /\ asPhase' = "dead" /\ asTodo' = << >> /\ UNCHANGED <<asProduced, asArrived>>
    /\ UNCHANGED <<asCm, asPosture, asRead, asMessage, asLatest, asMarch, asMoved, asSeen, asStarts>>

\* The end of an emplacement that told its episodes forgets the order.
IsOver(asset) ==
    /\ asMessage.topic = "posture" /\ asPosture[asMessage.n].asset = asset
    /\ asPosture[asMessage.n].to = "emplaced" /\ asMarch[asset] # 0

\* The synchronous commit, after all of the message's records; one that fails
\* leaves the process.
CommitMessage ==
    /\ asPhase = "handling" /\ asTodo = << >>
    /\ asMarch' = [a \in CmAssets |-> IF IsOver(a) THEN 0 ELSE asMarch[a]]
    /\ asMoved' = {a \in asMoved : ~IsOver(a)}
    /\ \/ asPhase' = "loop" /\ asRead' = [asRead EXCEPT ![asMessage.topic] = asMessage.n]
       \/ asPhase' = "dead" /\ UNCHANGED asRead
    /\ asMessage' = NoMessage
    /\ UNCHANGED <<asCm, asPosture, asTodo, asProduced, asLatest, asArrived, asOut, asSeen, asStarts>>

\* The process is killed, or is stopped between two messages.
KillAssembler ==
    /\ asPhase # "dead" /\ asPhase' = "dead" /\ asTodo' = << >>
    /\ UNCHANGED <<asCm, asPosture, asRead, asMessage, memoryVars, asOut, asSeen, asStarts>>

\* The container is started again, with nothing in memory.
StartAgain ==
    /\ asPhase = "dead" /\ asStarts < MaxAssemblers /\ asStarts' = asStarts + 1
    /\ asPhase' = "loop" /\ asMessage' = NoMessage /\ Forgets
    /\ UNCHANGED <<asCm, asPosture, asRead, asTodo, asOut, asSeen>>

AssemblerNext == PollCm \/ PollPosture \/ Tell \/ CommitMessage \/ KillAssembler \/ StartAgain

AssemblerSpec == AssemblerInit /\ [][AssemblerNext]_assemblerVars

-----------------------------------------------------------------------------
(* Properties. *)

IsOpenIn(n, k) == \E e \in ToSet(asCm[n].open) : e.key = k
SourcesIn(n, k) == (CHOOSE e \in ToSet(asCm[n].open) : e.key = k).sources
LastOf(indices) == CHOOSE i \in indices : \A j \in indices : j <= i

\* A consumer that keeps the newest record of each key has what the newest
\* committed CM state says of the episode, or a later one: revisions, arrivals, unconfirmed
\* sends, crashes and replays never leave an older one on top (assembler.py
\* "RESTART RE-EMITS, ON PURPOSE").
NewestIsLast ==
    asPhase = "loop" =>
        \A k \in EpisodeKeys :
            LET states == {n \in 1..asRead.cm : IsOpenIn(n, k)}
                records == {i \in DOMAIN asOut : asOut[i].key = k}
            IN states # {} => /\ records # {}
                              /\ \E n \in LastOf(states)..Len(asCm) :
                                    IsOpenIn(n, k) /\ asOut[LastOf(records)].sources = SourcesIn(n, k)

\* The march that transition n ends: ordered at m, with a move in between and
\* neither an emplacement nor another order since.
MarchEnds(m, n) ==
    LET of(i) == asPosture[i].asset = asPosture[n].asset
    IN /\ m < n /\ of(m) /\ asPosture[m].to = "march_ordered" /\ asPosture[n].to = "emplaced"
       /\ \E i \in (m + 1)..(n - 1) : of(i) /\ asPosture[i].to = "moving"
       /\ \A i \in (m + 1)..(n - 1) : of(i) => asPosture[i].to \notin {"march_ordered", "emplaced"}

\* An arrival is told only of an emplacement that ends a march, of an episode
\* that was open at its order, and once, whatever was replayed; and as long as
\* the process lives each episode that was open in the state it had read is told
\* ("ARRIVAL RE-EMITS DEFERRED EPISODES"; a restart forgets the order).
ArrivalsAreDue ==
    /\ \A i \in DOMAIN asOut : asOut[i].arrival # 0 =>
          /\ \E m \in DOMAIN asPosture :
                MarchEnds(m, asOut[i].arrival) /\ DetectedAt[asOut[i].key] < asPosture[m].at
          /\ \A j \in DOMAIN asOut :
                asOut[j].arrival = asOut[i].arrival /\ asOut[j].key = asOut[i].key => j = i
    /\ asStarts = 1 =>
          \A n \in 1..asRead.posture, m \in DOMAIN asPosture : MarchEnds(m, n) =>
              LET states == {c \in 1..asSeen[n] : asCm[c].asset = asPosture[n].asset}
              IN states # {} =>
                    \A e \in ToSet(asCm[LastOf(states)].open) : DetectedAt[e.key] < asPosture[m].at =>
                        \E i \in DOMAIN asOut : asOut[i].key = e.key /\ asOut[i].arrival = n

\* The assembler's topic has each episode as it is and each arrival that is due,
\* over crashes, unconfirmed sends and replays.
EpisodesAreTold == NewestIsLast /\ ArrivalsAreDue
=============================================================================
