------------------------------ MODULE ToldProofs ------------------------------
(***************************************************************************)
(* Proofs that what a consumer must hear of is told: by the assembler,     *)
(* whatever its process forgets in a restart (the newest of each episode   *)
(* on top of the topic, each arrival once and as long as its process       *)
(* lives), and by the gateway's screen window, whatever it folds, holds    *)
(* and drops.                                                              *)
(***************************************************************************)
EXTENDS Assembler, ScreenWindow, FoldProofs

-----------------------------------------------------------------------------
(* Least and last numbers of a set.                                         *)

LEMMA LastIsThere ==
  ASSUME NEW T \in SUBSET Nat, T # {}, NEW n \in Nat, \A i \in T : i <= n
  PROVE  LastOf(T) \in T /\ \A i \in T : i <= LastOf(T)
  <1> DEFINE C == {i .. n : i \in T}
             S == 0 .. n
  <1>1. PICK t \in T : TRUE
    OBVIOUS
  <1>2. C \in SUBSET SUBSET S /\ (t .. n) \in C
    BY <1>1
  <1>3. IsFiniteSet(S)
    BY FS_Interval
  <1> HIDE DEF C, S
  <1>4. C # {}
    BY <1>2
  <1>5. PICK x \in C : \A y \in C : y \subseteq x => y = x
    BY <1>2, <1>4, <1>3, SmallestSet
  <1>6. PICK k \in T : x = k .. n
    BY <1>5 DEF C
  <1>7. ASSUME NEW j \in T PROVE j <= k
    <2> SUFFICES ASSUME k < j PROVE FALSE
      OBVIOUS
    <2>1. j .. n \in C
      BY <1>7 DEF C
    <2>2. j .. n \subseteq k .. n /\ k \in k .. n /\ k \notin j .. n
      OBVIOUS
    <2> QED
      BY <2>1, <2>2, <1>5, <1>6
  <1>8. \E i \in T : \A j \in T : j <= i
    BY <1>7
  <1> QED
    BY <1>8 DEF LastOf

\* A last number is the only one.
LEMMA LastIs ==
  ASSUME NEW T \in SUBSET Nat, NEW k \in T, \A i \in T : i <= k
  PROVE  LastOf(T) = k
  <1>1. \E i \in T : \A j \in T : j <= i
    OBVIOUS
  <1>2. LastOf(T) \in T /\ \A j \in T : j <= LastOf(T)
    BY <1>1 DEF LastOf
  <1>3. LastOf(T) <= k /\ k <= LastOf(T) /\ LastOf(T) \in Nat /\ k \in Nat
    BY <1>2
  <1> QED
    BY <1>3

-----------------------------------------------------------------------------
(* The invariant.                                                           *)

Episodes == [key : EpisodeKeys, sources : SourceSets]
RecordsOf(k) == {i \in DOMAIN asOut : asOut[i].key = k}
EpisodesIn(n) == ToSet(asCm[n].open)
LastSources(k) == asOut[LastOf(RecordsOf(k))].sources

\* The asset whose emplacement is being handled, or is not yet over.
AtWork(topic) == asPhase = "handling" /\ asMessage.topic = topic
Arrives(n) == asPosture[n].to = "emplaced" /\ asPosture[n].asset \in asMoved

AsTypes ==
    /\ asCm \in CmTopics /\ asPosture \in PostureTopics
    /\ asRead \in [cm : 0..Len(asCm), posture : 0..Len(asPosture)]
    /\ asPhase \in {"loop", "handling", "dead"}
    /\ asMessage \in [topic : {"none", "cm", "posture"}, n : Nat]
    /\ asTodo \in Seq(Episodes)
    /\ asProduced \in [EpisodeKeys -> SourceSets \cup {NotProduced}]
    /\ asLatest \in [CmAssets -> 0..Len(asCm)]
    /\ asMarch \in [CmAssets -> Nat] /\ asMoved \subseteq {a \in CmAssets : asMarch[a] # 0}
    /\ asArrived \subseteq [key : EpisodeKeys, n : DOMAIN asPosture]
    /\ asOut \in Seq([key : EpisodeKeys, sources : SourceSets, arrival : 0..Len(asPosture)])
    /\ asSeen \in [DOMAIN asPosture -> 0..Len(asCm)]
    /\ asStarts \in 1..MaxAssemblers

\* What is at work, and what it has yet to tell.
WorkOK ==
    /\ asPhase = "loop" => asMessage = NoMessage /\ asTodo = << >>
    /\ asPhase = "dead" => asTodo = << >>
    /\ asPhase = "handling" =>
          \/ /\ asMessage.topic = "cm" /\ asMessage.n = asRead.cm + 1 /\ asMessage.n \in DOMAIN asCm
             /\ asLatest[asCm[asMessage.n].asset] = asMessage.n
             /\ ToSet(asTodo) \subseteq EpisodesIn(asMessage.n)
          \/ /\ asMessage.topic = "posture" /\ asMessage.n = asRead.posture + 1 /\ asMessage.n \in DOMAIN asPosture
             /\ asTodo # << >> =>
                   /\ Arrives(asMessage.n) /\ asLatest[asPosture[asMessage.n].asset] # 0
                   /\ ToSet(asTodo) \subseteq EpisodesIn(asLatest[asPosture[asMessage.n].asset])
    /\ \A i, j \in DOMAIN asTodo : asTodo[i].key = asTodo[j].key => i = j
    /\ \A a \in CmAssets : asLatest[a] # 0 => asCm[asLatest[a]].asset = a

\* A topic that is as new as what was committed, for each key.
NewestInv ==
    \A k \in EpisodeKeys :
        /\ \A c \in 1..asRead.cm : IsOpenIn(c, k) => RecordsOf(k) # {}
        /\ RecordsOf(k) # {} =>
              \E n \in 1..(asRead.cm + 1) :
                 /\ n \in DOMAIN asCm /\ IsOpenIn(n, k) /\ LastSources(k) = SourcesIn(n, k)
                 /\ \A c \in 1..asRead.cm : IsOpenIn(c, k) => c <= n

\* What the process remembers of what it told.
MemoryInv ==
    asPhase # "dead" =>
        /\ \A k \in EpisodeKeys : asProduced[k] # NotProduced => RecordsOf(k) # {} /\ LastSources(k) = asProduced[k]
        /\ \A a \in CmAssets : asLatest[a] # 0 =>
              \A e \in EpisodesIn(asLatest[a]) :
                 asProduced[e.key] = e.sources \/ (AtWork("cm") /\ asMessage.n = asLatest[a] /\ e \in ToSet(asTodo))

\* How far the transitions are noted.
Noted == IF AtWork("posture") /\ ~Arrives(asMessage.n) THEN asRead.posture + 1 ELSE asRead.posture

Of(a, i) == asPosture[i].asset = a
OrderStands(m, a, p) ==
    /\ m \in 1..p /\ Of(a, m) /\ asPosture[m].to = "march_ordered"
    /\ \A i \in (m + 1)..p : Of(a, i) => asPosture[i].to \notin {"march_ordered", "emplaced"}
MovedSince(m, a, p) == \E i \in (m + 1)..p : Of(a, i) /\ asPosture[i].to = "moving"

MarchInv ==
    asPhase # "dead" =>
        \A a \in CmAssets : asMarch[a] # 0 =>
            \E m \in DOMAIN asPosture :
               OrderStands(m, a, Noted) /\ asPosture[m].at = asMarch[a] /\ (a \in asMoved => MovedSince(m, a, Noted))

ArrivalInv ==
    /\ \A i \in DOMAIN asOut : asOut[i].arrival # 0 =>
          /\ asOut[i].arrival <= asRead.posture + 1
          /\ \E m \in DOMAIN asPosture :
                MarchEnds(m, asOut[i].arrival) /\ DetectedAt[asOut[i].key] < asPosture[m].at
          /\ \A j \in DOMAIN asOut :
                asOut[j].arrival = asOut[i].arrival /\ asOut[j].key = asOut[i].key => j = i
    /\ \A i \in DOMAIN asOut : asOut[i].arrival = asRead.posture + 1 =>
          \/ asPhase = "dead"
          \/ AtWork("posture") /\ \A e \in ToSet(asTodo) : e.key # asOut[i].key
          \/ ~AtWork("posture") /\ asMarch[asPosture[asOut[i].arrival].asset] = 0
    /\ \A r \in asArrived : \E i \in DOMAIN asOut : asOut[i].key = r.key /\ asOut[i].arrival = r.n

IsTold(k, n) == \E i \in DOMAIN asOut : asOut[i].key = k /\ asOut[i].arrival = n
DueOf(m, c) == {e \in EpisodesIn(c) : DetectedAt[e.key] < asPosture[m].at}
NewestSeen(c, a, p) == c \in 1..p /\ asCm[c].asset = a /\ \A d \in 1..p : asCm[d].asset = a => d <= c

\* As long as the process has not been started again.
FirstLatest ==
    asStarts = 1 /\ asPhase # "dead" =>
        \A a \in CmAssets, c \in DOMAIN asCm :
            NewestSeen(c, a, IF AtWork("cm") THEN asRead.cm + 1 ELSE asRead.cm) => asLatest[a] = c

FirstMarch ==
    asStarts = 1 /\ asPhase # "dead" =>
        \A a \in CmAssets, m \in DOMAIN asPosture : OrderStands(m, a, Noted) =>
            asMarch[a] = asPosture[m].at /\ (MovedSince(m, a, Noted) => a \in asMoved)

FirstWork ==
    asStarts = 1 /\ AtWork("posture") =>
        /\ asSeen[asMessage.n] = asRead.cm
        /\ \A m \in DOMAIN asPosture, c \in DOMAIN asCm :
              MarchEnds(m, asMessage.n) /\ NewestSeen(c, asPosture[asMessage.n].asset, asRead.cm) =>
                  \A e \in DueOf(m, c) : e \in ToSet(asTodo) \/ IsTold(e.key, asMessage.n)

FirstTold ==
    asStarts = 1 =>
        \A n \in 1..asRead.posture, m \in DOMAIN asPosture, c \in DOMAIN asCm :
            MarchEnds(m, n) /\ NewestSeen(c, asPosture[n].asset, asSeen[n]) =>
                \A e \in DueOf(m, c) : IsTold(e.key, n)

AsInv ==
    /\ AsTypes /\ WorkOK /\ NewestInv /\ MemoryInv /\ MarchInv /\ ArrivalInv
    /\ FirstLatest /\ FirstMarch /\ FirstWork /\ FirstTold

-----------------------------------------------------------------------------
(* Types, and what is at work.                                              *)

LEMMA TopicsAre ==
  ASSUME AsTypes
  PROVE  /\ \A n \in DOMAIN asCm : asCm[n] \in [asset : CmAssets, open : Seq(Episodes)]
         /\ \A n \in DOMAIN asPosture : asPosture[n] \in [asset : CmAssets, to : STRING, at : Nat \ {0}]
         /\ DOMAIN asCm = 1..Len(asCm) /\ Len(asCm) \in Nat
         /\ DOMAIN asPosture = 1..Len(asPosture) /\ Len(asPosture) \in Nat
  <1> DEFINE States == [asset : CmAssets, open : Seq(Episodes)]
             Transitions == [asset : CmAssets, to : STRING, at : Nat \ {0}]
  <1>1. asCm \in Seq(States) /\ asPosture \in Seq(Transitions)
    <2>1. asCm \in CmTopics /\ asPosture \in PostureTopics
      BY DEF AsTypes
    <2>2. \A topic \in CmTopics : topic \in Seq(States)
      BY TopicsAssumption DEF Episodes
    <2>3. \A topic \in PostureTopics : topic \in Seq(Transitions)
      BY AssemblerAssumption
    <2> HIDE DEF States, Transitions
    <2> QED
      BY <2>1, <2>2, <2>3
  <1> HIDE DEF States, Transitions
  <1>2. /\ DOMAIN asCm = 1..Len(asCm) /\ Len(asCm) \in Nat /\ \A n \in DOMAIN asCm : asCm[n] \in States
        /\ DOMAIN asPosture = 1..Len(asPosture) /\ Len(asPosture) \in Nat
        /\ \A n \in DOMAIN asPosture : asPosture[n] \in Transitions
    BY <1>1
  <1> QED
    BY <1>2 DEF States, Transitions

LEMMA StateIs ==
  ASSUME AsTypes, NEW n \in DOMAIN asCm
  PROVE  /\ n \in 1..Len(asCm) /\ n \in Nat
         /\ asCm[n].asset \in CmAssets
         /\ asCm[n].open \in Seq(Episodes)
         /\ EpisodesIn(n) \subseteq Episodes
  <1>1. asCm[n] \in [asset : CmAssets, open : Seq(Episodes)] /\ n \in 1..Len(asCm)
    BY TopicsAre
  <1> QED
    BY <1>1 DEF EpisodesIn, ToSet

LEMMA TransitionIs ==
  ASSUME AsTypes, NEW n \in DOMAIN asPosture
  PROVE  n \in 1..Len(asPosture) /\ n \in Nat /\ asPosture[n].asset \in CmAssets /\ asPosture[n].at \in Nat \ {0}
  BY TopicsAre

\* What a state says of an episode it has.
LEMMA StateSays ==
  ASSUME AsTypes, NEW n \in DOMAIN asCm, NEW e \in EpisodesIn(n)
  PROVE  IsOpenIn(n, e.key) /\ SourcesIn(n, e.key) = e.sources
  <1>1. \A i, j \in DOMAIN asCm[n].open : asCm[n].open[i].key = asCm[n].open[j].key => i = j
    BY TopicsAssumption DEF AsTypes
  <1>2. PICK i \in DOMAIN asCm[n].open : e = asCm[n].open[i]
    BY DEF EpisodesIn, ToSet
  <1>3. \A d \in EpisodesIn(n) : d.key = e.key => d = e
    BY <1>1, <1>2 DEF EpisodesIn, ToSet
  <1>4. (CHOOSE d \in EpisodesIn(n) : d.key = e.key) = e
    BY <1>3
  <1> QED
    BY <1>4 DEF IsOpenIn, SourcesIn, EpisodesIn

\* An occurrence is of one asset.
LEMMA KeyIsOfOne ==
  ASSUME AsTypes, NEW n \in DOMAIN asCm, NEW m \in DOMAIN asCm,
         NEW d \in EpisodesIn(n), NEW e \in EpisodesIn(m), d.key = e.key
  PROVE  asCm[n].asset = asCm[m].asset
  <1>1. asCm \in CmTopics
    BY DEF AsTypes
  <1>2. PICK i \in DOMAIN asCm[n].open : d = asCm[n].open[i]
    BY DEF EpisodesIn, ToSet
  <1>3. PICK j \in DOMAIN asCm[m].open : e = asCm[m].open[j]
    BY DEF EpisodesIn, ToSet
  <1>4. \A x, y \in DOMAIN asCm : \A a \in DOMAIN asCm[x].open, b \in DOMAIN asCm[y].open :
           asCm[x].open[a].key = asCm[y].open[b].key => asCm[x].asset = asCm[y].asset
    BY <1>1, TopicsAssumption
  <1> QED
    BY <1>2, <1>3, <1>4

LEMMA HeadAndTail ==
  ASSUME NEW S, NEW s \in Seq(S), s # << >>,
         \A i, j \in DOMAIN s : s[i].key = s[j].key => i = j
  PROVE  /\ Head(s) \in S /\ Head(s) \in ToSet(s) /\ Tail(s) \in Seq(S)
         /\ ToSet(s) = {Head(s)} \cup ToSet(Tail(s))
         /\ \A e \in ToSet(Tail(s)) : e.key # Head(s).key
         /\ \A i, j \in DOMAIN Tail(s) : Tail(s)[i].key = Tail(s)[j].key => i = j
  <1>1. /\ Len(s) \in Nat \ {0} /\ Tail(s) \in Seq(S) /\ Len(Tail(s)) = Len(s) - 1 /\ Head(s) = s[1]
        /\ \A i \in 1..Len(Tail(s)) : Tail(s)[i] = s[i + 1]
        /\ DOMAIN s = 1..Len(s) /\ DOMAIN Tail(s) = 1..Len(Tail(s))
    OBVIOUS
  <1>2. ASSUME NEW i \in 1..Len(s) PROVE s[i] \in {Head(s)} \cup ToSet(Tail(s))
    <2>1. CASE i = 1
      BY <1>1, <2>1
    <2>2. CASE i # 1
      <3>1. i - 1 \in 1..Len(Tail(s)) /\ Tail(s)[i - 1] = s[i]
        BY <1>1, <2>2
      <3>2. \E j \in DOMAIN Tail(s) : s[i] = Tail(s)[j]
        BY <3>1, <1>1
      <3>3. ToSet(Tail(s)) = {Tail(s)[j] : j \in DOMAIN Tail(s)}
        BY DEF ToSet
      <3> QED
        BY <3>2, <3>3
    <2> QED
      BY <2>1, <2>2
  <1>3. \A e \in ToSet(Tail(s)) : \E i \in 2..Len(s) : e = s[i]
    BY <1>1 DEF ToSet
  <1>4. \A i \in 2..Len(s) : i \in DOMAIN s /\ i # 1 /\ 1 \in DOMAIN s
    BY <1>1
  <1>5. ToSet(s) = {Head(s)} \cup ToSet(Tail(s))
    BY <1>1, <1>2, <1>3, <1>4 DEF ToSet
  <1>6. ASSUME NEW i \in DOMAIN Tail(s), NEW j \in DOMAIN Tail(s), Tail(s)[i].key = Tail(s)[j].key PROVE i = j
    <2>1. i + 1 \in DOMAIN s /\ j + 1 \in DOMAIN s /\ s[i + 1].key = s[j + 1].key
      BY <1>1, <1>6
    <2>2. i + 1 = j + 1 /\ i \in Nat /\ j \in Nat
      BY <2>1, <1>1
    <2> QED
      BY <2>2
  <1>7. s[1] \in S /\ s[1] \in ToSet(s)
    BY <1>1 DEF ToSet
  <1> QED
    BY <1>1, <1>3, <1>4, <1>5, <1>6, <1>7

\* What every step leaves as it is.
LEMMA TopicsStay ==
  ASSUME [AssemblerNext]_assemblerVars
  PROVE  asCm' = asCm /\ asPosture' = asPosture
  BY DEF AssemblerNext, PollCm, PollPosture, Tell, CommitMessage, KillAssembler, StartAgain, Handles, assemblerVars

LEMMA TypesBegin == AssemblerInit => AsTypes /\ WorkOK
  <1> SUFFICES ASSUME AssemblerInit PROVE AsTypes /\ WorkOK
    OBVIOUS
  <1>1. /\ DOMAIN asCm = 1..Len(asCm) /\ Len(asCm) \in Nat
        /\ DOMAIN asPosture = 1..Len(asPosture) /\ Len(asPosture) \in Nat
    BY AssemblerAssumption, TopicsAssumption DEF AssemblerInit
  <1>2. AsTypes
    BY <1>1, AssemblerAssumption DEF AssemblerInit, AsTypes, NoMessage
  <1>3. WorkOK
    BY DEF AssemblerInit, WorkOK
  <1> QED
    BY <1>2, <1>3

LEMMA PollCmTypes ==
  ASSUME AsTypes, WorkOK, PollCm
  PROVE  AsTypes' /\ WorkOK'
  <1>1. PICK n \in Nat : n = asRead.cm + 1
    BY DEF AsTypes
  <1>2. n \in DOMAIN asCm /\ n \in 1..Len(asCm) /\ asCm[n].asset \in CmAssets /\ asCm[n].open \in Seq(Episodes)
    BY <1>1, StateIs DEF PollCm
  <1>3. \A i, j \in DOMAIN asCm[n].open : asCm[n].open[i].key = asCm[n].open[j].key => i = j
    BY <1>2, TopicsAssumption DEF AsTypes
  <1>4. AsTypes'
    <2>1. /\ asLatest' = [asLatest EXCEPT ![asCm[n].asset] = n] /\ asTodo' = asCm[n].open
          /\ asPhase' = "handling" /\ asMessage' = [topic |-> "cm", n |-> n]
          /\ asCm' = asCm /\ asPosture' = asPosture /\ asRead' = asRead /\ asOut' = asOut /\ asStarts' = asStarts
          /\ asProduced' = asProduced /\ asMarch' = asMarch /\ asMoved' = asMoved /\ asArrived' = asArrived /\ asSeen' = asSeen
      BY <1>1 DEF PollCm, Handles
    <2>2. asLatest' \in [CmAssets -> 0..Len(asCm)] /\ asMessage' \in [topic : {"none", "cm", "posture"}, n : Nat]
      BY <2>1, <1>2, <1>1 DEF AsTypes
    <2> QED
      BY <2>1, <2>2, <1>2 DEF AsTypes
  <1>5. asLatest' = [asLatest EXCEPT ![asCm[n].asset] = n]
    BY <1>1 DEF PollCm
  <1>6. asTodo' = asCm[n].open /\ asCm' = asCm /\ asPhase' = "handling" /\ asMessage' = [topic |-> "cm", n |-> n] /\ asRead' = asRead
    BY <1>1 DEF PollCm, Handles
  <1>7. asLatest'[asCm[n].asset] = n /\ \A a \in CmAssets : asLatest'[a] # 0 => asCm[asLatest'[a]].asset = a
    BY <1>2, <1>5 DEF AsTypes, WorkOK
  <1>8. ToSet(asTodo)' \subseteq EpisodesIn(n)'
    BY <1>6 DEF EpisodesIn
  <1> QED
    BY <1>1, <1>2, <1>3, <1>4, <1>6, <1>7, <1>8 DEF WorkOK

LEMMA PollPostureTypes ==
  ASSUME AsTypes, WorkOK, PollPosture
  PROVE  AsTypes' /\ WorkOK'
  <1>1. PICK n \in Nat : n = asRead.posture + 1
    BY DEF AsTypes
  <1>2. PICK asset : asset = asPosture[n].asset
    OBVIOUS
  <1>3. n \in DOMAIN asPosture /\ n \in 1..Len(asPosture) /\ asset \in CmAssets /\ asPosture[n].at \in Nat \ {0}
    BY <1>1, <1>2, TransitionIs DEF PollPosture
  <1>4. Arrives(n) => asMarch[asset] # 0
    BY <1>3, <1>2 DEF Arrives, AsTypes
  <1>5. asTodo' = IF Arrives(n) THEN OpenOf(asset) ELSE << >>
    BY <1>1, <1>2, <1>4 DEF PollPosture, Handles, Arrives
  <1>6. /\ OpenOf(asset) \in Seq(Episodes)
        /\ \A i, j \in DOMAIN OpenOf(asset) : OpenOf(asset)[i].key = OpenOf(asset)[j].key => i = j
        /\ asLatest[asset] # 0 => ToSet(OpenOf(asset)) = EpisodesIn(asLatest[asset])
    <2>1. CASE asLatest[asset] = 0
      BY <2>1 DEF OpenOf
    <2>2. CASE asLatest[asset] # 0
      <3>1. asLatest[asset] \in DOMAIN asCm
        BY <1>3, <2>2, TopicsAre DEF AsTypes
      <3>2. \A i, j \in DOMAIN asCm[asLatest[asset]].open :
               asCm[asLatest[asset]].open[i].key = asCm[asLatest[asset]].open[j].key => i = j
        BY <3>1, TopicsAssumption DEF AsTypes
      <3> QED
        BY <2>2, <3>1, <3>2, StateIs DEF OpenOf, EpisodesIn
    <2> QED
      BY <2>1, <2>2
  <1>7. AsTypes'
    <2>1. asTodo' \in Seq(Episodes)
      BY <1>5, <1>6
    <2>2. /\ asCm' = asCm /\ asPosture' = asPosture /\ asRead' = asRead /\ asPhase' = "handling"
          /\ asMessage' = [topic |-> "posture", n |-> n] /\ asOut' = asOut /\ asStarts' = asStarts
          /\ asProduced' = asProduced /\ asLatest' = asLatest /\ asArrived' = asArrived
          /\ asSeen' = [asSeen EXCEPT ![n] = asRead.cm]
      BY <1>1 DEF PollPosture, Handles
    <2>3. asMarch' \in [CmAssets -> Nat] /\ asMoved' \subseteq {a \in CmAssets : asMarch'[a] # 0}
      BY <1>1, <1>2, <1>3, <1>4 DEF PollPosture, AsTypes, MovedAfterOrder, Arrives
    <2>4. asSeen' \in [DOMAIN asPosture -> 0..Len(asCm)] /\ asMessage' \in [topic : {"none", "cm", "posture"}, n : Nat]
      BY <2>2, <1>3 DEF AsTypes
    <2> QED
      BY <2>1, <2>2, <2>3, <2>4 DEF AsTypes
  <1>8. /\ asCm' = asCm /\ asPosture' = asPosture /\ asRead' = asRead /\ asPhase' = "handling"
        /\ asMessage' = [topic |-> "posture", n |-> n] /\ asLatest' = asLatest
    BY <1>1 DEF PollPosture, Handles
  <1>9. asTodo' # << >> => Arrives(n)' /\ asLatest[asset] # 0 /\ ToSet(asTodo') \subseteq EpisodesIn(asLatest[asset])
    <2> SUFFICES ASSUME asTodo' # << >> PROVE Arrives(n)' /\ asLatest[asset] # 0 /\ ToSet(asTodo') \subseteq EpisodesIn(asLatest[asset])
      OBVIOUS
    <2>1. Arrives(n) /\ asTodo' = OpenOf(asset) /\ asLatest[asset] # 0
      BY <1>5 DEF OpenOf
    <2>2. asMoved' = asMoved
      BY <2>1, <1>1 DEF PollPosture, Arrives
    <2> QED
      BY <2>1, <2>2, <1>6, <1>8, <1>2 DEF Arrives
  <1> QED
    <2>1. \A i, j \in DOMAIN asTodo' : asTodo'[i].key = asTodo'[j].key => i = j
      BY <1>5, <1>6
    <2>2. \A a \in CmAssets : asLatest'[a] # 0 => asCm'[asLatest'[a]].asset = a
      BY <1>8 DEF WorkOK
    <2>3. ToSet(asTodo)' = ToSet(asTodo') /\ EpisodesIn(asLatest[asset])' = EpisodesIn(asLatest[asset])
      BY <1>8 DEF EpisodesIn
    <2>4. asPosture'[n].asset = asset /\ n = asRead'.posture + 1 /\ n \in DOMAIN asPosture'
      BY <1>1, <1>2, <1>3, <1>8
    <2> QED
      BY <2>1, <2>2, <2>3, <2>4, <1>7, <1>8, <1>9 DEF WorkOK

\* A record is added, or the message's next episode passed over.
LEMMA TellCases ==
  ASSUME AsTypes, WorkOK, Tell
  PROVE  /\ asPhase = "handling" /\ asTodo # << >>
         /\ Head(asTodo) \in Episodes /\ Head(asTodo) \in ToSet(asTodo)
         /\ asMessage.n \in Nat /\ Arrival \in 0..Len(asPosture)
         /\ Told(Head(asTodo)) \in [key : EpisodeKeys, sources : SourceSets, arrival : 0..Len(asPosture)]
         /\ asTodo' = Tail(asTodo) \/ (asTodo' = << >> /\ asPhase' = "dead")
         /\ asPhase' = asPhase \/ asPhase' = "dead"
         /\ asOut' = asOut \/ asOut' = Append(asOut, Told(Head(asTodo)))
         /\ UNCHANGED <<asCm, asPosture, asRead, asMessage, asLatest, asMarch, asMoved, asSeen, asStarts>>
  <1>1. asPhase = "handling" /\ asTodo # << >>
    BY DEF Tell
  <1>2. Head(asTodo) \in Episodes /\ Head(asTodo) \in ToSet(asTodo)
    BY <1>1, HeadAndTail DEF AsTypes, WorkOK
  <1>3. asMessage.n \in Nat /\ Arrival \in 0..Len(asPosture)
    BY <1>1, TopicsAre DEF WorkOK, AsTypes, Arrival
  <1>4. Told(Head(asTodo)) \in [key : EpisodeKeys, sources : SourceSets, arrival : 0..Len(asPosture)]
    BY <1>2, <1>3 DEF Told, Episodes
  <1> QED
    BY <1>1, <1>2, <1>3, <1>4 DEF Tell

LEMMA TellTypes ==
  ASSUME AsTypes, WorkOK, Tell
  PROVE  AsTypes' /\ WorkOK'
  <1> DEFINE e == Head(asTodo)
  <1>1. /\ asTodo # << >> /\ e \in Episodes /\ e \in ToSet(asTodo) /\ Tail(asTodo) \in Seq(Episodes)
        /\ ToSet(Tail(asTodo)) \subseteq ToSet(asTodo)
        /\ \A i, j \in DOMAIN Tail(asTodo) : Tail(asTodo)[i].key = Tail(asTodo)[j].key => i = j
    <2>1. asTodo \in Seq(Episodes) /\ asTodo # << >>
      BY TellCases DEF AsTypes
    <2>2. \A i, j \in DOMAIN asTodo : asTodo[i].key = asTodo[j].key => i = j
      BY DEF WorkOK
    <2> QED
      BY <2>1, <2>2, HeadAndTail
  <1>2. asOut' \in Seq([key : EpisodeKeys, sources : SourceSets, arrival : 0..Len(asPosture)])
    <2> DEFINE R == [key : EpisodeKeys, sources : SourceSets, arrival : 0..Len(asPosture)]
               r == Told(e)
    <2>1. asOut \in Seq(R) /\ r \in R /\ (asOut' = asOut \/ asOut' = Append(asOut, r))
      BY TellCases DEF AsTypes
    <2> HIDE DEF R, r
    <2>2. asOut' \in Seq(R)
      BY <2>1
    <2> QED
      BY <2>2 DEF R
  <1>3. /\ asProduced' \in [EpisodeKeys -> SourceSets \cup {NotProduced}]
        /\ asArrived' \subseteq [key : EpisodeKeys, n : DOMAIN asPosture]
    <2>1. \/ asProduced' = asProduced /\ asArrived' = asArrived
          \/ asProduced' = [asProduced EXCEPT ![e.key] = e.sources] /\ asArrived' = asArrived
          \/ /\ asProduced' = asProduced /\ asArrived' = asArrived \cup {[key |-> e.key, n |-> Arrival]}
             /\ Arrival # 0
      BY DEF Tell, Notes
    <2>2. Arrival # 0 => Arrival \in DOMAIN asPosture
      BY TellCases, TopicsAre
    <2> HIDE DEF e
    <2> QED
      BY <1>1, <2>1, <2>2 DEF AsTypes, Episodes
  <1> HIDE DEF e
  <1>4. asPhase' \in {"handling", "dead"} /\ (asTodo' = Tail(asTodo) \/ (asTodo' = << >> /\ asPhase' = "dead"))
    BY TellCases
  <1>5. UNCHANGED <<asCm, asPosture, asRead, asMessage, asLatest, asMarch, asMoved, asSeen, asStarts>>
    BY DEF Tell
  <1>6. /\ asTodo' \in Seq(Episodes) /\ ToSet(asTodo') \subseteq ToSet(asTodo)
        /\ \A i, j \in DOMAIN asTodo' : asTodo'[i].key = asTodo'[j].key => i = j
    <2>1. CASE asTodo' = Tail(asTodo)
      BY <1>1, <2>1
    <2>2. CASE asTodo' = << >>
      BY <2>2 DEF ToSet
    <2> QED
      BY <1>4, <2>1, <2>2
  <1>7. AsTypes'
    <2>1. /\ asCm' \in CmTopics /\ asPosture' \in PostureTopics
          /\ asRead' \in [cm : 0..Len(asCm'), posture : 0..Len(asPosture')]
          /\ asMessage' \in [topic : {"none", "cm", "posture"}, n : Nat]
          /\ asLatest' \in [CmAssets -> 0..Len(asCm')]
          /\ asMarch' \in [CmAssets -> Nat] /\ asMoved' \subseteq {a \in CmAssets : asMarch'[a] # 0}
          /\ asSeen' \in [DOMAIN asPosture' -> 0..Len(asCm')] /\ asStarts' \in 1..MaxAssemblers
      BY <1>5 DEF AsTypes
    <2> QED
      BY <2>1, <1>2, <1>3, <1>4, <1>5, <1>6 DEF AsTypes
  <1>8. asPhase = "handling" /\ (asPhase' = "dead" => asTodo' = << >>)
    BY DEF Tell, WorkOK
  <1>9. WorkOK'
    <2>1. \A n : EpisodesIn(n)' = EpisodesIn(n) /\ Arrives(n)' = Arrives(n)
      BY <1>5 DEF EpisodesIn, Arrives
    <2>2. ToSet(asTodo)' = ToSet(asTodo')
      OBVIOUS
    <2> QED
      BY <1>1, <1>4, <1>5, <1>6, <1>8, <2>1, <2>2 DEF WorkOK
  <1> QED
    BY <1>7, <1>9

LEMMA CommitTypes ==
  ASSUME AsTypes, WorkOK, CommitMessage
  PROVE  AsTypes' /\ WorkOK'
  <1>1. AsTypes'
    <2>1. asRead' \in [cm : 0..Len(asCm), posture : 0..Len(asPosture)]
      BY TopicsAre DEF CommitMessage, AsTypes, WorkOK
    <2>2. asMarch' \in [CmAssets -> Nat] /\ asMoved' \subseteq {a \in CmAssets : asMarch'[a] # 0}
      BY DEF CommitMessage, AsTypes
    <2>3. asMessage' \in [topic : {"none", "cm", "posture"}, n : Nat]
      BY DEF CommitMessage, NoMessage
    <2> QED
      BY <2>1, <2>2, <2>3 DEF CommitMessage, AsTypes
  <1>2. WorkOK'
    BY DEF CommitMessage, WorkOK
  <1> QED
    BY <1>1, <1>2

LEMMA StopTypes ==
  ASSUME AsTypes, WorkOK, KillAssembler \/ StartAgain \/ UNCHANGED assemblerVars
  PROVE  AsTypes' /\ WorkOK'
  <1>1. CASE KillAssembler
    BY <1>1 DEF KillAssembler, memoryVars, AsTypes, WorkOK, EpisodesIn, Arrives
  <1>2. CASE StartAgain
    <2>1. asTodo' = << >>
      BY <1>2 DEF StartAgain, WorkOK
    <2>2. AsTypes'
      BY <1>2, AssemblerAssumption DEF StartAgain, Forgets, AsTypes, NoMessage
    <2>3. WorkOK'
      BY <1>2, <2>1 DEF StartAgain, Forgets, WorkOK
    <2> QED
      BY <2>2, <2>3
  <1>3. CASE UNCHANGED assemblerVars
    BY <1>3 DEF assemblerVars, memoryVars, AsTypes, WorkOK, EpisodesIn, Arrives
  <1> QED
    BY <1>1, <1>2, <1>3

LEMMA TypesStep ==
  ASSUME AsTypes, WorkOK, [AssemblerNext]_assemblerVars
  PROVE  AsTypes' /\ WorkOK'
  BY PollCmTypes, PollPostureTypes, TellTypes, CommitTypes, StopTypes DEF AssemblerNext

-----------------------------------------------------------------------------
(* The newest of each episode is on top.                                    *)

LEMMA RecordIs ==
  ASSUME AsTypes, NEW i \in DOMAIN asOut
  PROVE  asOut[i].key \in EpisodeKeys /\ asOut[i].arrival \in 0..Len(asPosture) /\ asOut[i].arrival \in Nat
  <1> DEFINE R == [key : EpisodeKeys, sources : SourceSets, arrival : 0..Len(asPosture)]
  <1>1. asOut \in Seq(R)
    BY DEF AsTypes
  <1>2. asOut[i] \in R => asOut[i].key \in EpisodeKeys /\ asOut[i].arrival \in 0..Len(asPosture)
    OBVIOUS
  <1> HIDE DEF R
  <1>3. asOut[i] \in R
    BY <1>1
  <1> QED
    BY <1>2, <1>3

\* The topic after a record is added.
LEMMA OneMore ==
  ASSUME AsTypes, NEW r \in [key : EpisodeKeys, sources : SourceSets, arrival : 0..Len(asPosture)],
         asOut' = Append(asOut, r)
  PROVE  /\ Len(asOut) \in Nat /\ DOMAIN asOut = 1..Len(asOut) /\ DOMAIN asOut' = 1..(Len(asOut) + 1)
         /\ \A i \in DOMAIN asOut : asOut'[i] = asOut[i]
         /\ asOut'[Len(asOut) + 1] = r
  <1> DEFINE R == [key : EpisodeKeys, sources : SourceSets, arrival : 0..Len(asPosture)]
  <1>1. asOut \in Seq(R) /\ r \in R
    BY DEF AsTypes
  <1> HIDE DEF R
  <1> QED
    BY <1>1

LEMMA LastAfter ==
  ASSUME AsTypes, NEW r \in [key : EpisodeKeys, sources : SourceSets, arrival : 0..Len(asPosture)],
         asOut' = Append(asOut, r), NEW k
  PROVE  /\ RecordsOf(k)' # {} <=> (RecordsOf(k) # {} \/ r.key = k)
         /\ r.key = k => LastSources(k)' = r.sources
         /\ r.key # k /\ RecordsOf(k) # {} => LastSources(k)' = LastSources(k)
  <1>1. /\ Len(asOut) \in Nat /\ DOMAIN asOut = 1..Len(asOut) /\ DOMAIN asOut' = 1..(Len(asOut) + 1)
        /\ \A i \in DOMAIN asOut : asOut'[i] = asOut[i]
        /\ asOut'[Len(asOut) + 1] = r
    BY OneMore
  <1> DEFINE m == Len(asOut) + 1
  <1>2. CASE r.key = k
    <2>1. RecordsOf(k)' \in SUBSET Nat /\ m \in RecordsOf(k)' /\ \A i \in RecordsOf(k)' : i <= m
      BY <1>1, <1>2 DEF RecordsOf
    <2>2. LastOf(RecordsOf(k)') = m
      BY <2>1, LastIs
    <2>3. LastSources(k)' = asOut'[LastOf(RecordsOf(k)')].sources
      BY DEF LastSources
    <2> QED
      BY <2>1, <2>2, <2>3, <1>1, <1>2
  <1>3. CASE r.key # k
    <2>1. RecordsOf(k)' = RecordsOf(k)
      BY <1>1, <1>3 DEF RecordsOf
    <2>2. ASSUME RecordsOf(k) # {} PROVE LastOf(RecordsOf(k)) \in DOMAIN asOut
      <3>1. RecordsOf(k) \in SUBSET Nat /\ \A i \in RecordsOf(k) : i <= Len(asOut)
        BY <1>1 DEF RecordsOf
      <3>2. LastOf(RecordsOf(k)) \in RecordsOf(k)
        BY <3>1, <2>2, <1>1, LastIsThere
      <3> QED
        BY <3>2 DEF RecordsOf
    <2>3. LastSources(k)' = asOut'[LastOf(RecordsOf(k)')].sources
      BY DEF LastSources
    <2> QED
      BY <2>1, <2>2, <2>3, <1>1, <1>3 DEF LastSources
  <1> QED
    BY <1>2, <1>3

LEMMA SameOut ==
  ASSUME asOut' = asOut, NEW k
  PROVE  RecordsOf(k)' = RecordsOf(k) /\ LastSources(k)' = LastSources(k)
  <1>1. RecordsOf(k)' = RecordsOf(k)
    BY DEF RecordsOf
  <1>2. LastSources(k)' = asOut'[LastOf(RecordsOf(k)')].sources
    BY DEF LastSources
  <1> QED
    BY <1>1, <1>2 DEF LastSources

\* The records that Tell may add: an arrival says what was last said.
LEMMA TellsOf ==
  ASSUME AsTypes, WorkOK, MemoryInv, Tell, NEW e, e = Head(asTodo)
  PROVE  /\ e \in Episodes /\ e \in ToSet(asTodo) /\ Told(e).key = e.key /\ Told(e).sources = e.sources
         /\ \/ /\ AtWork("cm") /\ Arrival = 0 /\ asMessage.n = asRead.cm + 1 /\ asMessage.n \in DOMAIN asCm
                /\ asLatest[asCm[asMessage.n].asset] = asMessage.n
                /\ e \in EpisodesIn(asMessage.n)
            \/ /\ AtWork("posture") /\ ~AtWork("cm") /\ Arrival = asMessage.n /\ asMessage.n # 0
                /\ asProduced[e.key] = e.sources /\ e.sources # NotProduced
                /\ RecordsOf(e.key) # {} /\ LastSources(e.key) = e.sources
  <1>1. e \in Episodes /\ e \in ToSet(asTodo) /\ asPhase = "handling" /\ asTodo # << >>
    BY TellCases
  <1>2. Told(e).key = e.key /\ Told(e).sources = e.sources /\ e.sources # NotProduced /\ e.key \in EpisodeKeys
    BY <1>1, AssemblerAssumption DEF Told, Episodes
  <1>3. CASE asMessage.topic = "cm"
    BY <1>1, <1>2, <1>3 DEF WorkOK, AtWork, Arrival
  <1>4. CASE asMessage.topic = "posture"
    <2>1. /\ asMessage.n \in DOMAIN asPosture /\ asPosture[asMessage.n].asset \in CmAssets
          /\ asLatest[asPosture[asMessage.n].asset] # 0
          /\ e \in EpisodesIn(asLatest[asPosture[asMessage.n].asset])
      BY <1>1, <1>4, TransitionIs DEF WorkOK
    <2>2. asProduced[e.key] = e.sources
      BY <2>1, <1>1, <1>4 DEF MemoryInv, AtWork
    <2>3. asMessage.n # 0
      BY <2>1, TransitionIs
    <2> QED
      BY <2>1, <2>2, <2>3, <1>1, <1>2, <1>4 DEF MemoryInv, AtWork, Arrival
  <1> QED
    BY <1>1, <1>3, <1>4 DEF WorkOK

\* What was told of a state when all of it was handled.
LEMMA AllSaid ==
  ASSUME AsTypes, WorkOK, MemoryInv, AtWork("cm"), asTodo = << >>,
         NEW k \in EpisodeKeys, IsOpenIn(asMessage.n, k)
  PROVE  RecordsOf(k) # {} /\ LastSources(k) = SourcesIn(asMessage.n, k)
  <1>1. asMessage.n \in DOMAIN asCm /\ asLatest[asCm[asMessage.n].asset] = asMessage.n
    BY DEF WorkOK, AtWork
  <1>2. PICK e \in EpisodesIn(asMessage.n) : e.key = k
    BY DEF IsOpenIn, EpisodesIn
  <1>3. SourcesIn(asMessage.n, k) = e.sources /\ e.sources # NotProduced
    BY <1>1, <1>2, StateSays, StateIs, AssemblerAssumption DEF Episodes
  <1>4. asCm[asMessage.n].asset \in CmAssets /\ asMessage.n # 0
    BY <1>1, StateIs, TopicsAre
  <1>5. e \notin ToSet(asTodo)
    BY DEF ToSet
  <1>6. asProduced[e.key] = e.sources
    BY <1>1, <1>2, <1>4, <1>5 DEF MemoryInv, AtWork
  <1> QED
    BY <1>2, <1>3, <1>6 DEF MemoryInv, AtWork

LEMMA NewestStep ==
  ASSUME AsTypes, WorkOK, NewestInv, MemoryInv, [AssemblerNext]_assemblerVars
  PROVE  NewestInv'
  <1>1. asRead.cm \in Nat /\ asRead.cm \in 0..Len(asCm)
    BY TopicsAre DEF AsTypes
  <1>2. asCm' = asCm
    BY TopicsStay
  <1>3. \A n, k : (IsOpenIn(n, k)' <=> IsOpenIn(n, k)) /\ SourcesIn(n, k)' = SourcesIn(n, k)
    BY <1>2 DEF IsOpenIn, SourcesIn
  <1>4. CASE asOut' = asOut /\ asRead'.cm = asRead.cm
    BY <1>2, <1>3, <1>4, SameOut DEF NewestInv
  <1>5. CASE Tell
    <2> DEFINE e == Head(asTodo)
    <2>1. asRead' = asRead /\ (asOut' = asOut \/ asOut' = Append(asOut, Told(e)))
          /\ Told(e) \in [key : EpisodeKeys, sources : SourceSets, arrival : 0..Len(asPosture)]
      BY <1>5, TellCases
    <2>2. CASE asOut' = Append(asOut, Told(e))
      <3> SUFFICES ASSUME NEW k \in EpisodeKeys
                   PROVE  /\ \A c \in 1..asRead.cm : IsOpenIn(c, k) => RecordsOf(k)' # {}
                          /\ RecordsOf(k)' # {} =>
                                \E n \in 1..(asRead.cm + 1) :
                                   /\ n \in DOMAIN asCm /\ IsOpenIn(n, k) /\ LastSources(k)' = SourcesIn(n, k)
                                   /\ \A c \in 1..asRead.cm : IsOpenIn(c, k) => c <= n
        BY <1>2, <1>3, <2>1 DEF NewestInv
      <3>1. /\ RecordsOf(k)' # {} <=> (RecordsOf(k) # {} \/ Told(e).key = k)
            /\ Told(e).key = k => LastSources(k)' = Told(e).sources
            /\ Told(e).key # k /\ RecordsOf(k) # {} => LastSources(k)' = LastSources(k)
        BY <2>1, <2>2, LastAfter
      <3>2. CASE Told(e).key # k
        BY <3>1, <3>2 DEF NewestInv
      <3>3. CASE Told(e).key = k /\ AtWork("cm")
        <4>1. /\ asMessage.n = asRead.cm + 1 /\ asMessage.n \in DOMAIN asCm /\ e \in EpisodesIn(asMessage.n)
              /\ e.key = k /\ LastSources(k)' = e.sources
          BY <1>5, <3>1, <3>3, TellsOf
        <4>2. IsOpenIn(asMessage.n, k) /\ SourcesIn(asMessage.n, k) = e.sources
          BY <4>1, StateSays
        <4>3. asMessage.n \in 1..(asRead.cm + 1) /\ \A c \in 1..asRead.cm : c <= asMessage.n
          BY <1>1, <4>1
        <4> QED
          BY <3>1, <3>3, <4>1, <4>2, <4>3
      <3>4. CASE Told(e).key = k /\ ~AtWork("cm")
        <4>1. RecordsOf(k) # {} /\ LastSources(k)' = LastSources(k)
          BY <1>5, <3>1, <3>4, TellsOf
        <4> QED
          BY <3>1, <4>1 DEF NewestInv
      <3> QED
        BY <3>2, <3>3, <3>4
    <2> QED
      BY <2>1, <2>2, <1>4
  <1>6. CASE CommitMessage /\ asRead'.cm # asRead.cm
    <2>1. /\ AtWork("cm") /\ asTodo = << >> /\ asOut' = asOut /\ asRead'.cm = asRead.cm + 1
          /\ asMessage.n = asRead.cm + 1 /\ asMessage.n \in DOMAIN asCm
      BY <1>6 DEF CommitMessage, AtWork, WorkOK, AsTypes
    <2> SUFFICES ASSUME NEW k \in EpisodeKeys
                 PROVE  /\ \A c \in 1..(asRead.cm + 1) : IsOpenIn(c, k) => RecordsOf(k) # {}
                        /\ RecordsOf(k) # {} =>
                              \E n \in 1..(asRead.cm + 2) :
                                 /\ n \in DOMAIN asCm /\ IsOpenIn(n, k) /\ LastSources(k) = SourcesIn(n, k)
                                 /\ \A c \in 1..(asRead.cm + 1) : IsOpenIn(c, k) => c <= n
      BY <1>1, <1>2, <1>3, <2>1, SameOut DEF NewestInv
    <2>2. \A c \in 1..(asRead.cm + 1) : c \in 1..asRead.cm \/ c = asMessage.n
      BY <1>1, <2>1
    <2>3. CASE IsOpenIn(asMessage.n, k)
      <3>1. RecordsOf(k) # {} /\ LastSources(k) = SourcesIn(asMessage.n, k)
        BY <2>1, <2>3, AllSaid
      <3>2. asMessage.n \in 1..(asRead.cm + 2) /\ \A c \in 1..(asRead.cm + 1) : c <= asMessage.n
        BY <1>1, <2>1
      <3> QED
        BY <2>1, <2>3, <3>1, <3>2
    <2>4. CASE ~IsOpenIn(asMessage.n, k)
      <3>1. \A n \in 1..(asRead.cm + 1) : n \in 1..(asRead.cm + 2)
        BY <1>1
      <3> QED
        BY <2>2, <2>4, <3>1 DEF NewestInv
    <2> QED
      BY <2>3, <2>4
  <1>7. PollCm \/ PollPosture \/ KillAssembler \/ StartAgain \/ UNCHANGED assemblerVars => asOut' = asOut /\ asRead' = asRead
    BY DEF PollCm, PollPosture, Handles, KillAssembler, StartAgain, assemblerVars
  <1>8. CommitMessage => asOut' = asOut
    BY DEF CommitMessage
  <1> QED
    BY <1>4, <1>5, <1>6, <1>7, <1>8 DEF AssemblerNext

LEMMA MemoryStep ==
  ASSUME AsTypes, WorkOK, MemoryInv, [AssemblerNext]_assemblerVars
  PROVE  MemoryInv'
  <1>1. asCm' = asCm /\ \A n : EpisodesIn(n)' = EpisodesIn(n)
    BY TopicsStay DEF EpisodesIn
  <1>2. CASE PollCm
    <2>1. PICK n \in Nat : n = asRead.cm + 1
      BY DEF AsTypes
    <2>2. /\ asPhase = "loop" /\ asPhase' = "handling" /\ asMessage' = [topic |-> "cm", n |-> n] /\ asTodo' = asCm[n].open
          /\ asLatest' = [asLatest EXCEPT ![asCm[n].asset] = n] /\ asProduced' = asProduced /\ asOut' = asOut
          /\ n \in DOMAIN asCm
      BY <1>2, <2>1 DEF PollCm, Handles
    <2>3. AtWork("cm")' /\ ~AtWork("cm") /\ ToSet(asTodo') = EpisodesIn(n)
      BY <2>2 DEF AtWork, EpisodesIn
    <2>4. \A a \in CmAssets : asLatest'[a] = asLatest[a] \/ asLatest'[a] = n
      BY <2>2 DEF AsTypes
    <2>5. \A k \in EpisodeKeys : RecordsOf(k)' = RecordsOf(k) /\ LastSources(k)' = LastSources(k)
      BY <2>2, SameOut
    <2>6. ASSUME NEW a \in CmAssets, asLatest'[a] # 0, NEW f \in EpisodesIn(asLatest'[a])
          PROVE  asProduced[f.key] = f.sources \/ (asMessage'.n = asLatest'[a] /\ f \in ToSet(asTodo'))
      <3>1. CASE asLatest'[a] = n
        BY <3>1, <2>2, <2>3, <2>6
      <3>2. CASE asLatest'[a] = asLatest[a]
        BY <3>2, <2>2, <2>3, <2>6 DEF MemoryInv
      <3> QED
        BY <3>1, <3>2, <2>4
    <2> QED
      BY <1>1, <2>2, <2>3, <2>5, <2>6 DEF MemoryInv
  <1>3. CASE PollPosture
    <2>1. asPhase = "loop" /\ asProduced' = asProduced /\ asOut' = asOut /\ asLatest' = asLatest
      BY <1>3 DEF PollPosture, Handles
    <2>2. \A k \in EpisodeKeys : RecordsOf(k)' = RecordsOf(k) /\ LastSources(k)' = LastSources(k)
      BY <2>1, SameOut
    <2> QED
      BY <1>1, <2>1, <2>2 DEF MemoryInv, AtWork
  <1>4. CASE Tell /\ asPhase' # "dead"
    <2> DEFINE e == Head(asTodo)
    <2>1. /\ e \in Episodes /\ e.key \in EpisodeKeys /\ e \in ToSet(asTodo)
          /\ Told(e) \in [key : EpisodeKeys, sources : SourceSets, arrival : 0..Len(asPosture)]
          /\ asPhase' = asPhase /\ asMessage' = asMessage /\ asLatest' = asLatest /\ asTodo' = Tail(asTodo)
          /\ asPhase = "handling"
      BY <1>4, TellCases DEF Episodes
    <2>2. (AtWork("cm")' <=> AtWork("cm"))
      BY <2>1 DEF AtWork
    <2>3. ToSet(asTodo) = {e} \cup ToSet(asTodo')
      <3>1. asTodo \in Seq(Episodes) /\ asTodo # << >> /\ \A i, j \in DOMAIN asTodo : asTodo[i].key = asTodo[j].key => i = j
        BY <1>4, TellCases DEF AsTypes, WorkOK
      <3> QED
        BY <3>1, <2>1, HeadAndTail
    <2>4. CASE PassedOver(e)
      <3>1. asOut' = asOut /\ asProduced' = asProduced
        BY <1>4, <2>4 DEF Tell
      <3>2. \A k \in EpisodeKeys : RecordsOf(k)' = RecordsOf(k) /\ LastSources(k)' = LastSources(k)
        BY <3>1, SameOut
      <3>3. AtWork("cm") => asProduced[e.key] = e.sources
        BY <2>4 DEF PassedOver, Arrival, AtWork
      <3> HIDE DEF e
      <3> QED
        BY <1>1, <2>1, <2>2, <2>3, <3>1, <3>2, <3>3 DEF MemoryInv
    <2>5. CASE ~PassedOver(e)
      <3>1. asOut' = Append(asOut, Told(e)) /\ Notes(e)
        BY <1>4, <2>5, <2>1 DEF Tell
      <3>2. /\ Told(e).key = e.key /\ Told(e).sources = e.sources
            /\ \/ /\ AtWork("cm") /\ Arrival = 0 /\ asMessage.n = asRead.cm + 1 /\ asMessage.n \in DOMAIN asCm
                   /\ asLatest[asCm[asMessage.n].asset] = asMessage.n
                   /\ e \in EpisodesIn(asMessage.n)
               \/ /\ AtWork("posture") /\ ~AtWork("cm") /\ Arrival = asMessage.n /\ asMessage.n # 0
                   /\ asProduced[e.key] = e.sources /\ e.sources # NotProduced
                   /\ RecordsOf(e.key) # {} /\ LastSources(e.key) = e.sources
        BY <1>4, TellsOf
      <3>3. \A k \in EpisodeKeys :
               /\ RecordsOf(k)' # {} <=> (RecordsOf(k) # {} \/ e.key = k)
               /\ e.key = k => LastSources(k)' = e.sources
               /\ e.key # k /\ RecordsOf(k) # {} => LastSources(k)' = LastSources(k)
        BY <2>1, <3>1, <3>2, LastAfter
      <3>4. asProduced' = [asProduced EXCEPT ![e.key] = e.sources]
        BY <3>1, <3>2 DEF Notes, AsTypes
      <3> HIDE DEF e
      <3>5. \A k \in EpisodeKeys : asProduced'[k] = IF k = e.key THEN e.sources ELSE asProduced[k]
        BY <3>4, <2>1 DEF AsTypes
      <3>6. \A k \in EpisodeKeys : asProduced'[k] # NotProduced => RecordsOf(k)' # {} /\ LastSources(k)' = asProduced'[k]
        BY <3>3, <3>5, <2>1 DEF MemoryInv
      <3>7. ASSUME NEW a \in CmAssets, asLatest[a] # 0, NEW f \in EpisodesIn(asLatest[a])
            PROVE  asProduced'[f.key] = f.sources \/ (AtWork("cm") /\ asMessage.n = asLatest[a] /\ f \in ToSet(asTodo'))
        <4>1. asLatest[a] \in DOMAIN asCm /\ asCm[asLatest[a]].asset = a /\ f \in Episodes /\ f.key \in EpisodeKeys
          <5>1. asLatest[a] \in DOMAIN asCm
            BY <3>7, TopicsAre DEF AsTypes
          <5> QED
            BY <3>7, <5>1, StateIs DEF WorkOK, Episodes
        <4>2. asProduced[f.key] = f.sources \/ (AtWork("cm") /\ asMessage.n = asLatest[a] /\ f \in ToSet(asTodo))
          BY <3>7, <2>1 DEF MemoryInv
        <4>3. CASE f.key # e.key
          BY <4>1, <4>2, <4>3, <3>5, <2>3
        <4>4. CASE f.key = e.key /\ AtWork("cm")
          <5>1. asMessage.n \in DOMAIN asCm /\ e \in EpisodesIn(asMessage.n)
            BY <3>2, <4>4
          <5>2. asCm[asMessage.n].asset = a
            BY <3>7, <4>1, <4>4, <5>1, KeyIsOfOne
          <5>3. asLatest[a] = asMessage.n
            BY <5>2, <3>2, <4>4
          <5>4. f.sources = e.sources
            BY <5>1, <5>3, <3>7, <4>4, StateSays
          <5> QED
            BY <5>4, <4>1, <4>4, <3>5
        <4>5. CASE f.key = e.key /\ ~AtWork("cm")
          BY <4>1, <4>2, <4>5, <3>2, <3>5
        <4> QED
          BY <4>3, <4>4, <4>5
      <3> QED
        BY <1>1, <2>1, <2>2, <3>6, <3>7 DEF MemoryInv
    <2> QED
      BY <2>4, <2>5
  <1>5. CASE CommitMessage
    <2>1. asPhase = "handling" /\ asProduced' = asProduced /\ asOut' = asOut /\ asLatest' = asLatest /\ asTodo = << >>
      BY <1>5 DEF CommitMessage
    <2>2. \A k \in EpisodeKeys : RecordsOf(k)' = RecordsOf(k) /\ LastSources(k)' = LastSources(k)
      BY <2>1, SameOut
    <2>3. ToSet(asTodo) = {}
      BY <2>1 DEF ToSet
    <2> QED
      BY <1>1, <2>1, <2>2, <2>3 DEF MemoryInv
  <1>6. CASE asPhase' = "dead"
    BY <1>6 DEF MemoryInv
  <1>7. CASE StartAgain
    BY <1>7 DEF StartAgain, Forgets, MemoryInv
  <1>8. CASE UNCHANGED assemblerVars
    <2>1. \A k \in EpisodeKeys : RecordsOf(k)' = RecordsOf(k) /\ LastSources(k)' = LastSources(k)
      BY <1>8, SameOut DEF assemblerVars
    <2> QED
      BY <1>1, <1>8, <2>1 DEF MemoryInv, AtWork, assemblerVars, memoryVars
  <1>9. KillAssembler => asPhase' = "dead"
    BY DEF KillAssembler
  <1> QED
    BY <1>2, <1>3, <1>4, <1>5, <1>6, <1>7, <1>8, <1>9 DEF AssemblerNext

-----------------------------------------------------------------------------
(* What is remembered of the march orders.                                  *)

\* One transition more.
LEMMA OneNoted ==
  ASSUME AsTypes, NEW p \in Nat, NEW n \in DOMAIN asPosture, n = p + 1, NEW a, NEW m \in Nat
  PROVE  /\ OrderStands(m, a, p) /\ ~(Of(a, n) /\ asPosture[n].to \in {"march_ordered", "emplaced"}) => OrderStands(m, a, n)
         /\ OrderStands(m, a, n) /\ m # n => OrderStands(m, a, p) /\ ~(Of(a, n) /\ asPosture[n].to \in {"march_ordered", "emplaced"})
         /\ OrderStands(m, a, n) /\ m = n => Of(a, n) /\ asPosture[n].to = "march_ordered" /\ ~MovedSince(m, a, n)
         /\ Of(a, n) /\ asPosture[n].to = "march_ordered" => OrderStands(n, a, n)
         /\ MovedSince(m, a, p) => MovedSince(m, a, n)
         /\ MovedSince(m, a, n) => MovedSince(m, a, p) \/ (Of(a, n) /\ asPosture[n].to = "moving")
         /\ m <= p /\ Of(a, n) /\ asPosture[n].to = "moving" => MovedSince(m, a, n)
         /\ OrderStands(m, a, p) => m <= p
  <1>1. \A i \in (m + 1)..p : i \in (m + 1)..n
    OBVIOUS
  <1>2. \A i \in (m + 1)..n : i \in (m + 1)..p \/ i = n
    OBVIOUS
  <1>3. m \in 1..n => m \in 1..p \/ m = n
    OBVIOUS
  <1>4. m \in 1..p => m \in 1..n /\ n \in (m + 1)..n /\ m <= p
    OBVIOUS
  <1>5. n \in 1..n /\ (m = n => (m + 1)..n = {}) /\ (n + 1)..n = {}
    OBVIOUS
  <1>6. m <= p => n \in (m + 1)..n
    OBVIOUS
  <1> QED
    BY <1>1, <1>2, <1>3, <1>4, <1>5, <1>6, Zenon DEF OrderStands, MovedSince

\* What is noted does not depend on the step when neither the topic nor the
\* number of transitions does.
LEMMA SameNoted ==
  ASSUME asPosture' = asPosture, Noted' = Noted, asMarch' = asMarch, asMoved' = asMoved,
         asPhase' # "dead" => asPhase # "dead", asStarts' = asStarts, MarchInv, FirstMarch
  PROVE  MarchInv' /\ FirstMarch'
  <1>1. \A m, a : /\ OrderStands(m, a, Noted)' <=> OrderStands(m, a, Noted)
                  /\ MovedSince(m, a, Noted)' <=> MovedSince(m, a, Noted)
    <2>1. \A i, a : Of(a, i)' <=> Of(a, i)
      BY DEF Of
    <2> QED
      BY <2>1 DEF OrderStands, MovedSince
  <1>2. MarchInv'
    BY <1>1 DEF MarchInv
  <1>3. FirstMarch'
    BY <1>1 DEF FirstMarch
  <1> QED
    BY <1>2, <1>3

LEMMA PollPostureMarch ==
  ASSUME AsTypes, WorkOK, MarchInv, FirstMarch, PollPosture
  PROVE  MarchInv' /\ FirstMarch'
  <1>1. PICK p \in Nat : p = asRead.posture
    BY DEF AsTypes
  <1>2. PICK n \in Nat : n = p + 1
    OBVIOUS
  <1>3. PICK asset : asset = asPosture[n].asset
    OBVIOUS
  <1>4. /\ asPhase = "loop" /\ n \in DOMAIN asPosture /\ asset \in CmAssets /\ asPosture[n].at \in Nat \ {0}
        /\ asPosture' = asPosture /\ asRead' = asRead /\ asStarts' = asStarts
        /\ asPhase' = "handling" /\ asMessage' = [topic |-> "posture", n |-> n]
    BY <1>1, <1>2, <1>3, TransitionIs DEF PollPosture, Handles
  <1>5. Noted = p /\ Noted' = IF Arrives(n)' THEN p ELSE n
    BY <1>1, <1>2, <1>4 DEF Noted, AtWork
  <1>6. asMarch' = [asMarch EXCEPT ![asset] =
             IF asPosture[n].to = "march_ordered" THEN asPosture[n].at
             ELSE IF asPosture[n].to = "emplaced" /\ asMarch[asset] # 0 /\ asset \notin asMoved THEN 0 ELSE @]
    BY <1>1, <1>2, <1>3 DEF PollPosture
  <1>7. asMoved' = IF asPosture[n].to = "march_ordered" THEN asMoved \ {asset}
                   ELSE IF asPosture[n].to = "moving" /\ asMarch[asset] # 0 THEN asMoved \cup {asset} ELSE asMoved
    BY <1>1, <1>2, <1>3 DEF PollPosture, MovedAfterOrder
  <1>8. \A m, a, q : (OrderStands(m, a, q)' <=> OrderStands(m, a, q)) /\ (MovedSince(m, a, q)' <=> MovedSince(m, a, q))
    <2>1. \A i, a : Of(a, i)' <=> Of(a, i)
      BY <1>4 DEF Of
    <2> QED
      BY <2>1, <1>4 DEF OrderStands, MovedSince
  <1>9. \A a : Of(a, n) <=> a = asset
    BY <1>3 DEF Of
  <1>10. Arrives(n)' <=> asPosture[n].to = "emplaced" /\ asset \in asMoved
    BY <1>3, <1>4, <1>7 DEF Arrives
  <1>11. asMarch \in [CmAssets -> Nat] /\ asMoved \subseteq {a \in CmAssets : asMarch[a] # 0}
    BY DEF AsTypes
  <1>12. \A m \in DOMAIN asPosture : m \in Nat
    BY TransitionIs
  <1>13. ASSUME NEW a \in CmAssets, asMarch'[a] # 0
         PROVE  \E m \in DOMAIN asPosture :
                   OrderStands(m, a, Noted') /\ asPosture[m].at = asMarch'[a] /\ (a \in asMoved' => MovedSince(m, a, Noted'))
    <2>1. CASE a = asset /\ asPosture[n].to = "march_ordered"
      <3>1. asMarch'[a] = asPosture[n].at /\ a \notin asMoved' /\ Noted' = n
        BY <1>4, <1>5, <1>6, <1>7, <1>10, <1>11, <2>1
      <3>2. OrderStands(n, a, n)
        BY <1>2, <1>4, <1>9, <2>1, OneNoted
      <3> QED
        BY <1>4, <3>1, <3>2
    <2>2. CASE ~(a = asset /\ asPosture[n].to = "march_ordered")
      <3>1. asMarch'[a] = asMarch[a] /\ asMarch[a] # 0
        BY <1>4, <1>6, <1>11, <1>13, <2>2
      <3>2. PICK m \in DOMAIN asPosture : OrderStands(m, a, p) /\ asPosture[m].at = asMarch[a] /\ (a \in asMoved => MovedSince(m, a, p))
        BY <1>4, <1>5, <3>1 DEF MarchInv
      <3>3. CASE Arrives(n)'
        <4>1. asMoved' = asMoved
          BY <1>7, <1>10, <3>3
        <4> QED
          BY <1>5, <3>1, <3>2, <3>3, <4>1
      <3>4. CASE ~Arrives(n)'
        <4>1. ~(Of(a, n) /\ asPosture[n].to \in {"march_ordered", "emplaced"})
          BY <1>6, <1>9, <1>10, <1>11, <1>13, <2>2, <3>1, <3>4
        <4>2. OrderStands(m, a, n) /\ (MovedSince(m, a, p) => MovedSince(m, a, n)) /\ m <= p
          BY <1>2, <1>4, <1>12, <3>2, <4>1, OneNoted
        <4>3. a \in asMoved' => a \in asMoved \/ (Of(a, n) /\ asPosture[n].to = "moving")
          BY <1>7, <1>9
        <4>4. Of(a, n) /\ asPosture[n].to = "moving" => MovedSince(m, a, n)
          BY <1>2, <1>4, <1>12, <4>2, OneNoted
        <4> QED
          BY <1>5, <3>1, <3>2, <3>4, <4>2, <4>3, <4>4
      <3> QED
        BY <3>3, <3>4
    <2> QED
      BY <2>1, <2>2
  <1>14. ASSUME asStarts = 1, NEW a \in CmAssets, NEW m \in DOMAIN asPosture, OrderStands(m, a, Noted')
         PROVE  asMarch'[a] = asPosture[m].at /\ (MovedSince(m, a, Noted') => a \in asMoved')
    <2>1. OrderStands(m, a, p) => asMarch[a] = asPosture[m].at /\ (MovedSince(m, a, p) => a \in asMoved)
      BY <1>4, <1>5, <1>14 DEF FirstMarch
    <2>2. CASE Arrives(n)'
      BY <1>5, <1>6, <1>7, <1>10, <1>11, <1>14, <2>1, <2>2
    <2>3. CASE ~Arrives(n)' /\ m = n
      <3>1. a = asset /\ asPosture[n].to = "march_ordered" /\ ~MovedSince(m, a, n)
        <4>1. OrderStands(m, a, n) /\ m = n /\ m \in Nat
          BY <1>5, <1>12, <1>14, <2>3
        <4>2. Of(a, n) /\ asPosture[n].to = "march_ordered" /\ ~MovedSince(m, a, n)
          BY <1>2, <1>4, <4>1, OneNoted
        <4> QED
          BY <1>9, <4>2
      <3> QED
        BY <1>4, <1>5, <1>6, <1>11, <2>3, <3>1
    <2>4. CASE ~Arrives(n)' /\ m # n
      <3>1. OrderStands(m, a, p) /\ ~(Of(a, n) /\ asPosture[n].to \in {"march_ordered", "emplaced"})
        BY <1>2, <1>4, <1>5, <1>12, <1>14, <2>4, OneNoted
      <3>2. MovedSince(m, a, n) => MovedSince(m, a, p) \/ (Of(a, n) /\ asPosture[n].to = "moving")
        BY <1>2, <1>4, <1>12, OneNoted
      <3>3. asPosture[m].at # 0
        BY TransitionIs
      <3>4. asMarch'[a] = asMarch[a]
        BY <1>6, <1>9, <1>11, <3>1
      <3>5. MovedSince(m, a, n) => a \in asMoved'
        BY <1>7, <1>9, <2>1, <3>1, <3>2, <3>3
      <3> QED
        BY <1>5, <2>1, <2>4, <3>1, <3>4, <3>5
    <2> QED
      BY <2>2, <2>3, <2>4
  <1>15. MarchInv'
    BY <1>4, <1>8, <1>13 DEF MarchInv
  <1>16. FirstMarch'
    BY <1>4, <1>8, <1>14 DEF FirstMarch
  <1> QED
    BY <1>15, <1>16

LEMMA CommitMarch ==
  ASSUME AsTypes, WorkOK, MarchInv, FirstMarch, CommitMessage
  PROVE  MarchInv' /\ FirstMarch'
  <1>1. PICK p \in Nat : p = asRead.posture
    BY DEF AsTypes
  <1>2. PICK n \in Nat : n = p + 1
    OBVIOUS
  <1>3. /\ asPhase = "handling" /\ asPosture' = asPosture /\ asStarts' = asStarts
        /\ asMarch' = [a \in CmAssets |-> IF IsOver(a) THEN 0 ELSE asMarch[a]]
        /\ asMoved' = {a \in asMoved : ~IsOver(a)}
        /\ asPhase' = "dead" \/ (asPhase' = "loop" /\ asRead' = [asRead EXCEPT ![asMessage.topic] = asMessage.n])
    BY DEF CommitMessage
  <1>4. CASE asPhase' = "dead"
    BY <1>4 DEF MarchInv, FirstMarch
  <1>5. CASE asPhase' = "loop" /\ asMessage.topic = "cm"
    <2>1. asMarch' = asMarch /\ asMoved' = asMoved
      BY <1>3, <1>5 DEF IsOver, AsTypes
    <2>2. Noted' = Noted
      BY <1>3, <1>5 DEF Noted, AtWork, AsTypes
    <2> QED
      BY <1>3, <2>1, <2>2, SameNoted
  <1>6. CASE asPhase' = "loop" /\ asMessage.topic = "posture"
    <2>1. asMessage.n = n /\ n \in DOMAIN asPosture
      BY <1>1, <1>2, <1>3, <1>6 DEF WorkOK
    <2>2. Noted' = n /\ Noted = IF Arrives(n) THEN p ELSE n
      BY <1>1, <1>2, <1>3, <1>6, <2>1 DEF Noted, AtWork, AsTypes
    <2>3. \A m, a, q : (OrderStands(m, a, q)' <=> OrderStands(m, a, q)) /\ (MovedSince(m, a, q)' <=> MovedSince(m, a, q))
      <3>1. \A i, a : Of(a, i)' <=> Of(a, i)
        BY <1>3 DEF Of
      <3> QED
        BY <3>1, <1>3 DEF OrderStands, MovedSince
    <2>4. asMarch \in [CmAssets -> Nat] /\ asMoved \subseteq {a \in CmAssets : asMarch[a] # 0}
      BY DEF AsTypes
    <2>5. \A a : IsOver(a) <=> Of(a, n) /\ asPosture[n].to = "emplaced" /\ asMarch[a] # 0
      BY <1>6, <2>1 DEF IsOver, Of
    <2>6. \A m \in DOMAIN asPosture : m \in Nat
      BY TransitionIs
    <2>7. Arrives(n) => asPosture[n].to = "emplaced" /\ \A a : Of(a, n) => a \in asMoved
      BY DEF Arrives, Of
    <2>8. ASSUME NEW a \in CmAssets, asMarch'[a] # 0
          PROVE  \E m \in DOMAIN asPosture :
                    OrderStands(m, a, n) /\ asPosture[m].at = asMarch'[a] /\ (a \in asMoved' => MovedSince(m, a, n))
      <3>1. asMarch'[a] = asMarch[a] /\ asMarch[a] # 0 /\ ~IsOver(a)
        BY <1>3, <2>8
      <3>2. PICK m \in DOMAIN asPosture : OrderStands(m, a, Noted) /\ asPosture[m].at = asMarch[a] /\ (a \in asMoved => MovedSince(m, a, Noted))
        BY <1>3, <3>1 DEF MarchInv
      <3>3. CASE Arrives(n)
        <4>1. ~Of(a, n)
          BY <2>5, <2>7, <3>1, <3>3
        <4>2. OrderStands(m, a, n) /\ (MovedSince(m, a, p) => MovedSince(m, a, n))
          BY <1>2, <2>1, <2>2, <2>6, <3>2, <3>3, <4>1, OneNoted
        <4> QED
          BY <1>3, <2>2, <3>1, <3>2, <3>3, <4>2
      <3>4. CASE ~Arrives(n)
        BY <1>3, <2>2, <3>1, <3>2, <3>4
      <3> QED
        BY <3>3, <3>4
    <2>9. ASSUME asStarts = 1, NEW a \in CmAssets, NEW m \in DOMAIN asPosture, OrderStands(m, a, n)
          PROVE  asMarch'[a] = asPosture[m].at /\ (MovedSince(m, a, n) => a \in asMoved')
      <3>1. ~(Of(a, n) /\ asPosture[n].to = "emplaced")
        <4>1. CASE m = n
          BY <1>2, <2>1, <2>9, <2>6, <4>1, OneNoted
        <4>2. CASE m # n
          BY <1>2, <2>1, <2>9, <2>6, <4>2, OneNoted
        <4> QED
          BY <4>1, <4>2
      <3>2. asMarch'[a] = asMarch[a] /\ (a \in asMoved => a \in asMoved')
        BY <1>3, <2>5, <3>1
      <3>3. CASE Arrives(n)
        <4>1. ~Of(a, n) /\ asPosture[n].to = "emplaced"
          BY <2>7, <3>1, <3>3
        <4>2. m # n
          BY <1>2, <2>1, <2>9, <2>6, <4>1, OneNoted
        <4>3. OrderStands(m, a, p) /\ (MovedSince(m, a, n) => MovedSince(m, a, p))
          BY <1>2, <2>1, <2>9, <2>6, <4>1, <4>2, OneNoted
        <4> QED
          BY <1>3, <2>2, <2>9, <3>2, <3>3, <4>3 DEF FirstMarch
      <3>4. CASE ~Arrives(n)
        BY <1>3, <2>2, <2>9, <3>2, <3>4 DEF FirstMarch
      <3> QED
        BY <3>3, <3>4
    <2>10. MarchInv'
      BY <1>3, <2>2, <2>3, <2>8 DEF MarchInv
    <2>11. FirstMarch'
      BY <1>3, <2>2, <2>3, <2>9 DEF FirstMarch
    <2> QED
      BY <2>10, <2>11
  <1> QED
    BY <1>3, <1>4, <1>5, <1>6 DEF WorkOK

LEMMA MarchStep ==
  ASSUME AsTypes, WorkOK, MarchInv, FirstMarch, [AssemblerNext]_assemblerVars
  PROVE  MarchInv' /\ FirstMarch'
  <1>1. CASE PollCm \/ Tell \/ KillAssembler \/ UNCHANGED assemblerVars
    <2>1. /\ asPosture' = asPosture /\ asMarch' = asMarch /\ asMoved' = asMoved /\ asStarts' = asStarts /\ asRead' = asRead
          /\ asPhase' # "dead" => asPhase # "dead"
      BY <1>1 DEF PollCm, Handles, Tell, KillAssembler, assemblerVars, memoryVars
    <2>2. asPhase' # "dead" => Noted' = Noted
      <3>1. CASE PollCm
        BY <3>1, <2>1 DEF PollCm, Handles, Noted, AtWork
      <3>2. CASE Tell
        <4>1. asPhase = "handling" /\ asMessage' = asMessage /\ (asPhase' = asPhase \/ asPhase' = "dead")
          BY <3>2 DEF Tell
        <4> QED
          BY <4>1, <2>1 DEF Noted, AtWork, Arrives
      <3>3. CASE KillAssembler
        BY <3>3 DEF KillAssembler
      <3>4. CASE UNCHANGED assemblerVars
        BY <3>4, <2>1 DEF assemblerVars, Noted, AtWork, Arrives
      <3> QED
        BY <1>1, <3>1, <3>2, <3>3, <3>4
    <2>3. CASE asPhase' = "dead"
      BY <2>3 DEF MarchInv, FirstMarch
    <2> QED
      BY <2>1, <2>2, <2>3, SameNoted
  <1>2. CASE StartAgain
    <2>1. asStarts' # 1
      BY <1>2, AssemblerAssumption DEF StartAgain, AsTypes
    <2>2. \A a \in CmAssets : asMarch'[a] = 0
      BY <1>2 DEF StartAgain, Forgets
    <2> QED
      BY <2>1, <2>2 DEF MarchInv, FirstMarch
  <1> QED
    BY <1>1, <1>2, PollPostureMarch, CommitMarch DEF AssemblerNext

-----------------------------------------------------------------------------
(* The arrivals.                                                            *)

\* A march that the next transition ends is an order that stands.
LEMMA EndsAMarch ==
  ASSUME AsTypes, NEW p \in Nat, NEW n \in DOMAIN asPosture, n = p + 1, NEW m \in DOMAIN asPosture
  PROVE  MarchEnds(m, n) <=> /\ OrderStands(m, asPosture[n].asset, p) /\ MovedSince(m, asPosture[n].asset, p)
                             /\ asPosture[n].to = "emplaced"
  <1>1. n - 1 = p /\ m \in Nat /\ (m < n <=> m \in 1..p)
    BY TransitionIs
  <1> QED
    BY <1>1, Zenon DEF MarchEnds, OrderStands, MovedSince, Of

LEMMA SameMarches ==
  ASSUME asPosture' = asPosture
  PROVE  \A m, n : MarchEnds(m, n)' <=> MarchEnds(m, n)
  BY DEF MarchEnds

\* What is told stays told.
LEMMA ToldStays ==
  ASSUME AsTypes, WorkOK, [AssemblerNext]_assemblerVars, NEW k, NEW n, IsTold(k, n)
  PROVE  IsTold(k, n)'
  <1>1. CASE Tell
    <2> DEFINE r == Told(Head(asTodo))
    <2>1. /\ r \in [key : EpisodeKeys, sources : SourceSets, arrival : 0..Len(asPosture)]
          /\ asOut' = asOut \/ asOut' = Append(asOut, r)
      BY <1>1, TellCases
    <2> HIDE DEF r
    <2>2. CASE asOut' = asOut
      BY <2>2 DEF IsTold
    <2>3. CASE asOut' = Append(asOut, r)
      <3>1. \A i \in DOMAIN asOut : i \in DOMAIN asOut' /\ asOut'[i] = asOut[i]
        BY <2>1, <2>3, OneMore
      <3> QED
        BY <3>1 DEF IsTold
    <2> QED
      BY <2>1, <2>2, <2>3
  <1>2. CASE ~Tell
    <2>1. asOut' = asOut
      BY <1>2 DEF AssemblerNext, PollCm, PollPosture, Handles, CommitMessage, KillAssembler, StartAgain, assemblerVars
    <2> QED
      BY <2>1 DEF IsTold
  <1> QED
    BY <1>1, <1>2

\* What is known at work on an emplacement.
LEMMA AtAnEnd ==
  ASSUME AsTypes, WorkOK, AtWork("posture"), asTodo # << >>
  PROVE  /\ asMessage.n \in DOMAIN asPosture /\ asMessage.n = asRead.posture + 1 /\ asRead.posture \in Nat
         /\ Arrives(asMessage.n) /\ asPosture[asMessage.n].to = "emplaced" /\ Noted = asRead.posture
         /\ asPosture[asMessage.n].asset \in CmAssets /\ asPosture[asMessage.n].asset \in asMoved
         /\ asMarch[asPosture[asMessage.n].asset] # 0
         /\ Arrival = asMessage.n /\ asMessage.n # 0
  <1>1. asMessage.n \in DOMAIN asPosture /\ asMessage.n = asRead.posture + 1 /\ Arrives(asMessage.n)
    BY DEF WorkOK, AtWork
  <1>2. asPosture[asMessage.n].asset \in CmAssets /\ asMessage.n # 0 /\ asRead.posture \in Nat
    <2>1. asRead.posture \in Nat
      BY TopicsAre DEF AsTypes
    <2> QED
      BY <1>1, <2>1, TransitionIs
  <1> QED
    BY <1>1, <1>2 DEF Arrives, Noted, AtWork, AsTypes, Arrival

LEMMA ArrivalTells ==
  ASSUME AsTypes, WorkOK, MarchInv, ArrivalInv, Tell, Arrival # 0
  PROVE  ArrivalInv'
  <1> DEFINE e == Head(asTodo)
             n == asMessage.n
  <1>1. /\ asPhase = "handling" /\ asTodo # << >> /\ asPosture' = asPosture /\ asRead' = asRead /\ asMessage' = asMessage
        /\ asMarch' = asMarch /\ (asPhase' = asPhase \/ asPhase' = "dead")
        /\ Told(e) \in [key : EpisodeKeys, sources : SourceSets, arrival : 0..Len(asPosture)]
        /\ e \in ToSet(asTodo)
    BY TellCases
  <1>2. AtWork("posture")
    BY <1>1 DEF WorkOK, AtWork, Arrival
  <1>3. /\ n \in DOMAIN asPosture /\ n = asRead.posture + 1 /\ asRead.posture \in Nat
        /\ asPosture[n].to = "emplaced" /\ Noted = asRead.posture
        /\ asPosture[n].asset \in CmAssets /\ asPosture[n].asset \in asMoved
        /\ asMarch[asPosture[n].asset] # 0 /\ Arrival = n /\ n # 0
    BY <1>1, <1>2, AtAnEnd
  <1>4. asPhase' = "dead" \/ (AtWork("posture")' /\ asTodo' = Tail(asTodo))
    BY <1>1, <1>2, TellCases DEF AtWork
  <1>5. ToSet(Tail(asTodo)) \subseteq ToSet(asTodo) /\ \A f \in ToSet(Tail(asTodo)) : f.key # e.key
    <2>1. asTodo \in Seq(Episodes) /\ asTodo # << >> /\ \A i, j \in DOMAIN asTodo : asTodo[i].key = asTodo[j].key => i = j
      BY <1>1 DEF AsTypes, WorkOK
    <2> QED
      BY <2>1, HeadAndTail
  <1>6. \A m, q : MarchEnds(m, q)' <=> MarchEnds(m, q)
    BY <1>1, SameMarches
  <1>7. \A i \in DOMAIN asOut : asOut[i].arrival = n => \A f \in ToSet(asTodo) : f.key # asOut[i].key
    BY <1>1, <1>2, <1>3 DEF ArrivalInv
  <1>8. CASE asOut' = asOut
    <2>1. \A r \in asArrived' : r \in asArrived
      <3>1. CASE PassedOver(e)
        BY <3>1 DEF Tell
      <3>2. CASE ~PassedOver(e)
        <4>1. asOut' # Append(asOut, Told(e))
          <5>1. asOut' = Append(asOut, Told(e)) => DOMAIN asOut' # DOMAIN asOut
            BY <1>1, OneMore
          <5> QED
            BY <1>8, <5>1
        <4> QED
          BY <3>2, <4>1 DEF Tell
      <3> QED
        BY <3>1, <3>2
    <2> HIDE DEF e, n
    <2>2. \A i \in DOMAIN asOut : asOut[i].arrival = n => asPhase' = "dead" \/ \A f \in ToSet(asTodo') : f.key # asOut[i].key
      BY <1>4, <1>5, <1>7
    <2>3. ToSet(asTodo)' = ToSet(asTodo')
      OBVIOUS
    <2> QED
      BY <1>1, <1>3, <1>4, <1>6, <1>8, <2>1, <2>2, <2>3 DEF ArrivalInv
  <1>9. CASE asOut' = Append(asOut, Told(e))
    <2>1. PICK l \in Nat : l = Len(asOut) + 1
      BY <1>1, <1>9, OneMore
    <2>2. /\ DOMAIN asOut' = DOMAIN asOut \cup {l} /\ l \notin DOMAIN asOut
          /\ \A i \in DOMAIN asOut : asOut'[i] = asOut[i]
          /\ asOut'[l].key = e.key /\ asOut'[l].arrival = n
      <3>1. /\ Len(asOut) \in Nat /\ DOMAIN asOut = 1..Len(asOut) /\ DOMAIN asOut' = 1..(Len(asOut) + 1)
            /\ \A i \in DOMAIN asOut : asOut'[i] = asOut[i]
            /\ asOut'[Len(asOut) + 1] = Told(e)
        BY <1>1, <1>9, OneMore
      <3> QED
        BY <2>1, <3>1, <1>3 DEF Told
    <2>3. asPhase' = "dead" \/ ~PassedOver(e)
      <3>1. CASE PassedOver(e)
        <4>1. asOut' = asOut
          BY <3>1 DEF Tell
        <4> QED
          BY <4>1, <2>2
      <3> QED
        BY <3>1
    <2>4. ~PassedOver(e)
      BY <2>2 DEF Tell
    <2>5. DetectedAt[e.key] < asMarch[asPosture[n].asset]
      <3>1. e.key \in EpisodeKeys
        BY <1>1, TellCases DEF Episodes
      <3>2. DetectedAt[e.key] \in Nat /\ asMarch[asPosture[n].asset] \in Nat
        BY <3>1, <1>3, AssemblerAssumption DEF AsTypes
      <3>3. ~(DetectedAt[e.key] >= asMarch[asPosture[n].asset])
        BY <2>4, <1>3 DEF PassedOver
      <3> QED
        BY <3>2, <3>3
    <2>6. PICK m \in DOMAIN asPosture :
             /\ OrderStands(m, asPosture[n].asset, asRead.posture) /\ asPosture[m].at = asMarch[asPosture[n].asset]
             /\ MovedSince(m, asPosture[n].asset, asRead.posture)
      BY <1>1, <1>3 DEF MarchInv
    <2>7. MarchEnds(m, n) /\ DetectedAt[e.key] < asPosture[m].at
      <3>1. MarchEnds(m, n)
        BY <1>3, <2>6, EndsAMarch
      <3> QED
        BY <3>1, <2>5, <2>6
    <2>8. \A r \in asArrived' : r \in asArrived \/ (r.key = e.key /\ r.n = n)
      BY <1>3 DEF Tell, Notes
    <2>9. n <= asRead.posture + 1
      BY <1>3
    <2>10. e \in ToSet(asTodo)
      BY <1>1
    <2> HIDE DEF e, n
    <2>11. ToSet(asTodo)' = ToSet(asTodo')
      OBVIOUS
    <2>12. \A i \in DOMAIN asOut' : asOut'[i].arrival # 0 =>
             /\ asOut'[i].arrival <= asRead.posture + 1
             /\ \E q \in DOMAIN asPosture :
                  MarchEnds(q, asOut'[i].arrival) /\ DetectedAt[asOut'[i].key] < asPosture[q].at
      BY <2>2, <2>7, <2>9 DEF ArrivalInv
    <2>13. \A i \in DOMAIN asOut', j \in DOMAIN asOut' :
             asOut'[i].arrival # 0 /\ asOut'[j].arrival = asOut'[i].arrival /\ asOut'[j].key = asOut'[i].key => j = i
      BY <1>3, <1>7, <2>2, <2>10 DEF ArrivalInv
    <2>14. \A i \in DOMAIN asOut' : asOut'[i].arrival = asRead.posture + 1 =>
             asPhase' = "dead" \/ (AtWork("posture")' /\ \A f \in ToSet(asTodo') : f.key # asOut'[i].key)
      BY <1>3, <1>4, <1>5, <1>7, <2>2
    <2>15. \A r \in asArrived' : \E i \in DOMAIN asOut' : asOut'[i].key = r.key /\ asOut'[i].arrival = r.n
      BY <2>2, <2>8 DEF ArrivalInv
    <2> QED
      BY <1>1, <1>6, <2>11, <2>12, <2>13, <2>14, <2>15 DEF ArrivalInv
  <1> QED
    BY <1>8, <1>9, TellCases

LEMMA ArrivalStep ==
  ASSUME AsTypes, WorkOK, MarchInv, ArrivalInv, [AssemblerNext]_assemblerVars
  PROVE  ArrivalInv'
  <1>1. asPosture' = asPosture /\ \A m, q : MarchEnds(m, q)' <=> MarchEnds(m, q)
    BY TopicsStay, SameMarches
  <1>2. CASE Tell /\ Arrival = 0
    <2> DEFINE r == Told(Head(asTodo))
    <2>1. /\ asPhase = "handling" /\ asRead' = asRead /\ asMessage' = asMessage /\ asMarch' = asMarch
          /\ asPhase' = asPhase \/ asPhase' = "dead"
          /\ r \in [key : EpisodeKeys, sources : SourceSets, arrival : 0..Len(asPosture)]
          /\ asOut' = asOut \/ asOut' = Append(asOut, r)
      BY <1>2, TellCases
    <2>2. asArrived' = asArrived /\ r.arrival = 0
      BY <1>2 DEF Tell, Notes, Told
    <2>3. ~AtWork("posture")
      <3>1. asMessage.topic = "posture" => asMessage.n \in DOMAIN asPosture
        BY <2>1 DEF WorkOK
      <3> QED
        BY <1>2, <3>1, TransitionIs, TopicsAre DEF AtWork, Arrival
    <2>4. AtWork("posture")' <=> (asPhase' # "dead" /\ AtWork("posture"))
      BY <2>1 DEF AtWork
    <2> HIDE DEF r
    <2>5. CASE asOut' = asOut
      BY <1>1, <2>1, <2>2, <2>3, <2>4, <2>5 DEF ArrivalInv
    <2>6. CASE asOut' = Append(asOut, r)
      <3>1. PICK l \in Nat : l = Len(asOut) + 1
        BY <2>1, <2>6, OneMore
      <3>2. /\ DOMAIN asOut' = DOMAIN asOut \cup {l} /\ l \notin DOMAIN asOut
            /\ \A i \in DOMAIN asOut : asOut'[i] = asOut[i]
            /\ asOut'[l].arrival = 0
        <4>1. /\ Len(asOut) \in Nat /\ DOMAIN asOut = 1..Len(asOut) /\ DOMAIN asOut' = 1..(Len(asOut) + 1)
              /\ \A i \in DOMAIN asOut : asOut'[i] = asOut[i]
              /\ asOut'[Len(asOut) + 1] = r
          BY <2>1, <2>6, OneMore
        <4> QED
          BY <3>1, <4>1, <2>2
      <3>3. asRead.posture + 1 # 0
        BY TopicsAre DEF AsTypes
      <3>4. \A i \in DOMAIN asOut' : asOut'[i].arrival # 0 =>
               /\ asOut'[i].arrival <= asRead.posture + 1
               /\ \E m \in DOMAIN asPosture :
                     MarchEnds(m, asOut'[i].arrival) /\ DetectedAt[asOut'[i].key] < asPosture[m].at
               /\ \A j \in DOMAIN asOut' :
                     asOut'[j].arrival = asOut'[i].arrival /\ asOut'[j].key = asOut'[i].key => j = i
        BY <3>2 DEF ArrivalInv
      <3>5. \A i \in DOMAIN asOut' : asOut'[i].arrival = asRead.posture + 1 =>
               asMarch[asPosture[asOut'[i].arrival].asset] = 0
        BY <2>1, <2>3, <3>2, <3>3 DEF ArrivalInv
      <3>6. \A x \in asArrived : \E i \in DOMAIN asOut' : asOut'[i].key = x.key /\ asOut'[i].arrival = x.n
        BY <3>2 DEF ArrivalInv
      <3> QED
        BY <1>1, <2>1, <2>2, <2>3, <2>4, <3>4, <3>5, <3>6 DEF ArrivalInv
    <2> QED
      BY <2>1, <2>5, <2>6
  <1>3. CASE PollCm
    BY <1>1, <1>3 DEF PollCm, Handles, ArrivalInv, AtWork
  <1>4. CASE PollPosture
    <2>1. PICK n \in Nat : n = asRead.posture + 1
      BY DEF AsTypes
    <2>2. /\ asPhase = "loop" /\ asPhase' = "handling" /\ asMessage' = [topic |-> "posture", n |-> n]
          /\ asRead' = asRead /\ asOut' = asOut /\ asArrived' = asArrived
          /\ asTodo' = IF asPosture[n].to = "emplaced" /\ asMarch[asPosture[n].asset] # 0 /\ asPosture[n].asset \in asMoved
                       THEN OpenOf(asPosture[n].asset) ELSE << >>
      BY <1>4, <2>1 DEF PollPosture, Handles
    <2>3. AtWork("posture")' /\ ~AtWork("posture")
      BY <2>2 DEF AtWork
    <2>4. \A i \in DOMAIN asOut : asOut[i].arrival = n => \A f \in ToSet(asTodo)' : f.key # asOut[i].key
      <3> SUFFICES ASSUME NEW i \in DOMAIN asOut, asOut[i].arrival = n PROVE ToSet(asTodo)' = {}
        OBVIOUS
      <3>1. asMarch[asPosture[n].asset] = 0
        BY <2>1, <2>2, <2>3 DEF ArrivalInv
      <3>2. asTodo' = << >>
        BY <2>2, <3>1
      <3> QED
        BY <3>2 DEF ToSet
    <2> QED
      BY <1>1, <2>1, <2>2, <2>3, <2>4 DEF ArrivalInv
  <1>5. CASE CommitMessage
    <2>1. /\ asPhase = "handling" /\ asOut' = asOut /\ asArrived' = asArrived
          /\ \/ asPhase' = "dead" /\ asRead' = asRead
             \/ asPhase' = "loop" /\ asRead' = [asRead EXCEPT ![asMessage.topic] = asMessage.n]
      BY <1>5 DEF CommitMessage
    <2>2. CASE asPhase' = "dead"
      BY <1>1, <2>1, <2>2 DEF ArrivalInv
    <2>3. CASE asPhase' = "loop" /\ asMessage.topic = "cm"
      <3>1. asRead'.posture = asRead.posture
        BY <2>1, <2>3 DEF AsTypes
      <3>2. asMarch' = asMarch
        BY <1>5, <2>3 DEF CommitMessage, IsOver, AsTypes
      <3>3. ~AtWork("posture") /\ ~AtWork("posture")'
        BY <2>1, <2>3 DEF AtWork
      <3> QED
        BY <1>1, <2>1, <2>3, <3>1, <3>2, <3>3 DEF ArrivalInv
    <2>4. CASE asPhase' = "loop" /\ asMessage.topic = "posture"
      <3>1. PICK p \in Nat : p = asRead.posture
        BY DEF AsTypes
      <3>2. asRead'.posture = p + 1
        BY <2>1, <2>4, <3>1 DEF AsTypes, WorkOK
      <3>3. \A i \in DOMAIN asOut : asOut[i].arrival # 0 => asOut[i].arrival <= p + 1
        BY <3>1 DEF ArrivalInv
      <3>4. \A i \in DOMAIN asOut : asOut[i].arrival \in Nat
        BY RecordIs
      <3>5. \A i \in DOMAIN asOut : asOut[i].arrival # p + 2 /\ (asOut[i].arrival # 0 => asOut[i].arrival <= p + 2)
        BY <3>3, <3>4
      <3>6. asRead'.posture + 1 = p + 2
        BY <3>2
      <3> QED
        BY <1>1, <2>1, <3>5, <3>6 DEF ArrivalInv
    <2> QED
      BY <2>1, <2>2, <2>3, <2>4 DEF WorkOK
  <1>6. CASE KillAssembler
    BY <1>1, <1>6 DEF KillAssembler, memoryVars, ArrivalInv
  <1>7. CASE StartAgain
    <2>1. /\ asPhase' = "loop" /\ asOut' = asOut /\ asRead' = asRead /\ asArrived' = {}
          /\ \A a \in CmAssets : asMarch'[a] = 0
      BY <1>7 DEF StartAgain, Forgets
    <2>2. \A i \in DOMAIN asOut : asOut[i].arrival # 0 => asPosture[asOut[i].arrival].asset \in CmAssets
      <3> SUFFICES ASSUME NEW i \in DOMAIN asOut, asOut[i].arrival # 0 PROVE asPosture[asOut[i].arrival].asset \in CmAssets
        OBVIOUS
      <3>1. asOut[i].arrival \in 0..Len(asPosture)
        BY RecordIs
      <3>2. asOut[i].arrival \in DOMAIN asPosture
        BY <3>1, TopicsAre
      <3> QED
        BY <3>2, TransitionIs
    <2>3. asRead.posture + 1 # 0 /\ ~AtWork("posture")'
      BY <2>1, TopicsAre DEF AsTypes, AtWork
    <2> QED
      BY <1>1, <2>1, <2>2, <2>3 DEF ArrivalInv
  <1>8. CASE UNCHANGED assemblerVars
    BY <1>8 DEF assemblerVars, memoryVars, ArrivalInv, AtWork, MarchEnds
  <1> QED
    BY <1>2, <1>3, <1>4, <1>5, <1>6, <1>7, <1>8, ArrivalTells DEF AssemblerNext

-----------------------------------------------------------------------------
(* The first life of the process: what is due is told.                      *)

LEMMA SameSeen ==
  ASSUME asCm' = asCm
  PROVE  \A c, a, q : NewestSeen(c, a, q)' <=> NewestSeen(c, a, q)
  BY DEF NewestSeen

LEMMA SameDue ==
  ASSUME asCm' = asCm, asPosture' = asPosture
  PROVE  \A m, c : DueOf(m, c)' = DueOf(m, c)
  BY DEF DueOf, EpisodesIn

LEMMA StartsAreMore ==
  ASSUME AsTypes, StartAgain
  PROVE  asStarts' # 1
  BY AssemblerAssumption DEF StartAgain, AsTypes

LEMMA LatestStep ==
  ASSUME AsTypes, WorkOK, FirstLatest, [AssemblerNext]_assemblerVars
  PROVE  FirstLatest'
  <1>1. asCm' = asCm /\ \A c, a, q : NewestSeen(c, a, q)' <=> NewestSeen(c, a, q)
    BY TopicsStay, SameSeen
  <1> DEFINE Bound == IF AtWork("cm") THEN asRead.cm + 1 ELSE asRead.cm
  <1>2. ASSUME asStarts' = asStarts, asPhase' # "dead" => asPhase # "dead", asLatest' = asLatest,
               asPhase' # "dead" => Bound' = Bound
        PROVE  FirstLatest'
    <2> SUFFICES ASSUME asStarts' = 1, asPhase' # "dead", NEW a \in CmAssets, NEW c \in DOMAIN asCm,
                        NewestSeen(c, a, Bound)
                 PROVE  asLatest[a] = c
      BY <1>1, <1>2 DEF FirstLatest
    <2> QED
      BY <1>2 DEF FirstLatest
  <1>3. CASE PollCm
    <2>1. PICK n \in Nat : n = asRead.cm + 1
      BY DEF AsTypes
    <2>2. /\ asPhase = "loop" /\ asPhase' = "handling" /\ asMessage' = [topic |-> "cm", n |-> n] /\ asRead' = asRead
          /\ asLatest' = [asLatest EXCEPT ![asCm[n].asset] = n] /\ asStarts' = asStarts /\ n \in DOMAIN asCm
      BY <1>3, <2>1 DEF PollCm, Handles
    <2>3. AtWork("cm")' /\ ~AtWork("cm") /\ asRead.cm \in Nat
      BY <2>2 DEF AtWork, AsTypes
    <2> SUFFICES ASSUME asStarts = 1, NEW a \in CmAssets, NEW c \in DOMAIN asCm, NewestSeen(c, a, n)
                 PROVE  asLatest'[a] = c
      BY <1>1, <2>1, <2>2, <2>3 DEF FirstLatest
    <2>4. CASE a = asCm[n].asset
      <3>1. n \in 1..n /\ \A d \in 1..n : d <= n
        BY <2>1, <2>3
      <3>2. c = n
        BY <2>1, <2>4, <3>1 DEF NewestSeen
      <3> QED
        BY <2>2, <2>4, <3>2 DEF AsTypes
    <2>5. CASE a # asCm[n].asset
      <3>1. \A d \in 1..n : d \in 1..asRead.cm \/ d = n
        BY <2>1, <2>3
      <3>2. \A d \in 1..asRead.cm : d \in 1..n
        BY <2>1, <2>3
      <3>3. NewestSeen(c, a, asRead.cm)
        BY <2>5, <3>1, <3>2 DEF NewestSeen
      <3>4. asLatest[a] = c
        BY <2>2, <2>3, <3>3 DEF FirstLatest
      <3> QED
        BY <2>2, <2>5, <3>4 DEF AsTypes
    <2> QED
      BY <2>4, <2>5
  <1>4. CASE PollPosture
    BY <1>2, <1>4 DEF PollPosture, Handles, AtWork
  <1>5. CASE Tell
    <2>1. /\ asStarts' = asStarts /\ asPhase = "handling" /\ asLatest' = asLatest /\ asRead' = asRead /\ asMessage' = asMessage
          /\ asPhase' = asPhase \/ asPhase' = "dead"
      BY <1>5 DEF Tell
    <2> QED
      BY <1>2, <2>1 DEF AtWork
  <1>6. CASE CommitMessage
    <2>1. /\ asStarts' = asStarts /\ asPhase = "handling" /\ asLatest' = asLatest
          /\ \/ asPhase' = "dead"
             \/ asPhase' = "loop" /\ asRead' = [asRead EXCEPT ![asMessage.topic] = asMessage.n]
      BY <1>6 DEF CommitMessage
    <2>2. asPhase' # "dead" => Bound' = Bound
      BY <2>1 DEF AtWork, WorkOK, AsTypes
    <2> QED
      BY <1>2, <2>1, <2>2
  <1>7. CASE KillAssembler
    BY <1>7 DEF KillAssembler, FirstLatest
  <1>8. CASE StartAgain
    BY <1>8, StartsAreMore DEF FirstLatest
  <1>9. CASE UNCHANGED assemblerVars
    BY <1>2, <1>9 DEF assemblerVars, memoryVars, AtWork
  <1> QED
    BY <1>3, <1>4, <1>5, <1>6, <1>7, <1>8, <1>9 DEF AssemblerNext

LEMMA WorkStep ==
  ASSUME AsTypes, WorkOK, ArrivalInv, FirstLatest, FirstMarch, FirstWork, [AssemblerNext]_assemblerVars
  PROVE  FirstWork'
  <1>1. /\ asCm' = asCm /\ asPosture' = asPosture
        /\ \A c, a, q : NewestSeen(c, a, q)' <=> NewestSeen(c, a, q)
        /\ \A m, q : MarchEnds(m, q)' <=> MarchEnds(m, q)
        /\ \A m, c : DueOf(m, c)' = DueOf(m, c)
    BY TopicsStay, SameSeen, SameMarches, SameDue
  <1>2. CASE PollPosture
    <2>1. PICK n \in Nat : n = asRead.posture + 1
      BY DEF AsTypes
    <2>2. PICK asset : asset = asPosture[n].asset
      OBVIOUS
    <2>3. /\ asPhase = "loop" /\ asMessage' = [topic |-> "posture", n |-> n] /\ asRead' = asRead /\ n \in DOMAIN asPosture
          /\ asSeen' = [asSeen EXCEPT ![n] = asRead.cm] /\ asStarts' = asStarts /\ asset \in CmAssets
          /\ asTodo' = IF asPosture[n].to = "emplaced" /\ asMarch[asset] # 0 /\ asset \in asMoved
                       THEN OpenOf(asset) ELSE << >>
      BY <1>2, <2>1, <2>2, TransitionIs DEF PollPosture, Handles
    <2>4. asSeen'[n] = asRead.cm
      BY <2>3 DEF AsTypes
    <2>5. ASSUME asStarts = 1, NEW m \in DOMAIN asPosture, NEW c \in DOMAIN asCm,
                 MarchEnds(m, n), NewestSeen(c, asset, asRead.cm)
          PROVE  ToSet(asTodo') = EpisodesIn(c)
      <3>1. Noted = asRead.posture /\ ~AtWork("cm") /\ asRead.posture \in Nat
        BY <2>3 DEF Noted, AtWork, AsTypes
      <3>2. OrderStands(m, asset, asRead.posture) /\ MovedSince(m, asset, asRead.posture) /\ asPosture[n].to = "emplaced"
        BY <2>1, <2>2, <2>3, <2>5, <3>1, EndsAMarch
      <3>3. asMarch[asset] = asPosture[m].at /\ asset \in asMoved
        BY <2>3, <2>5, <3>1, <3>2 DEF FirstMarch
      <3>4. asMarch[asset] # 0
        BY <3>3, TransitionIs
      <3>5. asLatest[asset] = c
        BY <2>3, <2>5, <3>1 DEF FirstLatest
      <3>6. c # 0
        BY StateIs
      <3> QED
        BY <2>3, <3>2, <3>3, <3>4, <3>5, <3>6 DEF OpenOf, EpisodesIn
    <2>6. ToSet(asTodo)' = ToSet(asTodo')
      OBVIOUS
    <2>7. \A m, c : DueOf(m, c) \subseteq EpisodesIn(c)
      BY DEF DueOf
    <2> QED
      BY <1>1, <2>2, <2>3, <2>4, <2>5, <2>6, <2>7 DEF FirstWork
  <1>3. CASE Tell
    <2> SUFFICES ASSUME asStarts = 1, AtWork("posture")' PROVE FirstWork'
      BY <1>3 DEF FirstWork, Tell
    <2>1. PICK e : e = Head(asTodo)
      OBVIOUS
    <2>2. /\ asPhase = "handling" /\ asTodo # << >> /\ asMessage' = asMessage /\ asRead' = asRead /\ asSeen' = asSeen
          /\ Told(e) \in [key : EpisodeKeys, sources : SourceSets, arrival : 0..Len(asPosture)]
          /\ asPhase' = "handling" /\ asTodo' = Tail(asTodo) /\ asMarch' = asMarch
      BY <1>3, <2>1, TellCases DEF AtWork
    <2>3. AtWork("posture")
      BY <2>2 DEF AtWork
    <2>4. PICK n : n = asMessage.n
      OBVIOUS
    <2>5. /\ n \in DOMAIN asPosture /\ n = asRead.posture + 1 /\ asRead.posture \in Nat
          /\ asPosture[n].to = "emplaced" /\ Noted = asRead.posture
          /\ asPosture[n].asset \in CmAssets /\ Arrival = n /\ n # 0
      BY <2>2, <2>3, <2>4, AtAnEnd
    <2>6. ToSet(asTodo) = {e} \cup ToSet(asTodo')
      <3>1. asTodo \in Seq(Episodes) /\ asTodo # << >> /\ \A i, j \in DOMAIN asTodo : asTodo[i].key = asTodo[j].key => i = j
        BY <2>2 DEF AsTypes, WorkOK
      <3> QED
        BY <3>1, <2>2, <2>1, HeadAndTail
    <2>7. PassedOver(e) => DetectedAt[e.key] >= asMarch[asPosture[n].asset] \/ IsTold(e.key, n)
      BY <2>5 DEF PassedOver, ArrivalInv, IsTold
    <2>8. ~PassedOver(e) => IsTold(e.key, n)'
      <3> SUFFICES ASSUME ~PassedOver(e) PROVE IsTold(e.key, n)'
        OBVIOUS
      <3>1. asOut' = Append(asOut, Told(e))
        BY <1>3, <2>2, <2>1 DEF Tell
      <3>2. /\ Len(asOut) + 1 \in DOMAIN asOut' /\ asOut'[Len(asOut) + 1] = Told(e)
        BY <2>2, <3>1, OneMore
      <3>3. Told(e).key = e.key /\ Told(e).arrival = n
        BY <2>5 DEF Told
      <3> QED
        BY <3>2, <3>3 DEF IsTold
    <2>9. \A k : IsTold(k, n) => IsTold(k, n)'
      BY ToldStays
    <2>10. ASSUME NEW m \in DOMAIN asPosture, NEW c \in DOMAIN asCm, MarchEnds(m, n),
                 NewestSeen(c, asPosture[n].asset, asRead.cm), NEW f \in DueOf(m, c)
          PROVE  f \in ToSet(asTodo') \/ IsTold(f.key, n)'
      <3>1. f \in ToSet(asTodo) \/ IsTold(f.key, n)
        BY <2>3, <2>4, <2>10 DEF FirstWork
      <3>2. CASE f = e
        <4>1. OrderStands(m, asPosture[n].asset, asRead.posture)
          BY <2>5, <2>10, EndsAMarch
        <4>2. asMarch[asPosture[n].asset] = asPosture[m].at
          BY <2>2, <2>5, <4>1 DEF FirstMarch
        <4>3. DetectedAt[e.key] < asPosture[m].at /\ e \in EpisodesIn(c)
          BY <2>10, <3>2 DEF DueOf
        <4>4. DetectedAt[e.key] \in Nat /\ asPosture[m].at \in Nat
          BY <4>3, StateIs, TransitionIs, AssemblerAssumption DEF Episodes
        <4>5. ~(DetectedAt[e.key] >= asMarch[asPosture[n].asset])
          BY <4>2, <4>3, <4>4
        <4> QED
          BY <2>7, <2>8, <2>9, <3>2, <4>5
      <3>3. CASE f # e
        BY <2>6, <2>9, <3>1, <3>3
      <3> QED
        BY <3>2, <3>3
    <2>11. asSeen[n] = asRead.cm
      BY <2>3, <2>4 DEF FirstWork
    <2>12. ToSet(asTodo)' = ToSet(asTodo')
      OBVIOUS
    <2> QED
      BY <1>1, <2>2, <2>4, <2>10, <2>11, <2>12 DEF FirstWork
  <1>4. CASE PollCm \/ CommitMessage \/ KillAssembler \/ StartAgain
    <2>1. ~AtWork("posture")'
      BY <1>4 DEF PollCm, Handles, CommitMessage, KillAssembler, StartAgain, AtWork
    <2> QED
      BY <2>1 DEF FirstWork
  <1>5. CASE UNCHANGED assemblerVars
    <2>1. \A k, n : IsTold(k, n)' <=> IsTold(k, n)
      BY <1>5 DEF assemblerVars, IsTold
    <2> QED
      BY <1>1, <1>5, <2>1 DEF FirstWork, AtWork, assemblerVars
  <1> QED
    BY <1>2, <1>3, <1>4, <1>5 DEF AssemblerNext

LEMMA ToldStep ==
  ASSUME AsTypes, WorkOK, FirstWork, FirstTold, [AssemblerNext]_assemblerVars
  PROVE  FirstTold'
  <1>1. /\ asCm' = asCm /\ asPosture' = asPosture
        /\ \A c, a, q : NewestSeen(c, a, q)' <=> NewestSeen(c, a, q)
        /\ \A m, q : MarchEnds(m, q)' <=> MarchEnds(m, q)
        /\ \A m, c : DueOf(m, c)' = DueOf(m, c)
    BY TopicsStay, SameSeen, SameMarches, SameDue
  <1>2. \A k, n : IsTold(k, n) => IsTold(k, n)'
    BY ToldStays
  <1>3. PICK p \in Nat : p = asRead.posture
    BY DEF AsTypes
  <1>4. CASE asStarts' = asStarts /\ asRead'.posture = p /\ \A n \in 1..p : asSeen'[n] = asSeen[n]
    BY <1>1, <1>2, <1>3, <1>4 DEF FirstTold
  <1>5. CASE CommitMessage /\ asRead'.posture # p
    <2>1. PICK n : n = asMessage.n
      OBVIOUS
    <2>2. /\ AtWork("posture") /\ asTodo = << >> /\ n = p + 1 /\ asRead'.posture = n /\ asSeen' = asSeen /\ asStarts' = asStarts
      BY <1>3, <1>5, <2>1 DEF CommitMessage, AtWork, WorkOK, AsTypes
    <2>3. \A i \in 1..n : i \in 1..p \/ i = n
      BY <1>3, <2>2
    <2>4. ToSet(asTodo) = {}
      BY <2>2 DEF ToSet
    <2>5. ASSUME asStarts = 1, NEW m \in DOMAIN asPosture, NEW c \in DOMAIN asCm,
                 MarchEnds(m, n), NewestSeen(c, asPosture[n].asset, asSeen[n]), NEW f \in DueOf(m, c)
          PROVE  IsTold(f.key, n)
      BY <2>1, <2>2, <2>4, <2>5 DEF FirstWork
    <2> QED
      BY <1>1, <1>2, <1>3, <2>2, <2>3, <2>5 DEF FirstTold
  <1>6. CASE PollPosture
    <2>1. /\ asStarts' = asStarts /\ asRead' = asRead /\ asSeen' = [asSeen EXCEPT ![p + 1] = asRead.cm]
      BY <1>3, <1>6 DEF PollPosture, Handles
    <2>2. \A n \in 1..p : n \in DOMAIN asPosture /\ n # p + 1
      BY <1>3, TopicsAre DEF AsTypes
    <2>3. \A n \in 1..p : asSeen'[n] = asSeen[n]
      BY <2>1, <2>2 DEF AsTypes
    <2> QED
      BY <1>3, <1>4, <2>1, <2>3
  <1>7. CASE StartAgain
    BY <1>7, StartsAreMore DEF FirstTold
  <1>8. CASE PollCm \/ Tell \/ KillAssembler \/ UNCHANGED assemblerVars
    <2>1. asStarts' = asStarts /\ asRead' = asRead /\ asSeen' = asSeen
      BY <1>8 DEF PollCm, Handles, Tell, KillAssembler, assemblerVars
    <2> QED
      BY <1>3, <1>4, <2>1
  <1>9. CommitMessage => asStarts' = asStarts /\ asSeen' = asSeen
    BY DEF CommitMessage
  <1> QED
    BY <1>4, <1>5, <1>6, <1>7, <1>8, <1>9 DEF AssemblerNext

-----------------------------------------------------------------------------
(* The theorems.                                                            *)

LEMMA AsBegins == AssemblerInit => AsInv
  <1> SUFFICES ASSUME AssemblerInit PROVE AsInv
    OBVIOUS
  <1>1. AsTypes /\ WorkOK
    BY TypesBegin
  <1>2. /\ asOut = << >> /\ asRead = [cm |-> 0, posture |-> 0] /\ asPhase = "loop" /\ asArrived = {}
        /\ asProduced = [k \in EpisodeKeys |-> NotProduced] /\ asLatest = [a \in CmAssets |-> 0]
        /\ asMarch = [a \in CmAssets |-> 0]
    BY DEF AssemblerInit
  <1>3. DOMAIN asOut = {} /\ \A k : RecordsOf(k) = {}
    BY <1>2 DEF RecordsOf
  <1>4. NewestInv
    BY <1>2, <1>3 DEF NewestInv
  <1>5. MemoryInv /\ MarchInv
    BY <1>2 DEF MemoryInv, MarchInv
  <1>6. ArrivalInv
    BY <1>2, <1>3 DEF ArrivalInv
  <1>7. ~AtWork("cm") /\ ~AtWork("posture") /\ Noted = 0
    BY <1>2 DEF AtWork, Noted
  <1>8. FirstLatest /\ FirstMarch
    BY <1>2, <1>7 DEF FirstLatest, FirstMarch, NewestSeen, OrderStands
  <1>9. FirstWork /\ FirstTold
    BY <1>2, <1>7 DEF FirstWork, FirstTold
  <1> QED
    BY <1>1, <1>4, <1>5, <1>6, <1>8, <1>9 DEF AsInv

LEMMA AsStep == AsInv /\ [AssemblerNext]_assemblerVars => AsInv'
  BY TypesStep, NewestStep, MemoryStep, MarchStep, ArrivalStep, LatestStep, WorkStep, ToldStep DEF AsInv

LEMMA NewestShows == AsInv => NewestIsLast
  <1> SUFFICES ASSUME AsInv, NEW k \in EpisodeKeys,
                      {n \in 1..asRead.cm : IsOpenIn(n, k)} # {}
               PROVE  /\ RecordsOf(k) # {}
                      /\ \E n \in LastOf({n \in 1..asRead.cm : IsOpenIn(n, k)})..Len(asCm) :
                            IsOpenIn(n, k) /\ asOut[LastOf(RecordsOf(k))].sources = SourcesIn(n, k)
    BY DEF NewestIsLast, RecordsOf
  <1> DEFINE S == {n \in 1..asRead.cm : IsOpenIn(n, k)}
  <1>1. asRead.cm \in Nat /\ S \in SUBSET Nat /\ S # {} /\ \A n \in S : n <= asRead.cm
    BY TopicsAre DEF AsInv, AsTypes
  <1>2. RecordsOf(k) # {}
    BY DEF AsInv, NewestInv
  <1>3. PICK n \in 1..(asRead.cm + 1) :
          /\ n \in DOMAIN asCm /\ IsOpenIn(n, k) /\ LastSources(k) = SourcesIn(n, k)
          /\ \A c \in 1..asRead.cm : IsOpenIn(c, k) => c <= n
    BY <1>2 DEF AsInv, NewestInv
  <1>4. \A c \in S : c <= n
    BY <1>3
  <1>5. n \in Nat /\ n <= Len(asCm) /\ Len(asCm) \in Nat
    BY <1>3, StateIs, TopicsAre DEF AsInv
  <1> HIDE DEF S
  <1>6. LastOf(S) \in S
    BY <1>1, LastIsThere
  <1>7. n \in LastOf(S)..Len(asCm)
    <2>1. LastOf(S) \in Nat /\ LastOf(S) <= n
      BY <1>1, <1>4, <1>6
    <2> QED
      BY <1>5, <2>1
  <1> QED
    BY <1>2, <1>3, <1>7 DEF S, LastSources

LEMMA ArrivalsShow == AsInv => ArrivalsAreDue
  <1> SUFFICES ASSUME AsInv PROVE ArrivalsAreDue
    OBVIOUS
  <1>1. ASSUME asStarts = 1, NEW n \in 1..asRead.posture, NEW m \in DOMAIN asPosture, MarchEnds(m, n),
               NEW S, S = {c \in 1..asSeen[n] : asCm[c].asset = asPosture[n].asset}, S # {},
               NEW e \in ToSet(asCm[LastOf(S)].open), DetectedAt[e.key] < asPosture[m].at
        PROVE  \E i \in DOMAIN asOut : asOut[i].key = e.key /\ asOut[i].arrival = n
    <2>1. n \in DOMAIN asPosture /\ asSeen[n] \in 0..Len(asCm) /\ Len(asCm) \in Nat
      <3>1. DOMAIN asPosture = 1..Len(asPosture) /\ Len(asPosture) \in Nat /\ Len(asCm) \in Nat
        BY TopicsAre DEF AsInv
      <3>2. asRead.posture \in 0..Len(asPosture) /\ asSeen \in [DOMAIN asPosture -> 0..Len(asCm)]
        BY DEF AsInv, AsTypes
      <3> QED
        BY <3>1, <3>2
    <2>2. S \in SUBSET Nat /\ asSeen[n] \in Nat /\ \A c \in S : c <= asSeen[n]
      BY <1>1, <2>1
    <2>3. LastOf(S) \in S /\ \A c \in S : c <= LastOf(S)
      BY <1>1, <2>2, LastIsThere
    <2>4. NewestSeen(LastOf(S), asPosture[n].asset, asSeen[n])
      BY <1>1, <2>3 DEF NewestSeen
    <2>5. LastOf(S) \in DOMAIN asCm
      BY <1>1, <2>1, <2>3, TopicsAre DEF AsInv
    <2>6. e \in DueOf(m, LastOf(S))
      BY <1>1 DEF DueOf, EpisodesIn
    <2> QED
      BY <1>1, <2>4, <2>5, <2>6 DEF AsInv, FirstTold, IsTold
  <1> QED
    BY <1>1 DEF ArrivalsAreDue, AsInv, ArrivalInv

\* Each episode is told as it is, and each arrival that is due, over crashes,
\* unconfirmed sends and replays (egress/assembler.py): for any topics in which a state
\* lists an occurrence once and an occurrence is of one asset.
THEOREM EpisodesTold == AssemblerSpec => []EpisodesAreTold
  <1>1. AsInv => EpisodesAreTold
    BY NewestShows, ArrivalsShow DEF EpisodesAreTold
  <1> QED
    BY <1>1, AsBegins, AsStep, PTL DEF AssemblerSpec

-----------------------------------------------------------------------------
(* The folds of the window. *)

\* The messages that there are: an insert says every column.
Said == {m \in Messages : m.at # 0 /\ (m.op = "insert" => DOMAIN m.value = Columns)}
Values == 0..MaxShapeLog
RowSets == UNION {[R -> [Columns -> Values]] : R \in SUBSET LevelRows}

LEMMA AppliedInRows ==
  ASSUME NEW rows \in RowSets, NEW m \in Said
  PROVE  AppliedTo(rows, m) \in RowSets
  <1>1. PICK R \in SUBSET LevelRows : rows \in [R -> [Columns -> Values]]
    BY DEF RowSets
  <1>2. m.op \in ShapeOps /\ m.row \in LevelRows /\ \E cs \in SUBSET Columns : m.value \in [cs -> Values]
    BY DEF Said, Messages, Values
  <1>3. CASE m.op = "delete"
    <2>1. AppliedTo(rows, m) \in [R \ {m.row} -> [Columns -> Values]]
      BY <1>1, <1>3 DEF AppliedTo
    <2> QED
      BY <2>1 DEF RowSets
  <1>4. CASE m.op = "insert"
    <2>1. m.value \in [Columns -> Values]
      BY <1>2, <1>4 DEF Said
    <2>2. AppliedTo(rows, m) \in [R \cup {m.row} -> [Columns -> Values]]
      BY <1>1, <1>4, <2>1 DEF AppliedTo
    <2>3. R \cup {m.row} \in SUBSET LevelRows
      BY <1>2
    <2> QED
      BY <2>2, <2>3 DEF RowSets
  <1>5. CASE m.op = "update"
    <2> DEFINE new == [c \in DOMAIN rows[m.row] |-> IF c \in DOMAIN m.value THEN m.value[c] ELSE rows[m.row][c]]
    <2>1. AppliedTo(rows, m) = [rows EXCEPT ![m.row] = new]
      BY <1>5 DEF AppliedTo
    <2>2. m.row \in R => new \in [Columns -> Values]
      BY <1>1, <1>2
    <2> HIDE DEF new
    <2>3. [rows EXCEPT ![m.row] = new] \in [R -> [Columns -> Values]]
      BY <1>1, <2>2
    <2> QED
      BY <2>1, <2>3 DEF RowSets
  <1> QED
    BY <1>2, <1>3, <1>4, <1>5 DEF ShapeOps

LEMMA AppliedLeads ==
  ASSUME NEW b \in RowSets, NEW s \in Seq(Said)
  PROVE  Leads(RowSets, [p \in RowSets \X Said |-> AppliedTo(p[1], p[2])], b, s, FoldLeft(AppliedTo, b, s))
  <1> DEFINE V == RowSets
             n == Len(s)
             o == [p \in V \X (1..n) |-> AppliedTo(p[1], s[p[2]])]
             step == [p \in V \X Said |-> AppliedTo(p[1], p[2])]
             Is(it) == it = [S \in SUBSET (1..n) |-> IF S = {} THEN b ELSE AppliedTo(it[S \ {Max(S)}], s[Max(S)])]
             iter == CHOOSE it : Is(it)
  <1>1. n \in Nat /\ DOMAIN s = 1..n /\ \A i \in 1..n : s[i] \in Said
    OBVIOUS
  <1>2. FoldLeft(AppliedTo, b, s) = iter[1..n]
    BY <1>1 DEF FoldLeft, MapThenFoldSet
  <1>3. o \in [V \X (1..n) -> V]
    BY <1>1, AppliedInRows
  <1>4. b \in V
    OBVIOUS
  <1>5. \A v \in V, i \in 1..n : o[<<v, i>>] = AppliedTo(v, s[i])
    OBVIOUS
  <1>6. \A v \in V, i \in 1..n : step[<<v, s[i]>>] = AppliedTo(v, s[i])
    BY <1>1
  <1> HIDE DEF n, V, o, step
  <1>7. PICK f \in [SUBSET (1..n) -> V] : Folded(f, b, n, o)
    BY <1>1, <1>3, <1>4, FoldExists
  <1>8. ASSUME NEW S \in SUBSET (1..n), S # {} PROVE Max(S) \in 1..n /\ S \ {Max(S)} \in SUBSET (1..n)
    BY <1>1, <1>8, MaxIn
  <1>9. f = [S \in SUBSET (1..n) |-> IF S = {} THEN b ELSE AppliedTo(f[S \ {Max(S)}], s[Max(S)])]
    BY <1>7, <1>8, <1>5 DEF Folded
  <1>10. Is(iter)
    BY <1>9
  <1> HIDE DEF iter
  <1>11. iter[{}] = b
    BY <1>10
  <1>12. ASSUME NEW T \in SUBSET (1..n), T # {}, iter[T \ {Max(T)}] \in V
         PROVE  iter[T] = o[<<iter[T \ {Max(T)}], Max(T)>>]
    BY <1>12, <1>10, <1>8, <1>5
  <1>13. PICK c \in [0..n -> V] : c[0] = b /\ (\A i \in 1..n : c[i] = o[<<c[i - 1], i>>]) /\ iter[1..n] = c[n]
    <2>1. StepsBy(iter, V, b, n, o)
      BY <1>11, <1>12 DEF StepsBy
    <2>2. ChainTo(V, b, n, o, iter[1..n])
      BY <2>1, <1>1, <1>4, <1>3, FoldChain
    <2> QED
      BY <2>2 DEF ChainTo
  <1>14. ASSUME NEW i \in 1..n PROVE c[i] = step[<<c[i - 1], s[i]>>]
    <2>1. c[i - 1] \in V
      BY <1>1, <1>13
    <2> QED
      BY <2>1, <1>13, <1>5, <1>6
  <1> QED
    BY <1>2, <1>13, <1>14 DEF Leads, V, step, n

LEMMA AppliedNone ==
  ASSUME NEW b \in RowSets
  PROVE  FoldLeft(AppliedTo, b, << >>) = b
  <1> DEFINE o == [p \in RowSets \X Said |-> AppliedTo(p[1], p[2])]
             v == FoldLeft(AppliedTo, b, << >>)
  <1>1. << >> \in Seq(Said)
    OBVIOUS
  <1>2. Leads(RowSets, o, b, << >>, v)
    BY <1>1, AppliedLeads
  <1> HIDE DEF o, v
  <1>3. v = b
    BY <1>2, LeadsNowhere
  <1> QED
    BY <1>3 DEF v

LEMMA AppliedOn ==
  ASSUME NEW b \in RowSets, NEW s \in Seq(Said), NEW x \in Said
  PROVE  /\ FoldLeft(AppliedTo, b, s) \in RowSets
         /\ FoldLeft(AppliedTo, b, Append(s, x)) = AppliedTo(FoldLeft(AppliedTo, b, s), x)
  <1> DEFINE o == [p \in RowSets \X Said |-> AppliedTo(p[1], p[2])]
             v == FoldLeft(AppliedTo, b, s)
             w == FoldLeft(AppliedTo, b, Append(s, x))
  <1>1. Append(s, x) \in Seq(Said)
    OBVIOUS
  <1>2. Leads(RowSets, o, b, s, v) /\ Leads(RowSets, o, b, Append(s, x), w)
    BY <1>1, AppliedLeads
  <1>3. \A q \in RowSets : o[<<q, x>>] = AppliedTo(q, x)
    OBVIOUS
  <1> HIDE DEF o, v, w
  <1>4. w = o[<<v, x>>] /\ v \in RowSets
    BY <1>2, LeadsOn
  <1>5. w = AppliedTo(v, x)
    BY <1>3, <1>4
  <1> QED
    BY <1>4, <1>5 DEF v, w

ToldLists == Seq(1..MaxShapeLog)

LEMMA TellingInTold ==
  ASSUME NEW told \in ToldLists, NEW m \in Said
  PROVE  Telling(told, m) \in ToldLists
  <1>1. m.at \in 0..MaxShapeLog /\ m.at # 0
    BY DEF Said, Messages
  <1>2. m.at \in 1..MaxShapeLog
    BY <1>1, WindowAssumption
  <1> DEFINE S == 1..MaxShapeLog
  <1>3. told \in Seq(S) /\ m.at \in S
    BY <1>2 DEF ToldLists
  <1> HIDE DEF S
  <1>4. Append(told, m.at) \in Seq(S)
    BY <1>3
  <1> QED
    BY <1>3, <1>4 DEF ToldLists, Telling, S

LEMMA TellingLeads ==
  ASSUME NEW b \in ToldLists, NEW s \in Seq(Said)
  PROVE  Leads(ToldLists, [p \in ToldLists \X Said |-> Telling(p[1], p[2])], b, s, FoldLeft(Telling, b, s))
  <1> DEFINE V == ToldLists
             n == Len(s)
             o == [p \in V \X (1..n) |-> Telling(p[1], s[p[2]])]
             step == [p \in V \X Said |-> Telling(p[1], p[2])]
             Is(it) == it = [S \in SUBSET (1..n) |-> IF S = {} THEN b ELSE Telling(it[S \ {Max(S)}], s[Max(S)])]
             iter == CHOOSE it : Is(it)
  <1>1. n \in Nat /\ DOMAIN s = 1..n /\ \A i \in 1..n : s[i] \in Said
    OBVIOUS
  <1>2. FoldLeft(Telling, b, s) = iter[1..n]
    BY <1>1 DEF FoldLeft, MapThenFoldSet
  <1>3. o \in [V \X (1..n) -> V]
    BY <1>1, TellingInTold
  <1>4. b \in V
    OBVIOUS
  <1>5. \A v \in V, i \in 1..n : o[<<v, i>>] = Telling(v, s[i])
    OBVIOUS
  <1>6. \A v \in V, i \in 1..n : step[<<v, s[i]>>] = Telling(v, s[i])
    BY <1>1
  <1> HIDE DEF n, V, o, step
  <1>7. PICK f \in [SUBSET (1..n) -> V] : Folded(f, b, n, o)
    BY <1>1, <1>3, <1>4, FoldExists
  <1>8. ASSUME NEW S \in SUBSET (1..n), S # {} PROVE Max(S) \in 1..n /\ S \ {Max(S)} \in SUBSET (1..n)
    BY <1>1, <1>8, MaxIn
  <1>9. f = [S \in SUBSET (1..n) |-> IF S = {} THEN b ELSE Telling(f[S \ {Max(S)}], s[Max(S)])]
    BY <1>7, <1>8, <1>5 DEF Folded
  <1>10. Is(iter)
    BY <1>9
  <1> HIDE DEF iter
  <1>11. iter[{}] = b
    BY <1>10
  <1>12. ASSUME NEW T \in SUBSET (1..n), T # {}, iter[T \ {Max(T)}] \in V
         PROVE  iter[T] = o[<<iter[T \ {Max(T)}], Max(T)>>]
    BY <1>12, <1>10, <1>8, <1>5
  <1>13. PICK c \in [0..n -> V] : c[0] = b /\ (\A i \in 1..n : c[i] = o[<<c[i - 1], i>>]) /\ iter[1..n] = c[n]
    <2>1. StepsBy(iter, V, b, n, o)
      BY <1>11, <1>12 DEF StepsBy
    <2>2. ChainTo(V, b, n, o, iter[1..n])
      BY <2>1, <1>1, <1>4, <1>3, FoldChain
    <2> QED
      BY <2>2 DEF ChainTo
  <1>14. ASSUME NEW i \in 1..n PROVE c[i] = step[<<c[i - 1], s[i]>>]
    <2>1. c[i - 1] \in V
      BY <1>1, <1>13
    <2> QED
      BY <2>1, <1>13, <1>5, <1>6
  <1> QED
    BY <1>2, <1>13, <1>14 DEF Leads, V, step, n

LEMMA TellingNone ==
  ASSUME NEW b \in ToldLists
  PROVE  FoldLeft(Telling, b, << >>) = b
  <1> DEFINE o == [p \in ToldLists \X Said |-> Telling(p[1], p[2])]
             v == FoldLeft(Telling, b, << >>)
  <1>1. << >> \in Seq(Said)
    OBVIOUS
  <1>2. Leads(ToldLists, o, b, << >>, v)
    BY <1>1, TellingLeads
  <1> HIDE DEF o, v
  <1>3. v = b
    BY <1>2, LeadsNowhere
  <1> QED
    BY <1>3 DEF v

LEMMA TellingOn ==
  ASSUME NEW b \in ToldLists, NEW s \in Seq(Said), NEW x \in Said
  PROVE  /\ FoldLeft(Telling, b, s) \in ToldLists
         /\ FoldLeft(Telling, b, Append(s, x)) = Telling(FoldLeft(Telling, b, s), x)
  <1> DEFINE o == [p \in ToldLists \X Said |-> Telling(p[1], p[2])]
             v == FoldLeft(Telling, b, s)
             w == FoldLeft(Telling, b, Append(s, x))
  <1>1. Append(s, x) \in Seq(Said)
    OBVIOUS
  <1>2. Leads(ToldLists, o, b, s, v) /\ Leads(ToldLists, o, b, Append(s, x), w)
    BY <1>1, TellingLeads
  <1>3. \A q \in ToldLists : o[<<q, x>>] = Telling(q, x)
    OBVIOUS
  <1> HIDE DEF o, v, w
  <1>4. w = o[<<v, x>>] /\ v \in ToldLists
    BY <1>2, LeadsOn
  <1>5. w = Telling(v, x)
    BY <1>3, <1>4
  <1> QED
    BY <1>4, <1>5 DEF v, w

HeldLists == Seq(Said)

LEMMA FoldedIsSaid ==
  ASSUME NEW m \in Said, NEW msg \in Said
  PROVE  FoldedInto(m, msg) \in Said
  <1>1. m.op \in ShapeOps /\ m.row \in LevelRows /\ m.at \in Values
    BY DEF Said, Messages, Values
  <1>2. PICK cs \in SUBSET Columns : m.value \in [cs -> Values]
    BY DEF Said, Messages, Values
  <1>3. PICK ds \in SUBSET Columns : msg.value \in [ds -> Values]
    BY DEF Said, Messages, Values
  <1> DEFINE new == [c \in DOMAIN m.value \cup DOMAIN msg.value |->
                        IF c \in DOMAIN msg.value THEN msg.value[c] ELSE m.value[c]]
  <1>4. FoldedInto(m, msg) = [m EXCEPT !.value = new]
    BY DEF FoldedInto
  <1>5. new \in [cs \cup ds -> Values] /\ cs \cup ds \in SUBSET Columns
    BY <1>2, <1>3
  <1>6. m.op = "insert" => cs \cup ds = Columns
    BY <1>2 DEF Said
  <1> HIDE DEF new
  <1>7. [m EXCEPT !.value = new] = [op |-> m.op, row |-> m.row, value |-> new, at |-> m.at]
    BY DEF Said, Messages
  <1>8. new \in UNION {[cols -> Values] : cols \in SUBSET Columns}
    BY <1>5
  <1>9. [m EXCEPT !.value = new] \in Messages
    BY <1>1, <1>7, <1>8 DEF Messages, Values
  <1> QED
    BY <1>4, <1>5, <1>6, <1>7, <1>9 DEF Said

LEMMA FoldInHeld ==
  ASSUME NEW held \in HeldLists, NEW m \in Said
  PROVE  Fold(held, m) \in HeldLists
  <1> DEFINE prior == LatestOf(held, m.row)
             new == [i \in DOMAIN held |-> IF i \in prior THEN FoldedInto(held[i], m) ELSE held[i]]
  <1>1. Fold(held, m) = IF prior # {} /\ ~IsTransition(m) THEN new ELSE Append(held, m)
    BY DEF Fold
  <1>2. \A i \in DOMAIN held : held[i] \in Said /\ FoldedInto(held[i], m) \in Said
    BY FoldedIsSaid DEF HeldLists
  <1> HIDE DEF prior
  <1>3. new \in Seq(Said)
    <2>1. Len(held) \in Nat /\ DOMAIN held = 1..Len(held)
      BY DEF HeldLists
    <2>2. new \in [1..Len(held) -> Said]
      BY <1>2, <2>1
    <2> QED
      BY <2>1, <2>2
  <1>4. Append(held, m) \in Seq(Said)
    BY DEF HeldLists
  <1> QED
    BY <1>1, <1>3, <1>4 DEF HeldLists

LEMMA FoldsLeads ==
  ASSUME NEW b \in HeldLists, NEW s \in Seq(Said)
  PROVE  Leads(HeldLists, [p \in HeldLists \X Said |-> Fold(p[1], p[2])], b, s, FoldLeft(Fold, b, s))
  <1> DEFINE V == HeldLists
             n == Len(s)
             o == [p \in V \X (1..n) |-> Fold(p[1], s[p[2]])]
             step == [p \in V \X Said |-> Fold(p[1], p[2])]
             Is(it) == it = [S \in SUBSET (1..n) |-> IF S = {} THEN b ELSE Fold(it[S \ {Max(S)}], s[Max(S)])]
             iter == CHOOSE it : Is(it)
  <1>1. n \in Nat /\ DOMAIN s = 1..n /\ \A i \in 1..n : s[i] \in Said
    OBVIOUS
  <1>2. FoldLeft(Fold, b, s) = iter[1..n]
    BY <1>1 DEF FoldLeft, MapThenFoldSet
  <1>3. o \in [V \X (1..n) -> V]
    BY <1>1, FoldInHeld
  <1>4. b \in V
    OBVIOUS
  <1>5. \A v \in V, i \in 1..n : o[<<v, i>>] = Fold(v, s[i])
    OBVIOUS
  <1>6. \A v \in V, i \in 1..n : step[<<v, s[i]>>] = Fold(v, s[i])
    BY <1>1
  <1> HIDE DEF n, V, o, step
  <1>7. PICK f \in [SUBSET (1..n) -> V] : Folded(f, b, n, o)
    BY <1>1, <1>3, <1>4, FoldExists
  <1>8. ASSUME NEW S \in SUBSET (1..n), S # {} PROVE Max(S) \in 1..n /\ S \ {Max(S)} \in SUBSET (1..n)
    BY <1>1, <1>8, MaxIn
  <1>9. f = [S \in SUBSET (1..n) |-> IF S = {} THEN b ELSE Fold(f[S \ {Max(S)}], s[Max(S)])]
    BY <1>7, <1>8, <1>5 DEF Folded
  <1>10. Is(iter)
    BY <1>9
  <1> HIDE DEF iter
  <1>11. iter[{}] = b
    BY <1>10
  <1>12. ASSUME NEW T \in SUBSET (1..n), T # {}, iter[T \ {Max(T)}] \in V
         PROVE  iter[T] = o[<<iter[T \ {Max(T)}], Max(T)>>]
    BY <1>12, <1>10, <1>8, <1>5
  <1>13. PICK c \in [0..n -> V] : c[0] = b /\ (\A i \in 1..n : c[i] = o[<<c[i - 1], i>>]) /\ iter[1..n] = c[n]
    <2>1. StepsBy(iter, V, b, n, o)
      BY <1>11, <1>12 DEF StepsBy
    <2>2. ChainTo(V, b, n, o, iter[1..n])
      BY <2>1, <1>1, <1>4, <1>3, FoldChain
    <2> QED
      BY <2>2 DEF ChainTo
  <1>14. ASSUME NEW i \in 1..n PROVE c[i] = step[<<c[i - 1], s[i]>>]
    <2>1. c[i - 1] \in V
      BY <1>1, <1>13
    <2> QED
      BY <2>1, <1>13, <1>5, <1>6
  <1> QED
    BY <1>2, <1>13, <1>14 DEF Leads, V, step, n

LEMMA FoldsNone ==
  ASSUME NEW b \in HeldLists
  PROVE  FoldLeft(Fold, b, << >>) = b
  <1> DEFINE o == [p \in HeldLists \X Said |-> Fold(p[1], p[2])]
             v == FoldLeft(Fold, b, << >>)
  <1>1. << >> \in Seq(Said)
    OBVIOUS
  <1>2. Leads(HeldLists, o, b, << >>, v)
    BY <1>1, FoldsLeads
  <1> HIDE DEF o, v
  <1>3. v = b
    BY <1>2, LeadsNowhere
  <1> QED
    BY <1>3 DEF v

LEMMA FoldsOn ==
  ASSUME NEW b \in HeldLists, NEW s \in Seq(Said), NEW x \in Said
  PROVE  /\ FoldLeft(Fold, b, s) \in HeldLists
         /\ FoldLeft(Fold, b, Append(s, x)) = Fold(FoldLeft(Fold, b, s), x)
  <1> DEFINE o == [p \in HeldLists \X Said |-> Fold(p[1], p[2])]
             v == FoldLeft(Fold, b, s)
             w == FoldLeft(Fold, b, Append(s, x))
  <1>1. Append(s, x) \in Seq(Said)
    OBVIOUS
  <1>2. Leads(HeldLists, o, b, s, v) /\ Leads(HeldLists, o, b, Append(s, x), w)
    BY <1>1, FoldsLeads
  <1>3. \A q \in HeldLists : o[<<q, x>>] = Fold(q, x)
    OBVIOUS
  <1> HIDE DEF o, v, w
  <1>4. w = o[<<v, x>>] /\ v \in HeldLists
    BY <1>2, LeadsOn
  <1>5. w = Fold(v, x)
    BY <1>3, <1>4
  <1> QED
    BY <1>4, <1>5 DEF v, w

-----------------------------------------------------------------------------
(* A value that is folded into a held message does what it would have done   *)
(* after the others. *)

LEMMA OthersCommute ==
  ASSUME NEW rows \in RowSets, NEW m \in Said, NEW msg \in Said, msg.op = "update", m.row # msg.row
  PROVE  AppliedTo(AppliedTo(rows, m), msg) = AppliedTo(AppliedTo(rows, msg), m)
  <1> DEFINE Up(row, x) == [c \in DOMAIN row |-> IF c \in DOMAIN x.value THEN x.value[c] ELSE row[c]]
             A == AppliedTo(rows, m)
             B == AppliedTo(rows, msg)
  <1>1. PICK S \in SUBSET LevelRows : rows \in [S -> [Columns -> Values]]
    BY DEF RowSets
  <1>2. ASSUME NEW q PROVE AppliedTo(q, msg) = [i \in DOMAIN q |-> IF i = msg.row THEN Up(q[i], msg) ELSE q[i]]
    BY DEF AppliedTo
  <1>3. CASE m.op = "delete"
    <2>1. \A q : AppliedTo(q, m) = [r \in DOMAIN q \ {m.row} |-> q[r]]
      BY <1>3 DEF AppliedTo
    <2>2. /\ AppliedTo(A, msg) = [i \in DOMAIN A |-> IF i = msg.row THEN Up(A[i], msg) ELSE A[i]]
          /\ B = [i \in DOMAIN rows |-> IF i = msg.row THEN Up(rows[i], msg) ELSE rows[i]]
      BY <1>2
    <2>3. A = [r \in DOMAIN rows \ {m.row} |-> rows[r]]
      BY <2>1
    <2>4. AppliedTo(B, m) = [r \in DOMAIN B \ {m.row} |-> B[r]]
      BY <2>1
    <2> HIDE DEF Up, A, B
    <2>5. AppliedTo(A, msg) = AppliedTo(B, m)
      BY <2>2, <2>3, <2>4
    <2> QED
      BY <2>5 DEF A, B
  <1>4. CASE m.op = "insert"
    <2>1. \A q : AppliedTo(q, m) = [r \in DOMAIN q \cup {m.row} |-> IF r = m.row THEN m.value ELSE q[r]]
      BY <1>4 DEF AppliedTo
    <2>2. /\ AppliedTo(A, msg) = [i \in DOMAIN A |-> IF i = msg.row THEN Up(A[i], msg) ELSE A[i]]
          /\ B = [i \in DOMAIN rows |-> IF i = msg.row THEN Up(rows[i], msg) ELSE rows[i]]
      BY <1>2
    <2>3. A = [r \in DOMAIN rows \cup {m.row} |-> IF r = m.row THEN m.value ELSE rows[r]]
      BY <2>1
    <2>4. AppliedTo(B, m) = [r \in DOMAIN B \cup {m.row} |-> IF r = m.row THEN m.value ELSE B[r]]
      BY <2>1
    <2> HIDE DEF Up, A, B
    <2>5. AppliedTo(A, msg) = AppliedTo(B, m)
      BY <2>2, <2>3, <2>4
    <2> QED
      BY <2>5 DEF A, B
  <1>5. CASE m.op = "update"
    <2>1. ASSUME NEW q PROVE AppliedTo(q, m) = [i \in DOMAIN q |-> IF i = m.row THEN Up(q[i], m) ELSE q[i]]
      BY <1>5 DEF AppliedTo
    <2>2. /\ AppliedTo(A, msg) = [i \in DOMAIN A |-> IF i = msg.row THEN Up(A[i], msg) ELSE A[i]]
          /\ B = [i \in DOMAIN rows |-> IF i = msg.row THEN Up(rows[i], msg) ELSE rows[i]]
      BY <1>2
    <2>3. A = [i \in DOMAIN rows |-> IF i = m.row THEN Up(rows[i], m) ELSE rows[i]]
      BY <2>1
    <2>4. AppliedTo(B, m) = [i \in DOMAIN B |-> IF i = m.row THEN Up(B[i], m) ELSE B[i]]
      BY <2>1
    <2> HIDE DEF Up, A, B
    <2>5. AppliedTo(A, msg) = AppliedTo(B, m)
      BY <2>2, <2>3, <2>4
    <2> QED
      BY <2>5 DEF A, B
  <1> QED
    BY <1>3, <1>4, <1>5 DEF Said, Messages, ShapeOps

LEMMA FoldedDoesBoth ==
  ASSUME NEW rows \in RowSets, NEW m \in Said, NEW msg \in Said, msg.op = "update", m.row = msg.row, m.op # "delete"
  PROVE  AppliedTo(rows, FoldedInto(m, msg)) = AppliedTo(AppliedTo(rows, m), msg)
  <1> DEFINE Up(row, v) == [c \in DOMAIN row |-> IF c \in DOMAIN v THEN v[c] ELSE row[c]]
             both == [c \in DOMAIN m.value \cup DOMAIN msg.value |->
                         IF c \in DOMAIN msg.value THEN msg.value[c] ELSE m.value[c]]
             f == FoldedInto(m, msg)
             A == AppliedTo(rows, m)
  <1>1. PICK S \in SUBSET LevelRows : rows \in [S -> [Columns -> Values]]
    BY DEF RowSets
  <1>2. ASSUME NEW q PROVE AppliedTo(q, msg) = [i \in DOMAIN q |-> IF i = msg.row THEN Up(q[i], msg.value) ELSE q[i]]
    BY DEF AppliedTo
  <1>3. f.op = m.op /\ f.row = m.row /\ f.value = both
    BY DEF FoldedInto, Said, Messages
  <1>4. DOMAIN msg.value \subseteq Columns /\ m.op = "insert" => DOMAIN m.value = Columns
    BY DEF Said
  <1>5. CASE m.op = "insert"
    <2>1. AppliedTo(rows, f) = [r \in DOMAIN rows \cup {m.row} |-> IF r = m.row THEN both ELSE rows[r]]
      BY <1>3, <1>5 DEF AppliedTo
    <2>2. A = [r \in DOMAIN rows \cup {m.row} |-> IF r = m.row THEN m.value ELSE rows[r]]
      BY <1>5 DEF AppliedTo
    <2>3. DOMAIN msg.value \subseteq DOMAIN m.value
      <3>1. DOMAIN msg.value \subseteq Columns
        BY DEF Said, Messages
      <3> QED
        BY <3>1, <1>5 DEF Said
    <2>4. both = Up(m.value, msg.value)
      BY <2>3
    <2>5. AppliedTo(A, msg) = [i \in DOMAIN A |-> IF i = msg.row THEN Up(A[i], msg.value) ELSE A[i]]
      BY <1>2
    <2> HIDE DEF both, Up, f, A
    <2>6. AppliedTo(rows, f) = AppliedTo(A, msg)
      BY <2>1, <2>2, <2>4, <2>5
    <2> QED
      BY <2>6 DEF f, A
  <1>6. CASE m.op = "update"
    <2>1. AppliedTo(rows, f) = [i \in DOMAIN rows |-> IF i = m.row THEN Up(rows[i], both) ELSE rows[i]]
      BY <1>3, <1>6 DEF AppliedTo
    <2>2. A = [i \in DOMAIN rows |-> IF i = m.row THEN Up(rows[i], m.value) ELSE rows[i]]
      BY <1>6 DEF AppliedTo
    <2>3. ASSUME NEW v PROVE Up(v, both) = Up(Up(v, m.value), msg.value)
      OBVIOUS
    <2>4. AppliedTo(A, msg) = [i \in DOMAIN A |-> IF i = msg.row THEN Up(A[i], msg.value) ELSE A[i]]
      BY <1>2
    <2> HIDE DEF both, Up, f, A
    <2>5. AppliedTo(rows, f) = AppliedTo(A, msg)
      BY <2>1, <2>2, <2>3, <2>4
    <2> QED
      BY <2>5 DEF f, A
  <1> QED
    BY <1>5, <1>6 DEF Said, Messages, ShapeOps

LEMMA SubSeqOn ==
  ASSUME NEW E, NEW s \in Seq(E), NEW i \in Nat \ {0}, NEW k \in Nat, i <= k + 1, k + 1 <= Len(s)
  PROVE  /\ SubSeq(s, i, k) \in Seq(E) /\ s[k + 1] \in E
         /\ SubSeq(s, i, k + 1) = Append(SubSeq(s, i, k), s[k + 1])
  <1> DEFINE a == SubSeq(s, i, k + 1)  b == Append(SubSeq(s, i, k), s[k + 1])
  <1>1. s[k + 1] \in E /\ SubSeq(s, i, k) \in Seq(E) /\ Len(SubSeq(s, i, k)) = k + 1 - i
    OBVIOUS
  <1>2. Len(a) = k + 2 - i /\ Len(b) = k + 2 - i /\ a \in Seq(E) /\ b \in Seq(E)
    BY <1>1
  <1>3. ASSUME NEW j \in 1..(k + 2 - i) PROVE a[j] = b[j]
    <2>1. a[j] = s[i + j - 1]
      OBVIOUS
    <2>2. CASE j = k + 2 - i
      <3>1. b[j] = s[k + 1]
        BY <1>1, <2>2
      <3> QED
        BY <2>1, <2>2, <3>1
    <2>3. CASE j # k + 2 - i
      <3>1. j \in 1..(k + 1 - i)
        BY <2>3
      <3>2. b[j] = SubSeq(s, i, k)[j]
        BY <1>1, <3>1
      <3>3. SubSeq(s, i, k)[j] = s[i + j - 1]
        BY <3>1
      <3> QED
        BY <2>1, <3>2, <3>3
    <2> QED
      BY <2>2, <2>3
  <1> HIDE DEF a, b
  <1>4. a = b
    BY <1>2, <1>3
  <1> QED
    BY <1>1, <1>4 DEF a, b

LEMMA WholeIs ==
  ASSUME NEW E, NEW s \in Seq(E)
  PROVE  SubSeq(s, 1, Len(s)) = s /\ SubSeq(s, 1, 0) = << >> /\ Len(s) \in Nat /\ DOMAIN s = 1..Len(s)
  OBVIOUS

\* A held list with a value folded in at p.
FoldedAt(held, msg, p) == [i \in DOMAIN held |-> IF i = p THEN FoldedInto(held[i], msg) ELSE held[i]]

LEMMA FoldEither ==
  ASSUME NEW held \in HeldLists, NEW msg \in Said
  PROVE  \/ Fold(held, msg) = Append(held, msg) /\ (IsTransition(msg) \/ LatestOf(held, msg.row) = {})
         \/ /\ ~IsTransition(msg) /\ msg.op = "update"
            /\ \E p \in DOMAIN held : /\ Fold(held, msg) = FoldedAt(held, msg, p)
                                      /\ held[p].row = msg.row /\ held[p].op # "delete"
                                      /\ \A j \in DOMAIN held : j > p => held[j].row # msg.row
  <1> DEFINE prior == LatestOf(held, msg.row)
  <1>1. CASE ~ (prior # {} /\ ~IsTransition(msg))
    BY <1>1 DEF Fold
  <1>2. CASE prior # {} /\ ~IsTransition(msg)
    <2>1. PICK p \in prior : TRUE
      BY <1>2
    <2>2. /\ p \in DOMAIN held /\ held[p].row = msg.row /\ held[p].op # "delete"
          /\ \A j \in DOMAIN held : held[j].row = msg.row => j <= p
      BY <2>1 DEF LatestOf
    <2>3. DOMAIN held \subseteq Nat
      BY DEF HeldLists
    <2>4. \A i \in prior : i = p
      BY <2>2, <2>3 DEF LatestOf
    <2>5. \A i \in DOMAIN held : i \in prior <=> i = p
      BY <2>1, <2>4
    <2>6. Fold(held, msg) = [i \in DOMAIN held |-> IF i \in prior THEN FoldedInto(held[i], msg) ELSE held[i]]
      BY <1>2 DEF Fold
    <2> HIDE DEF prior
    <2>7. Fold(held, msg) = FoldedAt(held, msg, p)
      BY <2>5, <2>6 DEF FoldedAt
    <2>8. msg.op = "update"
      BY <1>2 DEF IsTransition
    <2>9. \A j \in DOMAIN held : j > p => held[j].row # msg.row
      BY <2>2, <2>3
    <2> QED
      BY <1>2, <2>2, <2>7, <2>8, <2>9
  <1> QED
    BY <1>1, <1>2

LEMMA AppliedAlong ==
  ASSUME NEW rows \in RowSets, NEW s \in Seq(Said), NEW i \in Nat \ {0}, NEW k \in Nat, i <= k + 1, k + 1 <= Len(s)
  PROVE  /\ s[k + 1] \in Said
         /\ FoldLeft(AppliedTo, rows, SubSeq(s, i, k)) \in RowSets
         /\ FoldLeft(AppliedTo, rows, SubSeq(s, i, k + 1)) = AppliedTo(FoldLeft(AppliedTo, rows, SubSeq(s, i, k)), s[k + 1])
  <1>1. PICK q : q = SubSeq(s, i, k)
    OBVIOUS
  <1>2. q \in Seq(Said) /\ s[k + 1] \in Said /\ SubSeq(s, i, k + 1) = Append(q, s[k + 1])
    BY <1>1, SubSeqOn
  <1>3. /\ FoldLeft(AppliedTo, rows, q) \in RowSets
        /\ FoldLeft(AppliedTo, rows, Append(q, s[k + 1])) = AppliedTo(FoldLeft(AppliedTo, rows, q), s[k + 1])
    BY <1>2, AppliedOn
  <1> QED
    BY <1>1, <1>2, <1>3

LEMMA TellingAlong ==
  ASSUME NEW told \in ToldLists, NEW s \in Seq(Said), NEW i \in Nat \ {0}, NEW k \in Nat, i <= k + 1, k + 1 <= Len(s)
  PROVE  /\ s[k + 1] \in Said
         /\ FoldLeft(Telling, told, SubSeq(s, i, k)) \in ToldLists
         /\ FoldLeft(Telling, told, SubSeq(s, i, k + 1)) = Telling(FoldLeft(Telling, told, SubSeq(s, i, k)), s[k + 1])
  <1>1. PICK q : q = SubSeq(s, i, k)
    OBVIOUS
  <1>2. q \in Seq(Said) /\ s[k + 1] \in Said /\ SubSeq(s, i, k + 1) = Append(q, s[k + 1])
    BY <1>1, SubSeqOn
  <1>3. /\ FoldLeft(Telling, told, q) \in ToldLists
        /\ FoldLeft(Telling, told, Append(q, s[k + 1])) = Telling(FoldLeft(Telling, told, q), s[k + 1])
    BY <1>2, TellingOn
  <1> QED
    BY <1>1, <1>2, <1>3

LEMMA FoldsAlong ==
  ASSUME NEW held \in HeldLists, NEW s \in Seq(Said), NEW i \in Nat \ {0}, NEW k \in Nat, i <= k + 1, k + 1 <= Len(s)
  PROVE  /\ s[k + 1] \in Said
         /\ FoldLeft(Fold, held, SubSeq(s, i, k)) \in HeldLists
         /\ FoldLeft(Fold, held, SubSeq(s, i, k + 1)) = Fold(FoldLeft(Fold, held, SubSeq(s, i, k)), s[k + 1])
  <1>1. PICK q : q = SubSeq(s, i, k)
    OBVIOUS
  <1>2. q \in Seq(Said) /\ s[k + 1] \in Said /\ SubSeq(s, i, k + 1) = Append(q, s[k + 1])
    BY <1>1, SubSeqOn
  <1>3. /\ FoldLeft(Fold, held, q) \in HeldLists
        /\ FoldLeft(Fold, held, Append(q, s[k + 1])) = Fold(FoldLeft(Fold, held, q), s[k + 1])
    BY <1>2, FoldsOn
  <1> QED
    BY <1>1, <1>2, <1>3

LEMMA FoldKeepsRows ==
  ASSUME NEW rows \in RowSets, NEW held \in HeldLists, NEW msg \in Said
  PROVE  FoldLeft(AppliedTo, rows, Fold(held, msg)) = AppliedTo(FoldLeft(AppliedTo, rows, held), msg)
  <1>1. CASE Fold(held, msg) = Append(held, msg)
    BY <1>1, AppliedOn DEF HeldLists
  <1>2. ASSUME msg.op = "update", NEW p \in DOMAIN held, Fold(held, msg) = FoldedAt(held, msg, p),
               held[p].row = msg.row, held[p].op # "delete",
               \A j \in DOMAIN held : j > p => held[j].row # msg.row
        PROVE  FoldLeft(AppliedTo, rows, Fold(held, msg)) = AppliedTo(FoldLeft(AppliedTo, rows, held), msg)
    <2> DEFINE n == Len(held)
               new == Fold(held, msg)
               A(i) == FoldLeft(AppliedTo, rows, SubSeq(held, 1, i))
               N(i) == FoldLeft(AppliedTo, rows, SubSeq(new, 1, i))
               T == {i \in 0..n : (i < p => N(i) = A(i)) /\ (i >= p => N(i) = AppliedTo(A(i), msg))}
    <2>1. held \in Seq(Said) /\ new \in Seq(Said)
      BY FoldInHeld DEF HeldLists
    <2>2. Len(new) = n /\ n \in Nat /\ DOMAIN held = 1..n /\ p \in 1..n
      BY <1>2, <2>1 DEF FoldedAt
    <2>3. \A i \in 1..n : new[i] = IF i = p THEN FoldedInto(held[i], msg) ELSE held[i]
      BY <1>2, <2>2 DEF FoldedAt
    <2>4. ASSUME NEW s \in Seq(Said), NEW k \in 0..(Len(s) - 1)
          PROVE  /\ s[k + 1] \in Said
                 /\ FoldLeft(AppliedTo, rows, SubSeq(s, 1, k)) \in RowSets
                 /\ FoldLeft(AppliedTo, rows, SubSeq(s, 1, k + 1)) =
                       AppliedTo(FoldLeft(AppliedTo, rows, SubSeq(s, 1, k)), s[k + 1])
      <3>1. k \in Nat /\ 1 \in Nat \ {0} /\ 1 <= k + 1 /\ k + 1 <= Len(s)
        OBVIOUS
      <3> QED
        BY <3>1, AppliedAlong
    <2>5. A(0) = rows /\ N(0) = rows
      BY <2>1, WholeIs, AppliedNone
    <2>6. A(n) = FoldLeft(AppliedTo, rows, held) /\ N(n) = FoldLeft(AppliedTo, rows, new)
      BY <2>1, <2>2, WholeIs
    <2>7. 0 \in T
      <3>1. 0 \in 0..n /\ ~ (0 >= p)
        BY <2>2
      <3> HIDE DEF A, N
      <3>2. N(0) = A(0)
        BY <2>5
      <3> QED
        BY <3>1, <3>2
    <2>8. ASSUME NEW k \in 0..(n - 1), k \in T PROVE k + 1 \in T
      <3>1. /\ A(k) \in RowSets /\ A(k + 1) = AppliedTo(A(k), held[k + 1])
            /\ N(k) \in RowSets /\ N(k + 1) = AppliedTo(N(k), new[k + 1]) /\ held[k + 1] \in Said
        BY <2>1, <2>2, <2>4
      <3>2. k \in Nat /\ k + 1 \in 1..n /\ k + 1 \in 0..n /\ p \in Nat
        BY <2>2
      <3>3. /\ k < p => N(k) = A(k)
            /\ k >= p => N(k) = AppliedTo(A(k), msg)
        BY <2>8
      <3> HIDE DEF A, N, T, new, n
      <3>4. CASE k + 1 < p
        <4>1. N(k + 1) = A(k + 1)
          BY <3>1, <3>2, <3>3, <3>4, <2>3
        <4> QED
          BY <4>1, <3>2, <3>4 DEF T
      <3>5. CASE k + 1 = p
        <4>1. N(k) = A(k) /\ new[k + 1] = FoldedInto(held[k + 1], msg)
          BY <3>2, <3>3, <3>5, <2>3
        <4>2. AppliedTo(A(k), FoldedInto(held[k + 1], msg)) = AppliedTo(AppliedTo(A(k), held[k + 1]), msg)
          BY <3>1, <3>5, <1>2, FoldedDoesBoth
        <4>3. N(k + 1) = AppliedTo(A(k + 1), msg)
          BY <3>1, <4>1, <4>2
        <4> QED
          BY <4>3, <3>2, <3>5 DEF T
      <3>6. CASE k + 1 > p
        <4>1. N(k) = AppliedTo(A(k), msg) /\ new[k + 1] = held[k + 1] /\ held[k + 1].row # msg.row
          BY <3>2, <3>3, <3>6, <2>2, <2>3, <1>2
        <4>2. AppliedTo(AppliedTo(A(k), held[k + 1]), msg) = AppliedTo(AppliedTo(A(k), msg), held[k + 1])
          BY <3>1, <4>1, <1>2, OthersCommute
        <4>3. N(k + 1) = AppliedTo(A(k + 1), msg)
          BY <3>1, <4>1, <4>2
        <4> QED
          BY <4>3, <3>2, <3>6 DEF T
      <3> QED
        BY <3>2, <3>4, <3>5, <3>6
    <2> HIDE DEF T
    <2>9. 0..n \subseteq T
      BY <2>2, <2>7, <2>8, UpTo
    <2>10. n \in T /\ n >= p
      BY <2>2, <2>9
    <2>11. N(n) = AppliedTo(A(n), msg)
      BY <2>10 DEF T
    <2> QED
      BY <2>6, <2>11
  <1> QED
    BY <1>1, <1>2, FoldEither

LEMMA FoldKeepsTold ==
  ASSUME NEW told \in ToldLists, NEW held \in HeldLists, NEW msg \in Said
  PROVE  FoldLeft(Telling, told, Fold(held, msg)) = Telling(FoldLeft(Telling, told, held), msg)
  <1>1. CASE Fold(held, msg) = Append(held, msg)
    BY <1>1, TellingOn DEF HeldLists
  <1>2. ASSUME ~IsTransition(msg), msg.op = "update", NEW p \in DOMAIN held, Fold(held, msg) = FoldedAt(held, msg, p),
               held[p].row = msg.row, held[p].op # "delete",
               \A j \in DOMAIN held : j > p => held[j].row # msg.row
        PROVE  FoldLeft(Telling, told, Fold(held, msg)) = Telling(FoldLeft(Telling, told, held), msg)
    <2> DEFINE n == Len(held)
               new == Fold(held, msg)
               A(i) == FoldLeft(Telling, told, SubSeq(held, 1, i))
               N(i) == FoldLeft(Telling, told, SubSeq(new, 1, i))
               T == {i \in 0..n : N(i) = A(i)}
    <2>1. held \in Seq(Said) /\ new \in Seq(Said)
      BY FoldInHeld DEF HeldLists
    <2>2. Len(new) = n /\ n \in Nat /\ DOMAIN held = 1..n /\ p \in 1..n
      BY <1>2, <2>1 DEF FoldedAt
    <2>3. \A i \in 1..n : new[i] = IF i = p THEN FoldedInto(held[i], msg) ELSE held[i]
      BY <1>2, <2>2 DEF FoldedAt
    <2>4. ASSUME NEW s \in Seq(Said), NEW k \in 0..(Len(s) - 1)
          PROVE  /\ s[k + 1] \in Said
                 /\ FoldLeft(Telling, told, SubSeq(s, 1, k)) \in ToldLists
                 /\ FoldLeft(Telling, told, SubSeq(s, 1, k + 1)) =
                       Telling(FoldLeft(Telling, told, SubSeq(s, 1, k)), s[k + 1])
      <3>1. k \in Nat /\ 1 \in Nat \ {0} /\ 1 <= k + 1 /\ k + 1 <= Len(s)
        OBVIOUS
      <3> QED
        BY <3>1, TellingAlong
    <2>5. A(0) = told /\ N(0) = told
      BY <2>1, WholeIs, TellingNone
    <2>6. A(n) = FoldLeft(Telling, told, held) /\ N(n) = FoldLeft(Telling, told, new)
      BY <2>1, <2>2, WholeIs
    <2>7. 0 \in T
      BY <2>2, <2>5
    <2>8. ASSUME NEW k \in 0..(n - 1), k \in T PROVE k + 1 \in T
      <3>1. /\ A(k) \in ToldLists /\ A(k + 1) = Telling(A(k), held[k + 1])
            /\ N(k) \in ToldLists /\ N(k + 1) = Telling(N(k), new[k + 1]) /\ held[k + 1] \in Said
        BY <2>1, <2>2, <2>4
      <3>2. k \in Nat /\ k + 1 \in 1..n /\ k + 1 \in 0..n /\ p \in Nat
        BY <2>2
      <3>3. N(k) = A(k)
        BY <2>8
      <3> HIDE DEF A, N, T, new, n
      <3>4. Telling(A(k), new[k + 1]) = Telling(A(k), held[k + 1])
        <4>1. CASE k + 1 = p
          <5>1. new[k + 1] = FoldedInto(held[k + 1], msg)
            BY <3>2, <4>1, <2>3
          <5>2. DOMAIN FoldedInto(held[k + 1], msg).value = DOMAIN held[k + 1].value \cup DOMAIN msg.value
            BY <3>1 DEF FoldedInto, Said, Messages
          <5>3. /\ FoldedInto(held[k + 1], msg).op = held[k + 1].op
                /\ FoldedInto(held[k + 1], msg).at = held[k + 1].at
            BY <3>1 DEF FoldedInto, Said, Messages
          <5>4. "band" \notin DOMAIN msg.value
            BY <1>2 DEF IsTransition
          <5> QED
            BY <5>1, <5>2, <5>3, <5>4 DEF Telling, IsTransition
        <4>2. CASE k + 1 # p
          BY <4>2, <3>2, <2>3
        <4> QED
          BY <4>1, <4>2
      <3>5. N(k + 1) = A(k + 1)
        BY <3>1, <3>3, <3>4
      <3> QED
        BY <3>2, <3>5 DEF T
    <2> HIDE DEF T
    <2>9. 0..n \subseteq T
      BY <2>2, <2>7, <2>8, UpTo
    <2>10. n \in T
      BY <2>2, <2>9
    <2>11. N(n) = A(n)
      BY <2>10 DEF T
    <2>12. Telling(A(n), msg) = A(n)
      BY <1>2 DEF Telling
    <2> QED
      BY <2>6, <2>11, <2>12
  <1> QED
    BY <1>1, <1>2, FoldEither

LEMMA AppliedIn ==
  ASSUME NEW rows \in RowSets, NEW s \in Seq(Said)
  PROVE  FoldLeft(AppliedTo, rows, s) \in RowSets
  <1> DEFINE o == [p \in RowSets \X Said |-> AppliedTo(p[1], p[2])]
             v == FoldLeft(AppliedTo, rows, s)
  <1>1. Leads(RowSets, o, rows, s, v)
    BY AppliedLeads
  <1> HIDE DEF o, v
  <1>2. v \in RowSets
    BY <1>1 DEF Leads
  <1> QED
    BY <1>2 DEF v

\* A fold along a part of the log, and on along the next.
LEMMA AppliedSplit ==
  ASSUME NEW rows \in RowSets, NEW s \in Seq(Said), NEW i \in Nat \ {0}, NEW m \in Nat, i <= m + 1,
         NEW n \in Nat, m <= n, n <= Len(s)
  PROVE  FoldLeft(AppliedTo, FoldLeft(AppliedTo, rows, SubSeq(s, i, m)), SubSeq(s, m + 1, n)) = FoldLeft(AppliedTo, rows, SubSeq(s, i, n))
  <1>1. SubSeq(s, i, m) \in Seq(Said)
    OBVIOUS
  <1>2. PICK c : c = FoldLeft(AppliedTo, rows, SubSeq(s, i, m))
    OBVIOUS
  <1>3. c \in RowSets
    BY <1>1, <1>2, AppliedIn
  <1> DEFINE T == {k \in 0..(n - m) : FoldLeft(AppliedTo, c, SubSeq(s, m + 1, m + k)) = FoldLeft(AppliedTo, rows, SubSeq(s, i, m + k))}
  <1>4. 0 \in T
    <2>1. SubSeq(s, m + 1, m + 0) = << >> /\ m + 0 = m /\ 0 \in 0..(n - m)
      OBVIOUS
    <2>2. FoldLeft(AppliedTo, c, << >>) = c
      BY <1>3, AppliedNone
    <2> QED
      BY <2>1, <2>2, <1>2
  <1>5. ASSUME NEW k \in 0..(n - m - 1), k \in T PROVE k + 1 \in T
    <2>1. PICK j : j = m + k
      OBVIOUS
    <2>2. /\ j \in Nat /\ m + 1 \in Nat \ {0} /\ m + 1 <= j + 1 /\ j + 1 <= Len(s) /\ i <= j + 1
          /\ m + (k + 1) = j + 1 /\ k + 1 \in 0..(n - m)
      BY <2>1
    <2>3. FoldLeft(AppliedTo, c, SubSeq(s, m + 1, j + 1)) = AppliedTo(FoldLeft(AppliedTo, c, SubSeq(s, m + 1, j)), s[j + 1])
      BY <1>3, <2>2, AppliedAlong
    <2>4. FoldLeft(AppliedTo, rows, SubSeq(s, i, j + 1)) = AppliedTo(FoldLeft(AppliedTo, rows, SubSeq(s, i, j)), s[j + 1])
      BY <2>2, AppliedAlong
    <2>5. FoldLeft(AppliedTo, c, SubSeq(s, m + 1, j)) = FoldLeft(AppliedTo, rows, SubSeq(s, i, j))
      BY <1>5, <2>1
    <2> QED
      BY <2>2, <2>3, <2>4, <2>5
  <1> HIDE DEF T
  <1>6. n - m \in Nat /\ n - m \in 0..(n - m) /\ m + (n - m) = n
    OBVIOUS
  <1>7. 0..(n - m) \subseteq T
    BY <1>4, <1>5, <1>6, UpTo
  <1>8. n - m \in T
    BY <1>6, <1>7
  <1> QED
    BY <1>2, <1>6, <1>8 DEF T


LEMMA TellingIn ==
  ASSUME NEW told \in ToldLists, NEW s \in Seq(Said)
  PROVE  FoldLeft(Telling, told, s) \in ToldLists
  <1> DEFINE o == [p \in ToldLists \X Said |-> Telling(p[1], p[2])]
             v == FoldLeft(Telling, told, s)
  <1>1. Leads(ToldLists, o, told, s, v)
    BY TellingLeads
  <1> HIDE DEF o, v
  <1>2. v \in ToldLists
    BY <1>1 DEF Leads
  <1> QED
    BY <1>2 DEF v

\* A fold along a part of the log, and on along the next.
LEMMA TellingSplit ==
  ASSUME NEW told \in ToldLists, NEW s \in Seq(Said), NEW i \in Nat \ {0}, NEW m \in Nat, i <= m + 1,
         NEW n \in Nat, m <= n, n <= Len(s)
  PROVE  FoldLeft(Telling, FoldLeft(Telling, told, SubSeq(s, i, m)), SubSeq(s, m + 1, n)) = FoldLeft(Telling, told, SubSeq(s, i, n))
  <1>1. SubSeq(s, i, m) \in Seq(Said)
    OBVIOUS
  <1>2. PICK c : c = FoldLeft(Telling, told, SubSeq(s, i, m))
    OBVIOUS
  <1>3. c \in ToldLists
    BY <1>1, <1>2, TellingIn
  <1> DEFINE T == {k \in 0..(n - m) : FoldLeft(Telling, c, SubSeq(s, m + 1, m + k)) = FoldLeft(Telling, told, SubSeq(s, i, m + k))}
  <1>4. 0 \in T
    <2>1. SubSeq(s, m + 1, m + 0) = << >> /\ m + 0 = m /\ 0 \in 0..(n - m)
      OBVIOUS
    <2>2. FoldLeft(Telling, c, << >>) = c
      BY <1>3, TellingNone
    <2> QED
      BY <2>1, <2>2, <1>2
  <1>5. ASSUME NEW k \in 0..(n - m - 1), k \in T PROVE k + 1 \in T
    <2>1. PICK j : j = m + k
      OBVIOUS
    <2>2. /\ j \in Nat /\ m + 1 \in Nat \ {0} /\ m + 1 <= j + 1 /\ j + 1 <= Len(s) /\ i <= j + 1
          /\ m + (k + 1) = j + 1 /\ k + 1 \in 0..(n - m)
      BY <2>1
    <2>3. FoldLeft(Telling, c, SubSeq(s, m + 1, j + 1)) = Telling(FoldLeft(Telling, c, SubSeq(s, m + 1, j)), s[j + 1])
      BY <1>3, <2>2, TellingAlong
    <2>4. FoldLeft(Telling, told, SubSeq(s, i, j + 1)) = Telling(FoldLeft(Telling, told, SubSeq(s, i, j)), s[j + 1])
      BY <2>2, TellingAlong
    <2>5. FoldLeft(Telling, c, SubSeq(s, m + 1, j)) = FoldLeft(Telling, told, SubSeq(s, i, j))
      BY <1>5, <2>1
    <2> QED
      BY <2>2, <2>3, <2>4, <2>5
  <1> HIDE DEF T
  <1>6. n - m \in Nat /\ n - m \in 0..(n - m) /\ m + (n - m) = n
    OBVIOUS
  <1>7. 0..(n - m) \subseteq T
    BY <1>4, <1>5, <1>6, UpTo
  <1>8. n - m \in T
    BY <1>6, <1>7
  <1> QED
    BY <1>2, <1>6, <1>8 DEF T


LEMMA FoldsIn ==
  ASSUME NEW held \in HeldLists, NEW s \in Seq(Said)
  PROVE  FoldLeft(Fold, held, s) \in HeldLists
  <1> DEFINE o == [p \in HeldLists \X Said |-> Fold(p[1], p[2])]
             v == FoldLeft(Fold, held, s)
  <1>1. Leads(HeldLists, o, held, s, v)
    BY FoldsLeads
  <1> HIDE DEF o, v
  <1>2. v \in HeldLists
    BY <1>1 DEF Leads
  <1> QED
    BY <1>2 DEF v

\* What a poll brings makes of the held list, and what an answer with it then says.
Brings(rows, told, held, batch) ==
    /\ FoldLeft(AppliedTo, rows, FoldLeft(Fold, held, batch)) = FoldLeft(AppliedTo, FoldLeft(AppliedTo, rows, held), batch)
    /\ FoldLeft(Telling, told, FoldLeft(Fold, held, batch)) = FoldLeft(Telling, FoldLeft(Telling, told, held), batch)

Quiet(held) ==
    /\ \A i \in DOMAIN held : ~IsTransition(held[i])
    /\ \A i, j \in DOMAIN held : held[i].row = held[j].row => i = j

LEMMA NewestHeld ==
  ASSUME NEW held \in HeldLists, NEW i \in DOMAIN held, Quiet(held)
  PROVE  LatestOf(held, held[i].row) # {}
  <1>1. \A j \in DOMAIN held : held[j].row = held[i].row => j = i
    BY DEF Quiet
  <1>2. held[i].op = "update" /\ i \in Nat
    BY DEF Quiet, IsTransition, HeldLists
  <1>3. i \in LatestOf(held, held[i].row)
    BY <1>1, <1>2 DEF LatestOf
  <1> QED
    BY <1>3

LEMMA FoldStaysQuiet ==
  ASSUME NEW held \in HeldLists, NEW msg \in Said, Quiet(held), ~IsTransition(msg)
  PROVE  Quiet(Fold(held, msg))
  <1>1. ASSUME Fold(held, msg) = Append(held, msg), LatestOf(held, msg.row) = {}
        PROVE  Quiet(Fold(held, msg))
    <2>1. \A i \in DOMAIN held : held[i].row # msg.row
      BY <1>1, NewestHeld
    <2>2. /\ Len(held) \in Nat /\ DOMAIN held = 1..Len(held) /\ DOMAIN Append(held, msg) = 1..(Len(held) + 1)
          /\ \A i \in 1..Len(held) : Append(held, msg)[i] = held[i]
          /\ Append(held, msg)[Len(held) + 1] = msg
      BY DEF HeldLists
    <2>3. \A i \in 1..(Len(held) + 1) : i = Len(held) + 1 \/ i \in 1..Len(held)
      BY <2>2
    <2> QED
      BY <1>1, <2>1, <2>2, <2>3 DEF Quiet
  <1>2. ASSUME NEW p \in DOMAIN held, Fold(held, msg) = FoldedAt(held, msg, p)
        PROVE  Quiet(Fold(held, msg))
    <2>1. ASSUME NEW i \in DOMAIN held
          PROVE  FoldedAt(held, msg, p)[i].row = held[i].row /\ ~IsTransition(FoldedAt(held, msg, p)[i])
      <3>1. held[i] \in Said
        BY DEF HeldLists
      <3>2. CASE i = p
        <4>1. FoldedAt(held, msg, p)[i] = FoldedInto(held[i], msg)
          BY <3>2 DEF FoldedAt
        <4>2. /\ FoldedInto(held[i], msg).op = held[i].op /\ FoldedInto(held[i], msg).row = held[i].row
              /\ DOMAIN FoldedInto(held[i], msg).value = DOMAIN held[i].value \cup DOMAIN msg.value
          BY <3>1 DEF FoldedInto, Said, Messages
        <4> QED
          BY <4>1, <4>2 DEF Quiet, IsTransition
      <3>3. CASE i # p
        BY <3>3 DEF FoldedAt, Quiet
      <3> QED
        BY <3>2, <3>3
    <2>2. DOMAIN FoldedAt(held, msg, p) = DOMAIN held
      BY DEF FoldedAt
    <2> QED
      BY <1>2, <2>1, <2>2 DEF Quiet
  <1> QED
    BY <1>1, <1>2, FoldEither

LEMMA BatchFolds ==
  ASSUME NEW rows \in RowSets, NEW told \in ToldLists, NEW held \in HeldLists, NEW batch \in Seq(Said)
  PROVE  /\ Brings(rows, told, held, batch)
         /\ Quiet(held) /\ (\A i \in DOMAIN batch : ~IsTransition(batch[i])) => Quiet(FoldLeft(Fold, held, batch))
  <1> DEFINE n == Len(batch)
             part(k) == SubSeq(batch, 1, k)
             F(k) == FoldLeft(Fold, held, part(k))
             quiet == Quiet(held) /\ \A i \in DOMAIN batch : ~IsTransition(batch[i])
             T == {k \in 0..n : Brings(rows, told, held, part(k)) /\ (quiet => Quiet(F(k)))}
  <1>1. PICK R : R = FoldLeft(AppliedTo, rows, held)
    OBVIOUS
  <1>2. PICK S : S = FoldLeft(Telling, told, held)
    OBVIOUS
  <1>3. R \in RowSets /\ S \in ToldLists
    BY <1>1, <1>2, AppliedIn, TellingIn DEF HeldLists
  <1>4. part(n) = batch /\ part(0) = << >> /\ n \in Nat /\ DOMAIN batch = 1..n
    BY WholeIs
  <1>5. 0 \in T
    <2>1. FoldLeft(Fold, held, << >>) = held
      BY FoldsNone
    <2>2. FoldLeft(AppliedTo, R, << >>) = R /\ FoldLeft(Telling, S, << >>) = S
      BY <1>3, AppliedNone, TellingNone
    <2>3. 0 \in 0..n
      BY <1>4
    <2> HIDE DEF n, part
    <2> QED
      BY <2>1, <2>2, <2>3, <1>1, <1>2, <1>4 DEF Brings
  <1>6. ASSUME NEW k \in 0..(n - 1), k \in T PROVE k + 1 \in T
    <2>1. k \in Nat /\ 1 \in Nat \ {0} /\ 1 <= k + 1 /\ k + 1 <= Len(batch) /\ k + 1 \in 0..n /\ k + 1 \in DOMAIN batch
      BY <1>4
    <2>2. batch[k + 1] \in Said /\ F(k) \in HeldLists /\ F(k + 1) = Fold(F(k), batch[k + 1])
      BY <2>1, FoldsAlong
    <2>3. FoldLeft(AppliedTo, R, part(k + 1)) = AppliedTo(FoldLeft(AppliedTo, R, part(k)), batch[k + 1])
      BY <2>1, <1>3, AppliedAlong
    <2>4. FoldLeft(Telling, S, part(k + 1)) = Telling(FoldLeft(Telling, S, part(k)), batch[k + 1])
      BY <2>1, <1>3, TellingAlong
    <2>5. PICK f : f = F(k)
      OBVIOUS
    <2>6. PICK g : g = F(k + 1)
      OBVIOUS
    <2>7. f \in HeldLists /\ g = Fold(f, batch[k + 1])
      BY <2>2, <2>5, <2>6
    <2>8. FoldLeft(AppliedTo, rows, g) = AppliedTo(FoldLeft(AppliedTo, rows, f), batch[k + 1])
      BY <2>7, <2>2, FoldKeepsRows
    <2>9. FoldLeft(Telling, told, g) = Telling(FoldLeft(Telling, told, f), batch[k + 1])
      BY <2>7, <2>2, FoldKeepsTold
    <2>10. /\ FoldLeft(AppliedTo, rows, f) = FoldLeft(AppliedTo, R, part(k))
           /\ FoldLeft(Telling, told, f) = FoldLeft(Telling, S, part(k))
           /\ quiet => Quiet(f)
      BY <1>6, <2>5, <1>1, <1>2 DEF Brings
    <2>11. Brings(rows, told, held, part(k + 1))
      BY <2>3, <2>4, <2>6, <2>8, <2>9, <2>10, <1>1, <1>2 DEF Brings
    <2>12. quiet => Quiet(g)
      BY <2>1, <2>2, <2>7, <2>10, FoldStaysQuiet
    <2> QED
      BY <2>1, <2>6, <2>11, <2>12
  <1> HIDE DEF T
  <1>7. 0..n \subseteq T
    BY <1>4, <1>5, <1>6, UpTo
  <1>8. n \in T
    BY <1>4, <1>7
  <1> QED
    BY <1>4, <1>8 DEF T

-----------------------------------------------------------------------------
(* The inductive invariant. *)

ToldAt(n) == FoldLeft(Telling, << >>, SubSeq(swLog, swSince + 1, n))

\* Types; an insert of the log says every column.
WindowTypes ==
    /\ swLog \in Seq(Said) /\ Len(swLog) <= MaxShapeLog
    /\ swPhase \in {"none", "polling", "answered", "refetch"} /\ swControl \in BOOLEAN
    /\ swCur \in 0..Len(swLog) /\ swHeld \in HeldLists /\ swRows \in RowSets
    /\ swOffset \in 0..Len(swLog) /\ swSince \in 0..swOffset /\ swTold \in ToldLists

\* The client has been told what there was between its offsets.
ToldIsAll == swTold = ToldAt(swOffset)

\* What is held, put on what the client has, makes the rows and the transitions of
\* the offset that is polled from.
HeldIsTheRest ==
    swPhase \in {"polling", "answered"} =>
        /\ swOffset <= swCur
        /\ FoldLeft(AppliedTo, swRows, swHeld) = RowsAt(swCur)
        /\ FoldLeft(Telling, swTold, swHeld) = ToldAt(swCur)

HeldIsQuiet == swPhase = "polling" => Quiet(swHeld)

WindowInv == WindowTypes /\ RowsAreTheShapes /\ ToldIsAll /\ HeldIsTheRest /\ HeldIsQuiet

LEMMA FirstRowsAreRows == RowsAtFirst \in RowSets
  <1>1. RowsAtFirst \in [FirstRows -> [Columns -> Values]] /\ FirstRows \in SUBSET LevelRows
    BY WindowAssumption DEF RowsAtFirst, Values
  <1> QED
    BY <1>1 DEF RowSets

LEMMA WindowStarts == WindowInit => WindowInv
  <1> SUFFICES ASSUME WindowInit PROVE WindowInv
    OBVIOUS
  <1> USE DEF WindowInit
  <1>1. WindowTypes
    <2>1. << >> \in Seq(Said) /\ << >> \in Seq(1..MaxShapeLog) /\ Len(<< >>) = 0 /\ 0 \in 0..0 /\ 0 <= MaxShapeLog
      BY WindowAssumption
    <2> QED
      BY <2>1, FirstRowsAreRows DEF WindowTypes, HeldLists, ToldLists
  <1>2. SubSeq(swLog, 1, 0) = << >> /\ SubSeq(swLog, swSince + 1, 0) = << >>
    OBVIOUS
  <1>3. RowsAreTheShapes
    BY <1>2, FirstRowsAreRows, AppliedNone DEF RowsAreTheShapes, RowsAt
  <1>4. << >> \in ToldLists
    BY DEF ToldLists
  <1>5. FoldLeft(Telling, << >>, << >>) = << >>
    BY <1>4, TellingNone
  <1>6. ToldIsAll
    BY <1>2, <1>5 DEF ToldIsAll, ToldAt
  <1> QED
    BY <1>1, <1>3, <1>6 DEF WindowInv, HeldIsTheRest, HeldIsQuiet

LEMMA LogGrows ==
  ASSUME NEW log \in Seq(Said), NEW m \in Said, NEW i \in Nat \ {0}, NEW n \in 0..Len(log)
  PROVE  SubSeq(Append(log, m), i, n) = SubSeq(log, i, n)
  <1> DEFINE a == SubSeq(Append(log, m), i, n)  b == SubSeq(log, i, n)
  <1>1. Append(log, m) \in Seq(Said) /\ Len(Append(log, m)) = Len(log) + 1 /\ Len(log) \in Nat
    OBVIOUS
  <1>2. \A j \in 1..Len(log) : Append(log, m)[j] = log[j]
    OBVIOUS
  <1> QED
    BY <1>1, <1>2

LEMMA RowChangesKeeps ==
  ASSUME WindowInv, NEW r \in LevelRows, RowChanges(r)
  PROVE  WindowInv'
  <1> DEFINE n == Len(swLog) + 1
             Says(op, cs) == [op |-> op, row |-> r, value |-> [c \in cs |-> n], at |-> n]
  <1>1. PICK op \in ShapeOps, cs \in SUBSET Columns :
           (op = "insert" => cs = Columns) /\ swLog' = Append(swLog, Says(op, cs))
    BY DEF RowChanges, ShapeOps
  <1>2. n \in Values /\ n <= MaxShapeLog /\ Len(swLog) \in Nat /\ swLog \in Seq(Said)
    BY WindowAssumption DEF RowChanges, Values, WindowInv, WindowTypes
  <1>3. PICK m : m = Says(op, cs)
    OBVIOUS
  <1>4. m \in Said
    <2>1. [c \in cs |-> n] \in UNION {[ds -> Values] : ds \in SUBSET Columns}
      BY <1>2
    <2>2. m \in Messages
      BY <1>2, <1>3, <2>1 DEF Messages, Values
    <2> QED
      BY <2>2, <1>1, <1>3 DEF Said
  <1>5. swLog' = Append(swLog, m) /\ Len(swLog') = Len(swLog) + 1 /\ swLog' \in Seq(Said)
    BY <1>1, <1>2, <1>3, <1>4
  <1>6. UNCHANGED <<readVars, clientVars>>
    BY DEF RowChanges
  <1>7. WindowTypes'
    BY <1>2, <1>5, <1>6 DEF WindowInv, WindowTypes, readVars, clientVars
  <1>8. ASSUME NEW k \in 0..Len(swLog), NEW i \in Nat \ {0} PROVE SubSeq(swLog', i, k) = SubSeq(swLog, i, k)
    BY <1>2, <1>4, <1>5, LogGrows
  <1>9. ASSUME NEW k \in 0..Len(swLog) PROVE RowsAt(k)' = RowsAt(k) /\ ToldAt(k)' = ToldAt(k)
    <2>1. swSince + 1 \in Nat \ {0} /\ swSince' = swSince
      BY <1>6 DEF WindowInv, WindowTypes, clientVars
    <2>2. SubSeq(swLog', 1, k) = SubSeq(swLog, 1, k)
      BY <1>8
    <2>3. SubSeq(swLog', swSince + 1, k) = SubSeq(swLog, swSince + 1, k)
      <3>1. PICK i \in Nat \ {0} : i = swSince + 1
        BY <2>1
      <3>2. SubSeq(swLog', i, k) = SubSeq(swLog, i, k)
        BY <1>8
      <3> QED
        BY <3>1, <3>2
    <2>4. RowsAt(k)' = RowsAt(k)
      BY <2>2 DEF RowsAt
    <2>5. ToldAt(k)' = ToldAt(k)
      BY <2>1, <2>3 DEF ToldAt
    <2> QED
      BY <2>4, <2>5
  <1>10. swOffset \in 0..Len(swLog) /\ swCur \in 0..Len(swLog)
    BY DEF WindowInv, WindowTypes
  <1>11. RowsAreTheShapes' /\ ToldIsAll'
    BY <1>6, <1>9, <1>10 DEF WindowInv, RowsAreTheShapes, ToldIsAll, clientVars, RowsAt, ToldAt
  <1>12. HeldIsTheRest'
    BY <1>6, <1>9, <1>10 DEF WindowInv, HeldIsTheRest, clientVars, readVars, RowsAt, ToldAt
  <1> QED
    BY <1>6, <1>7, <1>11, <1>12 DEF WindowInv, HeldIsQuiet, readVars

LEMMA BeginReadKeeps ==
  ASSUME WindowInv, BeginRead
  PROVE  WindowInv'
  <1> USE DEF BeginRead, clientVars, WindowInv
  <1>1. WindowTypes'
    <2>1. << >> \in HeldLists
      BY DEF HeldLists
    <2> QED
      BY <2>1 DEF WindowTypes
  <1>2. RowsAreTheShapes' /\ ToldIsAll'
    BY DEF RowsAreTheShapes, ToldIsAll, RowsAt, ToldAt
  <1>3. swRows \in RowSets /\ swTold \in ToldLists /\ swOffset \in Nat
    BY DEF WindowTypes
  <1>4. FoldLeft(AppliedTo, swRows, << >>) = swRows /\ FoldLeft(Telling, swTold, << >>) = swTold
    BY <1>3, AppliedNone, TellingNone
  <1>5. HeldIsTheRest'
    BY <1>3, <1>4 DEF HeldIsTheRest, RowsAreTheShapes, ToldIsAll, RowsAt, ToldAt
  <1>6. HeldIsQuiet'
    BY DEF HeldIsQuiet, Quiet
  <1> QED
    BY <1>1, <1>2, <1>5, <1>6

\* What the log has from where is polled, put on what the client will have.
LEMMA LogOn ==
  ASSUME WindowInv, NEW m \in 0..Len(swLog), NEW n \in m..Len(swLog), swSince <= m
  PROVE  /\ SubSeq(swLog, m + 1, n) \in Seq(Said)
         /\ FoldLeft(AppliedTo, RowsAt(m), SubSeq(swLog, m + 1, n)) = RowsAt(n)
         /\ FoldLeft(Telling, ToldAt(m), SubSeq(swLog, m + 1, n)) = ToldAt(n)
  <1>1. swLog \in Seq(Said) /\ m \in Nat /\ n \in Nat /\ m <= n /\ n <= Len(swLog) /\ swSince \in Nat
    BY DEF WindowInv, WindowTypes
  <1>2. << >> \in ToldLists
    BY DEF ToldLists
  <1>3. FoldLeft(AppliedTo, FoldLeft(AppliedTo, RowsAtFirst, SubSeq(swLog, 1, m)), SubSeq(swLog, m + 1, n))
           = FoldLeft(AppliedTo, RowsAtFirst, SubSeq(swLog, 1, n))
    <2>1. 1 \in Nat \ {0} /\ 1 <= m + 1
      BY <1>1
    <2> QED
      BY <1>1, <2>1, FirstRowsAreRows, AppliedSplit
  <1>4. FoldLeft(Telling, FoldLeft(Telling, << >>, SubSeq(swLog, swSince + 1, m)), SubSeq(swLog, m + 1, n))
           = FoldLeft(Telling, << >>, SubSeq(swLog, swSince + 1, n))
    <2>1. swSince + 1 \in Nat \ {0} /\ swSince + 1 <= m + 1
      BY <1>1
    <2> QED
      BY <1>1, <1>2, <2>1, TellingSplit
  <1>5. SubSeq(swLog, m + 1, n) \in Seq(Said)
    BY <1>1
  <1> QED
    BY <1>3, <1>4, <1>5 DEF RowsAt, ToldAt

LEMMA PollBringsKeeps ==
  ASSUME WindowInv, PollBrings
  PROVE  WindowInv'
  <1>1. PICK n \in swCur..Len(swLog), control \in BOOLEAN :
           /\ swCur' = n /\ swControl' = control
           /\ swHeld' = FoldLeft(Fold, swHeld, SubSeq(swLog, swCur + 1, n))
           /\ \/ swPhase' = "answered"
              \/ /\ swPhase' = "polling"
                 /\ \A i \in DOMAIN SubSeq(swLog, swCur + 1, n) : ~IsTransition(SubSeq(swLog, swCur + 1, n)[i])
    BY DEF PollBrings
  <1>2. swPhase = "polling" /\ UNCHANGED <<swLog, clientVars>>
    BY DEF PollBrings
  <1>3. PICK batch : batch = SubSeq(swLog, swCur + 1, n)
    OBVIOUS
  <1>4. /\ swRows \in RowSets /\ swTold \in ToldLists /\ swHeld \in HeldLists /\ swLog \in Seq(Said)
        /\ swCur \in 0..Len(swLog) /\ swOffset \in 0..Len(swLog) /\ swSince \in 0..swOffset
    BY DEF WindowInv, WindowTypes
  <1>5. /\ swOffset <= swCur
        /\ FoldLeft(AppliedTo, swRows, swHeld) = RowsAt(swCur)
        /\ FoldLeft(Telling, swTold, swHeld) = ToldAt(swCur)
    BY <1>2 DEF WindowInv, HeldIsTheRest
  <1>6. /\ batch \in Seq(Said)
        /\ FoldLeft(AppliedTo, RowsAt(swCur), batch) = RowsAt(n)
        /\ FoldLeft(Telling, ToldAt(swCur), batch) = ToldAt(n)
    <2>1. swSince <= swCur
      BY <1>4, <1>5
    <2> QED
      BY <1>3, <1>4, <2>1, LogOn
  <1>7. swHeld' = FoldLeft(Fold, swHeld, batch) /\ swHeld' \in HeldLists
    BY <1>1, <1>3, <1>4, <1>6, FoldsIn
  <1>8. /\ Brings(swRows, swTold, swHeld, batch)
        /\ Quiet(swHeld) /\ (\A i \in DOMAIN batch : ~IsTransition(batch[i])) => Quiet(FoldLeft(Fold, swHeld, batch))
    BY <1>4, <1>6, BatchFolds
  <1>9. FoldLeft(AppliedTo, swRows, swHeld') = RowsAt(n) /\ FoldLeft(Telling, swTold, swHeld') = ToldAt(n)
    BY <1>5, <1>6, <1>7, <1>8 DEF Brings
  <1>10. n \in 0..Len(swLog) /\ swOffset <= n
    BY <1>4, <1>5
  <1>11. WindowTypes'
    BY <1>1, <1>2, <1>7, <1>10 DEF WindowInv, WindowTypes, clientVars
  <1>12. RowsAreTheShapes' /\ ToldIsAll'
    BY <1>2 DEF WindowInv, RowsAreTheShapes, ToldIsAll, RowsAt, ToldAt, clientVars
  <1>13. HeldIsTheRest'
    BY <1>1, <1>2, <1>9, <1>10 DEF HeldIsTheRest, RowsAt, ToldAt, clientVars
  <1>14. HeldIsQuiet'
    BY <1>1, <1>2, <1>3, <1>7, <1>8 DEF WindowInv, HeldIsQuiet
  <1> QED
    BY <1>11, <1>12, <1>13, <1>14 DEF WindowInv

LEMMA AnswerAppliedKeeps ==
  ASSUME WindowInv, AnswerApplied
  PROVE  WindowInv'
  <1> USE DEF AnswerApplied, Done, WindowInv
  <1>1. /\ swOffset <= swCur /\ swRows' = RowsAt(swCur) /\ swTold' = ToldAt(swCur)
    BY DEF HeldIsTheRest
  <1>2. /\ swCur \in 0..Len(swLog) /\ swSince \in 0..swOffset /\ swOffset \in 0..Len(swLog)
        /\ swRows \in RowSets /\ swTold \in ToldLists /\ swHeld \in Seq(Said)
    BY DEF WindowTypes, HeldLists
  <1>3. swRows' \in RowSets /\ swTold' \in ToldLists
    BY <1>2, AppliedIn, TellingIn
  <1>4. swSince \in 0..swCur
    BY <1>1, <1>2
  <1>5. WindowTypes'
    BY <1>2, <1>3, <1>4 DEF WindowTypes, HeldLists
  <1>6. RowsAreTheShapes' /\ ToldIsAll'
    BY <1>1 DEF RowsAreTheShapes, ToldIsAll, RowsAt, ToldAt
  <1> QED
    BY <1>5, <1>6 DEF HeldIsTheRest, HeldIsQuiet

LEMMA ReadsAnewKeeps ==
  ASSUME WindowInv, ReadsAnew
  PROVE  WindowInv'
  <1> USE DEF ReadsAnew, Done, WindowInv
  <1>1. swLog \in Seq(Said) /\ Len(swLog) \in Nat
    BY DEF WindowTypes
  <1>2. SubSeq(swLog, 1, Len(swLog)) \in Seq(Said) /\ SubSeq(swLog, Len(swLog) + 1, Len(swLog)) = << >>
    BY <1>1
  <1>3. RowsAt(Len(swLog)) \in RowSets
    BY <1>2, FirstRowsAreRows, AppliedIn DEF RowsAt
  <1>4. << >> \in ToldLists
    BY DEF ToldLists
  <1>5. FoldLeft(Telling, << >>, << >>) = << >>
    BY <1>4, TellingNone
  <1>6. WindowTypes'
    BY <1>1, <1>3, <1>4 DEF WindowTypes, HeldLists
  <1>7. RowsAreTheShapes' /\ ToldIsAll'
    BY <1>2, <1>5 DEF RowsAreTheShapes, ToldIsAll, RowsAt, ToldAt
  <1> QED
    BY <1>6, <1>7 DEF HeldIsTheRest, HeldIsQuiet

\* The steps that leave the client as it is.
LEMMA RestKeeps ==
  ASSUME WindowInv, PollTimesOut \/ PollFails \/ MustRefetch \/ AnswerLost
  PROVE  WindowInv'
  <1> USE DEF PollTimesOut, PollFails, MustRefetch, AnswerLost, Done, WindowInv, clientVars
  <1>1. WindowTypes'
    <2>1. << >> \in HeldLists
      BY DEF HeldLists
    <2> QED
      BY <2>1 DEF WindowTypes
  <1>2. RowsAreTheShapes' /\ ToldIsAll'
    BY DEF RowsAreTheShapes, ToldIsAll, RowsAt, ToldAt
  <1>3. HeldIsTheRest' /\ HeldIsQuiet'
    BY DEF HeldIsTheRest, HeldIsQuiet, RowsAt, ToldAt
  <1> QED
    BY <1>1, <1>2, <1>3

LEMMA WindowKeeps == WindowInv /\ [WindowNext]_windowVars => WindowInv'
  <1> SUFFICES ASSUME WindowInv, [WindowNext]_windowVars PROVE WindowInv'
    OBVIOUS
  <1>1. CASE UNCHANGED windowVars
    BY <1>1 DEF WindowInv, WindowTypes, RowsAreTheShapes, ToldIsAll, HeldIsTheRest, HeldIsQuiet, RowsAt, ToldAt,
                windowVars, readVars, clientVars
  <1> QED
    BY <1>1, RowChangesKeeps, BeginReadKeeps, PollBringsKeeps, AnswerAppliedKeeps, ReadsAnewKeeps, RestKeeps
    DEF WindowNext

LEMMA WindowInvTells == WindowInv => ScreenToldAll
  <1> SUFFICES ASSUME WindowInv PROVE ScreenToldAll
    OBVIOUS
  <1>1. RowsAreTheShapes /\ TransitionsTold
    BY DEF WindowInv, ToldIsAll, HeldIsQuiet, Quiet, TransitionsTold, ToldAt
  <1>2. EachRowOnce
    BY DEF WindowInv, HeldIsQuiet, Quiet, EachRowOnce, IsInjective
  <1> QED
    BY <1>1, <1>2 DEF ScreenToldAll

\* The client of a screen window has the rows of the shape at its offset and was told
\* each transition up to it, in order, for any rows and any log (gateway/pep.py
\* _screen_collect, _screen_fold): whatever was folded, held, lost and read again.
THEOREM ScreenTold == WindowSpec => []ScreenToldAll
  <1>1. WindowSpec => []WindowInv
    BY WindowStarts, WindowKeeps, PTL DEF WindowSpec
  <1> QED
    BY <1>1, WindowInvTells, PTL

\* The kinds of all that the window and its client hold.
LEMMA WindowTyped == WindowInv => WindowTypeOK
  <1> SUFFICES ASSUME WindowTypes PROVE WindowTypeOK
    BY DEF WindowInv
  <1>1. Seq(Said) \subseteq Seq(Messages)
    <2>1. Said \subseteq Messages
      BY DEF Said
    <2> QED
      BY <2>1
  <1>2. PICK R \in SUBSET LevelRows : swRows \in [R -> [Columns -> Values]]
    BY DEF WindowTypes, RowSets
  <1>3. DOMAIN swRows \subseteq LevelRows /\ \A r \in DOMAIN swRows : DOMAIN swRows[r] = Columns
    BY <1>2
  <1> QED
    BY <1>1, <1>3 DEF WindowTypes, WindowTypeOK, HeldLists, ToldLists

LEMMA AssemblerTyped == AsInv => AssemblerTypeOK
  <1> SUFFICES ASSUME AsTypes PROVE AssemblerTypeOK
    BY DEF AsInv
  <1>1. asRead.cm \in 0..Len(asCm) /\ asRead.posture \in 0..Len(asPosture) /\ asMessage.topic \in {"none", "cm", "posture"}
    BY DEF AsTypes
  <1>2. ASSUME NEW r \in ToSet(asOut) PROVE r.key \in EpisodeKeys /\ r.arrival \in 0..Len(asPosture)
    <2> DEFINE Records == [key : EpisodeKeys, sources : SourceSets, arrival : 0..Len(asPosture)]
    <2>1. asOut \in Seq(Records)
      BY DEF AsTypes
    <2>2. PICK i \in DOMAIN asOut : r = asOut[i]
      BY DEF ToSet
    <2>3. r \in Records
      <3> HIDE DEF Records
      <3> QED
        BY <2>1, <2>2
    <2> QED
      BY <2>3
  <1>3. DOMAIN asProduced = EpisodeKeys /\ asMoved \subseteq CmAssets
    BY DEF AsTypes
  <1> QED
    BY <1>1, <1>2, <1>3 DEF AsTypes, AssemblerTypeOK

=============================================================================
