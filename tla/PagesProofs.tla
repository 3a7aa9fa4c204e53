------------------------------ MODULE PagesProofs ------------------------------
(***************************************************************************)
(* What holds of the pages for any number of requests, feeds, views, looks *)
(* and boxes: a lost link is never read as a sign-out; what must be done   *)
(* once is; the level shown in the drill-down is open; the link's panel    *)
(* never cuts a link on a stale draft; an ending is drawn once, a held     *)
(* view is kept and imagery that was sharp stays sharp; and every          *)
(* variable keeps its type.  Each is proved of the component that keeps    *)
(* it, by an inductive invariant of its own.                               *)
(***************************************************************************)
EXTENDS MCPages, FoldProofs, FiniteSetTheorems, SequenceTheorems, TLAPS

-----------------------------------------------------------------------------
(* The session (BrowserSession).                                           *)

\* What the page can know of the session's end: only a session that has ended
\* is answered with a 401, and only an answer, a refusal or the deadline says so.
EndIsKnown ==
    /\ ~authRoutes => ~sessionLives
    /\ \A c \in Checks : check[c].answer = "401" => ~sessionLives
    /\ auth = "out" => ~sessionLives
    /\ expired => ~sessionLives \/ deadlinePassed

SessionInv == SessionTypeOK /\ EndIsKnown

\* A screen with a sign-out on it is one of an ended session or of the flag.
LEMMA ScreenTells ==
  ASSUME Screen \in {"out", "expired"}, SessionTypeOK
  PROVE  auth = "out" \/ expired
  BY DEF Screen, ScreenOf, SessionTypeOK

LEMMA FeedTypes ==
  ASSUME SessionTypeOK, KeepFeeds
  PROVE  /\ feed' \in [Feeds -> {"off", "fine", "failed", "refused"}]
         /\ feedErrors' \in [Tables -> {"none", "unlabelable", "transport", "session"}]
  BY DEF SessionTypeOK, KeepFeeds, feedSide

\* The answer of a check is one the gateway gives: a 401 only without a session.
LEMMA AnswersAreTrue ==
  ASSUME SessionInv, NEW a \in Answers
  PROVE  a \in {"failed", "404", "ok", "401"} /\ (a = "401" => ~sessionLives)
  BY DEF Answers

LEMMA CheckCells ==
  ASSUME SessionInv, NEW c \in Checks, NEW rec,
         rec \in [initial : BOOLEAN, attempt : 0..LastAttempt,
                  answer : {"none", "pending", "ok", "401", "404", "failed"}],
         rec.answer = "401" => ~sessionLives,
         check' = [check EXCEPT ![c] = rec], sessionLives' = sessionLives
  PROVE  /\ check' \in [Checks -> [initial : BOOLEAN, attempt : 0..LastAttempt,
                                   answer : {"none", "pending", "ok", "401", "404", "failed"}]]
         /\ \A d \in Checks : check'[d].answer = "401" => ~sessionLives'
  BY DEF SessionInv, SessionTypeOK, EndIsKnown

LEMMA GatewaySteps ==
  ASSUME SessionInv, SessionEnds \/ GatewayTurns \/ \E c \in Checks : CheckAnswered(c)
  PROVE  SessionInv'
  <1>1. CASE SessionEnds \/ GatewayTurns
    <2>0. gatewayUp \in BOOLEAN /\ sessionLives \in BOOLEAN
      BY DEF SessionInv, SessionTypeOK
    <2>1. gatewayUp' \in BOOLEAN /\ sessionLives' \in BOOLEAN /\ (sessionLives' => sessionLives)
      <3>1. CASE SessionEnds
        BY <2>0, <3>1 DEF SessionEnds
      <3>2. CASE GatewayTurns
        <4>1. gatewayUp' \in BOOLEAN
          BY <3>2, Zenon DEF GatewayTurns
        <4> QED
          BY <2>0, <3>2, <4>1 DEF GatewayTurns
      <3> QED
        BY <1>1, <3>1, <3>2
    <2>2. UNCHANGED <<authRoutes, check, hookSide, deadlinePassed, expired, feedSide>>
      BY <1>1 DEF SessionEnds, GatewayTurns
    <2>3. SessionTypeOK'
      BY <2>1, <2>2 DEF SessionInv, SessionTypeOK, hookSide, feedSide
    <2>4. EndIsKnown'
      BY <2>1, <2>2 DEF SessionInv, EndIsKnown, hookSide
    <2> QED
      BY <2>3, <2>4 DEF SessionInv
  <1>2. ASSUME NEW c \in Checks, CheckAnswered(c) PROVE SessionInv'
    <2>1. PICK a \in Answers : check' = [check EXCEPT ![c].answer = a]
      BY <1>2 DEF CheckAnswered
    <2> DEFINE rec == [check[c] EXCEPT !.answer = a]
    <2>2. /\ rec \in [initial : BOOLEAN, attempt : 0..LastAttempt,
                      answer : {"none", "pending", "ok", "401", "404", "failed"}]
          /\ rec.answer = a
      BY AnswersAreTrue DEF SessionInv, SessionTypeOK
    <2>3. check' = [check EXCEPT ![c] = rec]
      BY <2>1
    <2>4. UNCHANGED <<gatewaySide, hookSide, deadlinePassed, expired, feedSide>>
      BY <1>2 DEF CheckAnswered
    <2>5. rec.answer = "401" => ~sessionLives
      BY <2>2, AnswersAreTrue
    <2> HIDE DEF rec
    <2>6. /\ check' \in [Checks -> [initial : BOOLEAN, attempt : 0..LastAttempt,
                                    answer : {"none", "pending", "ok", "401", "404", "failed"}]]
          /\ \A d \in Checks : check'[d].answer = "401" => ~sessionLives'
      BY <2>2, <2>3, <2>4, <2>5, CheckCells DEF gatewaySide
    <2> QED
      BY <2>4, <2>6 DEF SessionInv, SessionTypeOK, EndIsKnown, gatewaySide, hookSide, feedSide
  <1> QED
    BY <1>1, <1>2

LEMMA NoCheckType ==
  ASSUME TRUE
  PROVE  /\ NoCheck \in [initial : BOOLEAN, attempt : 0..LastAttempt,
                         answer : {"none", "pending", "ok", "401", "404", "failed"}]
         /\ NoCheck.answer = "none"
  BY SessionAssumption DEF NoCheck, LastAttempt

\* A page hears the end of its session from a 401 alone.
LEMMA AnswerSteps ==
  ASSUME SessionInv, NEW c \in Checks, HandleCheck(c)
  PROVE  SessionInv'
  <1>1. check' = [check EXCEPT ![c] = NoCheck] /\ KeepFeeds /\ UNCHANGED gatewaySide
    BY DEF HandleCheck, HandleOk, Handle401, Handle404, HandleFailed, Handle
  <1>2. /\ check' \in [Checks -> [initial : BOOLEAN, attempt : 0..LastAttempt,
                                  answer : {"none", "pending", "ok", "401", "404", "failed"}]]
        /\ \A d \in Checks : check'[d].answer = "401" => ~sessionLives'
    BY <1>1, NoCheckType, CheckCells DEF gatewaySide
  <1>3. /\ auth' \in {"unknown", "error", "disabled", "out", "in"}
        /\ polling' \in BOOLEAN /\ deadline' \in BOOLEAN /\ deadlinePassed' = deadlinePassed
        /\ expired' \in BOOLEAN
    BY DEF HandleCheck, HandleOk, Handle401, Handle404, HandleFailed, AfterFailure, SessionInv, SessionTypeOK
  <1>4. retry' \in 0..LastAttempt
    <2>1. CASE UNCHANGED retry
      BY <2>1 DEF SessionInv, SessionTypeOK
    <2>2. CASE HandleFailed(c)
      <3>1. check[c].attempt \in 0..LastAttempt /\ LastAttempt \in Nat
        BY SessionAssumption DEF SessionInv, SessionTypeOK, LastAttempt
      <3>2. check[c].attempt < LastAttempt => check[c].attempt + 1 \in 0..LastAttempt
        BY <3>1
      <3> QED
        BY <2>2, <3>2 DEF HandleFailed, SessionInv, SessionTypeOK
    <2> QED
      BY <2>1, <2>2 DEF HandleCheck, HandleOk, Handle401, Handle404
  <1>5. (auth' = "out" => ~sessionLives) /\ (expired' => ~sessionLives \/ deadlinePassed)
    <2>1. CASE Handle401(c)
      BY <2>1 DEF Handle401, Handle, SessionInv, EndIsKnown
    <2>2. CASE HandleOk(c) \/ Handle404(c) \/ HandleFailed(c)
      BY <2>2 DEF HandleOk, Handle404, HandleFailed, AfterFailure, SessionInv, EndIsKnown
    <2> QED
      BY <2>1, <2>2 DEF HandleCheck
  <1> QED
    BY <1>1, <1>2, <1>3, <1>4, <1>5, FeedTypes DEF SessionInv, SessionTypeOK, EndIsKnown, gatewaySide

LEMMA AskSteps ==
  ASSUME SessionInv, NEW c \in Checks, Retry(c) \/ Recheck(c)
  PROVE  SessionInv'
  <1>1. PICK initial \in BOOLEAN, attempt \in 0..LastAttempt : Ask(c, initial, attempt)
    <2>1. 1 \in 0..LastAttempt /\ LastAttempt \in 0..LastAttempt /\ retry \in 0..LastAttempt
      BY SessionAssumption DEF LastAttempt, SessionInv, SessionTypeOK
    <2> QED
      BY <2>1 DEF Retry, Recheck
  <1> DEFINE rec == [initial |-> initial, attempt |-> attempt, answer |-> "pending"]
  <1>2. /\ UNCHANGED <<gatewaySide, auth, polling, deadline, deadlinePassed, expired, feedSide>>
        /\ retry' \in {0, retry}
    BY DEF Retry, Recheck, hookSide
  <1>3. check' = [check EXCEPT ![c] = rec]
    BY <1>1 DEF Ask
  <1>4. /\ rec \in [initial : BOOLEAN, attempt : 0..LastAttempt,
                    answer : {"none", "pending", "ok", "401", "404", "failed"}]
        /\ rec.answer = "pending"
    OBVIOUS
  <1> HIDE DEF rec
  <1>5. /\ check' \in [Checks -> [initial : BOOLEAN, attempt : 0..LastAttempt,
                                  answer : {"none", "pending", "ok", "401", "404", "failed"}]]
        /\ \A d \in Checks : check'[d].answer = "401" => ~sessionLives'
    BY <1>2, <1>3, <1>4, CheckCells DEF gatewaySide
  <1>6. 0 \in 0..LastAttempt
    BY SessionAssumption DEF LastAttempt
  <1> QED
    BY <1>2, <1>5, <1>6 DEF SessionInv, SessionTypeOK, EndIsKnown, gatewaySide, feedSide

LEMMA DeadlineStep ==
  ASSUME SessionInv, DeadlineFires
  PROVE  SessionInv'
  BY FeedTypes DEF DeadlineFires, SessionInv, SessionTypeOK, EndIsKnown, gatewaySide

\* A feed is refused only without a session, and only that ends the page's.
LEMMA FeedSteps ==
  ASSUME SessionInv, NEW f \in Feeds, Mount(f) \/ Unmount(f) \/ FeedFails(f) \/ FeedRecovers(f)
  PROVE  SessionInv'
  <1>0. TableOf[f] \in Tables
    BY SessionAssumption
  <1>1. CASE Mount(f) \/ Unmount(f) \/ FeedRecovers(f)
    BY <1>0, <1>1 DEF Mount, Unmount, FeedRecovers, SessionInv, SessionTypeOK, EndIsKnown, gatewaySide, hookSide
  <1>2. CASE FeedFails(f)
    <2>1. PICK state \in {"failed"} \cup (IF gatewayUp /\ authRoutes /\ ~sessionLives THEN {"refused"} ELSE {}) :
            LET kind == ErrorKind(TableOf[f], state) IN
            /\ expired' = (expired \/ kind = "session")
            /\ IF ScreenOf(auth, expired)' = "app"
               THEN /\ feed' = [feed EXCEPT ![f] = state]
                    /\ feedErrors' = [feedErrors EXCEPT ![TableOf[f]] = kind]
               ELSE KeepFeeds
      BY <1>2 DEF FeedFails
    <2> DEFINE kind == ErrorKind(TableOf[f], state)
    <2>2. kind \in {"unlabelable", "session", "transport"} /\ (kind = "session" => state = "refused")
      BY DEF ErrorKind
    <2>3. state \in {"failed", "refused"} /\ (state = "refused" => ~sessionLives)
      BY <2>1
    <2> HIDE DEF kind
    <2>4. UNCHANGED <<gatewaySide, check, hookSide, deadlinePassed>>
      BY <1>2 DEF FeedFails
    <2>5. /\ feed' \in [Feeds -> {"off", "fine", "failed", "refused"}]
          /\ feedErrors' \in [Tables -> {"none", "unlabelable", "transport", "session"}]
      <3>1. CASE KeepFeeds
        BY <3>1, FeedTypes DEF SessionInv
      <3>2. CASE /\ feed' = [feed EXCEPT ![f] = state]
                 /\ feedErrors' = [feedErrors EXCEPT ![TableOf[f]] = kind]
        BY <1>0, <2>2, <2>3, <3>2 DEF SessionInv, SessionTypeOK
      <3> QED
        BY <2>1, <3>1, <3>2 DEF kind
    <2>6. expired' \in BOOLEAN /\ (expired' => ~sessionLives \/ deadlinePassed)
      BY <2>1, <2>2, <2>3 DEF kind, SessionInv, EndIsKnown, SessionTypeOK
    <2> QED
      BY <2>4, <2>5, <2>6 DEF SessionInv, SessionTypeOK, EndIsKnown, gatewaySide, hookSide
  <1> QED
    BY <1>1, <1>2

LEMMA SessionBegins == SessionInit => SessionInv
  <1> SUFFICES ASSUME SessionInit PROVE SessionInv
    OBVIOUS
  <1>1. [initial |-> TRUE, attempt |-> 1, answer |-> "pending"] \in
          [initial : BOOLEAN, attempt : 0..LastAttempt, answer : {"none", "pending", "ok", "401", "404", "failed"}]
    BY SessionAssumption DEF LastAttempt
  <1>2. 0 \in 0..LastAttempt
    BY SessionAssumption DEF LastAttempt
  <1> QED
    BY <1>1, <1>2, NoCheckType DEF SessionInit, SessionInv, SessionTypeOK, EndIsKnown

LEMMA SessionStep == SessionInv /\ [SessionNext]_sessionVars => SessionInv'
  <1>1. ASSUME SessionInv, UNCHANGED sessionVars PROVE SessionInv'
    BY <1>1 DEF SessionInv, SessionTypeOK, EndIsKnown, sessionVars, gatewaySide, hookSide, feedSide
  <1> QED
    BY <1>1, GatewaySteps, AnswerSteps, AskSteps, DeadlineStep, FeedSteps DEF SessionNext

\* Link loss is never read as a sign-out: with any number of checks under way,
\* answered in any order, the page says that its session is absent or over only
\* when the gateway has ended it or the page's own deadline has passed.
THEOREM LinkLossNotExpiry == SessionSpec => []LinkLossIsNotExpiry
  <1>1. SessionInv => LinkLossIsNotExpiry
    BY ScreenTells DEF SessionInv, EndIsKnown, LinkLossIsNotExpiry
  <1> QED
    BY <1>1, SessionBegins, SessionStep, PTL DEF SessionSpec

-----------------------------------------------------------------------------
(* The drill-down (Drilldown).                                             *)

\* An animation under way is of an element one layer below where it began, and
\* it began in a layer that is there.
DrillIsOneDown ==
    dvDrill # NoDrill => /\ dvDrill.depth \in 0..(Layers - 1)
                         /\ dvDrill.path \in Seq(Names) /\ Len(dvDrill.path) = dvDrill.depth + 1

DrillInv == dvDepth \in 0..(Layers - 1) /\ dvParent \in Seq(Names) /\ ShownLevelIsOpen /\ DrillIsOneDown

LEMMA PrefixOfItself ==
  ASSUME NEW s
  PROVE  Len(s) \in Nat => IsPrefix(s, s)
  BY DEF IsPrefix

LEMMA NextDepths ==
  ASSUME NEW depth \in 0..(Layers - 1)
  PROVE  NextDepth(depth) = IF depth = Layers - 1 THEN 0 ELSE depth + 1
  <1>1. Layers \in Nat /\ Layers > 1
    BY DrillAssumption
  <1>2. CASE depth = Layers - 1
    <2>1. depth + 1 = Layers
      BY <1>1, <1>2
    <2>2. Layers % Layers = 0
      BY <1>1
    <2> QED
      BY <1>2, <2>1, <2>2 DEF NextDepth
  <1>3. CASE depth # Layers - 1
    <2>1. depth + 1 \in 0..(Layers - 1)
      BY <1>1, <1>3
    <2>2. (depth + 1) % Layers = depth + 1
      BY <1>1, <2>1
    <2> QED
      BY <1>3, <2>2 DEF NextDepth
  <1> QED
    BY <1>2, <1>3

\* The levels kept are of one branch with the path, and it is one of them.
LEMMA BranchKept ==
  ASSUME NEW levels, NEW path, IsPrefix(path, path),
         \A k, l \in levels : IsPrefix(k, l) \/ IsPrefix(l, k)
  PROVE  /\ path \in LevelsAfterDrill(levels, path)
         /\ \A k, l \in LevelsAfterDrill(levels, path) : IsPrefix(k, l) \/ IsPrefix(l, k)
  BY DEF LevelsAfterDrill

LEMMA DrillStops ==
  ASSUME DrillIsOneDown, DepthEffect
  PROVE  DrillIsOneDown'
  BY DEF DrillIsOneDown, DepthEffect

LEMMA DrillClicks ==
  ASSUME DrillInv, SelectElement \/ PointerMissed \/ DrillBegins \/ PopEnds
  PROVE  DrillInv'
  <1>1. UNCHANGED <<dvDepth, dvParent, dvLevels>>
    BY DEF SelectElement, PointerMissed, DrillBegins, PopEnds
  <1>2. dvDrill' \in {dvDrill, NoDrill} \/ \E n \in Names : dvDrill' = [path |-> Append(dvParent, n), depth |-> dvDepth]
    BY DEF SelectElement, PointerMissed, DrillBegins, PopEnds, Elements
  <1>3. ASSUME NEW n \in Names
        PROVE  Append(dvParent, n) \in Seq(Names) /\ Len(Append(dvParent, n)) = dvDepth + 1
    BY DEF DrillInv, ShownLevelIsOpen
  <1>4. DrillIsOneDown'
    <2>1. CASE dvDrill' \in {dvDrill, NoDrill}
      BY <2>1 DEF DrillInv, DrillIsOneDown
    <2>2. ASSUME NEW n \in Names, dvDrill' = [path |-> Append(dvParent, n), depth |-> dvDepth]
          PROVE  DrillIsOneDown'
      BY <1>3, <2>2 DEF DrillInv, DrillIsOneDown
    <2> QED
      BY <1>2, <2>1, <2>2
  <1> QED
    BY <1>1, <1>4 DEF DrillInv, ShownLevelIsOpen

LEMMA DrillArrives ==
  ASSUME DrillInv, DrillEnds
  PROVE  DrillInv'
  <1>1. /\ dvDrill.depth \in 0..(Layers - 1)
        /\ dvDrill.path \in Seq(Names) /\ Len(dvDrill.path) = dvDrill.depth + 1
    BY DEF DrillInv, DrillIsOneDown, DrillEnds
  <1>2. DrillIsOneDown'
    BY DrillStops DEF DrillInv, DrillEnds
  <1>3. \A k, l \in dvLevels : IsPrefix(k, l) \/ IsPrefix(l, k)
    BY DEF DrillInv, ShownLevelIsOpen
  <1>4. CASE dvDrill.depth = Layers - 1
    <2>1. dvDepth' = 0 /\ dvParent' = << >> /\ dvLevels' = dvLevels
      BY <1>1, <1>4, NextDepths DEF DrillEnds
    <2>2. 0 \in 0..(Layers - 1) /\ << >> \in Seq(Names) /\ Len(<< >>) = 0
      BY DrillAssumption
    <2> QED
      BY <1>2, <1>3, <2>1, <2>2 DEF DrillInv, ShownLevelIsOpen
  <1>5. CASE dvDrill.depth # Layers - 1
    <2>1. NextDepth(dvDrill.depth) = dvDrill.depth + 1 /\ dvDrill.depth + 1 \in 1..(Layers - 1)
      BY <1>1, <1>5, NextDepths, DrillAssumption
    <2>2. /\ dvDepth' = dvDrill.depth + 1 /\ dvParent' = dvDrill.path
          /\ dvLevels' = LevelsAfterDrill(dvLevels, dvDrill.path)
      BY <2>1 DEF DrillEnds
    <2>3. IsPrefix(dvDrill.path, dvDrill.path)
      BY <1>1, PrefixOfItself
    <2>4. /\ dvDrill.path \in dvLevels'
          /\ \A k, l \in dvLevels' : IsPrefix(k, l) \/ IsPrefix(l, k)
      BY <1>3, <2>2, <2>3, BranchKept
    <2>5. ShownLevelIsOpen'
      BY <1>1, <2>2, <2>4 DEF ShownLevelIsOpen
    <2> QED
      BY <1>1, <1>2, <2>1, <2>2, <2>5 DEF DrillInv
  <1> QED
    BY <1>4, <1>5

LEMMA DrillTops ==
  ASSUME DrillInv, AssetChanges
  PROVE  DrillInv'
  <1>1. dvDepth' = 0 /\ dvParent' = << >> /\ dvLevels' = {}
    BY DEF AssetChanges
  <1>2. 0 \in 0..(Layers - 1) /\ << >> \in Seq(Names) /\ Len(<< >>) = 0
    BY DrillAssumption
  <1>3. DrillIsOneDown'
    BY DrillStops DEF DrillInv, AssetChanges
  <1> QED
    BY <1>1, <1>2, <1>3 DEF DrillInv, ShownLevelIsOpen

LEMMA DrillStarts == DrillInit => DrillInv
  <1>1. 0 \in 0..(Layers - 1) /\ << >> \in Seq(Names) /\ Len(<< >>) = 0
    BY DrillAssumption
  <1> QED
    BY <1>1 DEF DrillInit, DrillInv, ShownLevelIsOpen, DrillIsOneDown

LEMMA DrillStep == DrillInv /\ [DrillNext]_drillVars => DrillInv'
  <1>1. ASSUME DrillInv, UNCHANGED drillVars PROVE DrillInv'
    BY <1>1 DEF DrillInv, ShownLevelIsOpen, DrillIsOneDown, drillVars
  <1> QED
    BY <1>1, DrillClicks, DrillArrives, DrillTops DEF DrillNext

\* However many layers and elements: whatever is clicked, double clicked or
\* selected while an animation runs, the level shown is open and at its depth,
\* and the open levels are of one branch.
THEOREM ShownIsOpen == DrillSpec => []ShownLevelIsOpen
  <1>1. DrillInv => ShownLevelIsOpen
    BY DEF DrillInv
  <1> QED
    BY <1>1, DrillStarts, DrillStep, PTL DEF DrillSpec

-----------------------------------------------------------------------------
(* The link's panel (Links).                                               *)

\* A draft that says on or cut was made against the state that is shown.
DraftInv ==
    /\ lkDraft = [up |-> lkDraft.up, shape |-> lkDraft.shape, seen |-> lkDraft.seen]
    /\ lkDraft = NoDraft \/ lkDraft.up = "null" \/ lkDraft.seen = lkShown.up

LEMMA NoDraftHolds ==
  ASSUME lkDraft' = NoDraft
  PROVE  DraftInv'
  BY DEF DraftInv, NoDraft

\* Whatever is shown next, a draft made against something else loses its on or cut.
LEMMA ShowKeepsDraft ==
  ASSUME DraftInv, NEW status, NEW entry, Show(status, entry)
  PROVE  DraftInv'
  <1>1. lkShown' = entry
    BY DEF Show
  <1>2. CASE lkDraft' = NoDraft
    BY <1>2, NoDraftHolds
  <1>3. CASE lkDraft' = lkDraft /\ (lkDraft = NoDraft \/ lkShown.up = entry.up)
    BY <1>1, <1>3 DEF DraftInv
  <1>4. CASE lkDraft' = [lkDraft EXCEPT !.up = "null", !.seen = "null"]
    <2>1. lkDraft' = [up |-> "null", shape |-> lkDraft.shape, seen |-> "null"]
      BY <1>4 DEF DraftInv
    <2> QED
      BY <2>1 DEF DraftInv
  <1> QED
    BY <1>2, <1>3, <1>4 DEF Show, DraftSeen

LEMMA SliderKeepsDraft ==
  ASSUME DraftInv, Slide
  PROVE  DraftInv'
  <1>1. PICK shape \in Shapes :
          lkDraft' = [(IF lkDraft # NoDraft THEN lkDraft
                       ELSE [up |-> "null", shape |-> lkShown.shape, seen |-> "null"]) EXCEPT !.shape = shape]
    BY DEF Slide
  <1>2. lkShown' = lkShown
    BY DEF Slide
  <1>3. CASE lkDraft # NoDraft
    <2>1. lkDraft' = [up |-> lkDraft.up, shape |-> shape, seen |-> lkDraft.seen]
      BY <1>1, <1>3 DEF DraftInv
    <2> QED
      BY <1>2, <1>3, <2>1 DEF DraftInv
  <1>4. CASE lkDraft = NoDraft
    <2>1. lkDraft' = [up |-> "null", shape |-> shape, seen |-> "null"]
      BY <1>1, <1>4
    <2> QED
      BY <2>1 DEF DraftInv
  <1> QED
    BY <1>3, <1>4

LEMMA PresetMakesDraft ==
  ASSUME ChoosePreset
  PROVE  DraftInv'
  <1>1. PICK v \in Presets : lkDraft' = [up |-> v.up, shape |-> v.shape, seen |-> lkShown.up]
    BY DEF ChoosePreset
  <1> QED
    BY <1>1 DEF ChoosePreset, DraftInv

LEMMA DraftBegins == LinkInit => DraftInv
  BY DEF LinkInit, DraftInv, NoDraft

LEMMA DraftStep ==
  ASSUME DraftInv, [LinkNext]_linkVars
  PROVE  DraftInv'
  <1>1. ASSUME UNCHANGED <<lkShown, lkDraft>> PROVE DraftInv'
    BY <1>1 DEF DraftInv
  <1>2. ASSUME NEW r \in Reads, ListingTaken(r) \/ ListingCame(r) \/ ListingFailed(r) PROVE DraftInv'
    BY <1>1, <1>2, ShowKeepsDraft DEF ListingTaken, ListingCame, ListingFailed
  <1>3. ASSUME NEW p \in Posts, ChangeMade(p) \/ ChangeDone(p) \/ ChangeFails(p) PROVE DraftInv'
    BY <1>1, <1>3, ShowKeepsDraft DEF ChangeMade, ChangeDone, ChangeFails, ChangeEnds
  <1>4. CASE Toggle
    BY <1>4, ShowKeepsDraft DEF Toggle
  <1>5. CASE ClickRow \/ Apply \/ ClearShape
    BY <1>5, NoDraftHolds DEF ClickRow, Apply, ClearShape
  <1>6. CASE RefreshBegins \/ OthersChange \/ UNCHANGED linkVars
    BY <1>1, <1>6 DEF RefreshBegins, OthersChange, linkVars
  <1> QED
    BY <1>2, <1>3, <1>4, <1>5, <1>6, SliderKeepsDraft, PresetMakesDraft DEF LinkNext

\* APPLY cuts or restores the link only as the operator chose against the state
\* still shown, however many listings and changes overtake one another.
THEOREM CutIsNotStale == LinkSpec => NoStaleCut
  <1>1. DraftInv => (Apply /\ lkShown'.up # lkShown.up => lkDraft.seen = lkShown.up)
    BY DEF DraftInv, Apply
  <1>2. DraftInv /\ [LinkNext]_linkVars =>
          [Apply /\ lkShown'.up # lkShown.up => lkDraft.seen = lkShown.up]_linkVars
    BY <1>1
  <1>3. DraftInv /\ [LinkNext]_linkVars => DraftInv'
    BY DraftStep
  <1> QED
    BY <1>2, <1>3, DraftBegins, PTL DEF LinkSpec, NoStaleCut

-----------------------------------------------------------------------------
(* Releases (ElementLevels).                                               *)

ReleaseInv ==
    /\ lvSub \in [Views -> {"closed", "open", "released", "refused"}]
    /\ lvSent \in [Views -> Nat]
    /\ ReleasedOnce

LEMMA ReleaseBegins == LevelsInit => ReleaseInv
  BY DEF LevelsInit, ReleaseInv, ReleasedOnce, Unreleased

LEMMA ReleaseStep ==
  ASSUME ReleaseInv, [LevelsNext]_levelVars
  PROVE  ReleaseInv'
  <1>1. ASSUME UNCHANGED pageVars PROVE ReleaseInv'
    BY <1>1 DEF ReleaseInv, ReleasedOnce, Unreleased, pageVars
  <1>2. ASSUME NEW v \in Views, OpenLevel(v) \/ Remount(v) PROVE ReleaseInv'
    BY <1>2 DEF OpenLevel, Remount, ReleaseInv, ReleasedOnce, Unreleased
  <1>3. ASSUME NEW v \in Views, CloseLevel(v) PROVE ReleaseInv'
    BY <1>3 DEF CloseLevel, Release, ReleaseInv, ReleasedOnce, Unreleased
  <1>4. CASE PageHides
    BY <1>4 DEF PageHides, Release, ReleaseInv, ReleasedOnce, Unreleased
  <1>5. ASSUME NEW v \in Views, ReadHandled(v) PROVE ReleaseInv'
    <2>1. lvSent' = lvSent /\ (lvSub' = lvSub \/ (lvSub[v] = "open" /\ lvSub' = [lvSub EXCEPT ![v] = "refused"]))
      BY <1>5 DEF ReadHandled, ReleaseInv
    <2> QED
      BY <2>1 DEF ReleaseInv, ReleasedOnce, Unreleased
  <1>6. ASSUME NEW v \in Views,
               \/ ReadLevel(v) \/ DeleteHandled(v) \/ DeleteLost(v) \/ UpstreamFails(v)
               \/ HolderIdles(v) \/ GraceFires(v) \/ GraceExpired(v)
        PROVE  UNCHANGED pageVars
    BY <1>6 DEF ReadLevel, DeleteHandled, DeleteLost, UpstreamFails, HolderIdles, GraceFires, GraceExpired
  <1>7. CASE Swept \/ UNCHANGED levelVars
    BY <1>1, <1>7 DEF Swept, levelVars
  <1> QED
    BY <1>1, <1>2, <1>3, <1>4, <1>5, <1>6, <1>7 DEF LevelsNext

-----------------------------------------------------------------------------
(* Textures of the ground (Terrain).                                       *)

\* What the accounting needs of a load, and of the loads on their way: each has
\* a texture of its own to make, and one at most is of the box wanted.
LoadShape ==
    [id : Nat \ {0}, box : Boxes, live : BOOLEAN, left : Int, got : Int, stage : {"tiles", "coast"}]

LoadsOK(loads) ==
    /\ loads \subseteq LoadShape
    /\ \A l, k \in loads : (l.live /\ k.live) => l = k

TextureInv == TexturesAccounted /\ tnWants \in Nat /\ LoadsOK(tnLoads)

LEMMA DrawsAccounted ==
  ASSUME TexturesAccounted, NEW d, NEW made, Draws(d, made),
         (made = {} /\ d.id = 0) \/ (made = {d.id} /\ d.id # 0)
  PROVE  TexturesAccounted'
  BY DEF TexturesAccounted, Draws

LEMMA NothingDrawn == NoData.id = 0
  BY DEF NoData

LEMMA FinishAccounted ==
  ASSUME TexturesAccounted, NEW done, LoadsOK(done), NEW coast, Finish(done, coast)
  PROVE  TexturesAccounted'
  <1>1. CASE UNCHANGED <<tnData, tnLive>>
    BY <1>1 DEF TexturesAccounted
  <1>2. CASE Draws(NoData, {})
    BY <1>2, DrawsAccounted, NothingDrawn
  <1>3. CASE \E l \in done : l.live
    <2> DEFINE l == CHOOSE k \in done : k.live
    <2>1. l \in done /\ l.live
      BY <1>3
    <2> HIDE DEF l
    <2>2. Made(done) = {l.id} /\ l.id # 0
      BY <2>1 DEF Made, LoadsOK, LoadShape
    <2>3. ASSUME Draws([box |-> l.box, id |-> l.id], Made(done)) PROVE TexturesAccounted'
      <3> DEFINE d == [box |-> l.box, id |-> l.id]
      <3>1. d.id = l.id
        OBVIOUS
      <3>2. Draws(d, Made(done))
        BY <2>3
      <3> HIDE DEF d
      <3> QED
        BY <2>2, <3>1, <3>2, DrawsAccounted
    <2> QED
      BY <1>2, <1>3, <2>3 DEF Finish, l
  <1>4. CASE ~\E l \in done : l.live
    <2>1. Made(done) = {}
      BY <1>4 DEF Made
    <2> QED
      BY <1>1, <1>4, <2>1 DEF Finish, TexturesAccounted
  <1> QED
    BY <1>3, <1>4

LEMMA ReachAccounted ==
  ASSUME TexturesAccounted, NEW loads, LoadsOK(loads), NEW reached \in SUBSET loads, ReachCoast(loads, reached)
  PROVE  TexturesAccounted' /\ LoadsOK(tnLoads)'
  <1>1. LoadsOK(reached) /\ LoadsOK(loads \ reached)
    BY DEF LoadsOK
  <1>2. CASE tnCoast = "held"
    BY <1>1, <1>2, FinishAccounted DEF ReachCoast, LoadsOK
  <1>3. CASE tnCoast # "held"
    BY <1>3 DEF ReachCoast, LoadsOK, TexturesAccounted
  <1> QED
    BY <1>2, <1>3

\* The loads of before and a new one.
LEMMA OldLoads ==
  ASSUME LoadsOK(tnLoads)
  PROVE  /\ LoadsOK(NoLongerLive(tnLoads))
         /\ \A new \in LoadShape : LoadsOK(NoLongerLive(tnLoads) \cup {new})
  <1>1. ASSUME NEW l \in tnLoads PROVE [l EXCEPT !.live = FALSE] \in LoadShape /\ ~[l EXCEPT !.live = FALSE].live
    BY DEF LoadsOK, LoadShape
  <1>2. \A l \in NoLongerLive(tnLoads) : l \in LoadShape /\ ~l.live
    BY <1>1 DEF NoLongerLive
  <1> QED
    BY <1>2 DEF LoadsOK

LEMMA WantsAccounted ==
  ASSUME TextureInv, NEW box \in Boxes \cup {NoBox}, Wants(box)
  PROVE  TextureInv'
  <1>1. CASE box = NoBox
    <2>1. /\ tnLoads' = NoLongerLive(tnLoads) /\ Draws(NoData, {}) /\ tnWants' = tnWants
      BY <1>1 DEF Wants
    <2> QED
      BY <2>1, OldLoads, DrawsAccounted, NothingDrawn DEF TextureInv
  <1>2. CASE box # NoBox
    <2> DEFINE new == NewLoad(box)
    <2>1. /\ tnWants' = tnWants + 1
          /\ ReachCoast(NoLongerLive(tnLoads) \cup {new}, IF new.stage = "coast" THEN {new} ELSE {})
      BY <1>2 DEF Wants
    <2>2. new \in LoadShape
      BY <1>2, TerrainAssumption DEF NewLoad, LoadShape, TextureInv
    <2> HIDE DEF new
    <2>3. LoadsOK(NoLongerLive(tnLoads) \cup {new})
      BY <2>2, OldLoads DEF TextureInv
    <2>4. (IF new.stage = "coast" THEN {new} ELSE {}) \in SUBSET (NoLongerLive(tnLoads) \cup {new})
      OBVIOUS
    <2>5. TexturesAccounted' /\ LoadsOK(tnLoads)'
      BY <2>1, <2>3, <2>4, ReachAccounted DEF TextureInv
    <2> QED
      BY <2>1, <2>5 DEF TextureInv
  <1> QED
    BY <1>1, <1>2

LEMMA TileAccounted ==
  ASSUME TextureInv, NEW l \in tnLoads, NEW ok \in BOOLEAN, TileComes(l, ok)
  PROVE  TextureInv'
  <1> DEFINE others == tnLoads \ {l}
             after == [l EXCEPT !.left = @ - 1, !.got = IF ok THEN @ + 1 ELSE @]
             done == [after EXCEPT !.stage = "coast"]
  <1>0. tnWants' = tnWants
    BY DEF TileComes
  <1>1. l \in LoadShape
    BY DEF TextureInv, LoadsOK
  <1>2. /\ after \in LoadShape /\ after.live = l.live
        /\ done \in LoadShape /\ done.live = l.live
    <2>1. PICK left \in Int, got \in Int : after = [l EXCEPT !.left = left, !.got = got]
      <3>1. l.left - 1 \in Int /\ l.got \in Int /\ l.got + 1 \in Int
        BY <1>1 DEF LoadShape
      <3> QED
        BY <3>1
    <2> HIDE DEF after
    <2>2. after \in LoadShape /\ after.live = l.live
      <3> DEFINE taken == [l EXCEPT !.left = left]
      <3>1. taken \in LoadShape /\ taken.live = l.live
        BY <1>1 DEF LoadShape
      <3>2. after = [taken EXCEPT !.got = got]
        BY <1>1, <2>1 DEF LoadShape
      <3> HIDE DEF taken
      <3> QED
        BY <3>1, <3>2 DEF LoadShape
    <2> QED
      BY <2>2 DEF LoadShape
  <1>3. \/ tnLoads' \in {others, others \cup {after}} /\ (UNCHANGED <<tnData, tnLive>> \/ Draws(NoData, {}))
        \/ ReachCoast(others \cup {done}, {done})
    BY DEF TileComes
  <1> HIDE DEF after, done
  <1>4. /\ LoadsOK(others) /\ LoadsOK(others \cup {after}) /\ LoadsOK(others \cup {done})
    BY <1>2 DEF TextureInv, LoadsOK
  <1>5. CASE tnLoads' \in {others, others \cup {after}} /\ (UNCHANGED <<tnData, tnLive>> \/ Draws(NoData, {}))
    <2>1. LoadsOK(tnLoads)'
      BY <1>4, <1>5 DEF LoadsOK
    <2>2. TexturesAccounted'
      BY <1>5, DrawsAccounted, NothingDrawn DEF TextureInv, TexturesAccounted
    <2> QED
      BY <1>0, <2>1, <2>2 DEF TextureInv
  <1>6. CASE ReachCoast(others \cup {done}, {done})
    BY <1>0, <1>4, <1>6, ReachAccounted DEF TextureInv
  <1> QED
    BY <1>3, <1>5, <1>6

LEMMA TextureBegins == TerrainInit => TextureInv
  BY DEF TerrainInit, TextureInv, TexturesAccounted, NoData, LoadsOK

LEMMA TextureStep ==
  ASSUME TextureInv, [TerrainNext]_terrainVars
  PROVE  TextureInv'
  <1>1. ASSUME NEW ok \in BOOLEAN, CoastComes(ok) PROVE TextureInv'
    <2> DEFINE waiting == {l \in tnLoads : l.stage = "coast"}
    <2>1. tnLoads' = tnLoads \ waiting /\ Finish(waiting, ok) /\ tnWants' = tnWants
      BY <1>1 DEF CoastComes
    <2>2. LoadsOK(waiting) /\ LoadsOK(tnLoads \ waiting)
      BY DEF TextureInv, LoadsOK
    <2>3. TexturesAccounted'
      BY <2>1, <2>2, FinishAccounted DEF TextureInv
    <2> QED
      BY <2>1, <2>2, <2>3 DEF TextureInv, LoadsOK
  <1>2. CASE LeaveMap
    <2>1. tnLoads' = NoLongerLive(tnLoads) /\ Draws(NoData, {}) /\ tnWants' = tnWants
      BY <1>2 DEF LeaveMap
    <2> QED
      BY <2>1, OldLoads, DrawsAccounted, NothingDrawn DEF TextureInv, LoadsOK
  <1>3. CASE UNCHANGED terrainVars
    BY <1>3 DEF TextureInv, TexturesAccounted, LoadsOK, terrainVars
  <1> QED
    BY <1>1, <1>2, <1>3, WantsAccounted, TileAccounted DEF TerrainNext

-----------------------------------------------------------------------------
(* Textures of the sharp imagery (SharpTiles).                             *)

\* A texture is loaded or loading, not both: what comes is new.
PatchInv ==
    /\ IsFiniteSet(ptLoaded)
    /\ ptLoaded \cap ptLoading = {}
    /\ PatchesAccounted

\* A settle disposes of what it drops.
LEMMA SettleAccounts ==
  ASSUME NEW list, NEW loaded, IsFiniteSet(loaded), NEW failed, Settle(list, loaded, failed, Cardinality(loaded))
  PROVE  /\ IsFiniteSet(ptLoaded') /\ ptLoaded' \subseteq loaded
         /\ ptTextures' = Cardinality(ptLoaded')
  <1>1. PICK kept \in SUBSET loaded :
          /\ ptLoaded' = kept
          /\ ptTextures' = Cardinality(loaded) - Cardinality(loaded \ kept)
    BY DEF Settle, Kept
  <1>2. IsFiniteSet(kept)
    BY FS_Subset
  <1>3. loaded \cap kept = kept
    OBVIOUS
  <1>4. Cardinality(loaded \ kept) = Cardinality(loaded) - Cardinality(kept)
    <2> DEFINE rest == loaded \cap kept
    <2>1. Cardinality(loaded \ kept) = Cardinality(loaded) - Cardinality(rest)
      BY FS_Difference
    <2>2. rest = kept
      BY <1>3
    <2> HIDE DEF rest
    <2> QED
      BY <2>1, <2>2
  <1>5. Cardinality(loaded) \in Nat /\ Cardinality(kept) \in Nat
    BY <1>2, FS_CardinalityType
  <1>6. ptTextures' = Cardinality(kept)
    BY <1>1, <1>4, <1>5
  <1> QED
    BY <1>1, <1>2, <1>6

LEMMA PatchBegins == TilesInit => PatchInv
  BY FS_EmptySet DEF TilesInit, PatchInv, PatchesAccounted

LEMMA ListedAccounts ==
  ASSUME PatchInv, Listed
  PROVE  PatchInv'
  <1>1. Settle(Specs, ptLoaded, ptFailed \cap Specs, Cardinality(ptLoaded))
    BY DEF Listed, PatchInv, PatchesAccounted
  <1>2. /\ IsFiniteSet(ptLoaded') /\ ptLoaded' \subseteq ptLoaded
        /\ ptTextures' = Cardinality(ptLoaded')
    BY <1>1, SettleAccounts DEF PatchInv
  <1>3. ptLoading' = ptLoading \cup (Specs \ (ptLoaded \cup ptFailed))
    BY DEF Listed
  <1> QED
    BY <1>2, <1>3 DEF PatchInv, PatchesAccounted

LEMMA LoadAccounts ==
  ASSUME PatchInv, NEW p, PatchLoads(p)
  PROVE  PatchInv'
  <1>1. p \in ptLoading /\ p \notin ptLoaded /\ ptLoading' = ptLoading \ {p}
    BY DEF PatchLoads, PatchInv
  <1>2. CASE UNCHANGED <<ptLoaded, ptTextures>>
    BY <1>1, <1>2 DEF PatchInv, PatchesAccounted
  <1>3. CASE Settle(ptCurrent, ptLoaded \cup {p}, ptFailed, ptTextures + 1)
    <2>1. IsFiniteSet(ptLoaded \cup {p}) /\ Cardinality(ptLoaded \cup {p}) = ptTextures + 1
      BY <1>1, FS_AddElement DEF PatchInv, PatchesAccounted
    <2>2. Settle(ptCurrent, ptLoaded \cup {p}, ptFailed, Cardinality(ptLoaded \cup {p}))
      BY <1>3, <2>1
    <2>3. /\ IsFiniteSet(ptLoaded') /\ ptLoaded' \subseteq ptLoaded \cup {p}
          /\ ptTextures' = Cardinality(ptLoaded')
      BY <2>1, <2>2, SettleAccounts
    <2> QED
      BY <1>1, <2>3 DEF PatchInv, PatchesAccounted
  <1> QED
    BY <1>2, <1>3 DEF PatchLoads

LEMMA FailAccounts ==
  ASSUME PatchInv, NEW p, PatchFails(p)
  PROVE  PatchInv'
  <1>1. ptLoading' = ptLoading \ {p}
    BY DEF PatchFails
  <1>2. CASE UNCHANGED <<ptLoaded, ptTextures>>
    BY <1>1, <1>2 DEF PatchInv, PatchesAccounted
  <1>3. CASE Settle(ptCurrent, ptLoaded, ptFailed \cup {p}, ptTextures)
    <2>1. Settle(ptCurrent, ptLoaded, ptFailed \cup {p}, Cardinality(ptLoaded))
      BY <1>3 DEF PatchInv, PatchesAccounted
    <2>2. /\ IsFiniteSet(ptLoaded') /\ ptLoaded' \subseteq ptLoaded
          /\ ptTextures' = Cardinality(ptLoaded')
      BY <2>1, SettleAccounts DEF PatchInv
    <2> QED
      BY <1>1, <2>2 DEF PatchInv, PatchesAccounted
  <1> QED
    BY <1>2, <1>3 DEF PatchFails, SettleFailed

LEMMA LeaveAccounts ==
  ASSUME PatchInv, LeavePatches
  PROVE  PatchInv'
  <1>1. ptLoaded' = {} /\ ptTextures' = Cardinality(ptLoaded) - Cardinality(ptLoaded)
    BY DEF LeavePatches, PatchInv, PatchesAccounted
  <1>2. Cardinality(ptLoaded) \in Nat
    BY FS_CardinalityType DEF PatchInv
  <1>3. ptTextures' = 0
    BY <1>1, <1>2
  <1>4. IsFiniteSet({}) /\ Cardinality({}) = 0
    BY FS_EmptySet
  <1> QED
    BY <1>1, <1>3, <1>4 DEF PatchInv, PatchesAccounted

LEMMA PatchStep ==
  ASSUME PatchInv, [TilesNext]_tilesVars
  PROVE  PatchInv'
  <1>1. ASSUME UNCHANGED patchVars PROVE PatchInv'
    BY <1>1 DEF PatchInv, PatchesAccounted, patchVars
  <1>2. ASSUME NEW l \in Looks, CameraMoves(l) PROVE UNCHANGED patchVars
    BY <1>2 DEF CameraMoves, ViewTurn
  <1>3. ASSUME NEW r \in Ranges, Retuned(r) PROVE UNCHANGED patchVars
    BY <1>3 DEF Retuned, ViewTurn
  <1>4. CASE Toggled \/ CheckView \/ UNCHANGED tilesVars
    BY <1>1, <1>4 DEF Toggled, ViewTurn, CheckView, tilesVars
  <1>5. ASSUME NEW p \in Patches, Answered(p) PROVE PatchInv'
    BY <1>5, LoadAccounts, FailAccounts DEF Answered
  <1> QED
    BY <1>1, <1>2, <1>3, <1>4, <1>5, ListedAccounts, LeaveAccounts DEF TilesNext

-----------------------------------------------------------------------------
(* Types.  Each component's variables keep their types by what else is     *)
(* known of them: an answer is there when its request is over, a selected  *)
(* edge is one that was seen.                                              *)

\* The exercise's state (ExerciseStatus): a request or command under way has an answer.
StatusTyped ==
    /\ StatusTypeOK
    /\ \A i \in PollSlots : exPoll[i].code = "none" => exPoll[i] = NoPoll
    /\ exCommand # NoCommand => exCommand.op # "none" /\ exCommand.answer # "none"

LEMMA StatusBegins == StatusInit => StatusTyped
  BY DEF StatusInit, StatusTyped, StatusTypeOK, Status, Commands, NoPoll, NoCommand

LEMMA StatusStep == StatusTyped /\ [StatusNext]_statusVars => StatusTyped'
  <1> SUFFICES ASSUME StatusTyped, [StatusNext]_statusVars PROVE StatusTyped'
    OBVIOUS
  <1> DEFINE Kinds == {"loading", "absent", "forbidden", "ok"}
             States == [kind : Kinds, status : Status \cup {"null"}, stale : BOOLEAN, refusal : BOOLEAN]
             Polls == [code : {"none", "ok", "denied", "absent", "failed"}, status : Status \cup {"null"}]
             PollsOK(p) == p \in [PollSlots -> Polls] /\ \A i \in PollSlots : p[i].code = "none" => p[i] = NoPoll
  <1>0. exState \in States /\ PollsOK(exPoll)
    BY DEF StatusTyped, StatusTypeOK
  <1>1. CASE UNCHANGED statusVars
    BY <1>1 DEF statusVars, StatusTyped, StatusTypeOK
  <1>2. CASE ServiceChanges
    BY <1>2 DEF ServiceChanges, StatusTyped, StatusTypeOK
  <1>3. CASE CommandHandled
    <2>1. exCommand.op \in Commands /\ exCommand.answer \in {"accepted", "denied", "absent", "conflict", "failed"}
      BY <1>3 DEF CommandHandled, StatusTyped, StatusTypeOK
    <2>2. exState' \in States
      BY <1>0, <1>3, <2>1 DEF CommandHandled, Ran, Absent, Status, Commands
    <2> QED
      BY <1>3, <2>2 DEF CommandHandled, StatusTyped, StatusTypeOK, NoCommand
  <1>4. ASSUME NEW i \in PollSlots, Poll(i) PROVE StatusTyped'
    <2>1. PICK code \in {"ok", "denied", "absent", "failed"} :
             exPoll' = [exPoll EXCEPT ![i] = [code |-> code, status |-> IF code = "ok" THEN exService ELSE "null"]]
      BY <1>4 DEF Poll
    <2>2. PollsOK(exPoll')
      BY <1>0, <2>1 DEF StatusTyped, StatusTypeOK
    <2> QED
      BY <1>4, <2>2 DEF Poll, StatusTyped, StatusTypeOK
  <1>5. ASSUME NEW i \in PollSlots, PollHandled(i) PROVE StatusTyped'
    <2>1. exPoll[i].code \in {"ok", "denied", "absent", "failed"} /\ exPoll[i].status \in Status \cup {"null"}
      BY <1>0, <1>5 DEF PollHandled
    <2>2. exState' \in States
      BY <1>0, <1>5, <2>1 DEF PollHandled, Polled, Absent, Forbidden
    <2>3. PollsOK(exPoll')
      BY <1>0, <1>5 DEF PollHandled, NoPoll
    <2> QED
      BY <1>5, <2>2, <2>3 DEF PollHandled, StatusTyped, StatusTypeOK
  <1>6. ASSUME NEW op \in Commands, RunOp(op) PROVE StatusTyped'
    <2>1. PICK answer \in {"accepted", "denied", "absent", "conflict", "failed"} :
             exCommand' = [op |-> op, answer |-> answer]
      BY <1>6 DEF RunOp
    <2>2. exService' \in Status
      BY <1>6 DEF RunOp, Status, StatusTyped, StatusTypeOK
    <2>3. op # "none"
      BY DEF Commands
    <2> QED
      BY <1>6, <2>1, <2>2, <2>3 DEF RunOp, StatusTyped, StatusTypeOK
  <1> QED
    BY <1>1, <1>2, <1>3, <1>4, <1>5, <1>6 DEF StatusNext

\* The maintainer page (Maintainer): what the feeds have said is of edges and assets.
MaintainerTyped ==
    /\ MaintainerTypeOK
    /\ mtWorld \in [Assets -> Edges \cup {0}] /\ mtAll.at \in [Assets -> Edges \cup {0}]
    /\ mtWithheld \subseteq Edges

LEMMA EdgesAvailable ==
  ASSUME MaintainerTyped
  PROVE  AvailableEdges \subseteq Edges /\ (AvailableEdges # {} => Min(AvailableEdges) \in Edges)
  <1>1. AvailableEdges \subseteq Edges
    BY DEF MaintainerTyped, MaintainerTypeOK, AvailableEdges
  <1>2. AvailableEdges \in SUBSET Nat
    BY <1>1, MaintainerAssumption
  <1> QED
    BY <1>1, <1>2, SmallestOf

LEMMA MaintainerBegins == MaintainerInit => MaintainerTyped
  <1> SUFFICES ASSUME MaintainerInit PROVE MaintainerTyped
    OBVIOUS
  <1>1. Edges \in SUBSET Nat /\ Edges # {}
    BY MaintainerAssumption
  <1>2. Min(Edges) \in Edges
    BY <1>1, SmallestOf
  <1> QED
    BY <1>2, MaintainerAssumption DEF MaintainerInit, MaintainerTyped, MaintainerTypeOK, NoRows

LEMMA MaintainerStep == MaintainerTyped /\ [MaintainerNext]_maintainerVars => MaintainerTyped'
  <1> SUFFICES ASSUME MaintainerTyped, [MaintainerNext]_maintainerVars PROVE MaintainerTyped'
    OBVIOUS
  <1> USE DEF MaintainerTyped, MaintainerTypeOK
  <1>0. Fleet \subseteq Assets
    BY DEF Fleet
  <1>1. CASE UNCHANGED maintainerVars
    BY <1>1 DEF maintainerVars, mtFeeds, mtPage
  <1>2. CASE Effects
    <2>1. mtEdge' \in Edges \cup {0}
      BY <1>2, EdgesAvailable DEF Effects, EdgeEffect
    <2>2. mtAsset' \in Assets \cup {""} /\ mtPending' \in {UrlAsset, "none"}
      BY <1>0, <1>2 DEF Effects, Rehome
    <2>3. mtScoped'.rows \subseteq Assets
      BY <1>2 DEF Effects, NewScope, NoRows
    <2>4. mtDue' \in BOOLEAN
      BY <1>2 DEF Effects
    <2> QED
      BY <1>2, <2>1, <2>2, <2>3, <2>4 DEF Effects
  <1>3. CASE AssetMoves
    BY <1>3 DEF AssetMoves, mtFeeds, mtPage
  <1>4. CASE AssetsWithheld
    BY <1>4 DEF AssetsWithheld, mtFeeds, mtPage
  <1>5. CASE AllComes \/ ScopedComes \/ ClassesCome
    <2>1. mtDue' = TRUE
      BY <1>5 DEF AllComes, ScopedComes, ClassesCome, Commit
    <2>2. mtAll'.at = mtAll.at \/ mtAll'.at = mtWorld
      <3>1. CASE AllComes
        <4>1. mtAll' = [known |-> TRUE, at |-> mtWorld]
          BY ONLY <3>1 DEF AllComes
        <4> QED
          BY ONLY <4>1
      <3>2. CASE ScopedComes \/ ClassesCome
        BY <3>2 DEF ScopedComes, ClassesCome
      <3> QED
        BY <1>5, <3>1, <3>2
    <2>3. mtAll'.at \in [Assets -> Edges \cup {0}]
      BY <2>2
    <2>4. mtScoped'.rows = mtScoped.rows \/ mtScoped'.rows = {a \in Assets : mtWorld[a] = mtEdge}
      <3>1. CASE ScopedComes
        <4>1. mtScoped' = [known |-> TRUE, rows |-> {a \in Assets : mtWorld[a] = mtEdge}]
          BY ONLY <3>1 DEF ScopedComes
        <4> QED
          BY ONLY <4>1
      <3>2. CASE AllComes \/ ClassesCome
        BY <3>2 DEF AllComes, ClassesCome
      <3> QED
        BY <1>5, <3>1, <3>2
    <2>5. mtScoped'.rows \subseteq Assets
      BY <2>4
    <2>6. UNCHANGED <<mtWorld, mtWithheld, mtSummary, mtEdge, mtAsset, mtPending, mtSwitch>>
      BY <1>5 DEF AllComes, ScopedComes, ClassesCome
    <2> QED
      BY <2>1, <2>3, <2>5, <2>6
  <1>9. CASE SummaryComes
    <2>1. mtSummary' = [state |-> "ok", edges |-> mtWithheld] \/ mtSummary' = [state |-> "error", edges |-> {}]
      BY ONLY <1>9 DEF SummaryComes
    <2>3. mtSummary'.edges = mtWithheld \/ mtSummary'.edges = {}
      BY ONLY <2>1
    <2>2. mtSummary'.edges \subseteq Edges
      BY <2>3
    <2> QED
      BY <1>9, <2>2 DEF SummaryComes, Commit
  <1>6. CASE SelectEdge
    BY <1>6, EdgesAvailable DEF SelectEdge, NewScope, NoRows, Commit
  <1>7. CASE SwitcherOpens \/ SwitcherCloses
    BY <1>7 DEF SwitcherOpens, SwitcherCloses, mtFeeds
  <1>8. CASE ChooseAsset \/ FollowAlert
    BY <1>0, <1>8 DEF ChooseAsset, FollowAlert, mtFeeds, Commit
  <1> QED
    BY <1>1, <1>2, <1>3, <1>4, <1>5, <1>6, <1>7, <1>8, <1>9 DEF MaintainerNext

\* The levels (ElementLevels) keep their types by themselves.
LEMMA LevelsBegin == LevelsInit => LevelsTypeOK
  BY DEF LevelsInit, LevelsTypeOK

LEMMA ReleasesTyped ==
  ASSUME LevelsTypeOK, NEW vs \in SUBSET Views, Release(vs)
  PROVE  lvSent' \in [Views -> Nat] /\ lvDeletes' \subseteq Views
  BY DEF LevelsTypeOK, Release

LEMMA SweepTyped ==
  ASSUME LevelsTypeOK
  PROVE  /\ Sweep(gwHolder) \in [Views -> {"none", "fresh", "idle"}]
         /\ \A h : GraceAfter(h, gwGrace) \in [Views -> {"none", "running", "fired"}]
  BY DEF LevelsTypeOK, Sweep, GraceAfter

LEMMA PageTyped ==
  ASSUME LevelsTypeOK,
         PageHides \/ \E v \in Views : OpenLevel(v) \/ ReadLevel(v) \/ CloseLevel(v) \/ Remount(v)
  PROVE  LevelsTypeOK'
  <1> USE DEF LevelsTypeOK
  <1>1. CASE PageHides
    <2>1. lvSent' \in [Views -> Nat] /\ lvDeletes' \subseteq Views
      BY <1>1, ReleasesTyped DEF PageHides
    <2> QED
      BY <1>1, <2>1 DEF PageHides, gatewayVars
  <1>2. ASSUME NEW v \in Views, OpenLevel(v) \/ ReadLevel(v) \/ Remount(v) PROVE LevelsTypeOK'
    BY <1>2 DEF OpenLevel, ReadLevel, Remount, pageVars, wireVars, gatewayVars
  <1>3. ASSUME NEW v \in Views, CloseLevel(v) PROVE LevelsTypeOK'
    <2>1. lvSent' \in [Views -> Nat] /\ lvDeletes' \subseteq Views
      BY <1>3, ReleasesTyped DEF CloseLevel
    <2> QED
      BY <1>3, <2>1 DEF CloseLevel, gatewayVars
  <1> QED
    BY <1>1, <1>2, <1>3

LEMMA GatewayTyped ==
  ASSUME LevelsTypeOK, Swept \/ \E v \in Views : ReadHandled(v) \/ DeleteHandled(v) \/ UpstreamFails(v)
  PROVE  LevelsTypeOK'
  <1> USE DEF LevelsTypeOK
  <1>1. CASE Swept
    BY <1>1, SweepTyped DEF Swept, pageVars, wireVars
  <1>2. ASSUME NEW v \in Views, ReadHandled(v) PROVE LevelsTypeOK'
    <2>1. lvSub' \in [Views -> {"closed", "open", "released", "refused"}]
      BY <1>2 DEF ReadHandled
    <2>2. gwHolder' \in [Views -> {"none", "fresh", "idle"}] /\ gwGrace' \in [Views -> {"none", "running", "fired"}]
      BY <1>2, SweepTyped DEF ReadHandled
    <2> QED
      BY <1>2, <2>1, <2>2 DEF ReadHandled
  <1>3. ASSUME NEW v \in Views, Released(v)
        PROVE  /\ gwHolder' \in [Views -> {"none", "fresh", "idle"}]
               /\ gwGrace' \in [Views -> {"none", "running", "fired"}]
    BY <1>3, SweepTyped DEF Released
  <1>4. ASSUME NEW v \in Views, DeleteHandled(v) \/ UpstreamFails(v) PROVE LevelsTypeOK'
    <2>1. Released(v)
      BY <1>4 DEF DeleteHandled, UpstreamFails
    <2> QED
      BY <1>3, <1>4, <2>1 DEF DeleteHandled, UpstreamFails, Released, pageVars, wireVars
  <1> QED
    BY <1>1, <1>2, <1>4

LEMMA TimersTyped ==
  ASSUME LevelsTypeOK,
         \E v \in Views : DeleteLost(v) \/ HolderIdles(v) \/ GraceFires(v) \/ GraceExpired(v)
  PROVE  LevelsTypeOK'
  <1> USE DEF LevelsTypeOK
  <1>1. ASSUME NEW v \in Views, DeleteLost(v) \/ HolderIdles(v) PROVE LevelsTypeOK'
    BY <1>1 DEF DeleteLost, HolderIdles, pageVars, wireVars, gatewayVars
  <1>2. ASSUME NEW v \in Views, GraceFires(v) \/ GraceExpired(v) PROVE LevelsTypeOK'
    <2>1. gwDue' \in [Views -> 0..2]
      BY <1>2 DEF GraceFires, GraceExpired
    <2>2. gwView' \subseteq Views /\ gwGrace' \in [Views -> {"none", "running", "fired"}]
      BY <1>2 DEF GraceFires, GraceExpired
    <2> QED
      BY <1>2, <2>1, <2>2 DEF GraceFires, GraceExpired, pageVars, wireVars
  <1> QED
    BY <1>1, <1>2

LEMMA LevelsStep == LevelsTypeOK /\ [LevelsNext]_levelVars => LevelsTypeOK'
  <1>1. ASSUME LevelsTypeOK, UNCHANGED levelVars PROVE LevelsTypeOK'
    BY <1>1 DEF LevelsTypeOK, levelVars, pageVars, wireVars, gatewayVars
  <1> QED
    BY <1>1, PageTyped, GatewayTyped, TimersTyped DEF LevelsNext

\* The drill-down (Drilldown): a path has no more names than there are layers.
DrillTyped ==
    /\ DrillInv
    /\ dvAsset \in DrillAssets /\ dvSelected \in Paths /\ dvLevels \subseteq Paths \ {<< >>}
    /\ dvBusy \in BOOLEAN /\ dvPop \in BOOLEAN
    /\ dvDrill \in [path : Paths, depth : 0..Layers - 1]

LEMMA IsPath ==
  ASSUME NEW s \in Seq(Names), Len(s) <= Layers
  PROVE  s \in Paths
  <1>1. Layers \in Nat
    BY DrillAssumption
  <1> DEFINE n == Len(s)
  <1>2. n \in 0..Layers /\ s \in [1..n -> Names]
    BY <1>1
  <1> HIDE DEF n
  <1> QED
    BY <1>2 DEF Paths, SeqOf

LEMMA ElementIsPath ==
  ASSUME DrillInv, NEW path \in Elements
  PROVE  path \in Paths
  <1>1. PICK n \in Names : path = Append(dvParent, n)
    BY DEF Elements
  <1>2. path \in Seq(Names) /\ Len(path) = dvDepth + 1
    BY <1>1 DEF DrillInv, ShownLevelIsOpen
  <1>3. dvDepth + 1 <= Layers
    BY DrillAssumption DEF DrillInv
  <1> QED
    BY <1>2, <1>3, IsPath

LEMMA NoDrillTyped == NoDrill \in [path : Paths, depth : 0..Layers - 1] /\ << >> \in Paths
  <1>1. Layers \in Nat /\ 0 \in 0..(Layers - 1) /\ << >> \in Seq(Names) /\ Len(<< >>) <= Layers
    BY DrillAssumption
  <1>2. << >> \in Paths
    BY <1>1, IsPath
  <1> QED
    BY <1>1, <1>2 DEF NoDrill

LEMMA DrillBeginsTyped == DrillInit => DrillTyped
  <1> SUFFICES ASSUME DrillInit PROVE DrillTyped
    OBVIOUS
  <1>1. dvAsset \in DrillAssets
    BY DrillAssumption DEF DrillInit
  <1> QED
    BY <1>1, DrillStarts, NoDrillTyped DEF DrillInit, DrillTyped

LEMMA DrillTypedStep == DrillTyped /\ [DrillNext]_drillVars => DrillTyped'
  <1> SUFFICES ASSUME DrillTyped, [DrillNext]_drillVars PROVE DrillTyped'
    OBVIOUS
  <1> DEFINE Drills == [path : Paths, depth : 0..Layers - 1]
  <1>0. DrillInv /\ DrillInv' /\ NoDrill \in Drills /\ << >> \in Paths
    BY DrillStep, NoDrillTyped DEF DrillTyped
  <1>1. CASE UNCHANGED drillVars
    BY <1>0, <1>1 DEF DrillTyped, drillVars
  <1>2. CASE SelectElement
    <2>1. dvSelected' \in Paths
      BY <1>0, <1>2, ElementIsPath DEF SelectElement
    <2>2. dvDrill' \in Drills
      BY <1>0, <1>2 DEF SelectElement, DrillTyped
    <2> QED
      BY <1>0, <1>2, <2>1, <2>2 DEF SelectElement, DrillTyped
  <1>3. CASE PointerMissed \/ PopEnds
    BY <1>0, <1>3 DEF PointerMissed, PopEnds, DrillTyped
  <1>4. CASE DrillBegins
    <2>1. PICK path \in Elements :
             dvDrill' = IF dvDrill.path \in {path, << >>} THEN [path |-> path, depth |-> dvDepth] ELSE dvDrill
      BY <1>4 DEF DrillBegins
    <2>2. path \in Paths /\ dvDepth \in 0..Layers - 1
      BY <1>0, ElementIsPath DEF DrillInv
    <2>3. dvDrill' \in Drills
      BY <2>1, <2>2 DEF DrillTyped
    <2> QED
      BY <1>0, <1>4, <2>3 DEF DrillBegins, DrillTyped
  <1>5. CASE DrillEnds
    <2>1. dvDrill' \in Drills /\ dvPop' \in BOOLEAN
      BY <1>0, <1>5 DEF DrillEnds, DepthEffect, DrillTyped
    <2>2. dvDrill.path \in Paths /\ dvDrill.path # << >>
      BY <1>0, <1>5 DEF DrillEnds, DrillInv, DrillIsOneDown, DrillTyped
    <2>3. dvLevels' \subseteq Paths \ {<< >>}
      BY <1>5, <2>2 DEF DrillEnds, LevelsAfterDrill, DrillTyped
    <2> QED
      BY <1>0, <1>5, <2>1, <2>3 DEF DrillEnds, DrillTyped
  <1>6. CASE AssetChanges
    <2>1. dvDrill' \in Drills /\ dvPop' \in BOOLEAN
      BY <1>0, <1>6 DEF AssetChanges, DepthEffect, DrillTyped
    <2> QED
      BY <1>0, <1>6, <2>1 DEF AssetChanges, DrillTyped
  <1> QED
    BY <1>1, <1>2, <1>3, <1>4, <1>5, <1>6 DEF DrillNext

LEMMA DrillTypes == DrillTyped => DrillTypeOK
  <1> SUFFICES ASSUME DrillTyped PROVE DrillTypeOK
    OBVIOUS
  <1>1. dvParent \in Seq(Names) /\ Len(dvParent) = dvDepth /\ dvDepth \in 0..(Layers - 1)
    BY DEF DrillTyped, DrillInv, ShownLevelIsOpen
  <1>2. dvParent \in Paths
    BY <1>1, IsPath, DrillAssumption
  <1> QED
    BY <1>1, <1>2 DEF DrillTyped, DrillTypeOK

\* The link (Links): a change under way has a value of its kind.
ShownEntries == [up : Ups \cup {"null"}, shape : Shapes \cup {"null"}] \cup {Absent2}
Drafts == [up : Ups \cup {"null"}, shape : Shapes, seen : Ups \cup {"null"}]
SetPosts == [kind : {"set"}, value : Ups, previous : Ups \cup {"null"}, applied : BOOLEAN]
ShapePosts == [kind : {"shape"}, value : Shapes, previous : {"none"}, applied : BOOLEAN]
SentPosts == SetPosts \cup ShapePosts

LinkTyped == LinkTypeOK /\ lkPosts \in [Posts -> SentPosts \cup {NoPost}]

LEMMA LinkBeginsTyped == LinkInit => LinkTyped
  <1> SUFFICES ASSUME LinkInit PROVE LinkTyped
    OBVIOUS
  <1>1. lkReal \in [up : Ups, shape : Shapes]
    BY LinkAssumption DEF LinkInit, Ups
  <1>2. lkPosts \in [Posts -> SentPosts \cup {NoPost}] /\ \A p \in Posts : lkPosts[p] = NoPost
    BY DEF LinkInit
  <1>3. lkReads \in [Reads -> [up : Ups, shape : Shapes] \cup {Idle, Asked}] /\ lkTurns \in 0..MaxTurns
    BY LinkAssumption DEF LinkInit
  <1> QED
    BY <1>1, <1>2, <1>3 DEF LinkInit, LinkTyped, LinkTypeOK

LEMMA SentAreApart ==
  /\ NoPost \notin SentPosts
  /\ \A post \in SentPosts : post \in [kind : {"set", "shape"}, value : Ups \cup Shapes,
                                       previous : Ups \cup {"null", "none"}, applied : BOOLEAN]
  /\ \A post \in SentPosts : post.kind = "set" => post \in SetPosts
  /\ \A post \in SentPosts : post.kind # "set" => post \in ShapePosts
  BY DEF NoPost, SentPosts, SetPosts, ShapePosts

\* The posts keep their type when all of them are sent ones or free.
LEMMA PostsTyped ==
  ASSUME lkPosts' \in [Posts -> SentPosts \cup {NoPost}], NEW p \in Posts
  PROVE  lkPosts'[p] = NoPost \/
          lkPosts'[p] \in [kind : {"set", "shape"}, value : Ups \cup Shapes,
                           previous : Ups \cup {"null", "none"}, applied : BOOLEAN]
  BY SentAreApart

LEMMA SendTyped ==
  ASSUME LinkTyped, NEW posts \in SUBSET SentPosts, SendAll(posts)
  PROVE  lkPosts' \in [Posts -> SentPosts \cup {NoPost}]
  <1> DEFINE place == CHOOSE f \in Injection(posts, FreePost) : TRUE
  <1>1. place \in [posts -> FreePost]
    BY DEF SendAll, Injection
  <1>2. lkPosts' = [p \in Posts |-> IF p \in Range(place) THEN AntiFunction(place)[p] ELSE lkPosts[p]]
    BY DEF SendAll
  <1> HIDE DEF place
  <1>3. ASSUME NEW p \in Range(place) PROVE AntiFunction(place)[p] \in posts
    <2>1. \E s \in posts : place[s] = p
      BY <1>1 DEF Range
    <2>2. AntiFunction(place)[p] = CHOOSE s \in posts : p \in Range(place) => place[s] = p
      BY <1>1 DEF AntiFunction, Inverse
    <2> QED
      BY <2>1, <2>2
  <1> QED
    BY <1>2, <1>3 DEF LinkTyped

LEMMA ShowTyped ==
  ASSUME LinkTyped, NEW status \in {"loading", "ready", "off", "failed"}, NEW entry \in ShownEntries,
         Show(status, entry)
  PROVE  /\ lkStatus' \in {"loading", "ready", "off", "failed"} /\ lkShown' \in ShownEntries
         /\ lkDraft' \in Drafts \cup {NoDraft}
  BY DEF Show, DraftSeen, LinkTyped, LinkTypeOK, Drafts, Ups

LEMMA EntriesTyped ==
  ASSUME LinkTyped
  PROVE  /\ lkShown \in ShownEntries /\ Forgotten \in ShownEntries /\ Absent2 \in ShownEntries
         /\ \A up \in Ups \cup {"null"} : WithUp(up) \in ShownEntries
         /\ \A listed \in [up : Ups, shape : Shapes] : Adopt(listed) \in ShownEntries
  BY DEF LinkTyped, LinkTypeOK, ShownEntries, Forgotten, WithUp, Adopt

\* Where the panel works, the link is shown with a shape.
LEMMA PanelShows ==
  ASSUME LinkTyped, PanelOn
  PROVE  lkShown.up \in Ups \cup {"null"} /\ lkShown.shape \in Shapes
  BY LinkAssumption DEF LinkTyped, LinkTypeOK, PanelOn, Absent2

LEMMA ListingTyped ==
  ASSUME AskListing, lkReads \in [Reads -> [up : Ups, shape : Shapes] \cup {Idle, Asked}]
  PROVE  lkReads' \in [Reads -> [up : Ups, shape : Shapes] \cup {Idle, Asked}]
  BY DEF AskListing

LEMMA LinkReadsTyped ==
  ASSUME LinkTyped,
         RefreshBegins \/ ClickRow \/ OthersChange
           \/ \E r \in Reads : ListingTaken(r) \/ ListingCame(r) \/ ListingFailed(r)
  PROVE  LinkTyped'
  <1> USE DEF LinkTyped, LinkTypeOK
  <1>1. CASE RefreshBegins
    BY <1>1, ListingTyped DEF RefreshBegins
  <1>2. CASE ClickRow
    <2>1. lkOpen' \in BOOLEAN
      BY <1>2, Zenon DEF ClickRow
    <2> QED
      BY <1>2, <2>1 DEF ClickRow
  <1>3. CASE OthersChange
    <2>1. lkReal' \in [up : Ups, shape : Shapes] /\ lkTurns' \in 0..MaxTurns
      BY <1>3, LinkAssumption DEF OthersChange, Turn
    <2> QED
      BY <1>3, <2>1 DEF OthersChange
  <1>4. ASSUME NEW r \in Reads, ListingTaken(r) PROVE LinkTyped'
    BY <1>4 DEF ListingTaken
  <1>5. ASSUME NEW r \in Reads, ListingCame(r) PROVE LinkTyped'
    <2>1. lkReads[r] \in [up : Ups, shape : Shapes]
      BY <1>5 DEF ListingCame
    <2>2. Adopt(lkReads[r]) \in ShownEntries
      BY <2>1, EntriesTyped
    <2>3. /\ lkStatus' \in {"loading", "ready", "off", "failed"} /\ lkShown' \in ShownEntries
          /\ lkDraft' \in Drafts \cup {NoDraft}
      BY <1>5, <2>2, ShowTyped DEF ListingCame
    <2>4. lkReads' \in [Reads -> [up : Ups, shape : Shapes] \cup {Idle, Asked}]
      BY <1>5 DEF ListingCame
    <2> QED
      BY <1>5, <2>3, <2>4 DEF ListingCame, ShownEntries, Drafts
  <1>6. ASSUME NEW r \in Reads, ListingFailed(r) PROVE LinkTyped'
    <2>1. /\ lkStatus' \in {"loading", "ready", "off", "failed"} /\ lkShown' \in ShownEntries
          /\ lkDraft' \in Drafts \cup {NoDraft}
      BY <1>6, EntriesTyped, ShowTyped DEF ListingFailed
    <2>2. lkReads' \in [Reads -> [up : Ups, shape : Shapes] \cup {Idle, Asked}]
      BY <1>6 DEF ListingFailed
    <2>3. lkTurns' \in 0..MaxTurns
      BY <1>6, LinkAssumption DEF ListingFailed, Turn
    <2> QED
      BY <1>6, <2>1, <2>2, <2>3 DEF ListingFailed, ShownEntries, Drafts
  <1> QED
    BY <1>1, <1>2, <1>3, <1>4, <1>5, <1>6

LEMMA ChangeEndsTyped ==
  ASSUME LinkTyped, NEW p \in Posts, NEW failed \in BOOLEAN, NEW status \in {lkStatus, "failed"},
         ChangeEnds(p, failed, status), lkTurns' \in 0..MaxTurns
  PROVE  LinkTyped'
  <1> USE DEF LinkTyped, LinkTypeOK
  <1>1. lkPosts[p] \in SentPosts
    BY DEF ChangeEnds
  <1>2. lkPosts[p].kind = "set" => WithUp(lkPosts[p].previous) \in ShownEntries
    BY <1>1, SentAreApart, EntriesTyped DEF SetPosts
  <1>3. /\ lkStatus' \in {"loading", "ready", "off", "failed"} /\ lkShown' \in ShownEntries
        /\ lkDraft' \in Drafts \cup {NoDraft}
    BY <1>2, EntriesTyped, ShowTyped DEF ChangeEnds
  <1>4. lkReads' \in [Reads -> [up : Ups, shape : Shapes] \cup {Idle, Asked}]
    BY ListingTyped DEF ChangeEnds
  <1>5. lkPosts' \in [Posts -> SentPosts \cup {NoPost}]
    BY DEF ChangeEnds
  <1>6. lkInFlight' \in BOOLEAN
    BY DEF ChangeEnds, FlightAfter
  <1>7. UNCHANGED <<lkReal, lkOpen>>
    BY DEF ChangeEnds
  <1> QED
    BY <1>3, <1>4, <1>5, <1>6, <1>7, PostsTyped DEF ShownEntries, Drafts

LEMMA LinkChangesTyped ==
  ASSUME LinkTyped, \E p \in Posts : ChangeMade(p) \/ ChangeDone(p) \/ ChangeFails(p)
  PROVE  LinkTyped'
  <1>1. ASSUME NEW p \in Posts, ChangeMade(p) PROVE LinkTyped'
    <2> USE DEF LinkTyped, LinkTypeOK
    <2>1. lkPosts[p] \in SentPosts
      BY <1>1 DEF ChangeMade
    <2>2. [lkPosts[p] EXCEPT !.applied = TRUE] \in SentPosts
      BY <2>1 DEF SentPosts, SetPosts, ShapePosts
    <2>3. lkPosts' \in [Posts -> SentPosts \cup {NoPost}]
      BY <1>1, <2>2 DEF ChangeMade
    <2>4. lkReal' \in [up : Ups, shape : Shapes]
      BY <1>1, <2>1, SentAreApart DEF ChangeMade, SetPosts, ShapePosts
    <2> QED
      BY <1>1, <2>3, <2>4, PostsTyped DEF ChangeMade
  <1>2. ASSUME NEW p \in Posts, ChangeDone(p) PROVE LinkTyped'
    BY <1>2, ChangeEndsTyped DEF ChangeDone, LinkTyped, LinkTypeOK
  <1>3. ASSUME NEW p \in Posts, ChangeFails(p) PROVE LinkTyped'
    <2>1. lkTurns' \in 0..MaxTurns
      BY <1>3, LinkAssumption DEF ChangeFails, Turn, LinkTyped, LinkTypeOK
    <2> QED
      BY <1>3, <2>1, ChangeEndsTyped DEF ChangeFails
  <1> QED
    BY <1>1, <1>2, <1>3

LEMMA LinkPanelTyped ==
  ASSUME LinkTyped, Toggle \/ Slide \/ ChoosePreset \/ Apply \/ ClearShape
  PROVE  LinkTyped'
  <1> USE DEF LinkTyped, LinkTypeOK
  <1>1. CASE Toggle
    <2>1. PICK up \in Ups : SendAll({SentUp(up)}) /\ Show(lkStatus, WithUp(up))
      BY <1>1 DEF Toggle
    <2>2. SentUp(up) \in SentPosts
      BY <1>1 DEF Toggle, ToggleOn, SentUp, SentPosts, SetPosts
    <2>3. lkPosts' \in [Posts -> SentPosts \cup {NoPost}]
      BY <2>1, <2>2, SendTyped
    <2>4. /\ lkStatus' \in {"loading", "ready", "off", "failed"} /\ lkShown' \in ShownEntries
          /\ lkDraft' \in Drafts \cup {NoDraft}
      BY <2>1, EntriesTyped, ShowTyped
    <2>5. lkTurns' \in 0..MaxTurns
      BY <1>1, LinkAssumption DEF Toggle, Turn
    <2> QED
      BY <1>1, <2>3, <2>4, <2>5, PostsTyped DEF Toggle, ShownEntries, Drafts
  <1>2. CASE Slide
    <2>1. lkDraft' \in Drafts
      BY <1>2, PanelShows DEF Slide, Drafts
    <2> QED
      BY <1>2, <2>1 DEF Slide, Drafts
  <1>3. CASE ChoosePreset
    <2>1. PICK v \in Presets : lkDraft' = [up |-> v.up, shape |-> v.shape, seen |-> lkShown.up]
      BY <1>3 DEF ChoosePreset
    <2>2. v \in [up : Ups, shape : Shapes]
      BY LinkAssumption DEF Ups
    <2>3. lkDraft' \in Drafts
      BY <1>3, <2>1, <2>2, PanelShows DEF ChoosePreset, Drafts
    <2> QED
      BY <1>3, <2>3 DEF ChoosePreset, Drafts
  <1>4. CASE Apply
    <2> DEFINE base == IF lkDraft # NoDraft THEN lkDraft
                       ELSE [up |-> "null", shape |-> lkShown.shape, seen |-> "null"]
               up == IF base.up = "null" THEN AppliedUp ELSE base.up
    <2>1. lkShown.up \in Ups \cup {"null"} /\ lkShown.shape \in Shapes
      BY <1>4, PanelShows DEF Apply
    <2>2. base.shape \in Shapes /\ up \in Ups
      BY <2>1 DEF AppliedUp, Ups
    <2>3. \/ SendAll({SentShape(base.shape)}) /\ UNCHANGED <<lkShown, lkInFlight>>
          \/ SendAll({SentShape(base.shape), SentUp(up)}) /\ lkShown' = WithUp(up) /\ lkInFlight' = TRUE
      BY <1>4 DEF Apply
    <2> HIDE DEF base, up
    <2>4. SentShape(base.shape) \in SentPosts /\ SentUp(up) \in SentPosts
      BY <2>1, <2>2 DEF SentShape, SentUp, SentPosts, SetPosts, ShapePosts
    <2>5. lkPosts' \in [Posts -> SentPosts \cup {NoPost}]
      <3>1. {SentShape(base.shape)} \in SUBSET SentPosts /\ {SentShape(base.shape), SentUp(up)} \in SUBSET SentPosts
        BY <2>4
      <3> QED
        BY <2>3, <3>1, SendTyped
    <2>6. lkShown' \in ShownEntries /\ lkInFlight' \in BOOLEAN
      BY <2>2, <2>3, EntriesTyped
    <2>7. lkTurns' \in 0..MaxTurns
      BY <1>4, LinkAssumption DEF Apply, Turn
    <2>8. lkDraft' = NoDraft /\ UNCHANGED <<lkReal, lkStatus, lkReads, lkOpen>>
      BY <1>4 DEF Apply
    <2> QED
      BY <2>5, <2>6, <2>7, <2>8, PostsTyped DEF ShownEntries
  <1>5. CASE ClearShape
    <2>1. SentShape(ZeroShape) \in SentPosts
      BY LinkAssumption DEF SentShape, SentPosts, ShapePosts
    <2>2. lkPosts' \in [Posts -> SentPosts \cup {NoPost}]
      BY <1>5, <2>1, SendTyped DEF ClearShape
    <2>3. lkTurns' \in 0..MaxTurns
      BY <1>5, LinkAssumption DEF ClearShape, Turn
    <2> QED
      BY <1>5, <2>2, <2>3, PostsTyped DEF ClearShape
  <1> QED
    BY <1>1, <1>2, <1>3, <1>4, <1>5

LEMMA LinkTypedStep == LinkTyped /\ [LinkNext]_linkVars => LinkTyped'
  <1>1. ASSUME LinkTyped, UNCHANGED linkVars PROVE LinkTyped'
    BY <1>1 DEF LinkTyped, LinkTypeOK, linkVars
  <1> QED
    BY <1>1, LinkReadsTyped, LinkChangesTyped, LinkPanelTyped DEF LinkNext

\* The ground (Terrain): every load has an id of its own, one that was given, and
\* at most as many tiles as a box has; one that waits for tiles has some left.
LoadsTyped(loads, wants) ==
    /\ loads \subseteq LoadRecords
    /\ \A l \in loads : /\ l.id <= wants /\ l.left + l.got <= Tiles
                        /\ l.stage = "tiles" => l.left >= 1
    /\ \A l, k \in loads : l.id = k.id => l = k

DrawnData == [box : Boxes, id : Ids] \cup {NoData}

TerrainTyped ==
    /\ TextureInv
    /\ tnHook \in Hooks /\ tnHere \in BOOLEAN /\ tnBox \in Boxes \cup {NoBox}
    /\ tnData \in DrawnData /\ tnFailed \in BOOLEAN
    /\ LoadsTyped(tnLoads, tnWants)
    /\ tnCoast \in {"absent", "pending", "held"} /\ tnWants \in 0..MaxWants

LEMMA TerrainTypes == TerrainTyped => TerrainTypeOK
  <1> SUFFICES ASSUME TerrainTyped PROVE TerrainTypeOK
    OBVIOUS
  <1>1. tnLive \subseteq Ids
    BY DEF TerrainTyped, TextureInv, TexturesAccounted, DrawnData, NoData
  <1> QED
    BY <1>1 DEF TerrainTyped, TerrainTypeOK, LoadsTyped, DrawnData

LEMMA TerrainBeginsTyped == TerrainInit => TerrainTyped
  <1> SUFFICES ASSUME TerrainInit PROVE TerrainTyped
    OBVIOUS
  <1>1. TextureInv
    BY TextureBegins
  <1>2. 0 \in 0..MaxWants
    BY TerrainAssumption
  <1>3. LoadsTyped({}, 0)
    BY DEF LoadsTyped
  <1> QED
    BY <1>1, <1>2, <1>3 DEF TerrainInit, TerrainTyped, DrawnData

LEMMA OldTyped ==
  ASSUME NEW loads, NEW wants \in Nat, LoadsTyped(loads, wants)
  PROVE  LoadsTyped(NoLongerLive(loads), wants)
  <1>1. ASSUME NEW l \in NoLongerLive(loads)
        PROVE  \E k \in loads : /\ l \in LoadRecords /\ l.id = k.id /\ l.left = k.left /\ l.got = k.got
                                /\ l.stage = k.stage /\ l = [k EXCEPT !.live = FALSE]
    <2>1. PICK k \in loads : l = [k EXCEPT !.live = FALSE]
      BY DEF NoLongerLive
    <2>2. k \in LoadRecords
      BY DEF LoadsTyped
    <2> QED
      BY <2>1, <2>2 DEF LoadRecords
  <1>2. \A l \in NoLongerLive(loads) : /\ l \in LoadRecords /\ l.id <= wants /\ l.left + l.got <= Tiles
                                       /\ l.stage = "tiles" => l.left >= 1
    BY <1>1 DEF LoadsTyped
  <1>3. ASSUME NEW l \in NoLongerLive(loads), NEW k \in NoLongerLive(loads), l.id = k.id PROVE l = k
    <2>1. PICK m \in loads : l.id = m.id /\ l = [m EXCEPT !.live = FALSE]
      BY <1>1
    <2>2. PICK n \in loads : k.id = n.id /\ k = [n EXCEPT !.live = FALSE]
      BY <1>1
    <2>3. m = n
      BY <1>3, <2>1, <2>2 DEF LoadsTyped
    <2> QED
      BY <2>1, <2>2, <2>3
  <1> QED
    BY <1>2, <1>3 DEF LoadsTyped

LEMMA FinishTyped ==
  ASSUME TerrainTyped, NEW done \in SUBSET LoadRecords, NEW coast, Finish(done, coast)
  PROVE  tnData' \in DrawnData
  <1>1. CASE tnData' = NoData \/ tnData' = tnData
    BY <1>1 DEF TerrainTyped, DrawnData
  <1>2. CASE \E l \in done : l.live /\ tnData' = [box |-> l.box, id |-> l.id]
    BY <1>2 DEF LoadRecords, DrawnData
  <1>3. (\E l \in done : l.live) => (CHOOSE k \in done : k.live) \in done /\ (CHOOSE k \in done : k.live).live
    OBVIOUS
  <1> QED
    BY <1>1, <1>2, <1>3 DEF Finish, Draws

LEMMA ReachTyped ==
  ASSUME TerrainTyped, NEW loads, NEW wants, LoadsTyped(loads, wants), NEW reached \in SUBSET loads,
         ReachCoast(loads, reached)
  PROVE  /\ tnData' \in DrawnData /\ LoadsTyped(tnLoads', wants)
         /\ tnCoast' \in {"absent", "pending", "held"}
  <1>1. reached \in SUBSET LoadRecords
    BY DEF LoadsTyped
  <1>2. LoadsTyped(loads \ reached, wants)
    BY DEF LoadsTyped
  <1>3. CASE tnCoast = "held"
    <2>1. tnLoads' = loads \ reached /\ tnCoast' = tnCoast /\ Finish(reached, TRUE)
      BY <1>3 DEF ReachCoast
    <2>2. tnData' \in DrawnData
      BY <1>1, <2>1, FinishTyped
    <2> QED
      BY <1>2, <1>3, <2>1, <2>2
  <1>4. CASE tnCoast # "held"
    BY <1>4 DEF ReachCoast, TerrainTyped
  <1> QED
    BY <1>3, <1>4

LEMMA WantsTyped ==
  ASSUME TerrainTyped, TextureInv', NEW box \in Boxes \cup {NoBox}, Wants(box)
  PROVE  TerrainTyped'
  <1>0. tnWants \in Nat /\ MaxWants \in Nat /\ Tiles \in Nat \ {0}
    BY TerrainAssumption DEF TerrainTyped
  <1>1. LoadsTyped(NoLongerLive(tnLoads), tnWants)
    BY <1>0, OldTyped DEF TerrainTyped
  <1>2. CASE box = NoBox
    BY <1>1, <1>2 DEF Wants, Draws, TerrainTyped, DrawnData
  <1>3. CASE box # NoBox
    <2> DEFINE new == NewLoad(box)
               loads == NoLongerLive(tnLoads) \cup {new}
               reached == IF new.stage = "coast" THEN {new} ELSE {}
    <2>1. tnWants' = tnWants + 1 /\ tnWants + 1 \in 0..MaxWants /\ ReachCoast(loads, reached)
      BY <1>0, <1>3 DEF Wants
    <2>2. new \in LoadRecords /\ new.id = tnWants + 1 /\ new.left = Tiles /\ new.got = 0
      <3>1. tnWants + 1 \in Ids /\ Tiles \in 0..Tiles /\ 0 \in 0..Tiles
        BY <1>0, <2>1 DEF Ids
      <3> QED
        BY <1>3, <3>1 DEF NewLoad, LoadRecords
    <2> HIDE DEF new
    <2>3. LoadsTyped(loads, tnWants + 1)
      <3>1. \A l \in NoLongerLive(tnLoads) : l \in LoadRecords /\ l.id <= tnWants /\ l.id \in Int
        BY <1>0, <1>1 DEF LoadsTyped, LoadRecords, Ids
      <3>2. \A l \in loads : /\ l \in LoadRecords /\ l.id <= tnWants + 1 /\ l.left + l.got <= Tiles
                             /\ l.stage = "tiles" => l.left >= 1
        BY <1>0, <1>1, <2>2, <3>1 DEF LoadsTyped
      <3>3. ASSUME NEW l \in loads, NEW k \in loads, l.id = k.id PROVE l = k
        <4>1. CASE l \in NoLongerLive(tnLoads) /\ k \in NoLongerLive(tnLoads)
          BY <1>1, <3>3, <4>1 DEF LoadsTyped
        <4>2. CASE ~(l \in NoLongerLive(tnLoads) /\ k \in NoLongerLive(tnLoads))
          BY <1>0, <2>2, <3>1, <3>3, <4>2
        <4> QED
          BY <4>1, <4>2
      <3> QED
        BY <3>2, <3>3 DEF LoadsTyped
    <2>4. reached \in SUBSET loads
      OBVIOUS
    <2> HIDE DEF loads, reached
    <2>5. /\ tnData' \in DrawnData /\ LoadsTyped(tnLoads', tnWants + 1)
          /\ tnCoast' \in {"absent", "pending", "held"}
      BY <2>1, <2>3, <2>4, ReachTyped
    <2>6. /\ tnHook' = tnHook /\ tnHere' = tnHere /\ tnBox' = box /\ tnFailed' = FALSE
      BY DEF Wants
    <2> QED
      BY <2>1, <2>5, <2>6 DEF TerrainTyped
  <1> QED
    BY <1>2, <1>3

LEMMA TileTyped ==
  ASSUME TerrainTyped, TextureInv', NEW l \in tnLoads, NEW ok \in BOOLEAN, TileComes(l, ok)
  PROVE  TerrainTyped'
  <1> DEFINE others == tnLoads \ {l}
             after == [l EXCEPT !.left = @ - 1, !.got = IF ok THEN @ + 1 ELSE @]
             done == [after EXCEPT !.stage = "coast"]
  <1>0. tnWants \in Nat /\ Tiles \in Nat \ {0} /\ LoadsTyped(tnLoads, tnWants)
    BY TerrainAssumption DEF TerrainTyped
  <1>1. /\ l \in LoadRecords /\ l.id \in Ids /\ l.left \in 0..Tiles /\ l.got \in 0..Tiles
        /\ l.left >= 1 /\ l.left + l.got <= Tiles /\ l.id <= tnWants
    BY <1>0 DEF TileComes, LoadsTyped, LoadRecords
  <1>2. after \in [id : {l.id}, box : Boxes, live : BOOLEAN, left : {l.left - 1}, got : {l.got, l.got + 1}, stage : {"tiles"}]
    BY <1>1 DEF TileComes, LoadRecords
  <1>3. after \in LoadRecords /\ after.id = l.id /\ after.left + after.got <= Tiles
    <2>1. l.left - 1 \in 0..Tiles /\ l.got \in 0..Tiles /\ l.got + 1 \in 0..Tiles
      BY <1>0, <1>1
    <2>2. after \in LoadRecords
      BY <1>1, <1>2, <2>1 DEF LoadRecords
    <2>3. after.left = l.left - 1 /\ (after.got = l.got \/ after.got = l.got + 1) /\ after.id = l.id
      BY <1>2
    <2>4. after.left + after.got <= Tiles
      <3> HIDE DEF after
      <3>1. PICK m \in 0..Tiles, n \in 0..Tiles : m = l.left /\ n = l.got /\ m + n <= Tiles
        BY <1>1
      <3>2. after.left = m - 1 /\ (after.got = n \/ after.got = n + 1)
        BY <2>3, <3>1
      <3> QED
        BY <1>0, <3>1, <3>2
    <2> QED
      BY <2>2, <2>3, <2>4
  <1>4. done \in LoadRecords /\ done.id = l.id /\ done.left = after.left /\ done.got = after.got /\ done.stage = "coast"
    BY <1>3 DEF LoadRecords
  <1>5. LoadsTyped(others, tnWants)
    BY <1>0 DEF LoadsTyped
  <1>6. ASSUME NEW x \in LoadRecords, x.id = l.id, x.left + x.got <= Tiles, x.stage = "tiles" => x.left >= 1
        PROVE  LoadsTyped(others \cup {x}, tnWants)
    <2>1. \A k \in others : k.id # l.id
      BY <1>0 DEF LoadsTyped
    <2> HIDE DEF others
    <2> QED
      BY <1>1, <1>5, <1>6, <2>1 DEF LoadsTyped
  <1>7. after.left > 0 => after.left >= 1
    BY <1>2, <1>1
  <1>8. UNCHANGED <<tnHook, tnHere, tnBox, tnWants>>
    BY DEF TileComes
  <1>9. \/ tnLoads' = others \cup {after} /\ after.left > 0 /\ UNCHANGED <<tnData, tnFailed, tnCoast>>
        \/ tnLoads' = others /\ tnCoast' = tnCoast /\ tnData' \in {NoData, tnData} /\ tnFailed' \in {TRUE, tnFailed}
        \/ tnFailed' = tnFailed /\ ReachCoast(others \cup {done}, {done})
    BY DEF TileComes, Draws
  <1> HIDE DEF others, after, done
  <1>10. CASE tnLoads' = others \cup {after} /\ after.left > 0 /\ UNCHANGED <<tnData, tnFailed, tnCoast>>
    <2>1. LoadsTyped(others \cup {after}, tnWants)
      BY <1>3, <1>6, <1>7, <1>10
    <2> QED
      BY <1>8, <1>10, <2>1 DEF TerrainTyped
  <1>11. CASE tnLoads' = others /\ tnCoast' = tnCoast /\ tnData' \in {NoData, tnData} /\ tnFailed' \in {TRUE, tnFailed}
    BY <1>5, <1>8, <1>11 DEF TerrainTyped, DrawnData
  <1>12. CASE tnFailed' = tnFailed /\ ReachCoast(others \cup {done}, {done})
    <2>1. LoadsTyped(others \cup {done}, tnWants)
      BY <1>3, <1>4, <1>6
    <2>2. {done} \in SUBSET (others \cup {done})
      OBVIOUS
    <2>3. /\ tnData' \in DrawnData /\ LoadsTyped(tnLoads', tnWants)
          /\ tnCoast' \in {"absent", "pending", "held"}
      BY <1>12, <2>1, <2>2, ReachTyped
    <2> QED
      BY <1>8, <1>12, <2>3 DEF TerrainTyped
  <1> QED
    BY <1>9, <1>10, <1>11, <1>12

LEMMA TerrainTypedStep == TerrainTyped /\ [TerrainNext]_terrainVars => TerrainTyped'
  <1> SUFFICES ASSUME TerrainTyped, [TerrainNext]_terrainVars PROVE TerrainTyped'
    OBVIOUS
  <1>0. TextureInv' /\ tnWants \in Nat /\ LoadsTyped(tnLoads, tnWants)
    BY TextureStep DEF TerrainTyped
  <1>1. ASSUME NEW ok \in BOOLEAN, CoastComes(ok) PROVE TerrainTyped'
    <2> DEFINE waiting == {l \in tnLoads : l.stage = "coast"}
    <2>1. waiting \in SUBSET LoadRecords /\ LoadsTyped(tnLoads \ waiting, tnWants)
      BY <1>0 DEF LoadsTyped
    <2>2. tnLoads' = tnLoads \ waiting /\ Finish(waiting, ok)
      BY <1>1 DEF CoastComes
    <2> HIDE DEF waiting
    <2>3. tnData' \in DrawnData
      BY <2>1, <2>2, FinishTyped
    <2>4. tnCoast' \in {"held", "absent"} /\ UNCHANGED <<tnHook, tnHere, tnBox, tnFailed, tnWants>>
      BY <1>1 DEF CoastComes
    <2> QED
      BY <1>0, <2>1, <2>2, <2>3, <2>4 DEF TerrainTyped
  <1>2. CASE LeaveMap
    <2>1. LoadsTyped(NoLongerLive(tnLoads), tnWants)
      BY <1>0, OldTyped
    <2> QED
      BY <1>0, <1>2, <2>1 DEF LeaveMap, Draws, TerrainTyped, DrawnData
  <1>3. CASE UNCHANGED terrainVars
    BY <1>0, <1>3 DEF terrainVars, TerrainTyped
  <1> QED
    BY <1>0, <1>1, <1>2, <1>3, WantsTyped, TileTyped DEF TerrainNext

\* The sharp imagery (SharpTiles): what loads has not failed, and the card holds
\* no more textures than there are patches.
TilesTyped ==
    /\ PatchInv
    /\ ptLoading \cap ptFailed = {} /\ ptLoaded \cap ptFailed = {}
    /\ svLook \in Looks /\ svRange \in Ranges /\ svDrawn \in BOOLEAN
    /\ svLast \subseteq Looks /\ svKey \subseteq SUBSET Patches
    /\ svLast = {} \/ \E l \in Looks : svLast = {l}
    /\ svKey = {} \/ \E b \in SUBSET Patches : svKey = {b}
    /\ svBoxes \subseteq Patches /\ ptHere \in BOOLEAN
    /\ ptCurrent \subseteq Patches /\ ptLoaded \subseteq Patches /\ ptLoading \subseteq Patches
    /\ ptFailed \subseteq Patches /\ ptShown \subseteq Patches
    /\ svTurns \in 0..MaxLooks

LEMMA TilesTypes == TilesTyped => TilesTypeOK
  <1> SUFFICES ASSUME TilesTyped PROVE TilesTypeOK
    OBVIOUS
  <1>1. Cardinality(svLast) <= 1 /\ Cardinality(svKey) <= 1
    <2>1. Cardinality({}) <= 1
      BY FS_EmptySet
    <2>2. \A x : Cardinality({x}) = 1
      BY FS_Singleton, Zenon
    <2>3. svLast # {} => Cardinality(svLast) = 1
      BY <2>2, Zenon DEF TilesTyped
    <2>4. svKey # {} => Cardinality(svKey) = 1
      BY <2>2, Zenon DEF TilesTyped
    <2> QED
      BY <2>1, <2>3, <2>4
  <1>2. ptTextures \in 0..Cardinality(Patches)
    <2>1. IsFiniteSet(Patches) /\ ptLoaded \subseteq Patches
      BY TilesAssumption DEF TilesTyped
    <2>2. Cardinality(ptLoaded) \in Nat /\ Cardinality(Patches) \in Nat /\ Cardinality(ptLoaded) <= Cardinality(Patches)
      BY <2>1, FS_Subset, FS_CardinalityType
    <2> QED
      BY <2>2 DEF TilesTyped, PatchInv, PatchesAccounted
  <1>3. {ptCurrent, ptLoaded, ptLoading, ptFailed, ptShown} \subseteq SUBSET Patches
    BY DEF TilesTyped
  <1>4. ptLoaded \cap ptLoading = {} /\ ptLoaded \cap ptFailed = {}
    BY DEF TilesTyped, PatchInv
  <1> QED
    BY <1>1, <1>2, <1>3, <1>4 DEF TilesTyped, TilesTypeOK

LEMMA TilesBeginTyped == TilesInit => TilesTyped
  <1> SUFFICES ASSUME TilesInit PROVE TilesTyped
    OBVIOUS
  <1>1. PatchInv /\ 0 \in 0..MaxLooks
    BY PatchBegins, TilesAssumption
  <1> QED
    BY <1>1 DEF TilesInit, TilesTyped, Unknown

LEMMA BoxesTyped ==
  ASSUME NEW l \in Looks, NEW r \in Ranges
  PROVE  BoxesOf[l][r] \in SUBSET Patches
  BY DEF Patches

LEMMA SettleTyped ==
  ASSUME TilesTyped, NEW list, NEW loaded \in SUBSET Patches, NEW failed, NEW textures,
         Settle(list, loaded, failed, textures)
  PROVE  ptLoaded' \subseteq loaded /\ ptShown' \subseteq Patches
  BY DEF Settle, Kept

LEMMA ViewTyped ==
  ASSUME TilesTyped, PatchInv',
         Toggled \/ CheckView \/ (\E l \in Looks : CameraMoves(l)) \/ (\E r \in Ranges : Retuned(r))
  PROVE  TilesTyped'
  <1> USE DEF TilesTyped
  <1>0. MaxLooks \in Nat
    BY TilesAssumption
  <1>1. ASSUME ViewTurn PROVE svTurns' \in 0..MaxLooks /\ UNCHANGED patchVars
    BY <1>0, <1>1 DEF ViewTurn
  <1>2. CASE Toggled
    <2>1. svDrawn' \in BOOLEAN
      BY <1>2, Zenon DEF Toggled
    <2>2. svTurns' \in 0..MaxLooks /\ UNCHANGED patchVars
      BY <1>1, <1>2 DEF Toggled
    <2>3. svLast' = {} /\ svKey' = {} /\ UNCHANGED <<svLook, svRange, svBoxes>>
      BY <1>2 DEF Toggled, Unknown
    <2> QED
      BY <2>1, <2>2, <2>3 DEF patchVars
  <1>3. CASE CheckView
    <2> DEFINE boxes == BoxesOf[svLook][svRange]
    <2>1. boxes \in SUBSET Patches
      BY BoxesTyped
    <2>2. (svKey' = {boxes} /\ svBoxes' = boxes) \/ UNCHANGED <<svKey, svBoxes>>
      BY <1>3 DEF CheckView
    <2>3. svLast' = {svLook} /\ UNCHANGED <<svLook, svRange, svDrawn, patchVars, svTurns>>
      BY <1>3 DEF CheckView
    <2> HIDE DEF boxes
    <2> QED
      BY <2>1, <2>2, <2>3 DEF patchVars
  <1>4. ASSUME NEW l \in Looks, CameraMoves(l) PROVE TilesTyped'
    BY <1>1, <1>4 DEF CameraMoves, patchVars
  <1>5. ASSUME NEW r \in Ranges, Retuned(r) PROVE TilesTyped'
    BY <1>1, <1>5 DEF Retuned, patchVars, Unknown
  <1> QED
    BY <1>2, <1>3, <1>4, <1>5

LEMMA ListTyped ==
  ASSUME TilesTyped, PatchInv', Listed \/ LeavePatches
  PROVE  TilesTyped'
  <1> USE DEF TilesTyped
  <1>1. CASE Listed
    <2>1. Specs \subseteq Patches
      BY DEF Specs
    <2>2. ptLoaded' \subseteq ptLoaded /\ ptShown' \subseteq Patches
      BY <1>1, SettleTyped DEF Listed
    <2>3. /\ ptCurrent' = Specs /\ ptFailed' = ptFailed \cap Specs
          /\ ptLoading' = ptLoading \cup (Specs \ (ptLoaded \cup ptFailed))
          /\ UNCHANGED <<ptHere, viewVars, svTurns>>
      BY <1>1 DEF Listed
    <2> QED
      BY <2>1, <2>2, <2>3 DEF viewVars
  <1>2. CASE LeavePatches
    <2>1. /\ ptHere' = FALSE /\ ptLoaded' = {} /\ ptFailed' = {} /\ ptShown' = {}
          /\ UNCHANGED <<ptCurrent, ptLoading, viewVars, svTurns>>
      BY <1>2 DEF LeavePatches
    <2> QED
      BY <2>1 DEF viewVars
  <1> QED
    BY <1>1, <1>2

LEMMA AnsweredTyped ==
  ASSUME TilesTyped, PatchInv', NEW p \in Patches, Answered(p)
  PROVE  TilesTyped'
  <1> USE DEF TilesTyped
  <1>0. p \in ptLoading /\ ptLoading' = ptLoading \ {p} /\ p \notin ptFailed /\ p \notin ptLoaded
    BY DEF Answered, PatchLoads, PatchFails, PatchInv
  <1>1. UNCHANGED <<ptHere, ptCurrent, viewVars, svTurns>>
    BY DEF Answered, PatchLoads, PatchFails
  <1>2. CASE PatchLoads(p)
    <2>1. ptFailed' = ptFailed
      BY <1>2 DEF PatchLoads
    <2>2. ptLoaded \cup {p} \in SUBSET Patches
      OBVIOUS
    <2>3. ptLoaded' \subseteq ptLoaded \cup {p} /\ ptShown' \subseteq Patches
      BY <1>2, <2>2, SettleTyped DEF PatchLoads
    <2> QED
      BY <1>0, <1>1, <2>1, <2>3 DEF viewVars
  <1>3. CASE PatchFails(p)
    <2>1. ptFailed' = ptFailed \cup {p}
      BY <1>3 DEF PatchFails
    <2>2. ptLoaded' \subseteq ptLoaded /\ ptShown' \subseteq Patches
      BY <1>3, SettleTyped DEF PatchFails, SettleFailed
    <2> QED
      BY <1>0, <1>1, <2>1, <2>2 DEF viewVars
  <1> QED
    BY <1>2, <1>3 DEF Answered

LEMMA TilesTypedStep == TilesTyped /\ [TilesNext]_tilesVars => TilesTyped'
  <1> SUFFICES ASSUME TilesTyped, [TilesNext]_tilesVars PROVE TilesTyped'
    OBVIOUS
  <1>0. PatchInv'
    BY PatchStep DEF TilesTyped
  <1>1. CASE UNCHANGED tilesVars
    BY <1>0, <1>1 DEF tilesVars, viewVars, patchVars, TilesTyped
  <1> QED
    BY <1>0, <1>1, ViewTyped, ListTyped, AnsweredTyped DEF TilesNext

\* The cases that intake asks for (IntakeCases).  The open ones are a fold over
\* the ledger, as many at most; a process that is down has a start left.
LEMMA OpenInCases ==
  ASSUME NEW s \in Seq(Cases), NEW c \in Cases
  PROVE  OpenWith(s, c) \in Seq(Cases) /\ Len(OpenWith(s, c)) \in {Len(s), Len(s) + 1}
  BY DEF OpenWith

LEMMA OpenLeads ==
  ASSUME NEW s \in Seq(Cases)
  PROVE  Leads(Seq(Cases), [p \in Seq(Cases) \X Cases |-> OpenWith(p[1], p[2])], << >>, s, FoldLeft(OpenWith, << >>, s))
  <1> DEFINE V == Seq(Cases)
             n == Len(s)
             b == << >>
             o == [p \in V \X (1..n) |-> OpenWith(p[1], s[p[2]])]
             step == [p \in V \X Cases |-> OpenWith(p[1], p[2])]
             Is(it) == it = [S \in SUBSET (1..n) |-> IF S = {} THEN b ELSE OpenWith(it[S \ {Max(S)}], s[Max(S)])]
             iter == CHOOSE it : Is(it)
  <1>1. n \in Nat /\ DOMAIN s = 1..n /\ \A i \in 1..n : s[i] \in Cases
    OBVIOUS
  <1>2. FoldLeft(OpenWith, << >>, s) = iter[1..n]
    BY <1>1 DEF FoldLeft, MapThenFoldSet
  <1>3. o \in [V \X (1..n) -> V]
    BY <1>1, OpenInCases
  <1>4. b \in V
    OBVIOUS
  <1>5. \A v \in V, i \in 1..n : o[<<v, i>>] = OpenWith(v, s[i])
    OBVIOUS
  <1>6. \A v \in V, i \in 1..n : step[<<v, s[i]>>] = OpenWith(v, s[i])
    BY <1>1
  <1> HIDE DEF n, V, o, step, b
  <1>7. PICK f \in [SUBSET (1..n) -> V] : Folded(f, b, n, o)
    BY <1>1, <1>3, <1>4, FoldExists
  <1>8. ASSUME NEW S \in SUBSET (1..n), S # {} PROVE Max(S) \in 1..n /\ S \ {Max(S)} \in SUBSET (1..n)
    BY <1>1, <1>8, MaxIn
  <1>9. f = [S \in SUBSET (1..n) |-> IF S = {} THEN b ELSE OpenWith(f[S \ {Max(S)}], s[Max(S)])]
    BY <1>7, <1>8, <1>5 DEF Folded
  <1>10. Is(iter)
    BY <1>9
  <1> HIDE DEF iter
  <1>11. iter[{}] = b
    BY <1>10
  <1>12. ASSUME NEW T \in SUBSET (1..n), T # {}, iter[T \ {Max(T)}] \in V
         PROVE  iter[T] = o[<<iter[T \ {Max(T)}], Max(T)>>]
    BY <1>12, <1>10, <1>8, <1>5
  <1>13. PICK c \in [0..n -> V] : c[0] = b /\ (\A i \in 1..n : c[i] = o[<<c[i - 1], i>>]) /\ iter[1..n] = c[n]
    <2>1. StepsBy(iter, V, b, n, o)
      BY <1>11, <1>12 DEF StepsBy
    <2>2. ChainTo(V, b, n, o, iter[1..n])
      BY <2>1, <1>1, <1>4, <1>3, FoldChain
    <2> QED
      BY <2>2 DEF ChainTo
  <1>14. ASSUME NEW i \in 1..n PROVE c[i] = step[<<c[i - 1], s[i]>>]
    <2>1. c[i - 1] \in V
      BY <1>1, <1>13
    <2> QED
      BY <2>1, <1>13, <1>5, <1>6
  <1> QED
    BY <1>2, <1>13, <1>14 DEF Leads, V, step, n, b

LEMMA OpenCasesTyped ==
  ASSUME icLedger \in Seq(Cases)
  PROVE  OpenCases \in Seq(Cases) /\ Len(OpenCases) <= Len(icLedger)
  <1> DEFINE V == Seq(Cases)
             n == Len(icLedger)
             step == [p \in V \X Cases |-> OpenWith(p[1], p[2])]
             T(c) == {i \in 0..n : Len(c[i]) <= i}
  <1>1. n \in Nat /\ \A i \in 1..n : icLedger[i] \in Cases
    OBVIOUS
  <1>2. PICK c \in [0..n -> V] : /\ c[0] = << >> /\ OpenCases = c[n]
                                 /\ \A i \in 1..n : c[i] = step[<<c[i - 1], icLedger[i]>>]
    BY OpenLeads DEF Leads, OpenCases
  <1>3. \A v \in V, x \in Cases : step[<<v, x>>] = OpenWith(v, x)
    OBVIOUS
  <1> HIDE DEF V, n, step
  <1>4. 0 \in T(c)
    BY <1>1, <1>2
  <1>5. ASSUME NEW k \in 0..(n - 1), k \in T(c) PROVE k + 1 \in T(c)
    <2>1. k + 1 \in 1..n /\ k + 1 \in 0..n /\ (k + 1) - 1 = k /\ k \in 0..n
      BY <1>1
    <2>2. c[k] \in V /\ c[k + 1] = OpenWith(c[k], icLedger[k + 1])
      BY <1>1, <1>2, <1>3, <2>1
    <2>3. Len(c[k + 1]) \in {Len(c[k]), Len(c[k]) + 1} /\ Len(c[k]) \in Nat
      <3>1. icLedger[k + 1] \in Cases /\ c[k] \in Seq(Cases)
        BY <1>1, <2>1, <2>2 DEF V
      <3> HIDE DEF T
      <3>2. Len(OpenWith(c[k], icLedger[k + 1])) \in {Len(c[k]), Len(c[k]) + 1}
        BY <3>1, OpenInCases
      <3> QED
        BY <2>2, <3>1, <3>2
    <2> QED
      BY <1>5, <2>1, <2>3
  <1>6. 0..n \subseteq T(c)
    <2> HIDE DEF T
    <2> QED
      BY <1>1, <1>4, <1>5, UpTo
  <1>7. n \in 0..n
    BY <1>1
  <1>8. c[n] \in V /\ Len(c[n]) <= n
    BY <1>2, <1>6, <1>7
  <1> QED
    BY <1>2, <1>8 DEF V, n

\* A ledger without a case twice stays one when a case is put in, taken out or
\* the oldest leaves.
LEMMA PartOf ==
  ASSUME NEW S, NEW s \in Seq(S), NEW i \in Nat \ {0}, NEW j \in Nat, j <= Len(s), i <= j + 1
  PROVE  /\ SubSeq(s, i, j) \in Seq(S) /\ Len(SubSeq(s, i, j)) = (j - i) + 1
         /\ \A k \in 1..((j - i) + 1) : SubSeq(s, i, j)[k] = s[(i + k) - 1]
  <1>1. \A k \in i..j : s[k] \in S
    OBVIOUS
  <1>2. /\ SubSeq(s, i, j) \in Seq(S) /\ Len(SubSeq(s, i, j)) = IF i <= j THEN j - i + 1 ELSE 0
        /\ \A k \in 1..(j - i + 1) : SubSeq(s, i, j)[k] = s[i + k - 1]
    BY <1>1, SubSeqProperties
  <1> QED
    BY <1>2

LEMMA InsertKeeps ==
  ASSUME NEW S, NEW s \in Seq(S), IsInjective(s), NEW i \in 1..(Len(s) + 1), NEW c \in S, c \notin ToSet(s)
  PROVE  InsertAt(s, i, c) \in Seq(S) /\ IsInjective(InsertAt(s, i, c))
  <1> DEFINE n == Len(s)  t == InsertAt(s, i, c)
             f == [j \in 1..(n + 1) |-> IF j < i THEN s[j] ELSE IF j = i THEN c ELSE s[j - 1]]
  <1>1. n \in Nat /\ DOMAIN s = 1..n /\ i \in 1..(n + 1)
    OBVIOUS
  <1> DEFINE P == SubSeq(s, 1, i - 1)  Q == SubSeq(s, i, Len(s))  R == P \o <<c>>
  <1>9. /\ P \in Seq(S) /\ Len(P) = i - 1 /\ \A k \in 1..(i - 1) : P[k] = s[k]
        /\ Q \in Seq(S) /\ Len(Q) = (n - i) + 1 /\ \A k \in 1..((n - i) + 1) : Q[k] = s[(i + k) - 1]
    <2>1. i - 1 \in Nat /\ i - 1 <= Len(s) /\ 1 \in Nat \ {0} /\ 1 <= (i - 1) + 1 /\ ((i - 1) - 1) + 1 = i - 1
      BY <1>1
    <2>2. /\ P \in Seq(S) /\ Len(P) = ((i - 1) - 1) + 1
          /\ \A k \in 1..(((i - 1) - 1) + 1) : P[k] = s[(1 + k) - 1]
      BY ONLY <2>1, PartOf, s \in Seq(S)
    <2>3. i \in Nat \ {0} /\ n \in Nat /\ n <= Len(s) /\ i <= n + 1
      BY <1>1
    <2>4. Q \in Seq(S) /\ Len(Q) = (n - i) + 1 /\ \A k \in 1..((n - i) + 1) : Q[k] = s[(i + k) - 1]
      BY ONLY <2>3, PartOf, s \in Seq(S)
    <2>5. \A k \in 1..(i - 1) : (1 + k) - 1 = k
      BY <1>1
    <2> HIDE DEF P, Q, n
    <2>6. P \in Seq(S) /\ Len(P) = i - 1 /\ \A k \in 1..(i - 1) : P[k] = s[k]
      BY ONLY <2>1, <2>2, <2>5
    <2> QED
      BY ONLY <2>4, <2>6
  <1>10. t = R \o Q
    BY DEF InsertAt
  <1> HIDE DEF P, Q, n
  <1>11. <<c>> \in Seq(S) /\ Len(<<c>>) = 1 /\ <<c>>[1] = c
    OBVIOUS
  <1>12. R \in Seq(S) /\ Len(R) = i /\ \A k \in 1..i : R[k] = IF k <= i - 1 THEN P[k] ELSE c
    <2>1. /\ R \in Seq(S) /\ Len(R) = Len(P) + 1
          /\ \A k \in 1..(Len(P) + 1) : R[k] = IF k <= Len(P) THEN P[k] ELSE <<c>>[k - Len(P)]
      BY <1>9, <1>11, ConcatProperties
    <2> QED
      BY <1>1, <1>9, <2>1
  <1> HIDE DEF R, t
  <1>13. /\ t \in Seq(S) /\ Len(t) = Len(R) + Len(Q)
         /\ \A j \in 1..(Len(R) + Len(Q)) : t[j] = IF j <= Len(R) THEN R[j] ELSE Q[j - Len(R)]
    BY <1>9, <1>10, <1>12, ConcatProperties
  <1>14. Len(R) = i /\ Len(Q) = (n - i) + 1 /\ i + ((n - i) + 1) = n + 1
    BY <1>1, <1>9, <1>12
  <1>2. t \in Seq(S) /\ Len(t) = n + 1
    BY ONLY <1>13, <1>14
  <1>3. ASSUME NEW j \in 1..(n + 1) PROVE t[j] = f[j]
    <2>1. t[j] = IF j <= i THEN R[j] ELSE Q[j - i]
      BY ONLY <1>13, <1>14, j \in 1..(n + 1)
    <2>2. CASE j <= i
      <3>1. j \in 1..i
        BY <1>1, <2>2
      <3>2. R[j] = IF j <= i - 1 THEN P[j] ELSE c
        BY <1>12, <3>1
      <3>3. j <= i - 1 => P[j] = s[j]
        BY <1>1, <1>9, <3>1
      <3> QED
        BY <1>1, <2>1, <2>2, <3>1, <3>2, <3>3
    <2>3. CASE ~(j <= i)
      <3>1. j - i \in 1..((n - i) + 1) /\ (i + (j - i)) - 1 = j - 1
        BY <1>1, <2>3
      <3>2. Q[j - i] = s[j - 1]
        BY <1>9, <3>1
      <3> QED
        BY <1>1, <2>1, <2>3, <3>2
    <2> QED
      BY <2>2, <2>3
  <1>4. \A j \in 1..n : s[j] # c
    BY <1>1 DEF ToSet
  <1>5. \A j, k \in 1..n : s[j] = s[k] => j = k
    BY <1>1 DEF IsInjective
  <1>6. ASSUME NEW j \in 1..(n + 1), NEW k \in 1..(n + 1), f[j] = f[k] PROVE j = k
    BY <1>1, <1>4, <1>5, <1>6
  <1> HIDE DEF f
  <1>7. DOMAIN t = 1..(n + 1)
    BY <1>1, <1>2
  <1>8. IsInjective(t)
    BY <1>3, <1>6, <1>7 DEF IsInjective
  <1> QED
    BY <1>2, <1>8 DEF t

LEMMA RemoveKeeps ==
  ASSUME NEW S, NEW s \in Seq(S), IsInjective(s), NEW i \in 1..Len(s)
  PROVE  RemoveAt(s, i) \in Seq(S) /\ IsInjective(RemoveAt(s, i))
  <1> DEFINE n == Len(s)  t == RemoveAt(s, i)
             f == [j \in 1..(n - 1) |-> IF j < i THEN s[j] ELSE s[j + 1]]
  <1>1. n \in Nat /\ DOMAIN s = 1..n /\ i \in 1..n
    OBVIOUS
  <1> DEFINE P == SubSeq(s, 1, i - 1)  Q == SubSeq(s, i + 1, Len(s))
  <1>9. /\ P \in Seq(S) /\ Len(P) = i - 1 /\ \A k \in 1..(i - 1) : P[k] = s[k]
        /\ Q \in Seq(S) /\ Len(Q) = n - i /\ \A k \in 1..(n - i) : Q[k] = s[i + k]
    <2>1. i - 1 \in Nat /\ i - 1 <= Len(s) /\ 1 \in Nat \ {0} /\ 1 <= (i - 1) + 1 /\ ((i - 1) - 1) + 1 = i - 1
      BY <1>1
    <2>2. /\ P \in Seq(S) /\ Len(P) = ((i - 1) - 1) + 1
          /\ \A k \in 1..(((i - 1) - 1) + 1) : P[k] = s[(1 + k) - 1]
      BY ONLY <2>1, PartOf, s \in Seq(S)
    <2>3. i + 1 \in Nat \ {0} /\ n \in Nat /\ n <= Len(s) /\ i + 1 <= n + 1 /\ (n - (i + 1)) + 1 = n - i
      BY <1>1
    <2>4. /\ Q \in Seq(S) /\ Len(Q) = (n - (i + 1)) + 1
          /\ \A k \in 1..((n - (i + 1)) + 1) : Q[k] = s[((i + 1) + k) - 1]
      BY ONLY <2>3, PartOf, s \in Seq(S)
    <2>5. \A k \in 1..(n - i) : ((i + 1) + k) - 1 = i + k
      BY <1>1
    <2>6. \A k \in 1..(i - 1) : (1 + k) - 1 = k
      BY <1>1
    <2> HIDE DEF P, Q, n
    <2>7. P \in Seq(S) /\ Len(P) = i - 1 /\ \A k \in 1..(i - 1) : P[k] = s[k]
      BY ONLY <2>1, <2>2, <2>6
    <2>8. Q \in Seq(S) /\ Len(Q) = n - i /\ \A k \in 1..(n - i) : Q[k] = s[i + k]
      BY ONLY <2>3, <2>4, <2>5
    <2> QED
      BY ONLY <2>7, <2>8
  <1>10. t = P \o Q
    BY DEF RemoveAt
  <1> HIDE DEF P, Q, n, t
  <1>13. /\ t \in Seq(S) /\ Len(t) = Len(P) + Len(Q)
         /\ \A j \in 1..(Len(P) + Len(Q)) : t[j] = IF j <= Len(P) THEN P[j] ELSE Q[j - Len(P)]
    BY <1>9, <1>10, ConcatProperties
  <1>14. Len(P) = i - 1 /\ Len(Q) = n - i /\ (i - 1) + (n - i) = n - 1
    BY <1>1, <1>9
  <1>2. t \in Seq(S) /\ Len(t) = n - 1
    BY ONLY <1>13, <1>14
  <1>3. ASSUME NEW j \in 1..(n - 1) PROVE t[j] = f[j]
    <2>1. t[j] = IF j <= i - 1 THEN P[j] ELSE Q[j - (i - 1)]
      BY ONLY <1>13, <1>14, j \in 1..(n - 1)
    <2>2. CASE j <= i - 1
      <3>1. j \in 1..(i - 1) /\ j < i
        BY <1>1, <2>2
      <3>2. P[j] = s[j]
        BY <1>9, <3>1
      <3> QED
        BY <2>1, <2>2, <3>1, <3>2
    <2>3. CASE ~(j <= i - 1)
      <3>1. j - (i - 1) \in 1..(n - i) /\ i + (j - (i - 1)) = j + 1 /\ ~(j < i)
        BY <1>1, <2>3
      <3>2. Q[j - (i - 1)] = s[j + 1]
        BY <1>9, <3>1
      <3> QED
        BY <2>1, <2>3, <3>1, <3>2
    <2> QED
      BY <2>2, <2>3
  <1>5. \A j, k \in 1..n : s[j] = s[k] => j = k
    BY <1>1 DEF IsInjective
  <1>6. ASSUME NEW j \in 1..(n - 1), NEW k \in 1..(n - 1), f[j] = f[k] PROVE j = k
    BY <1>1, <1>5, <1>6
  <1> HIDE DEF f
  <1>7. DOMAIN t = 1..(n - 1)
    BY <1>1, <1>2
  <1>8. IsInjective(t)
    BY <1>3, <1>6, <1>7 DEF IsInjective
  <1> QED
    BY <1>2, <1>8 DEF t

LEMMA RemoveFirstKeeps ==
  ASSUME NEW S, NEW s \in Seq(S), IsInjective(s), NEW c
  PROVE  RemoveFirst(s, c) \in Seq(S) /\ IsInjective(RemoveFirst(s, c))
  <1> DEFINE I == {i \in 1..Len(s) : s[i] = c}
  <1>1. CASE I = {}
    BY <1>1 DEF RemoveFirst
  <1>2. CASE I # {}
    <2>1. I \in SUBSET Nat
      OBVIOUS
    <2>2. Min(I) \in I
      BY <1>2, <2>1, SmallestOf
    <2>3. Min(I) \in 1..Len(s)
      BY <2>2
    <2>4. RemoveFirst(s, c) = RemoveAt(s, Min(I))
      BY <1>2 DEF RemoveFirst, SelectInSeq
    <2> QED
      BY <2>3, <2>4, RemoveKeeps
  <1> QED
    BY <1>1, <1>2

LEMMA TailKeeps ==
  ASSUME NEW S, NEW s \in Seq(S), IsInjective(s), s # << >>
  PROVE  Tail(s) \in Seq(S) /\ IsInjective(Tail(s))
  BY DEF IsInjective

LEMMA LedgerFits ==
  ASSUME icLedger \in Seq(Cases), IsInjective(icLedger)
  PROVE  Cardinality(Cases) \in Nat /\ Len(icLedger) <= Cardinality(Cases)
  <1> DEFINE n == Len(icLedger)
  <1>1. n \in Nat /\ icLedger \in [1..n -> Cases]
    OBVIOUS
  <1>2. icLedger \in Injection(1..n, Cases)
    BY <1>1 DEF IsInjective, Injection
  <1> HIDE DEF n
  <1>3. IsFiniteSet(Cases)
    BY CasesAssumption
  <1>4. Cardinality(1..n) <= Cardinality(Cases)
    BY <1>2, <1>3, FS_Injection
  <1>5. Cardinality(1..n) = n
    <2>1. 1 \in Int /\ n \in Int
      BY <1>1
    <2>2. Cardinality(1..n) = IF 1 > n THEN 0 ELSE n - 1 + 1
      BY <2>1, FS_Interval
    <2> QED
      BY <1>1, <2>2
  <1> QED
    BY <1>3, <1>4, <1>5, FS_CardinalityType DEF n

CasesTyped ==
    /\ icLedger \in Seq(Cases) /\ IsInjective(icLedger) /\ icChosen \in Seq(Cases)
    /\ icForbidden \subseteq Cases /\ icUp \in BOOLEAN
    /\ icCursor \in 0..(Cardinality(Cases) + MaxCasesPerTick) /\ icStarts \in 1..MaxIntakes
    /\ ~icUp => icStarts < MaxIntakes

LEMMA CasesTypes == CasesTyped => CasesTypeOK
  BY DEF CasesTyped, CasesTypeOK, ToSet

LEMMA CasesBegin == CasesInit => CasesTyped
  <1> SUFFICES ASSUME CasesInit PROVE CasesTyped
    OBVIOUS
  <1>1. Cardinality(Cases) \in Nat /\ MaxCasesPerTick \in Nat /\ MaxIntakes \in Nat \ {0}
    BY CasesAssumption, FS_CardinalityType
  <1>2. 0 \in 0..(Cardinality(Cases) + MaxCasesPerTick) /\ 1 \in 1..MaxIntakes
    BY <1>1
  <1> QED
    BY <1>2 DEF CasesInit, CasesTyped, IsInjective

LEMMA ChooseTyped ==
  ASSUME CasesTyped, ChooseCases
  PROVE  CasesTyped'
  <1> DEFINE open == OpenCases
             start == StartOf(open)
             rotated == SubSeq(open, start + 1, Len(open)) \o SubSeq(open, 1, start)
             m == IF Len(open) < MaxCasesPerTick THEN Len(open) ELSE MaxCasesPerTick
             chosen == SubSeq(rotated, 1, m)
             N == Cardinality(Cases)
  <1>1. open \in Seq(Cases) /\ Len(open) <= Len(icLedger)
    BY OpenCasesTyped DEF CasesTyped
  <1>2. N \in Nat /\ Len(icLedger) <= N /\ MaxCasesPerTick \in Nat
    BY LedgerFits, CasesAssumption DEF CasesTyped
  <1>3. icChosen' = chosen /\ icCursor' = start + Len(chosen) /\ UNCHANGED <<icLedger, icUp, icForbidden, icStarts>>
    BY DEF ChooseCases
  <1>4. icCursor \in Nat
    BY <1>2 DEF CasesTyped
  <1> HIDE DEF open, N
  <1>5. Len(open) \in Nat /\ Len(open) <= N
    BY <1>1, <1>2 DEF CasesTyped
  <1>6. start \in 0..N /\ start <= Len(open)
    <2>1. CASE open = << >>
      BY <1>2, <1>5, <2>1 DEF StartOf
    <2>2. CASE open # << >>
      <3>1. Len(open) \in Nat \ {0}
        BY <1>1, <2>2
      <3> DEFINE k == Len(open)
      <3> HIDE DEF k
      <3>2. icCursor % k \in 0..(k - 1)
        BY <1>4, <3>1 DEF k
      <3> QED
        BY <1>5, <1>2, <2>2, <3>1, <3>2 DEF StartOf, k
    <2> QED
      BY <2>1, <2>2
  <1> HIDE DEF start
  <1>7. rotated \in Seq(Cases) /\ Len(rotated) = Len(open)
    <2>1. start \in Nat /\ start <= Len(open) /\ start + 1 <= Len(open) + 1 /\ 1 <= start + 1
      BY <1>2, <1>5, <1>6
    <2>2. SubSeq(open, start + 1, Len(open)) \in Seq(Cases) /\ Len(SubSeq(open, start + 1, Len(open))) = (Len(open) - (start + 1)) + 1
      BY <1>1, <1>5, <2>1, PartOf
    <2>3. SubSeq(open, 1, start) \in Seq(Cases) /\ Len(SubSeq(open, 1, start)) = (start - 1) + 1
      BY <1>1, <2>1, PartOf
    <2>4. rotated \in Seq(Cases) /\ Len(rotated) = ((Len(open) - (start + 1)) + 1) + ((start - 1) + 1)
      BY <2>2, <2>3, ConcatProperties
    <2>5. ((Len(open) - (start + 1)) + 1) + ((start - 1) + 1) = Len(open)
      <3> DEFINE k == Len(open)
      <3>1. k \in Nat /\ start \in Nat
        BY <1>5, <2>1
      <3> HIDE DEF k
      <3>2. ((k - (start + 1)) + 1) + ((start - 1) + 1) = k
        BY <3>1
      <3> QED
        BY <3>2 DEF k
    <2> QED
      BY ONLY <2>4, <2>5
  <1> HIDE DEF rotated
  <1>8. m \in 0..MaxCasesPerTick /\ m \in 0..Len(rotated)
    BY <1>2, <1>5, <1>7
  <1> HIDE DEF m
  <1>9. chosen \in Seq(Cases) /\ Len(chosen) = m
    BY <1>2, <1>7, <1>8
  <1> HIDE DEF chosen
  <1>10. start + Len(chosen) \in 0..(N + MaxCasesPerTick)
    BY <1>2, <1>6, <1>8, <1>9
  <1> QED
    BY <1>3, <1>9, <1>10 DEF CasesTyped, N

LEMMA CasesStep == CasesTyped /\ [CasesNext]_casesVars => CasesTyped'
  <1> SUFFICES ASSUME CasesTyped, [CasesNext]_casesVars PROVE CasesTyped'
    OBVIOUS
  <1> USE DEF CasesTyped
  <1>0. Cardinality(Cases) \in Nat /\ MaxCasesPerTick \in Nat /\ MaxIntakes \in Nat \ {0}
    BY CasesAssumption, FS_CardinalityType
  <1>1. CASE UNCHANGED casesVars
    BY <1>1 DEF casesVars
  <1>2. CASE FetchCase
    <2>1. Head(icChosen) \in Cases /\ icChosen' \in Seq(Cases)
      BY <1>2 DEF FetchCase
    <2>2. icLedger' \in Seq(Cases) /\ IsInjective(icLedger')
      BY <1>2, RemoveFirstKeeps DEF FetchCase
    <2>3. icForbidden' \subseteq Cases
      BY <1>2, <2>1 DEF FetchCase
    <2> QED
      BY <1>2, <2>1, <2>2, <2>3 DEF FetchCase
  <1>3. CASE KillIntake
    <2>1. icUp' = FALSE /\ icStarts < MaxIntakes /\ icChosen' = << >>
      BY <1>3 DEF KillIntake
    <2>2. UNCHANGED <<icLedger, icForbidden, icCursor, icStarts>>
      BY <1>3 DEF KillIntake
    <2>3. icChosen' \in Seq(Cases)
      BY <2>1
    <2> QED
      BY <2>1, <2>2, <2>3
  <1>4. CASE StartIntake
    <2>1. icStarts + 1 \in 1..MaxIntakes
      BY <1>0, <1>4 DEF StartIntake
    <2> QED
      BY <1>0, <1>4, <2>1 DEF StartIntake
  <1>5. CASE CaseAges
    <2>1. icLedger' \in Seq(Cases) /\ IsInjective(icLedger')
      BY <1>5, TailKeeps DEF CaseAges
    <2> QED
      BY <1>5, <2>1 DEF CaseAges
  <1>6. ASSUME NEW c \in Cases, CaseComes(c) PROVE CasesTyped'
    <2>1. PICK i \in 1..(Len(icLedger) + 1) : icLedger' = InsertAt(icLedger, i, c)
      BY <1>6 DEF CaseComes
    <2>2. c \notin ToSet(icLedger)
      BY <1>6 DEF CaseComes
    <2>3. icLedger' \in Seq(Cases) /\ IsInjective(icLedger')
      BY <2>1, <2>2, InsertKeeps
    <2> QED
      BY <1>6, <2>3 DEF CaseComes
  <1> QED
    BY <1>1, <1>2, <1>3, <1>4, <1>5, <1>6, ChooseTyped DEF CasesNext

\* The tracks of munitions (MunitionTrails).  A walk has no place twice in a
\* row; an entry draws a short one, and a munition has one entry at most.
Walks == {t \in Seq(Nat \ {NoPlace}) : \A n \in 2..Len(t) : t[n] # t[n - 1]}
ShortWalks == {t \in Walks : Len(t) <= TrailLen}
EndingsKept == [kind : {"none"} \cup Endings, age : 0..Longest]
TrailEntries == [id : Munitions, trail : ShortWalks \ {<< >>}, ending : EndingsKept]
AtMost(id) == {<< >>} \cup {<<e>> : e \in {d \in TrailEntries : d.id = id}}

RowsTyped(rows) == DOMAIN rows \subseteq Munitions /\ \A id \in DOMAIN rows : rows[id] \in TrackRows(id)
IdsApart(s) == \A n, m \in DOMAIN s : s[n].id = s[m].id => n = m

LEMMA GrownWalks ==
  ASSUME NEW t \in Walks, NEW place \in Nat
  PROVE  Grown(t, place) \in Walks
  <1> DEFINE P == Nat \ {NoPlace}  u == Append(t, place)  n == Len(t)
  <1>1. CASE place = NoPlace \/ (t # << >> /\ Last(t) = place)
    BY <1>1 DEF Grown
  <1>2. CASE place # NoPlace /\ (t = << >> \/ Last(t) # place)
    <2>1. Grown(t, place) = u
      BY <1>2 DEF Grown
    <2>2. t \in Seq(P) /\ place \in P /\ \A i \in 2..Len(t) : t[i] # t[i - 1]
      BY <1>2 DEF Walks
    <2> HIDE DEF P
    <2>3. u \in Seq(P) /\ Len(u) = n + 1 /\ n \in Nat /\ u[n + 1] = place /\ \A i \in 1..n : u[i] = t[i]
      BY <2>2
    <2>4. ASSUME NEW i \in 2..(n + 1) PROVE u[i] # u[i - 1]
      <3>1. CASE i = n + 1
        <4>1. t # << >> /\ u[i] = place /\ i - 1 = n /\ n \in 1..n /\ u[n] = t[n]
          BY <3>1, <2>2, <2>3
        <4>2. t[n] # place
          BY <4>1, <1>2 DEF Last
        <4> QED
          BY <4>1, <4>2
      <3>2. CASE i # n + 1
        <4>1. i \in 2..n /\ i \in 1..n /\ i - 1 \in 1..n
          BY <3>2, <2>3
        <4> QED
          BY <4>1, <2>2, <2>3
      <3> QED
        BY <3>1, <3>2
    <2> HIDE DEF u, n
    <2> QED
      BY <2>1, <2>3, <2>4 DEF Walks, P
  <1> QED
    BY <1>1, <1>2

LEMMA LastWalks ==
  ASSUME NEW t \in Walks
  PROVE  LastOf(t) \in ShortWalks
  <1> DEFINE P == Nat \ {NoPlace}  n == Len(t)  i == IF n > TrailLen THEN n - TrailLen + 1 ELSE 1
             u == SubSeq(t, i, n)
  <1>1. t \in Seq(P) /\ n \in Nat /\ TrailLen \in Nat \ {0} /\ \A k \in 2..n : t[k] # t[k - 1]
    BY TrailAssumption DEF Walks
  <1> HIDE DEF P
  <1>2. i \in Nat \ {0} /\ i <= n + 1 /\ (n - i) + 1 <= TrailLen /\ n <= Len(t)
    BY <1>1
  <1> DEFINE m == (n - i) + 1
  <1>3. u \in Seq(P) /\ Len(u) = m /\ \A k \in 1..m : u[k] = t[(i + k) - 1]
    <2> HIDE DEF i
    <2> QED
      BY <1>1, <1>2, PartOf
  <1> HIDE DEF i, u
  <1>4. ASSUME NEW k \in 2..m PROVE u[k] # u[k - 1]
    <2>1. k \in 1..m /\ k - 1 \in 1..m /\ (i + k) - 1 \in 2..n /\ (i + (k - 1)) - 1 = ((i + k) - 1) - 1
      BY <1>1, <1>2
    <2>2. u[k] = t[(i + k) - 1] /\ u[k - 1] = t[((i + k) - 1) - 1]
      BY <1>3, <2>1
    <2> QED
      BY <1>1, <2>1, <2>2
  <1>5. LastOf(t) = u
    BY DEF LastOf, u, i, n
  <1> HIDE DEF n
  <1>6. u \in Walks
    BY <1>3, <1>4 DEF Walks, P
  <1> QED
    BY <1>2, <1>3, <1>5, <1>6 DEF ShortWalks

\* The samples of a row, each grown on the one before.
LEMMA GrownFolds ==
  ASSUME NEW s \in Seq(Nat)
  PROVE  FoldLeft(Grown, << >>, s) \in Walks
  <1> DEFINE V == Walks
             n == Len(s)
             b == << >>
             o == [p \in V \X (1..n) |-> Grown(p[1], s[p[2]])]
             Is(it) == it = [S \in SUBSET (1..n) |-> IF S = {} THEN b ELSE Grown(it[S \ {Max(S)}], s[Max(S)])]
             iter == CHOOSE it : Is(it)
  <1>1. n \in Nat /\ DOMAIN s = 1..n /\ \A i \in 1..n : s[i] \in Nat
    OBVIOUS
  <1>2. FoldLeft(Grown, << >>, s) = iter[1..n]
    BY <1>1 DEF FoldLeft, MapThenFoldSet
  <1>3. o \in [V \X (1..n) -> V]
    BY <1>1, GrownWalks
  <1>4. b \in V
    BY DEF Walks
  <1>5. \A v \in V, i \in 1..n : o[<<v, i>>] = Grown(v, s[i])
    OBVIOUS
  <1> HIDE DEF n, V, o, b
  <1>7. PICK f \in [SUBSET (1..n) -> V] : Folded(f, b, n, o)
    BY <1>1, <1>3, <1>4, FoldExists
  <1>8. ASSUME NEW S \in SUBSET (1..n), S # {} PROVE Max(S) \in 1..n /\ S \ {Max(S)} \in SUBSET (1..n)
    BY <1>1, <1>8, MaxIn
  <1>9. f = [S \in SUBSET (1..n) |-> IF S = {} THEN b ELSE Grown(f[S \ {Max(S)}], s[Max(S)])]
    BY <1>7, <1>8, <1>5 DEF Folded
  <1>10. Is(iter)
    BY <1>9
  <1> HIDE DEF iter
  <1>11. iter[{}] = b
    BY <1>10
  <1>12. ASSUME NEW T \in SUBSET (1..n), T # {}, iter[T \ {Max(T)}] \in V
         PROVE  iter[T] = o[<<iter[T \ {Max(T)}], Max(T)>>]
    BY <1>12, <1>10, <1>8, <1>5
  <1>13. PICK c \in [0..n -> V] : iter[1..n] = c[n]
    <2>1. StepsBy(iter, V, b, n, o)
      BY <1>11, <1>12 DEF StepsBy
    <2>2. ChainTo(V, b, n, o, iter[1..n])
      BY <2>1, <1>1, <1>4, <1>3, FoldChain
    <2> QED
      BY <2>2 DEF ChainTo
  <1> QED
    BY <1>1, <1>2, <1>13 DEF V

Samples == [place : Nat, trail : Seq(Nat)]

LEMMA ServerWalks ==
  ASSUME NEW sample \in Samples
  PROVE  ServerTrail(sample) \in ShortWalks
  <1>1. << >> \in ShortWalks
    BY TrailAssumption DEF ShortWalks, Walks
  <1>2. sample.place \in Nat /\ sample.trail \in Seq(Nat)
    BY DEF Samples
  <1> QED
    BY <1>1, <1>2, GrownFolds, GrownWalks, LastWalks DEF ServerTrail

LEMMA EntryTyped ==
  ASSUME NEW id, NEW old \in AtMost(id), old # << >>
  PROVE  /\ old = <<old[1]>> /\ old[1] \in TrailEntries /\ old[1].id = id
         /\ old[1].trail \in ShortWalks \ {<< >>} /\ old[1].ending \in EndingsKept
  BY DEF AtMost, TrailEntries

LEMMA TrailAfterWalks ==
  ASSUME NEW id, NEW old \in AtMost(id), NEW sample \in Samples
  PROVE  TrailAfter(old, sample) \in ShortWalks
  <1> DEFINE before == IF old = << >> THEN << >> ELSE old[1].trail
  <1>1. before \in Walks
    BY EntryTyped DEF ShortWalks, Walks
  <1>2. sample.place \in Nat
    BY DEF Samples
  <1> HIDE DEF before
  <1>3. LastOf(Grown(before, sample.place)) \in ShortWalks
    BY <1>1, <1>2, GrownWalks, LastWalks
  <1> QED
    BY <1>3, ServerWalks DEF TrailAfter, before

LEMMA DrawnIsOne ==
  ASSUME NEW id \in Munitions, NEW trail \in ShortWalks, NEW ending \in EndingsKept
  PROVE  Drawn(id, trail, ending) \in AtMost(id)
  <1> DEFINE e == [id |-> id, trail |-> trail, ending |-> ending]
  <1>1. CASE trail = << >>
    BY <1>1 DEF Drawn, AtMost
  <1>2. CASE trail # << >>
    <2>1. e \in TrailEntries /\ e.id = id
      BY <1>2 DEF TrailEntries
    <2>2. Drawn(id, trail, ending) = <<e>>
      BY <1>2 DEF Drawn
    <2> HIDE DEF e
    <2> QED
      BY <2>1, <2>2 DEF AtMost
  <1> QED
    BY <1>1, <1>2

LEMMA RowTyped ==
  ASSUME NEW id \in Munitions, NEW row \in TrackRows(id)
  PROVE  row.sample \in Samples /\ row.ending \in {"none"} \cup Endings /\ row.ago \in -Ahead..Longest
  BY TrailAssumption DEF TrackRows, Samples

LEMMA LongestTyped == Longest \in Nat \ {0} /\ Ahead \in Nat /\ 0 \in 0..Longest
  BY TrailAssumption DEF Longest

LEMMA InFlightIsOne ==
  ASSUME NEW id \in Munitions, NEW old \in AtMost(id), NEW row \in TrackRows(id)
  PROVE  InFlight(id, old, row) \in AtMost(id)
  <1> DEFINE before == IF old # << >> /\ Played(old[1].ending) THEN << >> ELSE old
  <1>1. before \in AtMost(id)
    BY DEF AtMost
  <1>2. Flying \in EndingsKept
    BY LongestTyped DEF Flying, EndingsKept
  <1> HIDE DEF before
  <1>3. TrailAfter(before, row.sample) \in ShortWalks
    BY <1>1, RowTyped, TrailAfterWalks
  <1>4. Drawn(id, TrailAfter(before, row.sample), Flying) \in AtMost(id)
    BY <1>2, <1>3, DrawnIsOne
  <1> QED
    BY <1>4 DEF InFlight, before

LEMMA EndedIsOne ==
  ASSUME NEW id \in Munitions, NEW old \in AtMost(id), NEW row \in TrackRows(id)
  PROVE  Ended(id, old, row) \in AtMost(id)
  <1> DEFINE age == IF row.ago < 0 THEN 0 ELSE row.ago
  <1>1. row.sample \in Samples /\ row.ending \in {"none"} \cup Endings /\ age \in 0..Longest /\ 0 \in 0..Longest
    BY RowTyped, LongestTyped
  <1>2. EndingOf(old, row) \in EndingsKept
    <2>1. CASE old # << >> /\ old[1].ending.kind # "none"
      BY <2>1, EntryTyped DEF EndingOf
    <2>2. CASE old # << >> /\ old[1].ending.kind = "none"
      <3>1. EndingOf(old, row) = [kind |-> row.ending, age |-> 0]
        BY <2>2 DEF EndingOf
      <3> QED
        BY <3>1, <1>1 DEF EndingsKept
    <2>3. CASE old = << >>
      <3>1. EndingOf(old, row) = [kind |-> row.ending, age |-> age]
        BY <2>3 DEF EndingOf
      <3> HIDE DEF age
      <3> QED
        BY <3>1, <1>1 DEF EndingsKept
    <2> QED
      BY <2>1, <2>2, <2>3
  <1>3. TrailAfter(old, row.sample) \in ShortWalks
    BY <1>1, TrailAfterWalks
  <1>4. Drawn(id, TrailAfter(old, row.sample), EndingOf(old, row)) \in AtMost(id)
    BY <1>2, <1>3, DrawnIsOne
  <1>5. << >> \in AtMost(id)
    BY DEF AtMost
  <1> QED
    BY <1>4, <1>5 DEF Ended

LEMMA VanishedIsOne ==
  ASSUME NEW e \in TrailEntries
  PROVE  Vanished(e) \in AtMost(e.id)
  <1> DEFINE g == [kind |-> "silence", age |-> 0]  d == [e EXCEPT !.ending = g]
  <1>1. g \in EndingsKept
    BY LongestTyped DEF EndingsKept, Endings
  <1> HIDE DEF g
  <1>2. d \in TrailEntries /\ d.id = e.id
    BY <1>1 DEF TrailEntries
  <1>3. Vanished(e) \in {<<d>>, << >>, <<e>>}
    BY DEF Vanished, d, g
  <1> HIDE DEF d
  <1> QED
    BY <1>2, <1>3 DEF AtMost

LEMMA EntryIsOne ==
  ASSUME NEW entries \in Seq(TrailEntries), NEW id
  PROVE  EntryOf(entries, id) \in AtMost(id)
  <1> DEFINE found == {e \in ToSet(entries) : e.id = id}  e1 == CHOOSE e \in found : TRUE
  <1>1. \A e \in found : e \in TrailEntries /\ e.id = id
    BY DEF ToSet
  <1>2. CASE found = {}
    BY <1>2 DEF EntryOf, AtMost
  <1>3. CASE found # {}
    <2>1. e1 \in found
      BY <1>3
    <2>2. EntryOf(entries, id) = <<e1>>
      BY <1>3 DEF EntryOf
    <2> HIDE DEF e1, found
    <2> QED
      BY <1>1, <2>1, <2>2 DEF AtMost
  <1> QED
    BY <1>2, <1>3

\* The ids of the feed in its order: a set of numbers has one.
Ordered(s, T) == s \in [1..Cardinality(T) -> T] /\ \A n, m \in 1..Cardinality(T) : n < m => s[n] < s[m]

LEMMA OrderExists ==
  ASSUME NEW S \in SUBSET Munitions
  PROVE  \E s : Ordered(s, S)
  <1> DEFINE C == {T \in SUBSET S : ~\E s : Ordered(s, T)}
  <1> SUFFICES ASSUME ~\E s : Ordered(s, S) PROVE FALSE
    OBVIOUS
  <1>0. IsFiniteSet(S) /\ S \subseteq Nat
    BY TrailAssumption, FS_Subset
  <1>1. C \in SUBSET SUBSET S /\ C # {}
    OBVIOUS
  <1> HIDE DEF C
  <1>2. PICK T \in C : \A y \in C : y \subseteq T => y = T
    <2>1. IsFiniteSet(S)
      BY <1>0
    <2> QED
      BY ONLY <2>1, <1>1, SmallestSet
  <1> USE DEF C
  <1>3. T \in SUBSET S /\ IsFiniteSet(T) /\ T \subseteq Nat
    BY <1>0, <1>2, FS_Subset
  <1>4. T # {}
    <2> SUFFICES ASSUME T = {} PROVE FALSE
      OBVIOUS
    <2>1. Cardinality(T) = 0
      BY FS_EmptySet
    <2>2. Ordered(<< >>, T)
      BY <2>1 DEF Ordered
    <2> QED
      BY <1>2, <2>2
  <1>5. Max(T) \in T /\ \A y \in T : y <= Max(T)
    BY <1>3, <1>4, LargestOf
  <1> DEFINE x == Max(T)  U == T \ {x}
  <1> HIDE DEF x
  <1>6. x \in T /\ x \in Nat /\ \A y \in U : y < x
    <2>1. x \in T /\ \A y \in T : y <= x
      BY <1>5 DEF x
    <2>2. \A y \in U : y \in T /\ y # x /\ y \in Nat
      BY <1>3
    <2>3. x \in Nat
      BY <1>3, <2>1
    <2> QED
      BY <2>1, <2>2, <2>3
  <1>7. PICK f : Ordered(f, U)
    <2>1. U \in SUBSET S /\ U \subseteq T /\ U # T
      BY <1>3, <1>6
    <2> QED
      BY <1>2, <2>1
  <1>8. Cardinality(U) \in Nat /\ Cardinality(T) = Cardinality(U) + 1
    <2>1. Cardinality(U) = Cardinality(T) - 1 /\ IsFiniteSet(U)
      BY <1>3, <1>6, FS_RemoveElement
    <2>2. Cardinality(T) \in Nat /\ Cardinality(U) \in Nat
      BY <1>3, <2>1, FS_CardinalityType
    <2> QED
      BY <2>1, <2>2
  <1> DEFINE k == Cardinality(U)
             g == [i \in 1..(k + 1) |-> IF i = k + 1 THEN x ELSE f[i]]
  <1>9. /\ f \in [1..k -> U] /\ k \in Nat
        /\ \A n, m \in 1..k : n < m => f[n] < f[m]
    BY <1>7, <1>8 DEF Ordered
  <1> HIDE DEF k
  <1>10. \A i \in 1..k : f[i] \in T /\ f[i] < x /\ i \in 1..(k + 1) /\ g[i] = f[i]
    <2> SUFFICES ASSUME NEW i \in 1..k PROVE f[i] \in T /\ f[i] < x /\ i \in 1..(k + 1) /\ g[i] = f[i]
      OBVIOUS
    <2>1. f[i] \in U /\ f[i] \in T
      BY <1>9
    <2>2. i \in 1..(k + 1) /\ i # k + 1
      BY <1>9
    <2>3. g[i] = f[i]
      BY <2>2
    <2> HIDE DEF U, g
    <2> QED
      BY <1>6, <2>1, <2>2, <2>3
  <1>11. g[k + 1] = x /\ g \in [1..(k + 1) -> T]
    BY <1>6, <1>9, <1>10
  <1>12. ASSUME NEW n \in 1..(k + 1), NEW m \in 1..(k + 1), n < m PROVE g[n] < g[m]
    <2>1. n \in 1..k
      BY <1>9, <1>12
    <2>2. m = k + 1 \/ m \in 1..k
      BY <1>9, <1>12
    <2> HIDE DEF g
    <2>3. CASE m = k + 1
      BY <2>1, <2>3, <1>10, <1>11
    <2>4. CASE m \in 1..k
      BY <2>1, <2>4, <1>9, <1>10, <1>12
    <2> QED
      BY <2>2, <2>3, <2>4
  <1> HIDE DEF g
  <1>13. Ordered(g, T)
    BY <1>8, <1>11, <1>12 DEF Ordered, k
  <1> QED
    BY <1>2, <1>13

LEMMA InOrderTyped ==
  ASSUME NEW S \in SUBSET Munitions
  PROVE  /\ Cardinality(S) \in Nat /\ InOrder(S) \in [1..Cardinality(S) -> S]
         /\ \A n, m \in 1..Cardinality(S) : InOrder(S)[n] = InOrder(S)[m] => n = m
  <1> DEFINE k == Cardinality(S)
             Up(s) == \A n, m \in DOMAIN s : n < m => s[n] < s[m]
  <1>1. k \in Nat /\ S \subseteq Nat
    BY TrailAssumption, FS_Subset, FS_CardinalityType
  <1>2. PICK s : Ordered(s, S)
    BY OrderExists
  <1> HIDE DEF k
  <1>3. s \in [1..k -> S] /\ DOMAIN s = 1..k /\ \A n, m \in 1..k : n < m => s[n] < s[m]
    BY <1>2 DEF Ordered, k
  <1>4. \A n, m \in 1..k : n # m => s[n] # s[m]
    <2> SUFFICES ASSUME NEW n \in 1..k, NEW m \in 1..k, n # m PROVE s[n] # s[m]
      OBVIOUS
    <2>0. s[n] \in S /\ s[m] \in S
      BY <1>3
    <2>1. s[n] \in Nat /\ s[m] \in Nat /\ n \in Int /\ m \in Int
      <3>1. n \in Nat /\ m \in Nat
        BY <1>1
      <3>2. s[n] \in Nat /\ s[m] \in Nat
        BY ONLY <1>1, <2>0
      <3> QED
        BY <3>1, <3>2
    <2>2. n < m \/ m < n
      BY <2>1
    <2> QED
      BY <1>3, <2>1, <2>2
  <1>5. SetToSeqs(S) = {f \in [1..k -> S] : \A i, j \in 1..k : i # j => f[i] # f[j]}
    BY DEF SetToSeqs, k
  <1>6. s \in SetToSeqs(S) /\ Up(s)
    BY <1>3, <1>4, <1>5
  <1>7. InOrder(S) = CHOOSE t \in SetToSeqs(S) : Up(t)
    BY DEF InOrder
  <1> HIDE DEF Up
  <1>8. InOrder(S) \in SetToSeqs(S)
    BY <1>6, <1>7
  <1> QED
    BY <1>1, <1>5, <1>8 DEF k

\* The parts of a list, each of one entry at most, joined.
LEMMA JoinLeads ==
  ASSUME NEW n \in Nat, NEW parts, DOMAIN parts = 1..n, \A i \in 1..n : parts[i] \in Seq(TrailEntries)
  PROVE  \E c \in [0..n -> Seq(TrailEntries)] :
            /\ c[0] = << >> /\ Joined(parts) = c[n]
            /\ \A i \in 1..n : c[i] = c[i - 1] \o parts[i]
  <1> DEFINE V == Seq(TrailEntries)
             b == << >>
             o == [p \in V \X (1..n) |-> Join(p[1], parts[p[2]])]
             Is(it) == it = [S \in SUBSET (1..n) |-> IF S = {} THEN b ELSE Join(it[S \ {Max(S)}], parts[Max(S)])]
             iter == CHOOSE it : Is(it)
  <1>2. Joined(parts) = iter[1..n]
    BY DEF Joined, FoldLeft, MapThenFoldSet
  <1>3. o \in [V \X (1..n) -> V]
    BY DEF Join
  <1>4. b \in V
    OBVIOUS
  <1>5. \A v \in V, i \in 1..n : o[<<v, i>>] = Join(v, parts[i])
    OBVIOUS
  <1> HIDE DEF V, o, b
  <1>7. PICK f \in [SUBSET (1..n) -> V] : Folded(f, b, n, o)
    BY <1>3, <1>4, FoldExists
  <1>8. ASSUME NEW S \in SUBSET (1..n), S # {} PROVE Max(S) \in 1..n /\ S \ {Max(S)} \in SUBSET (1..n)
    BY <1>8, MaxIn
  <1>9. f = [S \in SUBSET (1..n) |-> IF S = {} THEN b ELSE Join(f[S \ {Max(S)}], parts[Max(S)])]
    BY <1>7, <1>8, <1>5 DEF Folded
  <1>10. Is(iter)
    BY <1>9
  <1> HIDE DEF iter
  <1>11. iter[{}] = b
    BY <1>10
  <1>12. ASSUME NEW T \in SUBSET (1..n), T # {}, iter[T \ {Max(T)}] \in V
         PROVE  iter[T] = o[<<iter[T \ {Max(T)}], Max(T)>>]
    BY <1>12, <1>10, <1>8, <1>5
  <1>13. PICK c \in [0..n -> V] : c[0] = b /\ (\A i \in 1..n : c[i] = o[<<c[i - 1], i>>]) /\ iter[1..n] = c[n]
    <2>1. StepsBy(iter, V, b, n, o)
      BY <1>11, <1>12 DEF StepsBy
    <2>2. ChainTo(V, b, n, o, iter[1..n])
      BY <2>1, <1>4, <1>3, FoldChain
    <2> QED
      BY <2>2 DEF ChainTo
  <1>14. ASSUME NEW i \in 1..n PROVE c[i] = c[i - 1] \o parts[i]
    <2>1. c[i - 1] \in V
      BY <1>13
    <2> QED
      BY <2>1, <1>13, <1>5 DEF Join
  <1> QED
    BY <1>2, <1>13, <1>14 DEF V, b

LEMMA ConcatHolds ==
  ASSUME NEW s \in Seq(TrailEntries), NEW t \in Seq(TrailEntries)
  PROVE  ToSet(s \o t) = ToSet(s) \cup ToSet(t)
  <1> DEFINE E == TrailEntries  u == s \o t  a == Len(s)  b == Len(t)
  <1>1. a \in Nat /\ b \in Nat /\ DOMAIN s = 1..a /\ DOMAIN t = 1..b
    OBVIOUS
  <1> HIDE DEF E
  <1>2. u \in Seq(E) /\ Len(u) = a + b /\ \A i \in 1..(a + b) : u[i] = IF i <= a THEN s[i] ELSE t[i - a]
    BY ConcatProperties DEF E
  <1>3. DOMAIN u = 1..(a + b)
    BY <1>2
  <1> HIDE DEF u, a, b
  <1>4. \A i \in 1..(a + b) : \/ i \in 1..a /\ u[i] = s[i]
                              \/ i - a \in 1..b /\ i = (i - a) + a /\ u[i] = t[i - a]
    BY <1>1, <1>2
  <1>5. \A i \in 1..a : i \in 1..(a + b) /\ u[i] = s[i]
    BY <1>1, <1>2
  <1>6. \A i \in 1..b : i + a \in 1..(a + b) /\ u[i + a] = t[i]
    <2> SUFFICES ASSUME NEW i \in 1..b PROVE i + a \in 1..(a + b) /\ u[i + a] = t[i]
      OBVIOUS
    <2>1. i + a \in 1..(a + b) /\ ~(i + a <= a) /\ (i + a) - a = i
      BY <1>1
    <2> QED
      BY <1>2, <2>1
  <1>7. ToSet(u) = ToSet(s) \cup ToSet(t)
    <2>1. ASSUME NEW e \in ToSet(u) PROVE e \in ToSet(s) \cup ToSet(t)
      <3>1. PICK i \in 1..(a + b) : e = u[i]
        BY <1>3 DEF ToSet
      <3> QED
        BY <1>1, <1>4, <3>1 DEF ToSet
    <2>2. ASSUME NEW e \in ToSet(s) PROVE e \in ToSet(u)
      <3>1. PICK i \in 1..a : e = s[i]
        BY <1>1 DEF ToSet
      <3> QED
        BY <1>3, <1>5, <3>1 DEF ToSet
    <2>3. ASSUME NEW e \in ToSet(t) PROVE e \in ToSet(u)
      <3>1. PICK i \in 1..b : e = t[i]
        BY <1>1 DEF ToSet
      <3>2. i + a \in DOMAIN u /\ u[i + a] = e
        BY <1>3, <1>6, <3>1
      <3> QED
        BY <3>2 DEF ToSet
    <2> QED
      BY <2>1, <2>2, <2>3
  <1> QED
    BY <1>7 DEF u

LEMMA BothApart ==
  ASSUME NEW s \in Seq(TrailEntries), NEW t \in Seq(TrailEntries), IdsApart(s), IdsApart(t),
         \A e \in ToSet(s), d \in ToSet(t) : e.id # d.id
  PROVE  s \o t \in Seq(TrailEntries) /\ IdsApart(s \o t) /\ ToSet(s \o t) = ToSet(s) \cup ToSet(t)
  <1> DEFINE E == TrailEntries  u == s \o t  a == Len(s)  b == Len(t)
  <1>1. a \in Nat /\ b \in Nat /\ DOMAIN s = 1..a /\ DOMAIN t = 1..b
    OBVIOUS
  <1> HIDE DEF E
  <1>2. u \in Seq(E) /\ Len(u) = a + b /\ \A i \in 1..(a + b) : u[i] = IF i <= a THEN s[i] ELSE t[i - a]
    BY ConcatProperties DEF E
  <1>3. DOMAIN u = 1..(a + b)
    BY <1>2
  <1> HIDE DEF u, a, b
  <1>4. \A i \in 1..(a + b) : \/ i \in 1..a /\ u[i] = s[i]
                              \/ i - a \in 1..b /\ i = (i - a) + a /\ u[i] = t[i - a]
    BY <1>1, <1>2
  <1>5. \A i \in 1..a : i \in 1..(a + b) /\ u[i] = s[i]
    BY <1>1, <1>2
  <1>6. \A i \in 1..b : i + a \in 1..(a + b) /\ u[i + a] = t[i]
    <2> SUFFICES ASSUME NEW i \in 1..b PROVE i + a \in 1..(a + b) /\ u[i + a] = t[i]
      OBVIOUS
    <2>1. i + a \in 1..(a + b) /\ ~(i + a <= a) /\ (i + a) - a = i
      BY <1>1
    <2> QED
      BY <1>2, <2>1
  <1>7. ToSet(u) = ToSet(s) \cup ToSet(t)
    BY ConcatHolds DEF u
  <1>8. ASSUME NEW i \in 1..(a + b), NEW j \in 1..(a + b), u[i].id = u[j].id PROVE i = j
    <2>1. CASE i \in 1..a /\ j \in 1..a
      BY <1>1, <1>5, <1>8, <2>1 DEF IdsApart
    <2>2. CASE i - a \in 1..b /\ j - a \in 1..b /\ u[i] = t[i - a] /\ u[j] = t[j - a]
      <3>1. i - a = j - a
        BY <1>1, <1>8, <2>2 DEF IdsApart
      <3> QED
        BY <1>1, <3>1
    <2>3. ASSUME NEW p \in 1..(a + b), NEW q \in 1..(a + b), p \in 1..a, q - a \in 1..b, u[q] = t[q - a]
          PROVE  u[p].id # u[q].id
      <3>1. u[p] \in ToSet(s) /\ u[q] \in ToSet(t)
        BY <1>1, <1>5, <2>3 DEF ToSet
      <3> QED
        BY <3>1
    <2> QED
      BY <1>4, <1>8, <2>1, <2>2, <2>3
  <1> QED
    BY <1>2, <1>3, <1>7, <1>8 DEF IdsApart, u, E

LEMMA OneApart ==
  ASSUME NEW id, NEW part1 \in AtMost(id)
  PROVE  part1 \in Seq(TrailEntries) /\ IdsApart(part1) /\ \A e \in ToSet(part1) : e.id = id
  <1>1. CASE part1 = << >>
    BY <1>1 DEF IdsApart, ToSet
  <1>2. ASSUME NEW e \in TrailEntries, e.id = id, part1 = <<e>>
        PROVE  part1 \in Seq(TrailEntries) /\ IdsApart(part1) /\ \A d \in ToSet(part1) : d.id = id
    <2> DEFINE E == TrailEntries
    <2> HIDE DEF E
    <2>1. <<e>> \in Seq(E) /\ DOMAIN <<e>> = {1} /\ <<e>>[1] = e
      BY DEF E
    <2> QED
      BY <1>2, <2>1 DEF IdsApart, ToSet, E
  <1> QED
    BY <1>1, <1>2 DEF AtMost

LEMMA JoinedApart ==
  ASSUME NEW n \in Nat, NEW ids, \A i, j \in 1..n : ids[i] = ids[j] => i = j,
         NEW parts, DOMAIN parts = 1..n, \A i \in 1..n : parts[i] \in AtMost(ids[i])
  PROVE  /\ Joined(parts) \in Seq(TrailEntries) /\ IdsApart(Joined(parts))
         /\ \A e \in ToSet(Joined(parts)) : \E i \in 1..n : e.id = ids[i]
  <1> DEFINE V == Seq(TrailEntries)
             Among(s, k) == \A e \in ToSet(s) : \E i \in 1..k : e.id = ids[i]
             T(c) == {k \in 0..n : IdsApart(c[k]) /\ Among(c[k], k)}
  <1>1. \A i \in 1..n : parts[i] \in V /\ IdsApart(parts[i]) /\ \A e \in ToSet(parts[i]) : e.id = ids[i]
    BY OneApart
  <1>2. PICK c \in [0..n -> Seq(TrailEntries)] :
           /\ c[0] = << >> /\ Joined(parts) = c[n]
           /\ \A i \in 1..n : c[i] = c[i - 1] \o parts[i]
    <2>1. n \in Nat /\ DOMAIN parts = 1..n /\ \A i \in 1..n : parts[i] \in Seq(TrailEntries)
      BY <1>1
    <2> HIDE DEF V, Among, T
    <2> QED
      BY ONLY <2>1, JoinLeads
  <1>9. c \in [0..n -> V]
    BY <1>2
  <1> HIDE DEF V
  <1>3. 0 \in T(c)
    BY <1>2 DEF IdsApart, ToSet
  <1>4. ASSUME NEW k \in 0..(n - 1), k \in T(c) PROVE k + 1 \in T(c)
    <2>1. k + 1 \in 1..n /\ k + 1 \in 0..n /\ (k + 1) - 1 = k /\ k \in 0..n /\ k \in Nat
      OBVIOUS
    <2>2. c[k] \in V /\ IdsApart(c[k]) /\ Among(c[k], k) /\ c[k + 1] = c[k] \o parts[k + 1]
      BY <1>2, <1>9, <1>4, <2>1
    <2> DEFINE s == c[k]  t == parts[k + 1]
    <2>3. t \in V /\ IdsApart(t) /\ \A e \in ToSet(t) : e.id = ids[k + 1]
      BY <1>1, <2>1
    <2> HIDE DEF s, t, T
    <2>4. ASSUME NEW e \in ToSet(s), NEW d \in ToSet(t) PROVE e.id # d.id
      <3>1. PICK i \in 1..k : e.id = ids[i]
        BY <2>2 DEF s
      <3>2. i \in 1..n /\ i # k + 1
        BY <2>1
      <3> QED
        BY <2>1, <2>3, <3>1, <3>2
    <2>5. s \o t \in V /\ IdsApart(s \o t) /\ ToSet(s \o t) = ToSet(s) \cup ToSet(t)
      BY <2>2, <2>3, <2>4, BothApart DEF V, s
    <2>6. Among(s \o t, k + 1)
      <3> SUFFICES ASSUME NEW e \in ToSet(s \o t) PROVE \E i \in 1..(k + 1) : e.id = ids[i]
        OBVIOUS
      <3>1. CASE e \in ToSet(s)
        <4>1. PICK i \in 1..k : e.id = ids[i]
          BY <2>2, <3>1 DEF s
        <4>2. i \in 1..(k + 1)
          BY <2>1
        <4> QED
          BY <4>1, <4>2
      <3>2. CASE e \in ToSet(t)
        <4>1. k + 1 \in 1..(k + 1)
          BY <2>1
        <4> QED
          BY <2>3, <3>2, <4>1
      <3> QED
        BY <2>5, <3>1, <3>2
    <2> HIDE DEF Among
    <2> QED
      BY <2>1, <2>2, <2>5, <2>6 DEF T, s, t
  <1>5. 0..n \subseteq T(c)
    <2> HIDE DEF T
    <2> QED
      BY <1>3, <1>4, UpTo
  <1>6. n \in 0..n
    OBVIOUS
  <1>7. c[n] \in V /\ IdsApart(c[n]) /\ Among(c[n], n)
    BY <1>2, <1>9, <1>5, <1>6
  <1> QED
    BY <1>2, <1>7 DEF V

\* Nothing is lost in joining, and nothing comes of it.
LEMMA JoinedHolds ==
  ASSUME NEW n \in Nat, NEW parts, DOMAIN parts = 1..n, \A i \in 1..n : parts[i] \in Seq(TrailEntries)
  PROVE  \A e : e \in ToSet(Joined(parts)) <=> \E i \in 1..n : e \in ToSet(parts[i])
  <1> DEFINE V == Seq(TrailEntries)
             Held(k) == UNION {ToSet(parts[i]) : i \in 1..k}
             T(c) == {k \in 0..n : ToSet(c[k]) = Held(k)}
  <1>1. PICK c \in [0..n -> Seq(TrailEntries)] :
           /\ c[0] = << >> /\ Joined(parts) = c[n]
           /\ \A i \in 1..n : c[i] = c[i - 1] \o parts[i]
    <2>1. n \in Nat /\ DOMAIN parts = 1..n /\ \A i \in 1..n : parts[i] \in Seq(TrailEntries)
      OBVIOUS
    <2> HIDE DEF V, Held, T
    <2> QED
      BY ONLY <2>1, JoinLeads
  <1>2. 0 \in T(c)
    BY <1>1 DEF ToSet
  <1>3. ASSUME NEW k \in 0..(n - 1), k \in T(c) PROVE k + 1 \in T(c)
    <2>1. k + 1 \in 1..n /\ k + 1 \in 0..n /\ (k + 1) - 1 = k /\ k \in 0..n /\ k \in Nat
      OBVIOUS
    <2>2. c[k] \in V /\ c[k + 1] = c[k] \o parts[k + 1] /\ parts[k + 1] \in V
      BY <1>1, <2>1
    <2>3. ToSet(c[k]) = Held(k)
      BY <1>3
    <2> DEFINE s == c[k]  t == parts[k + 1]
    <2> HIDE DEF T
    <2>4. ToSet(s \o t) = ToSet(s) \cup ToSet(t)
      <3> HIDE DEF s, t
      <3> QED
        BY <2>2, ConcatHolds DEF s, t
    <2>5. 1..(k + 1) = (1..k) \cup {k + 1}
      BY <2>1
    <2>6. Held(k + 1) = Held(k) \cup ToSet(t)
      BY <2>5
    <2> HIDE DEF Held, s, t
    <2>7. ToSet(c[k + 1]) = Held(k + 1)
      BY <2>2, <2>3, <2>4, <2>6 DEF s, t
    <2> QED
      BY <2>1, <2>7 DEF T
  <1>4. 0..n \subseteq T(c)
    <2> HIDE DEF T
    <2> QED
      BY <1>2, <1>3, UpTo
  <1>5. ToSet(Joined(parts)) = Held(n)
    BY <1>1, <1>4
  <1> QED
    BY <1>5

\* What is drawn next of a row in the feed.
Presented(entries, rows, spent, id) ==
    CASE rows[id].ending = "none" -> InFlight(id, EntryOf(entries, id), rows[id])
      [] rows[id].ending # "none" /\ id \in spent -> << >>
      [] OTHER -> Ended(id, EntryOf(entries, id), rows[id])

\* A fold of the feed's rows into the entries keeps one entry to a munition.
LEMMA NextDraws ==
  ASSUME NEW entries \in Seq(TrailEntries), IdsApart(entries), NEW rows, RowsTyped(rows), NEW spent
  PROVE  /\ NextTrails(entries, rows, spent) \in Seq(TrailEntries) /\ IdsApart(NextTrails(entries, rows, spent))
         /\ \A e \in ToSet(NextTrails(entries, rows, spent)) :
               e.id \in DOMAIN rows => Presented(entries, rows, spent, e.id) # << >>
         /\ \A d \in ToSet(entries) :
               d.id \in DOMAIN rows /\ Presented(entries, rows, spent, d.id) # << >> =>
                 \E e \in ToSet(NextTrails(entries, rows, spent)) : e.id = d.id
  <1> DEFINE old(id) == EntryOf(entries, id)
             present(id) == Presented(entries, rows, spent, id)
             known == {e.id : e \in ToSet(entries)}
             kept  == [n \in DOMAIN entries |->
                         IF entries[n].id \in DOMAIN rows THEN present(entries[n].id) ELSE Vanished(entries[n])]
             fresh == DOMAIN rows \ known
             new   == InOrder(fresh)
             more  == [n \in DOMAIN new |-> present(new[n])]
             k     == Len(entries)
             m     == Cardinality(fresh)
             ids   == [n \in 1..k |-> entries[n].id]
  <1>1. NextTrails(entries, rows, spent) = Joined(kept) \o Joined(more)
    BY DEF NextTrails, Presented
  <1>2. ASSUME NEW id \in DOMAIN rows PROVE present(id) \in AtMost(id)
    <2>1. id \in Munitions /\ rows[id] \in TrackRows(id) /\ old(id) \in AtMost(id) /\ << >> \in AtMost(id)
      BY EntryIsOne DEF RowsTyped, AtMost
    <2> HIDE DEF old
    <2>2. InFlight(id, old(id), rows[id]) \in AtMost(id) /\ Ended(id, old(id), rows[id]) \in AtMost(id)
      BY <2>1, InFlightIsOne, EndedIsOne
    <2> QED
      BY <2>1, <2>2 DEF Presented, old
  <1> HIDE DEF present
  <1>3. k \in Nat /\ DOMAIN entries = 1..k /\ \A n \in 1..k : entries[n] \in TrailEntries
    OBVIOUS
  <1> HIDE DEF k
  <1>4. /\ \A n \in 1..k : ids[n] = entries[n].id
        /\ \A i, j \in 1..k : ids[i] = ids[j] => i = j
    BY <1>3 DEF IdsApart
  <1>5. DOMAIN kept = 1..k /\ \A n \in 1..k : kept[n] \in AtMost(ids[n])
    <2>1. DOMAIN kept = 1..k
      BY <1>3
    <2> SUFFICES ASSUME NEW n \in 1..k PROVE kept[n] \in AtMost(ids[n])
      BY <2>1
    <2>2. kept[n] = IF ids[n] \in DOMAIN rows THEN present(ids[n]) ELSE Vanished(entries[n])
      BY <1>3, <1>4
    <2>3. Vanished(entries[n]) \in AtMost(ids[n])
      BY <1>3, <1>4, VanishedIsOne
    <2> HIDE DEF kept, ids
    <2> QED
      BY <1>2, <2>2, <2>3
  <1>6. fresh \in SUBSET Munitions
    BY DEF RowsTyped
  <1> HIDE DEF fresh
  <1>7. /\ m \in Nat /\ new \in [1..m -> fresh] /\ DOMAIN new = 1..m
        /\ \A i, j \in 1..m : new[i] = new[j] => i = j
    BY <1>6, InOrderTyped
  <1>8. DOMAIN more = 1..m /\ \A n \in 1..m : more[n] \in AtMost(new[n])
    <2> HIDE DEF m, new
    <2>1. \A n \in 1..m : new[n] \in DOMAIN rows /\ more[n] = present(new[n])
      BY <1>7 DEF fresh
    <2> QED
      BY <1>2, <1>7, <2>1
  <1>13. \A n \in 1..k : ids[n] \in DOMAIN rows => kept[n] = present(ids[n])
    BY <1>3, <1>4
  <1>16. \A n \in 1..m : more[n] = present(new[n])
    <2> HIDE DEF m, new
    <2> QED
      BY <1>7
  <1> HIDE DEF kept, more, new, m, ids
  <1>14. \A e : e \in ToSet(Joined(kept)) <=> \E i \in 1..k : e \in ToSet(kept[i])
    <2>1. k \in Nat /\ DOMAIN kept = 1..k /\ \A i \in 1..k : kept[i] \in Seq(TrailEntries)
      BY <1>3, <1>5, OneApart
    <2> QED
      BY ONLY <2>1, JoinedHolds
  <1>15. \A e : e \in ToSet(Joined(more)) <=> \E i \in 1..m : e \in ToSet(more[i])
    <2>1. m \in Nat /\ DOMAIN more = 1..m /\ \A i \in 1..m : more[i] \in Seq(TrailEntries)
      BY <1>7, <1>8, OneApart
    <2> QED
      BY ONLY <2>1, JoinedHolds
  <1>9. /\ Joined(kept) \in Seq(TrailEntries) /\ IdsApart(Joined(kept))
        /\ \A e \in ToSet(Joined(kept)) : \E i \in 1..k : e.id = ids[i]
    <2>1. k \in Nat /\ \A i, j \in 1..k : ids[i] = ids[j] => i = j
      BY <1>3, <1>4
    <2> QED
      BY ONLY <2>1, <1>5, JoinedApart
  <1>10. /\ Joined(more) \in Seq(TrailEntries) /\ IdsApart(Joined(more))
         /\ \A e \in ToSet(Joined(more)) : \E i \in 1..m : e.id = new[i]
    BY ONLY <1>7, <1>8, JoinedApart
  <1>11. ASSUME NEW e \in ToSet(Joined(kept)), NEW d \in ToSet(Joined(more)) PROVE e.id # d.id
    <2>1. PICK i \in 1..k : e.id = ids[i]
      BY <1>9
    <2>2. PICK j \in 1..m : d.id = new[j]
      BY <1>10
    <2>3. new[j] \in fresh /\ new[j] \notin known
      BY <1>7 DEF fresh
    <2>4. entries[i] \in ToSet(entries) /\ ids[i] = entries[i].id
      BY <1>3, <1>4 DEF ToSet
    <2> QED
      BY <2>1, <2>2, <2>3, <2>4
  <1>12. ASSUME NEW e \in ToSet(Joined(kept)) \cup ToSet(Joined(more)), e.id \in DOMAIN rows
         PROVE  present(e.id) # << >>
    <2>1. CASE e \in ToSet(Joined(kept))
      <3>1. PICK i \in 1..k : e \in ToSet(kept[i])
        BY <1>5, <1>14, <2>1
      <3>2. e.id = ids[i]
        BY <1>5, <3>1, OneApart
      <3>3. kept[i] = present(e.id)
        BY <1>13, <1>12, <3>2
      <3> QED
        BY <3>1, <3>3 DEF ToSet
    <2>2. CASE e \in ToSet(Joined(more))
      <3>1. PICK i \in 1..m : e \in ToSet(more[i])
        BY <1>15, <2>2
      <3>2. e.id = new[i]
        BY <1>8, <3>1, OneApart
      <3>3. more[i] = present(e.id)
        BY <1>16, <3>2
      <3> QED
        BY <3>1, <3>3 DEF ToSet
    <2> QED
      BY <1>12, <2>1, <2>2
  <1>17. ASSUME NEW d \in ToSet(entries), d.id \in DOMAIN rows, present(d.id) # << >>
         PROVE  \E e \in ToSet(Joined(kept)) : e.id = d.id
    <2>1. PICK i \in 1..k : d = entries[i]
      BY <1>3 DEF ToSet
    <2>2. ids[i] = d.id /\ kept[i] = present(d.id)
      BY <1>4, <1>13, <1>17, <2>1
    <2>3. PICK e \in TrailEntries : e.id = d.id /\ kept[i] = <<e>>
      BY <1>5, <1>17, <2>2 DEF AtMost
    <2>4. e \in ToSet(kept[i])
      BY <2>3 DEF ToSet
    <2> QED
      BY <1>14, <2>3, <2>4
  <1>18. /\ Joined(kept) \o Joined(more) \in Seq(TrailEntries) /\ IdsApart(Joined(kept) \o Joined(more))
         /\ ToSet(Joined(kept) \o Joined(more)) = ToSet(Joined(kept)) \cup ToSet(Joined(more))
    BY <1>9, <1>10, <1>11, BothApart
  <1> DEFINE after == NextTrails(entries, rows, spent)
  <1>19. after = Joined(kept) \o Joined(more)
    BY <1>1
  <1> HIDE DEF after
  <1>20. after \in Seq(TrailEntries) /\ IdsApart(after)
    BY <1>18, <1>19
  <1>21. \A e \in ToSet(after) : e.id \in DOMAIN rows => Presented(entries, rows, spent, e.id) # << >>
    BY <1>12, <1>18, <1>19 DEF present
  <1>22. \A d \in ToSet(entries) :
           d.id \in DOMAIN rows /\ Presented(entries, rows, spent, d.id) # << >> => \E e \in ToSet(after) : e.id = d.id
    BY <1>17, <1>18, <1>19 DEF present
  <1> QED
    BY <1>20, <1>21, <1>22 DEF after

\* The types of the trails, with what makes them inductive: no munition has two entries.
TrailsTyped ==
    /\ RowsTyped(trRows)
    /\ trEntries \in Seq(TrailEntries) /\ IdsApart(trEntries)
    /\ trSpent \subseteq Munitions /\ trOver \subseteq Munitions

LEMMA TrailsTypes == TrailsTyped => TrailsTypeOK
  <1> SUFFICES ASSUME TrailsTyped PROVE TrailsTypeOK
    OBVIOUS
  <1>1. \A e \in ToSet(trEntries) : e \in TrailEntries
    BY DEF TrailsTyped, ToSet
  <1>2. ASSUME NEW e \in TrailEntries
        PROVE  /\ e.id \in Munitions /\ e.ending.kind \in {"none"} \cup Endings /\ e.ending.age \in 0..Longest
               /\ Len(e.trail) \in 1..TrailLen
               /\ \A n \in DOMAIN e.trail : e.trail[n] # NoPlace /\ (n > 1 => e.trail[n] # e.trail[n - 1])
    <2>1. e.id \in Munitions /\ e.ending.kind \in {"none"} \cup Endings /\ e.ending.age \in 0..Longest
      BY DEF TrailEntries, EndingsKept
    <2>2. e.trail \in ShortWalks /\ e.trail # << >>
      BY DEF TrailEntries
    <2> DEFINE t == e.trail
               P == Nat \ {NoPlace}
    <2>3. t \in Seq(P) /\ Len(t) <= TrailLen /\ TrailLen \in Nat /\ t # << >> /\ \A n \in 2..Len(t) : t[n] # t[n - 1]
      BY <2>2, TrailAssumption DEF ShortWalks, Walks
    <2> HIDE DEF t, P
    <2>4. Len(t) \in 1..TrailLen /\ DOMAIN t = 1..Len(t) /\ \A n \in 1..Len(t) : t[n] \in P
      BY <2>3
    <2>5. \A n \in 1..Len(t) : n > 1 => n \in 2..Len(t)
      BY <2>4
    <2>6. \A n \in DOMAIN t : t[n] # NoPlace /\ (n > 1 => t[n] # t[n - 1])
      BY <2>3, <2>4, <2>5 DEF P
    <2> QED
      BY <2>1, <2>4, <2>6 DEF t
  <1>3. DOMAIN trRows \subseteq Munitions /\ \A id \in DOMAIN trRows : trRows[id] \in TrackRows(id)
    BY DEF TrailsTyped, RowsTyped
  <1>4. trSpent \subseteq Munitions /\ trOver \subseteq Munitions /\ \A n, m \in DOMAIN trEntries : trEntries[n].id = trEntries[m].id => n = m
    BY DEF TrailsTyped, IdsApart
  <1> QED
    BY <1>1, <1>2, <1>3, <1>4 DEF TrailsTypeOK

LEMMA TrailsBegin == TrailsInit => TrailsTyped
  BY DEF TrailsInit, TrailsTyped, RowsTyped, IdsApart

LEMMA StepTyped ==
  ASSUME TrailsTyped, NEW rows, RowsTyped(rows), Step(rows), trRows' = rows
  PROVE  TrailsTyped'
  <1>1. trEntries \in Seq(TrailEntries) /\ IdsApart(trEntries)
    BY DEF TrailsTyped
  <1>2. trEntries' = NextTrails(trEntries, rows, trSpent \cap DOMAIN rows)
    BY DEF Step
  <1>3. trEntries' \in Seq(TrailEntries) /\ IdsApart(trEntries')
    BY <1>1, <1>2, NextDraws
  <1>4. trSpent' \subseteq DOMAIN rows /\ trOver' \subseteq DOMAIN rows
    BY DEF Step, SpentAfter
  <1>5. RowsTyped(trRows') /\ DOMAIN rows \subseteq Munitions
    BY DEF RowsTyped
  <1> QED
    BY <1>3, <1>4, <1>5 DEF TrailsTyped, RowsTyped, IdsApart

LEMMA FeedTyped ==
  ASSUME TrailsTyped, NEW id \in Munitions, RowComes(id) \/ RowMoves(id) \/ RowEnds(id) \/ RowGone(id)
  PROVE  TrailsTyped'
  <1>1. DOMAIN trRows \subseteq Munitions /\ \A i \in DOMAIN trRows : trRows[i] \in TrackRows(i)
    BY DEF TrailsTyped, RowsTyped
  <1>2. ASSUME NEW rows, RowsTyped(rows), FeedBecomes(rows) PROVE TrailsTyped'
    BY <1>2, StepTyped DEF FeedBecomes
  <1>3. CASE RowComes(id)
    <2>1. PICK row \in TrackRows(id) : FeedBecomes([i \in DOMAIN trRows \cup {id} |-> IF i = id THEN row ELSE trRows[i]])
      BY <1>3 DEF RowComes
    <2> DEFINE rows == [i \in DOMAIN trRows \cup {id} |-> IF i = id THEN row ELSE trRows[i]]
    <2>2. RowsTyped(rows)
      BY <1>1 DEF RowsTyped
    <2> HIDE DEF rows
    <2> QED
      BY <1>2, <2>1, <2>2 DEF rows
  <1>4. CASE RowMoves(id)
    <2>1. PICK s \in SamplesOf[id] : FeedBecomes([trRows EXCEPT ![id].sample = s])
      BY <1>4 DEF RowMoves
    <2>2. id \in DOMAIN trRows
      BY <1>4 DEF RowMoves
    <2> DEFINE rows == [trRows EXCEPT ![id].sample = s]
    <2>3. [trRows[id] EXCEPT !.sample = s] \in TrackRows(id)
      BY <1>1, <2>2 DEF TrackRows
    <2>4. DOMAIN rows = DOMAIN trRows /\ \A i \in DOMAIN rows : rows[i] = IF i = id THEN [trRows[id] EXCEPT !.sample = s] ELSE trRows[i]
      OBVIOUS
    <2>5. FeedBecomes(rows)
      BY <2>1
    <2> HIDE DEF rows
    <2>6. RowsTyped(rows)
      BY <1>1, <2>3, <2>4 DEF RowsTyped
    <2> QED
      BY <1>2, <2>5, <2>6
  <1>5. CASE RowEnds(id)
    <2>1. PICK kind \in Endings, ago \in -Ahead..(Longest - 1) :
             FeedBecomes([trRows EXCEPT ![id].ending = kind, ![id].ago = ago])
      BY <1>5 DEF RowEnds
    <2>2. id \in DOMAIN trRows /\ ago \in -Ahead..Longest
      <3>1. id \in DOMAIN trRows
        BY <1>5 DEF RowEnds
      <3>2. ago \in -Ahead..Longest
        BY LongestTyped
      <3> QED
        BY <3>1, <3>2
    <2> DEFINE rows == [trRows EXCEPT ![id].ending = kind, ![id].ago = ago]
               row == [trRows[id] EXCEPT !.ending = kind, !.ago = ago]
    <2>3. row \in TrackRows(id)
      BY <1>1, <2>2 DEF TrackRows
    <2>4. DOMAIN rows = DOMAIN trRows /\ \A i \in DOMAIN rows : rows[i] = IF i = id THEN row ELSE trRows[i]
      OBVIOUS
    <2>5. FeedBecomes(rows)
      BY <2>1
    <2> HIDE DEF rows, row
    <2>6. RowsTyped(rows)
      BY <1>1, <2>3, <2>4 DEF RowsTyped
    <2> QED
      BY <1>2, <2>5, <2>6
  <1>6. CASE RowGone(id)
    <2> DEFINE rows == [i \in DOMAIN trRows \ {id} |-> trRows[i]]
    <2>1. RowsTyped(rows)
      BY <1>1 DEF RowsTyped
    <2>2. FeedBecomes(rows)
      BY <1>6 DEF RowGone
    <2> HIDE DEF rows
    <2> QED
      BY <1>2, <2>1, <2>2
  <1> QED
    BY <1>3, <1>4, <1>5, <1>6

LEMMA OlderTyped ==
  /\ \A age \in 0..Longest : Older(age) \in 0..Longest
  /\ \A ago \in -Ahead..Longest : Older(ago) \in -Ahead..Longest
  BY LongestTyped DEF Older

LEMMA TimeTyped ==
  ASSUME TrailsTyped, TimePasses
  PROVE  TrailsTyped'
  <1> DEFINE k == Len(trEntries)
             older(e) == IF e.ending.kind = "none" THEN e ELSE [e EXCEPT !.ending.age = Older(@)]
             later(row) == IF row.ending = "none" THEN row ELSE [row EXCEPT !.ago = Older(@)]
  <1>1. k \in Nat /\ DOMAIN trEntries = 1..k /\ \A n \in 1..k : trEntries[n] \in TrailEntries
    BY DEF TrailsTyped
  <1>2. ASSUME NEW e \in TrailEntries PROVE older(e) \in TrailEntries /\ older(e).id = e.id
    <2> DEFINE age == Older(e.ending.age)  g == [e.ending EXCEPT !.age = age]
    <2>1. e.ending \in EndingsKept /\ e.ending.age \in 0..Longest /\ age \in 0..Longest
      BY OlderTyped DEF TrailEntries, EndingsKept
    <2>2. [e EXCEPT !.ending.age = Older(@)] = [e EXCEPT !.ending = g]
      BY DEF TrailEntries, EndingsKept
    <2> HIDE DEF age
    <2>3. g \in EndingsKept
      BY <2>1 DEF EndingsKept
    <2> HIDE DEF g
    <2>4. [e EXCEPT !.ending = g] \in TrailEntries /\ [e EXCEPT !.ending = g].id = e.id
      BY <2>3 DEF TrailEntries
    <2> QED
      BY <2>2, <2>4
  <1>3. ASSUME NEW id, NEW row \in TrackRows(id) PROVE later(row) \in TrackRows(id)
    <2> DEFINE ago == Older(row.ago)
    <2>1. ago \in -Ahead..Longest
      BY OlderTyped DEF TrackRows
    <2>2. [row EXCEPT !.ago = Older(@)] = [row EXCEPT !.ago = ago]
      BY DEF TrackRows
    <2> HIDE DEF ago
    <2>3. [row EXCEPT !.ago = ago] \in TrackRows(id)
      BY <2>1 DEF TrackRows
    <2> QED
      BY <2>2, <2>3
  <1>4. trEntries' = [n \in DOMAIN trEntries |-> older(trEntries[n])]
    BY DEF TimePasses
  <1>5. trRows' = [id \in DOMAIN trRows |-> later(trRows[id])]
    BY DEF TimePasses
  <1> HIDE DEF older, later, k
  <1>6. trEntries' \in Seq(TrailEntries) /\ DOMAIN trEntries' = 1..k /\ \A n \in 1..k : trEntries'[n].id = trEntries[n].id
    <2>1. trEntries' \in [1..k -> TrailEntries]
      BY <1>1, <1>2, <1>4
    <2> QED
      BY <1>1, <1>2, <1>4, <2>1, IsSeq
  <1>7. \A n, m \in DOMAIN trEntries' : trEntries'[n].id = trEntries'[m].id => n = m
    BY <1>1, <1>6 DEF TrailsTyped, IdsApart
  <1>8. DOMAIN trRows' \subseteq Munitions /\ \A id \in DOMAIN trRows' : trRows'[id] \in TrackRows(id)
    BY <1>3, <1>5 DEF TrailsTyped, RowsTyped
  <1>9. trSpent' = trSpent /\ trOver' = trOver /\ trSpent \subseteq Munitions /\ trOver \subseteq Munitions
    BY DEF TimePasses, TrailsTyped
  <1> QED
    BY <1>6, <1>7, <1>8, <1>9 DEF TrailsTyped, RowsTyped, IdsApart

LEMMA TrailsStep == TrailsTyped /\ [TrailsNext]_trailVars => TrailsTyped'
  <1> SUFFICES ASSUME TrailsTyped, [TrailsNext]_trailVars PROVE TrailsTyped'
    OBVIOUS
  <1>1. CASE UNCHANGED trailVars
    BY <1>1 DEF trailVars, TrailsTyped, RowsTyped, IdsApart
  <1>2. CASE TimerFires
    BY <1>2, StepTyped DEF TimerFires, TrailsTyped
  <1> QED
    BY <1>1, <1>2, FeedTyped, TimeTyped DEF TrailsNext

\* An ending that ran out is noted as spent, and nothing of it is drawn.
EndingInv == TrailsTyped /\ EndedOnce /\ trOver \subseteq trSpent

LEMMA EndingBegins == TrailsInit => EndingInv
  <1> SUFFICES ASSUME TrailsInit PROVE EndingInv
    OBVIOUS
  <1>1. trEntries = << >> /\ trOver = {} /\ trSpent = {}
    BY DEF TrailsInit
  <1> QED
    BY <1>1, TrailsBegin DEF EndingInv, EndedOnce

\* A trail that has a place keeps one.
LEMMA GrownGoesOn ==
  ASSUME NEW t \in Walks, t # << >>, NEW place \in Nat
  PROVE  Grown(t, place) # << >>
  <1> DEFINE P == Nat \ {NoPlace}
  <1>1. t \in Seq(P)
    BY DEF Walks
  <1> HIDE DEF P
  <1>2. Len(Append(t, place)) = Len(t) + 1 /\ Len(t) \in Nat /\ Len(<< >>) = 0
    BY <1>1
  <1>3. Append(t, place) # << >>
    BY <1>2
  <1> QED
    BY <1>3 DEF Grown

LEMMA LastGoesOn ==
  ASSUME NEW t \in Walks, t # << >>
  PROVE  LastOf(t) # << >>
  <1> DEFINE P == Nat \ {NoPlace}  n == Len(t)  i == IF n > TrailLen THEN n - TrailLen + 1 ELSE 1
             u == SubSeq(t, i, n)
  <1>1. t \in Seq(P) /\ n \in Nat /\ n >= 1 /\ TrailLen \in Nat \ {0}
    BY TrailAssumption DEF Walks
  <1> HIDE DEF P
  <1>2. i \in Nat \ {0} /\ i <= n + 1 /\ n <= Len(t) /\ (n - i) + 1 >= 1
    BY <1>1
  <1>3. Len(u) = (n - i) + 1
    <2> HIDE DEF i
    <2> QED
      BY <1>1, <1>2, PartOf
  <1>4. LastOf(t) = u
    BY DEF LastOf, u, i, n
  <1> HIDE DEF u, i, n
  <1>5. Len(u) >= 1 /\ Len(<< >>) = 0
    BY <1>2, <1>3
  <1> QED
    BY <1>4, <1>5

\* An ending that is not over is drawn on: a munition with an entry has a trail.
LEMMA EndingGoesOn ==
  ASSUME NEW id \in Munitions, NEW old \in AtMost(id), old # << >>, NEW row \in TrackRows(id),
         ~Played(EndingOf(old, row))
  PROVE  Ended(id, old, row) # << >>
  <1>1. row.sample \in Samples /\ row.sample.place \in Nat
    BY RowTyped DEF Samples
  <1>2. old[1].trail \in Walks /\ old[1].trail # << >>
    BY EntryTyped DEF ShortWalks
  <1>3. LastOf(Grown(old[1].trail, row.sample.place)) # << >>
    BY <1>1, <1>2, GrownWalks, GrownGoesOn, LastGoesOn
  <1>4. TrailAfter(old, row.sample) # << >>
    BY <1>3 DEF TrailAfter
  <1>5. Ended(id, old, row) = Drawn(id, TrailAfter(old, row.sample), EndingOf(old, row))
    BY DEF Ended
  <1>6. Drawn(id, TrailAfter(old, row.sample), EndingOf(old, row)) # << >>
    BY <1>4 DEF Drawn
  <1> QED
    BY <1>5, <1>6

\* The entry of a munition that has one is that.
LEMMA EntryFound ==
  ASSUME NEW entries \in Seq(TrailEntries), IdsApart(entries), NEW d \in ToSet(entries)
  PROVE  EntryOf(entries, d.id) = <<d>>
  <1> DEFINE found == {e \in ToSet(entries) : e.id = d.id}
  <1>1. \A e \in found : e = d
    BY DEF ToSet, IdsApart
  <1>2. found # {} /\ (CHOOSE e \in found : TRUE) \in found
    OBVIOUS
  <1>3. EntryOf(entries, d.id) = <<CHOOSE e \in found : TRUE>>
    BY <1>2 DEF EntryOf
  <1> HIDE DEF found
  <1> QED
    BY <1>1, <1>2, <1>3

LEMMA StepEndsOnce ==
  ASSUME EndingInv, NEW rows, RowsTyped(rows), Step(rows)
  PROVE  EndedOnce' /\ trOver' \subseteq trSpent'
  <1> DEFINE old(id) == EntryOf(trEntries, id)
             present(id) == Presented(trEntries, rows, trSpent \cap DOMAIN rows, id)
             ending == {e.id : e \in {d \in ToSet(trEntries) : d.ending.kind # "none"}}
             drawn == {e.id : e \in ToSet(trEntries')}
             spent == trSpent \cap DOMAIN rows
  <1>1. trEntries \in Seq(TrailEntries) /\ IdsApart(trEntries) /\ trOver \subseteq trSpent
    BY DEF EndingInv, TrailsTyped
  <1>2. /\ trEntries' = NextTrails(trEntries, rows, spent)
        /\ trSpent' = SpentAfter(trEntries, rows, trSpent)
        /\ trOver' = {id \in DOMAIN rows : rows[id].ending # "none" /\ (id \in trOver \/ id \in ending \ drawn)}
    BY DEF Step
  <1> HIDE DEF spent
  <1>3. /\ \A e \in ToSet(trEntries') : e.id \in DOMAIN rows => Presented(trEntries, rows, spent, e.id) # << >>
        /\ \A d \in ToSet(trEntries) :
              d.id \in DOMAIN rows /\ Presented(trEntries, rows, spent, d.id) # << >> =>
                 \E e \in ToSet(trEntries') : e.id = d.id
    <2>1. trEntries \in Seq(TrailEntries) /\ IdsApart(trEntries) /\ RowsTyped(rows)
      BY <1>1
    <2> QED
      BY ONLY <2>1, <1>2, NextDraws
  <1>4. /\ \A id \in drawn \cap DOMAIN rows : present(id) # << >>
        /\ \A d \in ToSet(trEntries) : d.id \in DOMAIN rows /\ present(d.id) # << >> => d.id \in drawn
    BY <1>3 DEF spent
  <1> HIDE DEF present, drawn, old
  <1>5. ASSUME NEW id \in trOver' PROVE id \in trSpent' /\ id \notin drawn
    <2>1. id \in DOMAIN rows /\ rows[id].ending # "none" /\ (id \in trOver \/ id \in ending \ drawn)
      BY <1>2, <1>5
    <2>2. CASE id \in trSpent
      <3>1. id \in trSpent'
        BY <1>2, <2>1, <2>2 DEF SpentAfter
      <3>2. present(id) = << >>
        BY <2>1, <2>2 DEF present, Presented
      <3> QED
        BY <1>4, <2>1, <3>1, <3>2
    <2>3. CASE id \in ending \ drawn /\ id \notin trSpent
      <3>1. PICK d \in ToSet(trEntries) : d.id = id /\ d.ending.kind # "none"
        BY <2>3
      <3>2. present(id) = << >>
        BY <1>4, <2>1, <2>3, <3>1
      <3>3. present(id) = Ended(id, old(id), rows[id])
        BY <2>1, <2>3 DEF present, Presented, old
      <3>4. old(id) = <<d>> /\ d \in TrailEntries
        BY <1>1, <3>1, EntryFound DEF old, ToSet
      <3>5. old(id) \in AtMost(id) /\ old(id) # << >>
        BY <3>1, <3>4 DEF AtMost
      <3>6. id \in Munitions /\ rows[id] \in TrackRows(id)
        BY <2>1 DEF RowsTyped
      <3>7. Played(EndingOf(old(id), rows[id]))
        BY <3>2, <3>3, <3>5, <3>6, EndingGoesOn
      <3>8. id \in trSpent'
        BY <1>2, <2>1, <3>7 DEF SpentAfter, old
      <3> QED
        BY <2>3, <3>8
    <2> QED
      BY <1>1, <2>1, <2>2, <2>3
  <1>6. \A e \in ToSet(trEntries') : e.id \in drawn
    BY DEF drawn
  <1>7. \A e \in ToSet(trEntries') : e.id \notin trOver'
    BY <1>5, <1>6
  <1> QED
    BY <1>5, <1>7 DEF EndedOnce, ToSet

LEMMA TimeEndsOnce ==
  ASSUME EndingInv, TimePasses
  PROVE  EndedOnce' /\ trOver' \subseteq trSpent'
  <1>1. trOver' = trOver /\ trSpent' = trSpent /\ trOver \subseteq trSpent
    BY DEF TimePasses, EndingInv
  <1>2. trEntries \in Seq(TrailEntries) /\ \A e \in ToSet(trEntries) : e.id \notin trOver
    BY DEF EndingInv, TrailsTyped, EndedOnce
  <1>3. DOMAIN trEntries' = DOMAIN trEntries /\ \A n \in DOMAIN trEntries : trEntries'[n].id = trEntries[n].id
    <2>1. \A n \in DOMAIN trEntries : trEntries[n] \in TrailEntries
      BY <1>2
    <2>2. \A e \in TrailEntries : [e EXCEPT !.ending.age = Older(@)].id = e.id
      BY DEF TrailEntries
    <2>3. DOMAIN trEntries' = DOMAIN trEntries
      BY DEF TimePasses
    <2>4. \A n \in DOMAIN trEntries : trEntries'[n] \in {trEntries[n], [trEntries[n] EXCEPT !.ending.age = Older(@)]}
      BY DEF TimePasses
    <2> QED
      BY <2>1, <2>2, <2>3, <2>4
  <1> QED
    BY <1>1, <1>2, <1>3 DEF EndedOnce, ToSet

LEMMA EndingStep == EndingInv /\ [TrailsNext]_trailVars => EndingInv'
  <1> SUFFICES ASSUME EndingInv, [TrailsNext]_trailVars PROVE EndingInv'
    OBVIOUS
  <1>1. TrailsTyped /\ TrailsTyped'
    BY TrailsStep DEF EndingInv
  <1>2. RowsTyped(trRows) /\ RowsTyped(trRows')
    BY <1>1 DEF TrailsTyped, RowsTyped
  <1>3. CASE UNCHANGED trailVars
    BY <1>1, <1>3 DEF trailVars, EndingInv, EndedOnce
  <1>4. CASE TimePasses
    BY <1>1, <1>4, TimeEndsOnce DEF EndingInv
  <1>5. CASE TimerFires
    BY <1>1, <1>2, <1>5, StepEndsOnce DEF EndingInv, TimerFires
  <1>6. ASSUME NEW id \in Munitions, RowComes(id) \/ RowMoves(id) \/ RowEnds(id) \/ RowGone(id) PROVE Step(trRows')
    BY <1>6 DEF RowComes, RowMoves, RowEnds, RowGone, FeedBecomes
  <1>7. CASE Step(trRows')
    BY <1>1, <1>2, <1>7, StepEndsOnce DEF EndingInv
  <1> QED
    BY <1>3, <1>4, <1>5, <1>6, <1>7 DEF TrailsNext

\* A view that is held is there: a timer drops it only when nobody holds it.
LEMMA HeldStep ==
  ASSUME LevelsTypeOK, HeldIsKept, [LevelsNext]_levelVars
  PROVE  HeldIsKept'
  <1> USE DEF LevelsTypeOK, HeldIsKept
  <1>0. \A v \in Views : Sweep(gwHolder)[v] # "none" => gwHolder[v] # "none"
    BY DEF Sweep
  <1>1. CASE UNCHANGED gatewayVars
    BY <1>1 DEF gatewayVars
  <1>2. CASE Swept
    BY <1>0, <1>2 DEF Swept
  <1>3. ASSUME NEW v \in Views, ReadHandled(v) PROVE HeldIsKept'
    <2>1. \/ gwHolder' = Sweep(gwHolder) /\ gwView' = gwView
          \/ gwHolder' = [Sweep(gwHolder) EXCEPT ![v] = "fresh"] /\ gwView' = gwView \cup {v}
      BY <1>3 DEF ReadHandled
    <2>2. Sweep(gwHolder) \in [Views -> {"none", "fresh", "idle"}]
      BY SweepTyped
    <2> QED
      BY <1>0, <2>1, <2>2
  <1>4. ASSUME NEW v \in Views, Released(v) PROVE HeldIsKept'
    <2>1. gwHolder' = [Sweep(gwHolder) EXCEPT ![v] = "none"] /\ gwView' = gwView
      BY <1>4 DEF Released
    <2>2. Sweep(gwHolder) \in [Views -> {"none", "fresh", "idle"}]
      BY SweepTyped
    <2> QED
      BY <1>0, <2>1, <2>2
  <1>5. ASSUME NEW v \in Views, HolderIdles(v) \/ GraceFires(v) \/ GraceExpired(v) PROVE HeldIsKept'
    BY <1>5 DEF HolderIdles, GraceFires, GraceExpired
  <1>6. ASSUME NEW v \in Views, OpenLevel(v) \/ ReadLevel(v) \/ CloseLevel(v) \/ Remount(v) \/ DeleteLost(v) PROVE UNCHANGED gatewayVars
    BY <1>6 DEF OpenLevel, ReadLevel, CloseLevel, Remount, DeleteLost
  <1>7. ASSUME NEW v \in Views, DeleteHandled(v) \/ UpstreamFails(v) PROVE Released(v)
    BY <1>7 DEF DeleteHandled, UpstreamFails
  <1>8. CASE PageHides \/ UNCHANGED levelVars
    BY <1>1, <1>8 DEF PageHides, levelVars
  <1> QED
    BY <1>1, <1>2, <1>3, <1>4, <1>5, <1>6, <1>7, <1>8 DEF LevelsNext

\* What is drawn of the sharp imagery is what is loaded.
DrawnIsLoaded == ptShown = ptLoaded

SharpStep == ptShown \subseteq ptShown' \/ ~ptHere' \/ ptCurrent' \subseteq ptShown' \cup ptFailed'

LEMMA SettledStays ==
  ASSUME NEW list, NEW loaded, NEW failed, NEW textures, Settle(list, loaded, failed, textures), ptShown \subseteq loaded
  PROVE  ptShown' = ptLoaded' /\ (ptShown \subseteq ptShown' \/ list \subseteq ptShown' \cup failed)
  BY DEF Settle, Kept

LEMMA SharpSteps ==
  ASSUME DrawnIsLoaded, [TilesNext]_tilesVars
  PROVE  DrawnIsLoaded' /\ SharpStep
  <1> USE DEF DrawnIsLoaded, SharpStep
  <1>1. CASE UNCHANGED patchVars
    BY <1>1 DEF patchVars
  <1>2. CASE Listed
    <2>1. Settle(Specs, ptLoaded, ptFailed \cap Specs, ptTextures) /\ ptCurrent' = Specs /\ ptFailed' = ptFailed \cap Specs
      BY <1>2 DEF Listed
    <2> QED
      BY <2>1, SettledStays
  <1>3. CASE LeavePatches
    BY <1>3 DEF LeavePatches
  <1>4. ASSUME NEW p, PatchLoads(p) PROVE DrawnIsLoaded' /\ SharpStep
    <2>1. ptCurrent' = ptCurrent /\ ptFailed' = ptFailed
      BY <1>4 DEF PatchLoads
    <2>2. UNCHANGED <<ptLoaded, ptShown>> \/ Settle(ptCurrent, ptLoaded \cup {p}, ptFailed, ptTextures + 1)
      BY <1>4 DEF PatchLoads
    <2> QED
      BY <2>1, <2>2, SettledStays
  <1>5. ASSUME NEW p, PatchFails(p) PROVE DrawnIsLoaded' /\ SharpStep
    <2>1. ptCurrent' = ptCurrent /\ ptFailed' = ptFailed \cup {p}
      BY <1>5 DEF PatchFails
    <2>2. UNCHANGED <<ptLoaded, ptShown>> \/ Settle(ptCurrent, ptLoaded, ptFailed \cup {p}, ptTextures)
      BY <1>5 DEF PatchFails, SettleFailed
    <2> QED
      BY <2>1, <2>2, SettledStays
  <1>6. CASE (\E l \in Looks : CameraMoves(l)) \/ (\E r \in Ranges : Retuned(r)) \/ Toggled \/ CheckView \/ UNCHANGED tilesVars
    BY <1>1, <1>6 DEF CameraMoves, Retuned, Toggled, CheckView, ViewTurn, tilesVars
  <1> QED
    BY <1>2, <1>3, <1>4, <1>5, <1>6 DEF TilesNext, Answered

-----------------------------------------------------------------------------
(* The components side by side (MCPages).                                  *)

LEMMA PartsBegin ==
  PagesInit =>
    /\ SessionInit /\ StatusInit /\ MaintainerInit /\ LevelsInit /\ DrillInit
    /\ LinkInit /\ TrailsInit /\ TerrainInit /\ TilesInit /\ CasesInit
  BY DEF PagesInit

\* A step of any part is a step of it and leaves the nine others alone.
LEMMA PartsStep ==
  [PagesNext]_pagesVars =>
    /\ [SessionNext]_sessionVars
    /\ [StatusNext]_statusVars
    /\ [MaintainerNext]_maintainerVars
    /\ [LevelsNext]_levelVars
    /\ [DrillNext]_drillVars
    /\ [LinkNext]_linkVars
    /\ [TrailsNext]_trailVars
    /\ [TerrainNext]_terrainVars
    /\ [TilesNext]_tilesVars
    /\ [CasesNext]_casesVars
  <1>1. CASE Runs("session") /\ SessionNext /\ UNCHANGED <<statusVars, maintainerVars, viewPartVars, imageVars, casesVars>>
    BY <1>1 DEF screenVars, viewPartVars, imageVars
  <1>2. CASE Runs("status") /\ StatusNext /\ UNCHANGED <<sessionVars, maintainerVars, viewPartVars, imageVars, casesVars>>
    BY <1>2 DEF screenVars, viewPartVars, imageVars
  <1>3. CASE Runs("maintainer") /\ MaintainerNext /\ UNCHANGED <<sessionVars, statusVars, viewPartVars, imageVars, casesVars>>
    BY <1>3 DEF screenVars, viewPartVars, imageVars
  <1>4. CASE Runs("levels") /\ LevelsNext /\ UNCHANGED <<drillVars, linkVars, screenVars, imageVars, casesVars>>
    BY <1>4 DEF screenVars, viewPartVars, imageVars
  <1>5. CASE Runs("drill") /\ DrillNext /\ UNCHANGED <<levelVars, linkVars, screenVars, imageVars, casesVars>>
    BY <1>5 DEF screenVars, viewPartVars, imageVars
  <1>6. CASE Runs("links") /\ LinkNext /\ UNCHANGED <<levelVars, drillVars, screenVars, imageVars, casesVars>>
    BY <1>6 DEF screenVars, viewPartVars, imageVars
  <1>7. CASE Runs("trails") /\ TrailsNext /\ UNCHANGED <<terrainVars, tilesVars, screenVars, viewPartVars, casesVars>>
    BY <1>7 DEF screenVars, viewPartVars, imageVars
  <1>8. CASE Runs("terrain") /\ TerrainNext /\ UNCHANGED <<trailVars, tilesVars, screenVars, viewPartVars, casesVars>>
    BY <1>8 DEF screenVars, viewPartVars, imageVars
  <1>9. CASE Runs("tiles") /\ TilesNext /\ UNCHANGED <<trailVars, terrainVars, screenVars, viewPartVars, casesVars>>
    BY <1>9 DEF screenVars, viewPartVars, imageVars
  <1>10. CASE Runs("cases") /\ CasesNext /\ UNCHANGED <<screenVars, viewPartVars, imageVars>>
    BY <1>10 DEF screenVars, viewPartVars, imageVars
  <1>11. CASE UNCHANGED pagesVars
    BY <1>11 DEF pagesVars, screenVars, viewPartVars, imageVars
  <1> QED
    BY <1>1, <1>2, <1>3, <1>4, <1>5, <1>6, <1>7, <1>8, <1>9, <1>10, <1>11 DEF PagesNext

\* What must be done once is: a view released (useElementLevel.ts) and a
\* texture of the ground or of the sharp imagery disposed of (terrainData.ts,
\* landMask.ts), for any views, boxes and patches.
THEOREM ReleasedAndDisposedOnce == PagesSpec => []DoneOnce
  <1> DEFINE OnceInv == ReleaseInv /\ TextureInv /\ PatchInv
  <1>1. PagesInit => OnceInv
    BY PartsBegin, ReleaseBegins, TextureBegins, PatchBegins
  <1>2. OnceInv /\ [PagesNext]_pagesVars => OnceInv'
    BY PartsStep, ReleaseStep, TextureStep, PatchStep
  <1>3. OnceInv => DoneOnce
    BY DEF DoneOnce, ReleaseInv, TextureInv, PatchInv
  <1> QED
    BY <1>1, <1>2, <1>3, PTL DEF PagesSpec

\* What the ten parts keep, each of its own variables.
PartsInv ==
    /\ SessionInv /\ StatusTyped /\ MaintainerTyped /\ LevelsTypeOK /\ DrillTyped
    /\ LinkTyped /\ TrailsTyped /\ TerrainTyped /\ TilesTyped /\ CasesTyped

\* Every part's variables keep their types, for any numbers of views, looks,
\* boxes, munitions and cases: the munition drawn has a head and no place twice
\* in a row (useMunitionTrails.ts), the level shown is one of the names opened
\* (useDrillDown.ts), a case is in the ledger once (intake.py).
THEOREM PagesTypes == PagesSpec => []PagesTypeOK
  <1>1. PagesInit => PartsInv
    BY PartsBegin, SessionBegins, StatusBegins, MaintainerBegins, LevelsBegin, DrillBeginsTyped,
       LinkBeginsTyped, TrailsBegin, TerrainBeginsTyped, TilesBeginTyped, CasesBegin
    DEF PartsInv
  <1>2. PartsInv /\ [PagesNext]_pagesVars => PartsInv'
    BY PartsStep, SessionStep, StatusStep, MaintainerStep, LevelsStep, DrillTypedStep,
       LinkTypedStep, TrailsStep, TerrainTypedStep, TilesTypedStep, CasesStep
    DEF PartsInv
  <1>3. PartsInv => PagesTypeOK
    BY DrillTypes, TrailsTypes, TerrainTypes, TilesTypes, CasesTypes
    DEF PartsInv, PagesTypeOK, SessionInv, StatusTyped, MaintainerTyped, LinkTyped
  <1> QED
    BY <1>1, <1>2, <1>3, PTL DEF PagesSpec

\* An ending is drawn once while its row stays in the feed, for any munitions,
\* lengths and clocks (useMunitionTrails.ts).
THEOREM EndingsAreDrawnOnce == PagesSpec => []EndedOnce
  <1>1. PagesInit => EndingInv
    BY PartsBegin, EndingBegins
  <1>2. EndingInv /\ [PagesNext]_pagesVars => EndingInv'
    BY PartsStep, EndingStep
  <1>3. EndingInv => EndedOnce
    BY DEF EndingInv
  <1> QED
    BY <1>1, <1>2, <1>3, PTL DEF PagesSpec

\* Whoever holds a view of the gateway finds it there, for any views and any
\* timers of earlier graces (pep.py).
THEOREM HeldViewsAreKept == PagesSpec => []HeldIsKept
  <1> DEFINE Inv == LevelsTypeOK /\ HeldIsKept
  <1>1. PagesInit => Inv
    BY PartsBegin, LevelsBegin DEF LevelsInit, HeldIsKept
  <1>2. Inv /\ [PagesNext]_pagesVars => Inv'
    BY PartsStep, LevelsStep, HeldStep
  <1>3. Inv => HeldIsKept
    OBVIOUS
  <1> QED
    BY <1>1, <1>2, <1>3, PTL DEF PagesSpec

\* Sharp imagery stays until the next is in, for any views and any order in
\* which their patches come (terrainData.ts usePatches).
THEOREM ImageryStays == PagesSpec => SharpStays
  <1>1. PagesInit => DrawnIsLoaded
    BY PartsBegin DEF TilesInit, DrawnIsLoaded
  <1>2. DrawnIsLoaded /\ [PagesNext]_pagesVars => DrawnIsLoaded' /\ [SharpStep]_tilesVars
    BY PartsStep, SharpSteps
  <1> QED
    BY <1>1, <1>2, PTL DEF PagesSpec, SharpStays, SharpStep

=============================================================================
