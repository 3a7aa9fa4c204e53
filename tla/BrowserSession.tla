---------------------------- MODULE BrowserSession ----------------------------
(***************************************************************************)
(* What a page of the web frontend knows of its session, and what it shows *)
(* because of it (useSession.ts, sessionExpiry.ts, shapeErrors.ts,         *)
(* electric.ts, Root.tsx).  The page asks the gateway for /auth/me at      *)
(* once, with retries, and then every minute; it arms a timer with the     *)
(* deadline it was told; every panel on screen holds shape requests, whose *)
(* failures go into one registry that a banner reads.                      *)
(*                                                                         *)
(* The gateway is external here: it is up or down, and the session lives   *)
(* or has ended.  An answer is computed when the gateway sends it and      *)
(* handled later, so answers of overlapping checks may be handled in any   *)
(* order.  A fetch has no timeout of its own.                              *)
(***************************************************************************)
EXTENDS Naturals

CONSTANTS
    Checks,         \* slots: how many /auth/me requests may be under way
    RetryDelays,    \* Len(SESSION_RETRY_DELAYS_MS)
    Feeds,          \* mounted calls of useTableShape
    Tables,         \* the tables they read
    TableOf,        \* TableOf[f]
    Unlabeled       \* tables missing from the gateway's labeled_tables

ASSUME SessionAssumption ==
    /\ RetryDelays \in Nat
    /\ TableOf \in [Feeds -> Tables]
    /\ Unlabeled \subseteq Tables

VARIABLES
    authRoutes,     \* FALSE: the deployment has no authentication (404)
    gatewayUp, sessionLives,    \* the gateway's side
    check,          \* check[c]: a request for /auth/me, or NoCheck
    auth,           \* the session the hook returns
    polling,        \* intervalId: the minute's re-check runs
    retry,          \* the attempt that retryId will make (0: no timer)
    deadline,       \* deadlineId is armed
    deadlinePassed, \* history: it has fired
    expired,        \* sessionExpiry's flag
    feed,           \* feed[f]: "off", or the state of its shape request
    feedErrors      \* shapeErrors' registry: a kind for each table, or "none"

gatewaySide == <<authRoutes, gatewayUp, sessionLives>>
hookSide == <<auth, polling, retry, deadline>>
feedSide == <<feed, feedErrors>>
sessionVars == <<gatewaySide, check, hookSide, deadlinePassed, expired, feedSide>>

NoCheck == [initial |-> FALSE, attempt |-> 0, answer |-> "none"]
LastAttempt == RetryDelays + 1
FirstCheck == CHOOSE c \in Checks : TRUE

\* What Root.tsx renders for a session and the flag.
ScreenOf(a, e) ==
    CASE a = "disabled"                -> "app"
      [] a # "disabled" /\ e           -> "expired"
      [] a = "error" /\ ~e             -> "error"
      [] a = "unknown" /\ ~e           -> "checking"
      [] a = "out" /\ ~e               -> "out"
      [] a = "in" /\ ~e                -> "app"

Screen == ScreenOf(auth, expired)

SessionTypeOK ==
    /\ authRoutes \in BOOLEAN /\ gatewayUp \in BOOLEAN /\ sessionLives \in BOOLEAN
    /\ check \in [Checks -> [initial : BOOLEAN, attempt : 0..LastAttempt,
                             answer : {"none", "pending", "ok", "401", "404", "failed"}]]
    /\ auth \in {"unknown", "error", "disabled", "out", "in"}
    /\ polling \in BOOLEAN /\ retry \in 0..LastAttempt /\ deadline \in BOOLEAN
    /\ deadlinePassed \in BOOLEAN /\ expired \in BOOLEAN
    /\ feed \in [Feeds -> {"off", "fine", "failed", "refused"}]
    /\ feedErrors \in [Tables -> {"none", "unlabelable", "transport", "session"}]

SessionInit ==
    /\ authRoutes \in BOOLEAN /\ gatewayUp = TRUE /\ sessionLives = authRoutes
    /\ check = [c \in Checks |-> IF c = FirstCheck THEN [initial |-> TRUE, attempt |-> 1, answer |-> "pending"]
                                 ELSE NoCheck]
    /\ auth = "unknown" /\ polling = TRUE /\ retry = 0 /\ deadline = FALSE
    /\ deadlinePassed = FALSE /\ expired = FALSE
    /\ feed = [f \in Feeds |-> "off"]
    /\ feedErrors = [t \in Tables |-> "none"]

-----------------------------------------------------------------------------
(* The gateway. *)

\* A sign-out elsewhere, an idle bound or the ceiling ends the session; a new
\* one begins with a new page.
SessionEnds ==
    /\ sessionLives
    /\ sessionLives' = FALSE
    /\ UNCHANGED <<authRoutes, gatewayUp, check, hookSide, deadlinePassed, expired, feedSide>>

GatewayTurns ==
    /\ gatewayUp' = ~gatewayUp
    /\ UNCHANGED <<authRoutes, sessionLives, check, hookSide, deadlinePassed, expired, feedSide>>

\* What /auth/me says now.  A request fails when the gateway, its policy
\* decision point or the network does.
Answers ==
    {"failed"} \cup (IF ~gatewayUp THEN {}
                     ELSE IF ~authRoutes THEN {"404"}
                     ELSE IF sessionLives THEN {"ok"} ELSE {"401"})

CheckAnswered(c) ==
    /\ check[c].answer = "pending"
    /\ \E a \in Answers : check' = [check EXCEPT ![c].answer = a]
    /\ UNCHANGED <<gatewaySide, hookSide, deadlinePassed, expired, feedSide>>

-----------------------------------------------------------------------------
(* The screen: the panels live in the app, and leaving it unmounts them. *)

\* What a screen leaves of the feeds: every unmounted feed clears its table.
KeepFeeds ==
    IF ScreenOf(auth, expired)' = "app" THEN UNCHANGED feedSide
    ELSE /\ feed' = [f \in Feeds |-> "off"]
         /\ feedErrors' = [t \in Tables |-> IF \E f \in Feeds : feed[f] # "off" /\ TableOf[f] = t
                                            THEN "none" ELSE feedErrors[t]]

-----------------------------------------------------------------------------
(* useSession. *)

Ask(c, isInitial, attempt) ==
    /\ check[c] = NoCheck
    /\ check' = [check EXCEPT ![c] = [initial |-> isInitial, attempt |-> attempt, answer |-> "pending"]]

Handle(c, answer) == check[c].answer = answer /\ check' = [check EXCEPT ![c] = NoCheck]

\* A session: the hook keeps it and arms the timer with its deadline.
HandleOk(c) ==
    /\ Handle(c, "ok")
    /\ auth' = "in" /\ deadline' = TRUE
    /\ UNCHANGED <<gatewaySide, polling, retry, deadlinePassed, expired>>
    /\ KeepFeeds

\* No session.  After a first check there was never one to lose.
Handle401(c) ==
    /\ Handle(c, "401")
    /\ expired' = (expired \/ ~check[c].initial)
    /\ auth' = "out" /\ deadline' = FALSE /\ polling' = FALSE
    /\ UNCHANGED <<gatewaySide, retry, deadlinePassed>>
    /\ KeepFeeds

\* No authentication in this deployment.
Handle404(c) ==
    /\ Handle(c, "404")
    /\ auth' = "disabled" /\ deadline' = FALSE /\ polling' = FALSE
    /\ UNCHANGED <<gatewaySide, retry, deadlinePassed, expired>>
    /\ KeepFeeds

\* [mutant] A re-check that fails is read as the end of the session.
FailureIsEnd(known, request) ==
    IF ~request.initial THEN "out" ELSE IF request.attempt = LastAttempt THEN "error" ELSE known

\* A failed re-check leaves the session as it is known; the last attempt of a
\* first check says that it failed, whatever is known by then.
AfterFailure(known, request) ==
    IF request.initial /\ request.attempt = LastAttempt THEN "error" ELSE known

\* A failure; a first check has another attempt after a wait.
HandleFailed(c) ==
    /\ Handle(c, "failed")
    /\ auth' = AfterFailure(auth, check[c])
    /\ retry' = IF check[c].initial /\ check[c].attempt < LastAttempt
                THEN check[c].attempt + 1 ELSE retry
    /\ UNCHANGED <<gatewaySide, polling, deadline, deadlinePassed, expired>>
    /\ KeepFeeds

\* The retry timer fires.
Retry(c) ==
    /\ retry # 0
    /\ Ask(c, TRUE, retry)
    /\ retry' = 0
    /\ UNCHANGED <<gatewaySide, auth, polling, deadline, deadlinePassed, expired, feedSide>>

\* The minute's tick: while the first check is in error it is a first check
\* still, with a session it is a re-check.
Recheck(c) ==
    /\ polling
    /\ \/ auth = "error" /\ Ask(c, TRUE, LastAttempt)
       \/ auth = "in" /\ Ask(c, FALSE, 1)
    /\ UNCHANGED <<gatewaySide, hookSide, deadlinePassed, expired, feedSide>>

\* [mutant] The deadline passes and nothing is done about it.
DeadlineIgnored ==
    /\ deadline
    /\ deadline' = FALSE /\ deadlinePassed' = TRUE
    /\ UNCHANGED <<gatewaySide, check, auth, polling, retry, expired, feedSide>>

\* The deadline passes on the browser's clock.
DeadlineFires ==
    /\ deadline
    /\ deadline' = FALSE /\ deadlinePassed' = TRUE /\ expired' = TRUE
    /\ UNCHANGED <<gatewaySide, check, auth, polling, retry>>
    /\ KeepFeeds

-----------------------------------------------------------------------------
(* useTableShape: one effect per feed reports its error, and cleans up. *)

\* classifyShapeError, for a feed in error.
ErrorKind(t, state) ==
    CASE t \in Unlabeled                        -> "unlabelable"
      [] t \notin Unlabeled /\ state = "refused" -> "session"
      [] OTHER                                  -> "transport"

Mount(f) ==
    /\ Screen = "app" /\ feed[f] = "off"
    /\ feed' = [feed EXCEPT ![f] = "fine"]
    /\ feedErrors' = [feedErrors EXCEPT ![TableOf[f]] = "none"]
    /\ UNCHANGED <<gatewaySide, check, hookSide, deadlinePassed, expired>>

Unmount(f) ==
    /\ feed[f] # "off"
    /\ feed' = [feed EXCEPT ![f] = "off"]
    /\ feedErrors' = [feedErrors EXCEPT ![TableOf[f]] = "none"]
    /\ UNCHANGED <<gatewaySide, check, hookSide, deadlinePassed, expired>>

\* A shape request fails, or is refused because the session has ended; only
\* the refusal of a table that can be served ends the page's session too.
FeedFails(f) ==
    /\ feed[f] = "fine"
    /\ UNCHANGED <<gatewaySide, check, hookSide, deadlinePassed>>
    /\ \E state \in {"failed"} \cup (IF gatewayUp /\ authRoutes /\ ~sessionLives THEN {"refused"} ELSE {}) :
          LET kind == ErrorKind(TableOf[f], state) IN
          /\ expired' = (expired \/ kind = "session")
          /\ IF ScreenOf(auth, expired)' = "app"
             THEN /\ feed' = [feed EXCEPT ![f] = state]
                  /\ feedErrors' = [feedErrors EXCEPT ![TableOf[f]] = kind]
             ELSE KeepFeeds

\* The client retries by itself and the error goes away.
FeedRecovers(f) ==
    /\ feed[f] \in {"failed", "refused"}
    /\ gatewayUp /\ (sessionLives \/ ~authRoutes) /\ TableOf[f] \notin Unlabeled
    /\ feed' = [feed EXCEPT ![f] = "fine"]
    /\ feedErrors' = [feedErrors EXCEPT ![TableOf[f]] = "none"]
    /\ UNCHANGED <<gatewaySide, check, hookSide, deadlinePassed, expired>>

-----------------------------------------------------------------------------
HandleCheck(c) == HandleOk(c) \/ Handle401(c) \/ Handle404(c) \/ HandleFailed(c)

SessionNext ==
    \/ SessionEnds \/ GatewayTurns \/ DeadlineFires
    \/ \E c \in Checks : CheckAnswered(c) \/ HandleCheck(c) \/ Retry(c) \/ Recheck(c)
    \/ \E f \in Feeds : Mount(f) \/ Unmount(f) \/ FeedFails(f) \/ FeedRecovers(f)

\* A request is answered or fails in the end, an answer is handled, timers
\* fire.  The deadline is obliged to fire only once the session has ended:
\* until then a re-check may go on moving it.
SessionFairness ==
    /\ \A c \in Checks : /\ WF_sessionVars(CheckAnswered(c))
                         /\ WF_sessionVars(HandleCheck(c))
    /\ WF_sessionVars(\E c \in Checks : Retry(c))
    /\ WF_sessionVars(~sessionLives /\ DeadlineFires)

SessionSpec == SessionInit /\ [][SessionNext]_sessionVars /\ SessionFairness

-----------------------------------------------------------------------------
(* Properties. *)

\* Link loss is never read as a sign-out: the page says that the session is
\* absent or over only when the gateway has ended it or its own deadline has
\* passed, whatever failed and in whatever order answers came.
LinkLossIsNotExpiry ==
    Screen \in {"out", "expired"} => ~sessionLives \/ deadlinePassed

\* A session that has ended leaves the screen, even when the gateway can no
\* longer be reached to say so.
EndNoticed == []<>(authRoutes /\ ~sessionLives => Screen # "app")

\* "A failed /auth/me ... is NOT a reason to ... unmount the screen, over a
\* working session" (useSession.ts 225-229).
LinkLossKeepsTheScreen ==
    [][\A c \in Checks :
          (Screen = "app" /\ check[c].answer = "failed" /\ check'[c] = NoCheck) => Screen' = "app"]_sessionVars

\* "A panel that says nothing about its own error is still covered, because
\* the screen it lives on says it" (shapeErrors.ts 22-24).
FailedFeedIsNamed ==
    \A f \in Feeds : feed[f] \in {"failed", "refused"} => feedErrors[TableOf[f]] # "none"
=============================================================================
