---------------------------------- MODULE Sessions ----------------------------------
(***************************************************************************)
(* A signed-in session at the gateway (gateway/oidc.py): created from the  *)
(* verified claims, looked up by every request, renewed at the provider    *)
(* when it is due, dropped when a bound is reached, the provider refuses,  *)
(* the viewer signs out or the sweep of somebody's sign-in finds it.       *)
(* Lookups run in the server's threads and hold no lock while they call    *)
(* the provider; a dropped session's id is never issued again.             *)
(*                                                                         *)
(* A token is its generation; a sign-in without a refresh token, or with   *)
(* one without an expiry, has until = 0.  Left out: the claims kept for    *)
(* display, the cookie, which of its checks a bad token fails, and the     *)
(* gateway's restart, which is a sign-out of everybody.                    *)
(***************************************************************************)
EXTENDS Integers

CONSTANTS
    Lookups,            \* the requests that look the session up: natural numbers, as they come
    SessionCeiling,     \* SESSION_CEILING
    SessionIdle,        \* SESSION_IDLE
    RefreshLead,        \* REFRESH_LEAD_S
    RenewRetry,         \* RENEW_RETRY_S
    TokenLife,          \* how long an ID token is good for
    RefreshLife,        \* how long a refresh token is
    CallTime,           \* how long a call to the provider lasts at most
    Rotates,            \* the provider takes each refresh token once
    MaxSessionNow

ASSUME SessionsAssumption ==
    /\ Lookups \subseteq Nat
    /\ SessionCeiling \in Nat /\ SessionIdle \in Nat /\ RefreshLead \in Nat /\ RenewRetry \in Nat
    /\ TokenLife \in Nat \ {0} /\ RefreshLife \in Nat \ {0} /\ CallTime \in Nat
    /\ Rotates \in BOOLEAN /\ MaxSessionNow \in Nat \ {0}

VARIABLES
    ssNow,
    ssSliding,      \* SESSION_MODE is sliding
    ssLive,         \* _sessions has it
    ssSession,      \* what _sessions has, or had
    ssEnd,          \* history: why it was dropped, by which answer of the provider if by
                    \* one, when, and until when the copy could renew
    ssGrant,        \* the provider's side (external): the newest token, 0 once revoked
    ssLookups       \* each request's lookup

sessionsVars == <<ssNow, ssSliding, ssLive, ssSession, ssEnd, ssGrant, ssLookups>>

LeastOf(a, b) == IF a < b THEN a ELSE b

\* create_session, one tick after the beginning of time.
NewSession(until) ==
    [token |-> 1, until |-> until, active |-> 1, hard |-> 1 + SessionCeiling,
     expires |-> LeastOf(1 + SessionCeiling, 1 + TokenLife)]

NoAnswerYet == [kind |-> "none", exp |-> 0, life |-> 0, token |-> 0]
NotEnded == [why |-> "none", by |-> "none", at |-> 0, until |-> 0]

\* A lookup that is over keeps when it was, and how long its copy had been active.
NoCopy == [token |-> 0, until |-> 0, active |-> 0, hard |-> 0, expires |-> 0]
NoLookup == [phase |-> "idle", touch |-> FALSE, snapshot |-> NoCopy, at |-> 0, answer |-> NoAnswerYet]
Unserved == [NoLookup EXCEPT !.phase = "refused"]
Served(active) ==
    [NoLookup EXCEPT !.phase = "served", !.at = ssNow, !.snapshot = [NoCopy EXCEPT !.active = active]]

Copies == [token : Nat, until : Nat, active : Nat, hard : Nat, expires : Nat]
AnswerKinds == {"none", "renewed", "other", "bent", "rejected", "unreachable"}
Answers == [kind : AnswerKinds, exp : Nat, life : Nat, token : Nat]
Reasons == {"none", "idle", "ceiling", "no_refresh", "refresh_rejected", "subject_mismatch", "signed_out"}
EndRecords == [why : Reasons, by : AnswerKinds, at : Nat, until : Nat]
LookupRecords ==
    [phase : {"idle", "looked", "calling", "answered", "served", "refused"},
     touch : BOOLEAN, snapshot : Copies, at : Nat, answer : Answers]

SessionsTypeOK ==
    /\ ssNow \in 1..MaxSessionNow /\ ssSliding \in BOOLEAN /\ ssLive \in BOOLEAN
    /\ ssSession \in Copies /\ ssGrant \in Nat
    /\ ssEnd \in EndRecords
    /\ ssLookups \in [Lookups -> LookupRecords]

SessionsInit ==
    /\ ssNow = 1 /\ ssSliding \in BOOLEAN /\ ssLive = TRUE
    /\ \E until \in {0, 1 + RefreshLife} : ssSession = NewSession(until)
    /\ ssEnd = NotEnded /\ ssGrant = 1
    /\ ssLookups = [l \in Lookups |-> NoLookup]

-----------------------------------------------------------------------------
(* The ends.  Each pops the id, which is a no-op when it is gone. *)

Ends(why, by, s) ==
    /\ ssLive' = FALSE
    /\ ssEnd' = IF ssLive THEN [why |-> why, by |-> by, at |-> ssNow, until |-> s.until] ELSE ssEnd
Lives == UNCHANGED <<ssLive, ssEnd>>

IsIdle(s) == ssSliding /\ ssNow - s.active > SessionIdle
CannotRenew(s) == s.until < ssNow \/ s.hard < ssNow

\* What an end without the provider is called.
Reason(s) == IF s.hard < ssNow THEN "ceiling" ELSE "no_refresh"

-----------------------------------------------------------------------------
(* get_session *)

\* A lookup copies the session under the lock.
LookUp(l) ==
    /\ ssLookups[l].phase = "idle" /\ \A m \in Lookups : m < l => ssLookups[m].phase # "idle"
    /\ \E touch \in {FALSE, ssSliding} :
          ssLookups' = [ssLookups EXCEPT ![l] =
              IF ssLive THEN [NoLookup EXCEPT !.phase = "looked", !.touch = touch, !.snapshot = ssSession]
              ELSE Unserved]
    /\ UNCHANGED <<ssNow, ssSliding, ssLive, ssSession, ssEnd, ssGrant>>

\* The session is due, and may be renewed.
Renews(s) == ssNow >= s.expires - RefreshLead /\ ~CannotRenew(s)

\* What a copy that is not renewed is good for: it is served until it expires,
\* also within the lead when there is nothing to renew with.
Serves(s) == ~(s.expires < ssNow)

\* The copy is judged by the clock: idle, touched, not due, over, or renewed.
Judge(l) ==
    LET look == ssLookups[l]  s == look.snapshot
        Goes(to) == ssLookups' = [ssLookups EXCEPT ![l] = to]
        active == IF ssSliding /\ look.touch THEN ssNow ELSE s.active
        Touched == ssSession' = IF ssSliding /\ look.touch /\ ssLive
                                THEN [ssSession EXCEPT !.active = ssNow] ELSE ssSession
    IN /\ look.phase = "looked"
       /\ \/ IsIdle(s) /\ Ends("idle", "none", s) /\ Goes(Unserved) /\ UNCHANGED ssSession
          \/ ~IsIdle(s) /\ Renews(s) /\ Lives /\ Touched
             /\ Goes([look EXCEPT !.phase = "calling", !.at = ssNow, !.snapshot.active = active])
          \/ ~IsIdle(s) /\ ~Renews(s) /\ Serves(s) /\ Lives /\ Goes(Served(active)) /\ Touched
          \/ ~IsIdle(s) /\ ~Renews(s) /\ ~Serves(s) /\ Ends(Reason(s), "none", s) /\ Goes(Unserved) /\ Touched
       /\ UNCHANGED <<ssNow, ssSliding, ssGrant>>

\* The provider answers (external): new tokens, perhaps for somebody else or
\* with no ID token or a bad one, or a refusal of a token that is revoked, used
\* or old.  Its answer may be lost.
ProviderAnswers(l) ==
    LET s == ssLookups[l].snapshot
        takes == ssGrant # 0 /\ ssNow <= s.until /\ (Rotates => s.token = ssGrant)
        newest == IF Rotates THEN ssGrant + 1 ELSE ssGrant
        Brings(answer) == ssLookups' = [ssLookups EXCEPT ![l].phase = "answered", ![l].answer = answer]
    IN /\ ssLookups[l].phase = "calling"
       /\ \/ /\ takes /\ ssGrant' = newest
             /\ \E kind \in {"renewed", "other", "bent"}, life \in {0, RefreshLife} :
                   Brings([kind |-> kind, exp |-> ssNow + TokenLife, life |-> life, token |-> newest])
          \/ ~takes /\ Brings([NoAnswerYet EXCEPT !.kind = "rejected"]) /\ UNCHANGED ssGrant
          \/ /\ Brings([NoAnswerYet EXCEPT !.kind = "unreachable"])
             /\ ssGrant' \in {ssGrant} \cup (IF takes THEN {newest} ELSE {})
       /\ UNCHANGED <<ssNow, ssSliding, ssLive, ssSession, ssEnd>>

\* [mutant] The renewed copy is put back, whatever has become of the session.
WritesBack == TRUE

\* The session is still there when the answer is written.
StillThere == ssLive

\* The tokens of a renewal are taken: expires never past the ceiling.
TakenBy(look) ==
    [ssSession EXCEPT
        !.token = look.answer.token,
        !.until = IF look.answer.life > 0 THEN look.at + look.answer.life ELSE look.snapshot.until,
        !.expires = LeastOf(LeastOf(look.at + SessionCeiling, look.answer.exp), ssSession.hard)]

\* verify_id_token refuses what an answer brought: no ID token or a bad one, one
\* that has expired since, or one whose key is not known here and not to be had,
\* as when the provider is out of reach by now.
Unverified(answer, keyKnown) == answer.kind = "bent" \/ answer.exp <= ssNow \/ ~keyKnown

\* The answers that end the session: a refusal, a token of another subject, and
\* a renewal whose token cannot be verified.
EndedBy(answer, keyKnown) ==
    \/ answer.kind \in {"rejected", "other"}
    \/ answer.kind \in {"renewed", "bent"} /\ Unverified(answer, keyKnown)

\* An answer is handled, at some time after the copy: a renewal is taken once it
\* verifies, a call that failed is put off, all else ends the session.
HandleAnswer(l) ==
    LET look == ssLookups[l]  kind == look.answer.kind
        Goes(to) == ssLookups' = [ssLookups EXCEPT ![l] = to]
    IN /\ look.phase = "answered"
       /\ \E keyKnown \in BOOLEAN :
          \/ /\ EndedBy(look.answer, keyKnown) /\ Goes(Unserved) /\ UNCHANGED ssSession
             /\ Ends(IF kind = "rejected" THEN "refresh_rejected" ELSE "subject_mismatch", kind, look.snapshot)
          \/ ~EndedBy(look.answer, keyKnown) /\ ~StillThere /\ Goes(Unserved) /\ Lives /\ UNCHANGED ssSession
          \/ /\ ~EndedBy(look.answer, keyKnown) /\ StillThere /\ Goes(Served(look.snapshot.active))
             /\ ssLive' = TRUE /\ UNCHANGED ssEnd
             /\ ssSession' = IF kind = "renewed" THEN TakenBy(look)
                             ELSE [ssSession EXCEPT !.expires = ssNow + RenewRetry]
       /\ UNCHANGED <<ssNow, ssSliding, ssGrant>>

-----------------------------------------------------------------------------
(* What else happens to it. *)

\* destroy_session, after a lookup of the viewer who signs out.
SignOut ==
    /\ ssLive /\ Ends("signed_out", "none", ssSession)
    /\ UNCHANGED <<ssNow, ssSliding, ssSession, ssGrant, ssLookups>>

\* _sweep_sessions, at anybody's sign-in.
Sweep ==
    /\ ssLive
    /\ \/ IsIdle(ssSession) /\ Ends("idle", "none", ssSession)
       \/ /\ ~IsIdle(ssSession) /\ ssSession.hard < ssNow /\ Ends("ceiling", "none", ssSession)
       \/ /\ ~IsIdle(ssSession) /\ ssSession.hard >= ssNow
          /\ ssSession.expires < ssNow /\ ssSession.until < ssNow /\ Ends("no_refresh", "none", ssSession)
    /\ UNCHANGED <<ssNow, ssSliding, ssSession, ssGrant, ssLookups>>

\* The provider ends its side: the account is disabled, or signed out there (external).
Revoke ==
    /\ ssGrant # 0 /\ ssGrant' = 0
    /\ UNCHANGED <<ssNow, ssSliding, ssLive, ssSession, ssEnd, ssLookups>>

InACall(l) == ssLookups[l].phase \in {"calling", "answered"}

\* Time passes; a call is over within CallTime.
SessionTick ==
    /\ ssNow < MaxSessionNow /\ ssNow' = ssNow + 1
    /\ \A l \in Lookups : InACall(l) => ssNow < ssLookups[l].at + CallTime
    /\ UNCHANGED <<ssSliding, ssLive, ssSession, ssEnd, ssGrant, ssLookups>>

SessionsNext ==
    \/ \E l \in Lookups : LookUp(l) \/ Judge(l) \/ ProviderAnswers(l) \/ HandleAnswer(l)
    \/ SignOut \/ Sweep \/ Revoke \/ SessionTick

SessionsSpec == SessionsInit /\ [][SessionsNext]_sessionsVars

-----------------------------------------------------------------------------
\* A session that was dropped stays so: no renewal that was under way when a
\* viewer signed out, a provider refused or a sweep came by brings it back.
EndedStaysEnded == ssEnd # NotEnded => ~ssLive

\* No lookup serves a session long after its ceiling: by the time that a renewal
\* that was begun under it takes, and by one deferral of it (create_session's
\* "absolute ceiling" is overrun by no more than that); and none much longer than
\* SESSION_IDLE after its copy was last active.
ServedInTime ==
    \A l \in Lookups : ssLookups[l].phase = "served" =>
        /\ ssLookups[l].at <= ssSession.hard + CallTime + RenewRetry
        /\ ssSliding => ssLookups[l].at <= ssLookups[l].snapshot.active + SessionIdle + CallTime

\* A session is dropped as refused only when its grant was revoked, or its refresh
\* token too old: a refresh call that fails, or whose answer is lost, drops
\* nothing, also when another renewal or the provider's own end overtakes it
\* (get_session; a provider that takes a token once is another matter, see
\* RaceIsHarmless, and so is a renewal that was answered, see RenewalEndsNothing).
RefusalIsReal ==
    ssEnd.why = "refresh_rejected" /\ ~Rotates => ssGrant = 0 \/ ssEnd.at > ssEnd.until

\* A session at the gateway ends for good, in time, and as refused only by a
\* refusal, whatever its concurrent renewals bring.
SessionsKept == EndedStaysEnded /\ ServedInTime /\ RefusalIsReal

\* get_session: "when the provider REJECTS the refresh ... or answers with a
\* different `sub`, the session is dropped"; when it "is merely UNREACHABLE ...
\* the session is kept".  It is false: a renewal of the session's own subject
\* ends it when its key must be fetched and the provider is out of reach by then.
RenewalEndsNothing == ssEnd.by # "renewed"

\* get_session's note on two renewals at once: "both succeed or fail together".
\* It is false of a provider that takes a refresh token once.
RaceIsHarmless ==
    ssEnd.why = "refresh_rejected" => ssGrant = 0 \/ ssEnd.at > ssEnd.until

\* create_session: "hard_expires is the absolute ceiling ... however often the
\* session renews, it still ends".  A deferral pushes expires past it.
CeilingIsAbsolute ==
    \A l \in Lookups : ssLookups[l].phase = "served" => ssLookups[l].at <= ssSession.hard + CallTime
=============================================================================
