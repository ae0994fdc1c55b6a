------------------------- MODULE BestInvestSession -------------------------
(***************************************************************************)
(* The collector of Hachshara Best Invest (investments/best-invest): the   *)
(* exclusive lease on its profile, the native Chrome it starts there, the  *)
(* portal session it saves and restores, and the one login by SMS it may   *)
(* fall back on.  The service and the command line each run one.           *)
(*                                                                         *)
(* A session is a number: 0 is one of another identity, 1 an earlier one   *)
(* of the configured identity, and each login issues the next.             *)
(***************************************************************************)
EXTENDS Integers, FiniteSets

CONSTANTS
    Collectors,  \* the processes that collect
    MaxSessions, \* bounds, for model checking
    MaxRuns,
    MaxPolicies

VARIABLES
    lease,   \* the collector named in the lock directory
    chrome,  \* the collectors whose native Chrome runs on the profile
    saved,   \* the session in portal-session.json
    portal,  \* per session: live, rejected by the portal, or past its expireAt
    issued,  \* the last session issued
    col      \* the collection of each collector

vars == <<lease, chrome, saved, portal, issued, col>>

None == "none"
Sessions == 0..MaxSessions
NoSession == -1

\* What the page holds, the login of this collection, and how it is going.
Idle == [stage |-> "idle", page |-> NoSession, there |-> FALSE, login |-> "no", sms |-> 0,
         needed |-> FALSE, held |-> FALSE, aborted |-> FALSE, left |-> 0, code |-> None, runs |-> 0]

\* validBestInvestSession, which knows the session's own expiry only.
ValidSession(s) == s # NoSession /\ portal[s] # "expired"

Set(c, changes) == col' = [col EXCEPT ![c] = changes]
Goto(c, stage) == Set(c, [col[c] EXCEPT !.stage = stage])
Fail(c, code) == Set(c, [col[c] EXCEPT !.stage = "failed", !.code = code, !.left = 0])
World == <<lease, chrome, saved, portal, issued>>

Init ==
    /\ lease = None /\ chrome = {}
    /\ saved \in {NoSession, 0, 1} /\ issued = 1
    /\ portal = [s \in Sessions |-> "live"]
    /\ col = [c \in Collectors |-> Idle]

-----------------------------------------------------------------------------
(* Lease, Chrome and the saved session.                                    *)

\* A lock directory means BEST_INVEST_PROFILE_BUSY, whoever left it.  Without a display,
\* or when the owner file cannot be written, nothing is started.
Start(c) ==
    /\ col[c].stage = "idle" /\ col[c].runs < MaxRuns /\ lease = None
    /\ lease' = c
    /\ \/ chrome' = chrome \cup {c} /\ Set(c, [col[c] EXCEPT !.stage = "starting"])
       \/ chrome' = chrome /\ Fail(c, "COLLECTION_FAILED")
    /\ UNCHANGED <<saved, portal, issued>>

\* The port file appears and a page opens; the saved session goes into it while it is valid.
Restore(c) ==
    /\ col[c].stage = "starting" /\ c \in chrome /\ ~col[c].aborted
    /\ IF ValidSession(saved)
       THEN saved' = saved /\ Set(c, [col[c] EXCEPT !.stage = "opened", !.page = saved, !.there = TRUE])
       ELSE saved' = NoSession /\ Set(c, [col[c] EXCEPT !.stage = "opened", !.there = TRUE])
    /\ UNCHANGED <<lease, chrome, portal, issued>>

\* A page without a session, or with one of the configured identity.
CheckIdentity(c) ==
    /\ col[c].stage = "opened"
    /\ IF col[c].page = 0 THEN Fail(c, "INVALID_CREDENTIALS") ELSE Goto(c, "asking")
    /\ UNCHANGED World

-----------------------------------------------------------------------------
(* Requests and the login.                                                 *)

Authorised(c) == col[c].page # NoSession /\ portal[col[c].page] = "live"

\* Any failure leads to another login.
WrongAskPolicies(c) ==
    /\ col[c].stage = "asking" /\ col[c].there
    /\ IF Authorised(c)
       THEN \/ \E n \in 1..MaxPolicies : Set(c, [col[c] EXCEPT !.stage = "reading", !.left = n])
            \/ Goto(c, "login")
       ELSE Set(c, [col[c] EXCEPT !.stage = "login", !.needed = TRUE])
    /\ UNCHANGED World

\* The first request that finds no authorised session leads to the login, a second one to
\* the end, and any other error too.
AskPolicies(c) ==
    /\ col[c].stage = "asking" /\ col[c].there
    /\ IF Authorised(c)
       THEN \/ \E n \in 1..MaxPolicies : Set(c, [col[c] EXCEPT !.stage = "reading", !.left = n])
            \/ Fail(c, "INVALID_RESPONSE")
       ELSE IF col[c].login = "no"
            THEN Set(c, [col[c] EXCEPT !.stage = "login", !.needed = TRUE])
            ELSE Fail(c, "OTP_REQUIRED")
    /\ UNCHANGED World

\* Credentials are resolved, the form is filled in, which may make the portal drop the
\* session it held, and the receiver is armed for one code.
Arm(c) ==
    /\ col[c].stage = "login" /\ col[c].there
    /\ \/ \E page \in {col[c].page, NoSession} :
             Set(c, [col[c] EXCEPT !.stage = "armed", !.page = page, !.held = TRUE, !.login = "begun"])
       \/ \E code \in {"CREDENTIAL_RESOLUTION_FAILED", "INVALID_CREDENTIALS", "OTP_REQUIRED", "TIMEOUT"} :
             Fail(c, code)
    /\ UNCHANGED World

\* The allowance is used up, the portal answers otherwise, or no code of six digits comes;
\* a code that was submitted can only time out.  The receiver is released in any case.
LoginFails(c) ==
    /\ col[c].stage \in {"armed", "sent", "verifying"}
    /\ \E code \in {"OTP_REQUIRED", "TIMEOUT"} :
          /\ col[c].stage = "verifying" => code = "TIMEOUT"
          /\ Set(c, [col[c] EXCEPT !.stage = "failed", !.code = code, !.held = FALSE])
    /\ UNCHANGED World

\* One unit of the allowance, then the click, unless the collection was aborted meanwhile.
SendSms(c) ==
    /\ col[c].stage = "armed" /\ col[c].there /\ ~col[c].aborted
    /\ Set(c, [col[c] EXCEPT !.stage = "sent", !.sms = @ + 1])
    /\ UNCHANGED World

\* A six-digit code is submitted; the portal answers it when it likes.
SubmitCode(c) ==
    /\ col[c].stage = "sent" /\ col[c].there /\ ~col[c].aborted
    /\ Set(c, [col[c] EXCEPT !.stage = "verifying", !.login = "submitted"])
    /\ UNCHANGED World

PortalAnswers(c) ==
    /\ col[c].login = "submitted" /\ col[c].there /\ issued < MaxSessions
    /\ issued' = issued + 1
    /\ Set(c, [col[c] EXCEPT !.page = issued + 1, !.login = "accepted"])
    /\ UNCHANGED <<lease, chrome, saved, portal>>

\* The wait ends as soon as the page holds an unexpired session: the one the portal
\* had rejected also counts when the page still has it.
Verified(c) ==
    /\ col[c].stage = "verifying" /\ col[c].there /\ ~col[c].aborted
    /\ ValidSession(col[c].page)
    /\ Set(c, [col[c] EXCEPT !.stage = "asking", !.held = FALSE])
    /\ UNCHANGED World

\* Details and deposits of one policy.  A deposits request may fail, unless for want of a session.
ReadPolicy(c) ==
    /\ col[c].stage = "reading" /\ col[c].there /\ ~col[c].aborted
    /\ IF Authorised(c)
       THEN \/ Set(c, [col[c] EXCEPT !.left = @ - 1,
                                     !.stage = IF col[c].left = 1 THEN "read" ELSE @])
            \/ Fail(c, "INVALID_RESPONSE")
       ELSE Fail(c, "OTP_REQUIRED")
    /\ UNCHANGED World

-----------------------------------------------------------------------------
(* The end.                                                                *)

\* The page's session is saved, or the file removed when it is no longer valid.
Save(c) ==
    /\ col[c].stage = "read" /\ col[c].there /\ ~col[c].aborted
    /\ saved' = IF ValidSession(col[c].page) THEN col[c].page ELSE NoSession
    /\ Goto(c, "closing")
    /\ UNCHANGED <<lease, chrome, portal, issued>>

\* A failed collection leaves the saved session as it was.
WrongRecover(c) ==
    /\ col[c].stage = "failed"
    /\ saved' = IF col[c].code = "OTP_REQUIRED" THEN NoSession ELSE saved
    /\ Goto(c, "closing")
    /\ UNCHANGED <<lease, chrome, portal, issued>>

\* OTP_REQUIRED removes the file; otherwise the session of a page that is still there is
\* saved, for it may be a new one.
Recover(c) ==
    /\ col[c].stage = "failed"
    /\ saved' = CASE col[c].code = "OTP_REQUIRED" -> NoSession
                  [] col[c].code # "OTP_REQUIRED" /\ ~col[c].aborted /\ col[c].there
                         /\ ValidSession(col[c].page) -> col[c].page
                  [] OTHER -> saved
    /\ Goto(c, "closing")
    /\ UNCHANGED <<lease, chrome, portal, issued>>

Over(c) == Set(c, [Idle EXCEPT !.runs = col[c].runs + 1])

\* The lease is given back whatever became of Chrome.
WrongClose(c) ==
    /\ col[c].stage = "closing"
    /\ chrome' \in {chrome, chrome \ {c}}
    /\ lease' = None /\ Over(c)
    /\ UNCHANGED <<saved, portal, issued>>

\* Chrome is closed, then signalled: only its exit gives the lease back.
Close(c) ==
    /\ col[c].stage = "closing"
    /\ \/ chrome' = chrome \ {c} /\ lease' = None
       \/ c \in chrome /\ UNCHANGED <<chrome, lease>>
    /\ Over(c)
    /\ UNCHANGED <<saved, portal, issued>>

Working(c) == col[c].stage \notin {"idle", "failed", "closing"}

\* Shutdown or the timeout: Chrome is being closed from now on.
Abort(c) ==
    /\ Working(c) /\ ~col[c].aborted
    /\ Set(c, [col[c] EXCEPT !.aborted = TRUE])
    /\ UNCHANGED World

\* What an aborted collection, or one without its page, was waiting for fails.
WaitFails(c) ==
    /\ Working(c) /\ (col[c].aborted \/ ~col[c].there)
    /\ Set(c, [col[c] EXCEPT !.stage = "failed", !.held = FALSE, !.left = 0,
                             !.code = IF col[c].aborted THEN "TIMEOUT" ELSE "COLLECTION_FAILED"])
    /\ UNCHANGED World

\* Chrome exits, or the page leaves the portal's origin.
PageLost(c) ==
    /\ col[c].there
    /\ chrome' \in {chrome, chrome \ {c}}
    /\ Set(c, [col[c] EXCEPT !.there = FALSE])
    /\ UNCHANGED <<lease, saved, portal, issued>>

-----------------------------------------------------------------------------
(* The world.                                                              *)

\* A process that is killed leaves its lock, its file and maybe its Chrome.
Die(c) ==
    /\ col[c].stage # "idle" /\ Over(c)
    /\ UNCHANGED World

OrphanExits(c) ==
    /\ c \in chrome /\ col[c].stage = "idle"
    /\ chrome' = chrome \ {c}
    /\ UNCHANGED <<lease, saved, portal, issued, col>>

\* The operator removes a lock once nothing runs on the profile.
ClearLock ==
    /\ lease # None /\ chrome = {} /\ col[lease].stage = "idle"
    /\ lease' = None
    /\ UNCHANGED <<chrome, saved, portal, issued, col>>

SessionEnds(s) ==
    /\ s <= issued /\ portal[s] # "expired"
    /\ \E how \in {"rejected", "expired"} \ {portal[s]} : portal' = [portal EXCEPT ![s] = how]
    /\ UNCHANGED <<lease, chrome, saved, issued, col>>

Step(c) ==
    \/ Start(c) \/ Restore(c) \/ CheckIdentity(c) \/ AskPolicies(c)
    \/ Arm(c) \/ LoginFails(c) \/ SendSms(c) \/ SubmitCode(c) \/ PortalAnswers(c) \/ Verified(c)
    \/ ReadPolicy(c) \/ Save(c) \/ Recover(c) \/ Close(c)
    \/ Abort(c) \/ WaitFails(c) \/ PageLost(c) \/ Die(c) \/ OrphanExits(c)

Next == ClearLock \/ (\E s \in Sessions : SessionEnds(s)) \/ \E c \in Collectors : Step(c)

-----------------------------------------------------------------------------
(* What the collector promises.                                            *)

TypeOK ==
    /\ lease \in Collectors \cup {None} /\ chrome \subseteq Collectors
    /\ saved \in Sessions \cup {NoSession} /\ issued \in Sessions
    /\ portal \in [Sessions -> {"live", "rejected", "expired"}]
    /\ \A c \in Collectors :
          /\ col[c].page \in Sessions \cup {NoSession} /\ col[c].sms \in 0..1
          /\ col[c].left \in 0..MaxPolicies /\ col[c].runs \in 0..MaxRuns

\* "If exit cannot be confirmed, retain the collector lease so another collection cannot
\* reuse an owned profile" (docs/best-invest.md): no two Chromes ever share the profile,
\* not after a kill that did not work or the death of a collector, and a profile with a
\* Chrome is leased.
ProfileIsLeased ==
    /\ Cardinality(chrome) <= 1
    /\ \A c \in chrome : lease = c

\* An SMS is requested once per collection, and only because the session it had restored,
\* if any, was no longer accepted.  "Never resend an SMS after failure" (docs/best-invest.md):
\* and whatever becomes of the login, the receiver is free again when the collection closes.
SmsIsTheLastResort ==
    \A c \in Collectors :
        /\ col[c].sms <= 1 /\ (col[c].sms = 1 => col[c].needed)
        /\ col[c].stage \in {"failed", "closing"} => ~col[c].held

\* "A parser/backend failure must not discard a newly authenticated session and force
\* another OTP" (best-invest/browser.ts:279): when a collection that was issued a session
\* ends with its page in place, the session is saved, unless it is no longer accepted.  (A
\* request refused with OTP_REQUIRED removes the file; it can be the rejected session's, when
\* Verified took that one for the new one and the new one came a moment later.)
KeepsSession(c) ==
    (/\ col[c].stage \in {"read", "failed"} /\ col'[c].stage = "closing"
     /\ col[c].login = "accepted" /\ col[c].there /\ ~col[c].aborted
     /\ portal[col[c].page] = "live" /\ col[c].code # "OTP_REQUIRED")
        => saved' = col[c].page

=============================================================================
