-------------------------- MODULE InvestmentRuntime --------------------------
(***************************************************************************)
(* The runtime of one investment provider: src/investments/runtime.ts, the *)
(* recovery a consumer drives with SMS codes (manual-recovery.ts), the one *)
(* login and retry of a collection (recovery.ts, login.ts), and the lock   *)
(* directory that keeps the browser profile to one process (browser.ts).   *)
(*                                                                         *)
(* A step is what the event loop runs between two awaits.  Schedule,       *)
(* timers, control requests, the `clal-login` command in another process,  *)
(* shutdown and death interleave with the steps of a collection.           *)
(***************************************************************************)
EXTENDS Integers, Sequences, FiniteSets

CONSTANTS
    Requests,       \* recovery ids chosen by the consumer
    Automatic,      \* is a Google Messages receiver configured?
    SmsLimit,       \* SMS requests per rolling day
    RetryDelay,     \* the wait after a busy profile
    Window,         \* how long a scheduled occurrence is retried
    ChallengeTime,  \* how long a recovery waits for its code
    Day,            \* the rolling day of the SMS allowance and the tombstones
    MaxClock, MaxCauses, MaxBoots \* bounds, for model checking

None == "none"
Never == -1

ASSUME RuntimeAssumption ==
    /\ None \notin Requests
    /\ Automatic \in BOOLEAN
    /\ {SmsLimit, RetryDelay, Window, ChallengeTime, Day} \subseteq Nat \ {0}
    /\ ChallengeTime < Day
    /\ {MaxClock, MaxCauses, MaxBoots} \subseteq Nat

VARIABLES
    clock,
    life,        \* "up", "stopped" (stop was called), "closing" (close too), "down"
    lock,        \* the lock directory of the profile: "server", "command", "stale" or none
    run,         \* the collection under way: running and collectionController
    maintaining, \* is the session being renewed?
    attempt,     \* scheduledCollection
    recovery,    \* manualRecovery
    lease,       \* providerLeases holds the provider
    records,     \* investment_manual_recovery_requests
    sms,         \* automatic_sms_attempts
    source,      \* the stored source health: "ok", or "failing" with whatever status
    causes, boots, \* occurrences, refreshes, recoveries and logins so far; starts so far
    texts        \* observation only: every SMS asked for, in order

disk == <<lock, records, sms, source>>
vars == <<clock, life, run, maintaining, attempt, recovery, lease, disk, causes, boots, texts>>

-----------------------------------------------------------------------------
(* What starts a collection, the collection, the occurrence, the recovery. *)

Cause(kind) == [kind |-> kind, n |-> causes + 1, request |-> None, asked |-> Never]
RecoveryCause(id) == [kind |-> "recovery", n |-> causes + 1, request |-> id, asked |-> clock]

NoCause == [kind |-> None, n |-> 0, request |-> None, asked |-> Never]
NoRun == [stage |-> None, cause |-> NoCause, aborted |-> FALSE, reserved |-> Never]
NewRun(cause) == [NoRun EXCEPT !.stage = "waiting", !.cause = cause]

Running == run # NoRun
InBrowser == run.stage \in {"collecting", "login", "reserved", "sent", "awaiting", "code", "recollecting"}
LoggingIn == run.stage \in {"login", "reserved", "sent", "awaiting", "code"}
IsManual == Running /\ run.cause.kind = "recovery"

NoAttempt == [cause |-> NoCause, deadline |-> Never, due |-> Never]
NoRecovery == [id |-> None, state |-> None, expires |-> Never]
NoRecord == [state |-> None, createdAt |-> Never]

Outcomes == {"complete", "failed", "canceled", "expired"}
IsLive == recovery.state \in {"starting", "awaiting_code", "verifying"}
Goto(stage) == run' = [run EXCEPT !.stage = stage]
Abort(r) == IF r = NoRun THEN NoRun ELSE [r EXCEPT !.aborted = TRUE]

\* The second outcome of a recovery replaces the first one.
WrongEnd(outcome) ==
    /\ recovery' = [recovery EXCEPT !.state = outcome, !.expires = Never]
    /\ lease' = FALSE
    /\ \/ records' = [records EXCEPT ![recovery.id].state = outcome]
       \/ UNCHANGED records

\* end: only a live recovery ends; its lease is given up; the outcome may fail to be saved.
End(outcome) ==
    IF ~IsLive THEN UNCHANGED <<recovery, lease, records>>
    ELSE /\ recovery' = [recovery EXCEPT !.state = outcome, !.expires = Never]
         /\ lease' = FALSE
         /\ \/ records' = [records EXCEPT ![recovery.id].state = outcome]
            \/ UNCHANGED records

-----------------------------------------------------------------------------
Init ==
    /\ clock = 0 /\ life = "down" /\ lock = None
    /\ run = NoRun /\ maintaining = FALSE /\ attempt = NoAttempt
    /\ recovery = NoRecovery /\ lease = FALSE
    /\ records = [r \in Requests |-> NoRecord] /\ sms = {} /\ source = "ok"
    /\ causes = 0 /\ boots = 0 /\ texts = <<>>

-----------------------------------------------------------------------------
(* Starting a collection. *)

MoreCauses == causes < MaxCauses /\ causes' = causes + 1
Open == life \in {"up", "stopped"}

\* Nobody sets the timer of the retry.
WrongRetried(a) ==
    IF clock + RetryDelay > a.deadline THEN NoAttempt ELSE [a EXCEPT !.due = Never]

\* An occurrence whose collection did not happen is tried again within its window.
Retried(a) ==
    IF clock + RetryDelay > a.deadline THEN NoAttempt ELSE [a EXCEPT !.due = clock + RetryDelay]

\* attemptScheduledCollection and the runNow it calls.
Attempt(a) ==
    IF clock > a.deadline THEN attempt' = NoAttempt /\ UNCHANGED run
    ELSE IF Running \/ lease THEN attempt' = Retried(a) /\ UNCHANGED run
    ELSE attempt' = [a EXCEPT !.due = Never] /\ run' = NewRun(a.cause)

\* The cron task; another occurrence that is still tried covers this one.
Cron ==
    /\ life = "up" /\ attempt = NoAttempt
    /\ MoreCauses /\ clock + Window <= MaxClock
    /\ Attempt([NoAttempt EXCEPT !.cause = Cause("cron"), !.deadline = clock + Window])
    /\ UNCHANGED <<clock, life, maintaining, recovery, lease, disk, boots, texts>>

AttemptTimer ==
    /\ attempt.due # Never /\ clock >= attempt.due
    /\ Attempt(attempt)
    /\ UNCHANGED <<clock, life, maintaining, recovery, lease, disk, causes, boots, texts>>

\* POST refresh, unless it shares a collection or its own rate limit refuses it.
Refresh ==
    /\ Open /\ ~Running /\ MoreCauses
    /\ IF lease THEN UNCHANGED run ELSE run' = NewRun(Cause("refresh"))
    /\ UNCHANGED <<clock, life, maintaining, attempt, recovery, lease, disk, boots, texts>>

\* reserveManualRecoveryRequest: old tombstones go, the new one says that the request was interrupted.
ReserveRecord(id) ==
    records' = [r \in Requests |->
        IF r = id THEN [state |-> "interrupted", createdAt |-> clock]
        ELSE IF records[r].createdAt < clock - Day THEN NoRecord ELSE records[r]]

\* POST recovery.  A known id gets its status and nothing else happens.
StartRecovery(id) ==
    /\ Open /\ recovery.id # id /\ records[id] = NoRecord
    /\ ~Running /\ ~lease /\ MoreCauses
    /\ ReserveRecord(id)
    /\ recovery' = [id |-> id, state |-> "starting", expires |-> clock + ChallengeTime]
    /\ lease' = TRUE
    /\ run' = NewRun(RecoveryCause(id))
    /\ UNCHANGED <<clock, life, maintaining, attempt, lock, sms, source, boots, texts>>

-----------------------------------------------------------------------------
(* The end of a collection. *)

\* The recovery is not told.
WrongFinish(result) == UNCHANGED <<recovery, lease, records>>

\* The recovery that asked for the collection hears its result.
Finish(result) ==
    IF IsManual THEN End(IF result = "ok" THEN "complete" ELSE "failed")
    ELSE UNCHANGED <<recovery, lease, records>>

\* What follows `await running` in runNow and in attemptScheduledCollection.
RunEnds(result) ==
    /\ run' = NoRun
    /\ Finish(result)
    /\ attempt' = IF run.cause.kind # "cron" \/ attempt = NoAttempt THEN attempt
                  ELSE IF result \in {"skipped", "undefined"} THEN Retried(attempt)
                  ELSE NoAttempt

\* The browser of the collection closes, and its lock directory goes.
Release == lock' = None

\* An aborted collection ends when its browser has closed, and stores nothing.
Abandon ==
    /\ run.aborted
    /\ run.stage = "waiting" => ~maintaining
    /\ IF InBrowser THEN Release ELSE UNCHANGED lock
    /\ RunEnds(IF run.stage = "waiting" THEN "undefined" ELSE "error")
    /\ UNCHANGED <<clock, life, maintaining, sms, source, causes, boots, texts>>

-----------------------------------------------------------------------------
(* The steps of a collection. *)

Unaborted == Running /\ ~run.aborted

\* withClalBrowser: the profile is taken, or somebody else has it.
TakeProfile(stage, resultIfBusy) ==
    IF lock = None
    THEN lock' = "server" /\ Goto(stage) /\ UNCHANGED <<attempt, recovery, lease, records>>
    ELSE RunEnds(resultIfBusy) /\ UNCHANGED lock

\* A session being renewed is waited for.
Collect ==
    /\ Unaborted /\ run.stage = "waiting" /\ ~maintaining
    /\ TakeProfile("collecting", "skipped")
    /\ UNCHANGED <<clock, life, maintaining, sms, source, causes, boots, texts>>

MayStore == ~run.aborted

\* The collector returns ("ok" stands for a partial snapshot too), or the database refuses its
\* outcome.  Only an expired session found by the first collection leads to a login.
Collected(result) ==
    /\ run.stage \in {"collecting", "recollecting"} /\ MayStore
    /\ Release
    /\ \/ source' = IF result = "ok" THEN "ok" ELSE "failing"
       \/ result = "error" /\ UNCHANGED source
    /\ IF result = "auth_required" /\ run.stage = "collecting" /\ (Automatic \/ IsManual)
       THEN Goto("expired") /\ UNCHANGED <<attempt, recovery, lease, records>>
       ELSE RunEnds(result)
    /\ UNCHANGED <<clock, life, maintaining, sms, causes, boots, texts>>

\* Without an SMS the occurrence may be tried again.
Login ==
    /\ Unaborted /\ run.stage = "expired"
    /\ TakeProfile("login", "skipped")
    /\ UNCHANGED <<clock, life, maintaining, sms, source, causes, boots, texts>>

\* The portal lets the saved session in, or accepted the code.
LoggedIn ==
    /\ Unaborted /\ run.stage \in {"login", "code"}
    /\ Release /\ Goto("verified")
    /\ UNCHANGED <<clock, life, maintaining, attempt, recovery, lease, records, sms, source,
                   causes, boots, texts>>

\* A page, the receiver or the browser's own timeout ends the login.
LoginFails ==
    /\ Unaborted /\ LoggingIn /\ ~(IsManual /\ run.stage = "awaiting")
    /\ Release
    /\ RunEnds("auth_required")
    /\ UNCHANGED <<clock, life, maintaining, sms, source, causes, boots, texts>>

\* The browser's timeout reaches the recovery that waits for its code first.
CodeTimesOut ==
    /\ Unaborted /\ run.stage = "awaiting" /\ IsManual
    /\ End("canceled") /\ Release
    /\ run' = NoRun
    /\ UNCHANGED <<clock, life, maintaining, attempt, sms, source, causes, boots, texts>>

Recent == {entry \in sms : entry.at > clock - Day}

Allowed == Cardinality(Recent) < SmsLimit

\* The list forgets what is old and gets one more entry; its place there tells it from the others.
Consume == sms' = Recent \cup {[at |-> clock, place |-> Cardinality(Recent)]}

\* consumeAutomaticSmsAttempt, once the receiver or the recovery is ready; a refusal is a LoginFails.
Reserve ==
    /\ Unaborted /\ run.stage = "login" /\ Allowed
    /\ Consume
    /\ run' = [run EXCEPT !.stage = "reserved", !.reserved = clock]
    /\ UNCHANGED <<clock, life, maintaining, attempt, recovery, lease, lock, records, source,
                   causes, boots, texts>>

\* The click on Send.
SendSms ==
    /\ Unaborted /\ run.stage = "reserved"
    /\ run' = [run EXCEPT !.stage = "sent", !.reserved = Never]
    /\ texts' = Append(texts, [at |-> run.reserved, cause |-> run.cause])
    /\ UNCHANGED <<clock, life, maintaining, attempt, recovery, lease, disk, causes, boots>>

\* The portal shows its form for the code: read.
AwaitCode ==
    /\ Unaborted /\ run.stage = "sent"
    /\ Goto("awaiting")
    /\ recovery' = IF IsManual THEN [recovery EXCEPT !.state = "awaiting_code"] ELSE recovery
    /\ UNCHANGED <<clock, life, maintaining, attempt, lease, disk, causes, boots, texts>>

\* The receiver hands over the code.
ReceiveCode ==
    /\ Unaborted /\ run.stage = "awaiting" /\ ~IsManual
    /\ Goto("code")
    /\ UNCHANGED <<clock, life, maintaining, attempt, recovery, lease, disk, causes, boots, texts>>

\* A busy profile sends the occurrence back to its retries.
WrongCollectAgain ==
    /\ Unaborted /\ run.stage = "verified"
    /\ TakeProfile("recollecting", "skipped")
    /\ UNCHANGED <<clock, life, maintaining, sms, source, causes, boots, texts>>

\* A busy profile ends the occurrence now: a retry could ask for another SMS.
CollectAgain ==
    /\ Unaborted /\ run.stage = "verified"
    /\ TakeProfile("recollecting", "error")
    /\ UNCHANGED <<clock, life, maintaining, sms, source, causes, boots, texts>>

CollectionStep ==
    \/ Abandon \/ Collect \/ Login \/ LoggedIn \/ LoginFails \/ CodeTimesOut
    \/ Reserve \/ SendSms \/ AwaitCode \/ ReceiveCode \/ CollectAgain
    \/ \E result \in {"ok", "auth_required", "error"} : Collected(result)

-----------------------------------------------------------------------------
(* The code of a recovery, its deadline and its cancellation. *)

\* The deadline stays although the code was accepted.
WrongSubmit(id) ==
    /\ Open /\ recovery.id = id
    /\ IF recovery.expires # Never /\ clock >= recovery.expires
       THEN End("expired") /\ run' = Abort(run)
       ELSE /\ recovery.state = "awaiting_code"
            /\ recovery' = [recovery EXCEPT !.state = "verifying"]
            /\ Goto("code")
            /\ UNCHANGED <<lease, records>>
    /\ UNCHANGED <<clock, life, maintaining, attempt, lock, sms, source, causes, boots, texts>>

\* POST code.  A late code expires the recovery, whatever the timer has done.
Submit(id) ==
    /\ Open /\ recovery.id = id
    /\ IF recovery.expires # Never /\ clock >= recovery.expires
       THEN End("expired") /\ run' = Abort(run)
       ELSE /\ recovery.state = "awaiting_code"
            /\ recovery' = [recovery EXCEPT !.state = "verifying", !.expires = Never]
            /\ Goto("code")
            /\ UNCHANGED <<lease, records>>
    /\ UNCHANGED <<clock, life, maintaining, attempt, lock, sms, source, causes, boots, texts>>

RecoveryTimer ==
    /\ recovery.state \in {"starting", "awaiting_code"} /\ clock >= recovery.expires
    /\ End("expired") /\ run' = Abort(run)
    /\ UNCHANGED <<clock, life, maintaining, attempt, lock, sms, source, causes, boots, texts>>

\* DELETE.  Repeated, it aborts the collection of the moment, whoever started that.
Cancel(id) ==
    /\ Open /\ recovery.id = id /\ (IsLive \/ recovery.state = "canceled")
    /\ End("canceled") /\ run' = Abort(run)
    /\ UNCHANGED <<clock, life, maintaining, attempt, lock, sms, source, causes, boots, texts>>

-----------------------------------------------------------------------------
(* Session renewal, and a login from the command line. *)

\* Renewal does not look whether a collection is under way.
WrongMaintain ==
    /\ life = "up" /\ ~maintaining /\ lock = None
    /\ maintaining' = TRUE /\ lock' = "server"
    /\ UNCHANGED <<clock, life, run, attempt, recovery, lease, records, sms, source, causes, boots, texts>>

\* A busy profile or a session known to be expired leaves everything as it is.
Maintain ==
    /\ life = "up" /\ ~Running /\ ~maintaining /\ lock = None
    /\ maintaining' = TRUE /\ lock' = "server"
    /\ UNCHANGED <<clock, life, run, attempt, recovery, lease, records, sms, source, causes, boots, texts>>

MaintainEnds ==
    /\ maintaining
    /\ maintaining' = FALSE /\ lock' = None
    /\ UNCHANGED <<clock, life, run, attempt, recovery, lease, records, sms, source, causes, boots, texts>>

\* A login from the command line, in a process of its own, takes the profile.
CommandTakesProfile ==
    /\ lock = None
    /\ lock' = "command"
    /\ UNCHANGED <<clock, life, run, maintaining, attempt, recovery, lease, records, sms, source,
                   causes, boots, texts>>

\* The code is to come from the receiver; a code typed by the operator does not count.
CommandSendsSms ==
    /\ lock = "command" /\ Automatic /\ Allowed /\ MoreCauses
    /\ Consume
    /\ texts' = Append(texts, [at |-> clock, cause |-> Cause("command")])
    /\ UNCHANGED <<clock, life, run, maintaining, attempt, recovery, lease, lock, records, source, boots>>

\* The command returns, or its process dies with the lock directory still there.
CommandEnds ==
    /\ lock = "command"
    /\ lock' \in {None, "stale"}
    /\ UNCHANGED <<clock, life, run, maintaining, attempt, recovery, lease, records, sms, source,
                   causes, boots, texts>>

\* The operator removes the lock directory of a dead process.
ClearLock ==
    /\ lock = "stale"
    /\ Release
    /\ UNCHANGED <<clock, life, run, maintaining, attempt, recovery, lease, records, sms, source,
                   causes, boots, texts>>

-----------------------------------------------------------------------------
(* The process. *)

Boot ==
    /\ life = "down" /\ boots < MaxBoots
    /\ life' = "up" /\ boots' = boots + 1
    /\ UNCHANGED <<clock, run, maintaining, attempt, recovery, lease, disk, causes, texts>>

\* stop: the occurrence is dropped, the collection aborted, the recovery canceled.
StopAll ==
    /\ attempt' = NoAttempt
    /\ run' = Abort(run)
    /\ End("canceled")

Stop ==
    /\ life = "up"
    /\ life' = "stopped"
    /\ StopAll
    /\ UNCHANGED <<clock, maintaining, lock, sms, source, causes, boots, texts>>

\* close, once the web server has closed or its time of grace is over.
Close ==
    /\ life = "stopped"
    /\ life' = "closing"
    /\ StopAll
    /\ UNCHANGED <<clock, maintaining, lock, sms, source, causes, boots, texts>>

Forget ==
    /\ life' = "down"
    /\ run' = NoRun /\ maintaining' = FALSE /\ attempt' = NoAttempt
    /\ recovery' = NoRecovery /\ lease' = FALSE

\* The database closes when nothing uses it any more.
Exit ==
    /\ life = "closing" /\ ~Running /\ ~maintaining
    /\ Forget
    /\ UNCHANGED <<clock, disk, causes, boots, texts>>

\* The lock directory of an open browser survives.
Die ==
    /\ life # "down"
    /\ Forget
    /\ lock' = IF lock = "server" THEN "stale" ELSE lock
    /\ UNCHANGED <<clock, records, sms, source, causes, boots, texts>>

Tick ==
    /\ clock < MaxClock
    /\ clock' = clock + 1
    /\ UNCHANGED <<life, run, maintaining, attempt, recovery, lease, disk, causes, boots, texts>>

Next ==
    \/ Cron \/ AttemptTimer \/ Refresh
    \/ \E id \in Requests : StartRecovery(id) \/ Submit(id) \/ Cancel(id)
    \/ CollectionStep \/ RecoveryTimer
    \/ Maintain \/ MaintainEnds
    \/ CommandTakesProfile \/ CommandSendsSms \/ CommandEnds \/ ClearLock
    \/ Boot \/ Stop \/ Close \/ Exit \/ Die \/ Tick

\* Browsers are closed by their own timeouts, timers fire, time passes.
Fairness ==
    /\ WF_vars(CollectionStep) /\ WF_vars(MaintainEnds) /\ WF_vars(AttemptTimer)
    /\ WF_vars(RecoveryTimer) /\ WF_vars(Tick)

Spec == Init /\ [][Next]_vars /\ Fairness

-----------------------------------------------------------------------------
(* Properties. *)

Times == 0 .. MaxClock
Causes == [kind : {None, "cron", "refresh", "recovery", "command"}, n : 0 .. MaxCauses,
           request : Requests \cup {None}, asked : Times \cup {Never}]
Stages == {None, "waiting", "collecting", "expired", "login", "reserved", "sent", "awaiting",
           "code", "verified", "recollecting"}

\* The types of the variables.  A recovery has a deadline exactly while it has no code: one that
\* keeps it could expire with the code already entered.
TypeOK ==
    /\ clock \in Times
    /\ life \in {"up", "stopped", "closing", "down"}
    /\ lock \in {None, "server", "command", "stale"}
    /\ run \in [stage : Stages, cause : Causes, aborted : BOOLEAN, reserved : Times \cup {Never}]
    /\ maintaining \in BOOLEAN
    /\ attempt \in [cause : Causes, deadline : Times \cup {Never}, due : Times \cup {Never}]
    /\ recovery.id \in Requests \cup {None}
    /\ recovery.state \in {None, "starting", "awaiting_code", "verifying"} \cup Outcomes
    /\ IF recovery.state \in {"starting", "awaiting_code"} THEN recovery.expires \in Nat
       ELSE recovery.expires = Never
    /\ lease \in BOOLEAN
    /\ records \in [Requests -> [state : {None, "interrupted"} \cup Outcomes,
                                 createdAt : Times \cup {Never}]]
    /\ sms \subseteq [at : Times, place : 0 .. SmsLimit - 1] /\ Cardinality(sms) <= SmsLimit
    /\ source \in {"ok", "failing"}
    /\ causes \in 0 .. MaxCauses /\ boots \in 0 .. MaxBoots
    /\ \A i \in DOMAIN texts : texts[i] \in [at : Times, cause : Causes]

\* Within a rolling day at most SmsLimit SMS are asked for, by the schedule, the consumers, the
\* recoveries and the commands together, whatever process dies in between: the allowance is on
\* disk before the click (consumeAutomaticSmsAttempt).  One occurrence, with all its retries, asks
\* for one at most, and so does one recovery id for a day, however often the request is repeated:
\* a busy profile after the login ends the occurrence, the tombstone precedes the login and stays.
SmsAllowance ==
    /\ \A i \in DOMAIN texts :
          Cardinality({j \in DOMAIN texts : texts[j].at \in texts[i].at - Day + 1 .. texts[i].at}) <= SmsLimit
    /\ \A i, j \in DOMAIN texts :
          i < j => /\ texts[i].cause.n # texts[j].cause.n
                   /\ texts[i].cause.request # None /\ texts[i].cause.request = texts[j].cause.request
                          => texts[j].cause.asked > texts[i].cause.asked + Day

\* A collection never meets its own process at the profile: it waits for a renewal, renewals keep
\* away from it, and every way out of a collection releases the profile.
NeverInItsOwnWay ==
    /\ lock = "server" <=> InBrowser \/ maintaining
    /\ maintaining => run.stage \in {None, "waiting"}

\* The lease is held exactly while a recovery is live, and its collection is then under way: a
\* lease left behind would refuse every later collection until the process is restarted.
LeaseHasItsCollection ==
    /\ lease <=> IsLive
    /\ lease => IsManual /\ run.cause.request = recovery.id

\* What a recovery came to is decided once.  Deadline, cancellation, shutdown and the end of the
\* collection may all come within one step of each other, and the late ones change neither the
\* status nor the saved record; only the record that says "interrupted" is ever overwritten.  And a
\* collection that was aborted stores no health and asks for no SMS (a command may), although its
\* browser still has to close.
SettledOnce ==
    [][/\ recovery'.id = recovery.id /\ recovery.state \in Outcomes
            => recovery'.state = recovery.state
       /\ \A id \in Requests :
            records[id].state \in Outcomes => records'[id] = records[id] \/ records'[id] = NoRecord
       /\ run.aborted => source' = source /\ (texts' = texts \/ lock = "command")]_vars

\* What a consumer is promised of a recovery (Recovery.tla), although collections, timers,
\* cancellations, restarts and other causes of SMS interleave with it: each id gets its one SMS
\* while it is starting, is told to enter a code only after that, completes with its code or
\* without any SMS, and does not expire with its code accepted.
SmsOfRecoveries == {j \in DOMAIN texts : texts[j].cause.kind = "recovery"}
Saved == [id \in Requests |-> records[id].state]
Sent == IsLive /\ \E j \in DOMAIN texts : texts[j].cause.n = run.cause.n
Promise == INSTANCE Recovery WITH
    current <- recovery.id, status <- recovery.state, sent <- Sent, saved <- Saved,
    messages <- Cardinality(SmsOfRecoveries)
ImplementsRecovery == Promise!Spec

\* An occurrence is done with or given up, and later ones get their turn, although the profile may
\* stay locked for good; and a recovery settles, although its consumer may never send a code.
EverythingEnds ==
    /\ attempt # NoAttempt ~> attempt = NoAttempt
    /\ lease ~> ~lease

=============================================================================
