--------------------------- MODULE ScrapeScheduler ---------------------------
(***************************************************************************)
(* The bank scrape scheduler: src/scrape/scheduler.ts, with the operator   *)
(* commands of src/cli.ts that write the same rows and the health report   *)
(* of src/health.ts.                                                       *)
(*                                                                         *)
(* A process (the server with its cron, or a CLI invocation) walks the     *)
(* enabled companies one after another.  For each it copies the company's  *)
(* row of source_states, waits for 1Password, applies the guards, writes   *)
(* the row, waits for the bank, and writes the row again from its copy.    *)
(* Everything between two waits is synchronous, hence one action, except   *)
(* that a process can die between two ledger writes.                       *)
(*                                                                         *)
(* Time is counted in hours; -1 (Never) is an absent timestamp.  Code that *)
(* waits for nothing takes no time.  Error messages, run records and the   *)
(* earliest scraped date are write-only for the scheduler and are left out. *)
(***************************************************************************)
EXTENDS Integers, Sequences

CONSTANTS
    CompanyOrder,           \* the enabled companies, in config order
    Processes,              \* processes that may call runNow on one ledger
    Server,                 \* the process whose runs are triggered by cron
    Fingerprints,           \* fingerprints of the credentials 1Password may hold
    NoFingerprint,          \* a company that has never resolved credentials
    MaxLoginAttemptsPerDay, \* config.maxLoginAttemptsPerDay
    DayLength,              \* hours in a calendar day
    OverlapHours,           \* config.overlapDays
    LookbackHours,          \* DEFAULT_LOOKBACK_DAYS
    ConfigStart,            \* ConfigStart[c]: the company's startDate, or Never
    StaleHours,             \* config.staleHours
    RunHours,               \* the longest a run takes: timeoutMinutes and the resolver's own timeout
    ManualBounds,           \* the --from and --backfill-from dates an operator may give
    ExclusiveRuns,          \* TRUE: the operator stops the service before a manual run
    MaxClock                \* bound on the clock, for model checking

Companies == {CompanyOrder[i] : i \in DOMAIN CompanyOrder}
Never == -1
Time == Nat \cup {Never}

ASSUME CompaniesAssumption == CompanyOrder \in Seq(Companies)
ASSUME ProcessesAssumption == Server \in Processes
ASSUME FingerprintAssumption == NoFingerprint \notin Fingerprints
ASSUME NumbersAssumption ==
    /\ MaxLoginAttemptsPerDay \in Nat \ {0} /\ DayLength \in Nat \ {0}
    /\ OverlapHours \in Nat /\ LookbackHours \in Nat /\ StaleHours \in Nat
    /\ RunHours \in Nat \ {0} /\ MaxClock \in Nat /\ ManualBounds \subseteq Nat
    /\ ConfigStart \in [Companies -> Time] /\ ExclusiveRuns \in BOOLEAN
\* src/config.ts: an overlap of at least one day, a timeout of at most two hours.
ASSUME OverlapAssumption == RunHours <= OverlapHours

VARIABLES
    clock,      \* hours since the model's epoch
    vault,      \* vault[c]: fingerprint of the credentials 1Password holds
    db,         \* db[c]: the source_states row of c
    dataAt,     \* dataAt[c]: when rows of c were last committed to the ledger
    pc,         \* pc[p]: where process p is; "idle" is `running = false`
    todo,       \* todo[p]: companies runNow of p has still to visit
    cur,        \* cur[p]: the company runOne of p is working on
    opts,       \* opts[p]: the RunNowOptions of p's run
    mem,        \* mem[p]: p's in-memory copy of the row (the `state` local)
    startedAt,  \* startedAt[p]: when runOne of p began
    windowStart,\* windowStart[p]: lower bound of the scrape p waits for
    \* Observation only: no action reads these.
    logins,     \* logins[c]: logins begun today since the operator last cleared the counter
    rejected,   \* rejected[c]: fingerprint the bank refused and nobody has cleared since
    covered     \* covered[c]: the latest moment a run asked for c's rows up to and stored them

vars == <<clock, vault, db, dataAt, pc, todo, cur, opts, mem, startedAt, windowStart,
          logins, rejected, covered>>
procVars == <<pc, todo, cur, opts, mem, startedAt, windowStart>>
ghosts == <<logins, rejected, covered>>

BackoffHours == <<1, 3>>
CalendarDate(t) == t \div DayLength

\* Past the end of BackoffHours every count behaves alike, so the counter stops there.
MaxFailures == Len(BackoffHours) + 1

SourceState == [lastSuccessAt : Time, consecutiveFailures : 0..MaxFailures, parked : BOOLEAN,
                credentialFingerprint : Fingerprints \cup {NoFingerprint},
                nextAllowedAt : Time, loginAttemptsDate : Time, loginAttempts : Nat]
RunOptions == [force : BOOLEAN, bound : Time, backfill : BOOLEAN]

DefaultSourceState ==
    [lastSuccessAt |-> Never, consecutiveFailures |-> 0, parked |-> FALSE,
     credentialFingerprint |-> NoFingerprint, nextAllowedAt |-> Never,
     loginAttemptsDate |-> Never, loginAttempts |-> 0]

CronOptions    == [force |-> FALSE, bound |-> Never, backfill |-> FALSE]
ConfirmOptions == [force |-> TRUE, bound |-> Never, backfill |-> FALSE]

-----------------------------------------------------------------------------
(* The row as the scheduler transforms it.  An operator named Wrong... is the faulty variant *)
(* of the definition that follows it; it belongs to no specification and is what the         *)
(* properties are tested against.                                                            *)

Unparked(s) == [s EXCEPT !.parked = FALSE, !.nextAllowedAt = Never, !.consecutiveFailures = 0]

\* guard, first part: a changed credential tuple lifts the parking.
WithFingerprint(s, fp) ==
    LET changed == s.parked /\ s.credentialFingerprint # NoFingerprint
                            /\ s.credentialFingerprint # fp
    IN  [(IF changed THEN Unparked(s) ELSE s) EXCEPT !.credentialFingerprint = fp]

IsHeldBack(s, force, t) == ~force /\ (s.parked \/ s.nextAllowedAt > t)

\* guard, second part: the attempt counter belongs to a calendar day.
WithToday(s, t) ==
    IF s.loginAttemptsDate = CalendarDate(t) THEN s
    ELSE [s EXCEPT !.loginAttemptsDate = CalendarDate(t), !.loginAttempts = 0]

WrongFailureUnparks(s, parking, t) ==
    [s EXCEPT !.parked = parking, !.nextAllowedAt = IF parking THEN Never ELSE t + 1]

Failed(s, parking, t) ==
    LET n == IF s.consecutiveFailures = MaxFailures THEN MaxFailures ELSE s.consecutiveFailures + 1
    IN  IF parking
        THEN [s EXCEPT !.consecutiveFailures = n, !.parked = TRUE, !.nextAllowedAt = Never]
        ELSE [s EXCEPT !.consecutiveFailures = n,
                       !.nextAllowedAt = IF n <= Len(BackoffHours) THEN t + BackoffHours[n] ELSE Never]

Succeeded(s, t) ==
    [s EXCEPT !.lastSuccessAt = t, !.consecutiveFailures = 0, !.nextAllowedAt = Never]

WrongNoOverlap(c, s, o, t) == IF s.lastSuccessAt = Never THEN t - LookbackHours ELSE s.lastSuccessAt

\* The latest of the configured start, the overlap start and the operator's bound;
\* a year back when there is none.
WindowStart(c, s, o, t) ==
    LET overlap == IF o.backfill \/ s.lastSuccessAt = Never THEN {} ELSE {s.lastSuccessAt - OverlapHours}
        bounds  == overlap \cup ({ConfigStart[c], o.bound} \ {Never})
    IN  IF bounds = {} THEN t - LookbackHours
        ELSE CHOOSE x \in bounds : \A y \in bounds : y <= x

-----------------------------------------------------------------------------
Init ==
    /\ clock = 0
    /\ vault \in [Companies -> Fingerprints]
    /\ db = [c \in Companies |-> DefaultSourceState]
    /\ dataAt = [c \in Companies |-> Never]
    /\ pc = [p \in Processes |-> "idle"]
    /\ todo = [p \in Processes |-> <<>>]
    /\ cur \in [Processes -> Companies]
    /\ opts = [p \in Processes |-> CronOptions]
    /\ mem = [p \in Processes |-> DefaultSourceState]
    /\ startedAt = [p \in Processes |-> 0]
    /\ windowStart = [p \in Processes |-> 0]
    /\ logins = [c \in Companies |-> 0]
    /\ rejected = [c \in Companies |-> NoFingerprint]
    /\ covered = [c \in Companies |-> Never]

\* runNow: refused (an empty result, no change) while the process is already running.
\* With ExclusiveRuns nobody starts a run beside another process's run.
StartRun(p, companies, o) ==
    /\ \A q \in Processes : q = p \/ ExclusiveRuns => pc[q] = "idle"
    /\ pc' = [pc EXCEPT ![p] = "next"]
    /\ todo' = [todo EXCEPT ![p] = companies]
    /\ opts' = [opts EXCEPT ![p] = o]
    /\ UNCHANGED <<clock, vault, db, dataAt, cur, mem, startedAt, windowStart, ghosts>>

CronTrigger == StartRun(Server, CompanyOrder, CronOptions)

\* `bridge scrape [company] [--from | --backfill-from] [--force]`; a backfill needs one company.
CliScrape(p) ==
    /\ p # Server
    /\ \E o \in [force : BOOLEAN, bound : ManualBounds \cup {Never}, backfill : BOOLEAN] :
        /\ o.bound = Never => ~o.backfill
        /\ \/ ~o.backfill /\ StartRun(p, CompanyOrder, o)
           \/ \E c \in Companies : StartRun(p, <<c>>, o)

BeginCompany(p) ==
    /\ pc[p] = "next" /\ todo[p] # <<>>
    /\ pc' = [pc EXCEPT ![p] = "resolving"]
    /\ cur' = [cur EXCEPT ![p] = Head(todo[p])]
    /\ todo' = [todo EXCEPT ![p] = Tail(todo[p])]
    /\ mem' = [mem EXCEPT ![p] = db[Head(todo[p])]]
    /\ startedAt' = [startedAt EXCEPT ![p] = clock]
    /\ UNCHANGED <<clock, vault, db, dataAt, opts, windowStart, ghosts>>

\* runOne is left: its locals go out of scope.
ForgetLocals(p) ==
    /\ mem' = [mem EXCEPT ![p] = DefaultSourceState]
    /\ startedAt' = [startedAt EXCEPT ![p] = 0]
    /\ windowStart' = [windowStart EXCEPT ![p] = 0]

\* The company of p is done and its row is written: runOne returns, runNow goes on.
WriteRowAndReturn(p, row) ==
    /\ db' = [db EXCEPT ![cur[p]] = row]
    /\ pc' = [pc EXCEPT ![p] = "next"]
    /\ ForgetLocals(p)

ResolveFails(p) ==
    /\ pc[p] = "resolving"
    /\ WriteRowAndReturn(p, Failed(mem[p], FALSE, clock))
    /\ UNCHANGED <<clock, vault, dataAt, todo, cur, opts, ghosts>>

\* A credential the bank refused stops counting as such once another one is presented.
NoteFingerprint(c, fp) ==
    rejected' = [rejected EXCEPT ![c] = IF rejected[c] = fp THEN fp ELSE NoFingerprint]

SkipRun(p) ==
    LET s == WithFingerprint(mem[p], vault[cur[p]]) IN
    /\ pc[p] = "resolving"
    /\ \/ /\ IsHeldBack(s, opts[p].force, clock)
          /\ WriteRowAndReturn(p, s)
       \/ /\ ~IsHeldBack(s, opts[p].force, clock)
          /\ WithToday(s, clock).loginAttempts >= MaxLoginAttemptsPerDay
          /\ WriteRowAndReturn(p, WithToday(s, clock))
    /\ NoteFingerprint(cur[p], vault[cur[p]])
    /\ UNCHANGED <<clock, vault, dataAt, todo, cur, opts, logins, covered>>

\* Counted in memory only.
WrongBeginLogin(p) ==
    LET s   == WithToday(WithFingerprint(mem[p], vault[cur[p]]), clock) IN
    /\ pc[p] = "resolving"
    /\ ~IsHeldBack(s, opts[p].force, clock)
    /\ s.loginAttempts < MaxLoginAttemptsPerDay
    /\ mem' = [mem EXCEPT ![p] = [s EXCEPT !.loginAttempts = s.loginAttempts + 1]]
    /\ pc' = [pc EXCEPT ![p] = "scraping"]
    /\ windowStart' = [windowStart EXCEPT ![p] = WindowStart(cur[p], s, opts[p], startedAt[p])]
    /\ logins' = [logins EXCEPT ![cur[p]] = logins[cur[p]] + 1]
    /\ UNCHANGED <<clock, vault, db, dataAt, todo, cur, opts, startedAt, rejected, covered>>

\* The attempt is counted and persisted before the bank is contacted.
BeginLogin(p) ==
    LET s   == WithToday(WithFingerprint(mem[p], vault[cur[p]]), clock)
        row == [s EXCEPT !.loginAttempts = s.loginAttempts + 1]
    IN
    /\ pc[p] = "resolving"
    /\ ~IsHeldBack(s, opts[p].force, clock)
    /\ s.loginAttempts < MaxLoginAttemptsPerDay
    /\ mem' = [mem EXCEPT ![p] = row]
    /\ db' = [db EXCEPT ![cur[p]] = row]
    /\ pc' = [pc EXCEPT ![p] = "scraping"]
    /\ windowStart' = [windowStart EXCEPT ![p] = WindowStart(cur[p], row, opts[p], startedAt[p])]
    /\ logins' = [logins EXCEPT ![cur[p]] = logins[cur[p]] + 1]
    /\ NoteFingerprint(cur[p], vault[cur[p]])
    /\ UNCHANGED <<clock, vault, dataAt, todo, cur, opts, startedAt, covered>>

ScrapeFails(p, parking) ==
    /\ pc[p] = "scraping"
    /\ WriteRowAndReturn(p, Failed(mem[p], parking, clock))
    /\ rejected' = IF parking
                   THEN [rejected EXCEPT ![cur[p]] = mem[p].credentialFingerprint]
                   ELSE rejected
    /\ UNCHANGED <<clock, vault, dataAt, todo, cur, opts, logins, covered>>

\* The state row is written before the data.
WrongCommitRows(p) ==
    /\ pc[p] = "scraping"
    /\ pc' = [pc EXCEPT ![p] = "persisting"]
    /\ db' = [db EXCEPT ![cur[p]] = Succeeded(mem[p], clock)]
    /\ UNCHANGED <<clock, vault, dataAt, todo, cur, opts, mem, startedAt, windowStart, ghosts>>

\* applySuccess up to the state update: accounts, transactions and holdings are committed.
CommitRows(p) ==
    LET c == cur[p] IN
    /\ pc[p] = "scraping"
    /\ pc' = [pc EXCEPT ![p] = "persisting"]
    /\ dataAt' = [dataAt EXCEPT ![c] = clock]
    /\ covered' = [covered EXCEPT ![c] = IF startedAt[p] > @ THEN startedAt[p] ELSE @]
    /\ UNCHANGED <<clock, vault, db, todo, cur, opts, mem, startedAt, windowStart, logins, rejected>>

\* The rest of applySuccess and the final row write.
CommitSuccess(p) ==
    /\ pc[p] = "persisting"
    /\ WriteRowAndReturn(p, Succeeded(mem[p], clock))
    /\ UNCHANGED <<clock, vault, dataAt, todo, cur, opts, ghosts>>

\* The run is over: only what it wrote to the ledger stays.
LeaveRun(p) ==
    /\ pc' = [pc EXCEPT ![p] = "idle"]
    /\ todo' = [todo EXCEPT ![p] = <<>>]
    /\ opts' = [opts EXCEPT ![p] = CronOptions]
    /\ ForgetLocals(p)
    /\ UNCHANGED <<clock, vault, db, dataAt, cur, ghosts>>

EndRun(p) == pc[p] = "next" /\ todo[p] = <<>> /\ LeaveRun(p)

\* A throw past runNow's finally.
WrongAbandonRun(p) ==
    /\ pc[p] # "idle"
    /\ pc' = [pc EXCEPT ![p] = "thrown"]
    /\ UNCHANGED <<clock, vault, db, dataAt, todo, cur, opts, mem, startedAt, windowStart, ghosts>>

\* A throw of the ledger leaves runNow through its finally, or the process dies (and may be
\* started again): the other companies are not visited.
AbandonRun(p) == pc[p] # "idle" /\ LeaveRun(p)

\* `bridge unpark`, in a process of its own, at any moment.
Unpark(c) ==
    /\ db' = [db EXCEPT ![c] = [Unparked(db[c]) EXCEPT !.loginAttempts = 0]]
    /\ logins' = [logins EXCEPT ![c] = 0]
    /\ rejected' = [rejected EXCEPT ![c] = NoFingerprint]
    /\ UNCHANGED <<clock, vault, dataAt, procVars, covered>>

\* The end of `bridge login`: unparkCompany, then a forced run of the company.
ConfirmLogin(p, c) ==
    /\ p # Server
    /\ \A q \in Processes : q = p \/ ExclusiveRuns => pc[q] = "idle"
    /\ db' = [db EXCEPT ![c] = [Unparked(db[c]) EXCEPT !.loginAttempts = 0]]
    /\ logins' = [logins EXCEPT ![c] = 0]
    /\ rejected' = [rejected EXCEPT ![c] = NoFingerprint]
    /\ pc' = [pc EXCEPT ![p] = "next"]
    /\ todo' = [todo EXCEPT ![p] = <<c>>]
    /\ opts' = [opts EXCEPT ![p] = ConfirmOptions]
    /\ UNCHANGED <<clock, vault, dataAt, cur, mem, startedAt, windowStart, covered>>

ChangeCredentials(c) ==
    /\ \E fp \in Fingerprints : vault' = [vault EXCEPT ![c] = fp]
    /\ UNCHANGED <<clock, db, dataAt, procVars, ghosts>>

\* An hour passes: for a process that is idle or waits, and no wait outlives its deadline.
Tick ==
    /\ clock < MaxClock
    /\ \A p \in Processes :
          \/ pc[p] = "idle"
          \/ pc[p] \in {"resolving", "scraping"} /\ clock < startedAt[p] + RunHours
    /\ clock' = clock + 1
    /\ logins' = IF CalendarDate(clock + 1) = CalendarDate(clock) THEN logins
                 ELSE [c \in Companies |-> 0]
    /\ UNCHANGED <<vault, db, dataAt, procVars, rejected, covered>>

RunStep(p) ==
    \/ BeginCompany(p) \/ ResolveFails(p) \/ SkipRun(p) \/ BeginLogin(p)
    \/ \E parking \in BOOLEAN : ScrapeFails(p, parking)
    \/ CommitRows(p) \/ CommitSuccess(p) \/ EndRun(p)

Next ==
    \/ CronTrigger
    \/ \E p \in Processes : CliScrape(p) \/ RunStep(p) \/ AbandonRun(p)
    \/ \E c \in Companies : Unpark(c) \/ ChangeCredentials(c)
    \/ \E p \in Processes, c \in Companies : ConfirmLogin(p, c)
    \/ Tick

Spec == Init /\ [][Next]_vars

\* The steps of runOne for c, given that 1Password answers.
Fetch(p)     == SkipRun(p) \/ BeginLogin(p)
Outcome(p)   == CommitRows(p) \/ \E parking \in BOOLEAN : ScrapeFails(p, parking)

\* Every wait of a run ends: the resolver and the scrape have deadlines, the rest is synchronous.
\* The cron slot comes round again, 1Password is not down for ever, and a server that is
\* restarted is not killed, nor thrown out of its run, at the same place every time.
FairSpec ==
    /\ Spec
    /\ \A p \in Processes : WF_vars(RunStep(p))
    /\ SF_vars(CronTrigger)
    /\ \A c \in Companies :
          /\ SF_vars(BeginCompany(Server) /\ Head(todo[Server]) = c)
          /\ SF_vars(Fetch(Server) /\ cur[Server] = c)
          /\ SF_vars(Outcome(Server) /\ cur[Server] = c)
          /\ SF_vars(CommitSuccess(Server) /\ cur[Server] = c)

-----------------------------------------------------------------------------
(* Properties. *)

TypeOK ==
    /\ clock \in Nat
    /\ vault \in [Companies -> Fingerprints]
    /\ db \in [Companies -> SourceState]
    /\ dataAt \in [Companies -> Time]
    /\ pc \in [Processes -> {"idle", "next", "resolving", "scraping", "persisting"}]
    /\ todo \in [Processes -> Seq(Companies)]
    /\ cur \in [Processes -> Companies]
    /\ opts \in [Processes -> RunOptions]
    /\ mem \in [Processes -> SourceState]
    /\ startedAt \in [Processes -> Nat]
    /\ windowStart \in [Processes -> Int]
    /\ logins \in [Companies -> Nat]
    /\ rejected \in [Companies -> Fingerprints \cup {NoFingerprint}]
    /\ covered \in [Companies -> Time]

\* The bank-lockout guard: whatever crashes, midnights, forced runs and unparks happen in
\* between, a company sees at most maxLoginAttemptsPerDay logins a day (the operator's own
\* clearing of the counter starts the count again).  runOne counts before it logs in.
LoginCap == \A c \in Companies : logins[c] <= MaxLoginAttemptsPerDay

\* What makes LoginCap inductive: the ledger row and the copy a run still works on both
\* count at least today's logins, whichever of the two is written last.
CountsLogins(row, c) ==
    IF row.loginAttemptsDate = CalendarDate(clock) THEN logins[c] <= row.loginAttempts
    ELSE logins[c] = 0

InRunOne(p) == pc[p] \in {"resolving", "scraping", "persisting"}
OneRunAtATime == \A p, q \in Processes : pc[p] # "idle" /\ pc[q] # "idle" => p = q
CountsAreKept ==
    /\ OneRunAtATime
    /\ \A c \in Companies : CountsLogins(db[c], c)
    /\ \A p \in Processes : InRunOne(p) => CountsLogins(mem[p], cur[p])

\* A credential tuple the bank refused is not presented again by an unforced run until
\* another tuple was resolved or the operator unparked: the row that says so survives every
\* failure, success, skip and crash in between.
RejectedCredentialsNotRetried ==
    [][\A p \in Processes :
          /\ pc[p] = "resolving" /\ pc'[p] = "scraping" /\ ~opts[p].force
          => rejected[cur[p]] # vault[cur[p]]]_vars

\* health.ts: enabled, not parked, a success within staleHours.
Healthy(c) ==
    /\ ~db[c].parked
    /\ db[c].lastSuccessAt # Never /\ clock - db[c].lastSuccessAt <= StaleHours

\* /healthz never vouches for a company whose rows were last committed longer ago than
\* staleHours: the state row is written after the data, so a crash in between errs to stale.
HealthyMeansFreshData ==
    \A c \in Companies : Healthy(c) => dataAt[c] # Never /\ clock - dataAt[c] <= StaleHours

\* The days a scrape asks for join those the ledger has: after failed, crashed and skipped
\* runs, and runs that overlap, an incremental run leaves no day out between them.  What does
\* leave days out, and for good, since later windows start from the success, is a bound of the
\* operator (--from) later than them and, with no startDate, the default look-back of a company
\* whose stored rows were never recorded as a success.  The days before startDate are not wanted.
WindowJoins(p) == windowStart[p] <= covered[cur[p]]
WindowIsGiven(p) == windowStart[p] \in {ConfigStart[cur[p]], opts[p].bound} \ {Never}
WindowIsDefault(p) ==
    mem[p].lastSuccessAt = Never /\ windowStart[p] = startedAt[p] - LookbackHours

OnlyNarrowedRunsLeaveGaps ==
    \A p \in Processes :
        pc[p] = "scraping" => WindowJoins(p) \/ WindowIsGiven(p) \/ WindowIsDefault(p)

\* Once 1Password keeps other credentials than those a company was parked with, the company
\* is unparked, whatever copy of its row a run in flight still writes back.
ChangedCredentialsUnpark ==
    \A c \in Companies, f \in Fingerprints :
        (db[c].parked /\ db[c].credentialFingerprint # f /\ [](vault[c] = f)) ~> ~db[c].parked

=============================================================================
