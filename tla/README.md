# Formal specifications of the Israeli banks → SimpleFIN bridge

TLA+ modules for the parts of the bridge whose correctness depends on the order
of steps: scraping under a lockout guard, handing secrets to consumers, feeding
transactions to a consumer that polls, paying card statements, taking SMS codes
from a phone, and collecting, renewing and storing investments.
TLC checks them on small instances; TLAPS proves the safety properties of every passing run
for all constants. Paths below are relative to the repository.

    tlc -workers 2 -config MCScrapeScheduler_core.cfg MCScrapeScheduler
    tlapm ScrapeSchedulerProofs.tla

`PROJECT.json` lists the runs, the source lines of every definition, the hazards
and the theorems. An operator `Wrong...` is a plausible bug of the definition
that follows it; no specification uses it. Each property of a passing run is
violated when one such operator takes the place of the right one.

## Inventory

| component | state it keeps | operations | talks to | module |
|---|---|---|---|---|
| scrape scheduler (`src/scrape/scheduler.ts`, `dates.ts`), health (`health.ts`) | `source_states` row per company, `running` flag per process | `runNow`, `runOne`, cron, `unparkCompany` | 1Password, runner, ledger | ScrapeScheduler |
| scrape runner (`src/scrape/runner.ts`), assisted login (`login.ts`) | Chrome, its profile directory, display helpers | one scrape under a deadline; a login by the operator, then a forced run | scraper library, scheduler | ScrapeRunner |
| ids, normalisation (`src/ids.ts`, `normalize.ts`), ledger (`src/ledger/*.ts`), payload (`src/simplefin/payload.ts`) | SQLite tables, also opened by CLI processes | fingerprint, order, ordinal; upserts; windowed `GET /accounts` | all | TransactionFeed |
| archive instalments (`ledger/archive-installments.ts`), synthetic payments (`scrape/synthetic.ts`) | aliases and evidence of rows, `synthetic_payments` | match, alias, repair; one card payment per charge date | ledger | CardLedger, CardStatement |
| consumers (`src/simplefin/consumers.ts`, `claim.ts`, `app.ts`, `auth.ts`) | `consumers` table | mint, rotate, revoke, claim, authenticate, sweep | ledger, CLI | Consumers |
| SMS receiver (`tools/google-messages-otp`), OTP client (`src/investments/otp.ts`, `login.ts`) | one lease, seen and delivered messages | arm, wait, delete, phone events | phone, investment logins | OtpBroker |
| investment runtime (`runtime.ts`, `manual-recovery.ts`, `recovery.ts`, `control.ts`) | `running`, `maintaining`, recovery lease, SMS allowance | cron, refresh, recovery, session maintenance, stop | store, collectors | InvestmentRuntime, Recovery |
| investment store (`store.ts`, `schema.ts`) | products, records, revisions, `source_state`, `session_state` | apply a snapshot, record a failure, seed an archive | runtime, commands | InvestmentStore |
| portal readers (`src/investments/**`) | Chrome, saved session, captured responses | log in, restore, read, parse | portals | BestInvestSession, BestInvestSnapshot, ClalReader, ClalHistory, HapoalimRead |
| process life (`src/serve.ts`, `cli.ts`, `config.ts`) | — | start, sweep, listen, shutdown | all | in the modules above |
| secrets (`src/secrets/onepassword.ts`), CSV export | cache; none | resolve; print | 1Password | — |

Where the difficulty is:

- **Rows copied across an `await`.** The scheduler and the HTTP handlers read a
  whole row, wait (1Password, the bank, scrypt) and write the whole row back.
  CLI commands write the same rows from another process.
- **Processes that die.** Ledger writes of one scrape are separate statements.
- **Promises that are abandoned, not stopped.** When a deadline wins a race, the
  scraper library, a portal read or a collection goes on by itself.
- **A bank that changes its mind.** Rows are published late, pending rows post
  or vanish, two purchases can be indistinguishable, an archive and the portal
  know one instalment under two ids.
- **Results written late.** A collection gives its profile back before it writes, so
  an older observation can reach the store after a newer one.
- **Polling consumers.** A row has to be inside the right window once.
- **One browser, many who want it.** Schedule, retries, consumers, session renewal, commands and
  shutdown meet at one profile, one collection, one recovery and one SMS allowance.
- **A shared receiver.** Two logins, repeated phone events, late deletions and a
  lock that is released while the phone is asked.

What makes each part correct:

- *scheduler*: at most `maxLoginAttemptsPerDay` logins, no retry of refused
  credentials, no hole in the scraped days but where a run was narrowed, no false "healthy";
- *runner and login*: one Chrome per process and profile, none left behind but late ones, a request for
  a code never taken for a passing failure, no confirmation of a login that was not completed;
- *consumers*: a bounded number of claims, secrets that work, no plain secret left behind;
- *feed*: nothing missed, doubled or resurrected;
- *cards*: one payment per statement, whole, never computed again; one row per instalment of the
  portal, whatever archives are imported;
- *receiver*: one code, once, to the right login, and no login that waits for ever;
- *investment runtime*: at most one SMS for one cause and two a day, no lock or lease left
  behind, a recovery decided once;
- *store*: nothing lost, nothing overwritten by older news, no failure shown that a later success
  overtook, and a session status that is true;
- *readers*: what is called complete is, and the profile and the session survive failures.

## Modules

### ScrapeScheduler

Translates `runNow`/`runOne`/`guard`/`applySuccess`/`applyFailure` with `unpark`
and the end of `bridge login`. `db[c]` is the row in SQLite, `mem[p]` the copy
(`state`) process `p` works on, `pc[p]` the `await` it is at: *next* (between
companies), *resolving* (1Password), *scraping* (the bank), *persisting* (between
the data and the row). What runs between two awaits is one action. Processes may
die anywhere (`AbandonRun` is also the throw that leaves `runNow` through its
`finally`). Operator commands and credential changes are enabled at any moment.
Time is in hours; a wait cannot outlive its deadline (`RunHours`), code that waits
for nothing takes none. `ExclusiveRuns` says whether the operator stops the service
before running a scrape by hand. Results of the bank are a choice: data, a parking
error or another one.

The window is the code's: the latest of last success minus overlap, `startDate` and the
operator's bound, or the default look-back when there is none of them. `covered[c]` and
`logins[c]` are observations. `logins[c]` counts logins since midnight or since the
operator cleared the counter.

### Consumers

One consumer's row. Each request is two actions, read and write, because
`scryptSync` runs in between and `updateConsumer` writes every column; a CLI command
(mint, rotate, revoke) is two as well. The server handles one request at a time
(synchronous handlers), so one server task and one command overlap. A secret and a
claim id are the number of the mint that made them.

### TransactionFeed

One account: bank → scrape → ids → account row → transaction rows → company state →
consumer. Each of the writes is an action, a crash or failure may come between any two
(`Abandon`). The bank may show a transaction on any day, a hold may post or be dropped.
`Kind` stands for everything a fingerprint takes from a transaction but its date; what
matters is which transactions look alike. The consumer asks for `lastSync - Rewind`
until tomorrow. Calendar days are the unit: timestamps of different scrapes of one day
compare as equal, and a scrape is committed within a day of its timestamp.

### OtpBroker

The Go broker, the receiver that feeds it and the TypeScript client. A critical section
of `broker.mu` is an action. `arm` is two sections with the phone check between them;
`wait` loops through *waiting* (about to look), *sleeping* (on the channel that was
current when it looked; `woken` holds those whose channel has been closed) and back to
*armed* after a 202. A sender lookup is a message in `lookups` until the goroutine calls
`accept`. `deletes` are DELETEs on their way: late, reordered or lost. `Restart` keeps what
is on disk. Timestamps come from the phone, at most `Skew` ahead. Templates and sender
lists are abstracted to `ProviderOf`. A message whose sender is named in the event goes
through `candidateRule` and `accept` in one action; the longer gap is the lookup's.

### Recovery and InvestmentRuntime

Recovery is what `docs/manual-recovery.md` has a consumer rely on, as `manual-recovery.ts` and the
tombstones of `store.ts` keep it: an id is asked for (`Ask`), gets one SMS at most while it is starting
(`SendSms`), is told to enter a code only after that (`RequireCode`), and settles once: with its code or
without any SMS it completes, and with its code accepted it does not expire. A known id asks for nothing,
and a restart forgets everything but what is saved. It has no clock, browser, schedule or other process.
`ImplementsRecovery` maps the runtime to it (`INSTANCE Recovery WITH`): the id and the state are those of
`recovery`, `saved` is the state of each record, `messages` counts the SMS of recoveries in `texts`, and `sent`
says that the live recovery's collection is the cause of one of them.

InvestmentRuntime is the code: one provider's `createInvestmentRuntime` with `createManualRecovery`, the login and retry of
`createClalRecoveryCollector` and the lock directory of `acquireClalProfile`. `run` is the collection
under way (`running`, its controller and who asked for it); its stage is the `await` it is at: *waiting*
for a renewal, *collecting*, *expired* (about to log in), *login*, *reserved*, *sent*, *awaiting* the
code, *code* entered, *verified* (about to collect again), *recollecting*. Other parts of the process act
between any two stages; an aborted collection keeps its stage until its browser has closed
(`Abandon`). `attempt` is `scheduledCollection`. `generation` is left out: a stop clears `attempt` and
aborts the collection in the same step, and nothing is scheduled again in that process. A timer may
fire late, as the deadline check in `submit` expects. `lock` has an owner ("stale" after a death);
`bridge clal-login` is another process. `causes` numbers whoever asked for a collection or an SMS, so
that `texts`, an observation, can say for whom each SMS was. An SMS counts at the time its
allowance was taken; the stored list of those times is the set `sms` of entries, each with its place in the
list, since two can be of one moment. The persistent limit of control requests can only refuse, so it is left
out; so are the session record (a renewal may or may not open the browser) and `clal-sync`.

### ScrapeRunner

One company's Chrome profile and every process that opens it: the service, commands, and `bridge login`
(`LoginProcess`). A process keeps its own runs apart (`Idle`, the `running` of `runNow`) and knows nothing of
the others: `runCompany` and the login remove the profile's locks before they launch, so any two processes
may each have a Chrome on it. The operator's rule of one at a time (`docs/operations.md:6,71`) is not
assumed. A process that is stopped is left out; its browsers go with it.

A run is a race: `stage` is where `runCompany` is (*racing*, *killing* Chrome
after the deadline, *collecting* investments, *closing*, *done*), `lib` where the library's promise
is. Once the deadline has won the promise is only abandoned, so `lib` goes on: a browser may still be
launched (`late`). `form` records that the page asked for a one-time code. With `shared` (Hapoalim with
investments) the runner launches the browser itself and lends it to the securities read; a late one is only
closed (`lib` is *closing*), which takes up to the grace period of `killBrowser`, beside the next run.
`login` is `bridge login` with its three display helpers, up to the forced confirmation run of the same
process. What parks and unparks a company (a completed login, `bridge unpark`, changed credentials) is in
ScrapeScheduler; here any run may begin.

### CardStatement and CardLedger

CardStatement is the promise: occurrences once stored stay stored, once billed stay billed, by one row unless an
archived row that has a statement date is one of the occurrence's rows, and a statement gets one payment, of the
rows that bill on it by then, never computed again. CardLedger is the code: portal
rows and archived rows under different ids (`Matches`, `Canonical`), `applySuccess` in its three
transactions (`phase`: rows, payments one by one, payment rows), an archive import and its reviewed
repair, a crash between any two steps. An archived row in `Dated` comes with its statement date, as those of
Sure do (`docs/operations.md:212-215`), the others without. `ImplementsStatement` maps rows of either kind to their
occurrence (`INSTANCE CardStatement WITH`). The bank posts an occurrence on any day up to
`MaxLate` after its charge date, and a hold first shows as pending.

### InvestmentStore

The database of one provider (Clal, Best Invest or Hapoalim), where each method is a transaction and so a step,
and the collections, renewals and logins of two processes that write it. `attempt[p].at` is `observedAt`,
noted at the beginning; the profile is released (`Release`) before the result is written, so writes
arrive in any order. `stored`, `settled` and `checks` are observations: every content ever
stored, every attempt recorded, every session check.

### The portal readers

Five modules without shared state; `Portals` runs each alone, with the variables of the others *absent*.

- **BestInvestSession**: the lease on the profile, native Chrome and its kill, the saved session, and the
  one login by SMS a collector may fall back on.
- **BestInvestSnapshot**, **ClalHistory**: pure parsers as state machines over the inputs that the constants
  `Inventories` and `Histories` hold, any of the shape of the portal's answers (`Policy`, `Details`), with
  `Missing` for a field that is not there. Each is held against a separate statement of what a complete
  snapshot, a deposit history or a report balance is. `MCPortals` has the inputs of the run.
- **ClalReader**: navigation, checkpoints and responses that arrive in any order while the portal changes.
- **HapoalimRead**: the boot of the trading app and a paged history whose cursor shifts when a trade
  comes in, under a deadline.

### Proof modules

`ScrapeSchedulerProofs`, `ConsumersProofs`, `TransactionFeedProofs`, `OtpBrokerProofs`,
`InvestmentRuntimeProofs`, `InvestmentStoreProofs` and `CardLedgerProofs` each extend the module they
are named for, and hold its inductive invariants, the lemmas and the theorems. `BrowserProofs` does so
for ScrapeRunner and for Portals, whose constants, variables and `ReadersSpec` have names of their own for it.

## Runs

| run | question | result |
|---|---|---|
| `scheduler_core` | daily login cap, refused credentials, health, gaps between scrape windows, one run at a time | holds |
| `scheduler_live` | changed credentials unpark a company, which needs runs that end | holds |
| `consumers` | claim budget, secrets that work, sweeps, an open claim that stays open | holds |
| `feed` | nothing missed, doubled or resurrected | holds |
| `feed_twins` | the same with a hold that looks like a posted purchase | violated |
| `card_ledger` | CardStatement is implemented, dated archives included; instalments stay single, payments are whole | holds |
| `card_payment_lost` | a payment on record has its row | violated |
| `otp` | one code once, clear answers, reservation, silence after a failure for good, wake-ups, reads that end | holds |
| `runtime` | SMS allowance, profile, lease, one outcome, Recovery is implemented, everything ends | holds |
| `investment_store` | nothing lost or overwritten, no false alarm, a true session, a standing archive | holds |
| `scrape_runner` | one Chrome per process, none left but late ones, no form missed, no confirmation before its login is over, everything goes | holds |
| `portals` | complete reports are, the profile is leased, one SMS as a last resort, runs end well | holds |

The findings contradict a sentence of the repository, which they quote. Two are violated runs:

- **`feed_twins`**: ordinals are given over one scrape's rows in order of charge date, and a
  hold has none, so it takes the base id of a purchase already stored.
- **`card_payment_lost`**: the payment is recorded in `synthetic_payments` in one transaction and its
  row written in a later one. A crash in between leaves a charge date that counts as paid for ever
  and shows no payment.

The third is a property that holds, `OpenClaimStaysOpen` of the run `consumers`, where two texts say the
opposite: `bridge mint-token` prints "at most N claims, none after the first authenticated sync"
(`cli.ts:249`), and `scripts/generate-schema.ts:71` describes `maxClaims` as "(until the first successful
authenticated GET)". The code keeps an open claim open (`touchConsumer`, `app.ts:65-79`), and
`docs/securo-simplefin-contract.md:42,70` asks for it: a connect that is rolled back after its first `GET`
must be able to claim again.

Other observations were met while modelling. The models include the behaviour, and no property
excludes it:

- An unpark of another process between the read and the write of a row is undone by the stale row
  (`scheduler.ts:280-295`; `types.ts:256` and `README.md:239` have it effective at once).
- Two processes that scrape at once exceed the login cap, because the counter lives in the copied
  row. `README.md:54` runs `bridge scrape` beside the service; `docs/architecture.md` has the service
  stopped first. With the latter (`ExclusiveRuns`) the cap is proved.
- A request that read a consumer before a rotation or revocation writes the old row back.
- A later `--from` leaves days out for good: a run from a bound after what the ledger has counts as a success
  like any other, and later windows start from it (`scheduler.ts:130-131,237`). So does the default
  look-back, where no `startDate` is set, of a company whose rows were stored by a run that died before the
  state row, when no run follows for longer than the look-back. `OnlyNarrowedRunsLeaveGaps` says that no
  window leaves a gap but these.
- Two processes may have a Chrome on one profile at once: the guard is one process's (`scheduler.ts:341`),
  `README.md:54` runs `bridge scrape` beside the service, and `clearStaleLocks` (`profile.ts:22-26`) removes
  the locks of a live Chrome with the stale ones, which `docs/operations.md:369` says is not done "while a
  live process owns them". `OneChrome` is a claim about each process.
- A browser launched after its run's deadline survives the run (`runner.ts:233`; `docs/architecture.md`
  has the browser killed): the library's own goes on and logs in, a shared one is there while it launches
  and until it is closed, up to 5 s (`runner.ts:207-219`). Either may meet the next run on the profile.
  `OnlyLateOnesSurvive` says that no other survives.
- An archived row with a statement date bills its statement next to the portal row of the same
  occurrence, or next to its row in another archive: `sumByChargeDate` (`synthetic.ts:33-47`) adds both up. To
  leave such rows out of the import is the operator's review (`docs/operations.md:216-230`).
- A snapshot sets the last attempt of Clal and Best Invest back to its own time (`store.ts:445-448`), so a
  newer failure is forgotten: one that began at 1 and is recorded before the snapshot of 0 is applied leaves
  the status "ok" with no error. Hapoalim discards such a snapshot. `NoFalseAlarm` therefore has this direction
  for Hapoalim alone.
- A page of Best Invest that still holds the rejected session ends the wait for the new one at once: the read
  fails again, and the SMS was for nothing. `SmsIsTheLastResort` allows it.
- A repeated `DELETE` of a canceled recovery aborts whatever collection is under way
  (`manual-recovery.ts:141`), and an occurrence of the schedule aborted that way is not retried.
- A failed phone check of one login takes the broker offline and drops a lease given meanwhile
  (`broker.go:264`); `ReservationKept` counts it as a disconnect.
- A throw of the ledger in one company abandons the companies after it (`scheduler.ts:357`).
- Shutdown closes the ledger without waiting for a scrape that is running (`serve.ts:201`).

### Bounds

- *Scheduler*: one company, the server and a CLI process, two credential tuples, a cap of 2
  (1 for liveness), days of 2 hours, clock to 4: two midnights, a run across one of them, a
  backoff that outlasts a day, failures past the last backoff step. Companies share nothing but
  the walk and the flag; the theorems are for any number of them. Credential tuples are
  symmetric (not in the liveness run, whose clock goes to 1).
- *Consumers*: 2 claims per token, 3 mints, TTL of 2 sweeps, clock to 4: a rotation overtaken
  by a request and overtaken again, expiry with the server up and down.
- *Feed*: three transactions over four days: two that look alike and one hold, so that ordinals,
  late publication, the overlap edge and a dropped hold meet. Charge dating, which reorders rows,
  is the mode of `feed`; its look-alikes share a purchase day.
- *Cards*: two statements: a partial first one of a purchase before the first window and one in it, and
  a whole one of a purchase and an instalment that is held first and archived twice. Amounts
  are different powers of two, so that no two bills add up to the same. Six days: a posting a
  day after its charge date, a run across midnight, a second statement settled. One of the two archived rows
  has its statement date, so that a bill can have an instalment twice.
- *Receiver*: two logins, two messages to one provider, two leases, one fault, one lookup slot
  and two remembered messages, clock to 2 with leases of 1 and clocks a unit apart: an
  expiry and a second lease, a message stamped for either, two rivals, a message
  redelivered after a restart. A third message, which fills the memory (`IsFull`), is beyond TLC next to
  the liveness check; the theorems have any number.
- *Investment runtime*: one recovery id, two causes and two starts, an allowance of one SMS in two time
  units, a retry delay and deadline of 1, a window of 2, clock to 3: an SMS refused and allowed
  again, a retry and a window that ends, a deadline that passes at every stage, a death and the
  same request again. That an old tombstone makes room (`ReserveRecord`) takes a second id and is not
  in the instance. Deadlocks are not checked: the service may be shut down for good.
- *Store*: two processes, three collections, one date, report, execution and archived value with two
  amounts, clock to 2: two writes that arrive in the wrong order, with a third before, between or after
  them, for each provider. Processes and amounts are symmetric.
- *Runner*: two processes, the service and the login's, with two runs between them: two runs of the service,
  of which the first is late in the second, or one of each process at a time.
- *Readers*: two collectors of two runs each over two logins; three policies of which any may
  change twice; four executions on three pages, one more than fits; for the parsers
  (`MCPortals`) a policy or a block that varies next to one that is fine, with up to two rows of each kind,
  amounts of 0, 1 and 2, and every field present, missing or wrong.
- `MaxClock`, `MaxDay`, `MaxLate`, `MaxMints`, `MaxLeases`, `MaxFaults`, `MaxCauses`, `MaxBoots`, `MaxAttempts`,
  `MaxRuns`, `MaxCollections`, `MaxSessions`, `MaxPolicies`, `MaxChanges` and `MaxRows` bound the instances, nothing in the
  code; reaching one stops time or new work, not the actions under way. `MaxPages` and
  `Capacity` are limits of the code.

### Fairness

- *Scheduler*: weak fairness of a run's steps, since 1Password and the scrape have deadlines and the
  rest is synchronous code. Strong fairness of the cron trigger (the slot returns) and of each stage
  for a company: 1Password is not down for ever and the service is not killed at the same
  point every time. A company whose predecessors throw in every run is excluded by this;
  it is listed as a hazard.
- *Receiver*: weak fairness of time, of a client that polls again after a 202 and of the server's
  goroutines and timer. Nothing of the phone, the bank, or deletions.
- *Investment runtime*: weak fairness of a collection's steps and of a renewal's end, because
  `withClalBrowser` closes every browser by a timer, of the two timers and of time. Nothing of the
  consumer, the operator or other processes: the profile may stay locked for ever.
- *Runner*: weak fairness of launches and of the library's end, which have timeouts, of the deadline and
  the operator's cap, which are timers, and of what the runner has begun. Nothing of the page or of
  Chrome's death.

## Theorems

Proved with TLAPS, for all constants that satisfy the named assumptions of the modules.

| theorem | says | inductive invariant |
|---|---|---|
| *ScrapeScheduler* `TypeCorrect` | every row, copy and counter has its type | `TypeOK` |
| `LoginCapHolds` | `LoginCap`, if runs exclude each other | `LoginInv`: `TypeOK`, `CountsAreKept`, `LoginCap` |
| `RejectedTuplesRest` | `RejectedCredentialsNotRetried`, if runs exclude each other | `LoginInv`, `RejectionOK` |
| `HealthIsHonest` | `HealthyMeansFreshData`, with any number of processes at once | `TypeOK`, `FreshOK` |
| `GapsAreOfNarrowedRuns` | `OnlyNarrowedRunsLeaveGaps`, with any number of processes at once and any look-back | `CoverageInv`: `Reaches`, `WindowOK`, `InTime` |
| *Consumers* `ClaimBudgetHolds`, `SecretsAgree` | a token answers at most `MaxClaims` times; handed secrets match the hash and spent claims hold none | `ConsumersInv`: `TypeOK`, `CopiesAgree`, `ClaimBudget` |
| `ExpiredSecretsGo` | `ExpiredSecretsSwept`, for any TTL and sweep interval | `ConsumersInv`, `SweepInv` |
| `ClaimsStayOpen` | `OpenClaimStaysOpen` | `ConsumersInv`, `Uncounted` |
| *TransactionFeed* `FeedTypeCorrect`, `VanishedPendingStaysHidden` | rows are well formed; a vanished hold is not served | `FeedInv` |
| `SyncMissesNothing`, `PurchaseModeMissesNothing` | after a sync the consumer holds every posted row, if look-alikes share a purchase day; in the default mode without that | `FeedInv`, `WindowInv` |
| `LookAlikesAreStoredOnce` | `StoredOnce`, if look-alikes share a purchase day and holds look like nothing else | `FeedInv`, `OnceInv`: `BatchWhole`, `OrdinalsOK` |
| *CardLedger* `LedgerImplementsStatement` | the refinement, for archived rows with and without a statement date | `CInv`: `BankOK`, `RowsOK`, `BilledOnce`, `BatchOK` |
| `ArchivedInstalmentsStaySingle` | `NoNewTwin` | `CInv` |
| `BillsArePaidInFull` | `PaidInFull`, if a statement is settled two days or more after its charge date | `PaidInv`: `CInv`, `TypeOK`, `WindowsOK`, `PaymentsOK`, `BillsOK` |
| *OtpBroker* `TypesHold`, `CodesAreAnsweredOnce`, `AnswersAreClearHolds`, `ReservationsAreKept`, `NoLostWakeups` | all safety properties of the run | `OtpInv`: `TypeOK`, `LeaseOK`, `HolderOK`, `HandedOK`, `SleepersMissNothing` |
| *InvestmentRuntime* `LeaseIsNeverStuck`, `ProfileIsReleased` | a lease has its live recovery and collection; the server holds the lock exactly while it has a browser | `IInv`: types, both properties, `InStep`, `GoneIsGone` |
| `RecoveriesSettleOnce` | the first outcome of a recovery stays, in memory and on disk; an aborted collection is silent | `IInv`, `Tombstoned` |
| `AllowanceIsKept` | `SmsAllowance`: within the limit in every day, and one SMS at most for one cause | `AllowanceInv`: `IInv`, `Tombstoned`, `BooksOK`, `CausesOK`, `RecoveriesOK` |
| `PromiseIsKept` | the refinement of Recovery | `AllowanceInv`, `StagesOK` |
| *InvestmentStore* `StoredIsKept`, `AlarmsAreNotFalse`, `SessionHonestHolds`, `RowsNeverGoBack`, `ArchiveStandsHolds` | all properties of the run | `StoreInv`: `ClockOK`, `DataOK`, `SourceOK`, `SessionOK` |
| *ScrapeRunner* `OneChromeHolds`, `OnlyLateOnesSurviveHolds`, `OtpIsNeverMissed`, `LoginsConfirmWhenDone` | all safety properties of the run, for any number of processes | `RInv`: `TypeOK`, `RunsInOrder`, `RunOK`, `LoginOK` |
| *Portals* `OneChromeOnTheLease`, `OneSmsAsLastResort` | `ProfileIsLeased`, `SmsIsTheLastResort`, for any number of collectors of Best Invest | `SessionInv` |
| `ReadsEndWell` | `EndsWell` | `SessionInv`, `HapoalimInv` |
| `ReadersAreTrue` | `ReportsAreTrue`, for any inputs of the parsers and any policies, executions and pages | `PortalsInv`: `SessionInv`, `ParserInv`, `ClalInv`, `HistoryInv`, `HapoalimInv` |

Why the invariants are what they are:

- `LoginCap` alone is not inductive: the row and the copy could both have forgotten a login.
  `CountsAreKept` adds that whichever is written last counts at least today's logins, which needs one
  run at a time. `RejectionOK` says the same of the parking: while the bank's refusal stands, the row
  *and* the copy in flight are parked for that tuple, so that no late write can lift it.
- `FreshOK` needs no such thing: no row and no copy ever claims a success later than the last commit of
  its company's data, because the data are written first and no time passes before the row.
- `OnlyNarrowedRunsLeaveGaps` looks at a window while it is scraped. `CoverageInv` says of every row, of
  every copy of one and of every window in flight that it reaches back to what is covered, or is one of the
  narrowed ones, whoever commits meanwhile, and of a run that it is not older than `RunHours`.
- `ClaimBudget` needs the same for stale copies: a live row, in the ledger or in the server's hands,
  has counted at least the claims its token answered (`CopiesAgree`).
- `SweepInv`: a plain secret that is still in the row while the server listens was not due at the last
  sweep, which is at most an interval ago. `Uncounted`: neither the row nor a copy has counted a claim that
  was not answered, which with `CopiesAgree` makes the count exact, so that it is full only at the last use.
- `VanishedPendingHidden` compares an account row with transaction rows written later. `FeedInv` adds
  `ScrapeClock` (a scrape under way is stamped after the account's last one, at most a day ago) and
  `RowsNotAhead` (no row is newer than its account row).
- `WindowInv`: a posted row the consumer does not hold yet is either dated after its last sync or
  was first seen, or first seen posted, late enough to be inside the next window. `Rewind` of at
  least a day pays for a scrape whose timestamp precedes the sync it is committed after.
- `SyncMissesNothing` assumes `LookAlikesShareDay` because an id names a fingerprint, and with charge
  dating rows of several purchase days share one; a refresh may then move the date of a row.
- `StoredOnce` rests on ordinals: the posted rows of one fingerprint have the ordinals 1 to the number of
  look-alikes ever posted (`OrdinalsOK`), because a scrape reads all of them or none (`BatchWhole`). The first
  hypothesis of the theorem puts look-alikes in the same windows; what the second excludes is exactly
  the run `feed_twins`. `Ranks` is the lemma that ordinals number a set without gaps.
- The refinement of CardStatement has to show that `Sum(d)`, over rows, is the total over occurrences:
  `BilledOnce` says that no occurrence is billed by two rows but one with a dated archived row present
  (`Doubtful`); the number of rows that bill one is then part of the sum. That sums over sets agree when their
  members correspond one to one is induction over finite sets. It is proved without the induction theorem
  (which takes an operator): of the finite sets for which a formula fails, one is the least (`LeastSet`),
  and the sum over it is that of a smaller set and one member.
- `PaidInFull` is about payments made once and for all, so `WindowsOK` says before what day every row of a
  statement is in the ledger, `PaymentsOK` that only settled statements have a payment, and `BillsOK`
  that those paid have their whole sum. A payment of the day after the charge date would be too early: the
  property is false with `SettleDays = 1` and `OverlapDays = 3`. The code's `SETTLE_DAYS` is 2
  (`synthetic.ts:24`).
- A code is answered once because its message is on record, in memory and on disk, or too old for any
  lease there may ever be: `HandedOK` carries this besides what was true when the answer was given.
  `LeaseOK` says that the message in the lease qualified for it, and `HolderOK` that nobody else has a
  client's lease and that no deletion of it is under way.
- `LeaseHasItsCollection` is inductive only with `InStep`: an unaborted collection of a recovery has a live
  recovery that waits for a code exactly when the collection does, otherwise `Submit` could resume a
  collection at another stage, or the end of a collection could miss its recovery.
- `SmsAllowance` counts what was sent, and the code what it has written down. `BooksOK` says that for every
  window that may still matter the entries are at least the SMS sent and the one reserved, because an entry is
  dropped only when it is older than a day. `CausesOK` says that the cause of a collection
  that has not asked yet is in nobody's SMS, and `RecoveriesOK` that two recoveries with one id
  are more than a day apart.
- `Tombstoned` says that the record of a live recovery still reads "interrupted", so that the one write of
  an outcome overwrites no other outcome.
- The refinement of Recovery needs the state of a recovery at every stage of its collection, not only where it
  waits: `StagesOK` says that it is starting up to the SMS and verifying once the code is in, that a recovery
  still starting after the login has had no SMS, and that a deadline stands only before the code. Without
  the last, a second `POST` of an accepted code could expire it; without the others, a collection that comes to
  its end could complete a recovery whose code was never entered. That a step without an SMS leaves `sent` as it is
  follows from `CausesOK`: a live recovery keeps its collection and so its cause.
- `DataOK` relates the current content, the revisions and everything ever stored; `SourceOK` relates the
  state of the source to the latest success and the latest failure among all attempts recorded, in whatever
  order; `ClockOK` bounds the times of what is under way.
- `RunOK` relates the stage of a run, the library's promise and Chrome; `RunsInOrder` says that runs begin one
  after another and that a process has one active run at most, `LoginOK` that the login's only run is its
  confirmation.
- `SessionInv` ties the lease to the collection that is not idle and to any Chrome there is, and the stage of
  a collection to its SMS, its hold on the receiver and its session. `ClalInv` counts the details read against
  the cards of the list they belong to. `HapoalimInv` has what a shifting list leaves of a
  cursor: every execution that was there at the start and is listed above the place to be read next has
  been read (`ReadOK`). Executions come in at the top only, so what shifts past a cursor is read twice and never
  missed.

- `ParserInv` says of the products so far what the code says of one: as long as the snapshot is complete and
  valid, they are the products of the policies read, each of them fine (`Fine`), and their ids differ.
  That a fine policy reconciles (`FineIsReconciled`) takes sums: the tracks are a function of codes, and the sum
  over it is that of the rows that hold money (`TracksKeepTheSum`), so of all rows (`SumWithoutZeros`).
- `HistoryInv` says that the result is what one reading of the blocks and reports gives. The code adds up the
  rows of a person and a month; what is claimed is that the groups add up to the blocks' totals.
  `SumByClass` is the lemma: the sum over a set is the sum over its classes of their sums. It and
  its like go by the least counterexample (`LeastSet`), as above.

Only model-checked is liveness, which TLAPS does not do: `ChangedCredentialsUnpark`, `ReadEnds`,
`EverythingEnds`, `EverythingGoes`.

The hypotheses of the theorems hold in the instances that check their properties: runs exclude each other,
`SettleDays` is 2, and the feed's look-alikes share a purchase day. The assumptions on constants are named in the modules and evaluated by TLC in every run.
Most say that bounds are numbers and sets are finite, and `InputsAssumption` that the parsers' inputs
are of their types. `OverlapAssumption` (a run ends within the overlap),
`RewindAssumption` (consumers rewind further than a scrape takes to commit) and `CycleAssumption` (a statement
comes within a billing cycle) say how the code is set and used;
none states a fact about an operator.

## Limits

- The ledger never throws in Consumers; in ScrapeScheduler a throw abandons the run.
- ScrapeScheduler starts from an empty database and leaves out what is write-only for it (messages,
  run records, the earliest scraped date).
- A scheduler run forced to success does not clear `parked`, as in the code; the code parks on
  more errors than the three `docs/architecture.md` lists, so an error is "parking or not" here.
- TransactionFeed has one account and no archived rows, which are in CardLedger; CardLedger has no
  look-alikes and no charge dating, which are in TransactionFeed. With charge dating and look-alikes of
  different purchase days the overlap window can split them and shift ordinals; this instance is not
  among the runs.
- In OtpBroker pairing, sockets, file formats and matchers are left out, and a private write is one
  atomic replacement that may fail before or after it.
- Liveness of the logins is that of the model's single poll loop; the browser steps around it are
  in InvestmentRuntime and BestInvestSession, where the receiver is a code that comes or not.
- InvestmentRuntime has one provider and no control over what the collectors store but the health (what they
  store is InvestmentStore); the stop comes once and before the close, as in `serve.ts`.
- The kill of Chrome in ScrapeRunner works; BestInvestSession has one that does not.
- The parsers are modelled over amounts, dates and identities; texts, HTML and PDF are not.

Not modelled: the 1Password cache, a cache in front of an external service, whose answers and failures are
inputs; CSV export and the layout of the SimpleFIN payload, which format rows other modules have;
migrations and schema checks on formats; the PDF summaries of Clal; the checks of Hapoalim archive files
against each other; the assisted Clal login page; the rate limit of control requests, which can
only refuse; and the order of shutdown but for the investment runtime.

## Plan

What is left, most useful first:

1. Shutdown as a composition: the HTTP server, the cron task, a running scrape and the ledger.
2. A TransactionFeed with two accounts and archived rows, which would join it to CardLedger.
3. A promise of the receiver to a login (armed, one code or none, over) that OtpBroker implements, as
   Recovery is of the runtime to a consumer.
4. Theorems: `NothingMissed` with look-alikes of several purchase days, for which ids would have to be shown
   stable under charge dating.
