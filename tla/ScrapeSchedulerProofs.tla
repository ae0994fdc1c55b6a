------------------------ MODULE ScrapeSchedulerProofs ------------------------
(***************************************************************************)
(* Type correctness of ScrapeScheduler; that health tells the truth; and,  *)
(* for an operator who never runs two processes side by side, the daily    *)
(* cap on bank logins and the rest of refused credentials; and, while no   *)
(* run falls back on the default lookback, that no day is left out.        *)
(***************************************************************************)
EXTENDS ScrapeScheduler, TLAPS

LEMMA BackoffFacts ==
    /\ Len(BackoffHours) = 2 /\ MaxFailures = 3
    /\ BackoffHours[1] = 1 /\ BackoffHours[2] = 3
BY DEF BackoffHours, MaxFailures

LEMMA CalendarDateIsNat == ASSUME NEW t \in Nat PROVE CalendarDate(t) \in Nat
BY NumbersAssumption DEF CalendarDate

(* The operators on a row map rows to rows. *)
LEMMA UnparkedType == ASSUME NEW s \in SourceState PROVE Unparked(s) \in SourceState
<1>1. 0 \in 0..MaxFailures /\ Never \in Time
  BY BackoffFacts DEF Time
<1> QED BY <1>1 DEF Unparked, SourceState

LEMMA RowFacts ==
    ASSUME NEW s \in SourceState, NEW fp \in Fingerprints, NEW t \in Nat
    PROVE  /\ WithFingerprint(s, fp) \in SourceState
           /\ WithToday(s, t) \in SourceState
           /\ Succeeded(s, t) \in SourceState
           /\ \A parking \in BOOLEAN : Failed(s, parking, t) \in SourceState
<1>0. MaxFailures = 3 /\ 0 \in 0..MaxFailures
  BY BackoffFacts
<1>a. Never \in Time /\ t \in Time
  BY DEF Time
<1>2. WithFingerprint(s, fp) \in SourceState
  BY UnparkedType DEF WithFingerprint, SourceState
<1>3. WithToday(s, t) \in SourceState
  BY CalendarDateIsNat DEF WithToday, SourceState, Time
<1>4. Succeeded(s, t) \in SourceState
  BY <1>0, <1>a DEF Succeeded, SourceState
<1>5. ASSUME NEW parking \in BOOLEAN PROVE Failed(s, parking, t) \in SourceState
  <2> DEFINE n == IF s.consecutiveFailures = MaxFailures THEN MaxFailures ELSE s.consecutiveFailures + 1
  <2>1. n \in 1..MaxFailures /\ n \in 0..MaxFailures
    BY <1>0 DEF SourceState
  <2>2. n <= Len(BackoffHours) => t + BackoffHours[n] \in Time
    BY <1>0, <2>1, BackoffFacts DEF Time
  <2> HIDE DEF n
  <2>3. [s EXCEPT !.consecutiveFailures = n, !.parked = TRUE, !.nextAllowedAt = Never] \in SourceState
    BY <1>0, <2>1, <1>a DEF SourceState
  <2>4. ASSUME NEW x \in Time
        PROVE  [s EXCEPT !.consecutiveFailures = n, !.nextAllowedAt = x] \in SourceState
    BY <1>0, <2>1 DEF SourceState
  <2>5. (IF n <= Len(BackoffHours) THEN t + BackoffHours[n] ELSE Never) \in Time
    BY <2>2, <1>a
  <2> QED BY <2>3, <2>4, <2>5 DEF Failed, n
<1> QED BY <1>2, <1>3, <1>4, <1>5

(* The day's attempt count of a row survives everything but a new day. *)
LEMMA RowKeepsCount ==
    ASSUME NEW s \in SourceState, NEW fp, NEW t, NEW parking
    PROVE  \A r \in {WithFingerprint(s, fp), Succeeded(s, t), Failed(s, parking, t), Unparked(s)} :
              r.loginAttemptsDate = s.loginAttemptsDate /\ r.loginAttempts = s.loginAttempts
BY DEF WithFingerprint, Succeeded, Failed, Unparked, SourceState

(* A set of at most three integers has a latest one. *)
LEMMA LatestOfThree ==
    ASSUME NEW a \in Int, NEW b \in Int, NEW d \in Int,
           NEW B \in SUBSET {a, b, d}, B # {}
    PROVE  \E x \in B : \A y \in B : y <= x
<1>1. \A y \in B : y = a \/ y = b \/ y = d
  OBVIOUS
<1>2. CASE a \in B /\ (b \in B => b <= a) /\ (d \in B => d <= a)
  BY <1>1, <1>2
<1>3. CASE b \in B /\ (a \in B => a <= b) /\ (d \in B => d <= b)
  BY <1>1, <1>3
<1>4. CASE d \in B /\ (a \in B => a <= d) /\ (b \in B => b <= d)
  BY <1>1, <1>4
<1>5. a \in B \/ b \in B \/ d \in B
  BY <1>1
<1> QED BY <1>2, <1>3, <1>4, <1>5

LEMMA WindowStartIsInt ==
    ASSUME NEW c \in Companies, NEW s \in SourceState, NEW o \in RunOptions, NEW t \in Nat
    PROVE  WindowStart(c, s, o, t) \in Int
<1> DEFINE a == s.lastSuccessAt - OverlapHours
           b == ConfigStart[c]
           d == o.bound
           bounds == (IF o.backfill \/ s.lastSuccessAt = Never THEN {} ELSE {a}) \cup ({b, d} \ {Never})
<1>1. a \in Int /\ b \in Int /\ d \in Int /\ t - LookbackHours \in Int
  BY NumbersAssumption DEF SourceState, RunOptions, Time, Never
<1>2. bounds \in SUBSET {a, b, d}
  OBVIOUS
<1>3. WindowStart(c, s, o, t) =
          IF bounds = {} THEN t - LookbackHours ELSE CHOOSE x \in bounds : \A y \in bounds : y <= x
  BY DEF WindowStart
<1> HIDE DEF a, b, d, bounds
<1>4. bounds # {} => \E x \in bounds : \A y \in bounds : y <= x
  BY <1>1, <1>2, LatestOfThree
<1>5. bounds # {} => (CHOOSE x \in bounds : \A y \in bounds : y <= x) \in bounds
  BY <1>4
<1> QED BY <1>1, <1>2, <1>3, <1>5

-----------------------------------------------------------------------------
LEMMA DefaultRow == DefaultSourceState \in SourceState
<1>1. 0 \in 0..MaxFailures /\ Never \in Time
  BY BackoffFacts DEF Time
<1> QED BY <1>1 DEF DefaultSourceState, SourceState

LEMMA InitTypeOK == Init => TypeOK
<1>1. CronOptions \in RunOptions
  BY DEF CronOptions, RunOptions, Time
<1>2. <<>> \in Seq(Companies)
  OBVIOUS
<1> QED BY <1>1, <1>2, DefaultRow DEF Init, TypeOK, Time

LEMMA StartRunTypeOK ==
    ASSUME TypeOK, NEW p \in Processes, NEW companies \in Seq(Companies), NEW o \in RunOptions,
           StartRun(p, companies, o)
    PROVE  TypeOK'
BY DEF TypeOK, StartRun, ghosts

LEMMA ForgetLocalsType ==
    ASSUME TypeOK, NEW p \in Processes, ForgetLocals(p)
    PROVE  /\ mem' \in [Processes -> SourceState]
           /\ startedAt' \in [Processes -> Nat]
           /\ windowStart' \in [Processes -> Int]
BY DefaultRow DEF TypeOK, ForgetLocals

LEMMA WriteRowAndReturnType ==
    ASSUME TypeOK, NEW p \in Processes, NEW row \in SourceState, WriteRowAndReturn(p, row)
    PROVE  /\ db' \in [Companies -> SourceState]
           /\ pc' \in [Processes -> {"idle", "next", "resolving", "scraping", "persisting"}]
           /\ mem' \in [Processes -> SourceState]
           /\ startedAt' \in [Processes -> Nat]
           /\ windowStart' \in [Processes -> Int]
BY ForgetLocalsType DEF TypeOK, WriteRowAndReturn

(* Every process step keeps the types. *)
LEMMA RunStepTypeOK ==
    ASSUME TypeOK, NEW p \in Processes, RunStep(p)
    PROVE  TypeOK'
<1> DEFINE row == mem[p]
<1>1. row \in SourceState /\ cur[p] \in Companies /\ vault[cur[p]] \in Fingerprints /\ clock \in Nat
  BY DEF TypeOK
<1>2. CASE BeginCompany(p)
  <2>1. Head(todo[p]) \in Companies /\ Tail(todo[p]) \in Seq(Companies)
    BY <1>2 DEF BeginCompany, TypeOK
  <2> QED BY <1>2, <2>1 DEF BeginCompany, TypeOK, ghosts
<1>3. CASE ResolveFails(p)
  <2>1. Failed(row, FALSE, clock) \in SourceState
    BY <1>1, RowFacts
  <2>2. WriteRowAndReturn(p, Failed(row, FALSE, clock))
    BY <1>3 DEF ResolveFails
  <2> QED BY <1>3, <2>1, <2>2, WriteRowAndReturnType DEF ResolveFails, TypeOK, ghosts
<1>4. CASE SkipRun(p)
  <2> DEFINE s == WithFingerprint(row, vault[cur[p]])
  <2>1. s \in SourceState /\ WithToday(s, clock) \in SourceState
    BY <1>1, RowFacts
  <2>2. WriteRowAndReturn(p, s) \/ WriteRowAndReturn(p, WithToday(s, clock))
    BY <1>4 DEF SkipRun
  <2>3. rejected' \in [Companies -> Fingerprints \cup {NoFingerprint}]
    BY <1>1, <1>4 DEF SkipRun, NoteFingerprint, TypeOK
  <2> HIDE DEF s
  <2> QED BY <1>4, <2>1, <2>2, <2>3, WriteRowAndReturnType DEF SkipRun, TypeOK
<1>5. CASE BeginLogin(p)
  <2> DEFINE s == WithToday(WithFingerprint(row, vault[cur[p]]), clock)
             r == [s EXCEPT !.loginAttempts = s.loginAttempts + 1]
  <2>1. s \in SourceState
    BY <1>1, RowFacts
  <2> HIDE DEF s
  <2>2. r \in SourceState
    BY <2>1 DEF SourceState
  <2>3. /\ mem' = [mem EXCEPT ![p] = r]
        /\ db' = [db EXCEPT ![cur[p]] = r]
        /\ windowStart' = [windowStart EXCEPT ![p] = WindowStart(cur[p], r, opts[p], startedAt[p])]
    BY <1>5 DEF BeginLogin, s
  <2> HIDE DEF r
  <2>4. WindowStart(cur[p], r, opts[p], startedAt[p]) \in Int
    BY <2>2, WindowStartIsInt DEF TypeOK
  <2>5. rejected' \in [Companies -> Fingerprints \cup {NoFingerprint}]
    BY <1>1, <1>5 DEF BeginLogin, NoteFingerprint, TypeOK
  <2>6. logins' \in [Companies -> Nat]
    BY <1>1, <1>5 DEF BeginLogin, TypeOK
  <2>7. /\ pc' \in [Processes -> {"idle", "next", "resolving", "scraping", "persisting"}]
        /\ UNCHANGED <<clock, vault, dataAt, todo, cur, opts, startedAt, covered>>
    BY <1>5 DEF BeginLogin, TypeOK
  <2>8. /\ mem' \in [Processes -> SourceState] /\ db' \in [Companies -> SourceState]
        /\ windowStart' \in [Processes -> Int]
    BY <1>1, <2>2, <2>3, <2>4 DEF TypeOK
  <2> QED BY <2>5, <2>6, <2>7, <2>8 DEF TypeOK
<1>6. ASSUME NEW parking \in BOOLEAN, ScrapeFails(p, parking) PROVE TypeOK'
  <2>1. Failed(row, parking, clock) \in SourceState
    BY <1>1, RowFacts
  <2>2. WriteRowAndReturn(p, Failed(row, parking, clock))
    BY <1>6 DEF ScrapeFails
  <2>3. rejected' \in [Companies -> Fingerprints \cup {NoFingerprint}]
    BY <1>1, <1>6 DEF ScrapeFails, TypeOK, SourceState
  <2> QED BY <1>6, <2>1, <2>2, <2>3, WriteRowAndReturnType DEF ScrapeFails, TypeOK
<1>7. CASE CommitRows(p)
  BY <1>1, <1>7 DEF CommitRows, TypeOK, Time
<1>8. CASE CommitSuccess(p)
  <2>1. Succeeded(row, clock) \in SourceState
    BY <1>1, RowFacts
  <2>2. WriteRowAndReturn(p, Succeeded(row, clock))
    BY <1>8 DEF CommitSuccess
  <2> QED BY <1>8, <2>1, <2>2, WriteRowAndReturnType DEF CommitSuccess, TypeOK, ghosts
<1>9. CASE EndRun(p)
  <2>1. CronOptions \in RunOptions
    BY DEF CronOptions, RunOptions, Time
  <2> QED BY <1>9, <2>1, ForgetLocalsType DEF EndRun, LeaveRun, TypeOK, ghosts
<1> QED BY <1>2, <1>3, <1>4, <1>5, <1>6, <1>7, <1>8, <1>9, RunStep(p) DEF RunStep

LEMMA NextTypeOK == TypeOK /\ [Next]_vars => TypeOK'
<1> SUFFICES ASSUME TypeOK, [Next]_vars PROVE TypeOK'
  OBVIOUS
<1>1. CASE CronTrigger
  <2>1. CronOptions \in RunOptions
    BY DEF CronOptions, RunOptions, Time
  <2> QED BY <1>1, <2>1, StartRunTypeOK, CompaniesAssumption, ProcessesAssumption DEF CronTrigger
<1>2. ASSUME NEW p \in Processes, CliScrape(p) PROVE TypeOK'
  <2>1. PICK o \in [force : BOOLEAN, bound : ManualBounds \cup {Never}, backfill : BOOLEAN] :
           \/ StartRun(p, CompanyOrder, o)
           \/ \E c \in Companies : StartRun(p, <<c>>, o)
    BY <1>2 DEF CliScrape
  <2>2. o \in RunOptions
    BY NumbersAssumption DEF RunOptions, Time
  <2>3. \A c \in Companies : <<c>> \in Seq(Companies)
    OBVIOUS
  <2> QED BY <2>1, <2>2, <2>3, StartRunTypeOK, CompaniesAssumption
<1>3. ASSUME NEW p \in Processes, RunStep(p) PROVE TypeOK'
  BY <1>3, RunStepTypeOK
<1>4. ASSUME NEW p \in Processes, AbandonRun(p) PROVE TypeOK'
  <2>1. CronOptions \in RunOptions
    BY DEF CronOptions, RunOptions, Time
  <2> QED BY <1>4, <2>1, ForgetLocalsType DEF AbandonRun, LeaveRun, TypeOK, ghosts
<1>5. ASSUME NEW c \in Companies, Unpark(c) PROVE TypeOK'
  <2>1. Unparked(db[c]) \in SourceState
    BY UnparkedType DEF TypeOK
  <2>2. [Unparked(db[c]) EXCEPT !.loginAttempts = 0] \in SourceState
    BY <2>1 DEF SourceState
  <2> QED BY <1>5, <2>2 DEF Unpark, TypeOK, procVars
<1>6. ASSUME NEW p \in Processes, NEW c \in Companies, ConfirmLogin(p, c) PROVE TypeOK'
  <2>1. Unparked(db[c]) \in SourceState
    BY UnparkedType DEF TypeOK
  <2>2. [Unparked(db[c]) EXCEPT !.loginAttempts = 0] \in SourceState
    BY <2>1 DEF SourceState
  <2>3. ConfirmOptions \in RunOptions
    BY DEF ConfirmOptions, RunOptions, Time
  <2>4. <<c>> \in Seq(Companies)
    OBVIOUS
  <2> QED BY <1>6, <2>2, <2>3, <2>4 DEF ConfirmLogin, TypeOK
<1>7. ASSUME NEW c \in Companies, ChangeCredentials(c) PROVE TypeOK'
  BY <1>7 DEF ChangeCredentials, TypeOK, procVars, ghosts
<1>8. CASE Tick
  BY <1>8 DEF Tick, TypeOK, procVars
<1>9. CASE UNCHANGED vars
  BY <1>9 DEF vars, TypeOK
<1> QED BY <1>1, <1>2, <1>3, <1>4, <1>5, <1>6, <1>7, <1>8, <1>9 DEF Next

\* The variables hold what the code's types say, for any companies, processes and limits.
THEOREM TypeCorrect == Spec => []TypeOK
<1> QED BY InitTypeOK, NextTypeOK, PTL DEF Spec

-----------------------------------------------------------------------------
LoginInv == TypeOK /\ CountsAreKept /\ LoginCap

(* Writing a row that keeps the attempt count keeps the counts. *)
SameCount(r, s) == r.loginAttemptsDate = s.loginAttemptsDate /\ r.loginAttempts = s.loginAttempts

LEMMA RowKeepsLogins ==
    ASSUME TypeOK, NEW s \in SourceState, NEW c \in Companies, NEW fp, NEW parking,
           CountsLogins(s, c)
    PROVE  /\ \A r : SameCount(r, s) => CountsLogins(r, c)
           /\ CountsLogins(WithToday(s, clock), c)
           /\ WithToday(s, clock).loginAttemptsDate = CalendarDate(clock)
           /\ SameCount(WithFingerprint(s, fp), s)
           /\ SameCount(Succeeded(s, clock), s)
           /\ SameCount(Failed(s, parking, clock), s)
           /\ SameCount(Unparked(s), s)
<1>1. /\ CountsLogins(WithToday(s, clock), c)
      /\ WithToday(s, clock).loginAttemptsDate = CalendarDate(clock)
  BY DEF CountsLogins, WithToday, SourceState, TypeOK
<1> QED BY <1>1, RowKeepsCount DEF SameCount, CountsLogins

(* What a process that returns from runOne with a row of unchanged count leaves behind. *)
LEMMA ReturnKeepsCounts ==
    ASSUME LoginInv, NEW p \in Processes, pc[p] # "idle", InRunOne(p),
           NEW r, SameCount(r, mem[p]) \/ SameCount(r, WithToday(mem[p], clock)),
           WriteRowAndReturn(p, r), UNCHANGED <<clock, cur, logins>>
    PROVE  CountsAreKept' /\ LoginCap'
<1>1. cur[p] \in Companies /\ mem[p] \in SourceState /\ CountsLogins(mem[p], cur[p])
  BY DEF LoginInv, TypeOK, CountsAreKept
<1>2. CountsLogins(r, cur[p])
  <2>1. CountsLogins(WithToday(mem[p], clock), cur[p])
    BY <1>1, RowKeepsLogins DEF LoginInv
  <2> QED BY <1>1, <2>1 DEF SameCount, CountsLogins
<1>3. \A q \in Processes : q # p => pc[q] = "idle" /\ pc'[q] = "idle"
  BY DEF LoginInv, CountsAreKept, OneRunAtATime, WriteRowAndReturn, TypeOK
<1>4. pc'[p] = "next"
  BY DEF WriteRowAndReturn, LoginInv, TypeOK
<1>5. OneRunAtATime'
  BY <1>3 DEF OneRunAtATime
<1>6. \A c \in Companies : CountsLogins(db[c], c)'
  <2>1. \A c \in Companies : db'[c] = IF c = cur[p] THEN r ELSE db[c]
    BY DEF WriteRowAndReturn, LoginInv, TypeOK
  <2> QED BY <1>2, <2>1 DEF CountsLogins, LoginInv, CountsAreKept
<1>7. \A q \in Processes : ~InRunOne(q)'
  BY <1>3, <1>4 DEF InRunOne
<1> QED BY <1>5, <1>6, <1>7 DEF CountsAreKept, LoginCap, LoginInv

(* A step that leaves the rows, the copies and the counts alone and puts at most p to work. *)
LEMMA QuietStepKeepsCounts ==
    ASSUME LoginInv, TypeOK', NEW p \in Processes,
           \A q \in Processes : q # p => pc[q] = "idle" /\ pc'[q] = "idle",
           ~InRunOne(p)',
           \A c \in Companies : CountsLogins(db'[c], c),
           UNCHANGED clock,
           \A c \in Companies : logins'[c] = logins[c] \/ logins'[c] = 0
    PROVE  CountsAreKept' /\ LoginCap'
<1>1. OneRunAtATime'
  BY DEF OneRunAtATime
<1>2. \A q \in Processes : ~InRunOne(q)'
  BY DEF InRunOne
<1>3. \A c \in Companies : CountsLogins(db[c], c)'
  <2> SUFFICES ASSUME NEW c \in Companies PROVE CountsLogins(db[c], c)'
    OBVIOUS
  <2>1. db'[c].loginAttempts \in Nat
    BY DEF TypeOK, SourceState
  <2> QED BY <2>1 DEF CountsLogins
<1>4. LoginCap'
  BY NumbersAssumption DEF LoginCap, LoginInv
<1> QED BY <1>1, <1>2, <1>3, <1>4 DEF CountsAreKept

LEMMA LoginInvInductive ==
    ASSUME ExclusiveRuns
    PROVE  LoginInv /\ [Next]_vars => LoginInv'
<1> SUFFICES ASSUME LoginInv, [Next]_vars PROVE LoginInv'
  OBVIOUS
<1>1. TypeOK /\ TypeOK'
  BY NextTypeOK DEF LoginInv
<1> SUFFICES CountsAreKept' /\ LoginCap'
  BY <1>1 DEF LoginInv
<1>2. \A c \in Companies : CountsLogins(db[c], c)
  BY DEF LoginInv, CountsAreKept
<1>3. ASSUME NEW p \in Processes, pc[p] # "idle"
      PROVE  \A q \in Processes : q # p => pc[q] = "idle"
  BY <1>3 DEF LoginInv, CountsAreKept, OneRunAtATime
<1>4. ASSUME NEW p \in Processes, NEW companies, NEW o, StartRun(p, companies, o)
      PROVE  CountsAreKept' /\ LoginCap'
  <2>1. \A q \in Processes : q # p => pc[q] = "idle" /\ pc'[q] = "idle"
    BY <1>1, <1>4 DEF StartRun, TypeOK
  <2>2. ~InRunOne(p)'
    BY <1>1, <1>4 DEF StartRun, TypeOK, InRunOne
  <2> QED BY <1>1, <1>2, <1>4, <2>1, <2>2, QuietStepKeepsCounts DEF StartRun, ghosts
<1>5. ASSUME NEW p \in Processes, BeginCompany(p) PROVE CountsAreKept' /\ LoginCap'
  <2>1. Head(todo[p]) \in Companies
    BY <1>1, <1>5 DEF BeginCompany, TypeOK
  <2>2. \A q \in Processes : q # p => pc[q] = "idle" /\ pc'[q] = "idle"
    BY <1>1, <1>3, <1>5 DEF BeginCompany, TypeOK
  <2>3. CountsLogins(mem[p], cur[p])'
    BY <1>1, <1>2, <1>5, <2>1 DEF BeginCompany, TypeOK, CountsLogins, ghosts
  <2>4. \A q \in Processes : InRunOne(q)' => q = p
    BY <2>2 DEF InRunOne
  <2>5. (\A c \in Companies : CountsLogins(db[c], c))'
    BY <1>2, <1>5 DEF BeginCompany, CountsLogins, ghosts
  <2>6. OneRunAtATime'
    BY <2>2 DEF OneRunAtATime
  <2>7. LoginCap'
    BY <1>5 DEF BeginCompany, LoginCap, LoginInv, ghosts
  <2> QED BY <2>3, <2>4, <2>5, <2>6, <2>7 DEF CountsAreKept
<1>6. ASSUME NEW p \in Processes, ResolveFails(p) PROVE CountsAreKept' /\ LoginCap'
  <2> DEFINE r == Failed(mem[p], FALSE, clock)
  <2>1. mem[p] \in SourceState
    BY <1>1 DEF TypeOK
  <2>2. SameCount(r, mem[p])
    BY <2>1, RowKeepsCount DEF SameCount
  <2>3. WriteRowAndReturn(p, r) /\ UNCHANGED <<clock, cur, logins>> /\ pc[p] # "idle" /\ InRunOne(p)
    BY <1>6 DEF ResolveFails, InRunOne, ghosts
  <2> HIDE DEF r
  <2> QED BY <2>2, <2>3, ReturnKeepsCounts
<1>7. ASSUME NEW p \in Processes, SkipRun(p) PROVE CountsAreKept' /\ LoginCap'
  <2> DEFINE s == WithFingerprint(mem[p], vault[cur[p]])
  <2>1. SameCount(s, mem[p]) /\ SameCount(WithToday(s, clock), WithToday(mem[p], clock))
    <3>1. mem[p] \in SourceState /\ s \in SourceState
      BY <1>1, RowFacts DEF TypeOK
    <3>2. SameCount(s, mem[p])
      BY <3>1, RowKeepsCount DEF SameCount
    <3> HIDE DEF s
    <3>3. SameCount(WithToday(s, clock), WithToday(mem[p], clock))
      BY <3>1, <3>2 DEF SameCount, WithToday, SourceState
    <3> QED BY <3>2, <3>3
  <2>2. WriteRowAndReturn(p, s) \/ WriteRowAndReturn(p, WithToday(s, clock))
    BY <1>7 DEF SkipRun
  <2> HIDE DEF s
  <2> QED BY <1>7, <2>1, <2>2, ReturnKeepsCounts DEF SkipRun, InRunOne
<1>8. ASSUME NEW p \in Processes, BeginLogin(p) PROVE CountsAreKept' /\ LoginCap'
  <2> DEFINE s == WithToday(WithFingerprint(mem[p], vault[cur[p]]), clock)
             r == [s EXCEPT !.loginAttempts = s.loginAttempts + 1]
             c == cur[p]
  <2>1. c \in Companies /\ mem[p] \in SourceState /\ WithFingerprint(mem[p], vault[c]) \in SourceState
    BY <1>1, RowFacts DEF TypeOK
  <2>2. CountsLogins(mem[p], c)
    BY <1>8 DEF BeginLogin, LoginInv, CountsAreKept, InRunOne
  <2>3. CountsLogins(s, c) /\ s.loginAttemptsDate = CalendarDate(clock)
    <3>1. CountsLogins(WithFingerprint(mem[p], vault[c]), c)
      BY <1>1, <2>1, <2>2, RowKeepsLogins
    <3> QED BY <1>1, <2>1, <3>1, RowKeepsLogins
  <2>4. s \in SourceState
    BY <1>1, <2>1, RowFacts DEF TypeOK
  <2>5. /\ s.loginAttempts < MaxLoginAttemptsPerDay
        /\ mem' = [mem EXCEPT ![p] = r] /\ db' = [db EXCEPT ![c] = r]
        /\ logins' = [logins EXCEPT ![c] = logins[c] + 1]
        /\ pc' = [pc EXCEPT ![p] = "scraping"]
        /\ UNCHANGED <<clock, cur>>
        /\ pc[p] # "idle"
    BY <1>8 DEF BeginLogin
  <2> HIDE DEF s
  <2>6. /\ r.loginAttemptsDate = CalendarDate(clock) /\ r.loginAttempts = s.loginAttempts + 1
        /\ logins[c] <= s.loginAttempts
    BY <2>3, <2>4 DEF SourceState, CountsLogins
  <2> HIDE DEF r, c
  <2>7. /\ logins[c] \in Nat /\ s.loginAttempts \in Nat
        /\ \A x \in Companies : logins'[x] = IF x = c THEN logins[c] + 1 ELSE logins[x]
    BY <1>1, <2>1, <2>4, <2>5 DEF TypeOK, SourceState
  <2>8. LoginCap'
    BY <2>5, <2>6, <2>7, NumbersAssumption DEF LoginCap, LoginInv
  <2>9. (\A x \in Companies : CountsLogins(db[x], x))'
    <3>1. \A x \in Companies : db'[x] = IF x = c THEN r ELSE db[x]
      BY <1>1, <2>5 DEF TypeOK
    <3> QED BY <1>2, <2>5, <2>6, <2>7, <3>1 DEF CountsLogins
  <2>10. \A q \in Processes : pc'[q] # "idle" => q = p
    BY <1>1, <1>3, <2>5 DEF TypeOK
  <2>11. CountsLogins(mem[p], cur[p])'
    <3>1. mem'[p] = r /\ cur'[p] = c
      BY <1>1, <2>5 DEF TypeOK, c
    <3> QED BY <2>1, <2>5, <2>6, <2>7, <3>1 DEF CountsLogins
  <2>12. \A q \in Processes : InRunOne(q)' => q = p
    BY <2>10 DEF InRunOne
  <2> QED BY <2>8, <2>9, <2>10, <2>11, <2>12 DEF CountsAreKept, OneRunAtATime
<1>9. ASSUME NEW p \in Processes, NEW parking \in BOOLEAN, ScrapeFails(p, parking)
      PROVE  CountsAreKept' /\ LoginCap'
  BY <1>1, <1>9, RowKeepsCount, ReturnKeepsCounts DEF ScrapeFails, SameCount, InRunOne, TypeOK
<1>10. ASSUME NEW p \in Processes, CommitRows(p) PROVE CountsAreKept' /\ LoginCap'
  <2>1. \A q \in Processes : InRunOne(q)' => InRunOne(q)
    BY <1>1, <1>10 DEF CommitRows, TypeOK, InRunOne
  <2>2. OneRunAtATime'
    BY <1>1, <1>3, <1>10 DEF CommitRows, TypeOK, OneRunAtATime
  <2> QED BY <1>10, <2>1, <2>2 DEF CommitRows, CountsAreKept, CountsLogins, LoginCap, LoginInv
<1>11. ASSUME NEW p \in Processes, CommitSuccess(p) PROVE CountsAreKept' /\ LoginCap'
  BY <1>1, <1>11, RowKeepsCount, ReturnKeepsCounts DEF CommitSuccess, SameCount, InRunOne, TypeOK, ghosts
<1>12. ASSUME NEW p \in Processes, pc[p] # "idle", LeaveRun(p) PROVE CountsAreKept' /\ LoginCap'
  <2>1. \A q \in Processes : q # p => pc[q] = "idle" /\ pc'[q] = "idle"
    BY <1>1, <1>3, <1>12 DEF LeaveRun, TypeOK
  <2>2. ~InRunOne(p)'
    BY <1>1, <1>12 DEF LeaveRun, TypeOK, InRunOne
  <2> QED BY <1>1, <1>2, <1>12, <2>1, <2>2, QuietStepKeepsCounts DEF LeaveRun, ghosts
<1>13. ASSUME NEW c \in Companies, Unpark(c) PROVE CountsAreKept' /\ LoginCap'
  <2>1. logins' = [logins EXCEPT ![c] = 0] /\ UNCHANGED <<clock, pc, cur, mem>>
    BY <1>13 DEF Unpark, procVars
  <2>2. (\A x \in Companies : CountsLogins(db[x], x))'
    BY <1>1, <1>2, <1>13, <2>1 DEF Unpark, TypeOK, CountsLogins, SourceState
  <2>3. (\A q \in Processes : InRunOne(q) => CountsLogins(mem[q], cur[q]))'
    BY <1>1, <2>1 DEF LoginInv, CountsAreKept, CountsLogins, InRunOne, TypeOK, SourceState
  <2>4. OneRunAtATime' /\ LoginCap'
    BY <1>1, <2>1, NumbersAssumption DEF LoginInv, CountsAreKept, OneRunAtATime, LoginCap, TypeOK
  <2> QED BY <2>2, <2>3, <2>4 DEF CountsAreKept
<1>14. ASSUME NEW p \in Processes, NEW c \in Companies, ConfirmLogin(p, c)
       PROVE  CountsAreKept' /\ LoginCap'
  <2>1. \A q \in Processes : q # p => pc[q] = "idle" /\ pc'[q] = "idle"
    BY <1>1, <1>14 DEF ConfirmLogin, TypeOK
  <2>2. ~InRunOne(p)'
    BY <1>1, <1>14 DEF ConfirmLogin, TypeOK, InRunOne
  <2>3. logins' = [logins EXCEPT ![c] = 0] /\ UNCHANGED clock
    BY <1>14 DEF ConfirmLogin
  <2>4. \A x \in Companies : logins'[x] = logins[x] \/ logins'[x] = 0
    BY <1>1, <2>3 DEF TypeOK
  <2>5. (\A x \in Companies : CountsLogins(db[x], x))'
    BY <1>1, <1>2, <1>14, <2>3 DEF ConfirmLogin, TypeOK, CountsLogins, SourceState
  <2>6. LoginCap'
    BY <2>4, NumbersAssumption DEF LoginCap, LoginInv
  <2> QED BY <2>1, <2>2, <2>5, <2>6 DEF CountsAreKept, OneRunAtATime, InRunOne
<1>15. ASSUME NEW c \in Companies, ChangeCredentials(c) PROVE CountsAreKept' /\ LoginCap'
  BY <1>15 DEF ChangeCredentials, procVars, ghosts, LoginInv, LoginCap, CountsAreKept,
               CountsLogins, OneRunAtATime, InRunOne
<1>16. CASE Tick
  <2>1. /\ UNCHANGED <<db, mem, cur, pc>>
        /\ \/ logins' = [c \in Companies |-> 0]
           \/ logins' = logins /\ CalendarDate(clock') = CalendarDate(clock)
    BY <1>16 DEF Tick, procVars
  <2>2. LoginCap'
    BY <2>1, NumbersAssumption DEF LoginInv, LoginCap
  <2>3. (\A c \in Companies : CountsLogins(db[c], c))'
    BY <1>1, <1>2, <2>1 DEF CountsLogins, TypeOK, SourceState
  <2>4. (\A q \in Processes : InRunOne(q) => CountsLogins(mem[q], cur[q]))'
    BY <1>1, <2>1 DEF LoginInv, CountsAreKept, CountsLogins, InRunOne, TypeOK, SourceState
  <2>5. OneRunAtATime'
    BY <2>1 DEF LoginInv, CountsAreKept, OneRunAtATime
  <2> QED BY <2>2, <2>3, <2>4, <2>5 DEF CountsAreKept
<1>17. CASE UNCHANGED vars
  BY <1>17 DEF vars, LoginInv, LoginCap, CountsAreKept, CountsLogins, OneRunAtATime, InRunOne
<1>18. CronTrigger => CountsAreKept' /\ LoginCap'
  BY <1>4, ProcessesAssumption DEF CronTrigger
<1>19. ASSUME NEW p \in Processes, CliScrape(p) PROVE CountsAreKept' /\ LoginCap'
  BY <1>4, <1>19 DEF CliScrape
<1>20. ASSUME NEW p \in Processes, RunStep(p) PROVE CountsAreKept' /\ LoginCap'
  BY <1>5, <1>6, <1>7, <1>8, <1>9, <1>10, <1>11, <1>12, <1>20 DEF RunStep, EndRun
<1>21. ASSUME NEW p \in Processes, AbandonRun(p) PROVE CountsAreKept' /\ LoginCap'
  BY <1>12, <1>21 DEF AbandonRun
<1> QED BY <1>13, <1>14, <1>15, <1>16, <1>17, <1>18, <1>19, <1>20, <1>21 DEF Next

\* However runs crash, are forced, unparked or cross midnight, no company sees more than
\* maxLoginAttemptsPerDay logins in a day, provided the operator stops the service for a
\* manual run; the invariant is that row and copy both count today's logins.
THEOREM LoginCapHolds == ASSUME ExclusiveRuns PROVE Spec => []LoginCap
<1>1. Init => LoginInv
  <2>1. Init => CountsAreKept /\ LoginCap
    BY NumbersAssumption DEF Init, CountsAreKept, LoginCap, CountsLogins, OneRunAtATime, InRunOne,
                             DefaultSourceState
  <2> QED BY <2>1, InitTypeOK DEF LoginInv
<1>2. LoginInv => LoginCap
  BY DEF LoginInv
<1> QED BY <1>1, <1>2, LoginInvInductive, PTL DEF Spec

-----------------------------------------------------------------------------
(* Health. *)

\* No row claims a success later than the last commit of its company's data.
FreshOK ==
    /\ \A c \in Companies : dataAt[c] <= clock /\ db[c].lastSuccessAt <= dataAt[c]
    /\ \A p \in Processes : InRunOne(p) => mem[p].lastSuccessAt <= dataAt[cur[p]]
    /\ \A p \in Processes : pc[p] = "persisting" => dataAt[cur[p]] = clock

LEMMA SuccessTimeIsInt == \A s \in SourceState : s.lastSuccessAt \in Int
<1>1. \A s \in SourceState : s.lastSuccessAt \in Time
  BY DEF SourceState
<1>2. Time \subseteq Int
  BY DEF Time, Never
<1> QED BY <1>1, <1>2

(* Only a success changes the time of the last success. *)
LEMMA RowKeepsSuccess ==
    ASSUME NEW s \in SourceState, NEW fp \in Fingerprints, NEW t \in Nat, NEW parking
    PROVE  \A r \in {WithFingerprint(s, fp), WithToday(s, t), WithToday(WithFingerprint(s, fp), t),
                     Failed(s, parking, t), Unparked(s)} : r.lastSuccessAt = s.lastSuccessAt
<1>1. /\ WithFingerprint(s, fp).lastSuccessAt = s.lastSuccessAt
      /\ Failed(s, parking, t).lastSuccessAt = s.lastSuccessAt
      /\ Unparked(s).lastSuccessAt = s.lastSuccessAt
  BY DEF WithFingerprint, Failed, Unparked, SourceState
<1>2. \A r \in SourceState : WithToday(r, t).lastSuccessAt = r.lastSuccessAt
  BY DEF WithToday, SourceState
<1>3. WithFingerprint(s, fp) \in SourceState
  BY RowFacts
<1> QED BY <1>1, <1>2, <1>3

(* runOne of p ends with a row. *)
LEMMA ReturnKeepsFresh ==
    ASSUME TypeOK, TypeOK', FreshOK, NEW p \in Processes, NEW r, WriteRowAndReturn(p, r),
           r.lastSuccessAt <= dataAt[cur[p]], UNCHANGED <<clock, cur, dataAt>>
    PROVE  FreshOK'
<1>1. /\ cur[p] \in Companies
      /\ \A c \in Companies : db'[c] = IF c = cur[p] THEN r ELSE db[c]
      /\ \A q \in Processes : q # p => pc'[q] = pc[q] /\ mem'[q] = mem[q]
      /\ pc'[p] = "next"
  BY DEF TypeOK, WriteRowAndReturn, ForgetLocals
<1>2. \A c \in Companies : dataAt'[c] <= clock' /\ db'[c].lastSuccessAt <= dataAt'[c]
  BY <1>1 DEF FreshOK
<1>3. \A q \in Processes : InRunOne(q)' => q # p /\ InRunOne(q)
  BY <1>1 DEF InRunOne
<1>4. \A q \in Processes : InRunOne(q)' => mem'[q].lastSuccessAt <= dataAt'[cur'[q]]
  BY <1>1, <1>3 DEF FreshOK
<1>5. \A q \in Processes : pc'[q] = "persisting" => dataAt'[cur'[q]] = clock'
  BY <1>1 DEF FreshOK
<1> QED BY <1>2, <1>4, <1>5 DEF FreshOK

LEMMA FreshRunStep ==
    ASSUME TypeOK, TypeOK', FreshOK, NEW p \in Processes, RunStep(p)
    PROVE  FreshOK'
<1>1. /\ mem[p] \in SourceState /\ cur[p] \in Companies /\ vault[cur[p]] \in Fingerprints /\ clock \in Nat
      /\ \A c \in Companies : dataAt[c] \in Int
  BY DEF TypeOK, Time, Never
<1>2. CASE BeginCompany(p)
  <2> DEFINE c == Head(todo[p])
  <2>1. c \in Companies
    BY <1>2 DEF BeginCompany, TypeOK
  <2>2. /\ UNCHANGED <<clock, db, dataAt>>
        /\ pc'[p] = "resolving" /\ cur'[p] = c /\ mem'[p] = db[c]
        /\ \A q \in Processes : q # p => pc'[q] = pc[q] /\ mem'[q] = mem[q] /\ cur'[q] = cur[q]
    BY <1>2 DEF BeginCompany, TypeOK
  <2>3. \A q \in Processes : InRunOne(q)' => mem'[q].lastSuccessAt <= dataAt'[cur'[q]]
    BY <2>1, <2>2 DEF FreshOK, InRunOne
  <2>4. \A q \in Processes : pc'[q] = "persisting" => dataAt'[cur'[q]] = clock'
    BY <2>2 DEF FreshOK
  <2> QED BY <2>2, <2>3, <2>4 DEF FreshOK
<1>3. CASE ResolveFails(p)
  <2> DEFINE r == Failed(mem[p], FALSE, clock)
  <2>1. r.lastSuccessAt = mem[p].lastSuccessAt
    BY <1>1 DEF Failed, SourceState
  <2>2. WriteRowAndReturn(p, r) /\ UNCHANGED <<clock, cur, dataAt>> /\ InRunOne(p)
    BY <1>3 DEF ResolveFails, InRunOne
  <2> HIDE DEF r
  <2>3. r.lastSuccessAt <= dataAt[cur[p]]
    BY <2>1, <2>2 DEF FreshOK
  <2> QED BY <2>2, <2>3, ReturnKeepsFresh
<1>4. CASE SkipRun(p)
  <2> DEFINE s == WithFingerprint(mem[p], vault[cur[p]])
  <2>1. s.lastSuccessAt <= dataAt[cur[p]] /\ WithToday(s, clock).lastSuccessAt <= dataAt[cur[p]]
    BY <1>1, <1>4, RowKeepsSuccess DEF SkipRun, FreshOK, InRunOne
  <2>2. WriteRowAndReturn(p, s) \/ WriteRowAndReturn(p, WithToday(s, clock))
    BY <1>4 DEF SkipRun
  <2> HIDE DEF s
  <2> QED BY <1>4, <2>1, <2>2, ReturnKeepsFresh DEF SkipRun
<1>5. CASE BeginLogin(p)
  <2> DEFINE s == WithToday(WithFingerprint(mem[p], vault[cur[p]]), clock)
             r == [s EXCEPT !.loginAttempts = s.loginAttempts + 1]
  <2>1. s \in SourceState /\ s.lastSuccessAt <= dataAt[cur[p]]
    BY <1>1, <1>5, RowFacts, RowKeepsSuccess DEF BeginLogin, FreshOK, InRunOne
  <2>2. mem' = [mem EXCEPT ![p] = r] /\ db' = [db EXCEPT ![cur[p]] = r]
        /\ pc' = [pc EXCEPT ![p] = "scraping"] /\ UNCHANGED <<clock, cur, dataAt>>
    BY <1>5 DEF BeginLogin
  <2> HIDE DEF s
  <2>3. r.lastSuccessAt <= dataAt[cur[p]]
    BY <2>1 DEF SourceState
  <2> HIDE DEF r
  <2>4. /\ \A c \in Companies : db'[c] = IF c = cur[p] THEN r ELSE db[c]
        /\ \A q \in Processes : q # p => pc'[q] = pc[q] /\ mem'[q] = mem[q]
        /\ mem'[p] = r /\ pc'[p] = "scraping"
    BY <1>1, <2>2 DEF TypeOK
  <2>5. \A c \in Companies : dataAt'[c] <= clock' /\ db'[c].lastSuccessAt <= dataAt'[c]
    BY <2>2, <2>3, <2>4 DEF FreshOK
  <2>6. \A q \in Processes : InRunOne(q)' => mem'[q].lastSuccessAt <= dataAt'[cur'[q]]
    BY <2>2, <2>3, <2>4 DEF FreshOK, InRunOne
  <2>7. \A q \in Processes : pc'[q] = "persisting" => dataAt'[cur'[q]] = clock'
    BY <2>2, <2>4 DEF FreshOK
  <2> QED BY <2>5, <2>6, <2>7 DEF FreshOK
<1>6. ASSUME NEW parking \in BOOLEAN, ScrapeFails(p, parking) PROVE FreshOK'
  <2>1. Failed(mem[p], parking, clock).lastSuccessAt <= dataAt[cur[p]]
    BY <1>1, <1>6, RowKeepsSuccess DEF ScrapeFails, FreshOK, InRunOne
  <2> QED BY <1>6, <2>1, ReturnKeepsFresh DEF ScrapeFails
<1>7. CASE CommitRows(p)
  <2>1. /\ UNCHANGED <<clock, db, mem, cur>> /\ dataAt' = [dataAt EXCEPT ![cur[p]] = clock]
        /\ pc' = [pc EXCEPT ![p] = "persisting"] /\ pc[p] = "scraping"
    BY <1>7 DEF CommitRows
  <2>2. \A c \in Companies : dataAt'[c] = IF c = cur[p] THEN clock ELSE dataAt[c]
    BY <2>1 DEF TypeOK
  <2>3. \A c \in Companies : dataAt'[c] >= dataAt[c] /\ dataAt'[c] <= clock /\ dataAt'[c] \in Int
    BY <1>1, <2>2 DEF FreshOK
  <2>4. \A c \in Companies : db[c].lastSuccessAt \in Int /\ db[c].lastSuccessAt <= dataAt[c]
    BY SuccessTimeIsInt DEF FreshOK, TypeOK
  <2>5. \A q \in Processes : cur[q] \in Companies /\ mem[q].lastSuccessAt \in Int
    BY SuccessTimeIsInt DEF TypeOK
  <2>6. \A q \in Processes : InRunOne(q)' => InRunOne(q)
    BY <2>1 DEF InRunOne, TypeOK
  <2>7. \A q \in Processes : InRunOne(q)' => mem'[q].lastSuccessAt <= dataAt'[cur'[q]]
    BY <1>1, <2>1, <2>3, <2>5, <2>6 DEF FreshOK
  <2>8. \A q \in Processes : pc'[q] = "persisting" => dataAt'[cur'[q]] = clock'
    BY <2>1, <2>2, <2>5 DEF FreshOK, TypeOK
  <2>9. \A c \in Companies : dataAt'[c] <= clock' /\ db'[c].lastSuccessAt <= dataAt'[c]
    BY <1>1, <2>1, <2>3, <2>4
  <2> QED BY <2>7, <2>8, <2>9 DEF FreshOK
<1>8. CASE CommitSuccess(p)
  <2>1. Succeeded(mem[p], clock).lastSuccessAt = clock
    BY <1>1 DEF Succeeded, SourceState
  <2>2. dataAt[cur[p]] = clock
    BY <1>8 DEF CommitSuccess, FreshOK
  <2> QED BY <1>1, <1>8, <2>1, <2>2, ReturnKeepsFresh DEF CommitSuccess
<1>9. CASE EndRun(p)
  <2>1. /\ UNCHANGED <<clock, db, dataAt, cur>> /\ pc'[p] = "idle"
        /\ \A q \in Processes : q # p => pc'[q] = pc[q] /\ mem'[q] = mem[q]
    BY <1>9 DEF EndRun, LeaveRun, ForgetLocals, TypeOK
  <2> QED BY <2>1 DEF FreshOK, InRunOne
<1> QED BY <1>2, <1>3, <1>4, <1>5, <1>6, <1>7, <1>8, <1>9, RunStep(p) DEF RunStep

LEMMA FreshInductive ==
    ASSUME TypeOK, TypeOK', FreshOK, [Next]_vars
    PROVE  FreshOK'
<1>1. ASSUME NEW p \in Processes, NEW companies, NEW o, StartRun(p, companies, o) PROVE FreshOK'
  <2>1. /\ UNCHANGED <<clock, db, dataAt, cur, mem>> /\ pc'[p] = "next"
        /\ \A q \in Processes : q # p => pc'[q] = pc[q]
    BY <1>1 DEF StartRun, TypeOK
  <2> QED BY <2>1 DEF FreshOK, InRunOne
<1>2. CASE CronTrigger
  BY <1>1, <1>2, ProcessesAssumption DEF CronTrigger
<1>3. ASSUME NEW p \in Processes, CliScrape(p) PROVE FreshOK'
  BY <1>1, <1>3 DEF CliScrape
<1>4. ASSUME NEW p \in Processes, AbandonRun(p) PROVE FreshOK'
  <2>1. /\ UNCHANGED <<clock, db, dataAt, cur>> /\ pc'[p] = "idle"
        /\ \A q \in Processes : q # p => pc'[q] = pc[q] /\ mem'[q] = mem[q]
    BY <1>4 DEF AbandonRun, LeaveRun, ForgetLocals, TypeOK
  <2> QED BY <2>1 DEF FreshOK, InRunOne
<1>5. ASSUME NEW c \in Companies, UNCHANGED <<clock, dataAt>>,
             db' = [db EXCEPT ![c] = [Unparked(db[c]) EXCEPT !.loginAttempts = 0]]
      PROVE  \A x \in Companies : dataAt'[x] <= clock' /\ db'[x].lastSuccessAt <= dataAt'[x]
  <2> DEFINE u == Unparked(db[c])
             r == [u EXCEPT !.loginAttempts = 0]
  <2>1. db[c] \in SourceState
    BY DEF TypeOK
  <2>2. u \in SourceState
    BY <2>1, UnparkedType
  <2>3. u.lastSuccessAt = db[c].lastSuccessAt
    BY <2>1 DEF Unparked, SourceState
  <2> HIDE DEF u
  <2>4. r.lastSuccessAt = db[c].lastSuccessAt
    BY <2>2, <2>3 DEF SourceState
  <2>5. db' = [db EXCEPT ![c] = r]
    BY <1>5 DEF u
  <2> HIDE DEF r
  <2>6. \A x \in Companies : db'[x].lastSuccessAt = db[x].lastSuccessAt
    BY <2>4, <2>5 DEF TypeOK
  <2> QED BY <1>5, <2>6 DEF FreshOK
<1>6. ASSUME NEW c \in Companies, Unpark(c) PROVE FreshOK'
  BY <1>5, <1>6 DEF Unpark, procVars, FreshOK, InRunOne
<1>7. ASSUME NEW p \in Processes, NEW c \in Companies, ConfirmLogin(p, c) PROVE FreshOK'
  <2>1. /\ UNCHANGED <<clock, dataAt, cur, mem>> /\ pc'[p] = "next"
        /\ \A q \in Processes : q # p => pc'[q] = pc[q]
    BY <1>7 DEF ConfirmLogin, TypeOK
  <2>2. \A x \in Companies : dataAt'[x] <= clock' /\ db'[x].lastSuccessAt <= dataAt'[x]
    BY <1>5, <1>7 DEF ConfirmLogin
  <2> QED BY <2>1, <2>2 DEF FreshOK, InRunOne
<1>8. ASSUME NEW c \in Companies, ChangeCredentials(c) PROVE FreshOK'
  BY <1>8 DEF ChangeCredentials, procVars, FreshOK, InRunOne
<1>9. CASE Tick
  <2>1. UNCHANGED <<db, dataAt, mem, cur, pc>> /\ clock' = clock + 1 /\ \A p \in Processes : pc[p] # "persisting"
    BY <1>9 DEF Tick, procVars
  <2>2. \A c \in Companies : dataAt[c] \in Int /\ clock \in Int
    BY DEF TypeOK, Time, Never
  <2> QED BY <2>1, <2>2 DEF FreshOK, InRunOne
<1>10. CASE UNCHANGED vars
  BY <1>10 DEF vars, FreshOK, InRunOne
<1> QED BY <1>2, <1>3, <1>4, <1>6, <1>7, <1>8, <1>9, <1>10, FreshRunStep DEF Next

\* /healthz vouches for no company whose data is stale, with any number of processes scraping
\* side by side and crashing between the data and the row (applySuccess, runOne).
THEOREM HealthIsHonest == Spec => []HealthyMeansFreshData
<1>1. Init => FreshOK
  BY DEF Init, FreshOK, InRunOne, DefaultSourceState, Never
<1>2. TypeOK /\ TypeOK' /\ FreshOK /\ [Next]_vars => FreshOK'
  BY FreshInductive
<1>3. TypeOK /\ FreshOK => HealthyMeansFreshData
  <2> SUFFICES ASSUME TypeOK, FreshOK, NEW c \in Companies, Healthy(c)
               PROVE  dataAt[c] # Never /\ clock - dataAt[c] <= StaleHours
    BY DEF HealthyMeansFreshData
  <2>1. /\ db[c].lastSuccessAt \in Nat /\ dataAt[c] \in Int /\ clock \in Nat
        /\ db[c].lastSuccessAt <= dataAt[c] /\ clock - db[c].lastSuccessAt <= StaleHours
    BY DEF Healthy, TypeOK, FreshOK, SourceState, Time, Never
  <2> QED BY <2>1, NumbersAssumption DEF Never
<1> QED BY <1>1, <1>2, <1>3, TypeCorrect, PTL DEF Spec

-----------------------------------------------------------------------------
(* Refused credentials. *)

\* The row, and the copy a run works on, still say parked for what the bank refused.
Remembers(row, fp) == fp # NoFingerprint => row.parked /\ row.credentialFingerprint = fp

RejectionOK ==
    /\ \A c \in Companies : Remembers(db[c], rejected[c])
    /\ \A p \in Processes : InRunOne(p) => Remembers(mem[p], rejected[cur[p]])

(* A row that is parked for a tuple stays so when the same tuple is resolved, and after a failure. *)
LEMMA ParkingStays ==
    ASSUME NEW s \in SourceState, NEW fp \in Fingerprints, NEW t \in Nat, s.parked,
           s.credentialFingerprint = fp
    PROVE  \A r \in {WithFingerprint(s, fp), WithToday(WithFingerprint(s, fp), t), Succeeded(s, t)} :
              r.parked /\ r.credentialFingerprint = fp
<1>1. WithFingerprint(s, fp) = [s EXCEPT !.credentialFingerprint = fp]
  BY DEF WithFingerprint
<1>2. WithFingerprint(s, fp).parked /\ WithFingerprint(s, fp).credentialFingerprint = fp
  BY <1>1 DEF SourceState
<1>3. \A r \in SourceState : /\ WithToday(r, t).parked = r.parked
                             /\ WithToday(r, t).credentialFingerprint = r.credentialFingerprint
  BY DEF WithToday, SourceState
<1>4. WithFingerprint(s, fp) \in SourceState
  BY RowFacts
<1>5. Succeeded(s, t).parked /\ Succeeded(s, t).credentialFingerprint = fp
  BY DEF Succeeded, SourceState
<1> QED BY <1>2, <1>3, <1>4, <1>5

(* What follows from a failed row. *)
LEMMA FailureKeepsRejection ==
    ASSUME NEW s \in SourceState, NEW t, NEW parking \in BOOLEAN
    PROVE  /\ Failed(s, parking, t).credentialFingerprint = s.credentialFingerprint
           /\ s.parked \/ parking => Failed(s, parking, t).parked
BY DEF Failed, SourceState

(* p, the only run, writes row r for its company and nothing else changes but rejected. *)
LEMMA ReturnKeepsRejection ==
    ASSUME TypeOK, TypeOK', RejectionOK, OneRunAtATime, NEW p \in Processes, InRunOne(p),
           NEW r \in SourceState, WriteRowAndReturn(p, r), UNCHANGED cur,
           \A c \in Companies : c # cur[p] => rejected'[c] = rejected[c],
           Remembers(r, rejected'[cur[p]])
    PROVE  RejectionOK'
<1>1. /\ cur[p] \in Companies
      /\ \A c \in Companies : db'[c] = IF c = cur[p] THEN r ELSE db[c]
      /\ pc'[p] = "next"
      /\ \A q \in Processes : q # p => pc'[q] = pc[q]
  BY DEF TypeOK, WriteRowAndReturn
<1>2. \A q \in Processes : ~InRunOne(q)'
  BY <1>1 DEF OneRunAtATime, InRunOne
<1>3. ASSUME NEW c \in Companies PROVE Remembers(db'[c], rejected'[c])
  <2>1. CASE c = cur[p]
    BY <1>1, <2>1 DEF Remembers
  <2>2. CASE c # cur[p]
    BY <1>1, <2>2 DEF Remembers, RejectionOK
  <2> QED BY <2>1, <2>2
<1> QED BY <1>2, <1>3 DEF RejectionOK

LEMMA RejectionRunStep ==
    ASSUME TypeOK, TypeOK', RejectionOK, OneRunAtATime, NEW p \in Processes, RunStep(p)
    PROVE  RejectionOK'
<1> DEFINE v == vault[cur[p]]
           w == WithFingerprint(mem[p], v)
<1>1. /\ mem[p] \in SourceState /\ cur[p] \in Companies /\ v \in Fingerprints /\ clock \in Nat
      /\ v # NoFingerprint
  BY FingerprintAssumption DEF TypeOK
<1>2. w \in SourceState /\ WithToday(w, clock) \in SourceState
  BY <1>1, RowFacts
<1>3. ASSUME InRunOne(p), NoteFingerprint(cur[p], v)
      PROVE  /\ \A r \in {w, WithToday(w, clock)} : Remembers(r, rejected'[cur[p]])
             /\ \A c \in Companies : c # cur[p] => rejected'[c] = rejected[c]
  <2>1. rejected'[cur[p]] = IF rejected[cur[p]] = v THEN v ELSE NoFingerprint
    BY <1>1, <1>3 DEF NoteFingerprint, TypeOK
  <2>2. \A c \in Companies : c # cur[p] => rejected'[c] = rejected[c]
    BY <1>3 DEF NoteFingerprint, TypeOK
  <2>3. CASE rejected[cur[p]] = v
    <3>1. mem[p].parked /\ mem[p].credentialFingerprint = v
      BY <1>1, <1>3, <2>3 DEF RejectionOK, Remembers
    <3>2. \A r \in {w, WithToday(w, clock)} : r.parked /\ r.credentialFingerprint = v
      BY <1>1, <3>1, ParkingStays
    <3> QED BY <2>1, <2>2, <2>3, <3>2 DEF Remembers
  <2>4. CASE rejected[cur[p]] # v
    BY <2>1, <2>2, <2>4 DEF Remembers
  <2> QED BY <2>3, <2>4
<1>4. CASE BeginCompany(p)
  <2> DEFINE c == Head(todo[p])
  <2>1. c \in Companies
    BY <1>4 DEF BeginCompany, TypeOK
  <2>2. /\ UNCHANGED <<db, rejected>> /\ pc[p] # "idle" /\ cur'[p] = c /\ mem'[p] = db[c]
        /\ \A q \in Processes : q # p => pc'[q] = pc[q]
    BY <1>4 DEF BeginCompany, TypeOK, ghosts
  <2>3. \A q \in Processes : InRunOne(q)' => q = p
    BY <2>2 DEF OneRunAtATime, InRunOne
  <2> QED BY <2>1, <2>2, <2>3 DEF RejectionOK, Remembers
<1>5. CASE ResolveFails(p)
  <2> DEFINE r == Failed(mem[p], FALSE, clock)
  <2>1. WriteRowAndReturn(p, r) /\ UNCHANGED <<cur, rejected>> /\ InRunOne(p)
    BY <1>5 DEF ResolveFails, InRunOne, ghosts
  <2>2. \A parking \in BOOLEAN : Failed(mem[p], parking, clock) \in SourceState
    BY <1>1, RowFacts
  <2>3. r \in SourceState
    BY <2>2
  <2>4. r.credentialFingerprint = mem[p].credentialFingerprint /\ r.parked = mem[p].parked
    BY <1>1 DEF Failed, SourceState
  <2> HIDE DEF r
  <2>5. Remembers(r, rejected'[cur[p]])
    BY <1>1, <2>1, <2>4 DEF RejectionOK, Remembers
  <2> QED BY <2>1, <2>3, <2>5, ReturnKeepsRejection
<1>6. CASE SkipRun(p)
  <2>1. /\ WriteRowAndReturn(p, w) \/ WriteRowAndReturn(p, WithToday(w, clock))
        /\ NoteFingerprint(cur[p], v) /\ UNCHANGED cur /\ InRunOne(p)
    BY <1>6 DEF SkipRun, InRunOne
  <2>2. /\ Remembers(w, rejected'[cur[p]]) /\ Remembers(WithToday(w, clock), rejected'[cur[p]])
        /\ \A c \in Companies : c # cur[p] => rejected'[c] = rejected[c]
    BY <1>3, <2>1
  <2> HIDE DEF w, v
  <2> QED BY <1>2, <2>1, <2>2, ReturnKeepsRejection
<1>7. CASE BeginLogin(p)
  <2> DEFINE s == WithToday(w, clock)
             r == [s EXCEPT !.loginAttempts = s.loginAttempts + 1]
  <2>1. /\ mem' = [mem EXCEPT ![p] = r] /\ db' = [db EXCEPT ![cur[p]] = r]
        /\ pc' = [pc EXCEPT ![p] = "scraping"] /\ UNCHANGED cur
        /\ NoteFingerprint(cur[p], v) /\ InRunOne(p)
    BY <1>7 DEF BeginLogin, InRunOne
  <2>2. /\ Remembers(s, rejected'[cur[p]])
        /\ \A c \in Companies : c # cur[p] => rejected'[c] = rejected[c]
    BY <1>3, <2>1
  <2> HIDE DEF s
  <2>3. r.parked = s.parked /\ r.credentialFingerprint = s.credentialFingerprint
    BY <1>2 DEF s, SourceState
  <2> HIDE DEF r
  <2>4. Remembers(r, rejected'[cur[p]])
    BY <2>2, <2>3 DEF Remembers
  <2>5. /\ \A c \in Companies : db'[c] = IF c = cur[p] THEN r ELSE db[c]
        /\ mem'[p] = r /\ cur'[p] = cur[p]
        /\ \A q \in Processes : q # p => pc'[q] = pc[q]
    BY <1>1, <2>1 DEF TypeOK
  <2>6. \A q \in Processes : InRunOne(q)' => q = p
    BY <2>1, <2>5 DEF OneRunAtATime, InRunOne
  <2>7. ASSUME NEW c \in Companies PROVE Remembers(db'[c], rejected'[c])
    <3>1. CASE c = cur[p]
      BY <2>4, <2>5, <3>1 DEF Remembers
    <3>2. CASE c # cur[p]
      BY <2>2, <2>5, <3>2 DEF Remembers, RejectionOK
    <3> QED BY <3>1, <3>2
  <2>8. Remembers(mem'[p], rejected'[cur'[p]])
    BY <2>4, <2>5 DEF Remembers
  <2> QED BY <2>6, <2>7, <2>8 DEF RejectionOK
<1>8. ASSUME NEW parking \in BOOLEAN, ScrapeFails(p, parking) PROVE RejectionOK'
  <2> DEFINE r == Failed(mem[p], parking, clock)
  <2>1. WriteRowAndReturn(p, r) /\ UNCHANGED cur /\ InRunOne(p)
    BY <1>8 DEF ScrapeFails, InRunOne
  <2>2. r \in SourceState
    BY <1>1, RowFacts
  <2>3. /\ r.credentialFingerprint = mem[p].credentialFingerprint
        /\ mem[p].parked \/ parking => r.parked
    BY <1>1, FailureKeepsRejection
  <2> HIDE DEF r
  <2>4. rejected' = IF parking THEN [rejected EXCEPT ![cur[p]] = mem[p].credentialFingerprint] ELSE rejected
    BY <1>8 DEF ScrapeFails
  <2>5. Remembers(r, rejected'[cur[p]]) /\ \A c \in Companies : c # cur[p] => rejected'[c] = rejected[c]
    <3>1. CASE parking
      BY <1>1, <2>1, <2>3, <2>4, <3>1 DEF TypeOK, Remembers
    <3>2. CASE ~parking
      BY <1>1, <2>1, <2>3, <2>4, <3>2 DEF RejectionOK, Remembers
    <3> QED BY <3>1, <3>2
  <2> QED BY <2>1, <2>2, <2>5, ReturnKeepsRejection
<1>9. CASE CommitRows(p)
  <2>1. UNCHANGED <<db, mem, cur, rejected>> /\ pc' = [pc EXCEPT ![p] = "persisting"] /\ pc[p] = "scraping"
    BY <1>9 DEF CommitRows, ghosts
  <2>2. \A q \in Processes : InRunOne(q)' => InRunOne(q)
    BY <2>1 DEF InRunOne, TypeOK
  <2> QED BY <2>1, <2>2 DEF RejectionOK, Remembers
<1>10. CASE CommitSuccess(p)
  <2> DEFINE r == Succeeded(mem[p], clock)
  <2>1. WriteRowAndReturn(p, r) /\ UNCHANGED <<cur, rejected>> /\ InRunOne(p)
    BY <1>10 DEF CommitSuccess, InRunOne, ghosts
  <2>2. r \in SourceState
    BY <1>1, RowFacts
  <2>3. r.credentialFingerprint = mem[p].credentialFingerprint /\ r.parked = mem[p].parked
    BY <1>1 DEF Succeeded, SourceState
  <2> HIDE DEF r
  <2>4. Remembers(r, rejected'[cur[p]])
    BY <1>1, <2>1, <2>3 DEF RejectionOK, Remembers
  <2> QED BY <2>1, <2>2, <2>4, ReturnKeepsRejection
<1>11. CASE EndRun(p)
  <2>1. UNCHANGED <<db, cur, rejected>> /\ pc' = [pc EXCEPT ![p] = "idle"] /\ pc[p] # "idle"
    BY <1>11 DEF EndRun, LeaveRun, ghosts
  <2>2. \A q \in Processes : ~InRunOne(q)'
    BY <2>1 DEF OneRunAtATime, InRunOne, TypeOK
  <2> QED BY <2>1, <2>2 DEF RejectionOK, Remembers
<1> QED BY <1>4, <1>5, <1>6, <1>7, <1>8, <1>9, <1>10, <1>11, RunStep(p) DEF RunStep

LEMMA RejectionInductive ==
    ASSUME TypeOK, TypeOK', RejectionOK, OneRunAtATime, [Next]_vars
    PROVE  RejectionOK'
<1>1. ASSUME NEW p \in Processes, NEW companies, NEW o, StartRun(p, companies, o) PROVE RejectionOK'
  <2>1. /\ UNCHANGED <<db, rejected, cur, mem>> /\ pc'[p] = "next"
        /\ \A q \in Processes : q # p => pc'[q] = pc[q]
    BY <1>1 DEF StartRun, TypeOK, ghosts
  <2> QED BY <2>1 DEF RejectionOK, InRunOne
<1>2. CASE CronTrigger
  BY <1>1, <1>2, ProcessesAssumption DEF CronTrigger
<1>3. ASSUME NEW p \in Processes, CliScrape(p) PROVE RejectionOK'
  BY <1>1, <1>3 DEF CliScrape
<1>4. ASSUME NEW p \in Processes, AbandonRun(p) PROVE RejectionOK'
  <2>1. /\ UNCHANGED <<db, rejected, cur>> /\ pc'[p] = "idle"
        /\ \A q \in Processes : q # p => pc'[q] = pc[q] /\ mem'[q] = mem[q]
    BY <1>4 DEF AbandonRun, LeaveRun, ForgetLocals, TypeOK, ghosts
  <2> QED BY <2>1 DEF RejectionOK, InRunOne
<1>5. ASSUME NEW c \in Companies, UNCHANGED <<cur, mem>>,
             \A x \in Companies : x # c => db'[x] = db[x],
             rejected' = [rejected EXCEPT ![c] = NoFingerprint],
             \A p \in Processes : InRunOne(p)' => InRunOne(p)
      PROVE  RejectionOK'
  <2>1. \A x \in Companies : rejected'[x] = IF x = c THEN NoFingerprint ELSE rejected[x]
    BY <1>5 DEF TypeOK
  <2>2. \A x \in Companies : Remembers(db'[x], rejected'[x])
    BY <1>5, <2>1 DEF RejectionOK, Remembers
  <2>3. \A p \in Processes : InRunOne(p)' => Remembers(mem'[p], rejected'[cur'[p]])
    BY <1>5, <2>1 DEF RejectionOK, Remembers, TypeOK
  <2> QED BY <2>2, <2>3 DEF RejectionOK
<1>6. ASSUME NEW c \in Companies, Unpark(c) PROVE RejectionOK'
  <2>1. \A x \in Companies : x # c => db'[x] = db[x]
    BY <1>6 DEF Unpark, TypeOK
  <2> QED BY <1>5, <1>6, <2>1 DEF Unpark, procVars, InRunOne
<1>7. ASSUME NEW p \in Processes, NEW c \in Companies, ConfirmLogin(p, c) PROVE RejectionOK'
  <2>1. \A x \in Companies : x # c => db'[x] = db[x]
    BY <1>7 DEF ConfirmLogin, TypeOK
  <2>2. \A q \in Processes : InRunOne(q)' => InRunOne(q)
    BY <1>7 DEF ConfirmLogin, InRunOne, TypeOK
  <2> QED BY <1>5, <1>7, <2>1, <2>2 DEF ConfirmLogin
<1>8. ASSUME NEW c \in Companies, ChangeCredentials(c) PROVE RejectionOK'
  BY <1>8 DEF ChangeCredentials, procVars, ghosts, RejectionOK, InRunOne
<1>9. CASE Tick
  BY <1>9 DEF Tick, procVars, RejectionOK, InRunOne
<1>10. CASE UNCHANGED vars
  BY <1>10 DEF vars, ghosts, RejectionOK, InRunOne
<1> QED BY <1>2, <1>3, <1>4, <1>6, <1>7, <1>8, <1>9, <1>10, RejectionRunStep DEF Next

(* The only step that takes a run from resolving to scraping. *)
LEMMA OnlyALoginScrapes ==
    ASSUME TypeOK, [Next]_vars, NEW p \in Processes, pc[p] = "resolving", pc'[p] = "scraping"
    PROVE  BeginLogin(p)
<1>1. ASSUME NEW q \in Processes, NEW companies, NEW o, StartRun(q, companies, o) PROVE FALSE
  BY <1>1 DEF StartRun, TypeOK
<1>2. ~CronTrigger
  BY <1>1, ProcessesAssumption DEF CronTrigger
<1>3. ASSUME NEW q \in Processes PROVE ~CliScrape(q)
  BY <1>1 DEF CliScrape
<1>4. ASSUME NEW q \in Processes PROVE ~AbandonRun(q)
  BY DEF AbandonRun, LeaveRun, TypeOK
<1>5. ASSUME NEW q \in Processes, RunStep(q) PROVE BeginLogin(p)
  <2>1. \A r : ~WriteRowAndReturn(q, r)
    BY DEF WriteRowAndReturn, TypeOK
  <2>2. ~ResolveFails(q) /\ ~SkipRun(q) /\ ~CommitSuccess(q)
        /\ \A parking \in BOOLEAN : ~ScrapeFails(q, parking)
    BY <2>1 DEF ResolveFails, SkipRun, CommitSuccess, ScrapeFails
  <2>3. ~BeginCompany(q) /\ ~CommitRows(q) /\ ~EndRun(q)
    BY DEF BeginCompany, CommitRows, EndRun, LeaveRun, TypeOK
  <2>4. BeginLogin(q)
    BY <1>5, <2>2, <2>3 DEF RunStep
  <2>5. q = p
    BY <2>4 DEF BeginLogin, TypeOK
  <2> QED BY <2>4, <2>5
<1>6. \A c \in Companies : ~Unpark(c) /\ ~ChangeCredentials(c)
  BY DEF Unpark, ChangeCredentials, procVars
<1>7. \A q \in Processes, c \in Companies : ~ConfirmLogin(q, c)
  BY DEF ConfirmLogin, TypeOK
<1>8. ~Tick /\ ~UNCHANGED vars
  BY DEF Tick, procVars, vars
<1> QED BY <1>2, <1>3, <1>4, <1>5, <1>6, <1>7, <1>8 DEF Next

\* While nobody runs two processes side by side, no unforced run presents a credential tuple
\* the bank has refused (runOne, guard): the row and the copy in flight both remember it.
THEOREM RejectedTuplesRest == ASSUME ExclusiveRuns PROVE Spec => RejectedCredentialsNotRetried
<1>1. Init => LoginInv /\ RejectionOK
  BY InitTypeOK, NumbersAssumption
  DEF Init, LoginInv, RejectionOK, Remembers, CountsAreKept, CountsLogins, OneRunAtATime, InRunOne,
      LoginCap, DefaultSourceState
<1>2. LoginInv /\ RejectionOK /\ [Next]_vars => LoginInv' /\ RejectionOK'
  <2> SUFFICES ASSUME LoginInv, RejectionOK, [Next]_vars PROVE LoginInv' /\ RejectionOK'
    OBVIOUS
  <2>1. LoginInv'
    BY LoginInvInductive
  <2> QED BY <2>1, RejectionInductive DEF LoginInv, CountsAreKept
<1>3. LoginInv /\ RejectionOK /\ [Next]_vars =>
        [\A p \in Processes :
            /\ pc[p] = "resolving" /\ pc'[p] = "scraping" /\ ~opts[p].force
            => rejected[cur[p]] # vault[cur[p]]]_vars
  <2> SUFFICES ASSUME LoginInv, RejectionOK, [Next]_vars, NEW p \in Processes,
                      pc[p] = "resolving", pc'[p] = "scraping", ~opts[p].force,
                      rejected[cur[p]] = vault[cur[p]]
               PROVE  FALSE
    OBVIOUS
  <2> DEFINE w == WithFingerprint(mem[p], vault[cur[p]])
  <2>1. TypeOK /\ BeginLogin(p)
    BY OnlyALoginScrapes DEF LoginInv
  <2>2. mem[p] \in SourceState /\ vault[cur[p]] \in Fingerprints /\ cur[p] \in Companies /\ clock \in Nat
    BY <2>1 DEF TypeOK
  <2>3. mem[p].parked /\ mem[p].credentialFingerprint = vault[cur[p]]
    BY <2>2, FingerprintAssumption DEF RejectionOK, Remembers, InRunOne
  <2>4. WithToday(w, clock).parked
    BY <2>2, <2>3, ParkingStays
  <2>5. ~IsHeldBack(WithToday(w, clock), opts[p].force, clock)
    BY <2>1 DEF BeginLogin
  <2> QED BY <2>4, <2>5 DEF IsHeldBack
<1> QED
  <2>1. Spec => [](LoginInv /\ RejectionOK)
    BY <1>1, <1>2, PTL DEF Spec
  <2> QED BY <1>3, <2>1, PTL DEF Spec, RejectedCredentialsNotRetried

-----------------------------------------------------------------------------
(* Coverage. *)

\* The next window of a row reaches back to what is covered.
Reaches(row, c) == row.lastSuccessAt # Never => row.lastSuccessAt - OverlapHours <= covered[c]

\* The window a scrape begun at t waits for joins what is covered, whatever is committed
\* meanwhile, or is where the configuration, the operator or the default look-back has it.
WindowOK(w, c, bound, row, t) ==
    \/ w <= covered[c] \/ w \in {ConfigStart[c], bound} \ {Never}
    \/ row.lastSuccessAt = Never /\ w = t - LookbackHours
Waits(p) == pc[p] = "scraping"
WindowIsOK(p) == WindowOK(windowStart[p], cur[p], opts[p].bound, mem[p], startedAt[p])

InTime(p) == startedAt[p] <= clock /\ clock <= startedAt[p] + RunHours

\* A backfill has a bound.
OptionsOK(o) == o.backfill => o.bound # Never

CoverageInv ==
    /\ \A c \in Companies : Reaches(db[c], c)
    /\ \A p \in Processes : OptionsOK(opts[p])
    /\ \A p \in Processes : InRunOne(p) => Reaches(mem[p], cur[p]) /\ InTime(p)
    /\ \A p \in Processes : Waits(p) => WindowIsOK(p)
    /\ \A p \in Processes : pc[p] = "persisting" => startedAt[p] <= covered[cur[p]]

LEMMA TimesAreInt ==
    ASSUME TypeOK
    PROVE  /\ clock \in Nat /\ \A p \in Processes : startedAt[p] \in Nat /\ cur[p] \in Companies
           /\ \A c \in Companies : covered[c] \in Int /\ covered[c] >= -1
           /\ \A c \in Companies : db[c].lastSuccessAt \in Int
           /\ \A p \in Processes : mem[p].lastSuccessAt \in Int /\ windowStart[p] \in Int
BY SuccessTimeIsInt DEF TypeOK, Time, Never

(* The window of a row that reaches back to what is covered joins it. *)
LEMMA WindowIsChosen ==
    ASSUME TypeOK, NEW c \in Companies, NEW s \in SourceState, NEW o \in RunOptions, NEW t \in Nat,
           Reaches(s, c), OptionsOK(o)
    PROVE  WindowOK(WindowStart(c, s, o, t), c, o.bound, s, t)
<1> DEFINE a == s.lastSuccessAt - OverlapHours
           b == ConfigStart[c]
           d == o.bound
           past == IF o.backfill \/ s.lastSuccessAt = Never THEN {} ELSE {a}
           bounds == past \cup ({b, d} \ {Never})
<1>1. a \in Int /\ b \in Int /\ d \in Int /\ t - LookbackHours \in Int
  BY NumbersAssumption DEF SourceState, RunOptions, Time, Never
<1>2. bounds \in SUBSET {a, b, d}
  OBVIOUS
<1>3. WindowStart(c, s, o, t) =
          IF bounds = {} THEN t - LookbackHours ELSE CHOOSE x \in bounds : \A y \in bounds : y <= x
  BY DEF WindowStart
<1>4. \A x \in bounds : x <= covered[c] \/ x \in {b, d} \ {Never}
  BY DEF Reaches
<1>5. bounds = {} => s.lastSuccessAt = Never
  BY DEF OptionsOK
<1> HIDE DEF a, b, d, past, bounds
<1>6. bounds # {} => \E x \in bounds : \A y \in bounds : y <= x
  BY <1>1, <1>2, LatestOfThree
<1>7. bounds # {} => (CHOOSE x \in bounds : \A y \in bounds : y <= x) \in bounds
  BY <1>6
<1>8. CASE bounds = {}
  BY <1>3, <1>5, <1>8 DEF WindowOK
<1>9. CASE bounds # {}
  <2>1. WindowStart(c, s, o, t) \in bounds
    BY <1>3, <1>7, <1>9
  <2> QED BY <1>4, <2>1 DEF WindowOK, b, d
<1> QED BY <1>8, <1>9

(* What a step that moves no window and no coverage back has to show. *)
LEMMA CoverageGrows ==
    ASSUME TypeOK, \A c \in Companies : covered'[c] \in Int /\ covered[c] <= covered'[c]
    PROVE  /\ \A c \in Companies, r \in SourceState : Reaches(r, c) => Reaches(r, c)'
           /\ \A c \in Companies, w \in Int : \A d, r, t : WindowOK(w, c, d, r, t) => WindowOK(w, c, d, r, t)'
<1>1. \A c \in Companies : covered[c] \in Int
  BY TimesAreInt
<1>2. ASSUME NEW c \in Companies, NEW r \in SourceState, Reaches(r, c) PROVE Reaches(r, c)'
  <2>1. r.lastSuccessAt \in Int /\ OverlapHours \in Int
    BY SuccessTimeIsInt, NumbersAssumption
  <2> QED BY <1>1, <1>2, <2>1 DEF Reaches
<1>3. ASSUME NEW c \in Companies, NEW w \in Int, NEW d, NEW r, NEW t, WindowOK(w, c, d, r, t)
      PROVE  WindowOK(w, c, d, r, t)'
  BY <1>1, <1>3 DEF WindowOK
<1> QED BY <1>2, <1>3

(* runOne of p ends with a row. *)
LEMMA ReturnKeepsCoverage ==
    ASSUME TypeOK, CoverageInv, NEW p \in Processes, NEW r, WriteRowAndReturn(p, r),
           Reaches(r, cur[p]), UNCHANGED <<clock, cur, opts, covered>>
    PROVE  CoverageInv'
<1>1. /\ cur[p] \in Companies
      /\ \A c \in Companies : db'[c] = IF c = cur[p] THEN r ELSE db[c]
      /\ pc'[p] = "next"
      /\ \A q \in Processes : q # p => /\ pc'[q] = pc[q] /\ mem'[q] = mem[q]
                                       /\ startedAt'[q] = startedAt[q] /\ windowStart'[q] = windowStart[q]
  BY DEF TypeOK, WriteRowAndReturn, ForgetLocals
<1>2. \A c \in Companies : Reaches(db[c], c)' 
  BY <1>1 DEF CoverageInv, Reaches
<1>3. ASSUME NEW q \in Processes, q # p
      PROVE  /\ InRunOne(q)' => (Reaches(mem[q], cur[q]) /\ InTime(q))'
             /\ Waits(q)' => WindowIsOK(q)'
             /\ pc'[q] = "persisting" => startedAt'[q] <= covered'[cur'[q]]
  BY <1>1, <1>3 DEF CoverageInv, Reaches, InTime, Waits, WindowIsOK, WindowOK, InRunOne
<1> QED BY <1>1, <1>2, <1>3 DEF CoverageInv, InRunOne, Waits, OptionsOK

LEMMA CoverageRunStep ==
    ASSUME TypeOK, TypeOK', CoverageInv, NEW p \in Processes, RunStep(p)
    PROVE  CoverageInv'
<1>1. /\ mem[p] \in SourceState /\ cur[p] \in Companies /\ vault[cur[p]] \in Fingerprints /\ clock \in Nat
      /\ opts[p] \in RunOptions /\ startedAt[p] \in Nat
  BY DEF TypeOK, CoverageInv
<1>2. CASE BeginCompany(p)
  <2> DEFINE c == Head(todo[p])
  <2>1. c \in Companies
    BY <1>2 DEF BeginCompany, TypeOK
  <2>2. /\ UNCHANGED <<clock, db, covered, windowStart, opts>>
        /\ pc'[p] = "resolving" /\ cur'[p] = c /\ mem'[p] = db[c] /\ startedAt'[p] = clock
        /\ \A q \in Processes : q # p => /\ pc'[q] = pc[q] /\ mem'[q] = mem[q] /\ cur'[q] = cur[q]
                                         /\ startedAt'[q] = startedAt[q]
    BY <1>2 DEF BeginCompany, TypeOK, ghosts
  <2>3. ASSUME NEW q \in Processes, InRunOne(q)' PROVE (Reaches(mem[q], cur[q]) /\ InTime(q))'
    <3>1. CASE q = p
      BY <1>1, <2>1, <2>2, <3>1, NumbersAssumption DEF CoverageInv, Reaches, InTime
    <3>2. CASE q # p
      BY <2>2, <2>3, <3>2 DEF CoverageInv, InRunOne, Reaches, InTime
    <3> QED BY <3>1, <3>2
  <2>4. \A q \in Processes : Waits(q)' => WindowIsOK(q)'
    BY <2>2 DEF CoverageInv, Waits, WindowIsOK, WindowOK
  <2>5. \A q \in Processes : pc'[q] = "persisting" => startedAt'[q] <= covered'[cur'[q]]
    BY <2>2 DEF CoverageInv
  <2>6. \A x \in Companies : Reaches(db[x], x)'
    BY <2>2 DEF CoverageInv, Reaches
  <2> QED BY <2>2, <2>3, <2>4, <2>5, <2>6 DEF CoverageInv
<1>3. CASE ResolveFails(p)
  <2>1. Failed(mem[p], FALSE, clock).lastSuccessAt = mem[p].lastSuccessAt
    BY <1>1 DEF Failed, SourceState
  <2>2. Reaches(Failed(mem[p], FALSE, clock), cur[p])
    BY <1>3, <2>1 DEF ResolveFails, CoverageInv, InRunOne, Reaches
  <2> QED BY <1>3, <2>2, ReturnKeepsCoverage DEF ResolveFails, ghosts
<1>4. CASE SkipRun(p)
  <2> DEFINE s == WithFingerprint(mem[p], vault[cur[p]])
             t == WithToday(s, clock)
  <2>1. s.lastSuccessAt = mem[p].lastSuccessAt /\ t.lastSuccessAt = mem[p].lastSuccessAt
    BY <1>1, RowKeepsSuccess
  <2>2. WriteRowAndReturn(p, s) \/ WriteRowAndReturn(p, t)
    BY <1>4 DEF SkipRun
  <2> HIDE DEF s, t
  <2>3. Reaches(s, cur[p]) /\ Reaches(t, cur[p])
    BY <1>4, <2>1 DEF SkipRun, CoverageInv, InRunOne, Reaches
  <2> QED BY <1>4, <2>2, <2>3, ReturnKeepsCoverage DEF SkipRun
<1>5. CASE BeginLogin(p)
  <2> DEFINE s == WithToday(WithFingerprint(mem[p], vault[cur[p]]), clock)
             r == [s EXCEPT !.loginAttempts = s.loginAttempts + 1]
  <2>1. s \in SourceState /\ s.lastSuccessAt = mem[p].lastSuccessAt
    BY <1>1, RowFacts, RowKeepsSuccess
  <2>2. /\ mem' = [mem EXCEPT ![p] = r] /\ db' = [db EXCEPT ![cur[p]] = r]
        /\ pc' = [pc EXCEPT ![p] = "scraping"] /\ UNCHANGED <<clock, cur, opts, startedAt, covered>>
        /\ windowStart' = [windowStart EXCEPT ![p] = WindowStart(cur[p], r, opts[p], startedAt[p])]
        /\ InRunOne(p)
    BY <1>5 DEF BeginLogin, InRunOne
  <2> HIDE DEF s
  <2>3. r.lastSuccessAt = mem[p].lastSuccessAt /\ r \in SourceState
    <3>1. s.loginAttempts + 1 \in Nat
      BY <2>1 DEF SourceState
    <3> QED BY <2>1, <3>1 DEF SourceState
  <2> HIDE DEF r
  <2>4. Reaches(r, cur[p]) /\ InTime(p)
    BY <2>2, <2>3 DEF CoverageInv, Reaches
  <2>5. WindowOK(WindowStart(cur[p], r, opts[p], startedAt[p]), cur[p], opts[p].bound, r, startedAt[p])
    <3>1. OptionsOK(opts[p])
      BY DEF CoverageInv
    <3> QED BY <1>1, <2>3, <2>4, <3>1, WindowIsChosen
  <2>6. /\ \A c \in Companies : db'[c] = IF c = cur[p] THEN r ELSE db[c]
        /\ \A q \in Processes : q # p => /\ pc'[q] = pc[q] /\ mem'[q] = mem[q]
                                         /\ windowStart'[q] = windowStart[q]
        /\ mem'[p] = r /\ pc'[p] = "scraping"
        /\ windowStart'[p] = WindowStart(cur[p], r, opts[p], startedAt[p])
    BY <1>1, <2>2 DEF TypeOK
  <2>7. \A c \in Companies : Reaches(db[c], c)'
    BY <2>2, <2>4, <2>6 DEF CoverageInv, Reaches
  <2>8. \A q \in Processes : InRunOne(q)' => (Reaches(mem[q], cur[q]) /\ InTime(q))'
    BY <2>2, <2>4, <2>6 DEF CoverageInv, Reaches, InRunOne, InTime
  <2>9. \A q \in Processes : Waits(q)' => WindowIsOK(q)'
    BY <2>2, <2>5, <2>6 DEF CoverageInv, Waits, WindowIsOK, WindowOK
  <2>10. \A q \in Processes : pc'[q] = "persisting" => startedAt'[q] <= covered'[cur'[q]]
    BY <2>2, <2>6 DEF CoverageInv
  <2> QED BY <2>2, <2>7, <2>8, <2>9, <2>10 DEF CoverageInv
<1>6. ASSUME NEW parking \in BOOLEAN, ScrapeFails(p, parking) PROVE CoverageInv'
  <2>1. Failed(mem[p], parking, clock).lastSuccessAt = mem[p].lastSuccessAt
    BY <1>1, RowKeepsSuccess
  <2>2. Reaches(Failed(mem[p], parking, clock), cur[p])
    BY <1>6, <2>1 DEF ScrapeFails, CoverageInv, InRunOne, Reaches
  <2> QED BY <1>6, <2>2, ReturnKeepsCoverage DEF ScrapeFails
<1>7. CASE CommitRows(p)
  <2> DEFINE c == cur[p]
  <2>1. /\ UNCHANGED <<clock, db, mem, cur, opts, startedAt, windowStart>>
        /\ pc' = [pc EXCEPT ![p] = "persisting"] /\ pc[p] = "scraping"
        /\ covered' = [covered EXCEPT ![c] = IF startedAt[p] > covered[c] THEN startedAt[p] ELSE covered[c]]
    BY <1>7 DEF CommitRows
  <2>10. \A x \in Companies :
            covered'[x] = IF x = c /\ startedAt[p] > covered[c] THEN startedAt[p] ELSE covered[x]
    BY <1>1, <2>1 DEF TypeOK
  <2>4. \A x \in Companies : covered'[x] \in Int /\ covered[x] <= covered'[x]
    BY <1>1, <2>10, TimesAreInt
  <2>5. startedAt[p] <= covered'[c]
    BY <1>1, <2>10, TimesAreInt
  <2>6. \A q \in Processes : q # p => pc'[q] = pc[q]
    BY <2>1 DEF TypeOK
  <2>7. \A x \in Companies : Reaches(db[x], x)'
    <3>1. \A x \in Companies : db[x] \in SourceState /\ Reaches(db[x], x)
      BY DEF TypeOK, CoverageInv
    <3>2. \A x \in Companies, r \in SourceState : Reaches(r, x) => Reaches(r, x)'
      BY <2>4, CoverageGrows
    <3>3. \A x \in Companies : db'[x] = db[x]
      BY <2>1
    <3> QED BY <3>1, <3>2, <3>3 DEF Reaches
  <2>8. ASSUME NEW q \in Processes
        PROVE  /\ InRunOne(q)' => (Reaches(mem[q], cur[q]) /\ InTime(q))'
               /\ Waits(q)' => WindowIsOK(q)'
               /\ pc'[q] = "persisting" => startedAt'[q] <= covered'[cur'[q]]
    <3>1. mem[q] \in SourceState /\ cur[q] \in Companies /\ windowStart[q] \in Int /\ startedAt[q] \in Int
      BY DEF TypeOK
    <3>2. InRunOne(q)' => InRunOne(q)
      BY <2>1, <2>6 DEF InRunOne
    <3>3. InRunOne(q)' => (Reaches(mem[q], cur[q]) /\ InTime(q))'
      <4>1. InRunOne(q)' => Reaches(mem[q], cur[q]) /\ InTime(q)
        BY <3>2 DEF CoverageInv
      <4>2. Reaches(mem[q], cur[q]) /\ mem[q].lastSuccessAt # Never
                => mem[q].lastSuccessAt - OverlapHours <= covered'[cur[q]]
        BY <2>4, <3>1, NumbersAssumption, TimesAreInt DEF Reaches
      <4> QED BY <2>1, <4>1, <4>2 DEF Reaches, InTime
    <3>4. Waits(q)' => WindowIsOK(q)'
      <4>1. Waits(q)' => WindowIsOK(q)
        BY <2>1, <2>6 DEF CoverageInv, TypeOK, Waits
      <4> QED BY <2>1, <2>4, <3>1, <4>1, TimesAreInt DEF WindowIsOK, WindowOK
    <3>5. pc'[q] = "persisting" => startedAt'[q] <= covered'[cur'[q]]
      <4>1. pc'[q] = "persisting" => startedAt[q] <= covered[cur[q]] \/ q = p
        BY <2>6 DEF CoverageInv
      <4> QED BY <2>1, <2>4, <2>5, <3>1, <4>1, TimesAreInt
    <3> QED BY <3>3, <3>4, <3>5
  <2> QED BY <2>1, <2>7, <2>8 DEF CoverageInv
<1>8. CASE CommitSuccess(p)
  <2>1. Succeeded(mem[p], clock).lastSuccessAt = clock
    BY <1>1 DEF Succeeded, SourceState
  <2>2. startedAt[p] <= covered[cur[p]] /\ InTime(p)
    BY <1>8 DEF CommitSuccess, CoverageInv, InRunOne
  <2>3. clock - OverlapHours <= covered[cur[p]]
    BY <1>1, <2>2, TimesAreInt, NumbersAssumption, OverlapAssumption DEF InTime
  <2>4. Reaches(Succeeded(mem[p], clock), cur[p])
    BY <2>1, <2>3 DEF Reaches
  <2> QED BY <1>8, <2>4, ReturnKeepsCoverage DEF CommitSuccess, ghosts
<1>9. CASE EndRun(p)
  <2>1. /\ UNCHANGED <<clock, db, cur, covered>> /\ pc'[p] = "idle" /\ OptionsOK(opts'[p])
        /\ \A q \in Processes : q # p => /\ pc'[q] = pc[q] /\ mem'[q] = mem[q] /\ opts'[q] = opts[q]
                                         /\ startedAt'[q] = startedAt[q] /\ windowStart'[q] = windowStart[q]
    BY <1>9 DEF EndRun, LeaveRun, ForgetLocals, TypeOK, ghosts, CronOptions, OptionsOK
  <2> QED BY <2>1 DEF CoverageInv, InRunOne, Reaches, InTime, Waits, WindowIsOK, WindowOK, OptionsOK
<1> QED BY <1>2, <1>3, <1>4, <1>5, <1>6, <1>7, <1>8, <1>9, RunStep(p) DEF RunStep

LEMMA CoverageInductive ==
    ASSUME TypeOK, TypeOK', CoverageInv, [Next]_vars
    PROVE  CoverageInv'
<1>1. ASSUME NEW p \in Processes, UNCHANGED <<clock, db, cur, mem, startedAt, windowStart, covered>>,
             pc'[p] = "next", OptionsOK(opts'[p]),
             \A q \in Processes : q # p => pc'[q] = pc[q] /\ opts'[q] = opts[q]
      PROVE  CoverageInv'
  BY <1>1 DEF CoverageInv, InRunOne, Reaches, InTime, Waits, WindowIsOK, WindowOK, OptionsOK
<1>2. ASSUME NEW p \in Processes, NEW companies, NEW o, StartRun(p, companies, o), OptionsOK(o)
      PROVE  CoverageInv'
  BY <1>1, <1>2 DEF StartRun, TypeOK, ghosts
<1>3. CASE CronTrigger
  BY <1>2, <1>3, ProcessesAssumption DEF CronTrigger, CronOptions, OptionsOK
<1>4. ASSUME NEW p \in Processes, CliScrape(p) PROVE CoverageInv'
  <2>1. PICK o, companies : (o.bound = Never => ~o.backfill) /\ StartRun(p, companies, o)
    BY <1>4 DEF CliScrape
  <2> QED BY <1>2, <2>1 DEF OptionsOK
<1>5. ASSUME NEW p \in Processes, AbandonRun(p) PROVE CoverageInv'
  <2>1. /\ UNCHANGED <<clock, db, cur, covered>> /\ pc'[p] = "idle" /\ OptionsOK(opts'[p])
        /\ \A q \in Processes : q # p => /\ pc'[q] = pc[q] /\ mem'[q] = mem[q] /\ opts'[q] = opts[q]
                                         /\ startedAt'[q] = startedAt[q] /\ windowStart'[q] = windowStart[q]
    BY <1>5 DEF AbandonRun, LeaveRun, ForgetLocals, TypeOK, ghosts, CronOptions, OptionsOK
  <2> QED BY <2>1 DEF CoverageInv, InRunOne, Reaches, InTime, Waits, WindowIsOK, WindowOK, OptionsOK
<1>6. ASSUME NEW c \in Companies, UNCHANGED covered,
             db' = [db EXCEPT ![c] = [Unparked(db[c]) EXCEPT !.loginAttempts = 0]]
      PROVE  \A x \in Companies : Reaches(db[x], x)'
  <2> DEFINE u == Unparked(db[c])
             r == [u EXCEPT !.loginAttempts = 0]
  <2>1. db[c] \in SourceState
    BY DEF TypeOK
  <2>2. u \in SourceState
    BY <2>1, UnparkedType
  <2>3. u.lastSuccessAt = db[c].lastSuccessAt
    BY <2>1 DEF Unparked, SourceState
  <2> HIDE DEF u
  <2>4. r.lastSuccessAt = db[c].lastSuccessAt
    BY <2>2, <2>3 DEF SourceState
  <2>5. db' = [db EXCEPT ![c] = r]
    BY <1>6 DEF u
  <2> HIDE DEF r
  <2>6. \A x \in Companies : db'[x].lastSuccessAt = db[x].lastSuccessAt
    BY <2>4, <2>5 DEF TypeOK
  <2> QED BY <1>6, <2>6 DEF CoverageInv, Reaches
<1>7. ASSUME NEW c \in Companies, Unpark(c) PROVE CoverageInv'
  <2>1. UNCHANGED <<clock, procVars, covered>>
    BY <1>7 DEF Unpark
  <2>2. \A x \in Companies : Reaches(db[x], x)'
    BY <1>6, <1>7 DEF Unpark
  <2> QED BY <2>1, <2>2 DEF procVars, CoverageInv, InRunOne, Reaches, InTime, Waits, WindowIsOK, WindowOK
<1>8. ASSUME NEW p \in Processes, NEW c \in Companies, ConfirmLogin(p, c) PROVE CoverageInv'
  <2>1. /\ UNCHANGED <<clock, cur, mem, startedAt, windowStart, covered>> /\ pc'[p] = "next" /\ OptionsOK(opts'[p])
        /\ \A q \in Processes : q # p => pc'[q] = pc[q] /\ opts'[q] = opts[q]
    BY <1>8 DEF ConfirmLogin, TypeOK, ConfirmOptions, OptionsOK
  <2>2. \A x \in Companies : Reaches(db[x], x)'
    BY <1>6, <1>8 DEF ConfirmLogin
  <2> QED BY <2>1, <2>2 DEF CoverageInv, InRunOne, Reaches, InTime, Waits, WindowIsOK, WindowOK, OptionsOK
<1>9. ASSUME NEW c \in Companies, ChangeCredentials(c) PROVE CoverageInv'
  BY <1>9 DEF ChangeCredentials, procVars, ghosts, CoverageInv, InRunOne, Reaches, InTime, Waits, WindowIsOK, WindowOK
<1>10. CASE Tick
  <2>1. /\ UNCHANGED <<db, procVars, covered>> /\ clock' = clock + 1
        /\ \A p \in Processes : InRunOne(p) => clock < startedAt[p] + RunHours
    BY <1>10 DEF Tick, InRunOne
  <2>2. ASSUME NEW p \in Processes, InRunOne(p) PROVE InTime(p)'
    BY <2>1, <2>2, TimesAreInt, NumbersAssumption DEF CoverageInv, InTime, procVars
  <2> QED BY <2>1, <2>2 DEF procVars, CoverageInv, InRunOne, Reaches, Waits, WindowIsOK, WindowOK, OptionsOK
<1>11. CASE UNCHANGED vars
  BY <1>11 DEF vars, ghosts, CoverageInv, InRunOne, Reaches, InTime, Waits, WindowIsOK, WindowOK
<1> QED BY <1>3, <1>4, <1>5, <1>7, <1>8, <1>9, <1>10, <1>11, CoverageRunStep DEF Next

\* The days a scrape asks for join the stored ones, with any number of processes, crashes and
\* runs that overlap, unless the window starts where the startDate, the operator's bound or, no
\* success being recorded, the default look-back has it (computeWindowStart and applySuccess).
THEOREM GapsAreOfNarrowedRuns == Spec => []OnlyNarrowedRunsLeaveGaps
<1>1. Init => CoverageInv
  BY DEF Init, CoverageInv, InRunOne, Reaches, Waits, OptionsOK, CronOptions, DefaultSourceState
<1>2. TypeOK /\ TypeOK' /\ CoverageInv /\ [Next]_vars => CoverageInv'
  BY CoverageInductive
<1>3. CoverageInv => OnlyNarrowedRunsLeaveGaps
  BY DEF CoverageInv, OnlyNarrowedRunsLeaveGaps, Waits, WindowIsOK, WindowOK, WindowJoins,
         WindowIsGiven, WindowIsDefault
<1> QED BY <1>1, <1>2, <1>3, TypeCorrect, PTL DEF Spec

=============================================================================
