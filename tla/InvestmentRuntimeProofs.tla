----------------------- MODULE InvestmentRuntimeProofs -----------------------
(***************************************************************************)
(* That the recovery lease and the browser profile are never left behind,  *)
(* that recoveries settle once, that the allowance of SMS is kept, and     *)
(* that the runtime implements what a consumer is promised of a recovery   *)
(* (Recovery), for every number of recoveries, causes, starts and every    *)
(* length of time.                                                         *)
(***************************************************************************)
EXTENDS InvestmentRuntime, FiniteSetTheorems, TLAPS

LiveStates == {"starting", "awaiting_code", "verifying"}
Moments == Nat \cup {Never}
Scheduled == [kind : {None, "cron"}, n : Nat, request : {None}, asked : {Never}]
Runs == [stage : Stages,
         cause : [kind : {None, "cron", "refresh", "recovery", "command"}, n : Nat,
                  request : Requests \cup {None}, asked : Moments],
         aborted : BOOLEAN, reserved : Moments]
Attempts == [cause : Scheduled, deadline : Moments, due : Moments]
Recoveries == [id : Requests \cup {None}, state : {None} \cup LiveStates \cup Outcomes,
               expires : Moments]

\* The part of the types the argument needs.
Shape ==
    /\ clock \in Nat /\ causes \in Nat
    /\ lock \in {None, "server", "command", "stale"}
    /\ run \in Runs
    /\ run.stage = None <=> run = NoRun
    /\ run.stage # None => run.cause.kind # None
    /\ maintaining \in BOOLEAN
    /\ attempt \in Attempts
    /\ attempt # NoAttempt => attempt.cause.kind = "cron"
    /\ recovery \in Recoveries
    /\ lease \in BOOLEAN

\* A recovery is live until its collection is aborted, and waits for the code when that does.
InStep ==
    IsManual =>
        /\ IsLive <=> ~run.aborted
        /\ ~run.aborted => /\ recovery.id = run.cause.request
                           /\ recovery.state = "awaiting_code" <=> run.stage = "awaiting"

\* A process that is gone leaves nothing in memory.
GoneIsGone ==
    life = "down" => run = NoRun /\ maintaining = FALSE /\ recovery = NoRecovery /\ attempt = NoAttempt

IInv == Shape /\ NeverInItsOwnWay /\ LeaseHasItsCollection /\ InStep /\ GoneIsGone

-----------------------------------------------------------------------------
(* The operators the actions share. *)

(* A recovery that ends gives its lease up. *)
LEMMA EndEffect ==
    ASSUME IInv, NEW outcome \in Outcomes, End(outcome)
    PROVE  /\ recovery' \in Recoveries /\ recovery'.id = recovery.id
           /\ recovery'.state \notin LiveStates
           /\ lease' = FALSE
BY DEF IInv, Shape, LeaseHasItsCollection, End, IsLive, LiveStates, Outcomes, Recoveries, Moments

(* An aborted collection is where it was. *)
LEMMA AbortEffect ==
    ASSUME IInv, run' = Abort(run)
    PROVE  /\ run' \in Runs
           /\ run'.stage = run.stage /\ run'.cause = run.cause
           /\ run' = NoRun <=> run = NoRun
           /\ run.stage # None => run'.aborted
<1>1. CASE run = NoRun
  BY <1>1 DEF IInv, Shape, Abort
<1>2. CASE run # NoRun
  <2>1. run' = [run EXCEPT !.aborted = TRUE]
    BY <1>2 DEF Abort
  <2>2. run' \in Runs /\ run'.stage = run.stage /\ run'.cause = run.cause /\ run'.aborted
    BY <2>1 DEF IInv, Shape, Runs
  <2>3. run' # NoRun
    BY <2>2 DEF NoRun
  <2> QED BY <1>2, <2>2, <2>3
<1> QED BY <1>1, <1>2

(* The empty values are of the types. *)
LEMMA NoAttemptType == NoAttempt \in Attempts
BY DEF NoAttempt, NoCause, Attempts, Scheduled, Moments

(* A retry is due in the time to come, or the occurrence is given up. *)
LEMMA RetriedType ==
    ASSUME clock \in Nat, NEW a \in Attempts
    PROVE  /\ Retried(a) \in Attempts
           /\ Retried(a) # NoAttempt => Retried(a).cause = a.cause
<1>1. clock + RetryDelay \in Moments
  BY RuntimeAssumption DEF Moments
<1> QED BY <1>1, NoAttemptType DEF Retried, Attempts

(* A collection that ends leaves neither itself nor a lease. *)
LEMMA RunEndsEffect ==
    ASSUME IInv, NEW result, RunEnds(result)
    PROVE  /\ run' = NoRun
           /\ lease' = FALSE
           /\ recovery' \in Recoveries /\ recovery'.state \notin LiveStates
           /\ attempt' \in Attempts /\ (attempt' # NoAttempt => attempt'.cause.kind = "cron")
<1>1. run' = NoRun
  BY DEF RunEnds
<1>2. lease' = FALSE /\ recovery' \in Recoveries /\ recovery'.state \notin LiveStates
  <2>1. CASE IsManual
    <3>1. PICK outcome \in Outcomes : End(outcome)
      BY <2>1 DEF RunEnds, Finish, Outcomes
    <3> QED BY <3>1, EndEffect
  <2>2. CASE ~IsManual
    BY <2>2 DEF RunEnds, Finish, IInv, Shape, LeaseHasItsCollection, IsLive, LiveStates
  <2> QED BY <2>1, <2>2
<1>3. attempt' \in Attempts /\ (attempt' # NoAttempt => attempt'.cause.kind = "cron")
  BY RetriedType, NoAttemptType DEF RunEnds, IInv, Shape
<1> QED BY <1>1, <1>2, <1>3

-----------------------------------------------------------------------------
(* The invariant is inductive. *)

(* The same of a collection and a recovery that are not there. *)
LEMMA EmptyTypes ==
    /\ NoRun \in Runs /\ NoRun.stage = None /\ ~NoRun.aborted
    /\ NoRecovery \in Recoveries /\ NoRecovery.state \notin LiveStates
BY DEF NoRun, NoCause, NoRecovery, Runs, Recoveries, Stages, LiveStates, Outcomes, Moments, None

(* The program starts in the invariant. *)
LEMMA InitIInv == Init => IInv
<1> SUFFICES ASSUME Init PROVE IInv
  OBVIOUS
<1>1. Shape
  BY EmptyTypes, NoAttemptType DEF Init, Shape
<1>2. NeverInItsOwnWay /\ LeaseHasItsCollection /\ InStep /\ GoneIsGone
  BY EmptyTypes DEF Init, NeverInItsOwnWay, LeaseHasItsCollection, InStep, GoneIsGone, InBrowser, IsLive,
                    LiveStates, IsManual, Running, None
<1> QED BY <1>1, <1>2 DEF IInv

(* The end of a collection in a process that lives on. *)
LEMMA EndKeepsIInv ==
    ASSUME IInv, Running, NEW result, RunEnds(result),
           lock' \in {None, "server", "command", "stale"}, lock' = "server" <=> maintaining,
           UNCHANGED <<clock, life, maintaining, causes>>
    PROVE  IInv'
<1>1. /\ run' = NoRun /\ lease' = FALSE
      /\ recovery' \in Recoveries /\ recovery'.state \notin LiveStates
      /\ attempt' \in Attempts /\ (attempt' # NoAttempt => attempt'.cause.kind = "cron")
  BY RunEndsEffect
<1>2. Shape'
  BY <1>1, EmptyTypes DEF IInv, Shape
<1>3. NeverInItsOwnWay'
  BY <1>1, EmptyTypes DEF IInv, NeverInItsOwnWay, InBrowser, None
<1>4. LeaseHasItsCollection' /\ InStep' /\ GoneIsGone'
  BY <1>1 DEF IInv, LeaseHasItsCollection, InStep, GoneIsGone, IsLive, LiveStates, IsManual, Running
<1> QED BY <1>2, <1>3, <1>4 DEF IInv

(* A collection that goes from one stage to another. *)
LEMMA GotoKeepsIInv ==
    ASSUME IInv, Running, NEW stage \in Stages \ {None}, stage # "awaiting", run.stage # "awaiting",
           Goto(stage),
           lock' \in {None, "server", "command", "stale"},
           lock' = "server" <=> InBrowser' \/ maintaining,
           maintaining => stage = "waiting",
           UNCHANGED <<clock, life, maintaining, attempt, recovery, lease, causes>>
    PROVE  IInv'
<1>1. /\ run' \in Runs /\ run'.stage = stage /\ run'.cause = run.cause /\ run'.aborted = run.aborted
      /\ run' # NoRun
  BY DEF Goto, IInv, Shape, Runs, NoRun
<1>2. Shape'
  BY <1>1 DEF IInv, Shape, Running
<1>3. NeverInItsOwnWay' /\ LeaseHasItsCollection' /\ InStep' /\ GoneIsGone'
  BY <1>1 DEF IInv, NeverInItsOwnWay, LeaseHasItsCollection, InStep, GoneIsGone, IsLive, IsManual, Running
<1> QED BY <1>2, <1>3 DEF IInv

(* Taking the profile either opens a browser or ends the collection. *)
LEMMA TakeProfileKeepsIInv ==
    ASSUME IInv, Running, ~maintaining, ~InBrowser, NEW result,
           NEW stage \in {"collecting", "login", "recollecting"}, TakeProfile(stage, result),
           UNCHANGED <<clock, life, maintaining, causes>>
    PROVE  IInv'
<1>1. CASE lock = None
  <2>1. run'.stage = stage
    BY <1>1 DEF TakeProfile, Goto, IInv, Shape, Runs
  <2> QED BY <1>1, <2>1, GotoKeepsIInv DEF TakeProfile, InBrowser, Stages, None
<1>2. CASE lock # None
  <2>1. RunEnds(result) /\ lock' = lock
    BY <1>2 DEF TakeProfile
  <2> QED BY <2>1, EndKeepsIInv DEF IInv, Shape, NeverInItsOwnWay
<1> QED BY <1>1, <1>2

(* Deadlines, cancellations and shutdown: the recovery ends and the collection is aborted. *)
LEMMA SettleKeepsIInv ==
    ASSUME IInv, life # "down", life' # "down", NEW outcome \in Outcomes, End(outcome),
           run' = Abort(run),
           attempt' \in {attempt, NoAttempt},
           UNCHANGED <<clock, maintaining, lock, causes>>
    PROVE  IInv'
<1>1. /\ recovery' \in Recoveries /\ recovery'.state \notin LiveStates
      /\ lease' = FALSE
  BY EndEffect
<1>2. /\ run' \in Runs
      /\ run'.stage = run.stage /\ run'.cause = run.cause
      /\ run' = NoRun <=> run = NoRun
      /\ run.stage # None => run'.aborted
  BY AbortEffect
<1>3. Shape'
  BY <1>1, <1>2, NoAttemptType DEF IInv, Shape
<1>4. NeverInItsOwnWay'
  BY <1>2 DEF IInv, NeverInItsOwnWay, InBrowser
<1>5. LeaseHasItsCollection' /\ InStep' /\ GoneIsGone'
  BY <1>1, <1>2 DEF IInv, Shape, LeaseHasItsCollection, InStep, GoneIsGone, IsLive, LiveStates, IsManual,
                   Running
<1> QED BY <1>3, <1>4, <1>5 DEF IInv

(* Nothing the invariant looks at changes, but for the holder of the lock outside this process. *)
LEMMA IdleKeepsIInv ==
    ASSUME IInv, clock' \in Nat, causes' \in Nat,
           life' \in {life, "up"},
           lock' \in {None, "server", "command", "stale"}, lock' = "server" <=> lock = "server",
           UNCHANGED <<run, maintaining, attempt, recovery, lease>>
    PROVE  IInv'
BY DEF IInv, Shape, NeverInItsOwnWay, LeaseHasItsCollection, InStep, GoneIsGone, InBrowser, IsLive,
       IsManual, Running

(* A new collection. *)
LEMMA NewRunKeepsIInv ==
    ASSUME IInv, ~Running, ~lease, life # "down", life' = life,
           NEW cause \in [kind : {"cron", "refresh"}, n : Nat, request : {None}, asked : {Never}],
           run' = NewRun(cause),
           attempt' \in Attempts, attempt' # NoAttempt => attempt'.cause.kind = "cron",
           causes' \in Nat,
           UNCHANGED <<clock, maintaining, recovery, lease, lock>>
    PROVE  IInv'
<1>1. run' \in Runs /\ run'.stage = "waiting" /\ run'.cause = cause /\ run' # NoRun
  BY EmptyTypes DEF NewRun, NoRun, Runs, Stages, Moments, None
<1>2. cause.kind \in {"cron", "refresh"}
  OBVIOUS
<1>3. Shape'
  BY <1>1, <1>2 DEF IInv, Shape, None
<1>4. ~InBrowser /\ ~InBrowser'
  BY <1>1, EmptyTypes DEF InBrowser, Running, None
<1>5. NeverInItsOwnWay'
  BY <1>1, <1>4 DEF IInv, NeverInItsOwnWay
<1>6. LeaseHasItsCollection' /\ InStep' /\ GoneIsGone'
  BY <1>1, <1>2 DEF IInv, LeaseHasItsCollection, InStep, GoneIsGone, IsLive, IsManual, Running
<1> QED BY <1>3, <1>5, <1>6 DEF IInv

(* One attempt at an occurrence. *)
LEMMA AttemptKeepsIInv ==
    ASSUME IInv, life # "down", NEW a \in Attempts, a.cause.kind = "cron", Attempt(a), causes' \in Nat,
           UNCHANGED <<clock, life, maintaining, recovery, lease, lock>>
    PROVE  IInv'
<1>1. CASE clock > a.deadline \/ Running \/ lease
  <2>1. /\ attempt' \in Attempts /\ (attempt' # NoAttempt => attempt'.cause.kind = "cron")
        /\ run' = run
    BY <1>1, RetriedType, NoAttemptType DEF Attempt, IInv, Shape
  <2>2. Shape'
    BY <2>1 DEF IInv, Shape
  <2> QED BY <2>1, <2>2 DEF IInv, NeverInItsOwnWay, LeaseHasItsCollection, InStep, GoneIsGone, InBrowser,
                         IsLive, IsManual, Running
<1>2. CASE ~(clock > a.deadline \/ Running \/ lease)
  <2>1. /\ attempt' = [a EXCEPT !.due = Never] /\ run' = NewRun(a.cause)
    BY <1>2 DEF Attempt
  <2>2. attempt' \in Attempts /\ attempt'.cause = a.cause
    BY <2>1 DEF Attempts, Moments
  <2>3. a.cause \in [kind : {"cron", "refresh"}, n : Nat, request : {None}, asked : {Never}]
    BY DEF Attempts, Scheduled
  <2> QED BY <1>2, <2>1, <2>2, <2>3, NewRunKeepsIInv
<1> QED BY <1>1, <1>2

(* The steps of a collection. *)
LEMMA CollectionKeepsIInv == ASSUME IInv, CollectionStep PROVE IInv'
<1> DEFINE Locks == {None, "server", "command", "stale"}
<1>0. None \in Locks /\ None # "server" /\ lock \in Locks
  BY DEF None, IInv, Shape
<1> HIDE DEF Locks
<1>1. CASE Abandon
  <2>1. PICK result : RunEnds(result)
    BY <1>1 DEF Abandon
  <2>2. Running
    BY <1>1, EmptyTypes DEF Abandon, Running
  <2>3. lock' \in Locks /\ (lock' = "server" <=> maintaining)
    BY <1>1, <1>0, <2>2 DEF Abandon, Release, IInv, NeverInItsOwnWay, InBrowser, Shape, Running, None
  <2> QED BY <1>1, <2>1, <2>2, <2>3, EndKeepsIInv DEF Abandon, Locks
<1>2. CASE Collect
  BY <1>2, TakeProfileKeepsIInv DEF Collect, Unaborted, InBrowser
<1>3. CASE Login
  BY <1>3, TakeProfileKeepsIInv DEF Login, Unaborted, InBrowser, IInv, NeverInItsOwnWay, None
<1>4. CASE CollectAgain
  BY <1>4, TakeProfileKeepsIInv DEF CollectAgain, Unaborted, InBrowser, IInv, NeverInItsOwnWay, None
<1>5. CASE LoggedIn
  <2>1. run'.stage = "verified" /\ ~maintaining
    BY <1>5 DEF LoggedIn, Goto, IInv, Shape, Runs, NeverInItsOwnWay, None
  <2>2. ~InBrowser'
    BY <2>1 DEF InBrowser
  <2>3. lock' = None /\ Goto("verified") /\ Running /\ run.stage # "awaiting"
    BY <1>5 DEF LoggedIn, Release, Unaborted
  <2> QED BY <1>5, <1>0, <2>1, <2>2, <2>3, GotoKeepsIInv DEF LoggedIn, Stages, Locks, None
<1>6. CASE LoginFails
  <2>1. Running /\ RunEnds("auth_required") /\ lock' = None /\ ~maintaining
    BY <1>6 DEF LoginFails, LoggingIn, Release, Unaborted, IInv, NeverInItsOwnWay, None
  <2> QED BY <1>6, <1>0, <2>1, EndKeepsIInv DEF LoginFails, Locks
<1>7. CASE CodeTimesOut
  <2>1. /\ recovery' \in Recoveries /\ recovery'.state \notin LiveStates /\ lease' = FALSE
    BY <1>7, EndEffect DEF CodeTimesOut, Outcomes
  <2>2. Running /\ ~maintaining
    BY <1>7 DEF CodeTimesOut, Unaborted, IInv, NeverInItsOwnWay, None
  <2>3. Shape'
    BY <1>7, <1>0, <2>1, EmptyTypes DEF CodeTimesOut, Release, IInv, Shape, Locks
  <2>4. NeverInItsOwnWay'
    BY <1>7, <1>0, <2>2, EmptyTypes DEF CodeTimesOut, Release, NeverInItsOwnWay, InBrowser, None
  <2>5. LeaseHasItsCollection' /\ InStep' /\ GoneIsGone'
    BY <1>7, <2>1, <2>2 DEF CodeTimesOut, IInv, LeaseHasItsCollection, InStep, GoneIsGone, IsLive,
                            LiveStates, IsManual, Running
  <2> QED BY <2>3, <2>4, <2>5 DEF IInv
<1>8. CASE Reserve
  <2>1. /\ run' \in Runs /\ run'.stage = "reserved" /\ run'.cause = run.cause /\ run'.aborted = run.aborted
        /\ run' # NoRun
    BY <1>8 DEF Reserve, IInv, Shape, Runs, Stages, Moments, NoRun, None
  <2>2. Shape'
    BY <1>8, <2>1 DEF Reserve, IInv, Shape, None
  <2> QED BY <1>8, <2>1, <2>2 DEF Reserve, IInv, NeverInItsOwnWay, LeaseHasItsCollection, InStep,
                                  GoneIsGone, InBrowser, IsLive, IsManual, Running, Unaborted, None
<1>9. CASE SendSms
  <2>1. /\ run' \in Runs /\ run'.stage = "sent" /\ run'.cause = run.cause /\ run'.aborted = run.aborted
        /\ run' # NoRun
    BY <1>9 DEF SendSms, IInv, Shape, Runs, Stages, Moments, NoRun, None
  <2>2. Shape'
    BY <1>9, <2>1 DEF SendSms, disk, IInv, Shape, None
  <2> QED BY <1>9, <2>1, <2>2 DEF SendSms, disk, IInv, NeverInItsOwnWay, LeaseHasItsCollection, InStep,
                                  GoneIsGone, InBrowser, IsLive, IsManual, Running, Unaborted, None
<1>10. CASE AwaitCode
  <2>1. /\ run' \in Runs /\ run'.stage = "awaiting" /\ run'.cause = run.cause
        /\ run'.aborted = run.aborted /\ run' # NoRun
    BY <1>10 DEF AwaitCode, Goto, IInv, Shape, Runs, Stages, NoRun, None
  <2>2. IsManual => recovery' \in Recoveries /\ recovery'.id = recovery.id
                    /\ recovery'.state = "awaiting_code"
    BY <1>10 DEF AwaitCode, IInv, Shape, Recoveries, LiveStates
  <2>3. ~IsManual => recovery' = recovery
    BY <1>10 DEF AwaitCode
  <2>4. Shape'
    BY <1>10, <2>1, <2>2, <2>3 DEF AwaitCode, disk, IInv, Shape, None
  <2>5. NeverInItsOwnWay'
    BY <1>10, <2>1 DEF AwaitCode, disk, IInv, NeverInItsOwnWay, InBrowser, None
  <2>6. LeaseHasItsCollection' /\ InStep' /\ GoneIsGone'
    BY <1>10, <2>1, <2>2, <2>3 DEF AwaitCode, IInv, LeaseHasItsCollection, InStep, GoneIsGone, IsLive,
                                   IsManual, Running, Unaborted
  <2> QED BY <2>4, <2>5, <2>6 DEF IInv
<1>11. CASE ReceiveCode
  <2>1. /\ run' \in Runs /\ run'.stage = "code" /\ run'.cause = run.cause /\ run'.aborted = run.aborted
        /\ run' # NoRun
    BY <1>11 DEF ReceiveCode, Goto, IInv, Shape, Runs, Stages, NoRun, None
  <2>2. Shape'
    BY <1>11, <2>1 DEF ReceiveCode, disk, IInv, Shape, None
  <2> QED BY <1>11, <2>1, <2>2 DEF ReceiveCode, disk, IInv, NeverInItsOwnWay, LeaseHasItsCollection,
                                   InStep, GoneIsGone, InBrowser, IsLive, IsManual, Running, Unaborted, None
<1>12. ASSUME NEW result \in {"ok", "auth_required", "error"}, Collected(result) PROVE IInv'
  <2>1. Running /\ lock' = None /\ ~maintaining
    BY <1>12, EmptyTypes DEF Collected, Release, Running, IInv, NeverInItsOwnWay, None
  <2>2. CASE RunEnds(result)
    BY <1>12, <1>0, <2>1, <2>2, EndKeepsIInv DEF Collected, Locks
  <2>3. CASE Goto("expired") /\ UNCHANGED <<attempt, recovery, lease, records>>
    <3>1. run'.stage = "expired" /\ ~InBrowser'
      BY <2>3 DEF Goto, IInv, Shape, Runs, InBrowser
    <3> QED BY <1>12, <1>0, <2>1, <2>3, <3>1, GotoKeepsIInv DEF Collected, Stages, Locks, None
  <2> QED BY <1>12, <2>2, <2>3 DEF Collected
<1> QED BY <1>1, <1>2, <1>3, <1>4, <1>5, <1>6, <1>7, <1>8, <1>9, <1>10, <1>11, <1>12 DEF CollectionStep

(* The requests of a consumer, and the deadline. *)
LEMMA RecoveryKeepsIInv ==
    ASSUME IInv, RecoveryTimer \/ \E id \in Requests : StartRecovery(id) \/ Submit(id) \/ Cancel(id)
    PROVE  IInv'
<1>1. CASE RecoveryTimer
  <2>1. life # "down"
    BY <1>1 DEF RecoveryTimer, IInv, GoneIsGone, NoRecovery, None
  <2> QED BY <1>1, <2>1, SettleKeepsIInv DEF RecoveryTimer, Outcomes
<1>2. ASSUME NEW id \in Requests, Cancel(id) PROVE IInv'
  BY <1>2, SettleKeepsIInv DEF Cancel, Open, Outcomes
<1>3. ASSUME NEW id \in Requests, Submit(id) PROVE IInv'
  <2>1. CASE End("expired") /\ run' = Abort(run)
    BY <1>3, <2>1, SettleKeepsIInv DEF Submit, Open, Outcomes
  <2>2. CASE /\ recovery.state = "awaiting_code"
             /\ recovery' = [recovery EXCEPT !.state = "verifying", !.expires = Never]
             /\ Goto("code")
             /\ UNCHANGED <<lease, records>>
    <3>1. lease /\ IsManual /\ run.cause.request = recovery.id
      BY <2>2 DEF IInv, LeaseHasItsCollection, IsLive
    <3>2. /\ run' \in Runs /\ run'.stage = "code" /\ run'.cause = run.cause
          /\ run'.aborted = run.aborted /\ run' # NoRun
      BY <2>2 DEF Goto, IInv, Shape, Runs, Stages, NoRun, None
    <3>3. recovery' \in Recoveries /\ recovery'.id = recovery.id /\ recovery'.state = "verifying"
      BY <2>2 DEF IInv, Shape, Recoveries, LiveStates, Moments
    <3>4. Shape'
      BY <1>3, <2>2, <3>1, <3>2, <3>3 DEF Submit, IInv, Shape, None, IsManual
    <3>5. NeverInItsOwnWay'
      <4>1. run.stage = "awaiting"
        BY <2>2, <3>1 DEF IInv, InStep, IsLive
      <4> QED BY <1>3, <2>2, <3>2, <4>1 DEF Submit, IInv, NeverInItsOwnWay, InBrowser, None
    <3>6. LeaseHasItsCollection' /\ InStep' /\ GoneIsGone'
      BY <1>3, <2>2, <3>1, <3>2, <3>3 DEF Submit, Open, IInv, LeaseHasItsCollection, InStep, GoneIsGone,
                                       IsLive, IsManual, Running
    <3> QED BY <3>4, <3>5, <3>6 DEF IInv
  <2> QED BY <1>3, <2>1, <2>2 DEF Submit
<1>4. ASSUME NEW id \in Requests, StartRecovery(id) PROVE IInv'
  <2> DEFINE cause == RecoveryCause(id)
  <2>1. /\ cause \in [kind : {"recovery"}, n : Nat, request : Requests, asked : Nat]
        /\ cause.kind = "recovery" /\ cause.request = id /\ causes' \in Nat
    BY <1>4 DEF StartRecovery, MoreCauses, RecoveryCause, IInv, Shape
  <2>2. /\ run' \in Runs /\ run'.stage = "waiting" /\ run'.cause = cause /\ ~run'.aborted
        /\ run' # NoRun
    BY <1>4, <2>1, EmptyTypes DEF StartRecovery, NewRun, NoRun, Runs, Stages, Moments, None
  <2>a. clock + ChallengeTime \in Moments
    BY RuntimeAssumption DEF IInv, Shape, Moments
  <2>3. /\ recovery' \in Recoveries /\ recovery'.id = id /\ recovery'.state = "starting"
        /\ lease' = TRUE
    BY <1>4, <2>a DEF StartRecovery, Recoveries, LiveStates
  <2> HIDE DEF cause
  <2>4. Shape'
    BY <1>4, <2>1, <2>2, <2>3 DEF StartRecovery, IInv, Shape, None
  <2>5. NeverInItsOwnWay'
    BY <1>4, <2>2, EmptyTypes DEF StartRecovery, IInv, NeverInItsOwnWay, InBrowser, Running, None
  <2>6. LeaseHasItsCollection' /\ InStep' /\ GoneIsGone'
    BY <1>4, <2>1, <2>2, <2>3 DEF StartRecovery, Open, LeaseHasItsCollection, InStep, GoneIsGone, IsLive,
                              IsManual, Running
  <2> QED BY <2>4, <2>5, <2>6 DEF IInv
<1> QED BY <1>1, <1>2, <1>3, <1>4

(* A process that goes away, by itself or not, takes its memory with it. *)
LEMMA ForgetKeepsIInv ==
    ASSUME IInv, Forget, lock' \in {None, "server", "command", "stale"}, lock' # "server",
           UNCHANGED <<clock, causes>>
    PROVE  IInv'
<1>1. Shape'
  BY EmptyTypes, NoAttemptType DEF Forget, IInv, Shape
<1>2. NeverInItsOwnWay' /\ LeaseHasItsCollection' /\ InStep' /\ GoneIsGone'
  BY EmptyTypes DEF Forget, NeverInItsOwnWay, LeaseHasItsCollection, InStep, GoneIsGone, InBrowser, IsLive,
                    LiveStates, IsManual, Running, None
<1> QED BY <1>1, <1>2 DEF IInv

(* Every step stays in it. *)
LEMMA StepKeepsIInv == IInv /\ [Next]_vars => IInv'
<1> SUFFICES ASSUME IInv, [Next]_vars PROVE IInv'
  OBVIOUS
<1>a. clock \in Nat /\ causes \in Nat /\ lock \in {None, "server", "command", "stale"}
  BY DEF IInv, Shape
<1>1. CASE Cron
  <2> DEFINE a == [NoAttempt EXCEPT !.cause = Cause("cron"), !.deadline = clock + Window]
  <2>1. Cause("cron") \in Scheduled /\ Cause("cron").kind = "cron" /\ clock + Window \in Moments
    BY <1>a, RuntimeAssumption DEF Cause, Scheduled, Moments
  <2>2. a \in Attempts /\ a.cause = Cause("cron")
    BY <2>1, NoAttemptType DEF Attempts
  <2> HIDE DEF a
  <2>3. Attempt(a) /\ life # "down" /\ causes' \in Nat
    BY <1>1, <1>a DEF Cron, MoreCauses, a
  <2> QED BY <1>1, <2>1, <2>2, <2>3, AttemptKeepsIInv DEF Cron, disk
<1>2. CASE AttemptTimer
  <2>1. attempt # NoAttempt
    BY <1>2 DEF AttemptTimer, NoAttempt
  <2>2. life # "down" /\ attempt \in Attempts /\ attempt.cause.kind = "cron"
    BY <2>1 DEF IInv, GoneIsGone, Shape
  <2> QED BY <1>2, <1>a, <2>2, AttemptKeepsIInv DEF AttemptTimer, disk
<1>3. CASE Refresh
  <2>1. ~Running /\ life # "down" /\ causes' \in Nat
    BY <1>3, <1>a DEF Refresh, Open, MoreCauses
  <2>2. CASE lease
    BY <1>3, <1>a, <2>1, <2>2, IdleKeepsIInv DEF Refresh, disk
  <2>3. CASE ~lease
    <3>1. Cause("refresh") \in [kind : {"cron", "refresh"}, n : Nat, request : {None}, asked : {Never}]
      BY <1>a DEF Cause
    <3>2. attempt' \in Attempts /\ (attempt' # NoAttempt => attempt'.cause.kind = "cron")
      BY <1>3 DEF Refresh, IInv, Shape
    <3> QED BY <1>3, <2>1, <2>3, <3>1, <3>2, NewRunKeepsIInv DEF Refresh, disk
  <2> QED BY <2>2, <2>3
<1>4. CASE RecoveryTimer \/ \E id \in Requests : StartRecovery(id) \/ Submit(id) \/ Cancel(id)
  BY <1>4, RecoveryKeepsIInv
<1>5. CASE CollectionStep
  BY <1>5, CollectionKeepsIInv
<1>6. CASE Maintain
  BY <1>6 DEF Maintain, IInv, Shape, NeverInItsOwnWay, LeaseHasItsCollection, InStep, GoneIsGone, InBrowser,
              IsLive, IsManual, Running, None
<1>7. CASE MaintainEnds
  <2>1. ~InBrowser
    BY <1>7 DEF MaintainEnds, IInv, NeverInItsOwnWay, InBrowser, None
  <2> QED BY <1>7, <2>1 DEF MaintainEnds, IInv, Shape, NeverInItsOwnWay, LeaseHasItsCollection, InStep,
                            GoneIsGone, InBrowser, IsLive, IsManual, Running, None
<1>8. CASE CommandTakesProfile
  BY <1>8, <1>a, IdleKeepsIInv DEF CommandTakesProfile, None
<1>9. CASE CommandSendsSms
  BY <1>9, <1>a, IdleKeepsIInv DEF CommandSendsSms, MoreCauses
<1>10. CASE CommandEnds
  BY <1>10, <1>a, IdleKeepsIInv DEF CommandEnds, None
<1>11. CASE ClearLock
  BY <1>11, <1>a, IdleKeepsIInv DEF ClearLock, Release, None
<1>12. CASE Boot
  BY <1>12, <1>a, IdleKeepsIInv DEF Boot, disk
<1>13. CASE Stop \/ Close
  BY <1>13, SettleKeepsIInv DEF Stop, Close, StopAll, Outcomes
<1>14. CASE Exit
  <2>1. lock # "server"
    BY <1>14, EmptyTypes DEF Exit, IInv, NeverInItsOwnWay, InBrowser, Running, None
  <2> QED BY <1>14, <1>a, <2>1, ForgetKeepsIInv DEF Exit, disk
<1>15. CASE Die
  BY <1>15, <1>a, ForgetKeepsIInv DEF Die
<1>16. CASE Tick
  BY <1>16, <1>a, IdleKeepsIInv DEF Tick, disk
<1>17. CASE UNCHANGED vars
  BY <1>17, <1>a, IdleKeepsIInv DEF vars, disk
<1> QED BY <1>1, <1>2, <1>3, <1>4, <1>5, <1>6, <1>7, <1>8, <1>9, <1>10, <1>11, <1>12, <1>13, <1>14, <1>15,
           <1>16, <1>17 DEF Next


(* The invariant holds in every state of every behaviour. *)
THEOREM InvariantHolds == Spec => []IInv
BY InitIInv, StepKeepsIInv, PTL DEF Spec

-----------------------------------------------------------------------------
(* What a recovery came to is decided once. *)

Records == [state : {None, "interrupted"} \cup Outcomes, createdAt : Moments]

\* The saved record of a live recovery still says that it was interrupted.
Tombstoned ==
    /\ records \in [Requests -> Records]
    /\ recovery.state # None => recovery.id \in Requests
    /\ IsLive => records[recovery.id].state = "interrupted"

Settles ==
    /\ recovery'.id = recovery.id /\ recovery.state \in Outcomes
            => recovery'.state = recovery.state
    /\ \A id \in Requests :
            records[id].state \in Outcomes => records'[id] = records[id] \/ records'[id] = NoRecord

\* The four ways a step can treat the recovery and its record.
Leaves == recovery' = recovery /\ records' = records
Ends == \E outcome \in Outcomes : End(outcome)
Proceeds ==
    /\ IsLive
    /\ \E state \in LiveStates, expires \in Moments :
          recovery' = [recovery EXCEPT !.state = state, !.expires = expires]
    /\ records' = records
Drops == recovery' = NoRecovery /\ records' = records

(* A collection that ends or does not get the profile may end its recovery, and does no more to it. *)
LEMMA RunEndsKind == ASSUME NEW result, RunEnds(result) PROVE Leaves \/ Ends
BY DEF RunEnds, Finish, Leaves, Ends, Outcomes

(* The steps of a collection. *)
LEMMA CollectionKind == ASSUME IInv, CollectionStep PROVE Leaves \/ Ends \/ Proceeds
<1>1. CASE Abandon
  BY <1>1, RunEndsKind DEF Abandon
<1>2. CASE Collect \/ Login \/ CollectAgain
  BY <1>2, RunEndsKind DEF Collect, Login, CollectAgain, TakeProfile, Leaves
<1>3. CASE LoginFails
  BY <1>3, RunEndsKind DEF LoginFails
<1>4. CASE CodeTimesOut
  BY <1>4 DEF CodeTimesOut, Ends, Outcomes
<1>5. CASE LoggedIn \/ Reserve \/ SendSms \/ ReceiveCode
  BY <1>5 DEF LoggedIn, Reserve, SendSms, ReceiveCode, Leaves, disk
<1>6. CASE AwaitCode
  <2>1. CASE IsManual
    <3>1. recovery' = [recovery EXCEPT !.state = "awaiting_code"] /\ IsLive
      BY <1>6, <2>1 DEF AwaitCode, Unaborted, IInv, InStep
    <3>2. recovery.expires \in Moments /\ recovery' = [recovery EXCEPT !.state = "awaiting_code",
                                                                       !.expires = recovery.expires]
      BY <3>1 DEF IInv, Shape, Recoveries
    <3> QED BY <1>6, <3>1, <3>2 DEF AwaitCode, disk, Proceeds, LiveStates
  <2> QED BY <1>6, <2>1 DEF AwaitCode, Leaves, disk
<1>7. ASSUME NEW result, Collected(result) PROVE Leaves \/ Ends
  BY <1>7, RunEndsKind DEF Collected, Leaves
<1> QED BY <1>1, <1>2, <1>3, <1>4, <1>5, <1>6, <1>7 DEF CollectionStep

(* All steps. *)
LEMMA StepKind ==
    ASSUME IInv, [Next]_vars
    PROVE  Leaves \/ Ends \/ Proceeds \/ Drops \/ \E id \in Requests : StartRecovery(id)
<1>1. CASE CollectionStep
  BY <1>1, CollectionKind
<1>2. CASE RecoveryTimer \/ \E id \in Requests : Cancel(id)
  BY <1>2 DEF RecoveryTimer, Cancel, Ends, Outcomes
<1>3. ASSUME NEW id \in Requests, Submit(id) PROVE Ends \/ Proceeds
  BY <1>3 DEF Submit, Ends, Proceeds, IsLive, LiveStates, Outcomes, Moments
<1>4. CASE Stop \/ Close
  BY <1>4 DEF Stop, Close, StopAll, Ends, Outcomes
<1>5. CASE Exit \/ Die
  BY <1>5 DEF Exit, Die, Forget, Drops, disk
<1>6. CASE Cron \/ AttemptTimer \/ Refresh \/ Boot \/ Tick \/ UNCHANGED vars
  BY <1>6 DEF Cron, AttemptTimer, Refresh, Boot, Tick, vars, disk, Leaves
<1>7. CASE Maintain \/ MaintainEnds \/ CommandTakesProfile \/ CommandSendsSms \/ CommandEnds \/ ClearLock
  BY <1>7 DEF Maintain, MaintainEnds, CommandTakesProfile, CommandSendsSms, CommandEnds, ClearLock, Leaves
<1> QED BY <1>1, <1>2, <1>3, <1>4, <1>5, <1>6, <1>7 DEF Next

(* Every step keeps what is settled, and the tombstone of what is not. *)
LEMMA StepSettles ==
    ASSUME IInv, Tombstoned, [Next]_vars
    PROVE  Tombstoned' /\ Settles
<1>1. CASE Leaves
  BY <1>1 DEF Leaves, Tombstoned, Settles, IsLive
<1>2. CASE Ends
  <2>1. PICK outcome \in Outcomes : End(outcome)
    BY <1>2 DEF Ends
  <2>2. CASE ~IsLive
    BY <2>1, <2>2 DEF End, Tombstoned, Settles, IsLive
  <2>3. CASE IsLive
    <3>1. recovery'.id = recovery.id /\ recovery'.state = outcome /\ recovery.id \in Requests
      BY <2>1, <2>3 DEF End, IInv, Shape, Recoveries, Tombstoned, IsLive, None
    <3>2. records' = records \/ records' = [records EXCEPT ![recovery.id].state = outcome]
      BY <2>1, <2>3 DEF End
    <3>3. records' \in [Requests -> Records]
      BY <3>1, <3>2 DEF Tombstoned, Records
    <3>4. \A id \in Requests : id # recovery.id => records'[id] = records[id]
      BY <3>1, <3>2 DEF Tombstoned
    <3>5. recovery.state \notin Outcomes /\ records[recovery.id].state \notin Outcomes
      BY <2>3 DEF Tombstoned, IsLive, Outcomes
    <3>6. ~IsLive'
      BY <3>1 DEF IsLive, Outcomes
    <3> QED BY <3>1, <3>3, <3>4, <3>5, <3>6 DEF Tombstoned, Settles
  <2> QED BY <2>2, <2>3
<1>3. CASE Proceeds
  <2>1. recovery'.id = recovery.id /\ recovery.id \in Requests /\ records' = records
    BY <1>3 DEF Proceeds, IInv, Shape, Recoveries, Tombstoned, IsLive, None
  <2>2. recovery.state \notin Outcomes /\ IsLive
    BY <1>3 DEF Proceeds, IsLive, Outcomes
  <2> QED BY <2>1, <2>2 DEF Tombstoned, Settles
<1>4. CASE Drops
  <2>1. ~IsLive' /\ recovery'.state = None /\ recovery'.id = None
    BY <1>4 DEF Drops, NoRecovery, IsLive, None
  <2>2. recovery.state \in Outcomes => recovery.id # None
    BY RuntimeAssumption DEF Tombstoned, Outcomes, None
  <2> QED BY <1>4, <2>1, <2>2 DEF Drops, Tombstoned, Settles
<1>5. ASSUME NEW id \in Requests, StartRecovery(id) PROVE Tombstoned' /\ Settles
  <2>1. recovery'.id = id /\ recovery.id # id
    BY <1>5 DEF StartRecovery
  <2>2. NoRecord \in Records /\ [state |-> "interrupted", createdAt |-> clock] \in Records
    BY DEF NoRecord, Records, Moments, IInv, Shape
  <2>3. records' \in [Requests -> Records] /\ records'[id].state = "interrupted"
    BY <1>5, <2>2 DEF StartRecovery, ReserveRecord, Tombstoned
  <2>4. \A r \in Requests : r # id => records'[r] = records[r] \/ records'[r] = NoRecord
    BY <1>5 DEF StartRecovery, ReserveRecord
  <2>5. records[id].state \notin Outcomes
    BY <1>5 DEF StartRecovery, NoRecord, Outcomes, None
  <2> QED BY <2>1, <2>3, <2>4, <2>5 DEF Tombstoned, Settles
<1> QED BY <1>1, <1>2, <1>3, <1>4, <1>5, StepKind

(* An aborted collection stores nothing and asks for nothing. *)
Silent == run.aborted => source' = source /\ (texts' = texts \/ lock = "command")

LEMMA StepSilent ==
    ASSUME [Next]_vars
    PROVE  Silent
<1>1. CASE CollectionStep
  <2>1. CASE Abandon \/ CodeTimesOut
    BY <2>1 DEF Abandon, CodeTimesOut, Silent
  <2>2. CASE Collect \/ Login \/ LoggedIn \/ LoginFails \/ CollectAgain
    BY <2>2 DEF Collect, Login, LoggedIn, LoginFails, CollectAgain, Silent
  <2>3. CASE Reserve \/ SendSms \/ AwaitCode \/ ReceiveCode
    BY <2>3 DEF Reserve, SendSms, AwaitCode, ReceiveCode, Unaborted, Silent
  <2>4. ASSUME NEW result \in {"ok", "auth_required", "error"}, Collected(result) PROVE Silent
    BY <2>4 DEF Collected, MayStore, Silent
  <2> QED BY <1>1, <2>1, <2>2, <2>3, <2>4 DEF CollectionStep
<1>2. ASSUME NEW id \in Requests, StartRecovery(id) \/ Submit(id) \/ Cancel(id) PROVE Silent
  BY <1>2 DEF StartRecovery, Submit, Cancel, Silent
<1>3. CASE RecoveryTimer \/ Cron \/ AttemptTimer \/ Refresh
  BY <1>3 DEF RecoveryTimer, Cron, AttemptTimer, Refresh, disk, Silent
<1>4. CASE Maintain \/ MaintainEnds \/ CommandTakesProfile \/ CommandSendsSms \/ CommandEnds \/ ClearLock
  BY <1>4 DEF Maintain, MaintainEnds, CommandTakesProfile, CommandSendsSms, CommandEnds, ClearLock, Silent
<1>5. CASE Boot \/ Stop \/ Close \/ Exit \/ Die \/ Tick \/ UNCHANGED vars
  BY <1>5 DEF Boot, Stop, Close, Exit, Die, Tick, disk, vars, Silent
<1> QED BY <1>1, <1>2, <1>3, <1>4, <1>5 DEF Next

-----------------------------------------------------------------------------
(* The lease of a recovery is held exactly while the recovery is live, and its collection is then  *)
(* under way (providerLeases and release in manual-recovery.ts): no order of codes, deadlines,     *)
(* cancellations, failures, shutdown and deaths leaves a lease behind that would refuse every      *)
(* later collection of the process.                                                                *)
THEOREM LeaseIsNeverStuck == Spec => []LeaseHasItsCollection
BY InvariantHolds, PTL DEF IInv

(* The profile's lock is the server's exactly while a browser of its own is open, and no collection *)
(* meets a session renewal of its own process there (runtime.ts, browser.ts).                       *)
THEOREM ProfileIsReleased == Spec => []NeverInItsOwnWay
BY InvariantHolds, PTL DEF IInv

(* Of deadline, code, cancellation, shutdown and the end of the collection only the first decides   *)
(* what a recovery came to, in memory and in the saved record (end in manual-recovery.ts); and an   *)
(* aborted collection has no effect any more (the checks of the signal in collector.ts).            *)
THEOREM RecoveriesSettleOnce == Spec => SettledOnce
<1>1. Init => Tombstoned
  BY DEF Init, Tombstoned, Records, NoRecovery, NoRecord, IsLive, Moments, None
<1>2. IInv /\ Tombstoned /\ [Next]_vars => Tombstoned' /\ [Settles /\ Silent]_vars
  BY StepSettles, StepSilent
<1>3. [Settles /\ Silent]_vars <=>
        [/\ recovery'.id = recovery.id /\ recovery.state \in Outcomes
              => recovery'.state = recovery.state
         /\ \A id \in Requests : records[id].state \in Outcomes
              => records'[id] = records[id] \/ records'[id] = NoRecord
         /\ run.aborted => source' = source /\ (texts' = texts \/ lock = "command")]_vars
  BY DEF Settles, Silent
<1> QED BY <1>1, <1>2, <1>3, InvariantHolds, PTL DEF Spec, SettledOnce

-----------------------------------------------------------------------------
(* The allowance of SMS: the list on disk counts every text of the last day. *)

Texts == [at : Nat, cause : [kind : {None, "cron", "refresh", "recovery", "command"}, n : Nat,
                             request : Requests \cup {None}, asked : Moments]]

\* The texts asked for at a time after lo and no later than hi.
Asked(lo, hi) == {j \in DOMAIN texts : lo < texts[j].at /\ texts[j].at <= hi}

\* The text of the collection under way, allowed and not asked for yet.
Owed(lo, hi) == IF run.reserved # Never /\ lo < run.reserved /\ run.reserved <= hi THEN 1 ELSE 0

Kept(lo) == {entry \in sms : lo < entry.at}

BooksType ==
    /\ texts \in Seq(Texts)
    /\ sms \in SUBSET [at : Nat, place : Nat] /\ IsFiniteSet(sms)

\* Times do not run ahead, and an entry of this moment is told from the next one.
Timely ==
    /\ \A j \in DOMAIN texts : texts[j].at <= clock
    /\ run.reserved # Never <=> run.stage = "reserved"
    /\ run.reserved <= clock
    /\ \A entry \in sms :
          /\ entry.at <= clock
          /\ entry.at = clock => sms = Recent /\ entry.place < Cardinality(sms)

Counted ==
    \A lo, hi \in Int : lo >= clock - Day
        => Cardinality(Asked(lo, hi)) + Owed(lo, hi) <= Cardinality(Kept(lo))

Windows == \A hi \in Int : Cardinality(Asked(hi - Day, hi)) + Owed(hi - Day, hi) <= SmsLimit

BooksOK == BooksType /\ Timely /\ Counted /\ Windows

(* The times of the texts are numbers. *)
LEMMA TextTypes ==
    ASSUME BooksType, NEW j \in DOMAIN texts
    PROVE  /\ texts[j] \in Texts /\ texts[j].at \in Nat /\ texts[j].cause.n \in Nat
           /\ texts[j].cause.request \in Requests \cup {None}
<1>1. texts[j] \in Texts
  BY DEF BooksType
<1> QED BY <1>1 DEF Texts

(* The counts are numbers. *)
LEMMA CountsAreNat ==
    ASSUME BooksType, NEW lo \in Int, NEW hi \in Int
    PROVE  /\ IsFiniteSet(Asked(lo, hi)) /\ Cardinality(Asked(lo, hi)) \in Nat
           /\ IsFiniteSet(Kept(lo)) /\ Cardinality(Kept(lo)) \in Nat
           /\ IsFiniteSet(Recent) /\ Cardinality(Recent) \in Nat
           /\ Owed(lo, hi) \in Nat
<1>1. IsFiniteSet(1 .. Len(texts))
  BY FS_Interval DEF BooksType
<1>2. Asked(lo, hi) \subseteq 1 .. Len(texts)
  BY DEF Asked, BooksType
<1>3. Kept(lo) \subseteq sms /\ Recent \subseteq sms
  BY DEF Kept, Recent
<1> QED BY <1>1, <1>2, <1>3, FS_Subset, FS_CardinalityType DEF BooksType, Owed

(* One more text counts once where its time is in the window. *)
LEMMA OneMoreText ==
    ASSUME BooksType, NEW t \in Texts, texts' = Append(texts, t), NEW lo \in Int, NEW hi \in Int
    PROVE  /\ texts' \in Seq(Texts)
           /\ Cardinality(Asked(lo, hi)') =
                  Cardinality(Asked(lo, hi)) + IF lo < t.at /\ t.at <= hi THEN 1 ELSE 0
<1> DEFINE n == Len(texts) + 1
<1>1. /\ texts' \in Seq(Texts) /\ DOMAIN texts' = DOMAIN texts \cup {n} /\ n \notin DOMAIN texts
      /\ texts'[n] = t /\ \A j \in DOMAIN texts : texts'[j] = texts[j]
  BY DEF BooksType
<1> HIDE DEF n
<1>2. Asked(lo, hi)' = IF lo < t.at /\ t.at <= hi THEN Asked(lo, hi) \cup {n} ELSE Asked(lo, hi)
  BY <1>1 DEF Asked
<1>3. n \notin Asked(lo, hi)
  BY <1>1 DEF Asked
<1>4. IsFiniteSet(Asked(lo, hi)) /\ Cardinality(Asked(lo, hi)) \in Nat
  BY CountsAreNat
<1>5. Cardinality(Asked(lo, hi) \cup {n}) = Cardinality(Asked(lo, hi)) + 1
  BY <1>3, <1>4, FS_AddElement
<1> QED BY <1>1, <1>2, <1>4, <1>5

(* One more entry counts once, and nothing of the last day is forgotten. *)
LEMMA OneMoreEntry ==
    ASSUME BooksType, Timely, clock \in Nat, Consume
    PROVE  /\ sms' \in SUBSET [at : Nat, place : Nat] /\ IsFiniteSet(sms')
           /\ Cardinality(sms') = Cardinality(Recent) + 1
           /\ \A lo \in Int : lo >= clock - Day =>
                 Cardinality(Kept(lo)') = Cardinality(Kept(lo)) + IF lo < clock THEN 1 ELSE 0
<1> DEFINE entry == [at |-> clock, place |-> Cardinality(Recent)]
<1>1. IsFiniteSet(Recent) /\ Cardinality(Recent) \in Nat
  BY CountsAreNat
<1>2. sms' = Recent \cup {entry} /\ Recent \subseteq sms
  BY DEF Consume, Recent
<1>3. entry \in [at : Nat, place : Nat] /\ entry.at = clock /\ entry.place = Cardinality(Recent)
  BY <1>1
<1> HIDE DEF entry
<1>4. entry \notin sms
  BY <1>1, <1>3 DEF Timely
<1>5. IsFiniteSet(sms') /\ Cardinality(sms') = Cardinality(Recent) + 1
  BY <1>1, <1>2, <1>4, FS_AddElement
<1>6. ASSUME NEW lo \in Int, lo >= clock - Day
      PROVE  Cardinality(Kept(lo)') = Cardinality(Kept(lo)) + IF lo < clock THEN 1 ELSE 0
  <2>1. \A e \in sms : e.at > lo => e \in Recent
    BY <1>6, RuntimeAssumption DEF Recent, BooksType
  <2>2. Kept(lo)' = IF lo < clock THEN Kept(lo) \cup {entry} ELSE Kept(lo)
    BY <1>2, <1>3, <2>1 DEF Kept
  <2>3. entry \notin Kept(lo)
    BY <1>4 DEF Kept
  <2>4. IsFiniteSet(Kept(lo)) /\ Cardinality(Kept(lo)) \in Nat
    BY CountsAreNat
  <2>5. Cardinality(Kept(lo) \cup {entry}) = Cardinality(Kept(lo)) + 1
    BY <2>3, <2>4, FS_AddElement
  <2> QED BY <2>2, <2>4, <2>5
<1> QED BY <1>2, <1>3, <1>5, <1>6 DEF BooksType

(* A window that begins later begins within the earlier one. *)
LEMMA LaterIsLater ==
    ASSUME NEW a \in Int, NEW b \in Int, NEW d \in Int, NEW x \in Int, a <= b, x >= b - d
    PROVE  x >= a - d
OBVIOUS

\* Nothing is asked for and nothing is entered, and what was allowed stays or is dropped.
Quiet ==
    /\ sms' = sms /\ texts' = texts /\ clock' \in {clock, clock + 1}
    /\ \/ run'.reserved = run.reserved /\ run'.stage = run.stage
       \/ run'.reserved = Never /\ run'.stage # "reserved"

(* A quiet step keeps the books: time passing only shortens what is recent. *)
LEMMA QuietKeepsBooks == ASSUME IInv, BooksOK, Quiet PROVE BooksOK'
<1>1. clock \in Nat /\ clock' \in {clock, clock + 1} /\ Day \in Nat
  BY RuntimeAssumption DEF IInv, Shape, Quiet
<1>2. ASSUME NEW lo \in Int, NEW hi \in Int
      PROVE  /\ Asked(lo, hi)' = Asked(lo, hi) /\ Kept(lo)' = Kept(lo)
             /\ Owed(lo, hi)' <= Owed(lo, hi) /\ Owed(lo, hi)' \in Nat
  BY DEF Asked, Kept, Owed, Quiet
<1>3. BooksType'
  <2>1. texts' = texts /\ sms' = sms
    BY DEF Quiet
  <2> QED BY <2>1 DEF BooksOK, BooksType
<1>4. Timely'
  <2>1. \A entry \in sms : entry.at = clock' => clock' = clock
    BY <1>1 DEF BooksOK, BooksType, Timely, Quiet
  <2>2. clock' = clock => Recent' = Recent
    BY DEF Recent, Quiet
  <2>3. \A j \in DOMAIN texts : texts[j].at \in Nat
    BY TextTypes DEF BooksOK
  <2> QED BY <1>1, <2>1, <2>2, <2>3 DEF BooksOK, BooksType, Timely, Quiet, IInv, Shape, Runs, Moments, Never
<1>5. Counted'
  <2> SUFFICES ASSUME NEW lo \in Int, NEW hi \in Int, lo >= clock' - Day
               PROVE  (Cardinality(Asked(lo, hi)) + Owed(lo, hi) <= Cardinality(Kept(lo)))'
    BY DEF Counted
  <2>1. lo >= clock - Day
    <3>1. clock \in Int /\ clock' \in Int /\ Day \in Int /\ clock <= clock'
      BY <1>1
    <3> QED BY <3>1, LaterIsLater
  <2>2. Cardinality(Asked(lo, hi)) + Owed(lo, hi) <= Cardinality(Kept(lo))
    BY <2>1 DEF BooksOK, Counted
  <2>3. Cardinality(Asked(lo, hi)) \in Nat /\ Cardinality(Kept(lo)) \in Nat /\ Owed(lo, hi) \in Nat
    BY CountsAreNat DEF BooksOK
  <2> QED BY <1>2, <2>2, <2>3
<1>6. Windows'
  <2> SUFFICES ASSUME NEW hi \in Int
               PROVE  (Cardinality(Asked(hi - Day, hi)) + Owed(hi - Day, hi) <= SmsLimit)'
    BY DEF Windows
  <2>1. hi - Day \in Int /\ SmsLimit \in Nat
    BY <1>1, RuntimeAssumption
  <2>2. Cardinality(Asked(hi - Day, hi)) + Owed(hi - Day, hi) <= SmsLimit
    BY DEF BooksOK, Windows
  <2>3. Cardinality(Asked(hi - Day, hi)) \in Nat /\ Owed(hi - Day, hi) \in Nat
    BY <2>1, CountsAreNat DEF BooksOK
  <2>4. Asked(hi - Day, hi)' = Asked(hi - Day, hi) /\ Owed(hi - Day, hi)' <= Owed(hi - Day, hi)
        /\ Owed(hi - Day, hi)' \in Nat
    BY <1>2, <2>1
  <2> QED BY <2>1, <2>2, <2>3, <2>4
<1> QED BY <1>3, <1>4, <1>5, <1>6 DEF BooksOK

(* An entry made within the allowance leaves room in every window. *)
LEMMA RoomInWindows ==
    ASSUME IInv, BooksOK, Allowed, NEW hi \in Int, clock <= hi, hi - Day < clock
    PROVE  Cardinality(Asked(hi - Day, hi)) + Owed(hi - Day, hi) + 1 <= SmsLimit
<1> DEFINE lo == hi - Day
<1>1. clock \in Int /\ Day \in Nat \ {0} /\ SmsLimit \in Nat
  BY RuntimeAssumption DEF IInv, Shape
<1>2. lo \in Int /\ lo >= clock - Day
  BY <1>1
<1>3. Cardinality(Asked(lo, hi)) + Owed(lo, hi) <= Cardinality(Kept(lo))
  BY <1>2 DEF BooksOK, Counted
<1> HIDE DEF lo
<1>4. Kept(lo) \subseteq Recent
  BY <1>1, <1>2 DEF Kept, Recent, BooksOK, BooksType
<1>5. BooksType
  BY DEF BooksOK
<1>6. /\ Cardinality(Asked(lo, hi)) \in Nat /\ Owed(lo, hi) \in Nat /\ Cardinality(Kept(lo)) \in Nat
      /\ IsFiniteSet(Recent) /\ Cardinality(Recent) \in Nat
  BY <1>2, <1>5, CountsAreNat
<1>7. Cardinality(Kept(lo)) <= Cardinality(Recent)
  BY <1>4, <1>6, FS_Subset
<1>8. Cardinality(Asked(lo, hi)) + Owed(lo, hi) + 1 <= SmsLimit
  BY <1>1, <1>3, <1>6, <1>7 DEF Allowed
<1> QED BY <1>8 DEF lo

(* The list, and the times, after one more entry. *)
LEMMA TimelyAfterEntry ==
    ASSUME IInv, BooksOK, Consume, clock' = clock,
           \A j \in DOMAIN texts' : texts'[j].at <= clock,
           run'.reserved # Never <=> run'.stage = "reserved", run'.reserved <= clock
    PROVE  Timely'
<1>1. clock \in Nat /\ Day \in Nat \ {0} /\ BooksType /\ Timely
  BY RuntimeAssumption DEF IInv, Shape, BooksOK
<1>2. Cardinality(sms') = Cardinality(Recent) + 1 /\ IsFiniteSet(Recent) /\ Cardinality(Recent) \in Nat
  BY <1>1, OneMoreEntry, CountsAreNat
<1>3. \A entry \in sms' : entry.at <= clock /\ entry.at > clock - Day
  BY <1>1, <1>2 DEF Consume, Recent, Timely, BooksType
<1>4. sms' = Recent'
  BY <1>3 DEF Recent
<1>5. \A entry \in Recent : entry.at = clock => entry.place < Cardinality(Recent)
  <2>1. ASSUME NEW entry \in Recent, entry.at = clock PROVE entry.place < Cardinality(Recent)
    <3>1. entry \in sms
      BY DEF Recent
    <3> QED BY <1>1, <2>1, <3>1 DEF Timely
  <2> QED BY <2>1
<1>6. ASSUME NEW entry \in sms', entry.at = clock PROVE entry.place < Cardinality(sms')
  <2>1. CASE entry \in Recent
    BY <1>1, <1>2, <1>5, <1>6, <2>1 DEF Recent, BooksType
  <2>2. CASE entry.place = Cardinality(Recent)
    BY <1>2, <2>2
  <2> QED BY <1>6, <2>1, <2>2 DEF Consume
<1> QED BY <1>3, <1>4, <1>6 DEF Timely

(* A text is allowed. *)
LEMMA ReserveKeepsBooks == ASSUME IInv, BooksOK, Reserve PROVE BooksOK'
<1>1. /\ clock \in Nat /\ Day \in Nat \ {0} /\ BooksType /\ Timely /\ Counted /\ Windows
      /\ clock' = clock /\ texts' = texts /\ Consume /\ Allowed
      /\ SmsLimit \in Nat
  BY RuntimeAssumption DEF Reserve, IInv, Shape, BooksOK
<1>2. run.reserved = Never
  BY DEF Reserve, BooksOK, Timely
<1>3. run'.stage = "reserved" /\ run'.reserved = clock
  BY DEF Reserve, IInv, Shape, Runs
<1>4. BooksType'
  BY <1>1, OneMoreEntry DEF BooksType
<1>5. Timely'
  <2>1. \A j \in DOMAIN texts' : texts'[j].at <= clock
    BY <1>1 DEF Timely
  <2>2. (run'.reserved # Never <=> run'.stage = "reserved") /\ run'.reserved <= clock
    BY <1>1, <1>3 DEF Never
  <2> QED BY <1>1, <2>1, <2>2, TimelyAfterEntry
<1>6. ASSUME NEW lo \in Int, NEW hi \in Int
      PROVE  /\ Asked(lo, hi)' = Asked(lo, hi)
             /\ Owed(lo, hi) = 0
             /\ Owed(lo, hi)' = IF lo < clock /\ clock <= hi THEN 1 ELSE 0
  BY <1>1, <1>2, <1>3 DEF Asked, Owed, Never
<1>7. Counted'
  <2> SUFFICES ASSUME NEW lo \in Int, NEW hi \in Int, lo >= clock - Day
               PROVE  (Cardinality(Asked(lo, hi)) + Owed(lo, hi) <= Cardinality(Kept(lo)))'
    BY <1>1 DEF Counted
  <2>1. Cardinality(Asked(lo, hi)) + Owed(lo, hi) <= Cardinality(Kept(lo))
    BY <1>1 DEF Counted
  <2>2. Cardinality(Asked(lo, hi)) \in Nat /\ Cardinality(Kept(lo)) \in Nat
    BY <1>1, CountsAreNat
  <2>3. Cardinality(Kept(lo)') = Cardinality(Kept(lo)) + IF lo < clock THEN 1 ELSE 0
    BY <1>1, OneMoreEntry
  <2> QED BY <1>6, <2>1, <2>2, <2>3
<1>8. Windows'
  <2> SUFFICES ASSUME NEW hi \in Int
               PROVE  (Cardinality(Asked(hi - Day, hi)) + Owed(hi - Day, hi) <= SmsLimit)'
    BY DEF Windows
  <2>1. hi - Day \in Int
    BY <1>1
  <2>2. Cardinality(Asked(hi - Day, hi)) + Owed(hi - Day, hi) <= SmsLimit
    BY <1>1 DEF Windows
  <2>3. Cardinality(Asked(hi - Day, hi)) \in Nat
    BY <1>1, <2>1, CountsAreNat
  <2>4. /\ Asked(hi - Day, hi)' = Asked(hi - Day, hi)
        /\ Owed(hi - Day, hi) = 0
        /\ Owed(hi - Day, hi)' = IF hi - Day < clock /\ clock <= hi THEN 1 ELSE 0
    BY <1>6, <2>1
  <2>5. hi - Day < clock /\ clock <= hi =>
            Cardinality(Asked(hi - Day, hi)) + Owed(hi - Day, hi) + 1 <= SmsLimit
    BY <1>1, RoomInWindows
  <2> QED BY <2>2, <2>3, <2>4, <2>5
<1> QED BY <1>4, <1>5, <1>7, <1>8 DEF BooksOK

(* The text that was allowed is asked for. *)
LEMMA SendKeepsBooks == ASSUME IInv, BooksOK, SendSms PROVE BooksOK'
<1> DEFINE t == [at |-> run.reserved, cause |-> run.cause]
<1>1. /\ clock \in Nat /\ Day \in Nat \ {0} /\ BooksType /\ Timely /\ Counted /\ Windows
      /\ clock' = clock /\ sms' = sms /\ texts' = Append(texts, t)
      /\ SmsLimit \in Nat
  BY RuntimeAssumption DEF SendSms, disk, IInv, Shape, BooksOK
<1>2. run'.reserved = Never /\ run'.stage = "sent" /\ run.reserved \in Nat /\ run.reserved <= clock
  BY <1>1 DEF SendSms, IInv, Shape, Runs, Timely, Moments
<1>3. t \in Texts /\ t.at = run.reserved
  BY <1>2 DEF IInv, Shape, Runs, Texts
<1> HIDE DEF t
<1>4. ASSUME NEW lo \in Int, NEW hi \in Int
      PROVE  /\ texts' \in Seq(Texts)
             /\ Kept(lo)' = Kept(lo)
             /\ Cardinality(Asked(lo, hi)') + Owed(lo, hi)' = Cardinality(Asked(lo, hi)) + Owed(lo, hi)
  <2>1. /\ texts' \in Seq(Texts)
        /\ Cardinality(Asked(lo, hi)') =
              Cardinality(Asked(lo, hi)) + IF lo < t.at /\ t.at <= hi THEN 1 ELSE 0
    BY <1>1, <1>3, OneMoreText
  <2>2. Owed(lo, hi)' = 0 /\ Owed(lo, hi) = IF lo < t.at /\ t.at <= hi THEN 1 ELSE 0
    BY <1>2, <1>3 DEF Owed, Never
  <2>3. Cardinality(Asked(lo, hi)) \in Nat
    BY <1>1, CountsAreNat
  <2> QED BY <1>1, <2>1, <2>2, <2>3 DEF Kept
<1>5. texts' \in Seq(Texts)
  BY <1>4
<1>6. BooksType'
  BY <1>1, <1>5 DEF BooksType
<1>7. Timely'
  <2>1. \A j \in DOMAIN texts' : texts'[j].at <= clock
    BY <1>1, <1>2, <1>3 DEF BooksType, Timely
  <2>2. Recent' = Recent
    BY <1>1 DEF Recent
  <2> QED BY <1>1, <1>2, <2>1, <2>2 DEF Timely, Never
<1>8. Counted'
  BY <1>1, <1>4 DEF Counted
<1>9. Windows'
  <2> SUFFICES ASSUME NEW hi \in Int
               PROVE  (Cardinality(Asked(hi - Day, hi)) + Owed(hi - Day, hi) <= SmsLimit)'
    BY DEF Windows
  <2>1. hi - Day \in Int
    BY <1>1
  <2>2. Cardinality(Asked(hi - Day, hi)) + Owed(hi - Day, hi) <= SmsLimit
    BY <1>1 DEF Windows
  <2>3. Cardinality(Asked(hi - Day, hi)') + Owed(hi - Day, hi)' =
            Cardinality(Asked(hi - Day, hi)) + Owed(hi - Day, hi)
    BY <1>4, <2>1
  <2> QED BY <2>2, <2>3
<1> QED BY <1>6, <1>7, <1>8, <1>9 DEF BooksOK

(* A command asks for a text at once. *)
LEMMA CommandKeepsBooks == ASSUME IInv, BooksOK, CommandSendsSms PROVE BooksOK'
<1> DEFINE t == [at |-> clock, cause |-> Cause("command")]
<1>1. /\ clock \in Nat /\ Day \in Nat \ {0} /\ BooksType /\ Timely /\ Counted /\ Windows
      /\ clock' = clock /\ Consume /\ Allowed /\ texts' = Append(texts, t) /\ run' = run
      /\ SmsLimit \in Nat
  BY RuntimeAssumption DEF CommandSendsSms, IInv, Shape, BooksOK
<1>2. t \in Texts /\ t.at = clock
  <2>1. causes + 1 \in Nat /\ Never \in Moments
    BY DEF IInv, Shape, Moments
  <2> QED BY <1>1, <2>1 DEF Texts, Cause
<1> HIDE DEF t
<1>3. ASSUME NEW lo \in Int, NEW hi \in Int
      PROVE  /\ texts' \in Seq(Texts)
             /\ Cardinality(Asked(lo, hi)') =
                   Cardinality(Asked(lo, hi)) + IF lo < clock /\ clock <= hi THEN 1 ELSE 0
             /\ Owed(lo, hi)' = Owed(lo, hi)
             /\ Cardinality(Asked(lo, hi)) \in Nat /\ Owed(lo, hi) \in Nat
             /\ Cardinality(Kept(lo)) \in Nat
  <2>1. /\ texts' \in Seq(Texts)
        /\ Cardinality(Asked(lo, hi)') =
              Cardinality(Asked(lo, hi)) + IF lo < t.at /\ t.at <= hi THEN 1 ELSE 0
    BY <1>1, <1>2, OneMoreText
  <2>2. Owed(lo, hi)' = Owed(lo, hi)
    BY <1>1 DEF Owed
  <2>3. /\ Cardinality(Asked(lo, hi)) \in Nat /\ Owed(lo, hi) \in Nat
        /\ Cardinality(Kept(lo)) \in Nat
    BY <1>1, CountsAreNat
  <2> QED BY <1>2, <2>1, <2>2, <2>3
<1>4. BooksType'
  <2>1. texts' \in Seq(Texts)
    BY <1>3
  <2> QED BY <1>1, <2>1, OneMoreEntry DEF BooksType
<1>5. Timely'
  <2>1. \A j \in DOMAIN texts' : texts'[j].at <= clock
    BY <1>1, <1>2 DEF BooksType, Timely
  <2> QED BY <1>1, <2>1, TimelyAfterEntry DEF Timely
<1>6. Counted'
  <2> SUFFICES ASSUME NEW lo \in Int, NEW hi \in Int, lo >= clock - Day
               PROVE  (Cardinality(Asked(lo, hi)) + Owed(lo, hi) <= Cardinality(Kept(lo)))'
    BY <1>1 DEF Counted
  <2>1. Cardinality(Asked(lo, hi)) + Owed(lo, hi) <= Cardinality(Kept(lo))
    BY <1>1 DEF Counted
  <2>2. Cardinality(Kept(lo)') = Cardinality(Kept(lo)) + IF lo < clock THEN 1 ELSE 0
    BY <1>1, OneMoreEntry
  <2>3. /\ Cardinality(Asked(lo, hi)') =
             Cardinality(Asked(lo, hi)) + IF lo < clock /\ clock <= hi THEN 1 ELSE 0
        /\ Owed(lo, hi)' = Owed(lo, hi)
        /\ Cardinality(Asked(lo, hi)) \in Nat /\ Owed(lo, hi) \in Nat
        /\ Cardinality(Kept(lo)) \in Nat
    BY <1>3
  <2> QED BY <2>1, <2>2, <2>3
<1>7. Windows'
  <2> SUFFICES ASSUME NEW hi \in Int
               PROVE  (Cardinality(Asked(hi - Day, hi)) + Owed(hi - Day, hi) <= SmsLimit)'
    BY DEF Windows
  <2>1. hi - Day \in Int
    BY <1>1
  <2>2. Cardinality(Asked(hi - Day, hi)) + Owed(hi - Day, hi) <= SmsLimit
    BY <1>1 DEF Windows
  <2>3. /\ Cardinality(Asked(hi - Day, hi)') =
             Cardinality(Asked(hi - Day, hi)) + IF hi - Day < clock /\ clock <= hi THEN 1 ELSE 0
        /\ Owed(hi - Day, hi)' = Owed(hi - Day, hi)
        /\ Cardinality(Asked(hi - Day, hi)) \in Nat /\ Owed(hi - Day, hi) \in Nat
    BY <1>3, <2>1
  <2>4. hi - Day < clock /\ clock <= hi =>
            Cardinality(Asked(hi - Day, hi)) + Owed(hi - Day, hi) + 1 <= SmsLimit
    BY <1>1, RoomInWindows
  <2> QED BY <1>1, <2>2, <2>3, <2>4
<1> QED BY <1>4, <1>5, <1>6, <1>7 DEF BooksOK

(* Every other step is quiet. *)
LEMMA BooksKind ==
    ASSUME IInv, BooksOK, [Next]_vars
    PROVE  Quiet \/ Reserve \/ SendSms \/ CommandSendsSms
<1>1. NoRun.reserved = Never /\ NoRun.stage # "reserved"
  BY DEF NoRun, None
<1>2. /\ run.stage # "reserved" => run.reserved = Never
      /\ \A stage \in Stages : Goto(stage) => run'.reserved = run.reserved /\ run'.stage = stage
      /\ run' = Abort(run) => run'.reserved = run.reserved /\ run'.stage = run.stage
      /\ \A cause : NewRun(cause).reserved = Never /\ NewRun(cause).stage = "waiting"
  BY DEF BooksOK, Timely, Goto, Abort, NewRun, NoRun, IInv, Shape, Runs
<1>3. \A result : RunEnds(result) => run' = NoRun
  BY DEF RunEnds
<1>4. CASE CollectionStep
  <2>1. CASE Abandon
    BY <2>1, <1>1, <1>3 DEF Abandon, Quiet
  <2>2. CASE Collect \/ Login \/ CollectAgain
    BY <2>2, <1>1, <1>2, <1>3 DEF Collect, Login, CollectAgain, TakeProfile, Quiet, Stages
  <2>3. CASE LoggedIn
    BY <2>3, <1>2 DEF LoggedIn, Quiet, Stages
  <2>4. CASE LoginFails \/ CodeTimesOut
    BY <2>4, <1>1, <1>3 DEF LoginFails, CodeTimesOut, Quiet
  <2>5. CASE AwaitCode \/ ReceiveCode
    BY <2>5, <1>2 DEF AwaitCode, ReceiveCode, disk, Quiet, Stages
  <2>6. ASSUME NEW result \in {"ok", "auth_required", "error"}, Collected(result) PROVE Quiet
    BY <2>6, <1>1, <1>2, <1>3 DEF Collected, Quiet, Stages
  <2> QED BY <1>4, <2>1, <2>2, <2>3, <2>4, <2>5, <2>6 DEF CollectionStep
<1>5. ASSUME NEW id \in Requests, StartRecovery(id) PROVE Quiet
  BY <1>5, <1>2 DEF StartRecovery, Quiet
<1>6. ASSUME NEW id \in Requests, Submit(id) PROVE Quiet
  <2>1. recovery.state = "awaiting_code" => run.stage = "awaiting"
    BY DEF IInv, LeaseHasItsCollection, InStep, IsLive
  <2> QED BY <1>6, <1>2, <2>1 DEF Submit, Quiet, Stages
<1>7. CASE RecoveryTimer \/ \E id \in Requests : Cancel(id)
  BY <1>7, <1>2 DEF RecoveryTimer, Cancel, Quiet
<1>8. CASE Cron \/ AttemptTimer \/ Refresh
  BY <1>8, <1>2 DEF Cron, AttemptTimer, Refresh, Attempt, disk, Quiet
<1>9. CASE Maintain \/ MaintainEnds \/ CommandTakesProfile \/ CommandEnds \/ ClearLock
  BY <1>9 DEF Maintain, MaintainEnds, CommandTakesProfile, CommandEnds, ClearLock, Quiet
<1>10. CASE Stop \/ Close
  BY <1>10, <1>2 DEF Stop, Close, StopAll, Quiet
<1>11. CASE Exit \/ Die
  BY <1>11, <1>1 DEF Exit, Die, Forget, disk, Quiet
<1>12. CASE Boot \/ Tick \/ UNCHANGED vars
  BY <1>12 DEF Boot, Tick, vars, disk, Quiet
<1> QED BY <1>4, <1>5, <1>6, <1>7, <1>8, <1>9, <1>10, <1>11, <1>12 DEF Next

(* Every step keeps the books. *)
LEMMA StepKeepsBooks == ASSUME IInv, BooksOK, [Next]_vars PROVE BooksOK'
BY BooksKind, QuietKeepsBooks, ReserveKeepsBooks, SendKeepsBooks, CommandKeepsBooks

(* They start empty. *)
LEMMA InitBooks == ASSUME Init PROVE BooksOK
<1>1. texts = <<>> /\ sms = {} /\ run.reserved = Never /\ run.stage # "reserved" /\ clock = 0
  BY DEF Init, NoRun, None
<1>2. BooksType
  BY <1>1, FS_EmptySet DEF BooksType
<1>3. Timely
  BY <1>1 DEF Timely, Never
<1>4. \A lo, hi \in Int : Asked(lo, hi) = {} /\ Owed(lo, hi) = 0 /\ Kept(lo) = {}
  BY <1>1 DEF Asked, Owed, Kept
<1>5. Cardinality({}) = 0
  BY FS_EmptySet
<1>6. Counted
  <2> SUFFICES ASSUME NEW lo \in Int, NEW hi \in Int
               PROVE  Cardinality(Asked(lo, hi)) + Owed(lo, hi) <= Cardinality(Kept(lo))
    BY DEF Counted
  <2>1. Asked(lo, hi) = {} /\ Owed(lo, hi) = 0 /\ Kept(lo) = {}
    BY <1>4
  <2> QED BY <1>5, <2>1
<1>7. Windows
  <2> SUFFICES ASSUME NEW hi \in Int
               PROVE  Cardinality(Asked(hi - Day, hi)) + Owed(hi - Day, hi) <= SmsLimit
    BY DEF Windows
  <2>1. hi - Day \in Int /\ SmsLimit \in Nat
    BY RuntimeAssumption
  <2>2. Asked(hi - Day, hi) = {} /\ Owed(hi - Day, hi) = 0
    BY <1>4, <2>1
  <2>3. Cardinality(Asked(hi - Day, hi)) = 0
    BY <1>5, <2>2
  <2> QED BY <2>1, <2>2, <2>3
<1> QED BY <1>2, <1>3, <1>6, <1>7 DEF BooksOK

-----------------------------------------------------------------------------
(* One text for a cause. *)

Early == {"waiting", "collecting", "expired", "login", "reserved"}
Texted(n) == \E j \in DOMAIN texts : texts[j].cause.n = n

\* A cause that has not asked for its text yet is told from those that have.
CausesOK ==
    /\ \A j \in DOMAIN texts : texts[j].cause.n <= causes
    /\ Running => run.cause.n <= causes
    /\ attempt # NoAttempt => attempt.cause.n <= causes
    /\ run.stage \in Early => ~Texted(run.cause.n)
    /\ run.cause.kind = "cron" =>
          /\ attempt.due = Never
          /\ attempt # NoAttempt => attempt.cause = run.cause
          /\ life = "up" => attempt # NoAttempt
    /\ attempt # NoAttempt /\ run.cause.kind # "cron" =>
          /\ ~Texted(attempt.cause.n)
          /\ Running => attempt.cause.n # run.cause.n
    /\ \A i, j \in DOMAIN texts : i < j => texts[i].cause.n # texts[j].cause.n

\* The collection goes on for the same cause, and never back to before its text.
GoesOn ==
    /\ run'.cause = run.cause /\ (run' = NoRun <=> run = NoRun)
    /\ run'.stage \in Early => run.stage \in Early
    /\ \/ attempt' = attempt /\ life' = life
       \/ attempt' = attempt /\ run = NoRun
       \/ attempt' = NoAttempt /\ life' # "up"

\* It is over; its occurrence is retried only when it sent no text.
IsOver ==
    /\ run' = NoRun
    /\ \/ attempt' = NoAttempt
       \/ attempt' = attempt /\ run.cause.kind # "cron"
       \/ attempt'.cause = attempt.cause /\ attempt # NoAttempt
          /\ run.stage \in Early /\ run.cause.kind = "cron"

\* Nothing is under way, or a new cause is.
Begins ==
    /\ run = NoRun /\ attempt' = attempt /\ causes' = causes + 1
    /\ \/ run' = NoRun
       \/ /\ run' # NoRun /\ run'.stage = "waiting"
          /\ run'.cause.n = causes + 1 /\ run'.cause.kind # "cron"
          /\ run'.cause.request = None \/ \E id \in Requests : StartRecovery(id)

\* An attempt at an occurrence, a new one or one that is retried.
Tries == \E a \in Attempts :
    /\ Attempt(a) /\ life' = life /\ a.cause.kind = "cron"
    /\ \/ a.cause.n = causes + 1 /\ causes' = causes + 1 /\ attempt = NoAttempt /\ life = "up"
          /\ clock <= a.deadline
       \/ a = attempt /\ causes' = causes /\ attempt # NoAttempt /\ attempt.due # Never

(* Numbers of causes, and of none. *)
LEMMA CauseNumbers ==
    ASSUME IInv, BooksOK
    PROVE  /\ causes \in Nat /\ run.cause.n \in Nat /\ attempt.cause.n \in Nat
           /\ \A j \in DOMAIN texts : texts[j].cause.n \in Nat
           /\ NoRun.stage \notin Early /\ NoRun.cause.kind # "cron"
           /\ NoAttempt.due = Never
<1>1. causes \in Nat /\ run.cause.n \in Nat /\ attempt.cause.n \in Nat
  BY DEF IInv, Shape, Runs, Attempts, Scheduled
<1>2. NoRun.stage \notin Early /\ NoRun.cause.kind # "cron" /\ NoAttempt.due = Never
  BY DEF NoRun, NoCause, NoAttempt, Early, None
<1> QED BY <1>1, <1>2, TextTypes DEF BooksOK

(* A collection that goes on. *)
LEMMA GoesOnKeepsCauses ==
    ASSUME IInv, BooksOK, CausesOK, GoesOn, texts' = texts, causes' = causes PROVE CausesOK'
<1>1. \A n : Texted(n)' <=> Texted(n)
  BY DEF Texted
<1> QED BY <1>1, CauseNumbers DEF CausesOK, GoesOn, Running

(* A collection that ends. *)
LEMMA IsOverKeepsCauses ==
    ASSUME IInv, BooksOK, CausesOK, IsOver, texts' = texts, causes' = causes PROVE CausesOK'
<1>1. \A n : Texted(n)' <=> Texted(n)
  BY DEF Texted
<1> QED BY <1>1, CauseNumbers DEF CausesOK, IsOver, Running

(* A text for a cause that had none. *)
LEMMA TextKeepsCauses ==
    ASSUME IInv, BooksOK, CausesOK, NEW t \in Texts, texts' = Append(texts, t), ~Texted(t.cause.n),
           t.cause.n <= causes', causes' \in {causes, causes + 1},
           attempt' = attempt, life' = life,
           run'.cause = run.cause, run' = NoRun <=> run = NoRun,
           run'.stage \in Early => run.stage \in Early /\ t.cause.n # run.cause.n,
           attempt # NoAttempt /\ run.cause.kind # "cron" => t.cause.n # attempt.cause.n
    PROVE  CausesOK'
<1> DEFINE n == Len(texts) + 1
<1>1. /\ DOMAIN texts' = DOMAIN texts \cup {n} /\ \A j \in DOMAIN texts : j < n /\ j # n
      /\ texts'[n] = t /\ \A j \in DOMAIN texts : texts'[j] = texts[j]
  BY DEF BooksOK, BooksType
<1> HIDE DEF n
<1>2. \A m : Texted(m)' <=> Texted(m) \/ m = t.cause.n
  BY <1>1 DEF Texted
<1>3. \A j \in DOMAIN texts : texts[j].cause.n <= causes'
  BY CauseNumbers DEF CausesOK
<1>4. \A j \in DOMAIN texts' : texts'[j].cause.n <= causes'
  BY <1>1, <1>3
<1>5. ASSUME NEW i \in DOMAIN texts', NEW j \in DOMAIN texts', i < j
      PROVE  texts'[i].cause.n # texts'[j].cause.n
  <2>1. i \in DOMAIN texts
    <3>1. \A k \in DOMAIN texts : ~(n < k)
      BY DEF n, BooksOK, BooksType
    <3>2. ~(n < n)
      BY DEF n, BooksOK, BooksType
    <3> QED BY <1>1, <1>5, <3>1, <3>2
  <2>2. CASE j = n
    BY <1>1, <2>1, <2>2 DEF Texted
  <2>3. CASE j \in DOMAIN texts
    BY <1>1, <1>5, <2>1, <2>3 DEF CausesOK
  <2> QED BY <1>1, <2>2, <2>3
<1>6. (Running => run.cause.n <= causes)' /\ (attempt # NoAttempt => attempt.cause.n <= causes)'
  BY CauseNumbers DEF CausesOK, Running
<1> QED BY <1>2, <1>4, <1>5, <1>6 DEF CausesOK, Running

(* A new cause. *)
LEMMA BeginsKeepsCauses ==
    ASSUME IInv, BooksOK, CausesOK, Begins, texts' = texts, life' = life PROVE CausesOK'
<1>1. \A n : Texted(n)' <=> Texted(n)
  BY DEF Texted
<1>2. ~Texted(causes + 1)
  BY CauseNumbers DEF CausesOK, Texted
<1>3. attempt # NoAttempt => attempt.cause.n # causes + 1
  BY CauseNumbers DEF CausesOK
<1>4. \A j \in DOMAIN texts : texts[j].cause.n <= causes + 1
  BY CauseNumbers DEF CausesOK
<1>5. attempt # NoAttempt => attempt.cause.n <= causes + 1 /\ ~Texted(attempt.cause.n)
  BY CauseNumbers DEF CausesOK, Begins
<1>6. causes + 1 <= causes'
  BY CauseNumbers DEF Begins
<1> QED BY <1>1, <1>2, <1>3, <1>4, <1>5, <1>6, CauseNumbers DEF CausesOK, Begins, Running

(* An occurrence is tried, retried or given up. *)
LEMMA TriesKeepsCauses ==
    ASSUME IInv, BooksOK, CausesOK, Tries, texts' = texts PROVE CausesOK'
<1>1. PICK a \in Attempts :
         /\ Attempt(a) /\ life' = life /\ a.cause.kind = "cron"
         /\ \/ a.cause.n = causes + 1 /\ causes' = causes + 1 /\ attempt = NoAttempt /\ life = "up"
               /\ clock <= a.deadline
            \/ a = attempt /\ causes' = causes /\ attempt # NoAttempt /\ attempt.due # Never
  BY DEF Tries
<1>2. \A n : Texted(n)' <=> Texted(n)
  BY DEF Texted
<1>3. /\ run.cause.kind # "cron" /\ ~Texted(a.cause.n) /\ a.cause.n <= causes'
      /\ causes' \in Nat /\ causes <= causes'
      /\ Running => a.cause.n # run.cause.n
  BY <1>1, CauseNumbers DEF CausesOK, Texted
<1>4. (\A j \in DOMAIN texts : texts[j].cause.n <= causes') /\ (Running => run.cause.n <= causes')
  BY <1>3, CauseNumbers DEF CausesOK
<1>5. CASE run' = run /\ attempt' \in {NoAttempt, Retried(a)}
  <2>1. attempt' # NoAttempt => attempt'.cause = a.cause
    BY <1>1, <1>5, RetriedType DEF IInv, Shape
  <2> QED BY <1>2, <1>3, <1>4, <1>5, <2>1, CauseNumbers DEF CausesOK, Running
<1>6. CASE run' = NewRun(a.cause) /\ attempt' = [a EXCEPT !.due = Never]
  <2>1. attempt'.cause = a.cause /\ attempt'.due = Never
    BY <1>6 DEF Attempts
  <2>2. run'.cause = a.cause /\ run'.stage = "waiting"
    BY <1>6 DEF NewRun, NoRun
  <2>3. attempt' # NoAttempt
    BY <1>1, <2>1 DEF NoAttempt, NoCause, None
  <2> QED BY <1>1, <1>2, <1>3, <1>4, <2>1, <2>2, <2>3 DEF CausesOK
<1> QED BY <1>1, <1>5, <1>6 DEF Attempt

(* Every step is one of these. *)
LEMMA CausesKind ==
    ASSUME IInv, BooksOK, CausesOK, [Next]_vars
    PROVE  \/ texts' = texts /\ causes' = causes /\ (GoesOn \/ IsOver)
           \/ texts' = texts /\ (Tries \/ (Begins /\ life' = life))
           \/ SendSms \/ CommandSendsSms
<1>1. NoRun.stage \notin Early /\ NoRun.stage = None
  BY CauseNumbers DEF NoRun
<1>2. /\ \A stage \in Stages \ {None} : Goto(stage) /\ Running
            => run'.stage = stage /\ run'.cause = run.cause /\ run' # NoRun
      /\ run' = Abort(run) => /\ run'.stage = run.stage /\ run'.cause = run.cause
                              /\ (run' = NoRun <=> run = NoRun)
  <2>1. ASSUME NEW stage \in Stages \ {None}, Goto(stage), Running
        PROVE  run'.stage = stage /\ run'.cause = run.cause /\ run' # NoRun
    BY <2>1 DEF Goto, NoRun, IInv, Shape, Runs
  <2> QED BY <2>1, AbortEffect
<1>3. ASSUME NEW result, RunEnds(result), Running, result \in {"skipped", "undefined"} => run.stage \in Early
      PROVE  IsOver
  <2>1. attempt \in Attempts /\ (attempt # NoAttempt => attempt.cause.kind = "cron")
    BY DEF IInv, Shape
  <2>2. Retried(attempt) = NoAttempt \/ Retried(attempt).cause = attempt.cause
    BY <2>1, RetriedType DEF IInv, Shape
  <2> QED BY <1>3, <2>2 DEF RunEnds, IsOver
<1>4. CASE CollectionStep
  <2>1. CASE Abandon
    <3>1. Running
      BY <2>1, EmptyTypes DEF Abandon, Running
    <3> QED BY <2>1, <3>1, <1>3 DEF Abandon, Early
  <2>2. CASE Collect \/ Login \/ CollectAgain
    <3>1. /\ Running /\ run.stage \in {"waiting", "expired", "verified"}
          /\ texts' = texts /\ causes' = causes /\ life' = life
      BY <2>2 DEF Collect, Login, CollectAgain, Unaborted
    <3>2. CASE lock = None
      <4>1. PICK stage \in {"collecting", "login", "recollecting"} :
                Goto(stage) /\ attempt' = attempt
                /\ (stage # "recollecting" => run.stage \in {"waiting", "expired"})
        BY <2>2, <3>2 DEF Collect, Login, CollectAgain, TakeProfile
      <4> QED BY <3>1, <4>1, <1>2 DEF GoesOn, Early, Stages, None, Running
    <3>3. CASE lock # None
      <4>1. PICK result : RunEnds(result) /\ (result = "skipped" \/ result = "error")
                          /\ (result = "skipped" => run.stage \in {"waiting", "expired"})
        BY <2>2, <3>3 DEF Collect, Login, CollectAgain, TakeProfile
      <4> QED BY <3>1, <4>1, <1>3 DEF Early
    <3> QED BY <3>2, <3>3
  <2>3. CASE LoggedIn \/ AwaitCode \/ ReceiveCode
    <3>1. PICK stage \in {"verified", "awaiting", "code"} : Goto(stage) /\ Running
      BY <2>3 DEF LoggedIn, AwaitCode, ReceiveCode, Unaborted
    <3>2. run'.stage = stage /\ run'.cause = run.cause /\ run' # NoRun
      BY <3>1, <1>2 DEF Stages, None
    <3> QED BY <2>3, <3>1, <3>2 DEF LoggedIn, AwaitCode, ReceiveCode, GoesOn, Early, Running, disk
  <2>4. CASE LoginFails
    BY <2>4, <1>3 DEF LoginFails, Unaborted
  <2>5. CASE CodeTimesOut
    BY <2>5 DEF CodeTimesOut, IsManual, IsOver
  <2>6. CASE Reserve
    <3>1. run'.stage = "reserved" /\ run'.cause = run.cause /\ run' # NoRun /\ run.stage = "login"
      BY <2>6 DEF Reserve, NoRun, IInv, Shape, Runs, None
    <3> QED BY <2>6, <3>1 DEF Reserve, Unaborted, Running, GoesOn, Early
  <2>7. ASSUME NEW result \in {"ok", "auth_required", "error"}, Collected(result)
        PROVE  texts' = texts /\ causes' = causes /\ (GoesOn \/ IsOver)
    <3>1. Running /\ run.stage \in {"collecting", "recollecting"}
      BY <2>7, <1>1 DEF Collected, Running, None
    <3>2. CASE RunEnds(result)
      BY <2>7, <3>1, <3>2, <1>3 DEF Collected
    <3>3. CASE Goto("expired") /\ attempt' = attempt /\ run.stage = "collecting"
      BY <2>7, <3>1, <3>3, <1>2 DEF Collected, GoesOn, Early, Stages, Running, None
    <3> QED BY <2>7, <3>2, <3>3 DEF Collected
  <2> QED BY <1>4, <2>1, <2>2, <2>3, <2>4, <2>5, <2>6, <2>7 DEF CollectionStep
<1>5. ASSUME NEW id \in Requests, StartRecovery(id) PROVE texts' = texts /\ Begins /\ life' = life
  <2>1. run'.stage = "waiting" /\ run'.cause = RecoveryCause(id)
    BY <1>5 DEF StartRecovery, NewRun, NoRun
  <2>2. run' # NoRun
    BY <2>1, <1>1 DEF None
  <2> QED BY <1>5, <2>1, <2>2 DEF StartRecovery, RecoveryCause, MoreCauses, Running, Begins
<1>6. CASE Refresh
  <2>1. NewRun(Cause("refresh")).stage = "waiting" /\ NewRun(Cause("refresh")).cause = Cause("refresh")
    BY DEF NewRun, NoRun
  <2>2. NewRun(Cause("refresh")) # NoRun
    BY <2>1, <1>1 DEF None
  <2> QED BY <1>6, <2>1, <2>2 DEF Refresh, Cause, MoreCauses, Running, Begins
<1>7. CASE Cron
  <2> DEFINE a == [NoAttempt EXCEPT !.cause = Cause("cron"), !.deadline = clock + Window]
  <2>0. clock \in Nat /\ Window \in Nat
    BY RuntimeAssumption DEF IInv, Shape
  <2>1. Cause("cron") \in Scheduled /\ Cause("cron").kind = "cron" /\ clock + Window \in Moments
        /\ Cause("cron").n = causes + 1
    BY <2>0 DEF IInv, Shape, Cause, Scheduled, Moments
  <2>2. a \in Attempts /\ a.cause = Cause("cron") /\ a.deadline = clock + Window
    BY <2>1, NoAttemptType DEF Attempts
  <2>3. Attempt(a)
    BY <1>7 DEF Cron
  <2> HIDE DEF a
  <2>4. clock <= a.deadline
    BY <2>0, <2>2
  <2> QED BY <1>7, <2>1, <2>2, <2>3, <2>4 DEF Cron, MoreCauses, Tries
<1>8. CASE AttemptTimer
  <2>1. attempt \in Attempts /\ attempt # NoAttempt /\ attempt.due # Never /\ attempt.cause.kind = "cron"
    BY <1>8, CauseNumbers DEF AttemptTimer, IInv, Shape
  <2> QED BY <1>8, <2>1 DEF AttemptTimer, Tries
<1>9. ASSUME NEW id \in Requests, Submit(id) PROVE texts' = texts /\ causes' = causes /\ GoesOn
  <2>1. recovery.state = "awaiting_code" => run.stage = "awaiting" /\ Running
    BY DEF IInv, LeaseHasItsCollection, InStep, IsLive, IsManual
  <2> QED BY <1>9, <1>2, <2>1 DEF Submit, GoesOn, Early, Stages, Running, None
<1>10. CASE RecoveryTimer \/ \E id \in Requests : Cancel(id)
  BY <1>10, <1>2 DEF RecoveryTimer, Cancel, GoesOn
<1>11. CASE Maintain \/ MaintainEnds \/ CommandTakesProfile \/ CommandEnds \/ ClearLock
  BY <1>11 DEF Maintain, MaintainEnds, CommandTakesProfile, CommandEnds, ClearLock, GoesOn
<1>12. CASE Stop \/ Close
  BY <1>12, <1>2 DEF Stop, Close, StopAll, GoesOn
<1>13. CASE Exit \/ Die
  BY <1>13 DEF Exit, Die, Forget, disk, IsOver
<1>14. CASE Boot
  BY <1>14 DEF Boot, GoesOn, IInv, GoneIsGone
<1>15. CASE Tick \/ UNCHANGED vars
  BY <1>15 DEF Tick, vars, disk, GoesOn
<1> QED BY <1>4, <1>5, <1>6, <1>7, <1>8, <1>9, <1>10, <1>11, <1>12, <1>13, <1>14, <1>15 DEF Next

(* Every step keeps the causes apart. *)
LEMMA StepKeepsCauses == ASSUME IInv, BooksOK, CausesOK, [Next]_vars PROVE CausesOK'
<1>1. CASE SendSms
  <2> DEFINE t == [at |-> run.reserved, cause |-> run.cause]
  <2>1. /\ texts' = Append(texts, t) /\ causes' = causes /\ attempt' = attempt /\ life' = life
        /\ Running /\ run.stage = "reserved"
    BY <1>1 DEF SendSms, Unaborted
  <2>2. run'.stage = "sent" /\ run'.cause = run.cause /\ run' # NoRun
    BY <1>1 DEF SendSms, IInv, Shape, Runs, NoRun, None
  <2>3. run.reserved \in Nat
    BY <2>1 DEF IInv, Shape, Runs, Moments, BooksOK, Timely
  <2>4. t \in Texts /\ t.cause = run.cause
    BY <2>3 DEF IInv, Shape, Runs, Texts
  <2> HIDE DEF t
  <2>5. /\ ~Texted(run.cause.n) /\ run.cause.n <= causes
        /\ attempt # NoAttempt /\ run.cause.kind # "cron" => run.cause.n # attempt.cause.n
    BY <2>1 DEF CausesOK, Early
  <2> QED BY <2>1, <2>2, <2>4, <2>5, TextKeepsCauses DEF Early, Running
<1>2. CASE CommandSendsSms
  <2> DEFINE t == [at |-> clock, cause |-> Cause("command")]
  <2>1. /\ texts' = Append(texts, t) /\ causes' = causes + 1 /\ attempt' = attempt /\ life' = life
        /\ run' = run
    BY <1>2 DEF CommandSendsSms, MoreCauses
  <2>2. causes + 1 \in Nat /\ Never \in Moments /\ clock \in Nat
    BY DEF IInv, Shape, Moments
  <2>3. t \in Texts /\ t.cause.n = causes + 1
    BY <2>2 DEF Texts, Cause
  <2> HIDE DEF t
  <2>4. ~Texted(causes + 1)
    BY CauseNumbers DEF CausesOK, Texted
  <2>5. attempt # NoAttempt => causes + 1 # attempt.cause.n
    BY CauseNumbers DEF CausesOK
  <2>6. run.stage \in Early => causes + 1 # run.cause.n
    <3>1. run.stage \in Early => Running
      BY CauseNumbers DEF Running
    <3> QED BY <3>1, CauseNumbers DEF CausesOK
  <2> QED BY <2>1, <2>2, <2>3, <2>4, <2>5, <2>6, TextKeepsCauses
<1> QED BY <1>1, <1>2, CausesKind, GoesOnKeepsCauses, IsOverKeepsCauses, BeginsKeepsCauses, TriesKeepsCauses

-----------------------------------------------------------------------------
(* One text a day for a recovery id. *)

\* The tombstone of a recovery stays for a day.
Recorded(cause, tombstones, now) ==
    cause.request # None =>
        /\ cause.asked \in 0 .. now
        /\ tombstones[cause.request].createdAt >= cause.asked \/ now > cause.asked + Day

OnRecord(cause) == Recorded(cause, records, clock)

\* Of two recoveries with one id, the second was asked for more than a day after the first.
Apart(c, d) == c.request # None /\ c.request = d.request => d.asked > c.asked + Day

RecoveriesOK ==
    /\ OnRecord(run.cause)
    /\ \A j \in DOMAIN texts :
          /\ OnRecord(texts[j].cause)
          /\ texts[j].cause.n # run.cause.n => Apart(texts[j].cause, run.cause)
    /\ \A i, j \in DOMAIN texts : i < j => Apart(texts[i].cause, texts[j].cause)

(* Old tombstones go, new ones are of now, and the others keep their time. *)
LEMMA TombstonesStay ==
    ASSUME IInv, Tombstoned, [Next]_vars, NEW r \in Requests
    PROVE  \/ records'[r].createdAt = records[r].createdAt
           \/ records[r].createdAt < clock - Day
           \/ records'[r].createdAt = clock
<1>1. CASE Leaves \/ Proceeds \/ Drops
  BY <1>1 DEF Leaves, Proceeds, Drops
<1>2. CASE Ends
  BY <1>2 DEF Ends, End, Tombstoned, Records
<1>3. ASSUME NEW id \in Requests, StartRecovery(id)
      PROVE  \/ records'[r].createdAt = records[r].createdAt
             \/ records[r].createdAt < clock - Day
             \/ records'[r].createdAt = clock
  BY <1>3 DEF StartRecovery, ReserveRecord
<1> QED BY <1>1, <1>2, <1>3, StepKind

(* What is on record stays on record for its day. *)
LEMMA OnRecordStays ==
    ASSUME IInv, BooksOK, Tombstoned, [Next]_vars, NEW cause,
           cause.request \in Requests \cup {None}, Recorded(cause, records, clock)
    PROVE  Recorded(cause, records', clock')
<1> SUFFICES ASSUME cause.request # None
             PROVE  /\ cause.asked \in 0 .. clock'
                    /\ records'[cause.request].createdAt >= cause.asked \/ clock' > cause.asked + Day
  BY DEF Recorded
<1>1. clock \in Nat /\ clock' \in {clock, clock + 1} /\ Day \in Nat
  <2>1. clock' \in {clock, clock + 1}
    BY BooksKind DEF Quiet, Reserve, SendSms, CommandSendsSms
  <2> QED BY <2>1, RuntimeAssumption DEF IInv, Shape
<1>2. cause.request \in Requests /\ cause.asked \in 0 .. clock /\ cause.asked \in Nat
  BY <1>1 DEF Recorded
<1>3. records[cause.request].createdAt \in Int
  BY <1>2 DEF Tombstoned, Records, Moments, Never
<1>4. cause.asked \in 0 .. clock' /\ (clock > cause.asked + Day => clock' > cause.asked + Day)
  BY <1>1, <1>2
<1>5. CASE records'[cause.request].createdAt = records[cause.request].createdAt
  BY <1>4, <1>5 DEF Recorded
<1>6. CASE records[cause.request].createdAt < clock - Day
  BY <1>1, <1>2, <1>3, <1>4, <1>6 DEF Recorded
<1>7. CASE records'[cause.request].createdAt = clock
  BY <1>1, <1>2, <1>4, <1>7
<1> QED BY <1>2, <1>5, <1>6, <1>7, TombstonesStay

(* A step leaves the cause of the collection, or drops it, or starts one. *)
LEMMA RunCauseKind ==
    ASSUME IInv, BooksOK, CausesOK, [Next]_vars
    PROVE  \/ run'.cause = run.cause \/ run'.cause.request = None
           \/ \E id \in Requests : StartRecovery(id)
<1>1. NoRun.cause.request = None
  BY DEF NoRun, NoCause
<1>2. Tries => run'.cause = run.cause \/ run'.cause.request = None
  <2>1. ASSUME NEW a \in Attempts PROVE NewRun(a.cause).cause.request = None
    BY DEF NewRun, NoRun, Attempts, Scheduled
  <2> QED BY <2>1 DEF Tries, Attempt
<1>3. SendSms => run'.cause = run.cause
  BY DEF SendSms, IInv, Shape, Runs
<1>4. CommandSendsSms => run' = run
  BY DEF CommandSendsSms
<1> QED BY <1>1, <1>2, <1>3, <1>4, CausesKind DEF GoesOn, IsOver, Begins

(* A recovery starts more than a day after the last one with its id. *)
LEMMA StartKeepsRecoveries ==
    ASSUME IInv, BooksOK, CausesOK, Tombstoned, RecoveriesOK, [Next]_vars,
           NEW id \in Requests, StartRecovery(id)
    PROVE  RecoveriesOK'
<1>1. /\ run'.cause = RecoveryCause(id) /\ texts' = texts /\ clock' = clock
      /\ records[id] = NoRecord /\ records'[id].createdAt = clock
  BY DEF StartRecovery, ReserveRecord, NewRun, NoRun
<1>2. RecoveryCause(id).request = id /\ RecoveryCause(id).asked = clock
  BY DEF RecoveryCause
<1>3. clock \in Nat /\ Day \in Nat
  BY RuntimeAssumption DEF IInv, Shape
<1>4. OnRecord(run.cause)'
  BY <1>1, <1>2, <1>3 DEF OnRecord, Recorded
<1>5. ASSUME NEW j \in DOMAIN texts PROVE Apart(texts[j].cause, run'.cause)
  <2>1. CASE texts[j].cause.request = id /\ texts[j].cause.request # None
    <3>1. OnRecord(texts[j].cause) /\ texts[j].cause.asked \in 0 .. clock
      BY <2>1 DEF RecoveriesOK, OnRecord, Recorded
    <3>2. ~(NoRecord.createdAt >= texts[j].cause.asked)
      BY <1>3, <3>1 DEF NoRecord, Never
    <3>3. clock > texts[j].cause.asked + Day
      BY <1>1, <2>1, <3>1, <3>2 DEF OnRecord, Recorded
    <3> QED BY <1>1, <1>2, <3>3 DEF Apart
  <2> QED BY <1>1, <1>2, <2>1 DEF Apart
<1>6. ASSUME NEW j \in DOMAIN texts PROVE OnRecord(texts[j].cause)'
  <2>1. Recorded(texts[j].cause, records, clock)
    BY DEF RecoveriesOK, OnRecord, Recorded
  <2>2. Recorded(texts[j].cause, records', clock')
    BY <2>1, TextTypes, OnRecordStays DEF BooksOK
  <2> QED BY <1>1, <2>2 DEF OnRecord, Recorded
<1> QED BY <1>1, <1>4, <1>5, <1>6 DEF RecoveriesOK

(* A text for the collection under way, or for a command. *)
LEMMA TextKeepsRecoveries ==
    ASSUME IInv, BooksOK, CausesOK, Tombstoned, RecoveriesOK, [Next]_vars, SendSms \/ CommandSendsSms
    PROVE  RecoveriesOK'
<1> DEFINE n == Len(texts) + 1
<1>1. PICK t : /\ texts' = Append(texts, t) /\ run'.cause = run.cause
               /\ \/ t.cause = run.cause /\ ~Texted(run.cause.n)
                  \/ t.cause.request = None
  <2>1. CASE SendSms
    <3>1. run'.cause = run.cause
      BY <2>1 DEF SendSms, IInv, Shape, Runs
    <3>2. ~Texted(run.cause.n)
      BY <2>1 DEF SendSms, CausesOK, Early
    <3>3. [at |-> run.reserved, cause |-> run.cause].cause = run.cause
      OBVIOUS
    <3> QED BY <2>1, <3>1, <3>2, <3>3 DEF SendSms
  <2>2. CASE CommandSendsSms
    <3>1. run'.cause = run.cause
      BY <2>2 DEF CommandSendsSms
    <3>2. [at |-> clock, cause |-> Cause("command")].cause.request = None
      BY DEF Cause
    <3> QED BY <2>2, <3>1, <3>2 DEF CommandSendsSms
  <2> QED BY <2>1, <2>2
<1>2. /\ DOMAIN texts' = DOMAIN texts \cup {n} /\ \A j \in DOMAIN texts : j < n /\ ~(n < j)
      /\ texts'[n] = t /\ \A j \in DOMAIN texts : texts'[j] = texts[j]
      /\ ~(n < n)
  BY <1>1 DEF BooksOK, BooksType
<1> HIDE DEF n
<1>3. run.cause.request \in Requests \cup {None}
  BY DEF IInv, Shape, Runs
<1>4. Recorded(run.cause, records', clock')
  BY <1>3, OnRecordStays DEF RecoveriesOK, OnRecord
<1>5. Recorded(t.cause, records', clock')
  BY <1>1, <1>4 DEF Recorded
<1>6. ASSUME NEW j \in DOMAIN texts PROVE Recorded(texts[j].cause, records', clock')
  BY TextTypes, OnRecordStays DEF RecoveriesOK, OnRecord, BooksOK
<1>7. \A j \in DOMAIN texts' : OnRecord(texts[j].cause)'
  BY <1>2, <1>5, <1>6 DEF OnRecord
<1>8. OnRecord(run.cause)'
  BY <1>1, <1>4 DEF OnRecord
<1>9. ASSUME NEW j \in DOMAIN texts PROVE Apart(texts[j].cause, t.cause)
  <2>1. CASE t.cause = run.cause /\ ~Texted(run.cause.n)
    BY <2>1 DEF RecoveriesOK, Texted
  <2>2. CASE t.cause.request = None
    BY <2>2 DEF Apart
  <2> QED BY <1>1, <2>1, <2>2
<1>10. t.cause.n # run.cause.n => Apart(t.cause, run.cause)
  BY <1>1 DEF Apart
<1>11. \A j \in DOMAIN texts' : (texts[j].cause.n # run.cause.n => Apart(texts[j].cause, run.cause))'
  BY <1>1, <1>2, <1>10 DEF RecoveriesOK
<1>12. \A i, j \in DOMAIN texts' : i < j => Apart(texts'[i].cause, texts'[j].cause)
  BY <1>2, <1>9 DEF RecoveriesOK
<1> QED BY <1>7, <1>8, <1>11, <1>12 DEF RecoveriesOK

(* Every step keeps the recoveries apart. *)
LEMMA StepKeepsRecoveries ==
    ASSUME IInv, BooksOK, CausesOK, Tombstoned, RecoveriesOK, [Next]_vars
    PROVE  RecoveriesOK'
<1>1. CASE SendSms \/ CommandSendsSms
  BY <1>1, TextKeepsRecoveries
<1>2. CASE \E id \in Requests : StartRecovery(id)
  BY <1>2, StartKeepsRecoveries
<1>3. CASE texts' = texts /\ (run'.cause = run.cause \/ run'.cause.request = None)
  <2>1. ASSUME NEW j \in DOMAIN texts PROVE Recorded(texts[j].cause, records', clock')
    BY TextTypes, OnRecordStays DEF RecoveriesOK, OnRecord, BooksOK
  <2>2. run.cause.request \in Requests \cup {None}
    BY DEF IInv, Shape, Runs
  <2>3. Recorded(run.cause, records', clock')
    BY <2>2, OnRecordStays DEF RecoveriesOK, OnRecord
  <2>4. OnRecord(run.cause)'
    BY <1>3, <2>3 DEF OnRecord, Recorded
  <2>5. \A j \in DOMAIN texts' : OnRecord(texts[j].cause)'
    BY <1>3, <2>1 DEF OnRecord
  <2>6. \A j \in DOMAIN texts' : (texts[j].cause.n # run.cause.n => Apart(texts[j].cause, run.cause))'
    BY <1>3 DEF RecoveriesOK, Apart
  <2> QED BY <1>3, <2>4, <2>5, <2>6 DEF RecoveriesOK
<1> QED BY <1>1, <1>2, <1>3, RunCauseKind, BooksKind DEF Quiet, Reserve

AllowanceInv == IInv /\ Tombstoned /\ BooksOK /\ CausesOK /\ RecoveriesOK

(* The invariant holds at the start. *)
LEMMA InitAllowance == Init => AllowanceInv
<1> SUFFICES ASSUME Init PROVE AllowanceInv
  OBVIOUS
<1>1. IInv /\ BooksOK
  BY InitIInv, InitBooks
<1>2. Tombstoned
  BY DEF Init, Tombstoned, Records, NoRecovery, NoRecord, IsLive, Moments, None
<1>3. DOMAIN texts = {} /\ run = NoRun /\ attempt = NoAttempt
  BY DEF Init
<1>4. CausesOK
  BY <1>3, CauseNumbers, <1>1 DEF CausesOK, Running
<1>5. RecoveriesOK
  BY <1>3 DEF RecoveriesOK, OnRecord, Recorded, NoRun, NoCause
<1> QED BY <1>1, <1>2, <1>4, <1>5 DEF AllowanceInv

(* Every step keeps it. *)
LEMMA StepKeepsAllowance == AllowanceInv /\ [Next]_vars => AllowanceInv'
BY StepKeepsIInv, StepSettles, StepKeepsBooks, StepKeepsCauses, StepKeepsRecoveries DEF AllowanceInv

(* It implies the property. *)
LEMMA AllowanceHolds == ASSUME AllowanceInv PROVE SmsAllowance
<1>1. ASSUME NEW i \in DOMAIN texts
      PROVE  Cardinality({j \in DOMAIN texts : texts[j].at \in texts[i].at - Day + 1 .. texts[i].at}) <= SmsLimit
  <2> DEFINE hi == texts[i].at
  <2>1. hi \in Int /\ Day \in Int /\ SmsLimit \in Nat /\ BooksType
    BY TextTypes, RuntimeAssumption DEF AllowanceInv, BooksOK
  <2> HIDE DEF hi
  <2>a. hi - Day \in Int
    BY <2>1
  <2>b. Cardinality(Asked(hi - Day, hi)) \in Nat /\ Owed(hi - Day, hi) \in Nat
    BY <2>1, <2>a, CountsAreNat
  <2>c. Cardinality(Asked(hi - Day, hi)) + Owed(hi - Day, hi) <= SmsLimit
    BY <2>1 DEF AllowanceInv, BooksOK, Windows
  <2>2. Cardinality(Asked(hi - Day, hi)) <= SmsLimit
    BY <2>1, <2>b, <2>c
  <2>3. ASSUME NEW j \in DOMAIN texts
        PROVE  texts[j].at \in hi - Day + 1 .. hi <=> hi - Day < texts[j].at /\ texts[j].at <= hi
    BY <2>1, TextTypes
  <2>4. {j \in DOMAIN texts : texts[j].at \in hi - Day + 1 .. hi} = Asked(hi - Day, hi)
    BY <2>3 DEF Asked
  <2>5. Cardinality({j \in DOMAIN texts : texts[j].at \in hi - Day + 1 .. hi}) <= SmsLimit
    BY <2>2, <2>4
  <2> QED BY <2>5 DEF hi
<1>2. ASSUME NEW i \in DOMAIN texts, NEW j \in DOMAIN texts, i < j
      PROVE  /\ texts[i].cause.n # texts[j].cause.n
             /\ Apart(texts[i].cause, texts[j].cause)
  BY <1>2 DEF AllowanceInv, CausesOK, RecoveriesOK
<1> QED BY <1>1, <1>2 DEF SmsAllowance, Apart

(* No rolling day sees more than SmsLimit texts, one cause asks for one at most, and one recovery   *)
(* id for one a day, whichever process asks, retries, is refused, is aborted or dies at any step    *)
(* (consumeAutomaticSmsAttempt before the click, the tombstone before the login, and the error that *)
(* ends an occurrence after its text).                                                              *)
THEOREM AllowanceIsKept == Spec => []SmsAllowance
BY StepKeepsAllowance, InitAllowance, AllowanceHolds, PTL DEF Spec

-----------------------------------------------------------------------------
(* What a consumer is promised of its recoveries. *)

\* The state of a recovery follows its collection, and has a deadline only before its code.
StagesOK ==
    /\ recovery.expires # Never => recovery.state \in {"starting", "awaiting_code"}
    /\ IsManual /\ ~run.aborted =>
          /\ run.stage \in Early \cup {"sent"} => recovery.state = "starting"
          /\ run.stage = "code" => recovery.state = "verifying"
          /\ run.stage = "sent" => Texted(run.cause.n)
          /\ recovery.state = "starting" /\ run.stage # "sent" => ~Texted(run.cause.n)

(* A recovery that is live has the collection under way to itself, unaborted. *)
LEMMA LiveIsUnaborted ==
    ASSUME IInv, IsLive
    PROVE  IsManual /\ ~run.aborted /\ Running /\ recovery.id = run.cause.request
BY DEF IInv, LeaseHasItsCollection, InStep, IsManual

(* Where no recovery has a collection unaborted, its state is followed by nothing. *)
LEMMA FreeStages ==
    ASSUME StagesOK, recovery' = recovery, ~IsManual' \/ run'.aborted PROVE StagesOK'
BY DEF StagesOK

(* A recovery that ends has no deadline, and no collection it follows. *)
LEMMA EndStages ==
    ASSUME IInv, IInv', StagesOK, NEW outcome \in Outcomes, End(outcome)
    PROVE  StagesOK'
<1>1. ~IsLive' /\ recovery'.expires = Never
  <2>1. CASE IsLive
    BY <2>1 DEF End, IInv, Shape, Recoveries, IsLive, Outcomes
  <2>2. CASE ~IsLive
    BY <2>2 DEF End, StagesOK, IsLive
  <2> QED BY <2>1, <2>2
<1>2. IsManual' => run'.aborted
  BY <1>1 DEF IInv, InStep, Shape, Runs, IsManual
<1> QED BY <1>1, <1>2 DEF StagesOK

(* A collection may go on to a later stage of the same state. *)
LEMMA LaterStages ==
    ASSUME IInv, StagesOK, recovery' = recovery, texts' = texts,
           run'.cause = run.cause, run'.aborted = run.aborted,
           run'.stage \in Early => run.stage \in Early,
           run'.stage = "code" => run.stage = "code",
           run'.stage = "sent" <=> run.stage = "sent"
    PROVE  StagesOK'
<1>1. \A n : Texted(n)' <=> Texted(n)
  BY DEF Texted
<1>2. IsManual' => IsManual
  BY DEF IsManual, Running, IInv, Shape, NoRun, NoCause, None
<1> QED BY <1>1, <1>2 DEF StagesOK

(* The steps of a collection. *)
LEMMA CollectionKeepsStages ==
    ASSUME IInv, IInv', BooksOK, StagesOK, CollectionStep
    PROVE  StagesOK'
<1>1. ASSUME NEW result, RunEnds(result) PROVE StagesOK'
  <2>1. CASE IsManual
    <3>1. PICK outcome \in Outcomes : End(outcome)
      BY <1>1, <2>1 DEF RunEnds, Finish, Outcomes
    <3> QED BY <3>1, EndStages
  <2>2. CASE ~IsManual
    <3>1. recovery' = recovery /\ ~IsManual'
      BY <1>1, <2>2 DEF RunEnds, Finish, IsManual, Running
    <3> QED BY <3>1, FreeStages
  <2> QED BY <2>1, <2>2
<1>2. ASSUME NEW stage \in Stages \ {None}, Goto(stage), Running
      PROVE  run'.stage = stage /\ run'.cause = run.cause /\ run'.aborted = run.aborted
  BY <1>2 DEF Goto, IInv, Shape, Runs
<1>3. CASE Abandon
  BY <1>1, <1>3 DEF Abandon
<1>4. CASE Collect
  BY <1>1, <1>2, <1>4, LaterStages DEF Collect, TakeProfile, Unaborted, Early, Stages, None
<1>5. CASE Login
  BY <1>1, <1>2, <1>5, LaterStages DEF Login, TakeProfile, Unaborted, Early, Stages, None
<1>6. CASE CollectAgain
  BY <1>1, <1>2, <1>6, LaterStages DEF CollectAgain, TakeProfile, Unaborted, Early, Stages, None
<1>7. CASE LoggedIn
  BY <1>2, <1>7, LaterStages DEF LoggedIn, Unaborted, Early, Stages, None
<1>8. CASE LoginFails
  BY <1>1, <1>8 DEF LoginFails
<1>9. CASE CodeTimesOut
  BY <1>9, EndStages DEF CodeTimesOut, Outcomes
<1>10. CASE Reserve
  <2>1. /\ run'.stage = "reserved" /\ run'.cause = run.cause /\ run'.aborted = run.aborted
        /\ run.stage = "login"
    BY <1>10 DEF Reserve, IInv, Shape, Runs
  <2> QED BY <1>10, <2>1, LaterStages DEF Reserve, Early
<1>11. CASE SendSms
  <2>1. /\ run'.stage = "sent" /\ run'.cause = run.cause /\ run'.aborted = run.aborted
        /\ recovery' = recovery /\ run.stage = "reserved"
    BY <1>11 DEF SendSms, IInv, Shape, Runs
  <2>2. Texted(run.cause.n)'
    <3> DEFINE t == [at |-> run.reserved, cause |-> run.cause]
    <3>1. texts \in Seq(Texts) /\ texts' = Append(texts, t) /\ t.cause = run.cause
      BY <1>11 DEF SendSms, BooksOK, BooksType
    <3> HIDE DEF t
    <3>2. Len(texts) + 1 \in DOMAIN texts' /\ texts'[Len(texts) + 1] = t
      BY <3>1
    <3> QED BY <2>1, <3>1, <3>2 DEF Texted
  <2>3. IsManual' => IsManual
    BY <1>11, <2>1 DEF SendSms, Unaborted, IsManual
  <2> QED BY <2>1, <2>2, <2>3 DEF StagesOK, Early
<1>12. CASE AwaitCode
  <2>1. run'.stage = "awaiting" /\ run'.cause = run.cause
    BY <1>2, <1>12 DEF AwaitCode, Unaborted, Stages, None
  <2>2. CASE IsManual
    <3>1. recovery'.state = "awaiting_code"
      BY <1>12, <2>2 DEF AwaitCode, IInv, Shape, Recoveries
    <3> QED BY <2>1, <3>1 DEF StagesOK, Early
  <2>3. CASE ~IsManual
    <3>1. recovery' = recovery /\ ~IsManual'
      BY <1>12, <2>1, <2>3 DEF AwaitCode, Unaborted, IsManual
    <3> QED BY <3>1, FreeStages
  <2> QED BY <2>2, <2>3
<1>13. CASE ReceiveCode
  <2>1. recovery' = recovery /\ ~IsManual'
    BY <1>2, <1>13 DEF ReceiveCode, Unaborted, IsManual, Stages, None
  <2> QED BY <2>1, FreeStages
<1>14. ASSUME NEW result, Collected(result) PROVE StagesOK'
  <2>1. CASE RunEnds(result)
    BY <1>1, <2>1
  <2>2. CASE run.stage = "collecting" /\ Goto("expired") /\ recovery' = recovery
    <3>1. Running /\ texts' = texts
      BY <1>14, <2>2 DEF Collected, Running, NoRun, None
    <3> QED BY <1>2, <2>2, <3>1, LaterStages DEF Early, Stages, None
  <2> QED BY <1>14, <2>1, <2>2 DEF Collected
<1> QED BY <1>3, <1>4, <1>5, <1>6, <1>7, <1>8, <1>9, <1>10, <1>11, <1>12, <1>13, <1>14 DEF CollectionStep

(* All steps. *)
LEMMA StepKeepsStages ==
    ASSUME IInv, IInv', BooksOK, CausesOK, CausesOK', StagesOK, [Next]_vars
    PROVE  StagesOK'
<1>1. CASE CollectionStep
  BY <1>1, CollectionKeepsStages
<1>2. ASSUME NEW id \in Requests, StartRecovery(id) PROVE StagesOK'
  <2>1. recovery'.state = "starting" /\ run'.stage = "waiting"
    BY <1>2 DEF StartRecovery, NewRun, NoRun
  <2> QED BY <2>1 DEF StagesOK, CausesOK, Early
<1>3. ASSUME NEW id \in Requests, Submit(id) PROVE StagesOK'
  <2>1. CASE End("expired")
    BY <2>1, EndStages DEF Outcomes
  <2>2. CASE Goto("code") /\ recovery' = [recovery EXCEPT !.state = "verifying", !.expires = Never]
    <3>1. recovery'.state = "verifying" /\ recovery'.expires = Never
      BY <2>2 DEF IInv, Shape, Recoveries
    <3>2. run'.stage = "code"
      BY <2>2 DEF Goto, IInv, Shape, Runs
    <3> QED BY <3>1, <3>2 DEF StagesOK, Early
  <2> QED BY <1>3, <2>1, <2>2 DEF Submit
<1>4. CASE RecoveryTimer \/ Stop \/ Close \/ \E id \in Requests : Cancel(id)
  BY <1>4, EndStages DEF RecoveryTimer, Stop, Close, StopAll, Cancel, Outcomes
<1>5. CASE Exit \/ Die
  <2>1. recovery'.expires = Never /\ ~IsManual'
    BY <1>5 DEF Exit, Die, Forget, NoRecovery, IsManual, Running
  <2> QED BY <2>1 DEF StagesOK
<1>6. ASSUME UNCHANGED <<run, recovery, texts>> PROVE StagesOK'
  BY <1>6, LaterStages
<1>7. CASE Cron \/ AttemptTimer \/ Refresh
  <2>1. recovery' = recovery /\ texts' = texts
    BY <1>7 DEF Cron, AttemptTimer, Refresh
  <2>2. CASE run' = run
    BY <1>6, <2>1, <2>2
  <2>3. CASE run' # run
    <3>1. ASSUME NEW cause, run' = NewRun(cause) PROVE run'.cause = cause
      BY <3>1 DEF NewRun, NoRun
    <3>2. Cause("cron").kind = "cron" /\ Cause("refresh").kind = "refresh"
      BY DEF Cause
    <3>3. CASE Cron
      <4> DEFINE a == [NoAttempt EXCEPT !.cause = Cause("cron"), !.deadline = clock + Window]
      <4>1. run' = NewRun(a.cause)
        BY <2>3, <3>3 DEF Cron, Attempt
      <4>2. a.cause = Cause("cron")
        BY DEF NoAttempt
      <4> QED BY <3>1, <3>2, <4>1, <4>2, FreeStages, <2>1 DEF IsManual
    <3>4. CASE AttemptTimer
      <4>1. attempt.cause.kind = "cron"
        BY <3>4 DEF AttemptTimer, IInv, Shape, NoAttempt
      <4>2. run' = NewRun(attempt.cause)
        BY <2>3, <3>4 DEF AttemptTimer, Attempt
      <4> QED BY <3>1, <4>1, <4>2, FreeStages, <2>1 DEF IsManual
    <3>5. CASE Refresh
      BY <2>1, <2>3, <3>1, <3>2, <3>5, FreeStages DEF Refresh, IsManual
    <3> QED BY <1>7, <3>3, <3>4, <3>5
  <2> QED BY <2>2, <2>3
<1>8. CASE CommandSendsSms
  <2>1. run' = run /\ recovery' = recovery /\ texts \in Seq(Texts)
        /\ texts' = Append(texts, [at |-> clock, cause |-> Cause("command")])
    BY <1>8 DEF CommandSendsSms, BooksOK, BooksType
  <2>2. Cause("command").n = causes + 1
    BY DEF Cause
  <2>3. Running => run.cause.n # causes + 1
    BY CauseNumbers DEF CausesOK
  <2>4. Running => (Texted(run.cause.n)' <=> Texted(run.cause.n))
    BY <2>1, <2>2, <2>3 DEF Texted
  <2> QED BY <2>1, <2>4 DEF StagesOK, IsManual, Running
<1>9. CASE Boot \/ Tick \/ Maintain \/ MaintainEnds \/ CommandTakesProfile \/ CommandEnds \/ ClearLock \/ UNCHANGED vars
  BY <1>6, <1>9 DEF Boot, Tick, Maintain, MaintainEnds, CommandTakesProfile, CommandEnds, ClearLock, vars
<1> QED BY <1>1, <1>2, <1>3, <1>4, <1>5, <1>7, <1>8, <1>9 DEF Next

(* A text of a recovery is counted once, and no other. *)
LEMMA CountedOnce ==
    ASSUME BooksType, NEW t \in Texts, texts' = Append(texts, t)
    PROVE  /\ Cardinality(SmsOfRecoveries) \in Nat
           /\ Cardinality(SmsOfRecoveries') =
                  Cardinality(SmsOfRecoveries) + IF t.cause.kind = "recovery" THEN 1 ELSE 0
<1> DEFINE n == Len(texts) + 1
<1>1. /\ DOMAIN texts' = DOMAIN texts \cup {n} /\ n \notin DOMAIN texts
      /\ texts'[n] = t /\ \A j \in DOMAIN texts : texts'[j] = texts[j]
  BY DEF BooksType
<1> HIDE DEF n
<1>2. SmsOfRecoveries' = IF t.cause.kind = "recovery" THEN SmsOfRecoveries \cup {n} ELSE SmsOfRecoveries
  BY <1>1 DEF SmsOfRecoveries
<1>3. n \notin SmsOfRecoveries
  BY <1>1 DEF SmsOfRecoveries
<1>4. IsFiniteSet(SmsOfRecoveries) /\ Cardinality(SmsOfRecoveries) \in Nat
  <2>1. IsFiniteSet(1 .. Len(texts))
    BY FS_Interval DEF BooksType
  <2>2. SmsOfRecoveries \subseteq 1 .. Len(texts)
    BY DEF BooksType, SmsOfRecoveries
  <2> QED BY <2>1, <2>2, FS_Subset, FS_CardinalityType
<1>5. Cardinality(SmsOfRecoveries \cup {n}) = Cardinality(SmsOfRecoveries) + 1
  BY <1>3, <1>4, FS_AddElement
<1> QED BY <1>2, <1>4, <1>5

\* A step of which a consumer is told nothing.
Unheard == recovery' = recovery /\ Saved' = Saved /\ SmsOfRecoveries' = SmsOfRecoveries /\ Sent' = Sent

LEMMA UnheardStutters == ASSUME Unheard PROVE [Promise!Next]_(Promise!vars)
BY DEF Unheard, Promise!vars

(* Nothing is heard of a step that asks for no SMS and leaves the recoveries as they are. *)
LEMMA LeavesIsUnheard ==
    ASSUME IInv, IInv', BooksOK, CausesOK, [Next]_vars, Leaves, texts' = texts
    PROVE  Unheard
<1>1. CASE ~IsLive
  <2>1. ~IsLive'
    BY <1>1 DEF Leaves, IsLive
  <2> QED BY <1>1, <2>1 DEF Leaves, Unheard, Sent, Saved, SmsOfRecoveries
<1>2. CASE IsLive
  <2>1. Running /\ Running'
    <3>1. IsLive'
      BY <1>2 DEF Leaves, IsLive
    <3> QED BY <1>2, <3>1 DEF IInv, LeaseHasItsCollection, IsManual
  <2>2. run'.cause = run.cause
    <3>1. CASE GoesOn
      BY <3>1 DEF GoesOn
    <3>2. CASE IsOver
      BY <2>1, <3>2 DEF IsOver, Running
    <3>3. CASE Begins
      BY <2>1, <3>3 DEF Begins, Running
    <3>4. CASE Tries
      <4>1. PICK a \in Attempts : Attempt(a)
        BY <3>4 DEF Tries
      <4> QED BY <2>1, <4>1 DEF Attempt
    <3>5. ASSUME NEW t, texts' = Append(texts, t) PROVE FALSE
      <4>1. Len(texts') = Len(texts) + 1 /\ Len(texts) \in Nat
        BY <3>5 DEF BooksOK, BooksType
      <4> QED BY <4>1
    <3>6. ~SendSms /\ ~CommandSendsSms
      BY <3>5 DEF SendSms, CommandSendsSms
    <3> QED BY <3>1, <3>2, <3>3, <3>4, <3>6, CausesKind
  <2>3. Sent' = Sent
    BY <2>2 DEF Leaves, Sent, IsLive
  <2> QED BY <2>3 DEF Leaves, Unheard, Saved, SmsOfRecoveries
<1> QED BY <1>1, <1>2

(* The end of a recovery, in a way its state allows, is the promised one. *)
LEMMA EndSettles ==
    ASSUME IInv, IInv', Tombstoned, texts' = texts, NEW outcome \in Outcomes, End(outcome),
           IsLive => Promise!MaySettle(outcome)
    PROVE  [Promise!Next]_(Promise!vars)
<1>1. SmsOfRecoveries' = SmsOfRecoveries
  BY DEF SmsOfRecoveries
<1>2. CASE ~IsLive
  <2>1. recovery' = recovery /\ records' = records /\ ~IsLive'
    BY <1>2 DEF End, IsLive
  <2> QED BY <1>1, <1>2, <2>1, UnheardStutters DEF Unheard, Saved, Sent
<1>3. CASE IsLive
  <2>1. recovery'.id = recovery.id /\ recovery'.state = outcome /\ recovery.id \in Requests
    BY <1>3 DEF End, IInv, Shape, Recoveries, Tombstoned, IsLive, None
  <2>2. Sent' = FALSE
    BY <2>1 DEF Sent, IsLive, Outcomes
  <2>3. Saved' \in {Saved, [Saved EXCEPT ![recovery.id] = outcome]}
    <3>1. CASE records' = records
      BY <3>1 DEF Saved
    <3>2. CASE records' = [records EXCEPT ![recovery.id].state = outcome]
      <4>1. \A id \in Requests : records'[id].state = IF id = recovery.id THEN outcome ELSE records[id].state
        BY <2>1, <3>2 DEF Tombstoned, Records
      <4>2. Saved' = [Saved EXCEPT ![recovery.id] = outcome]
        BY <2>1, <4>1 DEF Saved
      <4> QED BY <4>2
    <3> QED BY <1>3, <3>1, <3>2 DEF End
  <2>4. Promise!Settle(outcome)
    BY <1>1, <1>3, <2>1, <2>2, <2>3 DEF Promise!Settle
  <2> QED BY <2>4 DEF Promise!Next, Outcomes
<1> QED BY <1>2, <1>3

(* A collection that is over settles its recovery as its result allows. *)
LEMMA RunEndsSettles ==
    ASSUME IInv, IInv', BooksOK, CausesOK, Tombstoned, [Next]_vars, texts' = texts, NEW result, RunEnds(result),
           IsLive /\ result = "ok" => Promise!MaySettle("complete")
    PROVE  [Promise!Next]_(Promise!vars)
<1>1. CASE IsManual
  <2> DEFINE outcome == IF result = "ok" THEN "complete" ELSE "failed"
  <2>1. End(outcome) /\ outcome \in Outcomes
    BY <1>1 DEF RunEnds, Finish, Outcomes
  <2>2. IsLive => Promise!MaySettle(outcome)
    BY DEF Promise!MaySettle, Promise!Live, IsLive
  <2> HIDE DEF outcome
  <2> QED BY <2>1, <2>2, EndSettles
<1>2. CASE ~IsManual
  BY <1>2, LeavesIsUnheard, UnheardStutters DEF RunEnds, Finish, Leaves
<1> QED BY <1>1, <1>2

(* The SMS of a recovery, and those of others. *)
LEMMA SmsImplements ==
    ASSUME IInv, IInv', BooksOK, CausesOK, StagesOK, SendSms
    PROVE  [Promise!Next]_(Promise!vars)
<1> DEFINE t == [at |-> run.reserved, cause |-> run.cause]
<1>1. /\ texts' = Append(texts, t) /\ recovery' = recovery /\ records' = records
      /\ Running /\ ~run.aborted /\ run.stage = "reserved"
  BY DEF SendSms, Unaborted, disk
<1>2. run'.cause = run.cause
  BY DEF SendSms, IInv, Shape, Runs
<1>3. t \in Texts /\ t.cause = run.cause
  BY <1>1 DEF IInv, Shape, Runs, Moments, BooksOK, Timely, Texts
<1> HIDE DEF t
<1>4. Saved' = Saved /\ (IsLive' <=> IsLive)
  BY <1>1 DEF Saved, IsLive
<1>5. /\ Cardinality(SmsOfRecoveries) \in Nat
      /\ Cardinality(SmsOfRecoveries') =
             Cardinality(SmsOfRecoveries) + IF run.cause.kind = "recovery" THEN 1 ELSE 0
  BY <1>1, <1>3, CountedOnce DEF BooksOK
<1>6. CASE IsManual
  <2>1. IsLive /\ recovery.state = "starting" /\ ~Texted(run.cause.n)
    BY <1>1, <1>6 DEF IInv, InStep, StagesOK, CausesOK, Early
  <2>2. Sent = FALSE
    BY <2>1 DEF Sent, Texted
  <2>3. Sent' = TRUE
    <3>1. Len(texts) + 1 \in DOMAIN texts' /\ texts'[Len(texts) + 1] = t
      BY <1>1, <1>3 DEF BooksOK, BooksType
    <3> QED BY <1>2, <1>3, <1>4, <2>1, <3>1 DEF Sent
  <2>4. Cardinality(SmsOfRecoveries') = Cardinality(SmsOfRecoveries) + 1
    BY <1>5, <1>6 DEF IsManual
  <2>5. Promise!SendSms
    BY <1>1, <1>4, <2>1, <2>2, <2>3, <2>4 DEF Promise!SendSms
  <2> QED BY <2>5 DEF Promise!Next
<1>7. CASE ~IsManual
  <2>1. ~IsLive
    BY <1>7, LiveIsUnaborted
  <2>2. Sent' = Sent
    BY <1>4, <2>1 DEF Sent
  <2>3. Cardinality(SmsOfRecoveries') = Cardinality(SmsOfRecoveries)
    BY <1>5, <1>7, <1>1 DEF IsManual
  <2> QED BY <1>1, <1>4, <2>2, <2>3 DEF Promise!vars
<1> QED BY <1>6, <1>7

(* The SMS of a command is none of a recovery's. *)
LEMMA CommandUnheard ==
    ASSUME IInv, BooksOK, CausesOK, CommandSendsSms
    PROVE  Unheard
<1> DEFINE t == [at |-> clock, cause |-> Cause("command")]
           n == Len(texts) + 1
<1>1. texts' = Append(texts, t) /\ run' = run /\ recovery' = recovery /\ records' = records
  BY DEF CommandSendsSms
<1>2. t.cause.kind = "command" /\ t.cause.n = causes + 1
  BY DEF Cause
<1> HIDE DEF t
<1>3. /\ DOMAIN texts' = DOMAIN texts \cup {n} /\ texts'[n] = t
      /\ \A j \in DOMAIN texts : texts'[j] = texts[j] /\ j # n
  BY <1>1 DEF BooksOK, BooksType
<1> HIDE DEF n
<1>4. SmsOfRecoveries' = SmsOfRecoveries
  BY <1>2, <1>3 DEF SmsOfRecoveries
<1>5. Sent' = Sent
  <2>1. CASE IsLive
    <3>1. run.cause.n # causes + 1
      BY <2>1, LiveIsUnaborted, CauseNumbers DEF CausesOK
    <3> QED BY <1>1, <1>2, <1>3, <3>1 DEF Sent, IsLive
  <2>2. CASE ~IsLive
    BY <1>1, <2>2 DEF Sent, IsLive
  <2> QED BY <2>1, <2>2
<1> QED BY <1>1, <1>4, <1>5 DEF Unheard, Saved

(* The steps of a collection. *)
LEMMA CollectionImplements ==
    ASSUME AllowanceInv, AllowanceInv', StagesOK, CollectionStep
    PROVE  [Promise!Next]_(Promise!vars)
<1>1. IInv /\ IInv' /\ BooksOK /\ CausesOK /\ Tombstoned /\ [Next]_vars
  BY DEF AllowanceInv, Next
<1>2. ASSUME NEW result, RunEnds(result), result # "ok", texts' = texts
      PROVE  [Promise!Next]_(Promise!vars)
  BY <1>1, <1>2, RunEndsSettles
<1>3. ASSUME Leaves, texts' = texts PROVE [Promise!Next]_(Promise!vars)
  BY <1>1, <1>3, LeavesIsUnheard, UnheardStutters
<1>4. CASE Abandon
  BY <1>2, <1>4 DEF Abandon
<1>5. CASE Collect \/ Login \/ CollectAgain
  BY <1>2, <1>3, <1>5 DEF Collect, Login, CollectAgain, TakeProfile, Leaves
<1>6. CASE LoggedIn \/ Reserve \/ ReceiveCode
  BY <1>3, <1>6 DEF LoggedIn, Reserve, ReceiveCode, Leaves, disk
<1>7. CASE LoginFails
  BY <1>2, <1>7 DEF LoginFails
<1>8. CASE CodeTimesOut
  <2>1. Promise!MaySettle("canceled") <=> IsLive
    BY DEF Promise!MaySettle, Promise!Live, IsLive
  <2> QED BY <1>1, <1>8, <2>1, EndSettles DEF CodeTimesOut, Outcomes
<1>9. CASE SendSms
  BY <1>1, <1>9, SmsImplements
<1>10. CASE AwaitCode
  <2>1. CASE IsManual
    <3>1. /\ recovery' = [recovery EXCEPT !.state = "awaiting_code"]
          /\ records' = records /\ texts' = texts /\ run.stage = "sent" /\ ~run.aborted
      BY <1>10, <2>1 DEF AwaitCode, Unaborted, disk
    <3>2. recovery.state = "starting" /\ Texted(run.cause.n) /\ IsLive
      BY <1>1, <2>1, <3>1 DEF StagesOK, IInv, InStep
    <3>3. run'.cause = run.cause
      BY <1>1, <1>10 DEF AwaitCode, Goto, IInv, Shape, Runs
    <3>4. recovery'.id = recovery.id /\ recovery'.state = "awaiting_code" /\ IsLive'
      BY <1>1, <3>1 DEF IInv, Shape, Recoveries, IsLive
    <3>5. Sent = TRUE /\ Sent' = TRUE
      BY <3>1, <3>2, <3>3, <3>4 DEF Sent, Texted
    <3>6. Saved' = Saved /\ SmsOfRecoveries' = SmsOfRecoveries
      BY <3>1 DEF Saved, SmsOfRecoveries
    <3>7. Promise!RequireCode
      BY <3>2, <3>4, <3>5, <3>6 DEF Promise!RequireCode
    <3> QED BY <3>7 DEF Promise!Next
  <2>2. CASE ~IsManual
    BY <1>3, <1>10, <2>2 DEF AwaitCode, Leaves, disk
  <2> QED BY <2>1, <2>2
<1>11. ASSUME NEW result \in {"ok", "auth_required", "error"}, Collected(result)
       PROVE  [Promise!Next]_(Promise!vars)
  <2>1. texts' = texts /\ run.stage \in {"collecting", "recollecting"} /\ ~run.aborted
    BY <1>11 DEF Collected, MayStore
  <2>2. IsLive => Promise!MaySettle("complete")
    <3>1. IsLive => recovery.state = "verifying" \/ (recovery.state = "starting" /\ ~Texted(run.cause.n))
      BY <1>1, <2>1, LiveIsUnaborted DEF StagesOK, IInv, InStep, IsLive
    <3> QED BY <3>1 DEF Promise!MaySettle, Promise!Live, IsLive, Sent, Texted
  <2>3. CASE RunEnds(result)
    BY <1>1, <2>1, <2>2, <2>3, RunEndsSettles
  <2>4. CASE Leaves
    BY <1>3, <2>1, <2>4
  <2> QED BY <1>11, <2>3, <2>4 DEF Collected, Leaves
<1> QED BY <1>4, <1>5, <1>6, <1>7, <1>8, <1>9, <1>10, <1>11 DEF CollectionStep

(* Every step of the runtime is a step of the promise, or nothing is heard of it. *)
LEMMA StepImplements ==
    ASSUME AllowanceInv, AllowanceInv', StagesOK, [Next]_vars
    PROVE  [Promise!Next]_(Promise!vars)
<1>1. IInv /\ IInv' /\ BooksOK /\ CausesOK /\ CausesOK' /\ Tombstoned
  BY DEF AllowanceInv
<1>2. ASSUME Leaves, texts' = texts PROVE [Promise!Next]_(Promise!vars)
  BY <1>1, <1>2, LeavesIsUnheard, UnheardStutters
<1>3. CASE CollectionStep
  BY <1>3, CollectionImplements
<1>4. ASSUME NEW id \in Requests, StartRecovery(id) PROVE [Promise!Next]_(Promise!vars)
  <2> DEFINE forgotten == {r \in Requests \ {id} : records[r].createdAt < clock - Day}
  <2>1. ~IsLive /\ recovery.id # id /\ records[id] = NoRecord /\ texts' = texts
    BY <1>1, <1>4 DEF StartRecovery, IInv, LeaseHasItsCollection
  <2>2. recovery'.id = id /\ recovery'.state = "starting" /\ run'.stage = "waiting"
    BY <1>4 DEF StartRecovery, NewRun, NoRun
  <2>3. Sent' = FALSE
    BY <1>1, <2>2 DEF CausesOK, Early, Texted, Sent
  <2>4. Saved[id] = "none"
    BY <2>1 DEF Saved, NoRecord, None
  <2>5. Saved' = [r \in Requests |-> IF r = id THEN "interrupted"
                                     ELSE IF r \in forgotten THEN "none" ELSE Saved[r]]
    BY <1>4 DEF StartRecovery, ReserveRecord, Saved, NoRecord, None
  <2>6. forgotten \in SUBSET (Requests \ {id})
    OBVIOUS
  <2> HIDE DEF forgotten
  <2>7. SmsOfRecoveries' = SmsOfRecoveries
    BY <2>1 DEF SmsOfRecoveries
  <2>8. Promise!Ask(id)
    BY <2>1, <2>2, <2>3, <2>4, <2>5, <2>6, <2>7 DEF Promise!Ask, Promise!Live, Promise!None, IsLive
  <2> QED BY <2>8 DEF Promise!Next
<1>5. ASSUME End("expired"), texts' = texts, recovery.state \in {"starting", "awaiting_code"}
      PROVE  [Promise!Next]_(Promise!vars)
  <2>1. Promise!MaySettle("expired")
    BY <1>5 DEF Promise!MaySettle, Promise!Live
  <2> QED BY <1>1, <1>5, <2>1, EndSettles DEF Outcomes
<1>6. ASSUME NEW id \in Requests, Submit(id) PROVE [Promise!Next]_(Promise!vars)
  <2>1. texts' = texts
    BY <1>6 DEF Submit
  <2>2. CASE recovery.expires # Never /\ clock >= recovery.expires
    <3>1. recovery.state \in {"starting", "awaiting_code"}
      BY <2>2 DEF StagesOK
    <3> QED BY <1>5, <1>6, <2>1, <2>2, <3>1 DEF Submit
  <2>3. CASE ~(recovery.expires # Never /\ clock >= recovery.expires)
    <3>1. /\ recovery.state = "awaiting_code" /\ records' = records /\ Goto("code")
          /\ recovery' = [recovery EXCEPT !.state = "verifying", !.expires = Never]
      BY <1>6, <2>3 DEF Submit, disk
    <3>2. recovery'.id = recovery.id /\ recovery'.state = "verifying"
      BY <1>1, <3>1 DEF IInv, Shape, Recoveries
    <3>3. run'.cause = run.cause
      BY <1>1, <3>1 DEF Goto, IInv, Shape, Runs
    <3>4. Sent' = Sent /\ Saved' = Saved /\ SmsOfRecoveries' = SmsOfRecoveries
      BY <2>1, <3>1, <3>2, <3>3 DEF Sent, Saved, SmsOfRecoveries, IsLive
    <3>5. Promise!AcceptCode
      BY <3>1, <3>2, <3>4 DEF Promise!AcceptCode
    <3> QED BY <3>5 DEF Promise!Next
  <2> QED BY <2>2, <2>3
<1>7. CASE RecoveryTimer
  BY <1>5, <1>7 DEF RecoveryTimer
<1>8. CASE Stop \/ Close \/ \E id \in Requests : Cancel(id)
  <2>1. Promise!MaySettle("canceled") <=> IsLive
    BY DEF Promise!MaySettle, Promise!Live, IsLive
  <2> QED BY <1>1, <1>8, <2>1, EndSettles DEF Stop, Close, StopAll, Cancel, Outcomes
<1>9. CASE Exit \/ Die
  <2>1. recovery' = NoRecovery /\ records' = records /\ texts' = texts
    BY <1>9 DEF Exit, Die, Forget, disk
  <2>2. recovery'.id = "none" /\ recovery'.state = "none"
    BY <2>1 DEF NoRecovery, None
  <2>3. Sent' = FALSE /\ Saved' = Saved /\ SmsOfRecoveries' = SmsOfRecoveries
    BY <2>1, <2>2 DEF Sent, Saved, SmsOfRecoveries, IsLive
  <2>4. Promise!Restart
    BY <2>2, <2>3 DEF Promise!Restart, Promise!None
  <2> QED BY <2>4 DEF Promise!Next
<1>10. CASE CommandSendsSms
  BY <1>1, <1>10, CommandUnheard, UnheardStutters
<1>11. CASE Cron \/ AttemptTimer \/ Refresh \/ Boot \/ Tick \/ UNCHANGED vars
  BY <1>2, <1>11 DEF Cron, AttemptTimer, Refresh, Boot, Tick, vars, disk, Leaves
<1>12. CASE Maintain \/ MaintainEnds \/ CommandTakesProfile \/ CommandEnds \/ ClearLock
  BY <1>2, <1>12 DEF Maintain, MaintainEnds, CommandTakesProfile, CommandEnds, ClearLock, Leaves
<1> QED BY <1>3, <1>4, <1>6, <1>7, <1>8, <1>9, <1>10, <1>11, <1>12 DEF Next

(* Both start alike. *)
LEMMA InitImplements == ASSUME Init PROVE Promise!Init /\ StagesOK
<1>1. recovery.id = "none" /\ recovery.state = "none" /\ recovery.expires = Never
  BY DEF Init, NoRecovery, None
<1>2. Sent = FALSE /\ ~IsManual
  BY <1>1 DEF Init, Sent, IsLive, IsManual, Running
<1>3. Saved = [id \in Requests |-> "none"]
  BY DEF Init, Saved, NoRecord, None
<1>4. SmsOfRecoveries = {}
  BY DEF Init, SmsOfRecoveries
<1>5. Cardinality(SmsOfRecoveries) = 0
  BY <1>4, FS_EmptySet
<1> QED BY <1>1, <1>2, <1>3, <1>5 DEF Promise!Init, Promise!None, StagesOK

(* The runtime keeps what a consumer is promised of a recovery: each request asks for one SMS at    *)
(* most, while it is starting; a code is required only after that SMS; a recovery completes with    *)
(* its code or without any SMS; it does not expire once its code is accepted; and a retry of a      *)
(* known id asks for nothing, whatever collections, timers, cancellations, failing saves, restarts  *)
(* and other causes of SMS come in between (manual-recovery.ts, and the tombstones of store.ts).    *)
THEOREM PromiseIsKept == Spec => ImplementsRecovery
<1>1. AllowanceInv /\ AllowanceInv' /\ StagesOK /\ [Next]_vars => StagesOK' /\ [Promise!Next]_(Promise!vars)
  BY StepKeepsStages, StepImplements DEF AllowanceInv
<1> QED BY <1>1, StepKeepsAllowance, InitAllowance, InitImplements, PTL DEF Spec, ImplementsRecovery, Promise!Spec

=============================================================================
