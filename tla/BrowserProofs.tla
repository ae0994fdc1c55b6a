---------------------------- MODULE BrowserProofs ----------------------------
(***************************************************************************)
(* What holds of the browsers, proved for any number of runs, collectors,  *)
(* policies and executions: of the runs of one profile who may have a      *)
(* Chrome open, what the end of a run says and when a login is confirmed;  *)
(* and of the readers of the three investment portals what they vouch for. *)
(***************************************************************************)
EXTENDS ScrapeRunner, Portals, SequenceTheorems, FiniteSetTheorems, TLAPS

-----------------------------------------------------------------------------
(* The invariant the theorems rest on. *)

\* The runs are started in order, those of one process one after another.
RunsInOrder ==
    /\ \A i, j \in Runs : j < i /\ run[i].stage # None => run[j].stage # None
    /\ \A i \in Runs : run[i].stage = None => run[i] = NoRun
    /\ \A i, j \in Runs : Active(i) /\ Active(j) /\ run[i].by = run[j].by => i = j

\* What is known of a run x, its browser and its outcome.
RunOK(x) ==
    /\ x.lib \in {None, "launching", "working"} => x.logins = 0
    /\ x.lib = "launching" => x.chrome = None /\ x.stage \in {"racing", "done"}
    /\ Open(x) /\ ~x.late => x.stage \notin {None, "done"}
    /\ x.late => x.stage = "done"
    /\ x.late /\ shared /\ Open(x) => x.lib = "closing"
    /\ x.lib = "closing" => x.logins = 0 /\ x.stage = "done"
    /\ x.stage = "done" /\ Open(x) => x.late
    /\ x.stage \in {"closing", "done"} /\ x.form => x.outcome \notin {"timeout", "generic"}

\* The process of an assisted login has begun no run before the login is done.
LoginOK ==
    /\ login.stage # "done" => \A i \in Started : run[i].by # LoginProcess
    /\ Open(login) => login.stage \in {"working", "waiting", "cleaning"}
    /\ login.stage = "confirm" => login.completed /\ login.helpers = {}

RInv == TypeOK /\ RunsInOrder /\ (\A i \in Runs : RunOK(run[i])) /\ LoginOK

LEMMA InitRInv == Init => RInv
<1> SUFFICES ASSUME Init PROVE RInv
  OBVIOUS
<1>1. NoRun \in RunType /\ NoLogin \in LoginType
  BY RunnerAssumption DEF NoRun, NoLogin, RunType, LoginType, None
<1>2. TypeOK
  BY <1>1 DEF Init, TypeOK
<1>3. \A i \in Runs : run[i] = NoRun /\ run[i].stage = None
  BY DEF Init, NoRun
<1>4. RunsInOrder
  BY <1>3 DEF RunsInOrder, Active
<1>5. \A i \in Runs : RunOK(run[i])
  BY <1>3 DEF RunOK, NoRun, Open, None
<1>6. LoginOK
  BY <1>3 DEF Init, LoginOK, NoLogin, Open, Started, None
<1> QED BY <1>2, <1>4, <1>5, <1>6 DEF RInv

\* The next run is one that has not been started.
LEMMA NextRun ==
    ASSUME RInv, Cardinality(Started) < MaxRuns
    PROVE  LET k == Cardinality(Started) + 1 IN
           /\ k \in Runs /\ run[k] = NoRun
           /\ \A j \in Runs : j < k => run[j].stage # None
<1> DEFINE n == Cardinality(Started)
           k == n + 1
<1>1. IsFiniteSet(Started) /\ n \in Nat /\ MaxRuns \in Nat
  <2>1. IsFiniteSet(Runs) /\ Started \in SUBSET Runs
    BY RunnerAssumption, FS_Interval DEF Runs, Started
  <2> QED BY <2>1, FS_Subset, FS_CardinalityType, RunnerAssumption
<1> HIDE DEF n
<1>2. k \in Runs
  BY <1>1 DEF Runs, n
<1>3. run[k].stage = None
  <2> SUFFICES ASSUME run[k].stage # None PROVE FALSE
    OBVIOUS
  <2>1. 1..k \in SUBSET Started
    BY <1>1, <1>2 DEF RInv, RunsInOrder, Started, Runs
  <2>2. Cardinality(1..k) = k
    BY <1>1, FS_Interval
  <2>3. Cardinality(1..k) <= n
    BY <1>1, <2>1, FS_Subset DEF n
  <2> QED BY <1>1, <2>2, <2>3
<1>4. ASSUME NEW j \in Runs, j < k, run[j].stage = None PROVE FALSE
  <2>1. Started \in SUBSET (1..(j - 1))
    BY <1>4, <1>1 DEF RInv, RunsInOrder, Started, Runs
  <2>2. j \in Nat /\ j >= 1 /\ j - 1 \in Int
    BY <1>1 DEF Runs
  <2>3. IsFiniteSet(1..(j - 1)) /\ Cardinality(1..(j - 1)) = j - 1
    BY <2>2, FS_Interval
  <2>4. n <= j - 1
    BY <2>1, <2>3, FS_Subset DEF n
  <2> QED BY <1>1, <1>4, <2>2, <2>4
<1> QED BY <1>2, <1>3, <1>4 DEF RInv, RunsInOrder, n

-----------------------------------------------------------------------------
(* Every step keeps it. *)

\* A step that begins no run.
NothingBegins == \A i \in Runs : run[i].stage = None => ~Active(i)'

\* A step of one run that keeps the others.
LEMMA OneRunStep ==
    ASSUME RInv, NEW i \in Runs, NEW x \in RunType, run' = [run EXCEPT ![i] = x],
           run[i].stage # None, x.stage # None, x.stage # "done" => run[i].stage # "done",
           x.by = run[i].by, RunOK(x), UNCHANGED <<shared, login>>
    PROVE  RInv' /\ NothingBegins
<1>1. run'[i] = x /\ \A j \in Runs : j # i => run'[j] = run[j]
  BY DEF RInv, TypeOK
<1>2. TypeOK'
  BY DEF RInv, TypeOK
<1>3. RunsInOrder'
  BY <1>1 DEF RInv, RunsInOrder, Active
<1>4. \A j \in Runs : RunOK(run[j])'
  BY <1>1 DEF RInv, RunOK
<1>5. LoginOK'
  BY <1>1 DEF RInv, LoginOK, Started
<1>6. NothingBegins
  BY <1>1 DEF NothingBegins, Active
<1> QED BY <1>2, <1>3, <1>4, <1>5, <1>6 DEF RInv

LEMMA RunStepKeeps ==
    ASSUME RInv, NEW i \in Runs, RunStep(i)
    PROVE  RInv' /\ NothingBegins
<1> USE DEF None
<1> DEFINE x == run[i]
<1>0. x \in RunType /\ RunOK(x) /\ x.stage # None /\ shared \in BOOLEAN
  BY DEF RInv, TypeOK, RunsInOrder, RunStep, Launched, LaunchFails, LateClosed, Submit, SeeOtp, LibraryEnds,
         ChromeDies, Deadline, Killed, Finish, Collected, Closed, NoRun, Open, Racing, LibraryBusy, None
<1>1. CASE Launched(i)
  <2> DEFINE y == [x EXCEPT !.chrome = "open", !.late = ~Racing(i),
                            !.lib = IF shared /\ ~Racing(i) THEN "closing" ELSE "working"]
  <2>1. run' = [run EXCEPT ![i] = y]
    BY <1>1 DEF Launched, RInv, TypeOK
  <2>2. y \in RunType /\ y.stage = x.stage /\ y.by = x.by
    BY <1>0 DEF RunType
  <2>3. RunOK(y)
    BY <1>0, <1>1 DEF Launched, RunType, RunOK, Open, Racing
  <2> QED BY <1>0, <1>1, <2>1, <2>2, <2>3, OneRunStep DEF Launched
<1>13. CASE LateClosed(i)
  <2> DEFINE y == [x EXCEPT !.chrome = "gone", !.lib = "threw"]
  <2>1. run' = [run EXCEPT ![i] = y]
    BY <1>13 DEF LateClosed, RInv, TypeOK
  <2>2. y \in RunType /\ y.stage = x.stage /\ y.by = x.by
    BY <1>0 DEF RunType
  <2>3. RunOK(y)
    BY <1>0, <1>13 DEF LateClosed, RunType, RunOK, Open
  <2> QED BY <1>0, <1>13, <2>1, <2>2, <2>3, OneRunStep DEF LateClosed
<1>2. CASE LaunchFails(i)
  <2> DEFINE y == [x EXCEPT !.lib = "threw"]
  <2>1. run' = [run EXCEPT ![i] = y]
    BY <1>2 DEF LaunchFails, RInv, TypeOK
  <2>2. y \in RunType /\ RunOK(y) /\ y.by = x.by /\ y.stage # None
         /\ (y.stage # "done" => x.stage # "done")
    BY <1>0, <1>2 DEF LaunchFails, RunType, RunOK, Open, None
  <2> QED BY <1>0, <1>2, <2>1, <2>2, OneRunStep DEF LaunchFails
<1>3. CASE Submit(i)
  <2> DEFINE y == [x EXCEPT !.lib = "submitted", !.logins = @ + 1]
  <2>4. x.lib = "working" /\ x.logins = 0
    BY <1>0, <1>3 DEF Submit, RunOK
  <2>1. run' = [run EXCEPT ![i] = y]
    BY <1>3 DEF Submit, RInv, TypeOK
  <2>5. x.logins + 1 \in 0..1
    BY <2>4
  <2>2. y \in RunType /\ y.by = x.by /\ y.stage # None
         /\ (y.stage # "done" => x.stage # "done")
    BY <1>0, <2>5 DEF RunType
  <2>3. RunOK(y)
    BY <1>0, <1>3 DEF Submit, RunType, RunOK, Open, None
  <2> QED BY <1>0, <1>3, <2>1, <2>2, <2>3, OneRunStep DEF Submit
<1>4. CASE SeeOtp(i)
  <2>1. PICK y \in {[x EXCEPT !.form = TRUE], [x EXCEPT !.url = TRUE]} : run' = [run EXCEPT ![i] = y]
    BY <1>4 DEF SeeOtp, RInv, TypeOK
  <2>2. x.stage \in {"racing", "killing"}
    BY <1>4 DEF SeeOtp
  <2>3. y \in RunType /\ RunOK(y) /\ y.by = x.by /\ y.stage = x.stage
    <3>1. CASE y = [x EXCEPT !.form = TRUE]
      BY <1>0, <2>2, <3>1 DEF RunType, RunOK, Open
    <3>2. CASE y = [x EXCEPT !.url = TRUE]
      BY <1>0, <3>2 DEF RunType, RunOK, Open
    <3> QED BY <2>1, <3>1, <3>2
  <2> QED BY <1>0, <1>4, <2>1, <2>3, OneRunStep DEF SeeOtp
<1>5. CASE LibraryEnds(i)
  <2>1. PICK ending \in {"success", "refused", "failed"} :
            run' = [run EXCEPT ![i].lib = ending, ![i].chrome = IF shared THEN @ ELSE "gone"]
    BY <1>5 DEF LibraryEnds
  <2> DEFINE y == [x EXCEPT !.lib = ending, !.chrome = IF shared THEN @ ELSE "gone"]
  <2>2. run' = [run EXCEPT ![i] = y]
    BY <2>1 DEF RInv, TypeOK
  <2>3. y \in RunType /\ RunOK(y) /\ y.by = x.by /\ y.stage = x.stage
    <3>1. x.lib \in {"working", "submitted"}
      BY <1>5 DEF LibraryEnds
    <3>2. y \in RunType /\ y.by = x.by /\ y.stage = x.stage
      BY <1>0, <2>1 DEF RunType
    <3>3. RunOK(y)
      BY <1>0, <2>1, <3>1 DEF RunType, RunOK, Open, None
    <3> QED BY <3>2, <3>3
  <2> QED BY <1>0, <1>5, <2>2, <2>3, OneRunStep DEF LibraryEnds
<1>6. CASE ChromeDies(i)
  <2> DEFINE y == [x EXCEPT !.chrome = "gone"]
  <2>1. run' = [run EXCEPT ![i] = y]
    BY <1>6 DEF ChromeDies, RInv, TypeOK
  <2>2. y \in RunType /\ RunOK(y) /\ y.by = x.by /\ y.stage # None
         /\ (y.stage # "done" => x.stage # "done")
    BY <1>0, <1>6 DEF ChromeDies, RunType, RunOK, Open, None
  <2> QED BY <1>0, <1>6, <2>1, <2>2, OneRunStep DEF ChromeDies
<1>7. ASSUME NEW outcome \in {"ok", "timeout", "otp", "generic", "refused", "bridge"}, Over(i, outcome),
             x.form => outcome \notin {"timeout", "generic"}, x.stage # "done",
             UNCHANGED <<shared, login>>
      PROVE  RInv' /\ NothingBegins
  <2> DEFINE y == [x EXCEPT !.outcome = outcome, !.stage = IF Open(x) THEN "closing" ELSE "done"]
  <2>1. run' = [run EXCEPT ![i] = y]
    BY <1>7 DEF Over, RInv, TypeOK
  <2>2. y \in RunType /\ y.by = x.by /\ y.stage # None
    BY <1>0, <1>7 DEF RunType, None
  <2>4. RunOK(y)
    BY <1>0, <1>7 DEF RunType, RunOK, Open, None
  <2> QED BY <1>0, <1>7, <2>1, <2>2, <2>4, OneRunStep
<1>8. CASE Deadline(i)
  <2>1. CASE Open(x)
    <3> DEFINE y == [x EXCEPT !.stage = "killing"]
    <3>1. run' = [run EXCEPT ![i] = y]
      BY <1>8, <2>1 DEF Deadline, RInv, TypeOK
    <3>2. y \in RunType /\ y.by = x.by /\ y.stage = "killing" /\ x.stage # "done"
      BY <1>0, <1>8 DEF Deadline, Racing, RunType, None
    <3>3. RunOK(y)
      <4>1. x.stage = "racing" /\ x.lib # "launching"
        BY <1>0, <1>8, <2>1 DEF Deadline, Racing, RunOK, Open
      <4> QED BY <1>0, <4>1 DEF RunType, RunOK, Open
    <3> QED BY <1>0, <1>8, <2>1, <3>1, <3>2, <3>3, OneRunStep DEF Deadline, None
  <2>2. CASE ~Open(x)
    BY <1>7, <1>8, <2>2 DEF Deadline, Racing, Mapped
  <2> QED BY <2>1, <2>2
<1>9. CASE Killed(i)
  <2> DEFINE outcome == Mapped("timeout", x.form)
             y == [x EXCEPT !.chrome = "gone", !.stage = "done", !.outcome = outcome]
  <2>1. run' = [run EXCEPT ![i] = y]
    BY <1>9 DEF Killed, RInv, TypeOK
  <2>2. outcome \in {"timeout", "otp"} /\ (x.form => outcome = "otp")
    BY <1>0 DEF Mapped, RunType
  <2> HIDE DEF outcome
  <2>3. y \in RunType /\ y.by = x.by /\ y.stage = "done"
    BY <1>0, <2>2 DEF RunType
  <2>5. RunOK(y)
    BY <1>0, <1>9, <2>2 DEF Killed, RunType, RunOK, Open
  <2> QED BY <1>0, <1>9, <2>1, <2>3, <2>5, OneRunStep DEF Killed, None
<1>10. CASE Finish(i)
  <2>1. CASE x.lib = "success" /\ shared /\ Open(x)
    <3> DEFINE y == [x EXCEPT !.stage = "collecting"]
    <3>1. run' = [run EXCEPT ![i] = y] /\ UNCHANGED <<shared, login>>
      BY <1>10, <2>1 DEF Finish, RInv, TypeOK
    <3>2. y \in RunType /\ y.by = x.by /\ y.stage = "collecting" /\ x.stage # "done"
      BY <1>0, <1>10 DEF Finish, Racing, RunType, None
    <3>3. RunOK(y)
      BY <1>0, <2>1, <1>10 DEF Finish, Racing, RunType, RunOK, Open, None
    <3> QED BY <1>0, <3>1, <3>2, <3>3, OneRunStep DEF None
  <2>2. CASE ~(x.lib = "success" /\ shared /\ Open(x))
    <3>1. x.stage # "done" /\ UNCHANGED <<shared, login>>
      BY <1>10 DEF Finish, Racing
    <3>2. \/ Over(i, "ok") \/ Over(i, "refused") \/ Over(i, "bridge")
          \/ Over(i, Mapped("generic", x.form \/ x.url))
      BY <1>10, <2>2 DEF Finish
    <3> QED BY <1>7, <3>1, <3>2 DEF Mapped
  <2> QED BY <2>1, <2>2
<1>11. CASE Collected(i)
  BY <1>7, <1>11 DEF Collected
<1>12. CASE Closed(i)
  <2> DEFINE y == [x EXCEPT !.chrome = "gone", !.stage = "done"]
  <2>1. run' = [run EXCEPT ![i] = y]
    BY <1>12 DEF Closed, RInv, TypeOK
  <2>2. y \in RunType /\ y.by = x.by /\ y.stage # None
         /\ (y.stage # "done" => x.stage # "done")
    BY <1>0, <1>12 DEF Closed, RunType, RunOK, None
  <2>3. RunOK(y)
    BY <1>0, <1>12 DEF Closed, RunType, RunOK, Open, None
  <2> QED BY <1>0, <1>12, <2>1, <2>2, <2>3, OneRunStep DEF Closed
<1> QED BY <1>1, <1>2, <1>3, <1>4, <1>5, <1>6, <1>8, <1>9, <1>10, <1>11, <1>12, <1>13 DEF RunStep

LEMMA StartedType ==
    ASSUME NEW p \in Processes
    PROVE  [NoRun EXCEPT !.by = p, !.stage = "racing", !.lib = "launching"] \in RunType
<1>1. NoRun \in RunType
  BY RunnerAssumption DEF RunType, NoRun, None
<1>2. \A x \in RunType : [x EXCEPT !.by = p, !.stage = "racing", !.lib = "launching"] \in RunType
  BY DEF RunType
<1> QED BY <1>1, <1>2

\* A process that has no active run begins one.
LEMMA BeginKeeps ==
    ASSUME RInv, NEW p \in Processes, Begin(p), Idle(p), UNCHANGED shared,
           (p # LoginProcess /\ UNCHANGED login) \/ (p = LoginProcess /\ Confirm)
    PROVE  RInv' /\ \A i \in Runs : run[i].stage = None /\ Active(i)' => run'[i].by = p
<1>1. PICK k \in Runs : /\ k = Cardinality(Started) + 1 /\ run[k] = NoRun
                        /\ \A j \in Runs : j < k => run[j].stage # None
  BY NextRun DEF Begin
<1>2. run' = [run EXCEPT ![k].by = p, ![k].stage = "racing", ![k].lib = "launching"]
  BY <1>1 DEF Begin
<1>3. /\ run'[k] = [NoRun EXCEPT !.by = p, !.stage = "racing", !.lib = "launching"]
      /\ \A j \in Runs : j # k => run'[j] = run[j]
  BY <1>1, <1>2 DEF RInv, TypeOK, NoRun
<1>k. run'[k].stage = "racing" /\ run'[k].by = p /\ run[k].stage = None
  BY <1>1, <1>3 DEF NoRun
<1>4. TypeOK'
  <2>1. run'[k] \in RunType
    BY <1>3, StartedType
  <2>2. run' \in [Runs -> RunType]
    BY <1>2, <1>3, <2>1 DEF RInv, TypeOK
  <2>3. shared' \in BOOLEAN /\ login' \in LoginType
    BY DEF Confirm, GotoLogin, RInv, TypeOK, LoginType
  <2> QED BY <2>2, <2>3 DEF TypeOK
<1>5. RunsInOrder'
  <2>1. \A i, j \in Runs : j < i /\ run'[i].stage # None => run'[j].stage # None
    BY <1>1, <1>3, <1>k DEF RInv, RunsInOrder, NoRun, None
  <2>2. \A i \in Runs : run'[i].stage = None => run'[i] = NoRun
    BY <1>3, <1>k DEF RInv, RunsInOrder, None
  <2>3. \A i, j \in Runs : Active(i)' /\ Active(j)' /\ run'[i].by = run'[j].by => i = j
    <3>1. \A j \in Runs : j # k => (Active(j)' <=> Active(j))
      BY <1>3 DEF Active
    <3>2. \A j \in Runs : j # k /\ Active(j)' => run'[j].by # p
      BY <1>3, <3>1 DEF Idle
    <3> QED BY <1>3, <1>k, <3>1, <3>2 DEF RInv, RunsInOrder
  <2> QED BY <2>1, <2>2, <2>3 DEF RunsInOrder
<1>6. \A j \in Runs : RunOK(run[j])'
  <2>1. RunOK(run[k])'
    <3>1. /\ run'[k].chrome = None /\ run'[k].logins = 0 /\ ~run'[k].late
          /\ run'[k].lib = "launching"
      BY <1>3 DEF NoRun
    <3> QED BY <1>k, <3>1 DEF RunOK, None, Open
  <2>2. ASSUME NEW j \in Runs, j # k PROVE RunOK(run[j])'
    BY <1>3, <2>2 DEF RunOK, RInv
  <2> QED BY <2>1, <2>2
<1>7. LoginOK'
  <2>1. CASE p # LoginProcess /\ UNCHANGED login
    BY <1>3, <1>k, <2>1 DEF RInv, LoginOK, Started, Open
  <2>2. CASE Confirm
    BY <2>2 DEF Confirm, GotoLogin, RInv, TypeOK, LoginType, LoginOK, Open
  <2> QED BY <2>1, <2>2
<1>8. \A i \in Runs : run[i].stage = None /\ Active(i)' => run'[i].by = p
  BY <1>3, <1>k DEF Active
<1> QED BY <1>4, <1>5, <1>6, <1>7, <1>8 DEF RInv

\* What LoginConfirmsWhenDone asks of a step.
ConfirmsWhenDone ==
    \A i \in Runs : run[i].stage = None /\ Active(i)' /\ run'[i].by = LoginProcess
        => login.completed /\ ~LoginRunning /\ login.helpers = {}

LEMMA LoginStepKeeps ==
    ASSUME RInv, LoginStep
    PROVE  RInv' /\ ConfirmsWhenDone
<1> USE DEF None
<1>1. CASE Confirm
  <2>1. Idle(LoginProcess)
    BY <1>1 DEF Confirm, RInv, LoginOK, Idle, Active, Started
  <2>2. RInv'
    BY <1>1, <2>1, BeginKeeps, RunnerAssumption DEF Confirm
  <2>3. login.completed /\ ~LoginRunning /\ login.helpers = {}
    BY <1>1 DEF Confirm, RInv, LoginOK, LoginRunning
  <2> QED BY <2>2, <2>3 DEF ConfirmsWhenDone
<1>2. CASE ~Confirm
  <2>1. UNCHANGED <<shared, run>> /\ login.stage \notin {"done", "confirm"}
    BY <1>2 DEF LoginStep, StartLogin, StartHelper, LoginLaunches, LibraryLogin, Operator,
                LoginChromeDies, Interrupt, Cleaned, RInv, LoginOK
  <2>2. TypeOK' /\ LoginOK'
    <3>0. \A i \in Started' : run'[i].by # LoginProcess
      BY <2>1 DEF RInv, LoginOK, Started
    <3>1. CASE StartHelper
      <4>1. \/ \E h \in Helpers : login' = [login EXCEPT !.helpers = @ \cup {h}]
            \/ login' = [login EXCEPT !.helpers = {}, !.stage = "done"]
            \/ login' = [login EXCEPT !.stage = "launching"]
        BY <3>1 DEF StartHelper, GotoLogin
      <4>2. login.stage = "display"
        BY <3>1 DEF StartHelper
      <4>3. ~Open(login)
        BY <4>2 DEF RInv, LoginOK
      <4>4. login' \in LoginType
        BY <4>1, <4>2 DEF RInv, TypeOK, LoginType
      <4>5. ~Open(login)' /\ login'.stage # "confirm"
        BY <4>1, <4>2, <4>3 DEF RInv, TypeOK, LoginType, Open
      <4> QED BY <2>1, <3>0, <4>4, <4>5 DEF RInv, TypeOK, LoginOK
    <3>2. CASE LoginLaunches \/ LibraryLogin
      BY <2>1, <3>0, <3>2 DEF LoginLaunches, LibraryLogin, GotoLogin, Cleanup, RInv, TypeOK, LoginType,
                              LoginOK, Open
    <3>3. CASE Operator
      BY <2>1, <3>0, <3>3 DEF Operator, Cleanup, RInv, TypeOK, LoginType, LoginOK, Open
    <3>4. CASE LoginChromeDies \/ Interrupt
      BY <2>1, <3>0, <3>4 DEF LoginChromeDies, Interrupt, Cleanup, RInv, TypeOK, LoginType, LoginOK, Open
    <3>5. CASE Cleaned
      BY <2>1, <3>0, <3>5 DEF Cleaned, RInv, TypeOK, LoginType, LoginOK, Open
    <3>6. CASE StartLogin
      BY <2>1, <3>0, <3>6 DEF StartLogin, GotoLogin, RInv, TypeOK, LoginType, LoginOK, Open
    <3> QED BY <1>2, <3>1, <3>2, <3>3, <3>4, <3>5, <3>6 DEF LoginStep
  <2>3. ConfirmsWhenDone
    BY <2>1 DEF ConfirmsWhenDone, Active
  <2> QED BY <2>1, <2>2, <2>3 DEF RInv, RunsInOrder, RunOK, Active, Open
<1> QED BY <1>1, <1>2

LEMMA StepRInv ==
    ASSUME RInv, [Next]_vars
    PROVE  RInv' /\ ConfirmsWhenDone
<1>1. CASE UNCHANGED vars
  BY <1>1 DEF vars, RInv, TypeOK, RunsInOrder, RunOK, LoginOK, Active, Open, Started, ConfirmsWhenDone
<1>2. ASSUME NEW p \in Processes, StartRun(p) PROVE RInv' /\ ConfirmsWhenDone
  BY <1>2, BeginKeeps DEF StartRun, ConfirmsWhenDone
<1>3. ASSUME NEW i \in Runs, RunStep(i) PROVE RInv' /\ ConfirmsWhenDone
  BY <1>3, RunStepKeeps DEF NothingBegins, ConfirmsWhenDone
<1> QED BY <1>1, <1>2, <1>3, LoginStepKeeps DEF Next

\* Every run and the login keep what the next step of runCompany, killBrowser or login.ts
\* relies on.
THEOREM Invariant == Spec => []RInv
BY InitRInv, StepRInv, PTL DEF Spec

-----------------------------------------------------------------------------
(* The theorems. *)

\* A process never has two Chromes of one profile, except one that came up after the deadline
\* of its run: the runs of runNow, their ends in runCompany and killBrowser, and the cleanup of
\* bridge login before its confirmation.
THEOREM OneChromeHolds == Spec => []OneChrome
<1>1. RInv => OneChrome
  <2> SUFFICES ASSUME RInv, NEW p \in Processes
               PROVE  Cardinality({i \in Runs : run[i].by = p /\ Running(run[i]) /\ ~Late(run[i])})
                          + (IF p = LoginProcess /\ LoginRunning THEN 1 ELSE 0) <= 1
    BY DEF OneChrome, RInv
  <2> DEFINE S == {i \in Runs : run[i].by = p /\ Running(run[i]) /\ ~Late(run[i])}
  <2>1. \A i \in S : Active(i)
    BY DEF RInv, RunOK, Active, Running, Late, Open, None
  <2>2. \A i, j \in S : i = j
    BY <2>1 DEF RInv, RunsInOrder
  <2>3. p = LoginProcess /\ LoginRunning => S = {}
    <3>1. LoginRunning => login.stage # "done"
      BY DEF RInv, LoginOK, LoginRunning
    <3> QED BY <2>1, <3>1 DEF RInv, LoginOK, Started, Active
  <2>4. S = {} \/ \E i \in S : S = {i}
    BY <2>2
  <2>5. Cardinality(S) \in {0, 1} /\ (S = {} => Cardinality(S) = 0)
    <3> HIDE DEF S
    <3> QED BY <2>4, FS_EmptySet, FS_Singleton
  <2> HIDE DEF S
  <2>6. Cardinality(S) + (IF p = LoginProcess /\ LoginRunning THEN 1 ELSE 0) <= 1
    BY <2>3, <2>5
  <2> QED BY <2>6 DEF S
<1> QED BY <1>1, Invariant, PTL

\* A browser that is open after its run is over came up after the deadline (runner.ts kills or
\* closes every other one), and a shared one is then being closed without a login.
THEOREM OnlyLateOnesSurviveHolds == Spec => []OnlyLateOnesSurvive
<1>1. RInv => OnlyLateOnesSurvive
  BY DEF RInv, RunOK, OnlyLateOnesSurvive
<1> QED BY <1>1, Invariant, PTL

\* A run on whose page the form of a one-time code was seen does not end as a timeout or a
\* generic failure (mapScraperError), at whatever moment it was seen.
THEOREM OtpIsNeverMissed == Spec => []OtpIsNotMissed
<1>1. RInv => OtpIsNotMissed
  BY DEF RInv, RunOK, OtpIsNotMissed
<1> QED BY <1>1, Invariant, PTL

\* The run that confirms a login begins only when the login was completed and its Chrome and
\* helpers are gone (login.ts): given up or interrupted, it runs nothing.
THEOREM LoginsConfirmWhenDone == Spec => LoginConfirmsWhenDone
<1>1. RInv /\ [Next]_vars => [ConfirmsWhenDone]_vars
  BY StepRInv
<1> QED BY <1>1, Invariant, PTL DEF Spec, LoginConfirmsWhenDone, ConfirmsWhenDone

-----------------------------------------------------------------------------
(* The collections of Best Invest: lease, Chrome, login and session.       *)

Left == 0..MaxPolicies
RunsOf == 0..MaxCollections
ReadSessions == BestInvest!Sessions \cup {BestInvest!NoSession}
Code == {BestInvest!None, "COLLECTION_FAILED", "INVALID_CREDENTIALS", "INVALID_RESPONSE",
         "OTP_REQUIRED", "CREDENTIAL_RESOLUTION_FAILED", "TIMEOUT"}

\* A collection, as it is kept for each collector.
Collection ==
    [stage : {"idle", "starting", "opened", "asking", "login", "armed", "sent", "verifying",
              "reading", "read", "failed", "closing"},
     page : ReadSessions, there : BOOLEAN,
     login : {"no", "begun", "submitted", "accepted"}, sms : {0, 1}, needed : BOOLEAN,
     held : BOOLEAN, aborted : BOOLEAN, left : Left,
     code : Code, runs : RunsOf]

\* What the stage of a collection x says of its login and its policies.
CollectionOK(x) ==
    /\ IF x.stage = "idle" THEN x.login = "no" ELSE x.runs # MaxCollections
    /\ x.stage \in {"starting", "opened", "login"} => x.login = "no"
    /\ x.login = "no" => x.sms = 0
    /\ x.stage = "armed" => x.sms = 0 /\ x.login = "begun"
    /\ x.stage \in {"login", "armed", "sent", "verifying"} \/ x.sms = 1 => x.needed
    /\ x.held => x.stage \in {"armed", "sent", "verifying"}
    /\ x.stage = "reading" => x.left # 0
    /\ x.login = "accepted" => x.page # BestInvest!NoSession

\* A collection that goes on holds the lease, and so does every Chrome.
SessionInv ==
    /\ lease \in Collectors \cup {BestInvest!None} /\ chrome \in SUBSET Collectors
    /\ saved \in ReadSessions /\ issued \in BestInvest!Sessions
    /\ portal \in [BestInvest!Sessions -> {"live", "rejected", "expired"}]
    /\ col \in [Collectors -> Collection]
    /\ \A c \in Collectors : CollectionOK(col[c])
    /\ \A c \in Collectors : c \in chrome \/ col[c].stage # "idle" => lease = c

LEMMA InitSession == BestInvest!Init => SessionInv
<1> SUFFICES ASSUME BestInvest!Init PROVE SessionInv
  OBVIOUS
<1> USE PortalsAssumption DEF BestInvest!None, BestInvest!NoSession, BestInvest!Sessions, Left, RunsOf, ReadSessions, Code
<1>1. BestInvest!Idle \in Collection /\ CollectionOK(BestInvest!Idle) /\ BestInvest!Idle.stage = "idle"
  BY DEF BestInvest!Idle, Collection, CollectionOK
<1>2. \A c \in Collectors : col[c] = BestInvest!Idle
  BY DEF BestInvest!Init
<1>3. col \in [Collectors -> Collection]
  BY <1>1 DEF BestInvest!Init
<1> QED BY <1>1, <1>2, <1>3 DEF BestInvest!Init, SessionInv

\* A step of one collection that leaves the lease, and no Chrome but maybe its own.
LEMMA OneCollection ==
    ASSUME SessionInv, NEW c \in Collectors, NEW x \in Collection, CollectionOK(x),
           col' = [col EXCEPT ![c] = x], x.stage # "idle" => lease' = c,
           lease' = lease, chrome' \in SUBSET chrome,
           saved' \in ReadSessions, issued' \in BestInvest!Sessions, portal' = portal
    PROVE  SessionInv'
<1>1. col'[c] = x /\ \A d \in Collectors : d # c => col'[d] = col[d]
  BY DEF SessionInv
<1>2. col' \in [Collectors -> Collection]
  BY DEF SessionInv
<1>3. \A d \in Collectors : CollectionOK(col[d])'
  BY <1>1 DEF SessionInv, CollectionOK
<1>4. \A d \in Collectors : d \in chrome' \/ col'[d].stage # "idle" => lease' = d
  BY <1>1 DEF SessionInv
<1> QED BY <1>2, <1>3, <1>4 DEF SessionInv

\* A collection that is over leaves room for its count.
LEMMA AnotherRun ==
    ASSUME NEW y \in Collection, CollectionOK(y), y.stage # "idle"
    PROVE  LET x == [BestInvest!Idle EXCEPT !.runs = y.runs + 1] IN x \in Collection /\ CollectionOK(x)
              /\ x.stage = "idle"
<1>1. y.runs \in RunsOf /\ y.runs # MaxCollections
  BY DEF Collection, CollectionOK
<1>2. PICK r \in RunsOf : r = y.runs + 1
  BY <1>1, PortalsAssumption DEF RunsOf
<1>3. /\ 0 \in Left /\ 0 \in RunsOf /\ BestInvest!None \in Code /\ BestInvest!NoSession \in ReadSessions
  BY PortalsAssumption DEF Left, RunsOf, ReadSessions, Code
<1>4. BestInvest!Idle \in Collection /\ CollectionOK(BestInvest!Idle) /\ BestInvest!Idle.stage = "idle"
  BY <1>3 DEF BestInvest!Idle, Collection, CollectionOK
<1> DEFINE x == [BestInvest!Idle EXCEPT !.runs = r]
<1>5. x \in Collection
  BY <1>4 DEF Collection
<1>6. CollectionOK(x) /\ x.stage = "idle"
  BY <1>4 DEF Collection, CollectionOK
<1> QED BY <1>2, <1>5, <1>6

\* A step of a collection that is neither its first nor the closing of its Chrome.
LEMMA CollectionStep ==
    ASSUME SessionInv, NEW c \in Collectors, BestInvest!Step(c), ~BestInvest!Start(c), ~BestInvest!Close(c)
    PROVE  SessionInv'
<1> DEFINE y == col[c]
           To(x) == col' = [col EXCEPT ![c] = x]
           Keeps(x) == x \in Collection /\ CollectionOK(x)
           Failed(k) == [y EXCEPT !.stage = "failed", !.code = k, !.left = 0]
<1>y. y \in Collection /\ CollectionOK(y) /\ (y.stage # "idle" => lease = c)
  BY DEF SessionInv
<1>0. /\ c \in chrome => lease = c
      /\ saved \in ReadSessions /\ issued \in BestInvest!Sessions
      /\ portal \in [BestInvest!Sessions -> {"live", "rejected", "expired"}]
  BY DEF SessionInv
<1>a. /\ 0 \in Left /\ 0 \in RunsOf
      /\ \A n \in 1..MaxPolicies : n \in Left /\ n # 0
      /\ \A n \in Left : n # 0 => n - 1 \in Left /\ (n # 1 => n - 1 # 0)
      /\ \A n \in RunsOf : n # MaxCollections => n + 1 \in RunsOf
      /\ BestInvest!NoSession \in ReadSessions
      /\ issued \in BestInvest!Sessions /\ issued < MaxSessions =>
            issued + 1 \in BestInvest!Sessions /\ issued + 1 \in ReadSessions /\ issued + 1 # BestInvest!NoSession
  BY PortalsAssumption DEF Left, RunsOf, ReadSessions, BestInvest!Sessions, BestInvest!NoSession
<1>c. {BestInvest!None, "COLLECTION_FAILED", "INVALID_CREDENTIALS", "INVALID_RESPONSE",
       "OTP_REQUIRED", "CREDENTIAL_RESOLUTION_FAILED", "TIMEOUT"} \subseteq Code
  BY DEF Code
<1> HIDE DEF y
<1>1. ASSUME NEW x, To(x), Keeps(x), UNCHANGED BestInvest!World, y.stage # "idle"
      PROVE  SessionInv'
  BY <1>0, <1>1, <1>y, OneCollection DEF BestInvest!World, SessionInv
<1>b. ASSUME NEW k \in Code, y.stage \notin {"idle", "armed", "sent", "verifying"}
      PROVE  Keeps(Failed(k))
    <2>1. Failed(k) \in Collection
      BY <1>y, <1>a, <1>c, <1>b DEF Collection
    <2>2. CollectionOK(Failed(k))
      BY <1>y, <1>a, <1>c, <1>b DEF Collection, CollectionOK
    <2> QED BY <2>1, <2>2
<1> USE DEF BestInvest!Set, BestInvest!Goto, BestInvest!Fail
<1>2. CASE BestInvest!Restore(c)
  <2>1. /\ y.stage = "starting" /\ UNCHANGED <<lease, chrome, portal, issued>>
            /\ saved' \in {saved, BestInvest!NoSession}
        /\ \E page \in {y.page, saved} : To([y EXCEPT !.stage = "opened", !.page = page, !.there = TRUE])
    <3>1. y.stage = "starting" /\ UNCHANGED <<lease, chrome, portal, issued>>
              /\ saved' \in {saved, BestInvest!NoSession}
      BY <1>2 DEF BestInvest!Restore, y
    <3>2. \/ To([y EXCEPT !.stage = "opened", !.page = saved, !.there = TRUE])
          \/ To([y EXCEPT !.stage = "opened", !.there = TRUE])
      BY <1>2 DEF BestInvest!Restore, y
    <3>3. [y EXCEPT !.stage = "opened", !.there = TRUE] = [y EXCEPT !.stage = "opened", !.page = y.page, !.there = TRUE]
      BY <1>y DEF Collection
    <3> QED BY <3>1, <3>2, <3>3
  <2>2. \A page \in {y.page, saved} : Keeps([y EXCEPT !.stage = "opened", !.page = page, !.there = TRUE])
    <3>1. \A page \in {y.page, saved} : [y EXCEPT !.stage = "opened", !.page = page, !.there = TRUE] \in Collection
      BY <1>y, <1>0, <1>a, <2>1 DEF Collection
    <3>2. \A page \in {y.page, saved} : CollectionOK([y EXCEPT !.stage = "opened", !.page = page, !.there = TRUE])
      BY <1>y, <1>0, <1>a, <2>1 DEF Collection, CollectionOK
    <3> QED BY <3>1, <3>2
  <2> QED BY <1>0, <1>a, <1>y, <2>1, <2>2, OneCollection
<1>3. CASE BestInvest!CheckIdentity(c)
  <2>1. y.stage = "opened" /\ UNCHANGED BestInvest!World
        /\ (To(Failed("INVALID_CREDENTIALS")) \/ To([y EXCEPT !.stage = "asking"]))
    BY <1>3 DEF BestInvest!CheckIdentity, y
  <2>2. Keeps([y EXCEPT !.stage = "asking"])
    BY <1>y, <1>a, <1>c, <2>1 DEF Collection, CollectionOK
  <2> QED BY <1>1, <1>b, <1>c, <2>1, <2>2
<1>4. CASE BestInvest!AskPolicies(c)
  <2>1. y.stage = "asking" /\ UNCHANGED BestInvest!World
        /\ \/ \E n \in 1..MaxPolicies : To([y EXCEPT !.stage = "reading", !.left = n])
           \/ To(Failed("INVALID_RESPONSE")) \/ To(Failed("OTP_REQUIRED"))
           \/ y.login = "no" /\ To([y EXCEPT !.stage = "login", !.needed = TRUE])
    BY <1>4 DEF BestInvest!AskPolicies, y
  <2>2. \A n \in 1..MaxPolicies : Keeps([y EXCEPT !.stage = "reading", !.left = n])
      <3>1. \A n \in 1..MaxPolicies : [y EXCEPT !.stage = "reading", !.left = n] \in Collection
        BY <1>y, <1>a, <1>c, <2>1 DEF Collection
      <3>2. \A n \in 1..MaxPolicies : CollectionOK([y EXCEPT !.stage = "reading", !.left = n])
        BY <1>y, <1>a, <1>c, <2>1 DEF Collection, CollectionOK
      <3> QED BY <3>1, <3>2
  <2>3. y.login = "no" => Keeps([y EXCEPT !.stage = "login", !.needed = TRUE])
    BY <1>y, <1>a, <1>c, <2>1 DEF Collection, CollectionOK
  <2> HIDE DEF To, Keeps, Failed
  <2> QED BY <1>1, <1>b, <1>c, <2>1, <2>2, <2>3
<1>5. CASE BestInvest!Arm(c)
  <2>1. y.stage = "login" /\ UNCHANGED BestInvest!World
        /\ \/ \E page \in {y.page, BestInvest!NoSession} :
                 To([y EXCEPT !.stage = "armed", !.page = page, !.held = TRUE, !.login = "begun"])
           \/ \E k \in {"CREDENTIAL_RESOLUTION_FAILED", "INVALID_CREDENTIALS", "OTP_REQUIRED", "TIMEOUT"} :
                 To(Failed(k))
    BY <1>5 DEF BestInvest!Arm, y
  <2>2. \A page \in {y.page, BestInvest!NoSession} :
            Keeps([y EXCEPT !.stage = "armed", !.page = page, !.held = TRUE, !.login = "begun"])
    BY <1>y, <1>a, <1>c, <2>1 DEF Collection, CollectionOK
  <2> QED BY <1>1, <1>b, <1>c, <2>1, <2>2
<1>6. CASE BestInvest!LoginFails(c)
  <2>1. y.stage \in {"armed", "sent", "verifying"} /\ UNCHANGED BestInvest!World
        /\ \E k \in {"OTP_REQUIRED", "TIMEOUT"} :
              To([y EXCEPT !.stage = "failed", !.code = k, !.held = FALSE])
    BY <1>6 DEF BestInvest!LoginFails, y
  <2>2. \A k \in {"OTP_REQUIRED", "TIMEOUT"} : Keeps([y EXCEPT !.stage = "failed", !.code = k, !.held = FALSE])
    BY <1>y, <1>a, <1>c, <2>1 DEF Collection, CollectionOK
  <2> QED BY <1>1, <2>1, <2>2
<1>7. CASE BestInvest!SendSms(c)
  <2>1. y.stage = "armed" /\ UNCHANGED BestInvest!World /\ To([y EXCEPT !.stage = "sent", !.sms = 1])
    <3>1. y.stage = "armed" /\ UNCHANGED BestInvest!World /\ To([y EXCEPT !.stage = "sent", !.sms = y.sms + 1])
      BY <1>7 DEF BestInvest!SendSms, y
    <3>2. y.sms + 1 = 1
      BY <1>y, <3>1 DEF CollectionOK
    <3> QED BY <3>1, <3>2
  <2>2. y.login # "no" => Keeps([y EXCEPT !.stage = "sent", !.sms = 1])
      <3>1. y.login # "no" => [y EXCEPT !.stage = "sent", !.sms = 1] \in Collection
        BY <1>y, <1>a, <1>c, <2>1 DEF Collection, CollectionOK
      <3>2. y.login # "no" => CollectionOK([y EXCEPT !.stage = "sent", !.sms = 1])
        BY <1>y, <1>a, <1>c, <2>1 DEF Collection, CollectionOK
      <3> QED BY <3>1, <3>2
  <2> QED BY <1>y, <1>1, <2>1, <2>2 DEF CollectionOK
<1>8. CASE BestInvest!SubmitCode(c)
  <2>1. y.stage = "sent" /\ UNCHANGED BestInvest!World /\ To([y EXCEPT !.stage = "verifying", !.login = "submitted"])
    BY <1>8 DEF BestInvest!SubmitCode, y
  <2>2. Keeps([y EXCEPT !.stage = "verifying", !.login = "submitted"])
    BY <1>y, <1>a, <1>c, <2>1 DEF Collection, CollectionOK
  <2> QED BY <1>1, <2>1, <2>2
<1>9. CASE BestInvest!PortalAnswers(c)
  <2>1. /\ y.login = "submitted" /\ issued < MaxSessions /\ UNCHANGED <<lease, chrome, saved, portal>>
        /\ issued' = issued + 1 /\ To([y EXCEPT !.page = issued', !.login = "accepted"])
    BY <1>9 DEF BestInvest!PortalAnswers, y
  <2>2. issued' \in BestInvest!Sessions /\ issued' \in ReadSessions /\ issued' # BestInvest!NoSession
    BY <1>0, <1>a, <2>1
  <2> DEFINE x == [y EXCEPT !.page = issued', !.login = "accepted"]
  <2>3. x \in Collection
    BY <1>y, <2>2 DEF Collection
  <2>4. CollectionOK(x) /\ y.stage # "idle"
    BY <1>y, <2>1, <2>2 DEF Collection, CollectionOK
  <2> QED BY <1>0, <1>y, <2>1, <2>2, <2>3, <2>4, OneCollection
<1>10. CASE BestInvest!Verified(c)
  <2>1. y.stage = "verifying" /\ UNCHANGED BestInvest!World /\ To([y EXCEPT !.stage = "asking", !.held = FALSE])
    BY <1>10 DEF BestInvest!Verified, y
  <2>2. Keeps([y EXCEPT !.stage = "asking", !.held = FALSE])
    BY <1>y, <1>a, <1>c, <2>1 DEF Collection, CollectionOK
  <2> QED BY <1>1, <2>1, <2>2
<1>11. CASE BestInvest!ReadPolicy(c)
  <2>1. y.stage = "reading" /\ UNCHANGED BestInvest!World
        /\ \/ To([y EXCEPT !.left = @ - 1, !.stage = IF y.left = 1 THEN "read" ELSE @])
           \/ To(Failed("INVALID_RESPONSE")) \/ To(Failed("OTP_REQUIRED"))
    BY <1>11 DEF BestInvest!ReadPolicy, y
  <2>2. Keeps([y EXCEPT !.left = @ - 1, !.stage = IF y.left = 1 THEN "read" ELSE @])
      <3>1. [y EXCEPT !.left = @ - 1, !.stage = IF y.left = 1 THEN "read" ELSE @] \in Collection
        BY <1>y, <1>a, <1>c, <2>1 DEF Collection, CollectionOK
      <3>2. CollectionOK([y EXCEPT !.left = @ - 1, !.stage = IF y.left = 1 THEN "read" ELSE @])
        BY <1>y, <1>a, <1>c, <2>1 DEF Collection, CollectionOK
      <3> QED BY <3>1, <3>2
  <2> HIDE DEF To, Keeps, Failed
  <2> QED BY <1>1, <1>b, <1>c, <2>1, <2>2
<1>12. CASE BestInvest!Save(c) \/ BestInvest!Recover(c)
  <2>1. /\ y.stage \in {"read", "failed"} /\ UNCHANGED <<lease, chrome, portal, issued>>
        /\ saved' \in {y.page, BestInvest!NoSession, saved} /\ To([y EXCEPT !.stage = "closing"])
    BY <1>12 DEF BestInvest!Save, BestInvest!Recover, y
  <2>2. Keeps([y EXCEPT !.stage = "closing"])
    <3>1. [y EXCEPT !.stage = "closing"] \in Collection
      BY <1>y, <1>a, <1>c, <2>1 DEF Collection
    <3>2. CollectionOK([y EXCEPT !.stage = "closing"])
      BY <1>y, <1>a, <1>c, <2>1 DEF Collection, CollectionOK
    <3> QED BY <3>1, <3>2
  <2>3. saved' \in ReadSessions
    BY <1>0, <1>a, <1>y, <2>1 DEF Collection
  <2> QED BY <1>0, <1>y, <2>1, <2>2, <2>3, OneCollection
<1>13. CASE BestInvest!Abort(c) \/ BestInvest!WaitFails(c)
  <2>1. y.stage \notin {"idle", "failed", "closing"} /\ UNCHANGED BestInvest!World
        /\ \/ To([y EXCEPT !.aborted = TRUE])
           \/ \E k \in {"TIMEOUT", "COLLECTION_FAILED"} :
                 To([y EXCEPT !.stage = "failed", !.held = FALSE, !.left = 0, !.code = k])
    BY <1>13 DEF BestInvest!Abort, BestInvest!WaitFails, BestInvest!Working, y
  <2>2. Keeps([y EXCEPT !.aborted = TRUE])
      <3>1. [y EXCEPT !.aborted = TRUE] \in Collection
        BY <1>y, <1>a, <1>c, <2>1 DEF Collection
      <3>2. CollectionOK([y EXCEPT !.aborted = TRUE])
        BY <1>y, <1>a, <1>c, <2>1 DEF Collection, CollectionOK
      <3> QED BY <3>1, <3>2
  <2>3. \A k \in Code :
            Keeps([y EXCEPT !.stage = "failed", !.held = FALSE, !.left = 0, !.code = k])
      <3>1. \A k \in Code : [y EXCEPT !.stage = "failed", !.held = FALSE, !.left = 0, !.code = k] \in Collection
        BY <1>y, <1>a, <1>c, <2>1 DEF Collection
      <3>2. \A k \in Code : CollectionOK([y EXCEPT !.stage = "failed", !.held = FALSE, !.left = 0, !.code = k])
        BY <1>y, <1>a, <1>c, <2>1 DEF Collection, CollectionOK
      <3> QED BY <3>1, <3>2
  <2> QED BY <1>1, <1>c, <2>1, <2>2, <2>3
<1>14. CASE BestInvest!PageLost(c)
  <2>1. /\ chrome' \in SUBSET chrome /\ UNCHANGED <<lease, saved, portal, issued>>
        /\ To([y EXCEPT !.there = FALSE])
    BY <1>14 DEF BestInvest!PageLost, y
  <2>2. Keeps([y EXCEPT !.there = FALSE])
      <3>1. [y EXCEPT !.there = FALSE] \in Collection
        BY <1>y, <1>a DEF Collection
      <3>2. CollectionOK([y EXCEPT !.there = FALSE])
        BY <1>y, <1>a DEF Collection, CollectionOK
      <3> QED BY <3>1, <3>2
  <2>3. [y EXCEPT !.there = FALSE].stage = y.stage
    BY <1>y DEF Collection
  <2> QED BY <1>0, <1>y, <2>1, <2>2, <2>3, OneCollection
<1>15. CASE BestInvest!Die(c)
  <2>1. y.stage # "idle" /\ UNCHANGED BestInvest!World /\ To([BestInvest!Idle EXCEPT !.runs = y.runs + 1])
    BY <1>15 DEF BestInvest!Die, BestInvest!Over, y
  <2> QED BY <1>1, <1>y, <2>1, AnotherRun
<1>16. CASE BestInvest!OrphanExits(c)
  BY <1>16 DEF BestInvest!OrphanExits, SessionInv
<1> QED
  BY <1>2, <1>3, <1>4, <1>5, <1>6, <1>7, <1>8, <1>9, <1>10, <1>11, <1>12, <1>13, <1>14, <1>15, <1>16
  DEF BestInvest!Step

LEMMA SessionStep ==
    ASSUME SessionInv, BestInvest!Next
    PROVE  SessionInv'
<1>1. ASSUME NEW c \in Collectors, BestInvest!Start(c) PROVE SessionInv'
  <2> DEFINE y == col[c]
             x == [y EXCEPT !.stage = "starting"]
             z == [y EXCEPT !.stage = "failed", !.code = "COLLECTION_FAILED", !.left = 0]
  <2>1. y \in Collection /\ CollectionOK(y) /\ y.stage = "idle" /\ y.runs # MaxCollections /\ chrome = {}
    BY <1>1, PortalsAssumption DEF BestInvest!Start, SessionInv, BestInvest!None
  <2>2. 0 \in Left /\ "COLLECTION_FAILED" \in Code
    BY PortalsAssumption DEF Left, Code
  <2>3. x \in Collection /\ z \in Collection
    BY <2>1, <2>2 DEF Collection
  <2>4. CollectionOK(x)
    BY <2>1 DEF Collection, CollectionOK
  <2>5. CollectionOK(z)
    BY <2>1 DEF Collection, CollectionOK
  <2>6. /\ lease' = c /\ chrome' \in SUBSET {c} /\ UNCHANGED <<saved, portal, issued>>
        /\ \/ col' = [col EXCEPT ![c] = x]
           \/ col' = [col EXCEPT ![c] = z]
    BY <1>1, <2>1 DEF BestInvest!Start, BestInvest!Set, BestInvest!Fail
  <2> HIDE DEF x, z
  <2>7. \A d \in Collectors : d # c => col'[d] = col[d] /\ col[d].stage = "idle"
    BY <1>1, <2>6, PortalsAssumption DEF BestInvest!Start, SessionInv, BestInvest!None
  <2>8. col' \in [Collectors -> Collection] /\ CollectionOK(col'[c])
    BY <2>3, <2>4, <2>5, <2>6 DEF SessionInv
  <2>9. \A d \in Collectors : CollectionOK(col[d])'
    BY <2>7, <2>8 DEF SessionInv
  <2> QED BY <2>6, <2>7, <2>8, <2>9 DEF SessionInv
<1>2. ASSUME NEW c \in Collectors, BestInvest!Close(c) PROVE SessionInv'
  <2> DEFINE y == col[c]
             x == [BestInvest!Idle EXCEPT !.runs = y.runs + 1]
  <2>1. y \in Collection /\ CollectionOK(y) /\ y.stage = "closing" /\ lease = c
    BY <1>2 DEF BestInvest!Close, SessionInv
  <2>2. x \in Collection /\ CollectionOK(x) /\ x.stage = "idle"
    BY <2>1, AnotherRun
  <2>3. col' = [col EXCEPT ![c] = x] /\ UNCHANGED <<saved, portal, issued>>
    BY <1>2 DEF BestInvest!Close, BestInvest!Over, BestInvest!Set
  <2> HIDE DEF x
  <2>4. CASE UNCHANGED <<chrome, lease>>
    BY <2>2, <2>3, <2>4, OneCollection DEF SessionInv
  <2>5. CASE chrome' = chrome \ {c} /\ lease' = BestInvest!None
    <3>1. col'[c] = x /\ \A d \in Collectors : d # c => col'[d] = col[d] /\ col[d].stage = "idle" /\ d \notin chrome
      BY <2>1, <2>3 DEF SessionInv
    <3>2. col' \in [Collectors -> Collection] /\ \A d \in Collectors : CollectionOK(col'[d])
      BY <2>2, <2>3, <3>1 DEF SessionInv
    <3> QED BY <2>1, <2>2, <2>3, <2>5, <3>1, <3>2 DEF SessionInv
  <2> QED BY <1>2, <2>4, <2>5 DEF BestInvest!Close
<1>3. ASSUME NEW s \in BestInvest!Sessions, BestInvest!SessionEnds(s) PROVE SessionInv'
  <2>1. portal' \in [BestInvest!Sessions -> {"live", "rejected", "expired"}]
    BY <1>3 DEF BestInvest!SessionEnds, SessionInv
  <2> QED BY <1>3, <2>1 DEF BestInvest!SessionEnds, SessionInv
<1>4. CASE BestInvest!ClearLock
  BY <1>4 DEF BestInvest!ClearLock, SessionInv
<1> QED BY <1>1, <1>2, <1>3, <1>4, CollectionStep DEF BestInvest!Next

LEMMA SessionKept ==
    ASSUME SessionInv
    PROVE  BestInvest!TypeOK /\ BestInvest!ProfileIsLeased /\ BestInvest!SmsIsTheLastResort
<1>1. \A c \in Collectors : col[c] \in Collection /\ CollectionOK(col[c])
  BY DEF SessionInv
<1>2. BestInvest!TypeOK
  BY <1>1 DEF SessionInv, BestInvest!TypeOK, Collection, ReadSessions, Left, RunsOf
<1>3. chrome = {} \/ \E c \in Collectors : chrome = {c}
  BY DEF SessionInv
<1>4. BestInvest!Cardinality(chrome) <= 1
  <2>1. BestInvest!Cardinality(chrome) = Cardinality(chrome)
    BY DEF BestInvest!Cardinality, Cardinality
  <2> QED BY <1>3, <2>1, FS_EmptySet, FS_Singleton
<1>5. BestInvest!ProfileIsLeased
  BY <1>4 DEF SessionInv, BestInvest!ProfileIsLeased
<1>6. BestInvest!SmsIsTheLastResort
  BY <1>1 DEF BestInvest!SmsIsTheLastResort, Collection, CollectionOK
<1> QED BY <1>2, <1>5, <1>6

\* A collection that ends with a session it was issued saves it.
LEMMA SessionIsKept ==
    ASSUME SessionInv, BestInvest!Next, NEW c \in Collectors
    PROVE  BestInvest!KeepsSession(c)
<1> SUFFICES ASSUME /\ col[c].stage \in {"read", "failed"} /\ col'[c].stage = "closing"
                    /\ col[c].login = "accepted" /\ col[c].there /\ ~col[c].aborted
                    /\ portal[col[c].page] = "live" /\ col[c].code # "OTP_REQUIRED"
             PROVE  saved' = col[c].page
  BY DEF BestInvest!KeepsSession
<1>1. BestInvest!ValidSession(col[c].page)
  BY DEF SessionInv, CollectionOK, BestInvest!ValidSession
<1>2. CASE BestInvest!Save(c) \/ BestInvest!Recover(c)
  BY <1>1, <1>2 DEF BestInvest!Save, BestInvest!Recover
<1>3. CASE ~BestInvest!Save(c) /\ ~BestInvest!Recover(c)
  <2>1. ASSUME NEW d \in Collectors, BestInvest!Step(d) PROVE FALSE
    <3>1. d = c
      BY <2>1 DEF SessionInv, BestInvest!Step, BestInvest!Start, BestInvest!Restore, BestInvest!CheckIdentity,
                BestInvest!AskPolicies,
        BestInvest!Arm, BestInvest!LoginFails, BestInvest!SendSms, BestInvest!SubmitCode, BestInvest!PortalAnswers,
        BestInvest!Verified,
        BestInvest!ReadPolicy, BestInvest!Save, BestInvest!Recover, BestInvest!Close, BestInvest!Abort,
        BestInvest!WaitFails,
        BestInvest!PageLost, BestInvest!Die, BestInvest!OrphanExits, BestInvest!Over, BestInvest!Set,
        BestInvest!Goto, BestInvest!Fail, BestInvest!Working
    <3>2. col \in [Collectors -> Collection] /\ col[c] \in Collection
      BY DEF SessionInv
    <3>3. CASE BestInvest!Start(c) \/ BestInvest!Restore(c) \/ BestInvest!CheckIdentity(c)
              \/ BestInvest!AskPolicies(c) \/ BestInvest!Arm(c)
      BY <3>2, <3>3 DEF Collection, BestInvest!Start, BestInvest!Restore, BestInvest!CheckIdentity,
                BestInvest!AskPolicies,
        BestInvest!Arm, BestInvest!Set, BestInvest!Goto, BestInvest!Fail
    <3>4. CASE BestInvest!LoginFails(c) \/ BestInvest!SendSms(c) \/ BestInvest!SubmitCode(c)
              \/ BestInvest!Verified(c) \/ BestInvest!ReadPolicy(c)
      BY <3>2, <3>4 DEF Collection, BestInvest!LoginFails, BestInvest!SendSms, BestInvest!SubmitCode,
                BestInvest!Verified,
        BestInvest!ReadPolicy, BestInvest!Set, BestInvest!Goto, BestInvest!Fail
    <3>5. CASE BestInvest!PortalAnswers(c) \/ BestInvest!PageLost(c)
      <4>1. col'[c].stage = col[c].stage
        BY <3>2, <3>5 DEF Collection, BestInvest!PortalAnswers, BestInvest!PageLost, BestInvest!Set
      <4> QED BY <4>1
    <3>6. CASE BestInvest!Abort(c) \/ BestInvest!WaitFails(c)
      BY <3>2, <3>6 DEF Collection, BestInvest!Abort, BestInvest!WaitFails, BestInvest!Working, BestInvest!Set
    <3>7. CASE BestInvest!Close(c) \/ BestInvest!Die(c) \/ BestInvest!OrphanExits(c)
      BY <3>2, <3>7 DEF BestInvest!Close, BestInvest!Die, BestInvest!OrphanExits, BestInvest!Over, BestInvest!Idle,
                BestInvest!Set
    <3> QED BY <1>3, <2>1, <3>1, <3>3, <3>4, <3>5, <3>6, <3>7 DEF BestInvest!Step
  <2> QED BY <2>1, <1>3 DEF BestInvest!Next, BestInvest!ClearLock, BestInvest!SessionEnds
<1> QED BY <1>2, <1>3

-----------------------------------------------------------------------------
(* The reading of Clal, and the renewal of its session.                    *)

Kinds == {"portfolio", "daily", "pension", "gemel"}
Lists == SUBSET Clal!Policies
Counts == 0..Cardinality(Clal!Policies)
Responses == [kind : Kinds, list : Lists, amount : [Clal!Policies -> 1..2], ok : BOOLEAN]
Known == Responses \cup {Clal!NoResponse}
Results == {Clal!None, "OTP_REQUIRED", "INCOMPLETE_RESPONSE", "INVALID_RESPONSE", "TIMEOUT", "complete", "partial", "active"}
Steps == 0..6
Site == [listed : Lists \ {{}}, amount : [Clal!Policies -> 1..2], accepted : BOOLEAN, changes : Nat]

\* A reading or renewal with the products P, and what its stage says of it.
TaskType(P) ==
    [stage : {"idle", "listing", "daily", "cards", "detail", "home", "parsing", "renewing", "done"},
     count : Counts, shown : Lists, kind : {Clal!None, "pension", "gemel"}, home : Known, daily : Known,
     details : Seq(Responses), result : Results, step : Steps, proven : BOOLEAN, products : {P}]

TaskOK(x) ==
    /\ Len(x.details) <= x.count
    /\ x.stage \in {"daily", "cards", "detail", "home"} => Len(x.details) # x.count /\ x.home.kind # Clal!None
    /\ x.stage = "listing" => IF x.home.kind = Clal!None THEN Len(x.details) = 0 ELSE Len(x.details) # x.count
    /\ x.stage = "detail" => x.kind # Clal!None
    /\ x.stage = "idle" => x = Clal!NoTask
    /\ x.stage = "renewing" => x.step \in {1, 2, 3, 4, 5} /\ (x.step = 5 => x.proven)
    /\ x.result # Clal!None => x.stage = "done"

\* A response lists the policies of its moment, and the portal lists one at least.
ResponseOK(r) == r \in Responses /\ (r.kind = "portfolio" => r.list # {})

ClalInv ==
    /\ site \in Site
    /\ \A r \in wire \cup got : ResponseOK(r)
    /\ task \in TaskType(task.products) /\ TaskOK(task)
    /\ Clal!CompleteIsConsistent /\ Clal!RenewedIsProven

LEMMA PoliciesFinite == IsFiniteSet(Clal!Policies) /\ Cardinality(Clal!Policies) \in Nat
BY PortalsAssumption, FS_Union, FS_CardinalityType DEF Clal!Policies

LEMMA ClalCounts ==
    /\ \A S : Clal!Cardinality(S) = Cardinality(S)
    /\ \A S \in Lists : IsFiniteSet(S) /\ Cardinality(S) \in Counts /\ (S # {} => Cardinality(S) # 0)
    /\ 0 \in Counts
<1>1. \A S : Clal!Cardinality(S) = Cardinality(S)
  BY DEF Clal!Cardinality, Cardinality
<1>2. ASSUME NEW S \in Lists PROVE IsFiniteSet(S) /\ Cardinality(S) \in Counts /\ (S # {} => Cardinality(S) # 0)
  BY PoliciesFinite, FS_Subset, FS_CardinalityType, FS_EmptySet DEF Lists, Counts
<1> QED BY <1>1, <1>2, PoliciesFinite DEF Counts

\* The empty task, and one that has ended.
LEMMA Ended ==
    /\ Clal!NoTask \in TaskType({}) /\ TaskOK(Clal!NoTask)
    /\ \A how \in Results : LET x == [Clal!NoTask EXCEPT !.stage = "done", !.result = how] IN
          x \in TaskType({}) /\ TaskOK(x) /\ x.result = how /\ x.products = {}
<1>1. 0 \in Counts /\ {} \in Lists /\ Clal!NoResponse \in Known /\ Clal!None \in Results /\ 0 \in Steps
  BY ClalCounts DEF Lists, Known, Results, Steps
<1>2. <<>> \in Seq(Responses) /\ Len(<<>>) = 0
  OBVIOUS
<1>3. Clal!NoTask \in TaskType({})
  BY <1>1, <1>2 DEF Clal!NoTask, TaskType
<1>4. TaskOK(Clal!NoTask)
  BY <1>2 DEF Clal!NoTask, TaskOK
<1>5. ASSUME NEW how \in Results
      PROVE  LET x == [Clal!NoTask EXCEPT !.stage = "done", !.result = how] IN
             x \in TaskType({}) /\ TaskOK(x) /\ x.result = how /\ x.products = {}
  <2> DEFINE x == [Clal!NoTask EXCEPT !.stage = "done", !.result = how]
  <2>1. x \in TaskType({})
    BY <1>3 DEF TaskType
  <2>2. /\ x.stage = "done" /\ x.result = how /\ x.products = {} /\ x.details = <<>> /\ x.count = 0
    BY DEF Clal!NoTask
  <2>3. TaskOK(x)
    BY <1>2, <2>2 DEF TaskOK
  <2> QED BY <2>1, <2>2, <2>3
<1> QED BY <1>3, <1>4, <1>5

LEMMA InitClal == Clal!Init => ClalInv
<1> SUFFICES ASSUME Clal!Init PROVE ClalInv
  OBVIOUS
<1>1. site \in Site
  <2>1. PICK listed \in Lists \ {{}} :
            site = [listed |-> listed, amount |-> [p \in Clal!Policies |-> 1], accepted |-> TRUE, changes |-> 0]
    BY DEF Clal!Init, Lists
  <2>2. [p \in Clal!Policies |-> 1] \in [Clal!Policies -> 1..2]
    OBVIOUS
  <2> QED BY <2>1, <2>2 DEF Site
<1>2. task = Clal!NoTask /\ task.products = {} /\ task.result = Clal!None
  BY DEF Clal!Init, Clal!NoTask
<1>3. task \in TaskType(task.products) /\ TaskOK(task)
  BY <1>2, Ended
<1>4. Clal!CompleteIsConsistent /\ Clal!RenewedIsProven
  BY <1>2 DEF Clal!CompleteIsConsistent, Clal!RenewedIsProven, Clal!None
<1> QED BY <1>1, <1>3, <1>4 DEF Clal!Init, ClalInv

\* A step whose task x makes no claim of its own.
LEMMA ClalTask ==
    ASSUME ClalInv, NEW x, task' = x, x \in TaskType(x.products), TaskOK(x),
           x.result \notin {"complete", "active"}, site' \in Site, \A r \in wire' \cup got' : ResponseOK(r)
    PROVE  ClalInv'
<1>1. Clal!CompleteIsConsistent' /\ Clal!RenewedIsProven'
  BY DEF Clal!CompleteIsConsistent, Clal!RenewedIsProven
<1>2. (task \in TaskType(task.products))' /\ TaskOK(task)'
  BY DEF TaskType, TaskOK
<1>3. (\A r \in wire \cup got : ResponseOK(r))'
  BY DEF ResponseOK
<1> QED BY <1>1, <1>2, <1>3 DEF ClalInv

\* The portal and the network.
LEMMA ClalWorld ==
    ASSUME ClalInv, Clal!Change \/ (\E r \in wire : Clal!Arrive(r)) \/ Clal!AskAgain
    PROVE  ClalInv'
<1>1. UNCHANGED task /\ (Clal!CompleteIsConsistent /\ Clal!RenewedIsProven /\ (task \in TaskType(task.products))
          /\ TaskOK(task))'
  BY DEF Clal!Change, Clal!Arrive, Clal!AskAgain, ClalInv, Clal!CompleteIsConsistent, Clal!RenewedIsProven,
            TaskType, TaskOK
<1>2. site' \in Site
  <2>1. site \in Site
    BY DEF ClalInv
  <2>2. CASE Clal!Change
    <3>0. site.changes + 1 \in Nat /\ site.amount \in [Clal!Policies -> 1..2]
      BY <2>1 DEF Site
    <3>1. ASSUME NEW p \in Clal!Policies, site' = [site EXCEPT !.amount[p] = 2, !.changes = @ + 1] PROVE site' \in Site
      <4>0. 2 \in 1..2
        OBVIOUS
      <4>1. PICK a \in [Clal!Policies -> 1..2] : a = [site.amount EXCEPT ![p] = 2]
        BY <3>0, <4>0
      <4>2. PICK n \in Nat : n = site.changes + 1
        BY <3>0
      <4>3. site' = [site EXCEPT !.amount = a, !.changes = n]
        BY <3>1, <4>1, <4>2, <2>1 DEF Site
      <4> QED BY <2>1, <4>3 DEF Site
    <3>2. ASSUME NEW listed \in Lists \ {{}}, site' = [site EXCEPT !.listed = listed, !.changes = @ + 1] PROVE site' \in Site
      BY <2>1, <3>0, <3>2 DEF Site
    <3>3. CASE site' = [site EXCEPT !.accepted = FALSE, !.changes = @ + 1]
      BY <2>1, <3>0, <3>3 DEF Site
    <3> QED BY <2>2, <3>1, <3>2, <3>3 DEF Clal!Change, Lists
  <2>3. CASE Clal!AskAgain
    BY <2>1, <2>3 DEF Clal!AskAgain, Site
  <2>4. CASE \E r \in wire : Clal!Arrive(r)
    BY <2>1, <2>4 DEF Clal!Arrive
  <2> QED BY <2>2, <2>3, <2>4
<1>3. ASSUME NEW r \in wire' \cup got' PROVE ResponseOK(r)
  <2>1. CASE r \in wire \cup got
    BY <2>1 DEF ClalInv
  <2>2. CASE r \notin wire \cup got
    <3>1. Clal!AskAgain
      BY <1>3, <2>2 DEF Clal!Change, Clal!Arrive
    <3>2. \/ \E p \in Clal!Policies : task.kind = Clal!Family(p) /\ r = Clal!Response(Clal!Family(p), {p})
          \/ r = Clal!Response("daily", site.listed \cap Gemels)
      BY <1>3, <2>2, <3>1 DEF Clal!AskAgain
    <3>3. site.amount \in [Clal!Policies -> 1..2] /\ site.accepted \in BOOLEAN /\ site.listed \in Lists
      BY DEF ClalInv, Site
    <3>4. CASE r = Clal!Response("daily", site.listed \cap Gemels)
      BY <3>3, <3>4 DEF Clal!Response, ResponseOK, Responses, Kinds, Lists
    <3>5. ASSUME NEW p \in Clal!Policies, r = Clal!Response(Clal!Family(p), {p}) PROVE ResponseOK(r)
      <4>1. Clal!Family(p) \in {"pension", "gemel"}
        BY DEF Clal!Family
      <4> QED BY <3>3, <3>5, <4>1 DEF Clal!Response, ResponseOK, Responses, Kinds, Lists
    <3> QED BY <3>2, <3>4, <3>5
  <2> QED BY <2>1, <2>2
<1> QED BY <1>1, <1>2, <1>3 DEF ClalInv, ResponseOK

LEMMA RefusedTask ==
    ASSUME ClalInv, UNCHANGED site, \A r \in wire' \cup got' : ResponseOK(r),
           NEW how \in Results \ {"complete", "active"}, Clal!End(how)
    PROVE  ClalInv'
<1> DEFINE x == [Clal!NoTask EXCEPT !.stage = "done", !.result = how]
<1>1. x \in TaskType(x.products) /\ TaskOK(x) /\ x.result = how
  BY Ended
<1>2. task' = x /\ site' \in Site
  BY DEF Clal!End, ClalInv
<1> HIDE DEF x
<1> QED BY <1>1, <1>2, ClalTask

LEMMA ReadingStep ==
    ASSUME ClalInv, Clal!GoHome \/ Clal!TakeList \/ Clal!TakeDaily \/ Clal!ClickCard \/ Clal!TakeDetail
    PROVE  ClalInv'
<1> DEFINE y == task
           Keeps(x) == x \in TaskType(y.products) /\ TaskOK(x) /\ x.result = Clal!None /\ x.products = y.products
<1>y. y \in TaskType(y.products) /\ TaskOK(y) /\ Len(y.details) \in Nat
  BY LenProperties DEF ClalInv, TaskType
<1>s. site' = site /\ site \in Site /\ site.amount \in [Clal!Policies -> 1..2] /\ site.accepted \in BOOLEAN
          /\ site.listed \in Lists \ {{}}
  BY DEF Clal!GoHome, Clal!TakeList, Clal!TakeDaily, Clal!ClickCard, Clal!TakeDetail, ClalInv, Site
<1>r. /\ \A r \in wire \cup got : ResponseOK(r)
      /\ {"OTP_REQUIRED", "INCOMPLETE_RESPONSE"} \subseteq Results \ {"complete", "active"}
  BY DEF ClalInv, Results
<1>n. Clal!None \notin {"complete", "active"} /\ {} \in Lists
  BY DEF Clal!None, Lists
<1> HIDE DEF y
<1>1. ASSUME NEW x, task' = x, Keeps(x), \A r \in wire' \cup got' : ResponseOK(r) PROVE ClalInv'
  BY <1>1, <1>s, <1>n, ClalTask
<1>2. CASE Clal!GoHome
  <2>1. \A r \in wire' \cup got' : ResponseOK(r)
    <3>1. ResponseOK(Clal!Response("portfolio", site.listed))
              /\ ResponseOK(Clal!Response("daily", site.listed \cap Gemels))
      BY <1>s DEF Clal!Response, ResponseOK, Responses, Kinds, Lists
    <3> QED BY <1>2, <1>r, <3>1 DEF Clal!GoHome
  <2>2. CASE task' = [y EXCEPT !.stage = "listing", !.shown = site.listed]
    <3> DEFINE x == [y EXCEPT !.stage = "listing", !.shown = site.listed]
    <3>0. y.stage \in {"idle", "home"}
      BY <1>2 DEF Clal!GoHome, y
    <3>1. x \in TaskType(y.products)
      BY <1>y, <1>s DEF TaskType
    <3>2. x.result = Clal!None /\ x.products = y.products /\ x.stage = "listing" /\ x.home = y.home
              /\ x.details = y.details /\ x.count = y.count
      BY <1>y, <3>0 DEF TaskType, TaskOK
    <3>3. TaskOK(x)
      <4>1. CASE y.stage = "home"
        BY <1>y, <3>2, <4>1 DEF TaskOK
      <4>2. CASE y.stage = "idle"
        <5>1. y.home.kind = Clal!None /\ Len(y.details) = 0
          BY <1>y, <4>2 DEF TaskOK, Clal!NoTask, Clal!NoResponse
        <5> QED BY <1>y, <3>2, <5>1 DEF TaskOK
      <4> QED BY <3>0, <4>1, <4>2
    <3> HIDE DEF x
    <3> QED BY <2>1, <2>2, <3>1, <3>2, <3>3, <1>1 DEF x
  <2>3. CASE Clal!End("OTP_REQUIRED")
    BY <1>r, <1>s, <2>1, <2>3, RefusedTask
  <2> QED BY <1>2, <2>2, <2>3 DEF Clal!GoHome, y
<1>3. ASSUME NEW kind, Clal!WaitFails(kind), UNCHANGED <<wire, got>> PROVE ClalInv'
  BY <1>3, <1>r, <1>s, RefusedTask DEF Clal!WaitFails
<1>4. CASE Clal!TakeList
  <2>1. y.stage = "listing" /\ UNCHANGED <<wire, got>>
    BY <1>4 DEF Clal!TakeList, y
  <2>2. ASSUME NEW r \in Clal!Answers("portfolio"), y.home.kind = Clal!None,
               task' = [y EXCEPT !.home = r, !.count = Cardinality(r.list),
                          !.stage = IF r.list \cap Gemels = {} THEN "cards" ELSE "daily"]
        PROVE  ClalInv'
    <3> DEFINE n == Cardinality(r.list)
               stage == IF r.list \cap Gemels = {} THEN "cards" ELSE "daily"
               x == [y EXCEPT !.home = r, !.count = n, !.stage = stage]
    <3>1. r \in Responses /\ r.kind = "portfolio" /\ r.list # {} /\ r.list \in Lists
      BY <1>r, <2>2 DEF Clal!Answers, Clal!Eligible, ResponseOK, Responses
    <3>2. n \in Counts /\ n # 0 /\ n \in Nat
      BY <3>1, ClalCounts, PoliciesFinite DEF Counts
    <3>3. stage \in {"cards", "daily"} /\ r \in Known
      BY <3>1 DEF Known
    <3> HIDE DEF n, stage
    <3>4. x \in TaskType(y.products)
      BY <1>y, <3>2, <3>3 DEF TaskType
    <3>5. x.result = Clal!None /\ x.products = y.products /\ x.stage = stage /\ x.home = r
              /\ x.details = y.details /\ x.count = n
      BY <1>y, <2>1 DEF TaskType, TaskOK
    <3>6. Len(y.details) = 0
      BY <1>y, <2>1, <2>2 DEF TaskOK
    <3>7. TaskOK(x)
      BY <3>1, <3>2, <3>3, <3>5, <3>6 DEF TaskOK, Clal!None
    <3>8. task' = x
      BY <2>2 DEF n, stage
    <3> HIDE DEF x
    <3> QED BY <1>1, <1>r, <2>1, <3>4, <3>5, <3>7, <3>8
  <2>3. ASSUME y.home.kind # Clal!None, task' = [y EXCEPT !.stage = "cards"] PROVE ClalInv'
    <3> DEFINE x == [y EXCEPT !.stage = "cards"]
    <3>1. x \in TaskType(y.products) /\ x.result = Clal!None /\ x.products = y.products
      BY <1>y, <2>1 DEF TaskType, TaskOK
    <3>2. TaskOK(x)
      BY <1>y, <2>1, <2>3 DEF TaskType, TaskOK
    <3> HIDE DEF x
    <3> QED BY <1>1, <1>r, <2>1, <2>3, <3>1, <3>2 DEF x
  <2> QED BY <1>3, <1>4, <2>1, <2>2, <2>3, ClalCounts DEF Clal!TakeList, Clal!Goto, y
<1>5. CASE Clal!TakeDaily
  <2>1. y.stage = "daily" /\ UNCHANGED <<wire, got>>
    BY <1>5 DEF Clal!TakeDaily, y
  <2>2. ASSUME NEW r \in Clal!Answers("daily"), task' = [y EXCEPT !.daily = r, !.stage = "cards"] PROVE ClalInv'
    <3> DEFINE x == [y EXCEPT !.daily = r, !.stage = "cards"]
    <3>1. r \in Known
      BY <1>r, <2>2 DEF Clal!Answers, Clal!Eligible, ResponseOK, Known
    <3>2. x \in TaskType(y.products) /\ x.result = Clal!None /\ x.products = y.products
      BY <1>y, <2>1, <3>1 DEF TaskType, TaskOK
    <3>3. TaskOK(x)
      BY <1>y, <2>1 DEF TaskType, TaskOK
    <3> HIDE DEF x
    <3> QED BY <1>1, <1>r, <2>1, <2>2, <3>2, <3>3 DEF x
  <2> QED BY <1>3, <1>5, <2>1, <2>2 DEF Clal!TakeDaily, y
<1>6. CASE Clal!ClickCard
  <2>1. y.stage = "cards"
    BY <1>6 DEF Clal!ClickCard, y
  <2>2. ASSUME NEW p \in y.shown, task' = [y EXCEPT !.stage = "detail", !.kind = Clal!Family(p)],
               wire' = wire \cup {Clal!Response(Clal!Family(p), {p})}, got' = {}
        PROVE  ClalInv'
    <3> DEFINE x == [y EXCEPT !.stage = "detail", !.kind = Clal!Family(p)]
    <3>1. Clal!Family(p) \in {"pension", "gemel"} /\ {p} \in Lists
      BY <1>y, <2>2 DEF Clal!Family, TaskType, Lists
    <3>2. ResponseOK(Clal!Response(Clal!Family(p), {p}))
      BY <1>s, <3>1 DEF Clal!Response, ResponseOK, Responses, Kinds
    <3>3. x \in TaskType(y.products) /\ x.result = Clal!None /\ x.products = y.products
      BY <1>y, <2>1, <3>1 DEF TaskType, TaskOK
    <3>4. TaskOK(x)
      BY <1>y, <2>1, <3>1 DEF TaskType, TaskOK, Clal!None
    <3> HIDE DEF x
    <3> QED BY <1>1, <1>r, <2>1, <2>2, <3>2, <3>3, <3>4 DEF x
  <2>3. CASE Clal!End("INCOMPLETE_RESPONSE") /\ UNCHANGED <<wire, got>>
    BY <1>r, <1>s, <2>3, RefusedTask
  <2> QED BY <1>6, <2>2, <2>3 DEF Clal!ClickCard, y
<1>7. CASE Clal!TakeDetail
  <2>1. y.stage = "detail" /\ UNCHANGED <<wire, got>>
    BY <1>7 DEF Clal!TakeDetail, y
  <2>2. ASSUME NEW r \in Clal!Answers(y.kind),
               task' = [y EXCEPT !.details = Append(@, r),
                          !.stage = IF Len(y.details) + 1 = y.count THEN "parsing" ELSE "home"]
        PROVE  ClalInv'
    <3> DEFINE details == Append(y.details, r)
               stage == IF Len(y.details) + 1 = y.count THEN "parsing" ELSE "home"
               x == [y EXCEPT !.details = details, !.stage = stage]
    <3>1. r \in Responses /\ y.details \in Seq(Responses)
      BY <1>r, <1>y, <2>2 DEF Clal!Answers, Clal!Eligible, ResponseOK, TaskType
    <3>2. details \in Seq(Responses) /\ Len(details) = Len(y.details) + 1
      BY <3>1, AppendProperties
    <3>3. y.count \in Nat
      BY <1>y, PoliciesFinite DEF TaskType, Counts
    <3>4. Len(details) <= y.count /\ (stage = "home" => Len(details) # y.count)
      BY <1>y, <2>1, <3>2, <3>3 DEF TaskOK
    <3>5. stage \in {"home", "parsing"}
      OBVIOUS
    <3>6. task' = x
      BY <2>2
    <3> HIDE DEF details, stage
    <3>7. x \in TaskType(y.products) /\ x.result = Clal!None /\ x.products = y.products
      BY <1>y, <2>1, <3>2, <3>5 DEF TaskType, TaskOK
    <3>8. x.details = details /\ x.stage = stage /\ x.count = y.count /\ x.home = y.home /\ y.home.kind # Clal!None
      BY <1>y, <2>1 DEF TaskType, TaskOK
    <3>9. TaskOK(x)
      BY <3>4, <3>5, <3>7, <3>8 DEF TaskOK
    <3> HIDE DEF x
    <3> QED BY <1>1, <1>r, <2>1, <3>6, <3>7, <3>9
  <2> QED BY <1>3, <1>7, <2>1, <2>2 DEF Clal!TakeDetail, y
<1> QED BY <1>2, <1>4, <1>5, <1>6, <1>7

LEMMA DetailsFinite == ClalInv => \A p : IsFiniteSet(Clal!Details(p))
<1> SUFFICES ASSUME ClalInv, NEW p PROVE IsFiniteSet(Clal!Details(p))
  OBVIOUS
<1>1. task.details \in Seq(Responses)
  BY DEF ClalInv, TaskType
<1>2. Len(task.details) \in Nat /\ DOMAIN task.details = 1..Len(task.details)
  BY <1>1, LenProperties
<1>3. IsFiniteSet(1..Len(task.details))
  BY <1>2, FS_Interval
<1> QED BY <1>2, <1>3, FS_Subset DEF Clal!Details

\* A policy whose two amounts agree has one detail, which is its own.
LEMMA ProductsAgree ==
    ASSUME ClalInv, NEW p \in Clal!Policies, Cardinality(Clal!Details(p)) <= 1, Clal!Agreed(p)
    PROVE  LET x == Clal!Product(p) IN
           /\ x.id = p /\ Cardinality(x.details) = 1
           /\ \A d \in x.details : d.list = {p} /\ d.amount[p] = x.amount
<1>1. PICK i \in Clal!Details(p) : task.details[i].amount[p] = Clal!Stated(p)
  BY DEF Clal!Agreed
<1>2. IsFiniteSet(Clal!Details(p))
  BY DetailsFinite
<1>3. Clal!Details(p) = {i}
  <2>1. {i} \in SUBSET Clal!Details(p) /\ Cardinality({i}) = 1
    BY FS_Singleton
  <2> QED BY <1>2, <2>1, FS_Subset, FS_CardinalityType
<1>4. Clal!Product(p).details = {task.details[i]} /\ Clal!Product(p).id = p /\ Clal!Product(p).amount = Clal!Stated(p)
  BY <1>3 DEF Clal!Product, Clal!Agreed
<1>5. task.details[i].list = {p}
  BY DEF Clal!Details
<1> QED BY <1>1, <1>4, <1>5, FS_Singleton

LEMMA ParseStep ==
    ASSUME ClalInv, Clal!Parse
    PROVE  ClalInv'
<1> DEFINE list == task.home.list
           products == {Clal!Product(p) : p \in list}
<1>1. task.stage = "parsing" /\ UNCHANGED <<site, wire, got>>
  BY DEF Clal!Parse
<1>2. CASE Clal!End("INVALID_RESPONSE")
  BY <1>1, <1>2, RefusedTask DEF ClalInv, Results
<1>3. ASSUME NEW how \in {"complete", "partial"},
             task' = [task EXCEPT !.stage = "done", !.products = products, !.result = how],
             \A p \in list : ~(Clal!Cardinality(Clal!Details(p)) > 1),
             how = "complete" => \A p \in list : Clal!Agreed(p)
      PROVE  ClalInv'
  <2>1. task \in TaskType(task.products) /\ TaskOK(task) /\ list \in Lists
    BY DEF ClalInv, TaskType, Known, Responses, Clal!NoResponse, Lists
  <2> HIDE DEF products
  <2>2. task' \in TaskType(products) /\ task'.products = products
    BY <1>3, <2>1 DEF TaskType, Results
  <2>3. TaskOK(task')
    BY <1>1, <1>3, <2>1 DEF TaskType, TaskOK
  <2>4. task'.result = how /\ task'.home = task.home /\ task'.products = products
    BY <1>3, <2>1 DEF TaskType
  <2>5. Clal!CompleteIsConsistent'
    <3> SUFFICES ASSUME how = "complete"
                 PROVE  /\ {x.id : x \in products} = list
                        /\ \A x \in products : /\ Clal!Cardinality(x.details) = 1
                                               /\ \A d \in x.details : d.list = {x.id} /\ d.amount[x.id] = x.amount
      BY <2>4 DEF Clal!CompleteIsConsistent
    <3>1. ASSUME NEW p \in list
          PROVE  /\ Clal!Product(p).id = p /\ Cardinality(Clal!Product(p).details) = 1
                 /\ \A d \in Clal!Product(p).details : d.list = {p} /\ d.amount[p] = Clal!Product(p).amount
      <4>1. p \in Clal!Policies /\ Clal!Agreed(p)
        BY <1>3, <2>1 DEF Lists
      <4>2. Cardinality(Clal!Details(p)) <= 1
        <5>1. IsFiniteSet(Clal!Details(p))
          BY DetailsFinite
        <5>2. ~(Cardinality(Clal!Details(p)) > 1)
          BY <1>3, ClalCounts
        <5> QED BY <5>1, <5>2, FS_CardinalityType
      <4> QED BY <4>1, <4>2, ProductsAgree
    <3> QED BY <3>1, ClalCounts DEF products
  <2>6. Clal!RenewedIsProven'
    BY <1>3, <2>4 DEF Clal!RenewedIsProven
  <2>7. (task \in TaskType(task.products))' /\ TaskOK(task)'
    BY <2>2, <2>3
  <2> QED BY <1>1, <2>5, <2>6, <2>7 DEF ClalInv, ResponseOK
<1> QED BY <1>2, <1>3 DEF Clal!Parse, Clal!TracksAddUp

LEMMA RenewalStep ==
    ASSUME ClalInv, Clal!Abort \/ Clal!StartRenewal \/ Clal!Renew
    PROVE  ClalInv'
<1>y. /\ UNCHANGED <<site, wire, got>> /\ task \in TaskType(task.products) /\ TaskOK(task)
      /\ site \in Site /\ \A r \in wire \cup got : ResponseOK(r)
      /\ {"TIMEOUT", "OTP_REQUIRED", "INVALID_RESPONSE"} \subseteq Results \ {"complete", "active"}
      /\ 1 \in Steps /\ Clal!None \notin {"complete", "active"}
  BY DEF Clal!Abort, Clal!StartRenewal, Clal!Renew, ClalInv, Results, Steps, Clal!None
<1>1. ASSUME NEW how \in {"TIMEOUT", "OTP_REQUIRED", "INVALID_RESPONSE"}, Clal!End(how) PROVE ClalInv'
  BY <1>1, <1>y, RefusedTask
<1>2. CASE Clal!StartRenewal
  <2> DEFINE x == [task EXCEPT !.stage = "renewing", !.step = 1]
  <2>1. task = Clal!NoTask
    BY <1>2, <1>y DEF Clal!StartRenewal, TaskOK
  <2>2. x \in TaskType(x.products) /\ x.result = Clal!None
    BY <1>y, <2>1, Ended DEF TaskType, Clal!NoTask
  <2>3. TaskOK(x)
    BY <1>y, <2>1 DEF TaskOK, TaskType, Clal!NoTask
  <2>4. task' = x
    BY <1>2 DEF Clal!StartRenewal
  <2> HIDE DEF x
  <2> QED BY <1>y, <2>2, <2>3, <2>4, ClalTask
<1>3. ASSUME Clal!Renew, ~Clal!End("OTP_REQUIRED"), ~Clal!End("INVALID_RESPONSE")
      PROVE  ClalInv'
  <2> DEFINE asked == Clal!RenewalSteps[task.step]
             proven == asked = "portfolio" \/ (task.proven /\ asked # "renewal")
             step == task.step + 1
             stage == IF task.step = 5 THEN "done" ELSE "renewing"
             result_ == IF task.step = 5 THEN "active" ELSE Clal!None
  <2>1. task.stage = "renewing" /\ task.step \in {1, 2, 3, 4, 5} /\ (task.step = 5 => task.proven)
            /\ task.result = Clal!None
    BY <1>3, <1>y DEF Clal!Renew, TaskOK, TaskType
  <2>2. Len(Clal!RenewalSteps) = 5 /\ Clal!RenewalSteps[4] = "portfolio" /\ Clal!RenewalSteps[5] = "expiration"
    BY DEF Clal!RenewalSteps
  <2>3. task' = [task EXCEPT !.step = step, !.proven = proven, !.stage = stage, !.result = result_]
    <3>1. task' = [task EXCEPT !.step = @ + 1, !.proven = asked = "portfolio" \/ (@ /\ asked # "renewal"),
                     !.stage = IF task.step = Len(Clal!RenewalSteps) THEN "done" ELSE @,
                     !.result = IF task.step = Len(Clal!RenewalSteps) THEN "active" ELSE @]
      BY <1>3 DEF Clal!Renew
    <3> QED BY <1>y, <2>1, <2>2, <3>1 DEF TaskType
  <2>4. /\ step \in Steps /\ proven \in BOOLEAN /\ stage \in {"renewing", "done"} /\ result_ \in Results
        /\ stage = "renewing" => step \in {2, 3, 4, 5} /\ (step = 5 => proven) /\ result_ = Clal!None
        /\ stage = "done" => proven
        /\ result_ # "complete"
    BY <1>y, <2>1, <2>2 DEF Steps, Results, TaskType, Clal!None
  <2> HIDE DEF asked, proven, step, stage, result_
  <2> DEFINE x == [task EXCEPT !.step = step, !.proven = proven, !.stage = stage, !.result = result_]
  <2>5. x \in TaskType(task.products) /\ x.products = task.products
    BY <1>y, <2>4 DEF TaskType
  <2>6. x.step = step /\ x.proven = proven /\ x.stage = stage /\ x.result = result_ /\ x.details = task.details
            /\ x.count = task.count
    BY <1>y DEF TaskType
  <2>7. TaskOK(x)
    BY <1>y, <2>4, <2>6 DEF TaskOK
  <2>8. Clal!CompleteIsConsistent' /\ Clal!RenewedIsProven'
    BY <2>3, <2>4, <2>6, <1>y DEF Clal!CompleteIsConsistent, Clal!RenewedIsProven, Clal!None
  <2>9. (task \in TaskType(task.products))' /\ TaskOK(task)'
    BY <2>3, <2>5, <2>7
  <2> QED BY <1>y, <2>8, <2>9 DEF ClalInv, ResponseOK
<1> QED BY <1>1, <1>2, <1>3 DEF Clal!Abort, Clal!StartRenewal, Clal!Renew

LEMMA ClalStep ==
    ASSUME ClalInv, Clal!Next
    PROVE  ClalInv'
BY ClalWorld, ReadingStep, ParseStep, RenewalStep DEF Clal!Next

LEMMA ClalKept ==
    ASSUME ClalInv
    PROVE  Clal!TypeOK /\ Clal!CompleteIsConsistent /\ Clal!RenewedIsProven
<1>1. Clal!TypeOK
  BY ClalCounts DEF ClalInv, Clal!TypeOK, Site, TaskType, TaskOK, ResponseOK, Responses, Kinds, Lists, Counts
<1> QED BY <1>1 DEF ClalInv

-----------------------------------------------------------------------------
(* The reading of Hapoalim: its login, the pages of its history and the    *)
(* run that applies them.                                                  *)

Row == Hapoalim!Rows
Bank == [rows : Seq(Row), old : Nat, form : BOOLEAN, landed : {Hapoalim!None, "form", "elsewhere", "app"}]
Boot == [header : BOOLEAN, ready : BOOLEAN, promise : {"pending", "session", "rejected"}]
FailCodes == {Hapoalim!None, "OTP_REQUIRED", "COLLECTION_FAILED", "INVALID_RESPONSE", "TIMEOUT"}
Pull == [at : {"boot", "portfolio", "history", "read", "failed"}, asked : BOOLEAN, cursor : Nat, seen : SUBSET Nat,
         number : Nat, rows : Seq(Row), complete : BOOLEAN, code : FailCodes]
Run == [status : {"running", "ready", "partial", "auth_required"}, aborted : BOOLEAN, files : Nat,
        feed : {Hapoalim!None, "applied"}, rows : Seq(Row)]

\* The place of an execution in the list of the bank says its number.
Listed(s) == \A i \in 1..Len(s) : s[i].id = Len(s) + 1 - i
Has(s, id) == \E i \in 1..Len(s) : s[i].id = id

\* What was read is of the bank's list, and down to the cursor it is all of it that is old.
ReadOK(b, p) ==
    /\ \A i \in 1..Len(p.rows) : \E j \in 1..Len(b.rows) : p.rows[i] = b.rows[j]
    /\ p.at = "history" /\ p.cursor > 0 => p.cursor < Len(b.rows)
    /\ p.at = "history" => \A id \in 1..b.old : id > Len(b.rows) - p.cursor => Has(p.rows, id)
    /\ p.complete => \A id \in 1..b.old : Has(p.rows, id)

\* Pages and captures are counted together, and a request is on its way in two places only.
CountsOK(p, r) ==
    /\ p.number \in 1..MaxPages /\ r.files \in 0..(MaxPages + 1)
    /\ p.at \in {"boot", "portfolio"} => p.number = 1 /\ p.cursor = 0 /\ r.files = 0 /\ ~p.complete
    /\ p.at = "history" => r.files = p.number /\ ~p.complete
    /\ p.asked => p.at \in {"portfolio", "history"}

\* A run that was given up, one that goes on, and one whose page has the form.
StatusOK(b, p, r) ==
    /\ r.aborted => r.status = "partial"
    /\ r.status # "running" /\ ~r.aborted => p.at \in {"read", "failed"}
    /\ b.landed = "form" /\ ~r.aborted => p.at = "boot" \/ (p.at = "failed" /\ p.code = "OTP_REQUIRED")
    /\ b.landed = "form" /\ ~r.aborted => r.status \in {"running", "auth_required"}
    /\ r.feed = "applied" => r.status # "running"

HapoalimInv ==
    /\ bank \in Bank /\ boot \in Boot /\ pull \in Pull /\ job \in Run
    /\ bank.old <= Len(bank.rows) /\ Len(bank.rows) <= MaxRows /\ Listed(bank.rows)
    /\ ReadOK(bank, pull) /\ CountsOK(pull, job) /\ StatusOK(bank, pull, job)
    /\ Hapoalim!AppliedHasAll

LEMMA InitHapoalim == Hapoalim!Init => HapoalimInv
<1> SUFFICES ASSUME Hapoalim!Init PROVE HapoalimInv
  OBVIOUS
<1>a. <<>> \in Seq(Row) /\ Len(<<>>) = 0 /\ 1 \in 1..MaxPages /\ 0 \in 0..(MaxPages + 1) /\ MaxRows \in Nat
  BY PortalsAssumption
<1>0. PICK n \in 0..(MaxRows - 1) : \E key \in [1..n -> 1..n] : \E flawed \in 0..n :
        bank = [rows |-> [i \in 1..n |-> Hapoalim!NewRow(n + 1 - i, key[n + 1 - i], i # flawed)], old |-> n,
                form |-> FALSE, landed |-> Hapoalim!None]
  BY DEF Hapoalim!Init
<1>1. PICK key \in [1..n -> 1..n], flawed \in 0..n :
        bank = [rows |-> [i \in 1..n |-> Hapoalim!NewRow(n + 1 - i, key[n + 1 - i], i # flawed)], old |-> n,
                form |-> FALSE, landed |-> Hapoalim!None]
  BY <1>0
<1> DEFINE rows == [i \in 1..n |-> Hapoalim!NewRow(n + 1 - i, key[n + 1 - i], i # flawed)]
<1>2. n \in Nat /\ n <= MaxRows
  BY <1>a
<1>3. \A i \in 1..n : rows[i] \in Row /\ rows[i].id = n + 1 - i
  <2> SUFFICES ASSUME NEW i \in 1..n PROVE rows[i] \in Row /\ rows[i].id = n + 1 - i
    OBVIOUS
  <2>1. n + 1 - i \in 1..n
    BY <1>2
  <2>2. n + 1 - i \in 1..MaxRows /\ key[n + 1 - i] \in 1..MaxRows
    BY <1>2, <1>a, <2>1
  <2> QED BY <2>2 DEF Hapoalim!NewRow, Hapoalim!Rows, Row
<1>4. rows \in Seq(Row) /\ Len(rows) = n
  <2>1. rows \in [1..n -> Row]
    BY <1>3
  <2> HIDE DEF rows
  <2> QED BY <1>2, <2>1, SeqDef
<1> HIDE DEF rows
<1>5. bank.rows = rows /\ bank.old = n /\ bank.landed = Hapoalim!None /\ bank \in Bank
  BY <1>1, <1>2, <1>4 DEF rows, Bank
<1>6. boot \in Boot
  BY DEF Hapoalim!Init, Boot
<1>7. pull \in Pull /\ pull.at = "boot" /\ pull.rows = <<>> /\ ~pull.complete /\ pull.number = 1
          /\ pull.cursor = 0 /\ ~pull.asked
  BY <1>a DEF Hapoalim!Init, Pull, FailCodes
<1>8. job \in Run /\ job.status = "running" /\ ~job.aborted /\ job.files = 0 /\ job.feed = Hapoalim!None
  BY <1>a DEF Hapoalim!Init, Run
<1>9. Listed(bank.rows)
  BY <1>3, <1>4, <1>5 DEF Listed
<1>10. ReadOK(bank, pull) /\ CountsOK(pull, job) /\ StatusOK(bank, pull, job) /\ Hapoalim!AppliedHasAll
  BY <1>a, <1>5, <1>7, <1>8 DEF ReadOK, CountsOK, StatusOK, Hapoalim!AppliedHasAll, Hapoalim!None
<1> QED BY <1>2, <1>4, <1>5, <1>6, <1>7, <1>8, <1>9, <1>10 DEF HapoalimInv

\* A row before the others.
LEMMA Prepended ==
    ASSUME NEW S, NEW s \in Seq(S), NEW e \in S
    PROVE  LET t == <<e>> \o s IN
           /\ t \in Seq(S) /\ Len(t) = Len(s) + 1 /\ t[1] = e
           /\ \A i \in 1..Len(s) : t[i + 1] = s[i]
<1>1. <<e>> \in Seq(S) /\ Len(<<e>>) = 1 /\ <<e>>[1] = e
  OBVIOUS
<1>2. Len(s) \in Nat
  BY LenProperties
<1>3. \A i \in 1..(1 + Len(s)) : (<<e>> \o s)[i] = IF i <= 1 THEN <<e>>[i] ELSE s[i - 1]
  BY <1>1, ConcatProperties
<1>4. <<e>> \o s \in Seq(S) /\ Len(<<e>> \o s) = 1 + Len(s)
  BY <1>1, ConcatProperties
<1>5. ASSUME NEW i \in 1..Len(s) PROVE (<<e>> \o s)[i + 1] = s[i]
  <2>1. i + 1 \in 1..(1 + Len(s)) /\ ~(i + 1 <= 1) /\ i + 1 - 1 = i
    BY <1>2
  <2> QED BY <1>3, <2>1
<1> QED BY <1>1, <1>2, <1>3, <1>4, <1>5

LEMMA NewExecutionStep ==
    ASSUME HapoalimInv, Hapoalim!NewExecution
    PROVE  HapoalimInv'
<1> DEFINE s == bank.rows
           n == Len(s)
<1>0. s \in Seq(Row) /\ n \in Nat /\ n < MaxRows /\ MaxRows \in Nat /\ bank.old \in Nat /\ bank.old <= n
          /\ bank \in Bank
  BY PortalsAssumption, LenProperties DEF HapoalimInv, Bank, Hapoalim!NewExecution
<1>1. PICK key \in 1..(n + 1) :
        /\ bank' = [bank EXCEPT !.rows = <<Hapoalim!NewRow(n + 1, key, TRUE)>> \o @]
        /\ UNCHANGED <<boot, pull, job>>
  BY DEF Hapoalim!NewExecution
<1> DEFINE e == Hapoalim!NewRow(n + 1, key, TRUE)
           t == <<e>> \o s
<1>2. e \in Row /\ e.id = n + 1
  <2>1. n + 1 \in 1..MaxRows /\ key \in 1..MaxRows
    BY <1>0
  <2> QED BY <2>1 DEF Hapoalim!NewRow, Hapoalim!Rows, Row
<1>3. t \in Seq(Row) /\ Len(t) = n + 1 /\ t[1] = e /\ \A i \in 1..n : t[i + 1] = s[i]
  <2> HIDE DEF e
  <2> QED BY <1>0, <1>2, Prepended
<1>4. bank' = [bank EXCEPT !.rows = t]
  BY <1>0, <1>1 DEF Bank
<1> HIDE DEF e, t
<1>5. bank' \in Bank /\ bank'.rows = t /\ bank'.old = bank.old /\ bank'.landed = bank.landed
  BY <1>0, <1>3, <1>4 DEF Bank
<1>6. Listed(t)
  <2> SUFFICES ASSUME NEW i \in 1..Len(t) PROVE t[i].id = Len(t) + 1 - i
    BY DEF Listed
  <2>1. CASE i = 1
    BY <1>0, <1>2, <1>3, <2>1
  <2>2. CASE i # 1
    <3>1. i - 1 \in 1..n /\ (i - 1) + 1 = i
      BY <1>0, <1>3, <2>2
    <3>2. t[i] = s[i - 1]
      BY <1>3, <3>1
    <3>3. s[i - 1].id = n + 1 - (i - 1)
      BY <3>1 DEF HapoalimInv, Listed
    <3> QED BY <1>0, <1>3, <3>1, <3>2, <3>3
  <2> QED BY <2>1, <2>2
<1>7. ReadOK(bank', pull)
  <2>1. ReadOK(bank, pull) /\ pull.cursor \in Nat
    BY DEF HapoalimInv, Pull
  <2>2. ASSUME NEW i \in 1..Len(pull.rows) PROVE \E j \in 1..Len(t) : pull.rows[i] = t[j]
    <3>1. PICK j \in 1..n : pull.rows[i] = s[j]
      BY <2>1 DEF ReadOK
    <3>2. j + 1 \in 1..Len(t) /\ t[j + 1] = s[j]
      BY <1>0, <1>3
    <3> QED BY <3>1, <3>2
  <2>3. pull.at = "history" /\ pull.cursor > 0 => pull.cursor < Len(t)
    BY <1>0, <1>3, <2>1 DEF ReadOK
  <2>4. ASSUME pull.at = "history", NEW id \in 1..bank.old, id > Len(t) - pull.cursor PROVE Has(pull.rows, id)
    <3>1. id > n - pull.cursor
      BY <1>0, <1>3, <2>1, <2>4
    <3> QED BY <2>1, <2>4, <3>1 DEF ReadOK
  <2> QED BY <1>5, <2>1, <2>2, <2>3, <2>4 DEF ReadOK
<1>8. UNCHANGED <<boot, pull, job>> /\ StatusOK(bank', pull, job)
  BY <1>1, <1>5 DEF HapoalimInv, StatusOK
<1>9. Hapoalim!AppliedHasAll'
  BY <1>5, <1>8 DEF HapoalimInv, Hapoalim!AppliedHasAll
<1>10. CountsOK(pull', job') /\ ReadOK(bank', pull') /\ StatusOK(bank', pull', job')
          /\ Len(bank'.rows) <= MaxRows /\ bank'.old <= Len(bank'.rows)
  BY <1>0, <1>3, <1>5, <1>7, <1>8 DEF HapoalimInv
<1> QED BY <1>5, <1>6, <1>8, <1>9, <1>10 DEF HapoalimInv

\* The rows and the run stay as they are.
LEMMA SameRun ==
    ASSUME HapoalimInv, UNCHANGED <<bank, job>>, boot' \in Boot, pull' \in Pull,
           ReadOK(bank, pull'), CountsOK(pull', job), StatusOK(bank, pull', job)
    PROVE  HapoalimInv'
BY DEF HapoalimInv, ReadOK, CountsOK, StatusOK, Hapoalim!AppliedHasAll

LEMMA BootStep ==
    ASSUME HapoalimInv, Hapoalim!SeeHeader \/ Hapoalim!InitAnswered \/ Hapoalim!BootTimer
    PROVE  HapoalimInv'
<1>1. UNCHANGED <<bank, pull, job>>
  BY DEF Hapoalim!SeeHeader, Hapoalim!InitAnswered, Hapoalim!BootTimer
<1>2. \A b \in Boot : Hapoalim!Settle(b) \in Boot /\ [b EXCEPT !.header = TRUE] \in Boot
                      /\ [b EXCEPT !.ready = TRUE] \in Boot /\ [b EXCEPT !.promise = "rejected"] \in Boot
  BY DEF Hapoalim!Settle, Boot
<1>3. boot' \in Boot
  BY <1>2 DEF Hapoalim!SeeHeader, Hapoalim!InitAnswered, Hapoalim!BootTimer, HapoalimInv
<1> QED BY <1>1, <1>3, SameRun DEF HapoalimInv

LEMMA FormStep ==
    ASSUME HapoalimInv, Hapoalim!FormAppears
    PROVE  HapoalimInv'
<1>1. /\ bank' \in Bank /\ bank'.rows = bank.rows /\ bank'.old = bank.old /\ bank'.landed = bank.landed
      /\ UNCHANGED <<boot, pull, job>>
  BY DEF Hapoalim!FormAppears, HapoalimInv, Bank
<1>2. ReadOK(bank', pull') /\ StatusOK(bank', pull', job') /\ CountsOK(pull', job')
  BY <1>1 DEF ReadOK, StatusOK, HapoalimInv
<1>3. Hapoalim!AppliedHasAll'
  BY <1>1 DEF HapoalimInv, Hapoalim!AppliedHasAll
<1> QED BY <1>1, <1>2, <1>3 DEF HapoalimInv

\* A read that fails with the form, if the page has one.
LEMMA FailStep ==
    ASSUME HapoalimInv, UNCHANGED <<boot, job>>, NEW k \in FailCodes, Hapoalim!Fail(k),
           UNCHANGED bank, pull.at \in {"boot", "portfolio", "history"},
           bank.landed = "form" /\ ~job.aborted => k = "OTP_REQUIRED"
    PROVE  HapoalimInv'
<1>1. pull \in Pull /\ pull' = [pull EXCEPT !.at = "failed", !.code = k, !.asked = FALSE]
  BY DEF Hapoalim!Fail, HapoalimInv
<1>2. /\ pull' \in Pull /\ pull'.at = "failed" /\ pull'.code = k /\ ~pull'.asked
      /\ pull'.rows = pull.rows /\ pull'.cursor = pull.cursor /\ pull'.number = pull.number
                /\ pull'.complete = pull.complete
  BY <1>1 DEF Pull
<1>3. ReadOK(bank, pull')
  BY <1>2 DEF HapoalimInv, ReadOK
<1>4. CountsOK(pull', job)
  BY <1>2 DEF HapoalimInv, CountsOK
<1>5. StatusOK(bank, pull', job)
  BY <1>2 DEF HapoalimInv, StatusOK
<1> QED BY <1>2, <1>3, <1>4, <1>5, SameRun DEF HapoalimInv

LEMMA LandStep ==
    ASSUME HapoalimInv, Hapoalim!Land
    PROVE  HapoalimInv'
<1>0. pull.at = "boot" /\ bank.landed = Hapoalim!None /\ UNCHANGED <<boot, job>>
  BY DEF Hapoalim!Land
<1>1. CASE UNCHANGED bank /\ Hapoalim!Fail("INVALID_RESPONSE")
  BY <1>0, <1>1, FailStep DEF FailCodes, Hapoalim!None
<1>2. ASSUME NEW place \in {"form", "elsewhere", "app"}, UNCHANGED pull,
             bank' = [bank EXCEPT !.landed = place, !.form = (place = "form")]
      PROVE  HapoalimInv'
  <2>1. bank' \in Bank /\ bank'.rows = bank.rows /\ bank'.old = bank.old /\ bank'.landed = place
    BY <1>2 DEF HapoalimInv, Bank
  <2>2. ReadOK(bank', pull') /\ CountsOK(pull', job') /\ Hapoalim!AppliedHasAll'
    BY <1>0, <1>2, <2>1 DEF ReadOK, HapoalimInv, Hapoalim!AppliedHasAll
  <2>3. StatusOK(bank', pull', job')
    BY <1>0, <1>2, <2>1 DEF StatusOK, HapoalimInv
  <2> QED BY <1>0, <1>2, <2>1, <2>2, <2>3 DEF HapoalimInv
<1> QED BY <1>1, <1>2 DEF Hapoalim!Land

LEMMA RequestStep ==
    ASSUME HapoalimInv, Hapoalim!Booted \/ Hapoalim!Ask \/ Hapoalim!Refused \/ Hapoalim!PageCloses
    PROVE  HapoalimInv'
<1>0. UNCHANGED <<bank, boot, job>> /\ pull \in Pull
          /\ {"OTP_REQUIRED", "COLLECTION_FAILED", "INVALID_RESPONSE", "TIMEOUT"} \subseteq FailCodes
  BY DEF Hapoalim!Booted, Hapoalim!Ask, Hapoalim!Refused, Hapoalim!PageCloses, HapoalimInv, FailCodes
<1>1. CASE Hapoalim!Booted
  <2>1. pull.at = "boot"
    BY <1>1 DEF Hapoalim!Booted
  <2>2. CASE pull' = [pull EXCEPT !.at = "portfolio"] /\ bank.landed # "form"
    <3>1. /\ pull' \in Pull /\ pull'.at = "portfolio" /\ pull'.rows = pull.rows /\ pull'.complete = pull.complete
          /\ pull'.cursor = pull.cursor /\ pull'.number = pull.number /\ pull'.asked = pull.asked
      BY <1>0, <2>2 DEF Pull
    <3>2. ReadOK(bank, pull') /\ CountsOK(pull', job)
      BY <2>1, <3>1 DEF HapoalimInv, ReadOK, CountsOK
    <3>3. StatusOK(bank, pull', job)
      BY <2>1, <2>2, <3>1 DEF HapoalimInv, StatusOK
    <3> QED BY <1>0, <3>1, <3>2, <3>3, SameRun DEF HapoalimInv
  <2>3. CASE Hapoalim!Fail("OTP_REQUIRED") \/ (Hapoalim!Fail("COLLECTION_FAILED") /\ bank.landed # "form")
    BY <1>0, <2>1, <2>3, FailStep
  <2> QED BY <1>1, <2>2, <2>3 DEF Hapoalim!Booted
<1>2. bank.landed = "form" /\ ~job.aborted /\ pull.at \in {"portfolio", "history"} => FALSE
  BY DEF HapoalimInv, StatusOK
<1>3. CASE Hapoalim!Ask
  <2>1. pull.at \in {"portfolio", "history"}
    BY <1>3 DEF Hapoalim!Ask
  <2>2. CASE pull' = [pull EXCEPT !.asked = TRUE]
    <3>1. /\ pull' \in Pull /\ pull'.at = pull.at /\ pull'.rows = pull.rows /\ pull'.complete = pull.complete
          /\ pull'.cursor = pull.cursor /\ pull'.number = pull.number /\ pull'.code = pull.code
      BY <1>0, <2>2 DEF Pull
    <3>2. ReadOK(bank, pull') /\ CountsOK(pull', job)
      BY <2>1, <3>1 DEF HapoalimInv, ReadOK, CountsOK
    <3>3. StatusOK(bank, pull', job)
      BY <2>1, <3>1 DEF HapoalimInv, StatusOK
    <3> QED BY <1>0, <3>1, <3>2, <3>3, SameRun DEF HapoalimInv
  <2>3. CASE Hapoalim!Fail("OTP_REQUIRED") \/ Hapoalim!Fail("TIMEOUT")
    BY <1>0, <1>2, <2>1, <2>3, FailStep
  <2> QED BY <1>3, <2>2, <2>3 DEF Hapoalim!Ask
<1>4. CASE Hapoalim!Refused
  <2>1. pull.at \in {"portfolio", "history"}
    BY <1>4 DEF Hapoalim!Refused, HapoalimInv, CountsOK
  <2>2. PICK k \in FailCodes : Hapoalim!Fail(k)
    BY <1>0, <1>4 DEF Hapoalim!Refused
  <2> QED BY <1>0, <1>2, <2>1, <2>2, FailStep
<1>5. CASE Hapoalim!PageCloses
  BY <1>0, <1>5, FailStep DEF Hapoalim!PageCloses
<1> QED BY <1>1, <1>3, <1>4, <1>5

\* A capture: only while the run goes on.
LEMMA CapturedStep ==
    ASSUME HapoalimInv, UNCHANGED <<bank, boot>>, Hapoalim!Captured, pull' \in Pull, ReadOK(bank, pull'),
           pull.at \in {"portfolio", "history"}, pull'.at \in {"history", "read"}, ~pull'.asked,
           pull'.number \in 1..MaxPages,
           pull'.at = "history" => pull'.number = job.files + 1 /\ ~pull'.complete
    PROVE  HapoalimInv'
<1>1. job \in Run /\ ~job.aborted /\ job' = [job EXCEPT !.files = @ + 1] /\ job.files \in Nat
  BY DEF Hapoalim!Captured, HapoalimInv, Run
<1>2. /\ job' \in Run /\ job'.files = job.files + 1 /\ job'.status = job.status /\ job'.aborted = job.aborted
      /\ job'.feed = job.feed /\ job'.rows = job.rows
  BY <1>1 DEF Run
<1>3. bank.landed # "form" /\ job.status = "running"
  BY <1>1 DEF HapoalimInv, StatusOK
<1>4. job.files <= MaxPages /\ MaxPages \in Nat
  BY PortalsAssumption DEF HapoalimInv, CountsOK
<1>5. CountsOK(pull', job')
  BY <1>1, <1>2, <1>4 DEF CountsOK
<1>6. StatusOK(bank', pull', job') /\ Hapoalim!AppliedHasAll'
  BY <1>1, <1>2, <1>3 DEF HapoalimInv, StatusOK, Hapoalim!AppliedHasAll
<1>7. ReadOK(bank', pull')
  BY DEF ReadOK
<1> QED BY <1>2, <1>5, <1>6, <1>7 DEF HapoalimInv

LEMMA PortfolioStep ==
    ASSUME HapoalimInv, Hapoalim!Portfolio
    PROVE  HapoalimInv'
<1>1. pull \in Pull /\ pull.at = "portfolio" /\ Hapoalim!Captured /\ UNCHANGED <<bank, boot>>
      /\ pull' = [pull EXCEPT !.at = "history", !.asked = FALSE]
  BY DEF Hapoalim!Portfolio, HapoalimInv
<1>2. /\ pull' \in Pull /\ pull'.at = "history" /\ ~pull'.asked /\ pull'.rows = pull.rows
          /\ pull'.cursor = pull.cursor
      /\ pull'.number = pull.number /\ pull'.complete = pull.complete
  BY <1>1 DEF Pull
<1>3. pull.cursor = 0 /\ pull.number = 1 /\ job.files = 0 /\ ~pull.complete /\ pull.number \in 1..MaxPages
  BY <1>1 DEF HapoalimInv, CountsOK
<1>4. ReadOK(bank, pull')
  <2>1. ReadOK(bank, pull) /\ bank.old <= Len(bank.rows) /\ bank.old \in Nat /\ Len(bank.rows) \in Nat
    BY LenProperties DEF HapoalimInv, Bank
  <2>2. \A id \in 1..bank.old : ~(id > Len(bank.rows) - 0)
    BY <2>1
  <2> QED BY <1>2, <1>3, <2>1, <2>2 DEF ReadOK
<1> QED BY <1>1, <1>2, <1>3, <1>4, CapturedStep

\* A row after the others.
LEMMA Extended ==
    ASSUME NEW S, NEW s \in Seq(S), NEW e \in S
    PROVE  LET t == s \o <<e>> IN
           /\ t \in Seq(S) /\ Len(t) = Len(s) + 1 /\ t[Len(s) + 1] = e
           /\ \A i \in 1..Len(s) : t[i] = s[i]
<1>1. <<e>> \in Seq(S) /\ Len(<<e>>) = 1 /\ <<e>>[1] = e
  OBVIOUS
<1>2. Len(s) \in Nat
  BY LenProperties
<1>3. \A i \in 1..(Len(s) + 1) : (s \o <<e>>)[i] = IF i <= Len(s) THEN s[i] ELSE <<e>>[i - Len(s)]
  BY <1>1, ConcatProperties
<1>4. s \o <<e>> \in Seq(S) /\ Len(s \o <<e>>) = Len(s) + 1
  BY <1>1, ConcatProperties
<1>5. (s \o <<e>>)[Len(s) + 1] = e
  BY <1>1, <1>2, <1>3
<1>6. \A i \in 1..Len(s) : (s \o <<e>>)[i] = s[i]
  BY <1>2, <1>3
<1> QED BY <1>4, <1>5, <1>6

\* The rows of a page after those read: with the one at the cursor nothing old is left above the next.
LEMMA PageRead ==
    ASSUME HapoalimInv, pull.at = "history", NEW page,
           page = IF bank.rows = <<>> THEN <<>> ELSE <<bank.rows[pull.cursor + 1]>>
    PROVE  LET t == pull.rows \o page IN
           /\ t \in Seq(Row)
           /\ \A i \in 1..Len(t) : \E j \in 1..Len(bank.rows) : t[i] = bank.rows[j]
           /\ \A id \in 1..bank.old : id > Len(bank.rows) - (pull.cursor + 1) => Has(t, id)
<1> DEFINE s == bank.rows
           n == Len(s)
           c == pull.cursor
           r == pull.rows
           t == r \o page
<1>0. s \in Seq(Row) /\ r \in Seq(Row) /\ n \in Nat /\ Len(r) \in Nat /\ c \in Nat /\ bank.old \in Nat
          /\ bank.old <= n
  BY LenProperties DEF HapoalimInv, Bank, Pull
<1>r. /\ \A i \in 1..Len(r) : \E j \in 1..n : r[i] = s[j]
      /\ c > 0 => c < n
      /\ \A id \in 1..bank.old : id > n - c => Has(r, id)
  BY DEF HapoalimInv, ReadOK
<1>1. CASE s = <<>>
  <2>1. page = <<>> /\ n = 0 /\ t = r
    BY <1>0, <1>1
  <2>2. \A id \in 1..bank.old : FALSE
    BY <1>0, <2>1
  <2> QED BY <1>0, <1>r, <2>1, <2>2
<1>2. CASE s # <<>>
  <2>1. n > 0 /\ c + 1 \in 1..n
    BY <1>0, <1>r, <1>2, EmptySeq
  <2>2. s[c + 1] \in Row /\ s[c + 1].id = n - c
    <3>1. s[c + 1].id = n + 1 - (c + 1)
      BY <2>1 DEF HapoalimInv, Listed
    <3> QED BY <1>0, <2>1, <3>1, ElementOfSeq
  <2>3. t = r \o <<s[c + 1]>>
    BY <1>2
  <2> HIDE DEF t, n, c, r, s
  <2>4. /\ t \in Seq(Row) /\ Len(t) = Len(r) + 1 /\ t[Len(r) + 1] = s[c + 1]
        /\ \A i \in 1..Len(r) : t[i] = r[i]
    BY <1>0, <2>2, <2>3, Extended
  <2>5. t[Len(r) + 1] = s[c + 1] /\ Len(r) + 1 \in 1..Len(t)
    BY <1>0, <2>4
  <2>6. \A i \in 1..Len(r) : t[i] = r[i] /\ i \in 1..Len(t)
    BY <1>0, <2>4
  <2>7. ASSUME NEW i \in 1..Len(t) PROVE \E j \in 1..n : t[i] = s[j]
    <3>1. CASE i = Len(r) + 1
      BY <2>1, <2>5, <3>1
    <3>2. CASE i # Len(r) + 1
      <4>1. i \in 1..Len(r)
        BY <1>0, <2>4, <3>2
      <4> QED BY <1>r, <2>6, <4>1
    <3> QED BY <3>1, <3>2
  <2>8. ASSUME NEW id \in 1..bank.old, id > n - (c + 1) PROVE Has(t, id)
    <3>1. CASE id = n - c
      BY <2>2, <2>5, <3>1 DEF Has
    <3>2. CASE id # n - c
      <4>1. id > n - c
        BY <1>0, <2>8, <3>2
      <4> QED BY <1>r, <2>6, <4>1 DEF Has
    <3> QED BY <3>1, <3>2
  <2> QED BY <2>4, <2>7, <2>8 DEF t, n, c, s, r
<1> QED BY <1>1, <1>2

LEMMA PageStep ==
    ASSUME HapoalimInv, Hapoalim!Page
    PROVE  HapoalimInv'
<1> DEFINE page == IF bank.rows = <<>> THEN <<>> ELSE <<bank.rows[pull.cursor + 1]>>
           t == pull.rows \o page
           done == [pull EXCEPT !.at = "read", !.asked = FALSE, !.rows = t]
           n == Len(bank.rows)
<1>1. pull.at = "history" /\ Hapoalim!Captured /\ UNCHANGED <<bank, boot>>
  BY DEF Hapoalim!Page
<1>2. PICK cursor \in Hapoalim!Cursors :
          pull' = CASE cursor = Hapoalim!NoCursor -> [done EXCEPT !.complete = TRUE]
                    [] cursor # Hapoalim!NoCursor /\ (cursor \in pull.seen \/ pull.number = MaxPages) -> done
                    [] OTHER -> [done EXCEPT !.at = "history", !.cursor = cursor, !.seen = @ \cup {cursor}, !.number = @ + 1]
  <2>1. pull \in Pull
    BY DEF HapoalimInv
  <2>2. done = [pull EXCEPT !.at = "read", !.asked = FALSE, !.rows = @ \o page]
    BY <2>1 DEF Pull
  <2> QED BY <2>2 DEF Hapoalim!Page
<1>3. /\ t \in Seq(Row)
      /\ \A i \in 1..Len(t) : \E j \in 1..n : t[i] = bank.rows[j]
      /\ \A id \in 1..bank.old : id > n - (pull.cursor + 1) => Has(t, id)
  BY <1>1, PageRead
<1> HIDE DEF t
<1>4. /\ pull \in Pull /\ pull.cursor \in Nat /\ pull.seen \in SUBSET Nat /\ pull.number \in 1..MaxPages
          /\ job.files = pull.number
      /\ n \in Nat /\ MaxPages \in Nat /\ ~pull.complete /\ bank.old \in Nat
  BY <1>1, PortalsAssumption, LenProperties DEF HapoalimInv, Pull, Bank, CountsOK
<1>5. done \in Pull /\ done.at = "read" /\ ~done.asked /\ done.rows = t /\ done.number = pull.number
          /\ ~done.complete /\ done.cursor = pull.cursor
      /\ done.seen = pull.seen
  BY <1>3, <1>4 DEF Pull
<1> HIDE DEF done
<1>6. CASE cursor = Hapoalim!NoCursor
  <2>1. pull' = [done EXCEPT !.complete = TRUE]
    BY <1>2, <1>6
  <2>2. pull' \in Pull /\ pull'.at = "read" /\ ~pull'.asked /\ pull'.rows = t /\ pull'.number = pull.number
    BY <1>5, <2>1 DEF Pull
  <2>3. n - (pull.cursor + 1) <= 0
    BY <1>2, <1>4, <1>6 DEF Hapoalim!Cursors, Hapoalim!NoCursor
  <2>4. \A id \in 1..bank.old : Has(t, id)
    BY <1>3, <1>4, <2>3
  <2>5. ReadOK(bank, pull')
    BY <1>3, <2>2, <2>4 DEF ReadOK
  <2> QED BY <1>1, <1>4, <2>2, <2>5, CapturedStep
<1>7. CASE cursor # Hapoalim!NoCursor /\ (cursor \in pull.seen \/ pull.number = MaxPages)
  <2>1. pull' = done
    BY <1>2, <1>7
  <2>2. ReadOK(bank, done)
    BY <1>3, <1>5 DEF ReadOK
  <2> QED BY <1>1, <1>4, <1>5, <2>1, <2>2, CapturedStep
<1>8. CASE cursor # Hapoalim!NoCursor /\ cursor \notin pull.seen /\ pull.number # MaxPages
  <2>1. pull' = [done EXCEPT !.at = "history", !.cursor = cursor, !.seen = @ \cup {cursor}, !.number = @ + 1]
    BY <1>2, <1>8
  <2>2. cursor = pull.cursor + 1 /\ cursor < n /\ cursor \in Nat
    BY <1>2, <1>4, <1>8 DEF Hapoalim!Cursors
  <2>3. PICK k \in Nat : k = pull.number + 1
    BY <1>4
  <2>4. PICK seen \in SUBSET Nat : seen = pull.seen \cup {cursor}
    BY <1>4, <2>2
  <2>5. pull' = [done EXCEPT !.at = "history", !.cursor = cursor, !.seen = seen, !.number = k]
    BY <1>5, <2>1, <2>3, <2>4 DEF Pull
  <2>6. /\ pull' \in Pull /\ pull'.at = "history" /\ ~pull'.asked /\ pull'.rows = t /\ pull'.number = pull.number + 1
        /\ ~pull'.complete /\ pull'.cursor = cursor
    BY <1>5, <2>2, <2>3, <2>4, <2>5 DEF Pull
  <2>7. pull.number + 1 \in 1..MaxPages
    BY <1>4, <1>8
  <2>8. ReadOK(bank, pull')
    BY <1>3, <2>2, <2>6 DEF ReadOK
  <2> QED BY <1>1, <1>4, <2>6, <2>7, <2>8, CapturedStep
<1> QED BY <1>6, <1>7, <1>8

\* Rows of distinct keys are distinct rows of the bank, each once.
LEMMA DistinctRows ==
    ASSUME HapoalimInv, NEW s \in Seq(Row), \A i \in 1..Len(s) : \E j \in 1..Len(bank.rows) : s[i] = bank.rows[j],
           Cardinality({r.key : r \in {s[i] : i \in DOMAIN s}}) = Len(s)
    PROVE  \A i, k \in 1..Len(s) : s[i].id = s[k].id => i = k
<1> DEFINE K == {r.key : r \in {s[i] : i \in DOMAIN s}}
           f == [i \in 1..Len(s) |-> s[i].key]
<1>1. Len(s) \in Nat /\ DOMAIN s = 1..Len(s)
  BY LenProperties
<1>2. \A i \in 1..Len(s) : s[i].key \in K
  BY <1>1, Zenon
<1>3. \A k \in K : \E i \in 1..Len(s) : s[i].key = k
  BY <1>1, Zenon
<1>4. Cardinality(K) = Len(s)
  OBVIOUS
<1> HIDE DEF K
<1>5. f \in [1..Len(s) -> K] /\ \A i \in 1..Len(s) : f[i] = s[i].key
  BY <1>2
<1> HIDE DEF f
<1>6. \A i, k \in 1..Len(s) : s[i].key = s[k].key => i = k
  <2>1. PICK n \in Nat : n = Len(s)
    BY <1>1
  <2>2. f \in [1..n -> K] /\ Cardinality(K) = n
    BY <1>4, <1>5, <2>1
  <2>3. f \in Surjection(1..n, K)
    BY <1>3, <1>5, <2>1, <2>2 DEF Surjection
  <2>4. IsFiniteSet(1..n) /\ Cardinality(1..n) = n
    BY FS_Interval
  <2>5. f \in Injection(1..n, K)
    BY <2>2, <2>3, <2>4, FS_Surjection
  <2>6. \A i, k \in 1..n : f[i] = f[k] => i = k
    BY <2>5 DEF Injection, IsInjective
  <2> QED BY <1>5, <2>1, <2>6
<1>7. ASSUME NEW i \in 1..Len(s), NEW k \in 1..Len(s), s[i].id = s[k].id PROVE i = k
  <2>1. PICK j \in 1..Len(bank.rows) : s[i] = bank.rows[j]
    OBVIOUS
  <2>2. PICK l \in 1..Len(bank.rows) : s[k] = bank.rows[l]
    OBVIOUS
  <2>3. j = l
    <3>1. Len(bank.rows) \in Nat
      BY LenProperties DEF HapoalimInv, Bank
    <3>2. Len(bank.rows) + 1 - j = Len(bank.rows) + 1 - l
      BY <1>7, <2>1, <2>2 DEF HapoalimInv, Listed
    <3> QED BY <3>1, <3>2
  <2> QED BY <1>6, <2>1, <2>2, <2>3
<1> QED BY <1>7

\* A run that is over, whose feed is as it was.
LEMMA OverStep ==
    ASSUME HapoalimInv, UNCHANGED <<bank, boot, pull>>, job' \in Run, job'.files = job.files, job'.feed = job.feed,
           job'.rows = job.rows, StatusOK(bank, pull, job')
    PROVE  HapoalimInv'
<1>1. CountsOK(pull', job') /\ ReadOK(bank', pull') /\ StatusOK(bank', pull', job') /\ Hapoalim!AppliedHasAll'
  BY DEF HapoalimInv, CountsOK, ReadOK, StatusOK, Hapoalim!AppliedHasAll
<1> QED BY <1>1 DEF HapoalimInv

LEMMA ApplyStep ==
    ASSUME HapoalimInv, Hapoalim!Apply
    PROVE  HapoalimInv'
<1>1. /\ pull.at = "read" /\ job.status = "running" /\ ~job.aborted /\ UNCHANGED <<bank, boot, pull>> /\ job \in Run
      /\ bank.landed # "form" /\ pull.rows \in Seq(Row)
  BY DEF Hapoalim!Apply, HapoalimInv, StatusOK, Pull
<1>2. CASE job' = [job EXCEPT !.status = "partial"]
  <2>1. job' \in Run /\ job'.files = job.files /\ job'.feed = job.feed /\ job'.rows = job.rows
            /\ job'.aborted = job.aborted
        /\ job'.status = "partial"
    BY <1>1, <1>2 DEF Run
  <2>2. StatusOK(bank, pull, job')
    BY <1>1, <2>1 DEF StatusOK
  <2> QED BY <1>1, <2>1, <2>2, OverStep
<1>3. ASSUME ~Hapoalim!Incomplete(pull.rows), NEW status \in {"ready", "partial"},
             job' = [job EXCEPT !.status = status, !.feed = "applied", !.rows = pull.rows]
      PROVE  HapoalimInv'
  <2>1. /\ job' \in Run /\ job'.files = job.files /\ job'.rows = pull.rows /\ job'.aborted = job.aborted
        /\ job'.status = status
    BY <1>1, <1>3 DEF Run
  <2>2. StatusOK(bank', pull', job') /\ CountsOK(pull', job') /\ ReadOK(bank', pull')
    <3>1. StatusOK(bank, pull, job') /\ CountsOK(pull, job')
      BY <1>1, <2>1 DEF StatusOK, CountsOK, HapoalimInv
    <3> QED BY <1>1, <3>1 DEF HapoalimInv
  <2>3. pull.complete /\ Cardinality({r.key : r \in {pull.rows[i] : i \in DOMAIN pull.rows}}) = Len(pull.rows)
    <3>1. \A S : Hapoalim!Cardinality(S) = Cardinality(S)
      BY DEF Hapoalim!Cardinality, Cardinality
    <3> QED BY <1>3, <3>1 DEF Hapoalim!Incomplete, Hapoalim!ToSet
  <2>4. DOMAIN pull.rows = 1..Len(pull.rows)
    BY <1>1, LenProperties
  <2>5. \A i, k \in 1..Len(pull.rows) : pull.rows[i].id = pull.rows[k].id => i = k
    BY <1>1, <2>3, DistinctRows DEF HapoalimInv, ReadOK
  <2>6. \A id \in 1..bank.old : \E i \in 1..Len(pull.rows) : pull.rows[i].id = id
    BY <2>3 DEF HapoalimInv, ReadOK, Has
  <2>7. Hapoalim!AppliedHasAll'
    <3>1. 1..bank.old \subseteq {r.id : r \in {pull.rows[i] : i \in DOMAIN pull.rows}}
      BY <2>4, <2>6
    <3>2. Hapoalim!IsInjective([i \in DOMAIN pull.rows |-> pull.rows[i].id])
      BY <2>4, <2>5 DEF Hapoalim!IsInjective
    <3> QED BY <1>1, <2>1, <3>1, <3>2 DEF Hapoalim!AppliedHasAll, Hapoalim!ToSet
  <2> QED BY <1>1, <2>1, <2>2, <2>7 DEF HapoalimInv
<1> QED BY <1>2, <1>3 DEF Hapoalim!Apply

LEMMA FailedStep ==
    ASSUME HapoalimInv, Hapoalim!Failed \/ Hapoalim!Deadline
    PROVE  HapoalimInv'
<1>1. job \in Run /\ job.status = "running" /\ UNCHANGED <<bank, boot, pull>> /\ job.feed # "applied" /\ ~job.aborted
  BY DEF Hapoalim!Failed, Hapoalim!Deadline, HapoalimInv, StatusOK
<1>2. CASE Hapoalim!Failed
  <2>1. job' = [job EXCEPT !.status = IF pull.code = "OTP_REQUIRED" THEN "auth_required" ELSE "partial"]
            /\ pull.at = "failed"
    BY <1>2 DEF Hapoalim!Failed, Hapoalim!StatusOf
  <2>2. /\ job' \in Run /\ job'.files = job.files /\ job'.feed = job.feed /\ job'.rows = job.rows
            /\ job'.aborted = job.aborted
        /\ job'.status = IF pull.code = "OTP_REQUIRED" THEN "auth_required" ELSE "partial"
    BY <1>1, <2>1 DEF Run
  <2>3. StatusOK(bank, pull, job')
    BY <1>1, <2>1, <2>2 DEF HapoalimInv, StatusOK
  <2> QED BY <1>1, <2>2, <2>3, OverStep
<1>3. CASE Hapoalim!Deadline
  <2>1. job' = [job EXCEPT !.status = "partial", !.aborted = TRUE]
    BY <1>3 DEF Hapoalim!Deadline
  <2>2. /\ job' \in Run /\ job'.files = job.files /\ job'.feed = job.feed /\ job'.rows = job.rows /\ job'.aborted
        /\ job'.status = "partial"
    BY <1>1, <2>1 DEF Run
  <2>3. StatusOK(bank, pull, job')
    BY <1>1, <2>2 DEF StatusOK
  <2> QED BY <1>1, <2>2, <2>3, OverStep
<1> QED BY <1>2, <1>3

LEMMA HapoalimStep ==
    ASSUME HapoalimInv, Hapoalim!Next
    PROVE  HapoalimInv' /\ Hapoalim!Silent
<1>1. HapoalimInv'
  BY NewExecutionStep, BootStep, FormStep, LandStep, RequestStep, PortfolioStep, PageStep, ApplyStep,
            FailedStep DEF Hapoalim!Next
<1>2. ASSUME job.aborted PROVE job' = job
  <2>1. job.status # "running"
    BY <1>2 DEF HapoalimInv, StatusOK
  <2> QED BY <1>2, <2>1 DEF Hapoalim!Next, Hapoalim!NewExecution, Hapoalim!FormAppears, Hapoalim!SeeHeader,
            Hapoalim!InitAnswered,
            Hapoalim!BootTimer, Hapoalim!Land, Hapoalim!Booted, Hapoalim!Ask, Hapoalim!Refused, Hapoalim!Portfolio,
            Hapoalim!Page,
            Hapoalim!Captured, Hapoalim!Failed, Hapoalim!Apply, Hapoalim!Deadline, Hapoalim!PageCloses
<1> QED BY <1>1, <1>2 DEF Hapoalim!Silent

LEMMA HapoalimKept ==
    ASSUME HapoalimInv
    PROVE  Hapoalim!TypeOK /\ Hapoalim!AppliedHasAll /\ Hapoalim!FormIsReported
<1>1. Len(bank.rows) \in Nat
  BY LenProperties DEF HapoalimInv, Bank
<1>2. Hapoalim!TypeOK
  BY <1>1, PortalsAssumption DEF HapoalimInv, Bank, Boot, Pull, Run, Row, CountsOK, Hapoalim!TypeOK
<1> QED BY <1>2 DEF HapoalimInv, StatusOK, Hapoalim!FormIsReported

-----------------------------------------------------------------------------
(* Sums over finite sets, for what tracks and deposits amount to. *)

\* Among finite sets one has no other below it: what an induction over a finite set rests on.
LEMMA LeastSet ==
    ASSUME NEW T, T # {}, \A t \in T : IsFiniteSet(t)
    PROVE  \E t \in T : \A u \in T : u \subseteq t => u = t
<1>1. T \subseteq FiniteSubsetsOf(UNION T)
  BY DEF FiniteSubsetsOf
<1>2. \E t \in T : \A u \in T : <<u, t>> \notin StrictSubsetOrdering(UNION T)
  BY <1>1, FS_StrictSubsetOrderingWellFounded, WFMin
<1> QED BY <1>2 DEF StrictSubsetOrdering

\* The order in which MapThenSumSet takes the elements.
Pick(s) == CHOOSE x \in s : TRUE
Rest(s) == s \ {Pick(s)}

\* g adds up F over the subsets of S.
Adds(g, F, S) ==
    g = [s \in SUBSET S |-> IF s = {} THEN 0 ELSE F[Pick(s)] + g[Rest(s)]]

LEMMA RestFacts ==
    ASSUME NEW s, s # {}
    PROVE  Pick(s) \in s /\ Rest(s) \subseteq s /\ Rest(s) # s /\ Pick(s) \notin Rest(s)
BY DEF Pick, Rest

\* The sums of a set do not depend on the larger set they are taken in.
LEMMA AddsOnce ==
    ASSUME NEW F, NEW S, NEW U, IsFiniteSet(S), NEW g, NEW h, Adds(g, F, S), Adds(h, F, U),
           NEW t, t \subseteq S, t \subseteq U
    PROVE  g[t] = h[t]
<1> DEFINE Bad == {s \in SUBSET t : g[s] # h[s]}
<1> SUFFICES ASSUME Bad # {} PROVE FALSE
  OBVIOUS
<1>1. \A s \in Bad : IsFiniteSet(s)
  BY FS_Subset
<1>2. PICK s \in Bad : \A u \in Bad : u \subseteq s => u = s
  <2> HIDE DEF Bad
  <2> QED BY <1>1, LeastSet
<1>3. s # {}
  BY <1>2 DEF Adds
<1>4. Rest(s) \subseteq s /\ Rest(s) # s
  BY <1>3, RestFacts
<1>5. g[Rest(s)] = h[Rest(s)]
  BY <1>2, <1>4
<1>6. /\ g[s] = F[Pick(s)] + g[Rest(s)]
      /\ h[s] = F[Pick(s)] + h[Rest(s)]
  BY <1>2, <1>3 DEF Adds
<1> QED BY <1>2, <1>5, <1>6

\* Every finite set has its sums.
LEMMA AddsExists ==
    ASSUME NEW F, NEW S, IsFiniteSet(S)
    PROVE  \E g : Adds(g, F, S)
<1> DEFINE Bad == {s \in SUBSET S : ~\E g : Adds(g, F, s)}
<1> SUFFICES ASSUME Bad # {} PROVE FALSE
  OBVIOUS
<1>1. \A s \in Bad : IsFiniteSet(s)
  BY FS_Subset
<1>2. PICK t \in Bad : \A u \in Bad : u \subseteq t => u = t
  <2> HIDE DEF Bad
  <2> QED BY <1>1, LeastSet
<1> DEFINE For(s) == CHOOSE g : Adds(g, F, s)
           G == [s \in SUBSET t |-> IF s = {} THEN 0 ELSE F[Pick(s)] + For(Rest(s))[Rest(s)]]
<1>3. ASSUME NEW s \in SUBSET t, s # t PROVE Adds(For(s), F, s)
  BY <1>2, <1>3
<1>4. ASSUME NEW s \in SUBSET t, s # {}, Rest(s) # {}
      PROVE  For(Rest(s))[Rest(s)] = F[Pick(Rest(s))] + For(Rest(Rest(s)))[Rest(Rest(s))]
  <2> DEFINE r == Rest(s)
  <2>1. r \in SUBSET t /\ r # t /\ Rest(r) \in SUBSET t /\ Rest(r) # t /\ Rest(r) \subseteq r /\ r # {}
    BY <1>4, RestFacts
  <2>2. Adds(For(r), F, r) /\ Adds(For(Rest(r)), F, Rest(r))
    BY <1>3, <2>1
  <2>3. IsFiniteSet(r) /\ IsFiniteSet(Rest(r))
    BY <2>1, FS_Subset
  <2>4. For(r)[Rest(r)] = For(Rest(r))[Rest(r)]
    BY <2>1, <2>2, <2>3, AddsOnce
  <2>5. For(r)[r] = F[Pick(r)] + For(r)[Rest(r)]
    BY <2>1, <2>2 DEF Adds
  <2> QED BY <2>4, <2>5
<1>5. ASSUME NEW s \in SUBSET t, s # {} PROVE For(Rest(s))[Rest(s)] = G[Rest(s)]
  <2>1. Rest(s) \in SUBSET t /\ Rest(s) # t
    BY <1>5, RestFacts
  <2>2. CASE Rest(s) = {}
    <3>1. Adds(For({}), F, {})
      BY <2>1, <2>2, <1>3
    <3>2. For({})[{}] = 0
      <4> HIDE DEF For
      <4> QED BY <3>1 DEF Adds
    <3>3. G[{}] = 0
      OBVIOUS
    <3> QED BY <2>2, <3>2, <3>3
  <2>3. CASE Rest(s) # {}
    BY <1>4, <1>5, <2>1, <2>3
  <2> QED BY <2>2, <2>3
<1>6. Adds(G, F, t)
  <2>1. \A s \in SUBSET t : (IF s = {} THEN 0 ELSE F[Pick(s)] + For(Rest(s))[Rest(s)])
                            = (IF s = {} THEN 0 ELSE F[Pick(s)] + G[Rest(s)])
    <3> HIDE DEF For, G
    <3> QED BY <1>5
  <2>2. G = [s \in SUBSET t |-> IF s = {} THEN 0 ELSE F[Pick(s)] + G[Rest(s)]]
    <3> HIDE DEF For
    <3> QED BY <2>1
  <2> QED BY <2>2 DEF Adds
<1> QED BY <1>2, <1>6

SumOf(F, S) == (CHOOSE g : Adds(g, F, S))[S]

LEMMA SumIs ==
    ASSUME NEW F, NEW S, IsFiniteSet(S), NEW U, S \subseteq U, NEW g, Adds(g, F, U)
    PROVE  g[S] = SumOf(F, S)
<1> DEFINE c == CHOOSE h : Adds(h, F, S)
<1>1. Adds(c, F, S)
  BY AddsExists
<1>2. SumOf(F, S) = c[S]
  BY DEF SumOf
<1> HIDE DEF c
<1>3. c[S] = g[S]
  BY <1>1, AddsOnce
<1> QED BY <1>2, <1>3

LEMMA SumSteps ==
    ASSUME NEW F, NEW S, IsFiniteSet(S)
    PROVE  SumOf(F, S) = IF S = {} THEN 0 ELSE F[Pick(S)] + SumOf(F, Rest(S))
<1>1. PICK g : Adds(g, F, S)
  BY AddsExists
<1>2. g[S] = IF S = {} THEN 0 ELSE F[Pick(S)] + g[Rest(S)]
  BY <1>1 DEF Adds
<1>3. g[S] = SumOf(F, S)
  BY <1>1, SumIs
<1>4. Rest(S) \subseteq S /\ IsFiniteSet(Rest(S))
  BY FS_Subset DEF Rest
<1>5. g[Rest(S)] = SumOf(F, Rest(S))
  BY <1>1, <1>4, SumIs
<1> QED BY <1>2, <1>3, <1>5

LEMMA SumIsInt ==
    ASSUME NEW F, NEW S, IsFiniteSet(S), \A x \in S : F[x] \in Int
    PROVE  SumOf(F, S) \in Int
<1> DEFINE Bad == {s \in SUBSET S : SumOf(F, s) \notin Int}
<1> SUFFICES ASSUME Bad # {} PROVE FALSE
  OBVIOUS
<1>1. \A s \in Bad : IsFiniteSet(s)
  BY FS_Subset
<1>2. PICK s \in Bad : \A u \in Bad : u \subseteq s => u = s
  <2> HIDE DEF Bad
  <2> QED BY <1>1, LeastSet
<1>3. SumOf(F, s) = IF s = {} THEN 0 ELSE F[Pick(s)] + SumOf(F, Rest(s))
  BY <1>1, <1>2, SumSteps
<1>4. s # {}
  BY <1>2, <1>3
<1>5. Rest(s) \subseteq s /\ Rest(s) # s /\ Pick(s) \in s
  BY <1>4, RestFacts
<1>6. SumOf(F, Rest(s)) \in Int /\ F[Pick(s)] \in Int
  BY <1>2, <1>5
<1> QED BY <1>2, <1>3, <1>4, <1>6

\* Any element may be taken first.
LEMMA SumTakes ==
    ASSUME NEW F, NEW S, IsFiniteSet(S), \A x \in S : F[x] \in Int, NEW x \in S
    PROVE  SumOf(F, S) = F[x] + SumOf(F, S \ {x})
<1> DEFINE Bad == {s \in SUBSET S : \E y \in s : SumOf(F, s) # F[y] + SumOf(F, s \ {y})}
<1> SUFFICES ASSUME Bad # {} PROVE FALSE
  OBVIOUS
<1>1. \A s \in SUBSET S : IsFiniteSet(s) /\ SumOf(F, s) \in Int
  BY FS_Subset, SumIsInt
<1>2. PICK s \in Bad : \A u \in Bad : u \subseteq s => u = s
  <2>1. \A s \in Bad : IsFiniteSet(s)
    BY <1>1
  <2> HIDE DEF Bad
  <2> QED BY <2>1, LeastSet
<1>3. PICK y \in s : SumOf(F, s) # F[y] + SumOf(F, s \ {y})
  BY <1>2
<1> DEFINE p == Pick(s)
<1>4. p \in s /\ Rest(s) = s \ {p}
  BY RestFacts DEF Rest
<1>5. SumOf(F, s) = F[p] + SumOf(F, s \ {p})
  BY <1>1, <1>2, <1>4, SumSteps
<1>6. p # y
  BY <1>3, <1>5
<1> HIDE DEF p
<1>7. s \ {p} \notin Bad /\ s \ {y} \notin Bad
  BY <1>2, <1>3, <1>4
<1>8. /\ s \ {p} \in SUBSET S /\ s \ {y} \in SUBSET S /\ y \in s \ {p} /\ p \in s \ {y}
      /\ (s \ {p}) \ {y} \in SUBSET S /\ (s \ {p}) \ {y} = (s \ {y}) \ {p}
  BY <1>2, <1>3, <1>4, <1>6
<1>9. SumOf(F, s \ {p}) = F[y] + SumOf(F, (s \ {p}) \ {y})
  BY <1>7, <1>8
<1>10. SumOf(F, s \ {y}) = F[p] + SumOf(F, (s \ {p}) \ {y})
  BY <1>7, <1>8
<1>11. F[p] \in Int /\ F[y] \in Int /\ SumOf(F, (s \ {p}) \ {y}) \in Int
  BY <1>1, <1>2, <1>3, <1>4, <1>8
<1> QED BY <1>3, <1>5, <1>9, <1>10, <1>11

\* A sum over a set is the sum over its image, if no two elements meet there.
LEMMA SumMaps ==
    ASSUME NEW F, NEW G, NEW S, IsFiniteSet(S), NEW f,
           \A x \in S : F[x] \in Int /\ G[f[x]] = F[x],
           \A x, y \in S : f[x] = f[y] => x = y
    PROVE  SumOf(F, S) = SumOf(G, {f[x] : x \in S})
<1> DEFINE Im(s) == {f[x] : x \in s}
           Bad == {s \in SUBSET S : SumOf(F, s) # SumOf(G, Im(s))}
<1> SUFFICES ASSUME Bad # {} PROVE FALSE
  OBVIOUS
<1>1. ASSUME NEW s \in SUBSET S PROVE IsFiniteSet(s) /\ IsFiniteSet(Im(s))
  <2>1. IsFiniteSet(s)
    BY FS_Subset
  <2> DEFINE h == [x \in s |-> f[x]]
  <2>2. h \in Surjection(s, Im(s))
    BY DEF Surjection
  <2> HIDE DEF h, Im
  <2> QED BY <2>1, <2>2, FS_Surjection
<1>2. PICK s \in Bad : \A u \in Bad : u \subseteq s => u = s
  <2>1. \A s \in Bad : IsFiniteSet(s)
    BY <1>1
  <2> HIDE DEF Bad
  <2> QED BY <2>1, LeastSet
<1>3. s # {}
  <2>1. Im({}) = {} /\ IsFiniteSet({})
    BY FS_EmptySet
  <2>2. \A H : SumOf(H, {}) = 0
    BY <2>1, SumSteps
  <2> QED BY <1>2, <2>1, <2>2
<1>4. PICK x \in s : TRUE
  BY <1>3
<1>5. s \ {x} \notin Bad /\ s \ {x} \in SUBSET S
  BY <1>2, <1>4
<1>6. SumOf(F, s \ {x}) = SumOf(G, Im(s \ {x}))
  BY <1>5
<1>7. Im(s \ {x}) = Im(s) \ {f[x]} /\ f[x] \in Im(s)
  BY <1>2, <1>4
<1>8. SumOf(F, s) = F[x] + SumOf(F, s \ {x})
  BY <1>1, <1>2, <1>4, SumTakes
<1>9. \A y \in Im(s) : G[y] \in Int
  BY <1>2
<1>10. SumOf(G, Im(s)) = G[f[x]] + SumOf(G, Im(s) \ {f[x]})
  <2> HIDE DEF Im
  <2> QED BY <1>1, <1>2, <1>7, <1>9, SumTakes
<1> QED BY <1>2, <1>4, <1>6, <1>7, <1>8, <1>10

LEMMA SumOfEmpty == ASSUME NEW F PROVE SumOf(F, {}) = 0
<1>1. IsFiniteSet({})
  BY FS_EmptySet
<1> QED BY <1>1, SumSteps

\* Only what a function is on the set matters.
LEMMA SumAgrees ==
    ASSUME NEW F, NEW G, NEW S, IsFiniteSet(S), \A x \in S : F[x] = G[x]
    PROVE  SumOf(F, S) = SumOf(G, S)
<1> DEFINE Bad == {s \in SUBSET S : SumOf(F, s) # SumOf(G, s)}
<1> SUFFICES ASSUME Bad # {} PROVE FALSE
  OBVIOUS
<1>1. \A s \in Bad : IsFiniteSet(s)
  BY FS_Subset
<1>2. PICK s \in Bad : \A u \in Bad : u \subseteq s => u = s
  <2> HIDE DEF Bad
  <2> QED BY <1>1, LeastSet
<1>3. s # {}
  BY <1>2, SumOfEmpty
<1>4. Rest(s) \subseteq s /\ Rest(s) # s /\ Pick(s) \in s
  BY <1>3, RestFacts
<1>5. SumOf(F, Rest(s)) = SumOf(G, Rest(s)) /\ F[Pick(s)] = G[Pick(s)]
  BY <1>2, <1>4
<1>6. SumOf(F, s) = F[Pick(s)] + SumOf(F, Rest(s)) /\ SumOf(G, s) = G[Pick(s)] + SumOf(G, Rest(s))
  BY <1>1, <1>2, <1>3, SumSteps
<1> QED BY <1>2, <1>5, <1>6

LEMMA SumOfUnion ==
    ASSUME NEW F, NEW A, NEW B, IsFiniteSet(A), IsFiniteSet(B), A \cap B = {}, \A x \in A \cup B : F[x] \in Int
    PROVE  SumOf(F, A \cup B) = SumOf(F, A) + SumOf(F, B)
<1> DEFINE Bad == {s \in SUBSET B : SumOf(F, A \cup s) # SumOf(F, A) + SumOf(F, s)}
<1> SUFFICES ASSUME Bad # {} PROVE FALSE
  OBVIOUS
<1>1. \A s \in SUBSET B : IsFiniteSet(s) /\ IsFiniteSet(A \cup s)
  BY FS_Subset, FS_Union
<1>2. PICK s \in Bad : \A u \in Bad : u \subseteq s => u = s
  <2>1. \A s \in Bad : IsFiniteSet(s)
    BY <1>1
  <2> HIDE DEF Bad
  <2> QED BY <2>1, LeastSet
<1>3. SumOf(F, A) \in Int
  BY SumIsInt
<1>4. s # {}
  <2>1. SumOf(F, {}) = 0 /\ A \cup {} = A
    BY SumOfEmpty
  <2>2. SumOf(F, A \cup {}) = SumOf(F, A) + SumOf(F, {})
    BY <1>3, <2>1
  <2> QED BY <1>2, <2>2
<1>5. PICK x \in s : TRUE
  BY <1>4
<1>6. SumOf(F, A \cup (s \ {x})) = SumOf(F, A) + SumOf(F, s \ {x})
  BY <1>2, <1>5
<1>7. SumOf(F, s) = F[x] + SumOf(F, s \ {x}) /\ SumOf(F, s \ {x}) \in Int
  <2>1. IsFiniteSet(s) /\ IsFiniteSet(s \ {x}) /\ \A y \in s : F[y] \in Int
    BY <1>1, <1>2
  <2> QED BY <1>5, <2>1, SumTakes, SumIsInt
<1>8. SumOf(F, A \cup s) = F[x] + SumOf(F, A \cup (s \ {x}))
  <2>1. (A \cup s) \ {x} = A \cup (s \ {x})
    BY <1>2, <1>5
  <2>2. IsFiniteSet(A \cup s) /\ (\A y \in A \cup s : F[y] \in Int) /\ x \in A \cup s
    BY <1>1, <1>2, <1>5
  <2> HIDE DEF Bad
  <2>3. SumOf(F, A \cup s) = F[x] + SumOf(F, (A \cup s) \ {x})
    BY <2>2, SumTakes
  <2> QED BY <2>1, <2>3
<1>9. F[x] \in Int
  BY <1>2, <1>5
<1> QED BY <1>2, <1>3, <1>6, <1>7, <1>8, <1>9

\* A sum may be taken class by class: f tells the class of an element.
LEMMA SumByClass ==
    ASSUME NEW F, NEW S, IsFiniteSet(S), NEW f, NEW G, NEW K, IsFiniteSet(K),
           \A x \in S : F[x] \in Int /\ f[x] \in K,
           \A k \in K : G[k] = SumOf(F, {x \in S : f[x] = k})
    PROVE  SumOf(F, S) = SumOf(G, K)
<1> DEFINE Of(T) == {x \in S : f[x] \in T}
           Bad == {T \in SUBSET K : SumOf(F, Of(T)) # SumOf(G, T)}
<1> SUFFICES ASSUME Bad # {} PROVE FALSE
  <2>1. K \notin Bad /\ Of(K) = S
    OBVIOUS
  <2> QED BY <2>1
<1>1. \A T : IsFiniteSet(Of(T))
  BY FS_Subset
<1>2. \A T \in SUBSET K : IsFiniteSet(T)
  BY FS_Subset
<1>3. PICK T \in Bad : \A U \in Bad : U \subseteq T => U = T
  <2>1. \A T \in Bad : IsFiniteSet(T)
    BY <1>2
  <2> HIDE DEF Bad
  <2> QED BY <2>1, LeastSet
<1>4. T # {}
  <2>1. Of({}) = {} /\ SumOf(F, {}) = 0 /\ SumOf(G, {}) = 0
    BY SumOfEmpty
  <2> QED BY <1>3, <2>1
<1>5. PICK k \in T : TRUE
  BY <1>4
<1>6. SumOf(F, Of(T \ {k})) = SumOf(G, T \ {k})
  BY <1>3, <1>5
<1>7. \A j \in K : G[j] \in Int
  <2> SUFFICES ASSUME NEW j \in K PROVE G[j] \in Int
    OBVIOUS
  <2>1. IsFiniteSet({x \in S : f[x] = j}) /\ \A x \in {y \in S : f[y] = j} : F[x] \in Int
    BY FS_Subset
  <2> QED BY <2>1, SumIsInt
<1>8. SumOf(G, T) = G[k] + SumOf(G, T \ {k})
  <2>1. IsFiniteSet(T) /\ \A j \in T : G[j] \in Int
    BY <1>2, <1>3, <1>7
  <2> QED BY <1>5, <2>1, SumTakes
<1>9. SumOf(F, Of(T)) = SumOf(F, Of({k})) + SumOf(F, Of(T \ {k}))
  <2>1. Of(T) = Of({k}) \cup Of(T \ {k}) /\ Of({k}) \cap Of(T \ {k}) = {}
    BY <1>5
  <2>2. \A x \in Of({k}) \cup Of(T \ {k}) : F[x] \in Int
    OBVIOUS
  <2> HIDE DEF Of
  <2>3. SumOf(F, Of({k}) \cup Of(T \ {k})) = SumOf(F, Of({k})) + SumOf(F, Of(T \ {k}))
    BY <1>1, <2>1, <2>2, SumOfUnion
  <2> QED BY <2>1, <2>3
<1>10. SumOf(F, Of({k})) = G[k]
  <2>1. Of({k}) = {x \in S : f[x] = k} /\ k \in K
    BY <1>3, <1>5
  <2> HIDE DEF Of
  <2> QED BY <2>1
<1> QED BY <1>3, <1>6, <1>8, <1>9, <1>10

\* What adds nothing may be left out.
LEMMA SumWithoutZeros ==
    ASSUME NEW F, NEW S, IsFiniteSet(S), \A x \in S : F[x] \in Int
    PROVE  SumOf(F, S) = SumOf(F, {x \in S : F[x] # 0})
<1> DEFINE Zeros == {x \in S : F[x] = 0}
           Held == {x \in S : F[x] # 0}
           Bad == {s \in SUBSET Zeros : SumOf(F, s) # 0}
<1>1. IsFiniteSet(Zeros) /\ IsFiniteSet(Held) /\ Held \cup Zeros = S /\ Held \cap Zeros = {}
  BY FS_Subset
<1>2. Bad = {}
  <2> SUFFICES ASSUME Bad # {} PROVE FALSE
    OBVIOUS
  <2>1. \A s \in Bad : IsFiniteSet(s)
    BY <1>1, FS_Subset
  <2>2. PICK s \in Bad : \A u \in Bad : u \subseteq s => u = s
    <3> HIDE DEF Bad
    <3> QED BY <2>1, LeastSet
  <2>3. s # {}
    BY <2>2, SumOfEmpty
  <2>4. Rest(s) \subseteq s /\ Rest(s) # s /\ Pick(s) \in s
    BY <2>3, RestFacts
  <2>5. SumOf(F, Rest(s)) = 0 /\ F[Pick(s)] = 0
    BY <2>2, <2>4
  <2>6. SumOf(F, s) = F[Pick(s)] + SumOf(F, Rest(s))
    BY <2>1, <2>2, <2>3, SumSteps
  <2> QED BY <2>2, <2>5, <2>6
<1>3. SumOf(F, Zeros) = 0
  BY <1>2
<1>4. SumOf(F, Held \cup Zeros) = SumOf(F, Held) + SumOf(F, Zeros)
  <2>1. \A x \in Held \cup Zeros : F[x] \in Int
    OBVIOUS
  <2> HIDE DEF Held, Zeros
  <2> QED BY <1>1, <2>1, SumOfUnion
<1>5. SumOf(F, Held) \in Int
  <2>1. \A x \in Held : F[x] \in Int
    OBVIOUS
  <2> HIDE DEF Held
  <2> QED BY <1>1, <2>1, SumIsInt
<1> HIDE DEF Zeros
<1>6. SumOf(F, S) = SumOf(F, Held)
  <2> HIDE DEF Held
  <2> QED BY <1>1, <1>3, <1>4, <1>5
<1> QED BY <1>6

-----------------------------------------------------------------------------
(* The snapshot of Best Invest: a complete one is of policies that are     *)
(* fine, and leaving out the rows without money loses none.                *)

LEMMA ParserSum == ASSUME NEW f PROVE Parser!SumFunction(f) = SumOf(f, DOMAIN f)
<1> DEFINE Sums(h) == [s \in SUBSET DOMAIN f |-> IF s = {} THEN 0
                          ELSE f[CHOOSE x \in s : TRUE] + h[s \ {CHOOSE x \in s : TRUE}]]
           c == CHOOSE g : g = Sums(g)
<1>1. Parser!SumFunction(f) = c[DOMAIN f]
  BY DEF Parser!SumFunction, Parser!SumFunctionOnSet, Parser!FoldFunctionOnSet, Parser!MapThenFoldSet
<1>2. \A h : Adds(h, f, DOMAIN f) <=> h = Sums(h)
  BY DEF Adds, Pick, Rest
<1> HIDE DEF Sums
<1>3. c = CHOOSE g : Adds(g, f, DOMAIN f)
  BY <1>2
<1> HIDE DEF c
<1> QED BY <1>1, <1>3 DEF SumOf

\* What a policy must be for the snapshot to stay complete.
Fine(d) ==
    /\ d.id # Missing /\ d.name /\ (d.expected # Missing => d.id = d.expected)
    /\ d.savings # Missing /\ ~Parser!Unreconciled(d) /\ ~Parser!Unsummed(d) /\ ~Parser!TwiceListed(d)

\* The product of a fine policy is what CompleteIsReconciled says of it.
Reconciled(p, d) ==
    /\ d.expected # Missing => p.id = d.expected
    /\ p.amount = d.savings /\ Parser!SumOf(p.tracks) = p.amount
    /\ DOMAIN p.tracks = Parser!Held(d)
    /\ \A k \in DOMAIN p.tracks : p.tracks[k].code # Missing /\ p.tracks[k].amount > 0
    /\ \A k, l \in DOMAIN p.tracks : p.tracks[k].code = p.tracks[l].code => k = l
    /\ p.report # Missing => p.report = Parser!SumOf(d.deposits.rows)

\* The tracks add up to what the rows do.
LEMMA TracksKeepTheSum ==
    ASSUME NEW d \in Parser!Policy, \A i \in DOMAIN d.rows : d.rows[i].amount \in Int
    PROVE  Parser!SumOf(Parser!TracksOf(d)) = Parser!SumOf(d.rows)
<1> DEFINE F == [i \in DOMAIN d.rows |-> d.rows[i].amount]
           T == Parser!TracksOf(d)
           G == [i \in DOMAIN T |-> T[i].amount]
<1>1. DOMAIN T = Parser!Held(d) /\ \A i \in Parser!Held(d) : T[i].amount = d.rows[i].amount
  BY DEF Parser!TracksOf
<1>2. DOMAIN F = DOMAIN d.rows /\ DOMAIN G = Parser!Held(d) /\ \A i \in DOMAIN d.rows : F[i] = d.rows[i].amount
  BY <1>1
<1>3. Parser!Held(d) = {i \in DOMAIN F : F[i] # 0}
  BY <1>2 DEF Parser!Held
<1>4. IsFiniteSet(DOMAIN F)
  <2>1. d.rows \in Seq([amount : Parser!Amounts, route : STRING])
    BY DEF Parser!Policy
  <2>2. DOMAIN d.rows = 1..Len(d.rows) /\ Len(d.rows) \in Nat
    BY <2>1, LenProperties
  <2> QED BY <1>2, <2>2, FS_Interval
<1>5. \A i \in Parser!Held(d) : G[i] = F[i]
  BY <1>1, <1>2, <1>3
<1>6. Parser!SumOf(T) = SumOf(G, DOMAIN G) /\ Parser!SumOf(d.rows) = SumOf(F, DOMAIN F)
  BY ParserSum DEF Parser!SumOf
<1>7. \A i \in DOMAIN F : F[i] \in Int
  BY <1>2
<1>8. IsFiniteSet(Parser!Held(d))
  BY <1>3, <1>4, FS_Subset
<1> HIDE DEF F, T, G
<1>9. SumOf(F, DOMAIN F) = SumOf(F, Parser!Held(d))
  BY <1>3, <1>4, <1>7, SumWithoutZeros
<1>10. SumOf(G, Parser!Held(d)) = SumOf(F, Parser!Held(d))
  BY <1>5, <1>8, SumAgrees
<1> QED BY <1>2, <1>6, <1>9, <1>10 DEF T

LEMMA FineIsReconciled ==
    ASSUME NEW d \in Parser!Policy, Fine(d)
    PROVE  Reconciled(Parser!Product(d), d)
<1> DEFINE p == Parser!Product(d)
<1>1. /\ p.id = d.id /\ p.amount = d.savings /\ p.tracks = Parser!TracksOf(d)
      /\ p.report # Missing => p.report = Parser!SumOf(d.deposits.rows)
  BY DEF Fine, Parser!Product
<1>2. \A i \in DOMAIN d.rows : d.rows[i].amount \in Int /\ d.rows[i].amount >= 0 /\ ~Parser!Unjoined(d.rows[i], d)
  <2>1. d.rows \in Seq([amount : Parser!Amounts, route : STRING])
    BY DEF Parser!Policy
  <2>2. ASSUME NEW i \in DOMAIN d.rows PROVE d.rows[i].amount \in Parser!Amounts
    <3>1. d.rows[i] \in [amount : Parser!Amounts, route : STRING]
      BY <2>1, ElementOfSeq, LenProperties
    <3> QED BY <3>1
  <2>3. \A i \in DOMAIN d.rows : ~Parser!Stops(d.rows[i], d)
    BY DEF Fine, Parser!Unreconciled, Parser!AllRead
  <2> QED BY <2>2, <2>3 DEF Parser!Stops, Parser!Amounts
<1>3. /\ DOMAIN p.tracks = Parser!Held(d)
      /\ \A k \in Parser!Held(d) : /\ k \in DOMAIN d.rows /\ d.rows[k].amount # 0
                                   /\ p.tracks[k].amount = d.rows[k].amount
                                   /\ p.tracks[k].code = Parser!Code(d.rows[k], d)
  BY <1>1 DEF Parser!TracksOf, Parser!Held
<1>4. \A k \in DOMAIN p.tracks : p.tracks[k].code # Missing /\ p.tracks[k].amount > 0
  BY <1>2, <1>3 DEF Parser!Unjoined
<1>5. \A k, l \in DOMAIN p.tracks : p.tracks[k].code = p.tracks[l].code => k = l
  BY <1>3 DEF Fine, Parser!TwiceListed
<1>6. Parser!SumOf(p.tracks) = p.amount
  BY <1>1, <1>2, TracksKeepTheSum DEF Fine, Parser!Unreconciled
<1> HIDE DEF p
<1>7. d.expected # Missing => p.id = d.expected
  BY <1>1 DEF Fine
<1>8. Reconciled(p, d)
  BY <1>1, <1>3, <1>4, <1>5, <1>6, <1>7 DEF Reconciled
<1> QED BY <1>8 DEF p

ParserInv ==
    /\ captures \in Seq(Parser!Policy) /\ next \in 1..(Len(captures) + 1)
    /\ snapshot \in [complete : BOOLEAN, invalid : BOOLEAN, products : Seq({Parser!Product(d) : d \in Parser!Policy})]
    /\ Len(snapshot.products) < next
    /\ \A i, j \in 1..Len(snapshot.products) : snapshot.products[i].id = snapshot.products[j].id => i = j
    /\ snapshot.complete => captures # <<>>
    /\ snapshot.complete /\ ~snapshot.invalid =>
          /\ Len(snapshot.products) = next - 1
          /\ \A i \in 1..(next - 1) : snapshot.products[i] = Parser!Product(captures[i]) /\ Fine(captures[i])

LEMMA InitParser == Parser!Init => ParserInv
<1> SUFFICES ASSUME Parser!Init PROVE ParserInv
  OBVIOUS
<1>1. captures \in Seq(Parser!Policy) /\ Len(captures) \in Nat /\ next = 1
  BY InputsAssumption, LenProperties DEF Parser!Init
<1>2. /\ snapshot.products = <<>> /\ (snapshot.complete <=> captures # <<>>)
      /\ snapshot \in [complete : BOOLEAN, invalid : BOOLEAN, products : Seq({Parser!Product(d) : d \in Parser!Policy})]
  <2> DEFINE some == captures # <<>>
  <2>1. snapshot = [complete |-> some, invalid |-> FALSE, products |-> <<>>] /\ some \in BOOLEAN
    BY DEF Parser!Init
  <2>2. (some <=> captures # <<>>) /\ \A S : <<>> \in Seq(S)
    OBVIOUS
  <2> HIDE DEF some
  <2> QED BY <2>1, <2>2
<1>3. Len(snapshot.products) = 0 /\ 1..0 = {}
  BY <1>2
<1> QED BY <1>1, <1>2, <1>3 DEF ParserInv

LEMMA ParserStep ==
    ASSUME ParserInv, Parser!Next
    PROVE  ParserInv'
<1> DEFINE d == captures[next]
           Products == {Parser!Product(e) : e \in Parser!Policy}
           s == snapshot.products
<1>1. /\ next \in 1..Len(captures) /\ ~snapshot.invalid /\ captures' = captures /\ next' = next + 1
      /\ snapshot' = Parser!With(snapshot, d) /\ Len(captures) \in Nat /\ d \in Parser!Policy
  BY LenProperties DEF ParserInv, Parser!Next, Parser!AddPolicy
<1>2. next' \in 1..(Len(captures') + 1)
  BY <1>1
<1>3. s \in Seq(Products) /\ Len(s) \in Nat /\ Len(s) < next
  BY LenProperties DEF ParserInv
<1> HIDE DEF d
<1>4. ASSUME snapshot' = [snapshot EXCEPT !.complete = FALSE] \/ snapshot' = [snapshot EXCEPT !.invalid = TRUE]
      PROVE  ParserInv'
  <2>1. /\ snapshot'.products = s /\ ~(snapshot'.complete /\ ~snapshot'.invalid)
        /\ snapshot'.complete => snapshot.complete
        /\ snapshot' \in [complete : BOOLEAN, invalid : BOOLEAN, products : Seq(Products)]
    BY <1>4 DEF ParserInv
  <2> QED BY <1>1, <1>2, <1>3, <2>1 DEF ParserInv
<1>5. ASSUME ~(d.id = Missing \/ ~d.name), ~Parser!Bad(snapshot, d), snapshot' = Parser!Added(snapshot, d)
      PROVE  ParserInv'
  <2> DEFINE p == Parser!Product(d)
             added == [snapshot EXCEPT !.products = Append(@, p)]
             spoilt == d.savings = Missing \/ Parser!Unreconciled(d) \/ Parser!Unsummed(d)
  <2>1. snapshot' = IF spoilt THEN [added EXCEPT !.complete = FALSE] ELSE added
    BY <1>5 DEF Parser!Added, Parser!Incomplete
  <2>2. p \in Products
    BY <1>1
  <2>3. Append(s, p) \in Seq(Products) /\ Len(Append(s, p)) = Len(s) + 1
        /\ (\A i \in 1..Len(s) : Append(s, p)[i] = s[i]) /\ Append(s, p)[Len(s) + 1] = p
    <3> HIDE DEF p, s, Products
    <3> QED BY <1>3, <2>2, AppendProperties
  <2>4. snapshot \in [complete : BOOLEAN, invalid : BOOLEAN, products : Seq(Products)]
    BY DEF ParserInv
  <2>5. /\ snapshot'.products = Append(s, p) /\ snapshot'.invalid = snapshot.invalid
        /\ snapshot'.complete = (snapshot.complete /\ ~spoilt)
        /\ snapshot' \in [complete : BOOLEAN, invalid : BOOLEAN, products : Seq(Products)]
    <3> HIDE DEF p, Products, spoilt
    <3> QED BY <2>1, <2>3, <2>4
  <2>6. p.id = d.id /\ \A i \in 1..Len(s) : s[i].id # d.id
    <3>1. DOMAIN s = 1..Len(s)
      BY <1>3, LenProperties
    <3> QED BY <1>5, <3>1 DEF Parser!Bad, Parser!Product
  <2>7. \A i, j \in 1..Len(snapshot'.products) : snapshot'.products[i].id = snapshot'.products[j].id => i = j
    <3> SUFFICES ASSUME NEW i \in 1..(Len(s) + 1), NEW j \in 1..(Len(s) + 1),
                        Append(s, p)[i].id = Append(s, p)[j].id
                 PROVE  i = j
      BY <2>3, <2>5
    <3> HIDE DEF p
    <3>1. \A k \in 1..(Len(s) + 1) : k \in 1..Len(s) \/ k = Len(s) + 1
      BY <1>3
    <3> QED BY <2>3, <2>6, <3>1 DEF ParserInv
  <2>8. ASSUME snapshot'.complete, ~snapshot'.invalid
        PROVE  /\ Len(snapshot'.products) = next' - 1
               /\ \A i \in 1..(next' - 1) : snapshot'.products[i] = Parser!Product(captures'[i]) /\ Fine(captures'[i])
    <3>1. snapshot.complete /\ ~snapshot.invalid /\ ~spoilt
      BY <2>5, <2>8
    <3>2. Len(s) = next - 1 /\ \A i \in 1..(next - 1) : s[i] = Parser!Product(captures[i]) /\ Fine(captures[i])
      BY <3>1 DEF ParserInv
    <3>3. d.id # Missing /\ d.name /\ (d.expected # Missing => d.id = d.expected) /\ ~Parser!BadTracks(d)
      BY <1>5, <3>1 DEF Parser!Bad
    <3>4. ~Parser!TwiceListed(d)
      BY <3>1, <3>3 DEF Parser!BadTracks, Parser!Unreconciled
    <3>5. Fine(d)
      BY <3>1, <3>3, <3>4 DEF Fine
    <3>6. \A i \in 1..next : Append(s, p)[i] = Parser!Product(captures[i]) /\ Fine(captures[i])
      <4>1. \A i \in 1..next : i \in 1..(next - 1) \/ i = next
        BY <1>1
      <4>2. next = Len(s) + 1
        BY <1>1, <3>2
      <4>3. \A i \in 1..(next - 1) : Append(s, p)[i] = s[i]
        BY <2>3, <3>2
      <4>4. Append(s, p)[next] = Parser!Product(captures[next]) /\ Fine(captures[next])
        BY <2>3, <3>5, <4>2 DEF d
      <4> QED BY <3>2, <4>1, <4>3, <4>4
    <3> HIDE DEF p, s
    <3>7. next' - 1 = next /\ Len(Append(s, p)) = next
      BY <1>1, <2>3, <3>2
    <3> QED BY <1>1, <2>5, <3>6, <3>7
  <2>9. Len(snapshot'.products) < next' /\ (snapshot'.complete => captures' # <<>>)
    <3>1. snapshot.complete => captures # <<>>
      BY DEF ParserInv
    <3> HIDE DEF p, s
    <3> QED BY <1>1, <1>3, <2>3, <2>5, <3>1
  <2>10. captures' \in Seq(Parser!Policy)
    BY <1>1 DEF ParserInv
  <2> HIDE DEF p, s, added, spoilt
  <2> QED BY <1>2, <2>5, <2>7, <2>8, <2>9, <2>10 DEF ParserInv
<1> QED BY <1>1, <1>4, <1>5 DEF Parser!With, Parser!Incomplete, Parser!Invalid

LEMMA ParserKept ==
    ASSUME ParserInv
    PROVE  Parser!TypeOK /\ Parser!CompleteIsReconciled
<1>1. Parser!TypeOK
  BY DEF ParserInv, Parser!TypeOK
<1>2. ASSUME Parser!Done, snapshot.complete
      PROVE  /\ captures # <<>> /\ DOMAIN snapshot.products = DOMAIN captures
             /\ \A i, j \in DOMAIN captures : snapshot.products[i].id = snapshot.products[j].id => i = j
             /\ \A i \in DOMAIN captures : Reconciled(snapshot.products[i], captures[i])
  <2>1. DOMAIN captures = 1..Len(captures) /\ Len(captures) \in Nat
        /\ DOMAIN snapshot.products = 1..Len(snapshot.products)
    BY LenProperties DEF ParserInv
  <2>2. next - 1 = Len(captures) /\ ~snapshot.invalid
    BY <1>2, <2>1 DEF ParserInv, Parser!Done
  <2>3. Len(snapshot.products) = Len(captures)
    BY <1>2, <2>2 DEF ParserInv
  <2>4. ASSUME NEW i \in DOMAIN captures PROVE Reconciled(snapshot.products[i], captures[i])
    <3>1. snapshot.products[i] = Parser!Product(captures[i]) /\ Fine(captures[i]) /\ captures[i] \in Parser!Policy
      BY <1>2, <2>1, <2>2, <2>4 DEF ParserInv
    <3> QED BY <3>1, FineIsReconciled
  <2> QED BY <1>2, <2>1, <2>3, <2>4 DEF ParserInv
<1>3. Parser!CompleteIsReconciled
  BY <1>2 DEF Parser!CompleteIsReconciled, Reconciled
<1> QED BY <1>1, <1>3

-----------------------------------------------------------------------------
(* The history of Clal: taken group by group or block by block, the rows   *)
(* add up to the same; and reports only add valuations.                    *)

LEMMA HistorySum == ASSUME NEW f PROVE History!SumFunction(f) = SumOf(f, DOMAIN f)
<1> DEFINE Sums(h) == [s \in SUBSET DOMAIN f |-> IF s = {} THEN 0
                          ELSE f[CHOOSE x \in s : TRUE] + h[s \ {CHOOSE x \in s : TRUE}]]
           c == CHOOSE g : g = Sums(g)
<1>1. History!SumFunction(f) = c[DOMAIN f]
  BY DEF History!SumFunction, History!SumFunctionOnSet, History!FoldFunctionOnSet, History!MapThenFoldSet
<1>2. \A h : Adds(h, f, DOMAIN f) <=> h = Sums(h)
  BY DEF Adds, Pick, Rest
<1> HIDE DEF Sums
<1>3. c = CHOOSE g : Adds(g, f, DOMAIN f)
  BY <1>2
<1> HIDE DEF c
<1> QED BY <1>1, <1>3 DEF SumOf

LEMMA FiniteImage ==
    ASSUME NEW S, IsFiniteSet(S), NEW f
    PROVE  IsFiniteSet({f[x] : x \in S})
<1> DEFINE Im == {f[x] : x \in S}
           h == [x \in S |-> f[x]]
<1>1. h \in Surjection(S, Im)
  BY DEF Surjection
<1> HIDE DEF h, Im
<1>2. IsFiniteSet(Im)
  BY <1>1, FS_Surjection
<1> QED BY <1>2 DEF Im

BlocksTyped ==
    blocks \in Seq([year : Nat, total : Int,
                    rows : Seq([who : STRING, booked : Nat, month : Nat, amount : Int])])

\* The amounts of the deposit rows, by their place.
RowSum == [at \in History!AllRows |-> History!RowAt(at).amount]

LEMMA RowFacts ==
    ASSUME BlocksTyped
    PROVE  /\ IsFiniteSet(DOMAIN blocks) /\ IsFiniteSet(History!AllRows)
           /\ \A i \in DOMAIN blocks : /\ blocks[i].total \in Int /\ IsFiniteSet(History!Deposited(blocks[i]))
                                       /\ \A j \in History!Deposited(blocks[i]) : blocks[i].rows[j].amount \in Int
           /\ \A at : at \in History!AllRows <=>
                 \E i \in DOMAIN blocks : \E j \in History!Deposited(blocks[i]) : at = <<i, j>>
           /\ \A i \in DOMAIN blocks : \A j \in History!Deposited(blocks[i]) :
                 <<i, j>> \in History!AllRows /\ RowSum[<<i, j>>] = blocks[i].rows[j].amount
           /\ \A at \in History!AllRows : RowSum[at] = History!RowAt(at).amount /\ RowSum[at] \in Int
<1> DEFINE DepositRow == [who : STRING, booked : Nat, month : Nat, amount : Int]
           YearBlock == [year : Nat, total : Int, rows : Seq(DepositRow)]
<1>1. DOMAIN blocks = 1..Len(blocks) /\ Len(blocks) \in Nat /\ IsFiniteSet(DOMAIN blocks)
  BY LenProperties, FS_Interval DEF BlocksTyped
<1>2. \A i \in DOMAIN blocks : blocks[i] \in YearBlock
  BY <1>1, ElementOfSeq DEF BlocksTyped
<1>3. ASSUME NEW i \in DOMAIN blocks
      PROVE  /\ blocks[i].total \in Int /\ IsFiniteSet(History!Deposited(blocks[i]))
             /\ \A j \in History!Deposited(blocks[i]) : blocks[i].rows[j].amount \in Int
  <2>1. blocks[i].total \in Int /\ blocks[i].rows \in Seq(DepositRow)
    BY <1>2, <1>3
  <2>2. DOMAIN blocks[i].rows = 1..Len(blocks[i].rows) /\ Len(blocks[i].rows) \in Nat
        /\ IsFiniteSet(DOMAIN blocks[i].rows)
    <3> HIDE DEF DepositRow
    <3> QED BY <2>1, LenProperties, FS_Interval
  <2>3. \A j \in DOMAIN blocks[i].rows : blocks[i].rows[j] \in DepositRow
    <3> HIDE DEF DepositRow
    <3> QED BY <2>1, <2>2, ElementOfSeq
  <2>4. History!Deposited(blocks[i]) \subseteq DOMAIN blocks[i].rows
    BY DEF History!Deposited
  <2> QED BY <2>1, <2>2, <2>3, <2>4, FS_Subset
<1>4. \A at : at \in History!AllRows <=>
                 \E i \in DOMAIN blocks : \E j \in History!Deposited(blocks[i]) : at = <<i, j>>
  BY DEF History!AllRows
<1>5. IsFiniteSet(History!AllRows)
  <2> DEFINE f == [i \in DOMAIN blocks |-> {<<i, j>> : j \in History!Deposited(blocks[i])}]
  <2>1. IsFiniteSet({f[i] : i \in DOMAIN blocks})
    <3> HIDE DEF f
    <3> QED BY <1>1, FiniteImage
  <2>2. ASSUME NEW i \in DOMAIN blocks PROVE IsFiniteSet(f[i])
    <3> DEFINE D == History!Deposited(blocks[i])
               h == [j \in D |-> <<i, j>>]
    <3>1. f[i] = {h[j] : j \in D}
      OBVIOUS
    <3>2. IsFiniteSet(D)
      BY <1>3
    <3> HIDE DEF h, f, D
    <3> QED BY <3>1, <3>2, FiniteImage
  <2>3. History!AllRows = UNION {f[i] : i \in DOMAIN blocks}
    BY DEF History!AllRows
  <2> HIDE DEF f
  <2> QED BY <2>1, <2>2, <2>3, FS_UNION
<1>6. \A i \in DOMAIN blocks : \A j \in History!Deposited(blocks[i]) :
                 <<i, j>> \in History!AllRows /\ RowSum[<<i, j>>] = blocks[i].rows[j].amount
  BY <1>4 DEF RowSum, History!RowAt
<1>7. \A at \in History!AllRows : RowSum[at] = History!RowAt(at).amount /\ RowSum[at] \in Int
  <2>1. \A at \in History!AllRows : RowSum[at] = History!RowAt(at).amount
    BY DEF RowSum
  <2>2. \A at \in History!AllRows : RowSum[at] \in Int
    BY <1>3, <1>4, <1>6
  <2> QED BY <2>1, <2>2
<1> QED BY <1>1, <1>3, <1>4, <1>5, <1>6, <1>7

\* The rows of all blocks add up to the blocks' totals.
LEMMA RowsOfBlocks ==
    ASSUME BlocksTyped, ~History!BadHistory, NEW totals, totals = [i \in DOMAIN blocks |-> blocks[i].total]
    PROVE  SumOf(RowSum, History!AllRows) = SumOf(totals, DOMAIN blocks)
<1> DEFINE f == [at \in History!AllRows |-> at[1]]
<1>1. ASSUME NEW i \in DOMAIN blocks
      PROVE  totals[i] = SumOf(RowSum, {at \in History!AllRows : f[at] = i})
  <2> DEFINE D == History!Deposited(blocks[i])
             H == [j \in D |-> blocks[i].rows[j].amount]
             place == [j \in D |-> <<i, j>>]
  <2>1. totals[i] = History!SumFunction(H)
    BY DEF History!BadHistory, History!BadBlock
  <2>2. DOMAIN H = D
    OBVIOUS
  <2>3. IsFiniteSet(D) /\ \A j \in D : H[j] \in Int /\ RowSum[place[j]] = H[j]
    BY RowFacts
  <2>4. \A j, k \in D : place[j] = place[k] => j = k
    OBVIOUS
  <2>5. {place[j] : j \in D} = {at \in History!AllRows : f[at] = i}
    <3>1. {place[j] : j \in D} = {<<i, j>> : j \in D}
      OBVIOUS
    <3>2. \A at \in History!AllRows : f[at] = at[1]
      OBVIOUS
    <3> HIDE DEF f, place
    <3>3. ASSUME NEW at \in History!AllRows, at[1] = i PROVE at \in {<<i, j>> : j \in D}
      <4>1. PICK k \in DOMAIN blocks : \E j \in History!Deposited(blocks[k]) : at = <<k, j>>
        BY RowFacts
      <4> QED BY <3>3, <4>1
    <3>4. ASSUME NEW j \in D PROVE <<i, j>> \in History!AllRows /\ <<i, j>>[1] = i
      BY RowFacts
    <3> QED BY <3>1, <3>2, <3>3, <3>4
  <2> HIDE DEF H, D, place, f
  <2>6. SumOf(H, D) = SumOf(RowSum, {place[j] : j \in D})
    BY <2>3, <2>4, SumMaps
  <2> QED BY <2>1, <2>2, <2>5, <2>6, HistorySum
<1>2. \A at \in History!AllRows : RowSum[at] \in Int /\ f[at] \in DOMAIN blocks
  BY RowFacts
<1>3. IsFiniteSet(DOMAIN blocks) /\ IsFiniteSet(History!AllRows)
  BY RowFacts
<1> HIDE DEF f
<1> QED BY <1>1, <1>2, <1>3, SumByClass

\* What a group amounts to, by its id.
GroupIds == {History!GroupOf(History!RowAt(at)) : at \in History!AllRows}
GroupSum == [g \in GroupIds |-> SumOf(RowSum, {at \in History!AllRows : History!GroupOf(History!RowAt(at)) = g})]

LEMMA GroupFacts ==
    ASSUME BlocksTyped
    PROVE  /\ History!Groups = {[id |-> g, amount |-> GroupSum[g]] : g \in GroupIds}
           /\ \A g \in GroupIds : GroupSum[g] \in Int
           /\ SumOf(RowSum, History!AllRows) = SumOf(GroupSum, GroupIds)
           /\ IsFiniteSet(GroupIds)
<1> DEFINE f == [at \in History!AllRows |-> History!GroupOf(History!RowAt(at))]
           Of(g) == {at \in History!AllRows : History!GroupOf(History!RowAt(at)) = g}
           H(g) == [at \in Of(g) |-> History!RowAt(at).amount]
<1>1. IsFiniteSet(History!AllRows) /\ \A at \in History!AllRows : RowSum[at] \in Int
  BY RowFacts
<1>2. ASSUME NEW g PROVE IsFiniteSet(Of(g)) /\ History!SumFunction(H(g)) = SumOf(RowSum, Of(g))
                         /\ SumOf(RowSum, Of(g)) \in Int
  <2>1. IsFiniteSet(Of(g)) /\ DOMAIN H(g) = Of(g)
    BY <1>1, FS_Subset
  <2>2. \A at \in Of(g) : H(g)[at] = RowSum[at] /\ RowSum[at] \in Int
    BY RowFacts
  <2> HIDE DEF H, Of
  <2>3. SumOf(H(g), Of(g)) = SumOf(RowSum, Of(g))
    BY <2>1, <2>2, SumAgrees
  <2> QED BY <2>1, <2>2, <2>3, SumIsInt, HistorySum
<1>3. \A g \in GroupIds : GroupSum[g] = SumOf(RowSum, Of(g))
  BY DEF GroupSum
<1>4. History!Groups = {[id |-> g, amount |-> GroupSum[g]] : g \in GroupIds}
  <2>1. History!Groups = {[id |-> g, amount |-> History!SumFunction(H(g))] : g \in GroupIds}
    BY DEF History!Groups, GroupIds
  <2>2. \A g \in GroupIds : History!SumFunction(H(g)) = GroupSum[g]
    <3> HIDE DEF H, Of
    <3> QED BY <1>2, <1>3
  <2> HIDE DEF H
  <2> QED BY <2>1, <2>2
<1>5. \A g \in GroupIds : GroupSum[g] \in Int
  <2> HIDE DEF H, Of
  <2> QED BY <1>2, <1>3
<1>6. IsFiniteSet(GroupIds)
  <2>1. GroupIds = {f[at] : at \in History!AllRows}
    BY DEF GroupIds
  <2> HIDE DEF f
  <2> QED BY <1>1, <2>1, FiniteImage
<1>7. SumOf(RowSum, History!AllRows) = SumOf(GroupSum, GroupIds)
  <2>1. \A at \in History!AllRows : RowSum[at] \in Int /\ f[at] \in GroupIds
    BY <1>1 DEF GroupIds
  <2>2. \A g \in GroupIds : GroupSum[g] = SumOf(RowSum, {at \in History!AllRows : f[at] = g})
    <3>1. \A g : {at \in History!AllRows : f[at] = g} = Of(g)
      OBVIOUS
    <3> HIDE DEF f, Of
    <3> QED BY <1>3, <3>1
  <2>3. IsFiniteSet(History!AllRows)
    BY <1>1
  <2> HIDE DEF f, Of, H
  <2> DEFINE K == GroupIds  G == GroupSum  F == RowSum  S == History!AllRows
  <2>4. /\ IsFiniteSet(K) /\ IsFiniteSet(S) /\ \A x \in S : F[x] \in Int /\ f[x] \in K
        /\ \A k \in K : G[k] = SumOf(F, {x \in S : f[x] = k})
    BY <1>6, <2>1, <2>2, <2>3
  <2> HIDE DEF K, G, F, S
  <2>5. SumOf(F, S) = SumOf(G, K)
    BY <2>4, SumByClass
  <2> QED BY <2>5 DEF K, G, F, S
<1> QED BY <1>4, <1>5, <1>6, <1>7

\* The groups add up to what the provider says of all years.
LEMMA GroupsAddUp ==
    ASSUME BlocksTyped, ~History!BadHistory
    PROVE  History!SumFunction([g \in History!Groups |-> g.amount])
               = History!SumFunction([i \in DOMAIN blocks |-> blocks[i].total])
<1> DEFINE group == [g \in GroupIds |-> [id |-> g, amount |-> GroupSum[g]]]
           amount == [g \in History!Groups |-> g.amount]
           totals == [i \in DOMAIN blocks |-> blocks[i].total]
<1>1. DOMAIN amount = History!Groups /\ DOMAIN totals = DOMAIN blocks
  OBVIOUS
<1>2. History!Groups = {group[g] : g \in GroupIds}
  BY GroupFacts
<1>3. \A g \in GroupIds : GroupSum[g] \in Int /\ amount[group[g]] = GroupSum[g]
  BY <1>2, GroupFacts
<1>4. \A g, h \in GroupIds : group[g] = group[h] => g = h
  OBVIOUS
<1> HIDE DEF group, amount
<1>5. SumOf(GroupSum, GroupIds) = SumOf(amount, {group[g] : g \in GroupIds})
  BY <1>3, <1>4, GroupFacts, SumMaps
<1>6. SumOf(RowSum, History!AllRows) = SumOf(totals, DOMAIN blocks)
  BY RowsOfBlocks
<1> HIDE DEF totals
<1>7. History!SumFunction(amount) = History!SumFunction(totals)
  BY <1>1, <1>2, <1>5, <1>6, GroupFacts, HistorySum
<1> QED BY <1>7 DEF amount, totals

HistoryInv ==
    /\ BlocksTyped
    /\ \/ result = History!NoResult
       \/ result = [stage |-> "done",
                    invalid |-> History!BadHistory \/ \E v, w \in History!Candidates :
                                                          v.date = w.date /\ v.amount # w.amount,
                    groups |-> IF History!BadHistory THEN {} ELSE History!Groups,
                    values |-> {current} \cup History!Candidates]

LEMMA InitHistory == History!Init => HistoryInv
BY InputsAssumption DEF History!Init, History!Details, HistoryInv, BlocksTyped

LEMMA SameHistory ==
    ASSUME UNCHANGED <<blocks, current, reports>>
    PROVE  /\ (BlocksTyped' <=> BlocksTyped) /\ (History!BadHistory' <=> History!BadHistory)
           /\ History!Groups' = History!Groups /\ History!Candidates' = History!Candidates
<1>1. History!AllRows' = History!AllRows /\ \A at : History!RowAt(at)' = History!RowAt(at)
  BY DEF History!AllRows, History!RowAt
<1> QED BY <1>1 DEF BlocksTyped, History!BadHistory, History!Groups, History!Candidates

LEMMA HistoryStep ==
    ASSUME HistoryInv, History!Next
    PROVE  HistoryInv'
BY SameHistory DEF History!Next, History!Enrich, HistoryInv

\* What is known of a result that is there.
LEMMA ResultFacts ==
    ASSUME HistoryInv, result # History!NoResult
    PROVE  /\ result.stage = "done" /\ result.values = {current} \cup History!Candidates
           /\ result.groups = IF History!BadHistory THEN {} ELSE History!Groups
           /\ result.invalid = (History!BadHistory \/ \E v, w \in History!Candidates :
                                                          v.date = w.date /\ v.amount # w.amount)
BY DEF HistoryInv

LEMMA HistoryDeposits ==
    ASSUME HistoryInv
    PROVE  History!TypeOK /\ History!DepositsAddUp
<1>1. CASE result = History!NoResult
  BY <1>1 DEF History!NoResult, History!TypeOK, History!DepositsAddUp, History!Accepted
<1>2. CASE result # History!NoResult
  <2>1. \A g \in History!Groups : g.id \in GroupIds /\ g = [id |-> g.id, amount |-> GroupSum[g.id]]
                                  /\ g.amount \in Int
    BY GroupFacts DEF HistoryInv
  <2>2. \A g \in result.groups : g \in History!Groups
    BY <1>2, ResultFacts
  <2>3. History!TypeOK
    BY <1>2, <2>1, <2>2, ResultFacts DEF History!TypeOK
  <2>4. ASSUME History!Accepted
        PROVE  /\ \A g, h \in result.groups : g.id = h.id => g = h
               /\ History!SumFunction([g \in result.groups |-> g.amount])
                      = History!SumFunction([i \in DOMAIN blocks |-> blocks[i].total])
    <3>1. ~History!BadHistory /\ result.groups = History!Groups
      BY <1>2, <2>4, ResultFacts DEF History!Accepted
    <3>2. \A g, h \in result.groups : g.id = h.id => g = h
      BY <2>1, <2>2
    <3> QED BY <3>1, <3>2, GroupsAddUp DEF HistoryInv
  <2> QED BY <2>3, <2>4 DEF History!DepositsAddUp
<1> QED BY <1>1, <1>2

LEMMA HistoryReports ==
    ASSUME HistoryInv
    PROVE  History!ReportsOnlyAdd
<1>1. CASE result = History!NoResult
  BY <1>1 DEF History!NoResult, History!ReportsOnlyAdd, History!Accepted
<1>2. CASE result # History!NoResult
  <2>1. result.values = {current} \cup History!Candidates /\ result.stage = "done"
        /\ (result.invalid <=> (History!BadHistory \/ \E v, w \in History!Candidates : v.date = w.date
                  /\ v.amount # w.amount))
    BY <1>2, ResultFacts
  <2>2. \A v \in History!Candidates : v.date # current.date
    BY DEF History!Candidates
  <2>3. \A v \in History!Candidates : \E i \in DOMAIN reports : v \in History!Balances(reports[i])
    BY DEF History!Candidates
  <2>4. ASSUME History!Accepted
        PROVE  current \in result.values /\ \A v, w \in result.values : v.date = w.date => v = w
    <3>1. \A v, w \in History!Candidates : v.date = w.date => v.amount = w.amount
      BY <2>1, <2>4 DEF History!Accepted
    <3>2. \A v \in History!Candidates : v = [date |-> v.date, amount |-> v.amount]
      <4>1. ASSUME NEW report, NEW v \in History!Balances(report) PROVE v = [date |-> v.date, amount |-> v.amount]
        BY <4>1 DEF History!Balances
      <4> QED BY <2>3, <4>1
    <3> QED BY <2>1, <2>2, <3>1, <3>2
  <2>5. ASSUME blocks = <<>>, result.invalid
        PROVE  \E i, j \in DOMAIN reports : \E v \in History!Balances(reports[i]), w \in History!Balances(reports[j]) :
                   v.date = w.date /\ v.amount # w.amount /\ v.date # current.date
    <3>1. DOMAIN blocks = {}
      BY <2>5
    <3>2. ~History!BadHistory
      BY <3>1 DEF History!BadHistory
    <3>3. PICK v \in History!Candidates, w \in History!Candidates : v.date = w.date /\ v.amount # w.amount
      BY <2>1, <2>5, <3>2
    <3> QED BY <2>2, <2>3, <3>3
  <2> QED BY <2>4, <2>5 DEF History!ReportsOnlyAdd
<1> QED BY <1>1, <1>2

-----------------------------------------------------------------------------
(* The readers together: only the one the initial state chose moves.       *)

PortalsInv ==
    /\ reader \in {"session", "parser", "clal", "history", "hapoalim"}
    /\ reader = "session" => SessionInv
    /\ reader = "parser" => ParserInv
    /\ reader = "clal" => ClalInv
    /\ reader = "history" => HistoryInv
    /\ reader = "hapoalim" => HapoalimInv

LEMMA Alone ==
    ASSUME PortalsInv, [ReadersNext]_readersVars
    PROVE  /\ PortalsInv' /\ reader' = reader
           /\ reader = "session" => BestInvest!Next \/ UNCHANGED readersVars
           /\ reader = "hapoalim" => Hapoalim!Silent \/ UNCHANGED readersVars
<1>1. CASE reader = "session" /\ BestInvest!Next /\ UNCHANGED reader
  <2>1. SessionInv
    BY <1>1 DEF PortalsInv
  <2>2. SessionInv'
    BY <1>1, <2>1, SessionStep
  <2> QED BY <1>1, <2>2 DEF PortalsInv
<1>2. CASE reader = "parser" /\ Parser!Next /\ UNCHANGED reader
  <2>1. ParserInv'
    BY <1>2, ParserStep DEF PortalsInv
  <2> QED BY <1>2, <2>1 DEF PortalsInv
<1>3. CASE reader = "clal" /\ Clal!Next /\ UNCHANGED reader
  <2>1. ClalInv
    BY <1>3 DEF PortalsInv
  <2>2. ClalInv'
    BY <1>3, <2>1, ClalStep
  <2> QED BY <1>3, <2>2 DEF PortalsInv
<1>4. CASE reader = "history" /\ History!Next /\ UNCHANGED reader
  <2>1. HistoryInv'
    BY <1>4, HistoryStep DEF PortalsInv
  <2> QED BY <1>4, <2>1 DEF PortalsInv
<1>5. CASE reader = "hapoalim" /\ Hapoalim!Next /\ UNCHANGED reader
  <2>1. HapoalimInv
    BY <1>5 DEF PortalsInv
  <2>2. HapoalimInv' /\ Hapoalim!Silent
    BY <1>5, <2>1, HapoalimStep
  <2> QED BY <1>5, <2>2 DEF PortalsInv
<1>6. CASE UNCHANGED readersVars
  <2>1. reader' = reader /\ UNCHANGED session /\ UNCHANGED parser /\ UNCHANGED clal /\ UNCHANGED history /\ UNCHANGED hapoalim
    BY <1>6 DEF readersVars
  <2>2. SessionInv => SessionInv'
    BY <2>1 DEF session, SessionInv
  <2>3. ClalInv => ClalInv'
    <3>1. <<site, wire, got, task>>' = <<site, wire, got, task>>
      BY <2>1 DEF clal
    <3>2. Clal!CompleteIsConsistent => Clal!CompleteIsConsistent'
      BY <3>1 DEF Clal!CompleteIsConsistent
    <3>3. Clal!RenewedIsProven => Clal!RenewedIsProven'
      BY <3>1 DEF Clal!RenewedIsProven
    <3> QED BY <3>1, <3>2, <3>3 DEF ClalInv, ResponseOK
  <2>4. HistoryInv => HistoryInv'
    <3>1. UNCHANGED <<blocks, current, reports, result>>
      BY <2>1 DEF history
    <3> QED BY <3>1, SameHistory DEF HistoryInv
  <2>5. HapoalimInv => HapoalimInv'
    <3>1. UNCHANGED <<bank, boot, pull, job>>
      BY <2>1 DEF hapoalim
    <3>2. Hapoalim!AppliedHasAll => Hapoalim!AppliedHasAll'
      BY <3>1 DEF Hapoalim!AppliedHasAll
    <3> QED BY <3>1, <3>2 DEF HapoalimInv
  <2>6. ParserInv => ParserInv'
    BY <2>1 DEF parser, ParserInv
  <2> QED BY <1>6, <2>1, <2>2, <2>3, <2>4, <2>5, <2>6 DEF PortalsInv
<1> QED BY <1>1, <1>2, <1>3, <1>4, <1>5, <1>6 DEF ReadersNext

LEMMA InitPortals == ReadersInit => PortalsInv
BY InitSession, InitParser, InitClal, InitHistory, InitHapoalim DEF ReadersInit, PortalsInv

\* The reader at work keeps its invariant, and no other one moves.
THEOREM PortalsInvariant == ReadersSpec => []PortalsInv
<1>1. PortalsInv /\ [ReadersNext]_readersVars => PortalsInv'
  BY Alone
<1> QED BY <1>1, InitPortals, PTL DEF ReadersSpec

\* As many collectors on one profile of Best Invest as are started, killed and abandoned,
\* never have two Chromes on it, and there is none on a profile that is not leased
\* (stopBestInvestProcess, acquireBestInvestProfile).
THEOREM OneChromeOnTheLease == ReadersSpec => []ProfileIsLeased
<1>1. PortalsInv => ProfileIsLeased
  BY SessionKept DEF PortalsInv, ProfileIsLeased
<1> QED BY <1>1, PortalsInvariant, PTL

\* A collection sends one SMS at most, because the session it restored was no longer accepted,
\* and gives the receiver back before it closes (loginBestInvest).
THEOREM OneSmsAsLastResort == ReadersSpec => []SmsIsTheLastResort
<1>1. PortalsInv => SmsIsTheLastResort
  BY SessionKept DEF PortalsInv, SmsIsTheLastResort
<1> QED BY <1>1, PortalsInvariant, PTL

\* A collection of Best Invest that was issued a session leaves it behind whatever failed
\* after the login (withBestInvestBrowser), and a read of Hapoalim that the deadline gave up
\* captures, applies and reports nothing more (collectHapoalimInvestments).
THEOREM ReadsEndWell == ReadersSpec => EndsWell
<1>1. ASSUME PortalsInv, [ReadersNext]_readersVars
      PROVE  [CASE reader = "session" -> \A c \in Collectors : BestInvest!KeepsSession(c)
                [] reader = "hapoalim" -> Hapoalim!Silent
                [] OTHER -> TRUE]_readersVars
  <2>1. CASE reader = "session"
    <3>1. SessionInv
      BY <1>1, <2>1 DEF PortalsInv
    <3>2. BestInvest!Next => \A c \in Collectors : BestInvest!KeepsSession(c)
      BY <3>1, SessionIsKept
    <3> QED BY <1>1, <2>1, <3>2, Alone
  <2>2. CASE reader = "hapoalim"
    BY <1>1, <2>2, Alone
  <2> QED BY <2>1, <2>2
<1> QED BY <1>1, PortalsInvariant, PTL DEF ReadersSpec, EndsWell

\* What the readers vouch for is so for all inputs of the portals' shape: a snapshot of Best
\* Invest is complete only if every policy was there, joined and reconciled
\* (buildBestInvestSnapshot), one of Clal only if all policies of the list were read and agree,
\* and its session is active on the word of a protected call (readClalSnapshot,
\* renewClalSession), deposits add up over groups and years (enrichClalActivities), reports only
\* add valuations (enrichClalReports), and the history of Hapoalim is applied whole, each
\* execution once, and never in place of the news that a one-time code is asked for
\* (readExecutionPages, bootMytrade).
THEOREM ReadersAreTrue == ReadersSpec => []ReportsAreTrue
<1>1. ASSUME PortalsInv PROVE ReportsAreTrue
  <2>1. CASE reader = "session"
    BY <1>1, <2>1, SessionKept DEF PortalsInv, ReportsAreTrue
  <2>2. CASE reader = "parser"
    BY <1>1, <2>2, ParserKept DEF PortalsInv, ReportsAreTrue
  <2>3. CASE reader = "clal"
    BY <1>1, <2>3, ClalKept DEF PortalsInv, ReportsAreTrue
  <2>4. CASE reader = "history"
    BY <1>1, <2>4, HistoryDeposits, HistoryReports DEF PortalsInv, ReportsAreTrue
  <2>5. CASE reader = "hapoalim"
    BY <1>1, <2>5, HapoalimKept DEF PortalsInv, ReportsAreTrue
  <2>6. reader \in {"session", "parser", "clal", "history", "hapoalim"}
    BY <1>1 DEF PortalsInv
  <2> QED BY <2>1, <2>2, <2>3, <2>4, <2>5, <2>6
<1> QED BY <1>1, PortalsInvariant, PTL

=============================================================================
