---------------------------- MODULE ScrapeRunner ----------------------------
(***************************************************************************)
(* One company's Chrome profile: the runs of src/scrape/runner.ts, each a  *)
(* race between the scraper library and a deadline, the investment         *)
(* collection that shares the browser of a Hapoalim run                    *)
(* (investments/hapoalim/collector.ts), and the assisted login of          *)
(* scrape/login.ts.                                                        *)
(*                                                                         *)
(* The service and every command are processes of their own, and each      *)
(* keeps only its own runs apart (`running`, scheduler.ts): a run or a     *)
(* login may find a Chrome of another process on the profile, whose locks  *)
(* it removes before its launch.  That one process runs at a time is the   *)
(* operator's rule (docs/operations.md), which nothing here relies on.     *)
(*                                                                         *)
(* A run whose deadline expires is over, but the library's promise is only *)
(* abandoned: it goes on launching, logging in and closing on its own.     *)
(* Whether a company may be scraped (parking, backoff, the login cap) is   *)
(* ScrapeScheduler's: here it always may.  A process that is stopped, and  *)
(* the browsers that go with it, is left out.                              *)
(***************************************************************************)
EXTENDS Integers, FiniteSets

CONSTANTS
    Processes,    \* the service and the commands that may run the company
    LoginProcess, \* the one of `bridge login`, whose only run is the confirmation
    MaxRuns       \* bound, for model checking

ASSUME RunnerAssumption == MaxRuns \in Nat /\ LoginProcess \in Processes

None == "none"
Runs == 1..MaxRuns
Helpers == {"Xvfb", "x11vnc", "websockify"}

VARIABLES
    shared, \* Hapoalim with investments: the runner launches the browser, not the library
    run,    \* per run of runCompany: its process, stage, library, Chrome, OTP evidence, outcome
    login   \* the assisted login: its stage, helper processes, Chrome

vars == <<shared, run, login>>

NoRun == [by |-> LoginProcess, stage |-> None, lib |-> None, chrome |-> None, late |-> FALSE,
          form |-> FALSE, url |-> FALSE, logins |-> 0, outcome |-> None]
NoLogin == [stage |-> None, helpers |-> {}, chrome |-> None, completed |-> FALSE]

Open(x) == x.chrome = "open"
Active(i) == run[i].stage \notin {None, "done"}
Racing(i) == run[i].stage = "racing"
LibraryBusy(i) == run[i].lib \in {"launching", "working", "submitted"}
Started == {i \in Runs : run[i].stage # None}

\* runNow of p refuses a second run.
Idle(p) == \A i \in Runs : Active(i) => run[i].by # p

-----------------------------------------------------------------------------
Init ==
    /\ shared \in BOOLEAN /\ run = [i \in Runs |-> NoRun]
    /\ login = NoLogin

-----------------------------------------------------------------------------
(* A run.                                                                  *)

\* The next run is one of p.
Begin(p) ==
    LET i == Cardinality(Started) + 1 IN
    /\ Cardinality(Started) < MaxRuns
    /\ run' = [run EXCEPT ![i].by = p, ![i].stage = "racing", ![i].lib = "launching"]

\* A process may begin a run while it has another one.
WrongStartRun(p) == p # LoginProcess /\ Begin(p) /\ UNCHANGED <<shared, login>>

\* Whatever Chrome another process has on the profile, runCompany removes the Singleton locks
\* and launches its own.
StartRun(p) == p # LoginProcess /\ Idle(p) /\ Begin(p) /\ UNCHANGED <<shared, login>>

\* Nobody asks whether the run is still wanted.
WrongLaunched(i) ==
    /\ run[i].lib = "launching"
    /\ run' = [run EXCEPT ![i].chrome = "open", ![i].lib = "working",
                          ![i].late = ~Racing(i)]
    /\ UNCHANGED <<shared, login>>

\* The browser is there.  A shared one whose deadline has expired meanwhile is only closed.
Launched(i) ==
    /\ run[i].lib = "launching"
    /\ run' = [run EXCEPT ![i].chrome = "open", ![i].late = ~Racing(i),
                          ![i].lib = IF shared /\ ~Racing(i) THEN "closing" ELSE "working"]
    /\ UNCHANGED <<shared, login>>

\* killBrowser of the abandoned promise, which takes up to its grace period.
LateClosed(i) ==
    /\ run[i].lib = "closing" /\ run' = [run EXCEPT ![i].chrome = "gone", ![i].lib = "threw"]
    /\ UNCHANGED <<shared, login>>

LaunchFails(i) ==
    /\ run[i].lib = "launching" /\ run' = [run EXCEPT ![i].lib = "threw"]
    /\ UNCHANGED <<shared, login>>

\* The library submits the credentials: a login attempt at the bank.
Submit(i) ==
    /\ run[i].lib = "working" /\ Open(run[i])
    /\ run' = [run EXCEPT ![i].lib = "submitted", ![i].logins = @ + 1]
    /\ UNCHANGED <<shared, login>>

\* Until the run is over the runner remembers an OTP form and the last URL.
SeeOtp(i) ==
    /\ run[i].lib = "submitted" /\ Open(run[i]) /\ run[i].stage \in {"racing", "killing"}
    /\ \/ run' = [run EXCEPT ![i].form = TRUE]
       \/ run' = [run EXCEPT ![i].url = TRUE]
    /\ UNCHANGED <<shared, login>>

\* The library returns, and closes the browser it launched itself.
LibraryEnds(i) ==
    /\ run[i].lib \in {"working", "submitted"}
    /\ \E result \in {"success", "refused", "failed"} :
          /\ result # "failed" => run[i].lib = "submitted" /\ Open(run[i])
          /\ run' = [run EXCEPT ![i].lib = result,
                                ![i].chrome = IF shared THEN @ ELSE "gone"]
    /\ UNCHANGED <<shared, login>>

ChromeDies(i) ==
    /\ Open(run[i]) /\ run' = [run EXCEPT ![i].chrome = "gone"]
    /\ UNCHANGED <<shared, login>>

-----------------------------------------------------------------------------
(* How it ends.                                                            *)

\* mapScraperError: evidence of a one-time code explains generic failures only.
Mapped(errorType, evidence) ==
    IF errorType \in {"timeout", "generic"} /\ evidence THEN "otp" ELSE errorType

\* The finally block: a connected browser is closed, or killed after a grace period.
Over(i, outcome) ==
    /\ run' = [run EXCEPT ![i].outcome = outcome,
                          ![i].stage = IF Open(run[i]) THEN "closing" ELSE "done"]

\* The deadline wins the race: whatever browser is known is killed first.
Deadline(i) ==
    /\ Racing(i) /\ LibraryBusy(i)
    /\ IF Open(run[i]) THEN run' = [run EXCEPT ![i].stage = "killing"]
       ELSE Over(i, Mapped("timeout", run[i].form))
    /\ UNCHANGED <<shared, login>>

\* The form is not asked about after the kill.
WrongKilled(i) ==
    /\ run[i].stage = "killing"
    /\ run' = [run EXCEPT ![i].chrome = "gone", ![i].stage = "done",
                          ![i].outcome = Mapped("timeout", FALSE)]
    /\ UNCHANGED <<shared, login>>

\* killBrowser has closed it, and the form may have shown up meanwhile.
Killed(i) ==
    /\ run[i].stage = "killing"
    /\ run' = [run EXCEPT ![i].chrome = "gone", ![i].stage = "done",
                          ![i].outcome = Mapped("timeout", run[i].form)]
    /\ UNCHANGED <<shared, login>>

\* The library wins.  finishRun maps its failure with all the evidence there is.
Finish(i) ==
    /\ Racing(i) /\ ~LibraryBusy(i)
    /\ CASE run[i].lib = "success" /\ shared /\ Open(run[i]) ->
               run' = [run EXCEPT ![i].stage = "collecting"]
         [] run[i].lib = "success" /\ ~(shared /\ Open(run[i])) -> Over(i, "ok")
         [] run[i].lib = "failed" -> Over(i, Mapped("generic", run[i].form \/ run[i].url))
         [] run[i].lib = "refused" -> Over(i, "refused")
         [] OTHER -> Over(i, "bridge")
    /\ UNCHANGED <<shared, login>>

\* collectHapoalimInvestments returns within three minutes and never throws: the run is ok.
Collected(i) ==
    /\ run[i].stage = "collecting"
    /\ Over(i, "ok")
    /\ UNCHANGED <<shared, login>>

\* Nobody closes the browser of a run that is over.
WrongClosed(i) ==
    /\ run[i].stage = "closing" /\ ~Open(run[i])
    /\ run' = [run EXCEPT ![i].stage = "done"]
    /\ UNCHANGED <<shared, login>>

Closed(i) ==
    /\ run[i].stage = "closing"
    /\ run' = [run EXCEPT ![i].chrome = "gone", ![i].stage = "done"]
    /\ UNCHANGED <<shared, login>>

-----------------------------------------------------------------------------
(* The assisted login.                                                     *)

GotoLogin(stage) == login' = [login EXCEPT !.stage = stage]
Cleanup(completed) == login' = [login EXCEPT !.stage = "cleaning", !.completed = completed]

StartLogin ==
    /\ login.stage = None /\ GotoLogin("display")
    /\ UNCHANGED <<shared, run>>

\* startDisplayStack: the three in order; those that run are stopped when one does not start.
StartHelper ==
    /\ login.stage = "display"
    /\ \/ \E h \in Helpers \ login.helpers :
             /\ h = "x11vnc" => "Xvfb" \in login.helpers
             /\ h = "websockify" => "x11vnc" \in login.helpers
             /\ login' = [login EXCEPT !.helpers = @ \cup {h}]
       \/ login.helpers # Helpers /\ login' = [login EXCEPT !.helpers = {}, !.stage = "done"]
       \/ login.helpers = Helpers /\ GotoLogin("launching")
    /\ UNCHANGED <<shared, run>>

\* Credentials, launch or initialize may fail.
LoginLaunches ==
    /\ login.stage = "launching"
    /\ \/ login' = [login EXCEPT !.chrome = "open", !.stage = "working"]
       \/ Cleanup(FALSE)
    /\ UNCHANGED <<shared, run>>

\* What the library cannot finish, by refusal or error, is the operator's.
LibraryLogin ==
    /\ login.stage = "working"
    /\ (Open(login) /\ Cleanup(TRUE)) \/ GotoLogin("waiting")
    /\ UNCHANGED <<shared, run>>

\* waitForOperator: only the page after the login, or Enter, completes it.
Operator ==
    /\ login.stage = "waiting"
    /\ \/ Open(login) /\ Cleanup(TRUE)  \* post-login
       \/ Cleanup(TRUE)                 \* enter
       \/ ~Open(login) /\ Cleanup(FALSE) \* disconnected
       \/ Cleanup(FALSE)                \* cap
    /\ UNCHANGED <<shared, run>>

LoginChromeDies ==
    /\ Open(login) /\ login' = [login EXCEPT !.chrome = "gone"]
    /\ UNCHANGED <<shared, run>>

\* SIGINT cleans up and exits.
Interrupt ==
    /\ login.stage \in {"launching", "working", "waiting"}
    /\ Cleanup(FALSE)
    /\ UNCHANGED <<shared, run>>

\* The confirmation run comes before the cleanup.
WrongCleaned ==
    /\ login.stage = "cleaning"
    /\ IF login.completed THEN GotoLogin("confirm")
       ELSE login' = [login EXCEPT !.chrome = "gone", !.helpers = {}, !.stage = "done"]
    /\ UNCHANGED <<shared, run>>

\* Chrome is closed, so that its cookies are saved, and the helpers are stopped, before
\* the company is unparked for a confirmation run, unless the operator wants none.
Cleaned ==
    /\ login.stage = "cleaning"
    /\ \E next \in IF login.completed THEN {"confirm", "done"} ELSE {"done"} :
          login' = [login EXCEPT !.chrome = IF Open(login) THEN "gone" ELSE @,
                                 !.helpers = {}, !.stage = next]
    /\ UNCHANGED <<shared, run>>

\* The login unparks the company and forces a run of it.
Confirm ==
    /\ login.stage = "confirm" /\ GotoLogin("done")
    /\ Begin(LoginProcess)
    /\ UNCHANGED shared

-----------------------------------------------------------------------------
RunStep(i) ==
    \/ Launched(i) \/ LaunchFails(i) \/ LateClosed(i) \/ Submit(i) \/ SeeOtp(i)
    \/ LibraryEnds(i) \/ ChromeDies(i)
    \/ Deadline(i) \/ Killed(i) \/ Finish(i) \/ Collected(i) \/ Closed(i)

LoginStep ==
    \/ StartLogin \/ StartHelper \/ LoginLaunches \/ LibraryLogin \/ Operator
    \/ LoginChromeDies \/ Interrupt \/ Cleaned \/ Confirm

Next ==
    \/ \E p \in Processes : StartRun(p)
    \/ LoginStep
    \/ \E i \in Runs : RunStep(i)

\* Launches and page waits have timeouts, the deadline and the operator's cap are timers,
\* and what the runner has begun it finishes.
Fairness ==
    /\ \A i \in Runs :
          /\ WF_vars(Launched(i) \/ LaunchFails(i)) /\ WF_vars(LibraryEnds(i))
          /\ WF_vars(Deadline(i)) /\ WF_vars(Finish(i)) /\ WF_vars(Killed(i))
          /\ WF_vars(Collected(i)) /\ WF_vars(Closed(i)) /\ WF_vars(LateClosed(i))
    /\ WF_vars(StartHelper) /\ WF_vars(LoginLaunches) /\ WF_vars(LibraryLogin)
    /\ WF_vars(Operator) /\ WF_vars(Cleaned)

Spec == Init /\ [][Next]_vars /\ Fairness

-----------------------------------------------------------------------------
(* What a run promises.                                                    *)

RunType ==
    [by : Processes, stage : {None, "racing", "killing", "collecting", "closing", "done"},
     lib : {None, "launching", "working", "submitted", "closing",
            "success", "refused", "failed", "threw"},
     chrome : {None, "open", "gone"}, late : BOOLEAN, form : BOOLEAN, url : BOOLEAN,
     logins : 0..1,
     outcome : {None, "ok", "timeout", "otp", "generic", "refused", "bridge"}]

LoginType ==
    [stage : {None, "display", "launching", "working", "waiting", "cleaning", "confirm", "done"},
     helpers : SUBSET Helpers, chrome : {None, "open", "gone"}, completed : BOOLEAN]

TypeOK ==
    /\ shared \in BOOLEAN /\ run \in [Runs -> RunType] /\ login \in LoginType

\* Chrome runs from its launch on.  It is late when its run was over before it was there.
Running(x) == Open(x) \/ x.lib = "launching"
Late(x) == x.late \/ (x.lib = "launching" /\ x.stage # "racing")
LoginRunning == Open(login) \/ login.stage = "launching"

\* A process has two Chromes on the profile only if one of them is late: not of overlapping
\* runs, nor of a login and its confirmation.  Two processes may well have one each.
OneChrome ==
    TypeOK /\ \A p \in Processes :
        Cardinality({i \in Runs : run[i].by = p /\ Running(run[i]) /\ ~Late(run[i])})
            + (IF p = LoginProcess /\ LoginRunning THEN 1 ELSE 0) <= 1

\* A browser that outlives its run was launched after the deadline: one the runner had got
\* hold of never does.  A shared one is being closed and logs in no more; the library's own
\* goes on as if it were wanted.
OnlyLateOnesSurvive ==
    \A i \in Runs : run[i].stage = "done" /\ Open(run[i]) =>
        run[i].late /\ (shared => run[i].lib = "closing" /\ run[i].logins = 0)

\* The form seen before the end is never missed, not even while Chrome is being killed:
\* such a run asks for an assisted login instead of being retried after a backoff.
OtpIsNotMissed ==
    \A i \in Runs : run[i].stage = "done" /\ run[i].form => run[i].outcome \notin {"timeout", "generic"}

\* The confirmation run of a login begins when its Chrome is closed, so that its cookies are
\* saved, and its helpers are gone, whatever they went through; a login that was given up,
\* interrupted or has lost its browser unparks nothing and runs nothing.  (`bridge unpark` and
\* changed credentials unpark a company too: ScrapeScheduler.)
LoginConfirmsWhenDone ==
    [][\A i \in Runs : run[i].stage = None /\ Active(i)' /\ run'[i].by = LoginProcess
           => login.completed /\ ~LoginRunning /\ login.helpers = {}]_vars

\* Every run ends, every browser goes in the end, a late one too, and so do the helpers.
EverythingGoes ==
    /\ \A i \in Runs : Racing(i) ~> run[i].stage = "done"
    /\ \A i \in Runs : Open(run[i]) ~> ~Open(run[i])
    /\ login.helpers # {} ~> login.helpers = {} /\ ~Open(login)

=============================================================================
