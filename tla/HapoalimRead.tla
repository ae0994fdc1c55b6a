---------------------------- MODULE HapoalimRead ----------------------------
(***************************************************************************)
(* The securities read that follows a Hapoalim scrape in its browser       *)
(* (investments/hapoalim): the trading app is booted on the bank login,    *)
(* the positions and the pages of the execution history are asked for, and *)
(* a snapshot is built, all within a deadline.                             *)
(*                                                                         *)
(* The bank lists executions newest first, one to a page, and its cursor   *)
(* is a place in that list, which shifts when another execution comes in.  *)
(***************************************************************************)
EXTENDS Integers, Sequences, SequencesExt, FiniteSets

CONSTANTS
    MaxRows,  \* bound, for model checking
    MaxPages  \* HAPOALIM_HISTORY_MAX_PAGES

VARIABLES
    bank, \* the executions, those there when the run began, and the page of the app
    boot, \* what bootMytrade has seen of the app
    pull, \* where the read is
    run   \* the run of the collector: its captures and what it did to the feed

vars == <<bank, boot, pull, run>>

None == "none"
NoCursor == -1

\* A row has the natural key of the execution, which is that of the first one it looks like;
\* parseHapoalimExecution refuses a row of another account, out of the window or canceled
\* without a date.
Rows == [id : 1..MaxRows, key : 1..MaxRows, usable : BOOLEAN]
NewRow(id, key, usable) == [id |-> id, key |-> key, usable |-> usable]

Init ==
    /\ \E n \in 0..(MaxRows - 1) : \E key \in [1..n -> 1..n] : \E flawed \in 0..n :
          /\ \A id \in 1..n : key[id] <= id
          /\ bank = [rows |-> [i \in 1..n |-> NewRow(n + 1 - i, key[n + 1 - i], i # flawed)], old |-> n,
                     form |-> FALSE, landed |-> None]
    /\ boot = [header |-> FALSE, ready |-> FALSE, promise |-> "pending"]
    /\ pull = [at |-> "boot", asked |-> FALSE, cursor |-> 0, seen |-> {}, number |-> 1,
               rows |-> <<>>, complete |-> FALSE, code |-> None]
    /\ run = [status |-> "running", aborted |-> FALSE, files |-> 0, feed |-> None, rows |-> <<>>]

-----------------------------------------------------------------------------
(* The bank.                                                               *)

\* A trade, or one that shares its natural key with another.
NewExecution ==
    /\ Len(bank.rows) < MaxRows /\ run.status = "running"
    /\ \E key \in 1..(Len(bank.rows) + 1) :
          bank' = [bank EXCEPT !.rows = <<NewRow(Len(bank.rows) + 1, key, TRUE)>> \o @]
    /\ UNCHANGED <<boot, pull, run>>

\* The one-time-code form comes up in the app when the bank ends its session.
FormAppears ==
    /\ bank.landed = "app" /\ ~bank.form
    /\ bank' = [bank EXCEPT !.form = TRUE]
    /\ UNCHANGED <<boot, pull, run>>

-----------------------------------------------------------------------------
(* bootMytrade.                                                            *)

\* The first to settle the promise wins.
Settle(b) ==
    [b EXCEPT !.promise = IF @ = "pending" /\ b.header /\ b.ready THEN "session" ELSE @]

\* The first request of the app that carries the session.
SeeHeader ==
    /\ pull.at = "boot" /\ ~boot.header /\ bank.landed # "elsewhere"
    /\ boot' = Settle([boot EXCEPT !.header = TRUE])
    /\ UNCHANGED <<bank, pull, run>>

\* The answer to account/init: a good one, or another status or an error in its body.
InitAnswered ==
    /\ pull.at = "boot" /\ ~boot.ready /\ bank.landed # "elsewhere"
    /\ \/ boot' = Settle([boot EXCEPT !.ready = TRUE])
       \/ /\ boot.promise = "pending"
          /\ boot' = [boot EXCEPT !.promise = "rejected"]
    /\ UNCHANGED <<bank, pull, run>>

\* The timer of 30 seconds, which runs while the page is still on its way.
BootTimer ==
    /\ pull.at = "boot" /\ boot.promise = "pending"
    /\ boot' = [boot EXCEPT !.promise = "rejected"]
    /\ UNCHANGED <<bank, pull, run>>

Fail(code) == pull' = [pull EXCEPT !.at = "failed", !.code = code, !.asked = FALSE]

\* page.goto ends, or fails: a form at once, another place, or the app.
Land ==
    /\ pull.at = "boot" /\ bank.landed = None
    /\ \/ \E place \in {"form", "elsewhere", "app"} :
             /\ bank' = [bank EXCEPT !.landed = place, !.form = (place = "form")]
             /\ UNCHANGED pull
       \/ bank' = bank /\ Fail("INVALID_RESPONSE")
    /\ UNCHANGED <<boot, run>>

\* The form is looked for before anything is made of the promise.
Booted ==
    /\ pull.at = "boot" /\ bank.landed # None
    /\ CASE bank.landed = "form" -> Fail("OTP_REQUIRED")
         [] bank.landed = "elsewhere" -> Fail("COLLECTION_FAILED")
         [] bank.landed = "app" /\ boot.promise = "rejected" -> Fail("COLLECTION_FAILED")
         [] bank.landed = "app" /\ boot.promise = "session" -> pull' = [pull EXCEPT !.at = "portfolio"]
         [] OTHER -> FALSE
    /\ UNCHANGED <<bank, boot, run>>

-----------------------------------------------------------------------------
(* requestMytrade.                                                         *)

\* Before each request the signal is looked at; the page looks for the form.
Ask ==
    /\ pull.at \in {"portfolio", "history"} /\ ~pull.asked
    /\ IF run.aborted THEN Fail("TIMEOUT")
       ELSE IF bank.form THEN Fail("OTP_REQUIRED")
       ELSE pull' = [pull EXCEPT !.asked = TRUE]
    /\ UNCHANGED <<bank, boot, run>>

\* No token, the session refused, an unusable answer, or none within 30 seconds.
Refused ==
    /\ pull.asked
    /\ \E code \in {"COLLECTION_FAILED", "INVALID_RESPONSE", "TIMEOUT"} : Fail(code)
    /\ UNCHANGED <<bank, boot, run>>

\* The body is captured before it is parsed, and only while the run goes on.
Captured == ~run.aborted /\ run' = [run EXCEPT !.files = @ + 1]

Portfolio ==
    /\ pull.at = "portfolio" /\ pull.asked
    /\ Captured
    /\ pull' = [pull EXCEPT !.at = "history", !.asked = FALSE]
    /\ UNCHANGED <<bank, boot>>

\* The page at the cursor and the cursor after it: the next place, none at the end, or a
\* place that was there before.
Cursors ==
    (IF pull.cursor + 1 < Len(bank.rows) THEN {pull.cursor + 1} ELSE {NoCursor}) \cup pull.seen

\* readExecutionPages, which gives up on a cursor it knows and at the last page.
Page ==
    /\ pull.at = "history" /\ pull.asked
    /\ Captured
    /\ LET page == IF bank.rows = <<>> THEN <<>> ELSE <<bank.rows[pull.cursor + 1]>>
           done == [pull EXCEPT !.at = "read", !.asked = FALSE, !.rows = @ \o page]
       IN \E cursor \in Cursors :
             pull' = CASE cursor = NoCursor -> [done EXCEPT !.complete = TRUE]
                         [] cursor # NoCursor /\ (cursor \in pull.seen \/ pull.number = MaxPages) -> done
                         [] OTHER -> [done EXCEPT !.at = "history", !.cursor = cursor,
                                         !.seen = @ \cup {cursor}, !.number = @ + 1]
    /\ UNCHANGED <<bank, boot>>

-----------------------------------------------------------------------------
(* collectHapoalimInvestments.                                             *)

\* Rows of one key cannot be told apart, and pages that went round do not end.
Incomplete(rows) == Cardinality({r.key : r \in ToSet(rows)}) # Len(rows) \/ ~pull.complete

StatusOf(code) == IF code = "OTP_REQUIRED" THEN "auth_required" ELSE "partial"

\* recordFailure, which leaves the feed as it is.
Failed ==
    /\ pull.at = "failed" /\ run.status = "running"
    /\ run' = [run EXCEPT !.status = StatusOf(pull.code)]
    /\ UNCHANGED <<bank, boot, pull>>

\* buildHapoalimSnapshot and applySnapshot; the summary written afterwards may fail.
Apply ==
    /\ pull.at = "read" /\ run.status = "running"
    /\ IF Incomplete(pull.rows) \/ \E r \in ToSet(pull.rows) : ~r.usable
       THEN run' = [run EXCEPT !.status = "partial"]
       ELSE \E status \in {"ready", "partial"} :
               run' = [run EXCEPT !.status = status, !.feed = "applied", !.rows = pull.rows]
    /\ UNCHANGED <<bank, boot, pull>>

\* Three minutes are over: the race is lost and the page is being closed.
Deadline ==
    /\ run.status = "running" /\ ~run.aborted
    /\ run' = [run EXCEPT !.status = "partial", !.aborted = TRUE]
    /\ UNCHANGED <<bank, boot, pull>>

\* The page is closed under the abandoned read, or its capture refuses the body.
PageCloses ==
    /\ run.aborted /\ pull.at \in {"boot", "portfolio", "history"}
    /\ Fail("TIMEOUT")
    /\ UNCHANGED <<bank, boot, run>>

Next ==
    \/ NewExecution \/ FormAppears
    \/ SeeHeader \/ InitAnswered \/ BootTimer \/ Land \/ Booted
    \/ Ask \/ Refused \/ Portfolio \/ Page
    \/ Failed \/ Apply \/ Deadline \/ PageCloses

-----------------------------------------------------------------------------
(* Properties.                                                             *)

TypeOK ==
    /\ bank.rows \in Seq(Rows) /\ Len(bank.rows) \in 0..MaxRows
    /\ boot.promise \in {"pending", "session", "rejected"}
    /\ pull.at \in {"boot", "portfolio", "history", "read", "failed"} /\ pull.number \in 1..MaxPages
    /\ run.status \in {"running", "ready", "partial", "auth_required"} /\ run.files \in 0..(MaxPages + 1)

\* A snapshot that is applied has every execution the bank knew when the run began, and none
\* twice, though executions come in between two pages and cursors may go round.
AppliedHasAll ==
    run.feed = "applied" =>
        /\ 1..bank.old \subseteq {r.id : r \in ToSet(run.rows)}
        /\ IsInjective([i \in DOMAIN run.rows |-> run.rows[i].id])

\* The form the bank lands on is reported as such, so that the operator is asked, even when
\* the boot has failed for another reason by then.
FormIsReported ==
    bank.landed = "form" /\ ~run.aborted => run.status \in {"running", "auth_required"}

\* A read that was abandoned writes nothing more: no capture, no snapshot, no second status.
Silent == run.aborted => run' = run

=============================================================================
