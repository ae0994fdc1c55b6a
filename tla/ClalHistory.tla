---------------------------- MODULE ClalHistory ----------------------------
(***************************************************************************)
(* What the details of a Clal policy add to its snapshot: deposits, in     *)
(* groups for want of row identities (clal-activities.ts), and the         *)
(* balances that reports state for a date (clal-reports.ts).               *)
(*                                                                         *)
(* A date is a number of which the last digit is the month of its year.    *)
(***************************************************************************)
EXTENDS Integers, Sequences, FiniteSets, Functions

CONSTANTS
    Histories, \* what the details may state: blocks, the portfolio's valuation, reports
    Observed   \* the date of the reading

VARIABLES
    blocks,  \* yearly blocks of deposit rows, with the provider's totals
    current, \* the valuation the portfolio states itself
    reports, \* report summaries: a period and its labelled lines
    result   \* what becomes of them

vars == <<blocks, current, reports, result>>

None == 0
YearOf(date) == date \div 10
NoResult == [stage |-> "raw", invalid |-> FALSE, groups |-> {}, values |-> {}]

\* Rows of deposits by year: an employer ("all" of them in a subtotal), a booking date and a
\* salary month where there are any, an amount; and reports with the lines that state balances.
Details ==
    [blocks : Seq([year : Nat, total : Int,
                   rows : Seq([who : STRING, booked : Nat, month : Nat, amount : Int])]),
     current : [date : Nat, amount : Int],
     reports : Seq([from : Nat, to : Nat, lines : Seq([opening : BOOLEAN, date : Nat, amount : Int])])]

Init ==
    /\ \E h \in Histories : blocks = h.blocks /\ current = h.current /\ reports = h.reports
    /\ result = NoResult

-----------------------------------------------------------------------------
(* Deposits.                                                               *)

Subtotal(row) == row.who = "all" /\ row.booked = None /\ row.month = None
Deposited(b) == {i \in DOMAIN b.rows : ~Subtotal(b.rows[i])}
Subtotals(b) == {i \in DOMAIN b.rows : Subtotal(b.rows[i])}

\* bookingDate, salaryMonth, addGroups and checkAnnualTotals: a row has an employer and a date,
\* which is one of its block's year, and the rows add up to the block's totals.
BadBlock(b) ==
    \/ \E i \in DOMAIN b.rows : b.rows[i].booked # None /\ YearOf(b.rows[i].booked) # b.year
    \/ \E i, j \in Subtotals(b) : i # j
    \/ \E i \in Deposited(b) : b.rows[i].who = "nobody" \/ (b.rows[i].booked = None /\ b.rows[i].month = None)
    \/ SumFunction([i \in Deposited(b) |-> b.rows[i].amount]) # b.total
    \/ \E i \in Subtotals(b) : b.rows[i].amount # b.total

BadHistory ==
    \/ \E i \in DOMAIN blocks : BadBlock(blocks[i])
    \/ \E i, j \in DOMAIN blocks : i # j /\ blocks[i].year = blocks[j].year

\* The deposit rows of all years, by their block and their place in it.
AllRows == UNION {{<<i, j>> : j \in Deposited(blocks[i])} : i \in DOMAIN blocks}
RowAt(at) == blocks[at[1]].rows[at[2]]

\* Everything that tells one row from another but its amount.
GroupOf(row) == <<row.who, row.booked, row.month>>

\* A group is all rows alike, of any year's block, and its amount is their sum.
Groups ==
    {[id |-> g, amount |-> SumFunction([at \in {a \in AllRows : GroupOf(RowAt(a)) = g} |-> RowAt(at).amount])] :
        g \in {GroupOf(RowAt(at)) : at \in AllRows}}

-----------------------------------------------------------------------------
(* Report balances.                                                        *)

\* reportBalances: only an annual period that is over, and only the lines with a balance
\* that is not negative and whose own date is the one they claim to be.
Usable(report) ==
    /\ report.to # None /\ report.from # None /\ YearOf(report.from) = YearOf(report.to)
    /\ report.to <= Observed
Balances(report) ==
    IF ~Usable(report) THEN {}
    ELSE {[date |-> report.lines[i].date, amount |-> report.lines[i].amount] : i \in
             {k \in DOMAIN report.lines :
                 LET l == report.lines[k]
                 IN l.amount >= 0 /\ l.date # None /\ l.date = (IF l.opening THEN report.from ELSE report.to)}}

\* The portfolio's own valuation wins for its date.
Candidates ==
    {v \in UNION {Balances(reports[i]) : i \in DOMAIN reports} : v.date # current.date}

-----------------------------------------------------------------------------
\* enrichClalActivities, then enrichClalReports.
Enrich ==
    /\ result.stage = "raw"
    /\ result' = [stage |-> "done",
                  invalid |-> BadHistory \/ \E v, w \in Candidates : v.date = w.date /\ v.amount # w.amount,
                  groups |-> IF BadHistory THEN {} ELSE Groups,
                  values |-> {current} \cup Candidates]
    /\ UNCHANGED <<blocks, current, reports>>

Next == Enrich

Accepted == result.stage = "done" /\ ~result.invalid

TypeOK ==
    /\ result.stage \in {"raw", "done"} /\ result.invalid \in BOOLEAN
    /\ \A g \in result.groups : g.amount \in Int

\* The deposits of an accepted history are one row per group, they add up to what the
\* provider says of all years together, and no subtotal is among them: rows that look alike
\* are summed and not dropped, across the year blocks too.
DepositsAddUp ==
    Accepted =>
        /\ \A g, h \in result.groups : g.id = h.id => g = h
        /\ SumFunction([g \in result.groups |-> g.amount])
               = SumFunction([i \in DOMAIN blocks |-> blocks[i].total])

\* A report never competes with the portfolio's own valuation, neither as a second one of
\* that date nor by failing the collection, and no two valuations share a date.
ReportsOnlyAdd ==
    /\ Accepted => /\ current \in result.values
                   /\ \A v, w \in result.values : v.date = w.date => v = w
    /\ result.stage = "done" /\ blocks = <<>> /\ result.invalid =>
           \E i, j \in DOMAIN reports : \E v \in Balances(reports[i]), w \in Balances(reports[j]) :
               v.date = w.date /\ v.amount # w.amount /\ v.date # current.date

=============================================================================
