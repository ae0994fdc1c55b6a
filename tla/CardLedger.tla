------------------------------ MODULE CardLedger ------------------------------
(***************************************************************************)
(* A CAL card in the ledger: what the bank shows of its purchases and      *)
(* instalments, the rows of an imported archive under ids of their own     *)
(* (ledger/archive-installments.ts), and the synthetic payment of each     *)
(* statement (scrape/synthetic.ts), as applySuccess of the scheduler       *)
(* writes them: the scraped rows in one transaction, then the payments     *)
(* one by one, then the rows of the payments in another transaction.       *)
(*                                                                         *)
(* An occurrence is a purchase or one instalment.  Its portal row has the  *)
(* occurrence as its id (dateMode "purchase"); TransactionFeed has the ids *)
(* themselves, look-alikes and the other mode.                             *)
(***************************************************************************)
EXTENDS Integers, FiniteSetsExt

CONSTANTS
    Occurrences,
    Amount,         \* Amount[o]: signed, purchases are negative
    BuyDay,         \* BuyDay[o]: the day it occurs
    ChargeDay,      \* ChargeDay[o]: the date of its statement, known once it is posted
    Instalments,    \* the occurrences that carry an instalment number
    Holds,          \* the occurrences that are shown as pending first
    Archives,       \* ids of archived rows
    ArchiveOf,      \* ArchiveOf[a]: the occurrence it is a row of
    Dated,          \* the archived rows that have a statement date: Sure's, not Actual's
    StartDay,       \* startDate: no scrape asks for what occurred before
    OverlapDays,
    SettleDays,     \* SETTLE_DAYS
    PartialDays,    \* PARTIAL_CYCLE_DAYS
    MaxLate, MaxDay \* bounds on late postings and on the calendar, for model checking

Never == -1
Ids == Occurrences \cup Archives
Unpaid == 0 \* a payment is never of nothing
ChargeDays == {ChargeDay[o] : o \in Occurrences}

ASSUME CardAssumption ==
    /\ IsFiniteSet(Ids) /\ Occurrences \cap Archives = {}
    /\ Instalments \subseteq Occurrences /\ Holds \subseteq Occurrences
    /\ Amount \in [Occurrences -> Int] /\ ArchiveOf \in [Archives -> Occurrences]
    /\ Dated \subseteq Archives
ASSUME DayAssumption ==
    /\ BuyDay \in [Occurrences -> Nat] /\ ChargeDay \in [Occurrences -> Nat]
    /\ {StartDay, OverlapDays, SettleDays, PartialDays, MaxLate, MaxDay} \subseteq Nat
\* A statement comes within a cycle.
ASSUME CycleAssumption == \A o \in Occurrences : ChargeDay[o] - BuyDay[o] \in 0..PartialDays

VARIABLES
    today,
    posted,      \* posted[o]: the day the bank posts it
    pending,     \* the occurrences the bank shows as holds
    rows,        \* rows[id]: the transactions table, without the payments
    payments,    \* the synthetic_payments table: the amount for a charge date
    credits,     \* the charge dates whose payment has its row in the transactions table
    phase,       \* of applySuccess
    batch,       \* the rows the scrape has returned: occurrences that are posted, or pending
    readOn,      \* the day of the scrape
    created,     \* payments whose rows are still to be written
    lastSuccess

vars == <<today, posted, pending, rows, payments, credits, phase, batch, readOn, created,
          lastSuccess>>
bank == <<posted, pending>>
run == <<phase, batch, readOn, created, lastSuccess>>

NoRow == [status |-> "absent", charge |-> Never, evidence |-> FALSE]
NoBatch == [posted |-> {}, pending |-> {}]
Present(id) == rows[id].status # "absent"
OccurrenceOf(id) == IF id \in Archives THEN ArchiveOf[id] ELSE id

-----------------------------------------------------------------------------
(* One occurrence, two ids. *)

\* An archived row is found only by what the archive leaves out.
WrongMatches(a, o) == Present(a) /\ ArchiveOf[a] = o /\ rows[a].charge = ChargeDay[o]

\* matchesArchiveInstallment: a posted instalment agrees with the row and its archive evidence.
Matches(a, o) ==
    o \in Instalments /\ Present(a) /\ rows[a].evidence /\ ArchiveOf[a] = o

Candidates(o) == {a \in Archives : Matches(a, o)}

\* findArchiveInstallment and resolveArchiveInstallments refuse what is ambiguous.
Resolvable(os) == \A o \in os : ~Present(o) => Cardinality(Candidates(o)) <= 1

\* The row an incoming posted row belongs to.
Canonical(o) ==
    IF ~Present(o) /\ Candidates(o) # {} THEN CHOOSE a \in Candidates(o) : TRUE ELSE o

\* refreshTransaction: the statement date is taken, the archive evidence is kept.
Refreshed(row, o) == [row EXCEPT !.status = "posted", !.charge = ChargeDay[o]]

\* upsertTransactions.
Upserted(b) ==
    [id \in Ids |->
        IF \E o \in b.posted : Canonical(o) = id
        THEN Refreshed(rows[id], CHOOSE o \in b.posted : Canonical(o) = id)
        ELSE IF id \in b.pending /\ ~Present(id) THEN [NoRow EXCEPT !.status = "pending"]
        ELSE rows[id]]

-----------------------------------------------------------------------------
(* Payments. *)

BilledOn(d) == {id \in Ids : rows[id].status = "posted" /\ rows[id].charge = d}
Worth(ids) == MapThenSumSet(LAMBDA id : Amount[OccurrenceOf(id)], ids)
Sum(d) == Worth(BilledOn(d))

EarliestBookedDate == Min({BuyDay[OccurrenceOf(id)] : id \in {i \in Ids : Present(i)}})

\* A cycle the ledger has only a part of is paid, too.
WrongDue(d) ==
    /\ BilledOn(d) # {} /\ d <= today - SettleDays /\ payments[d] = Unpaid
    /\ Sum(d) # 0

\* computeSyntheticPayments: the statement is settled, has no payment, is no partial cycle
\* and adds up to something.
Due(d) ==
    /\ BilledOn(d) # {} /\ d <= today - SettleDays /\ payments[d] = Unpaid
    /\ d >= EarliestBookedDate + PartialDays
    /\ Sum(d) # 0

-----------------------------------------------------------------------------
Init ==
    /\ today = 0
    /\ posted = [o \in Occurrences |-> Never] /\ pending = {}
    /\ rows = [id \in Ids |-> NoRow]
    /\ payments = [d \in ChargeDays |-> Unpaid] /\ credits = {}
    /\ phase = "idle" /\ batch = NoBatch /\ readOn = Never /\ created = {} /\ lastSuccess = Never

\* A scrape is written at the latest on the day after it.
Tomorrow ==
    /\ today < MaxDay
    /\ phase = "idle" \/ (phase = "read" /\ readOn = today)
    /\ today' = today + 1
    /\ UNCHANGED <<bank, rows, payments, credits, run>>

\* The bank shows a hold, or posts an occurrence.  Payments take no time.
BankMoves(o) ==
    /\ phase # "paying" /\ today \in BuyDay[o]..ChargeDay[o] + MaxLate /\ posted[o] = Never
    /\ \/ o \in Holds \ pending /\ pending' = pending \cup {o} /\ UNCHANGED posted
       \/ /\ o \in Holds => o \in pending
          /\ posted' = [posted EXCEPT ![o] = today] /\ pending' = pending \ {o}
    /\ UNCHANGED <<today, rows, payments, credits, run>>

\* The operator imports an archived row.  Sure kept the statement date of a row, Actual did
\* not; which rows the ledger has already is for the operator to see.
ImportArchive(a) ==
    LET o == ArchiveOf[a] IN
    /\ phase = "idle" /\ ~Present(a) /\ BuyDay[o] <= today
    /\ a \in Dated => posted[o] # Never
    /\ rows' = [rows EXCEPT ![a] = [status |-> "posted", evidence |-> TRUE,
                                    charge |-> IF a \in Dated THEN ChargeDay[o] ELSE Never]]
    /\ UNCHANGED <<today, bank, payments, credits, run>>

Scrape ==
    LET from == Max({StartDay, IF lastSuccess = Never THEN 0 ELSE lastSuccess - OverlapDays})
        InWindow(o) == BuyDay[o] >= from
    IN
    /\ phase = "idle" /\ phase' = "read" /\ readOn' = today
    /\ batch' = [posted |-> {o \in Occurrences : posted[o] # Never /\ InWindow(o)},
                 pending |-> {o \in pending : InWindow(o)}]
    /\ UNCHANGED <<today, bank, rows, payments, credits, created, lastSuccess>>

\* The scraped rows are written together, or the run fails.
UpsertTransactions ==
    /\ phase = "read"
    /\ IF Resolvable(batch.posted) THEN rows' = Upserted(batch) /\ phase' = "paying"
       ELSE phase' = "idle" /\ UNCHANGED rows
    /\ batch' = NoBatch /\ readOn' = Never
    /\ UNCHANGED <<today, bank, payments, credits, created, lastSuccess>>

\* The earliest first.
InsertSyntheticPayment(d) ==
    /\ phase = "paying" /\ Due(d) /\ \A e \in ChargeDays : Due(e) => d <= e
    /\ payments' = [payments EXCEPT ![d] = -Sum(d)] /\ created' = created \cup {d}
    /\ UNCHANGED <<today, bank, rows, credits, phase, batch, readOn, lastSuccess>>

\* The rows of the new payments are written, and the run is a success.
WritePayments ==
    /\ phase = "paying" /\ \A d \in ChargeDays : ~Due(d)
    /\ credits' = credits \cup created /\ created' = {}
    /\ phase' = "idle" /\ lastSuccess' = today
    /\ UNCHANGED <<today, bank, rows, payments, batch, readOn>>

\* The process dies, or the database is busy.
Crash ==
    /\ phase # "idle" /\ phase' = "idle" /\ batch' = NoBatch /\ readOn' = Never /\ created' = {}
    /\ UNCHANGED <<today, bank, rows, payments, credits, lastSuccess>>

\* The duplicate goes without leaving the archived row what it knew.
WrongCoalesce(as) ==
    /\ phase = "idle" /\ as # {}
    /\ \A a \in as : LET o == ArchiveOf[a] IN rows[o].status = "posted" /\ Candidates(o) = {a}
    /\ rows' = [id \in Ids |-> IF \E a \in as : ArchiveOf[a] = id THEN NoRow ELSE rows[id]]
    /\ UNCHANGED <<today, bank, payments, credits, run>>

\* coalesceArchiveInstallments: reviewed pairs of an archived row and the portal row that was
\* stored next to it.  That both rows are as they were reviewed makes it one step.
Coalesce(as) ==
    /\ phase = "idle" /\ as # {}
    /\ \A a \in as : LET o == ArchiveOf[a] IN rows[o].status = "posted" /\ Candidates(o) = {a}
    /\ rows' = [id \in Ids |->
                  IF id \in as THEN Refreshed(rows[id], ArchiveOf[id])
                  ELSE IF \E a \in as : ArchiveOf[a] = id THEN NoRow
                  ELSE rows[id]]
    /\ UNCHANGED <<today, bank, payments, credits, run>>

Next ==
    \/ Tomorrow \/ Scrape \/ UpsertTransactions \/ WritePayments \/ Crash
    \/ \E o \in Occurrences : BankMoves(o)
    \/ \E a \in Archives : ImportArchive(a)
    \/ \E as \in SUBSET Archives : Coalesce(as)
    \/ \E d \in ChargeDays : InsertSyntheticPayment(d)

Spec == Init /\ [][Next]_vars

-----------------------------------------------------------------------------
(* What the ledger promises of a card. *)

RowType == [status : {"absent", "pending", "posted"}, charge : ChargeDays \cup {Never},
            evidence : BOOLEAN]

TypeOK ==
    /\ today \in 0..MaxDay /\ pending \subseteq Occurrences
    /\ posted \in [Occurrences -> 0..MaxDay \cup {Never}]
    /\ rows \in [Ids -> RowType]
    /\ \A d \in ChargeDays : payments[d] \in Int
    /\ credits \subseteq ChargeDays /\ created \subseteq ChargeDays \ credits
    /\ phase \in {"idle", "read", "paying"} /\ (phase # "paying" => created = {})
    /\ batch.posted \cup batch.pending \subseteq Occurrences
    /\ readOn \in 0..MaxDay \cup {Never} /\ lastSuccess \in 0..MaxDay \cup {Never}

\* "Amounts are frozen once emitted", and a statement has one payment, of the rows billed on
\* it; an occurrence is billed by one row, except that nothing keeps an archived row with a
\* statement date from counting next to another row; no repair, alias, crash or rescrape loses
\* an occurrence.
Statement == INSTANCE CardStatement WITH
    stored <- {OccurrenceOf(id) : id \in {i \in Ids : Present(i)}},
    archived <- {ArchiveOf[a] : a \in {b \in Dated : Present(b)}},
    copies <- [o \in Occurrences |->
                  Cardinality({id \in Ids : rows[id].charge # Never /\ OccurrenceOf(id) = o})],
    paid <- payments
ImplementsStatement == Statement!Spec

\* A payment is the whole bill if the bank posted everything on it in time, although rows may
\* have been scraped a day before they are written and the first window starts in a cycle.
\* An archive reaches back further than the scraped rows do, so it voids the guarantee.
PaidInFull ==
    TypeOK /\ \A d \in ChargeDays :
        LET bill == {o \in Occurrences : ChargeDay[o] = d} IN
        /\ payments[d] # Unpaid /\ \A a \in Archives : ~Present(a)
        /\ \A o \in bill : posted[o] \in 0..d /\ posted[o] < BuyDay[o] + OverlapDays
        => payments[d] = -Worth(bill)

\* An instalment whose archived row is stored does not get a second row when it is posted: a
\* portal row next to it was there before, or has been a hold.  And what the archive said of
\* it is kept, by portal refreshes and by repairs.
NoNewTwin ==
    [][\A a \in Archives : LET o == ArchiveOf[a] IN
        /\ Present(a) /\ o \in Instalments /\ ~Present(o) => rows'[o].status # "posted"
        /\ rows[a].evidence => Present(a)' /\ rows'[a].evidence]_vars

\* "Emit one positive synthetic card payment row per charge date" (README): a payment that is
\* on record has its row.
PaymentsAreShown ==
    phase = "idle" => \A d \in ChargeDays : payments[d] # Unpaid => d \in credits

=============================================================================
