--------------------------- MODULE TransactionFeed ---------------------------
(***************************************************************************)
(* One card account from the bank to a consumer: the rows of a scrape get  *)
(* their ids (src/ids.ts), are written to the ledger by the scheduler      *)
(* (applySuccess, src/ledger/sqlite.ts) and served to a consumer that      *)
(* polls GET /simplefin/accounts with a window (src/simplefin/payload.ts). *)
(*                                                                         *)
(* The bank shows a transaction early (a future instalment), late, or as a *)
(* hold that posts or is voided.  Transactions of one Kind look alike: the *)
(* same identifier, amount, description and memo.  Time is counted in      *)
(* days, -1 (Never) is an absent timestamp.                                *)
(***************************************************************************)
EXTENDS Integers, FiniteSets

CONSTANTS
    Txns,           \* the bank's transactions, numbered in the order it lists them
    Kind,           \* Kind[t]: everything a fingerprint takes from t, but the date
    PurchaseDay,    \* PurchaseDay[t]: its day at the bank
    ChargeDay,      \* ChargeDay[t]: the day it is billed, known once it is posted
    Holds,          \* transactions the bank shows as a hold first, and may drop
    ChargeMode,     \* dateMode: "charge"
    IncludePending, \* includePending
    OverlapDays,    \* config.overlapDays
    Rewind,         \* days a consumer reaches back before its last sync
    MaxDay          \* bound on the calendar, for model checking

Never == -1
Day == Nat \cup {Never}

ASSUME TxnsAssumption == Txns \subseteq Nat /\ IsFiniteSet(Txns) /\ Holds \subseteq Txns
ASSUME DaysAssumption ==
    /\ PurchaseDay \in [Txns -> Nat] /\ ChargeDay \in [Txns -> Nat]
    /\ OverlapDays \in Nat /\ MaxDay \in Nat
ASSUME FlagsAssumption == ChargeMode \in BOOLEAN /\ IncludePending \in BOOLEAN
\* A scrape is committed within a day of its timestamp, and consumers rewind further than that.
ASSUME RewindAssumption == Rewind \in Nat \ {0}

VARIABLES
    today,
    bank,           \* bank[t]: what the bank shows of t
    phase,          \* how far the scrape has come
    batch,          \* what the scrape has read from the bank
    scrapedAt,      \* the timestamp all its rows get
    lastSuccess,    \* the company's lastSuccessAt
    accountSeen,    \* the account row's lastSeen
    rows,           \* rows[id]: the transactions table
    lastSync,       \* when the consumer last synced
    imported,       \* imported[id]: what the consumer holds
    \* Observation only: no action reads these.
    everPosted,     \* transactions some written scrape has shown as posted
    reported        \* ids of the last scrape whose account row was written

vars == <<today, bank, phase, batch, scrapedAt, lastSuccess, accountSeen, rows, lastSync,
          imported, everPosted, reported>>
ledger == <<lastSuccess, accountSeen, rows>>
consumer == <<lastSync, imported>>

-----------------------------------------------------------------------------
(* Ids.  An operator named Wrong... is the faulty variant of the definition that follows it; *)
(* it belongs to no specification and is what the properties are tested against.             *)

Status == {"pending", "posted"}

\* A transaction as a scrape shows it.
Scraped == [txn : Txns, status : Status]

\* processedDate, which only posted transactions have.
ChargeDate(x) == IF x.status = "posted" THEN ChargeDay[x.txn] ELSE Never
BookedDate(x) == IF ChargeMode /\ x.status = "posted" THEN ChargeDay[x.txn] ELSE PurchaseDay[x.txn]

Fingerprint(x) == <<Kind[x.txn], BookedDate(x)>>
Fingerprints == {Fingerprint(x) : x \in Scraped}
Ids == [fingerprint : Fingerprints, ordinal : 1..Cardinality(Txns)]

Before(x, y) == ChargeDate(x) < ChargeDate(y) \/ (ChargeDate(x) = ChargeDate(y) /\ x.txn < y.txn)

\* The ordinal counts every row of the account.
WrongIdOf(x, all) ==
    [fingerprint |-> Fingerprint(x), ordinal |-> Cardinality({y \in all : y = x \/ Before(y, x)})]

\* Rows of one scrape that look alike are told apart by an ordinal.
IdOf(x, all) ==
    [fingerprint |-> Fingerprint(x),
     ordinal |-> Cardinality({y \in all : Fingerprint(y) = Fingerprint(x) /\ (y = x \/ Before(y, x))})]

IdsOf(all) == {IdOf(x, all) : x \in all}

-----------------------------------------------------------------------------
(* The ledger row.  `shown` is the date the feed recovers from the raw source row. *)

Row == [status : Status \cup {"absent"}, shown : Day, firstSeen : Day, lastSeen : Day, postedSeenAt : Day]
NoRow == [status |-> "absent", shown |-> Never, firstSeen |-> Never, lastSeen |-> Never,
          postedSeenAt |-> Never]

Inserted(x, at) == [status |-> x.status, shown |-> PurchaseDay[x.txn], firstSeen |-> at,
                    lastSeen |-> at, postedSeenAt |-> Never]

Refreshed(row, x, at) ==
    LET posts == row.status = "pending" /\ x.status = "posted" IN
    [row EXCEPT !.status = IF posts THEN "posted" ELSE row.status,
                !.shown = PurchaseDay[x.txn], !.lastSeen = at,
                !.postedSeenAt = IF posts /\ row.postedSeenAt = Never THEN at ELSE row.postedSeenAt]

Upserted(row, x, at) == IF row.status = "absent" THEN Inserted(x, at) ELSE Refreshed(row, x, at)

-----------------------------------------------------------------------------
(* What a request is answered with. *)

\* A hold is current while the last scrape of its account still showed it.
IsCurrentPending(row) == row.status = "pending" => row.lastSeen >= accountSeen

\* The day a hold was seen to post does not count.
WrongFirstSeenInWindow(row, start, end) == start <= row.firstSeen /\ row.firstSeen < end

\* First seen, or first seen posted, inside the window.
FirstSeenInWindow(row, start, end) ==
    \E at \in {row.firstSeen, row.postedSeenAt} \ {Never} : start <= at /\ at < end

Served(start, end) ==
    {id \in Ids : LET row == rows[id] IN
        /\ row.status \in (IF IncludePending THEN Status ELSE {"posted"})
        /\ IsCurrentPending(row)
        /\ row.shown < end
        /\ row.shown >= start \/ FirstSeenInWindow(row, start, end)}

-----------------------------------------------------------------------------
Init ==
    /\ today = 0
    /\ bank = [t \in Txns |-> "none"]
    /\ phase = "idle" /\ batch = {} /\ scrapedAt = Never
    /\ lastSuccess = Never /\ accountSeen = Never
    /\ rows = [id \in Ids |-> NoRow]
    /\ lastSync = Never /\ imported = [id \in Ids |-> "absent"]
    /\ everPosted = {} /\ reported = {}

\* The bank shows a transaction, posts a hold or drops one.
BankMoves(t) ==
    /\ \/ bank[t] = "none" /\ bank' = [bank EXCEPT ![t] = IF t \in Holds THEN "pending" ELSE "posted"]
       \/ bank[t] = "pending" /\ \E s \in {"posted", "void"} : bank' = [bank EXCEPT ![t] = s]
    /\ UNCHANGED <<today, phase, batch, scrapedAt, ledger, consumer, everPosted, reported>>

\* The library returns what the bank shows from the start of the window on.
Scrape ==
    LET from == IF lastSuccess = Never THEN Never ELSE lastSuccess - OverlapDays IN
    /\ phase = "idle"
    /\ phase' = "read"
    /\ batch' = {x \in Scraped : bank[x.txn] = x.status /\ PurchaseDay[x.txn] >= from}
    /\ UNCHANGED <<today, bank, scrapedAt, ledger, consumer, everPosted, reported>>

\* All rows get one timestamp; no two scrapes share one.
Normalise ==
    /\ phase = "read" /\ today > accountSeen
    /\ phase' = "normalised"
    /\ scrapedAt' = today
    /\ UNCHANGED <<today, bank, batch, ledger, consumer, everPosted, reported>>

\* The account keeps the day it was first seen.
WrongUpsertAccount ==
    /\ phase = "normalised"
    /\ phase' = "account"
    /\ accountSeen' = IF accountSeen = Never THEN scrapedAt ELSE accountSeen
    /\ reported' = IdsOf(batch)
    /\ UNCHANGED <<today, bank, batch, scrapedAt, lastSuccess, rows, consumer, everPosted>>

UpsertAccount ==
    /\ phase = "normalised"
    /\ phase' = "account"
    /\ accountSeen' = scrapedAt
    /\ reported' = IdsOf(batch)
    /\ UNCHANGED <<today, bank, batch, scrapedAt, lastSuccess, rows, consumer, everPosted>>

UpsertTransactions ==
    /\ phase = "account"
    /\ phase' = "rows"
    /\ rows' = [id \in Ids |->
                   IF id \in IdsOf(batch)
                   THEN Upserted(rows[id], CHOOSE x \in batch : IdOf(x, batch) = id, scrapedAt)
                   ELSE rows[id]]
    /\ everPosted' = everPosted \cup {x.txn : x \in {y \in batch : y.status = "posted"}}
    /\ UNCHANGED <<today, bank, batch, scrapedAt, lastSuccess, accountSeen, consumer, reported>>

EndScrape == phase' = "idle" /\ batch' = {} /\ scrapedAt' = Never

Succeed ==
    /\ phase = "rows"
    /\ lastSuccess' = today
    /\ EndScrape
    /\ UNCHANGED <<today, bank, accountSeen, rows, consumer, everPosted, reported>>

\* The scrape fails, or the process dies between two writes.
Abandon ==
    /\ phase # "idle"
    /\ EndScrape
    /\ UNCHANGED <<today, bank, ledger, consumer, everPosted, reported>>

\* GET /accounts from midnight `Rewind` days before the last sync (all history the first time)
\* to the end of today.  The consumer adds ids it does not know and lets a hold become posted.
Sync ==
    LET start  == IF lastSync = Never THEN Never ELSE lastSync - Rewind
        served == Served(start, today + 1)
    IN
    /\ imported' = [id \in Ids |-> IF id \in served /\ imported[id] # "posted"
                                   THEN rows[id].status ELSE imported[id]]
    /\ lastSync' = today
    /\ UNCHANGED <<today, bank, phase, batch, scrapedAt, ledger, everPosted, reported>>

\* Midnight.  From the timestamp to the first write at most one passes; the writes are synchronous.
Tick ==
    /\ today < MaxDay
    /\ phase \in {"idle", "read"} \/ (phase = "normalised" /\ today = scrapedAt)
    /\ today' = today + 1
    /\ UNCHANGED <<bank, phase, batch, scrapedAt, ledger, consumer, everPosted, reported>>

Next ==
    \/ \E t \in Txns : BankMoves(t)
    \/ Scrape \/ Normalise \/ UpsertAccount \/ UpsertTransactions \/ Succeed \/ Abandon
    \/ Sync
    \/ Tick

Spec == Init /\ [][Next]_vars

-----------------------------------------------------------------------------
(* Properties. *)

\* A row in the table has its days; only a hold that posted has the day it was seen to post.
WellFormed(row) ==
    /\ row.status # "absent" => row.firstSeen \in Nat /\ row.lastSeen \in Nat /\ row.shown \in Nat
    /\ row.postedSeenAt # Never => row.status = "posted"

\* Every variable has its type, and the rows the columns the feed reads them by.
TypeOK ==
    /\ today \in Nat
    /\ bank \in [Txns -> {"none", "pending", "posted", "void"}]
    /\ phase \in {"idle", "read", "normalised", "account", "rows"}
    /\ batch \subseteq Scraped
    /\ scrapedAt \in Day /\ lastSuccess \in Day /\ accountSeen \in Day
    /\ rows \in [Ids -> Row]
    /\ \A id \in Ids : WellFormed(rows[id])
    /\ lastSync \in Day /\ imported \in [Ids -> Status \cup {"absent"}]
    /\ everPosted \subseteq Txns
    /\ reported \subseteq Ids

\* However late a row was published, however long it was a hold, whether hidden or served, and
\* however many scrapes failed in between: after a sync the consumer holds every posted row of
\* the ledger that is dated today or before (payload.ts: a row is in the window by its date or
\* by the moment it was first seen, or first seen posted).
HoldsAllPosted ==
    \A id \in Ids : rows[id].status = "posted" /\ rows[id].shown <= today => imported[id] = "posted"
NothingMissed == [][Sync => HoldsAllPosted']_vars

\* The ledger holds as many posted rows of a kind and date as the bank has shown: rows that
\* look alike are neither merged nor stored twice by later scrapes with other windows
\* (ids.ts: ids are unique per row and stable across runs).
StoredOnce ==
    \A f \in Fingerprints :
        Cardinality({id \in Ids : id.fingerprint = f /\ rows[id].status = "posted"})
        = Cardinality({t \in everPosted : Fingerprint([txn |-> t, status |-> "posted"]) = f})

\* A hold the last scrape of the account no longer showed is not served, even if that scrape
\* died before it wrote its rows (isCurrentPending compares two tables written one by one).
VanishedPendingHidden ==
    \A id \in Ids : rows[id].status = "pending" /\ IsCurrentPending(rows[id]) => id \in reported

=============================================================================
