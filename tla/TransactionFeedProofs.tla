------------------------ MODULE TransactionFeedProofs ------------------------
(***************************************************************************)
(* The feed for every set of transactions, every overlap and rewind: types,*)
(* vanished holds stay hidden, a sync leaves no posted row behind, and rows*)
(* that look alike are stored once each.                                   *)
(***************************************************************************)
EXTENDS TransactionFeed, FiniteSetTheorems, TLAPS

-----------------------------------------------------------------------------
(* Ids. *)

\* A scrape shows a transaction once.
OneRowEach(all) == \A x, y \in all : x.txn = y.txn => x = y

\* Ordinals never run past the number of transactions.
LEMMA IdOfType ==
    ASSUME NEW all \in SUBSET Scraped, OneRowEach(all), NEW x \in all
    PROVE  IdOf(x, all) \in Ids
<1> DEFINE A == {y \in all : Fingerprint(y) = Fingerprint(x) /\ (y = x \/ Before(y, x))}
           f == [y \in A |-> y.txn]
<1>1. f \in Injection(A, Txns)
  <2>1. A \subseteq all
    OBVIOUS
  <2> HIDE DEF A
  <2>2. f \in [A -> Txns]
    BY <2>1 DEF Scraped
  <2>3. \A a, b \in A : f[a] = f[b] => a = b
    BY <2>1 DEF OneRowEach
  <2> QED BY <2>2, <2>3 DEF Injection, IsInjective
<1>2. IsFiniteSet(A) /\ Cardinality(A) <= Cardinality(Txns)
  <2> HIDE DEF A, f
  <2> QED BY <1>1, FS_Injection, TxnsAssumption
<1>3. x \in A
  OBVIOUS
<1>4. Cardinality(A) \in Nat /\ Cardinality(A) # 0 /\ Cardinality(Txns) \in Nat
  <2> HIDE DEF A
  <2> QED BY <1>2, <1>3, FS_CardinalityType, FS_EmptySet, TxnsAssumption
<1>5. Cardinality(A) \in 1..Cardinality(Txns)
  BY <1>2, <1>4
<1>6. Fingerprint(x) \in Fingerprints
  BY DEF Fingerprints
<1> QED BY <1>5, <1>6 DEF IdOf, Ids

-----------------------------------------------------------------------------
(* Rows. *)

LEMMA ScrapedType ==
    ASSUME NEW x \in Scraped
    PROVE  /\ x.txn \in Txns /\ x.status \in Status /\ PurchaseDay[x.txn] \in Nat
BY DaysAssumption DEF Scraped

\* What writing a scraped row to the table does to it.
LEMMA UpsertedFacts ==
    ASSUME NEW row \in Row, WellFormed(row), NEW x \in Scraped, NEW at \in Nat
    PROVE  LET r == Upserted(row, x, at) IN
           /\ r \in Row /\ WellFormed(r)
           /\ r.shown = PurchaseDay[x.txn] /\ r.lastSeen = at
           /\ row.status = "absent" => r.firstSeen = at /\ r.postedSeenAt = Never
           /\ row.status # "absent" => r.firstSeen = row.firstSeen
           /\ row.status = "pending" /\ r.status = "posted" => r.postedSeenAt = at
           /\ row.status = "posted" => r.status = "posted" /\ r.postedSeenAt = row.postedSeenAt
<1> DEFINE r == Upserted(row, x, at)
<1>1. CASE row.status = "absent"
  <2>1. r = [status |-> x.status, shown |-> PurchaseDay[x.txn], firstSeen |-> at,
             lastSeen |-> at, postedSeenAt |-> Never]
    BY <1>1 DEF Upserted, Inserted
  <2>2. r \in Row /\ WellFormed(r)
    BY <2>1, ScrapedType DEF Row, Day, Never, WellFormed, Status
  <2> QED BY <1>1, <2>1, <2>2
<1>2. CASE row.status # "absent"
  <2>1. r = Refreshed(row, x, at)
    BY <1>2 DEF Upserted
  <2>2. row.firstSeen \in Nat /\ (row.status = "pending" => row.postedSeenAt = Never)
    BY <1>2 DEF WellFormed
  <2>3. /\ r.status = (IF row.status = "pending" /\ x.status = "posted" THEN "posted" ELSE row.status)
        /\ r.shown = PurchaseDay[x.txn] /\ r.firstSeen = row.firstSeen /\ r.lastSeen = at
        /\ r.postedSeenAt = (IF row.status = "pending" /\ x.status = "posted" /\ row.postedSeenAt = Never
                             THEN at ELSE row.postedSeenAt)
    BY <2>1 DEF Refreshed, Row
  <2>4. r \in Row
    BY <2>1, ScrapedType DEF Refreshed, Row, Day, Status
  <2>5. WellFormed(r)
    BY <1>2, <2>2, <2>3, ScrapedType DEF WellFormed
  <2> QED BY <1>2, <2>2, <2>3, <2>4, <2>5
<1> QED BY <1>1, <1>2

-----------------------------------------------------------------------------
(* The invariant the theorems rest on. *)

\* A scrape under way is stamped after the account's last one, at most a day ago.
ScrapeClock ==
    /\ OneRowEach(batch)
    /\ phase \in {"normalised", "account", "rows"} =>
          scrapedAt \in Nat /\ scrapedAt <= today /\ today <= scrapedAt + 1
    /\ phase = "normalised" => accountSeen < scrapedAt
    /\ phase \in {"account", "rows"} => accountSeen = scrapedAt
    /\ phase = "account" => reported = IdsOf(batch)

\* No row is newer than its account.
RowsNotAhead == \A id \in Ids : rows[id].lastSeen <= accountSeen

FeedInv == TypeOK /\ ScrapeClock /\ RowsNotAhead /\ VanishedPendingHidden

LEMMA InitFeedInv == Init => FeedInv
<1> SUFFICES ASSUME Init PROVE FeedInv
  OBVIOUS
<1>1. NoRow \in Row /\ WellFormed(NoRow) /\ NoRow.status = "absent" /\ NoRow.lastSeen = Never
  BY DEF NoRow, Row, Day, WellFormed
<1>2. TypeOK
  BY <1>1 DEF Init, TypeOK, Day
<1>3. ScrapeClock /\ RowsNotAhead /\ VanishedPendingHidden
  BY <1>1 DEF Init, ScrapeClock, OneRowEach, RowsNotAhead, VanishedPendingHidden, Never
<1> QED BY <1>2, <1>3 DEF FeedInv

LEMMA BatchIds ==
    ASSUME FeedInv
    PROVE  /\ \A x \in batch : IdOf(x, batch) \in Ids
           /\ IdsOf(batch) \subseteq Ids
BY IdOfType DEF FeedInv, TypeOK, ScrapeClock, IdsOf

\* Every row of the table after a write: untouched, or the upsert of a scraped row.
LEMMA WrittenRow ==
    ASSUME FeedInv, UpsertTransactions, NEW id \in Ids
    PROVE  \/ id \notin IdsOf(batch) /\ rows'[id] = rows[id]
           \/ \E x \in batch : /\ IdOf(x, batch) = id /\ id \in IdsOf(batch)
                               /\ rows'[id] = Upserted(rows[id], x, scrapedAt)
<1>1. CASE id \in IdsOf(batch)
  <2> DEFINE y == CHOOSE x \in batch : IdOf(x, batch) = id
  <2>1. \E x \in batch : IdOf(x, batch) = id
    BY <1>1 DEF IdsOf
  <2>2. y \in batch /\ IdOf(y, batch) = id
    BY <2>1
  <2>3. rows'[id] = Upserted(rows[id], y, scrapedAt)
    BY <1>1 DEF UpsertTransactions
  <2> QED BY <1>1, <2>2, <2>3
<1>2. CASE id \notin IdsOf(batch)
  BY <1>2 DEF UpsertTransactions
<1> QED BY <1>1, <1>2

LEMMA UpsertKeepsInv == FeedInv /\ UpsertTransactions => FeedInv'
<1> SUFFICES ASSUME FeedInv, UpsertTransactions PROVE FeedInv'
  OBVIOUS
<1>1. /\ phase = "account" /\ phase' = "rows"
      /\ UNCHANGED <<today, bank, batch, scrapedAt, lastSuccess, accountSeen, lastSync, imported, reported>>
      /\ everPosted' \subseteq Txns
  <2>1. \A x \in batch : x.txn \in Txns
    BY ScrapedType DEF FeedInv, TypeOK
  <2> QED BY <2>1 DEF UpsertTransactions, consumer, FeedInv, TypeOK
<1>2. /\ scrapedAt \in Nat /\ accountSeen = scrapedAt /\ reported = IdsOf(batch) /\ batch \subseteq Scraped
      /\ rows \in [Ids -> Row] /\ \A id \in Ids : WellFormed(rows[id])
  BY <1>1 DEF FeedInv, ScrapeClock, TypeOK
<1>3. ASSUME NEW id \in Ids
      PROVE  /\ rows'[id] \in Row /\ WellFormed(rows'[id])
             /\ rows'[id].lastSeen <= accountSeen
             /\ id \in IdsOf(batch) \/ rows'[id] = rows[id]
  <2>1. CASE rows'[id] = rows[id]
    BY <1>2, <2>1 DEF FeedInv, RowsNotAhead
  <2>2. CASE \E x \in batch : id \in IdsOf(batch) /\ rows'[id] = Upserted(rows[id], x, scrapedAt)
    <3> PICK x \in batch : id \in IdsOf(batch) /\ rows'[id] = Upserted(rows[id], x, scrapedAt)
      BY <2>2
    <3>1. x \in Scraped /\ rows[id] \in Row /\ WellFormed(rows[id])
      BY <1>2
    <3> QED BY <1>2, <3>1, UpsertedFacts
  <2> QED BY <2>1, <2>2, WrittenRow
<1>4. TypeOK'
  <2>1. rows' \in [Ids -> Row]
    <3>1. rows' = [id \in Ids |-> rows'[id]]
      BY DEF UpsertTransactions
    <3> QED BY <1>3, <3>1
  <2> QED BY <1>1, <1>3, <2>1 DEF FeedInv, TypeOK
<1>5. ScrapeClock'
  BY <1>1 DEF FeedInv, ScrapeClock
<1>6. RowsNotAhead'
  BY <1>1, <1>3 DEF RowsNotAhead
<1>7. VanishedPendingHidden'
  BY <1>1, <1>2, <1>3 DEF FeedInv, VanishedPendingHidden, IsCurrentPending
<1> QED BY <1>4, <1>5, <1>6, <1>7 DEF FeedInv

LEMMA NextKeepsFeedInv == FeedInv /\ [Next]_vars => FeedInv'
<1> SUFFICES ASSUME FeedInv, [Next]_vars PROVE FeedInv'
  OBVIOUS
<1> USE DEF ledger, consumer
<1>1. ASSUME NEW t \in Txns, BankMoves(t) PROVE FeedInv'
  <2>1. bank' \in [Txns -> {"none", "pending", "posted", "void"}]
    BY <1>1 DEF BankMoves, FeedInv, TypeOK
  <2> QED BY <1>1, <2>1 DEF BankMoves, FeedInv, TypeOK, ScrapeClock, RowsNotAhead,
                            VanishedPendingHidden, IsCurrentPending
<1>2. CASE Scrape
  <2>1. batch' \subseteq Scraped /\ \A x \in batch' : x.status = bank[x.txn]
    BY <1>2 DEF Scrape
  <2>2. OneRowEach(batch')
    BY <2>1 DEF OneRowEach, Scraped
  <2> QED BY <1>2, <2>1, <2>2 DEF Scrape, FeedInv, TypeOK, ScrapeClock, OneRowEach, RowsNotAhead,
                                  VanishedPendingHidden, IsCurrentPending
<1>3. CASE Normalise
  BY <1>3 DEF Normalise, FeedInv, TypeOK, Day, ScrapeClock, OneRowEach, RowsNotAhead,
              VanishedPendingHidden, IsCurrentPending
<1>4. CASE UpsertAccount
  <2>1. scrapedAt \in Nat /\ accountSeen < scrapedAt /\ accountSeen \in Day
    BY <1>4 DEF UpsertAccount, FeedInv, ScrapeClock, TypeOK
  <2>2. \A id \in Ids : rows[id].lastSeen \in Int /\ rows[id].lastSeen < scrapedAt
    BY <2>1 DEF FeedInv, RowsNotAhead, TypeOK, Row, Day, Never
  <2>3. IdsOf(batch) \subseteq Ids
    BY BatchIds
  <2>4. TypeOK'
    BY <1>4, <2>1, <2>3 DEF UpsertAccount, FeedInv, TypeOK, Day
  <2>5. ScrapeClock'
    BY <1>4, <2>1 DEF UpsertAccount, FeedInv, ScrapeClock, OneRowEach, IdsOf
  <2>6. RowsNotAhead' /\ VanishedPendingHidden'
    BY <1>4, <2>1, <2>2 DEF UpsertAccount, RowsNotAhead, VanishedPendingHidden, IsCurrentPending
  <2> QED BY <2>4, <2>5, <2>6 DEF FeedInv
<1>5. CASE UpsertTransactions
  BY <1>5, UpsertKeepsInv
<1>6. CASE Succeed
  BY <1>6 DEF Succeed, EndScrape, FeedInv, TypeOK, Day, ScrapeClock, OneRowEach, RowsNotAhead,
              VanishedPendingHidden, IsCurrentPending
<1>7. CASE Abandon
  BY <1>7 DEF Abandon, EndScrape, FeedInv, TypeOK, Day, ScrapeClock, OneRowEach, RowsNotAhead,
              VanishedPendingHidden, IsCurrentPending
<1>8. CASE Sync
  <2>1. imported' \in [Ids -> Status \cup {"absent"}]
    <3>1. \A id \in Ids : rows[id].status \in Status \cup {"absent"} /\ imported[id] \in Status \cup {"absent"}
      BY DEF FeedInv, TypeOK, Row
    <3> QED BY <1>8, <3>1 DEF Sync
  <2>2. UNCHANGED <<today, bank, phase, batch, scrapedAt, lastSuccess, accountSeen, rows, everPosted, reported>>
        /\ lastSync' = today
    BY <1>8 DEF Sync
  <2> QED BY <2>1, <2>2 DEF FeedInv, TypeOK, Day, ScrapeClock, RowsNotAhead,
                            VanishedPendingHidden, IsCurrentPending
<1>9. CASE Tick
  BY <1>9 DEF Tick, FeedInv, TypeOK, ScrapeClock, RowsNotAhead, VanishedPendingHidden, IsCurrentPending
<1>10. CASE UNCHANGED vars
  BY <1>10 DEF vars, FeedInv, TypeOK, ScrapeClock, RowsNotAhead, VanishedPendingHidden, IsCurrentPending
<1> QED BY <1>1, <1>2, <1>3, <1>4, <1>5, <1>6, <1>7, <1>8, <1>9, <1>10 DEF Next

\* Types and well-formed rows, for any number of transactions: ordinals stay within bounds
\* and only a hold that posted carries the day it was seen to post.
THEOREM FeedTypeCorrect == Spec => []TypeOK
<1>1. FeedInv => TypeOK
  BY DEF FeedInv
<1> QED BY <1>1, InitFeedInv, NextKeepsFeedInv, PTL DEF Spec

\* A hold the last scrape no longer showed is never served, wherever that scrape stopped.
THEOREM VanishedPendingStaysHidden == Spec => []VanishedPendingHidden
<1>1. FeedInv => VanishedPendingHidden
  BY DEF FeedInv
<1> QED BY <1>1, InitFeedInv, NextKeepsFeedInv, PTL DEF Spec

-----------------------------------------------------------------------------
(* Nothing is missed.  A posted row the consumer does not hold yet either is dated after its   *)
(* last sync or was first seen posted within the rewind of it, so the next window reaches it. *)

\* Rows that get one id are dated alike in the feed.
LookAlikesShareDay ==
    \A x, y \in Scraped : Fingerprint(x) = Fingerprint(y) => PurchaseDay[x.txn] = PurchaseDay[y.txn]

LEMMA PurchaseModeSharesDay == ASSUME ~ChargeMode PROVE LookAlikesShareDay
BY DEF LookAlikesShareDay, Fingerprint, BookedDate

SeenPosted(row) == IF row.postedSeenAt # Never THEN row.postedSeenAt ELSE row.firstSeen

Reachable(row) == lastSync = Never \/ row.shown > lastSync \/ SeenPosted(row) >= lastSync - Rewind

RowDated(id) == \A x \in Scraped : Fingerprint(x) = id.fingerprint => rows[id].shown = PurchaseDay[x.txn]

WindowInv ==
    /\ lastSync <= today
    /\ \A id \in Ids : rows[id].status # "absent" => rows[id].firstSeen <= today /\ rows[id].postedSeenAt <= today
    /\ \A id \in Ids : rows[id].status # "absent" => RowDated(id)
    /\ \A id \in Ids : rows[id].status = "posted" /\ imported[id] # "posted" => Reachable(rows[id])

LEMMA RowInts ==
    ASSUME FeedInv, NEW id \in Ids
    PROVE  /\ rows[id] \in Row /\ WellFormed(rows[id])
           /\ rows[id].shown \in Int /\ rows[id].firstSeen \in Int /\ rows[id].postedSeenAt \in Int
           /\ rows[id].status \in {"pending", "posted", "absent"}
           /\ today \in Nat /\ lastSync \in Int /\ lastSync >= -1 /\ Rewind \in Nat /\ Rewind >= 1
           /\ SeenPosted(rows[id]) \in Int
<1>1. rows[id] \in Row /\ WellFormed(rows[id]) /\ today \in Nat /\ lastSync \in Day
  BY DEF FeedInv, TypeOK
<1> QED BY <1>1, RewindAssumption DEF Row, Day, Never, Status, SeenPosted

LEMMA WindowFrame ==
    ASSUME FeedInv, WindowInv, UNCHANGED <<rows, imported, lastSync>>, today' \in Int, today <= today'
    PROVE  WindowInv'
<1>1. lastSync \in Int /\ today \in Int
  BY DEF FeedInv, TypeOK, Day, Never
<1>2. \A id \in Ids : rows[id].firstSeen \in Int /\ rows[id].postedSeenAt \in Int
  BY RowInts
<1> QED BY <1>1, <1>2 DEF WindowInv, RowDated, Reachable

LEMMA InitWindowInv == Init => WindowInv
BY DEF Init, WindowInv, NoRow, Never

\* A sync is served every posted row that is reachable and dated today or before.
LEMMA SyncServesPosted ==
    ASSUME FeedInv, WindowInv, Sync, NEW id \in Ids, rows[id].status = "posted", rows[id].shown <= today
    PROVE  imported'[id] = "posted"
<1> DEFINE start  == IF lastSync = Never THEN Never ELSE lastSync - Rewind
           served == Served(start, today + 1)
<1>1. imported'[id] = IF id \in served /\ imported[id] # "posted" THEN "posted" ELSE imported[id]
  BY DEF Sync
<1>2. CASE imported[id] # "posted"
  <2>1. rows[id].shown \in Nat
    BY RowInts DEF WellFormed
  <2>2. rows[id].firstSeen \in Nat /\ rows[id].firstSeen <= today /\ rows[id].postedSeenAt <= today
    BY RowInts DEF WellFormed, WindowInv
  <2>3. rows[id].shown >= start \/ FirstSeenInWindow(rows[id], start, today + 1)
    <3>1. Reachable(rows[id])
      BY <1>2 DEF WindowInv
    <3>2. CASE lastSync = Never \/ rows[id].shown > lastSync
      BY <3>2, <2>1, RowInts DEF Never
    <3>3. CASE lastSync # Never /\ SeenPosted(rows[id]) >= lastSync - Rewind
      <4>1. SeenPosted(rows[id]) \in {rows[id].firstSeen, rows[id].postedSeenAt} \ {Never}
        BY <2>2 DEF SeenPosted, Never
      <4>2. start <= SeenPosted(rows[id]) /\ SeenPosted(rows[id]) < today + 1
        BY <3>3, <2>2, RowInts DEF SeenPosted
      <4> QED BY <4>1, <4>2 DEF FirstSeenInWindow
    <3> QED BY <3>1, <3>2, <3>3 DEF Reachable
  <2>4. rows[id].shown < today + 1
    BY RowInts
  <2>5. id \in served
    BY <2>3, <2>4 DEF Served, IsCurrentPending, Status
  <2> QED BY <1>1, <1>2, <2>5
<1> QED BY <1>1, <1>2

LEMMA SyncKeepsWindow == ASSUME FeedInv, WindowInv, Sync PROVE WindowInv'
<1>1. lastSync' = today /\ UNCHANGED <<today, rows>>
  BY DEF Sync, ledger
<1>2. ASSUME NEW id \in Ids, rows'[id].status = "posted", imported'[id] # "posted"
      PROVE  Reachable(rows[id])'
  <2>1. ~(rows[id].shown <= today)
    BY <1>1, <1>2, SyncServesPosted
  <2>2. rows[id].shown > lastSync'
    BY <1>1, <2>1, RowInts
  <2> QED BY <1>1, <2>2 DEF Reachable
<1>3. today \in Nat
  BY DEF FeedInv, TypeOK
<1> QED BY <1>1, <1>2, <1>3 DEF WindowInv, RowDated

LEMMA UpsertKeepsWindow ==
    ASSUME FeedInv, WindowInv, UpsertTransactions, LookAlikesShareDay
    PROVE  WindowInv'
<1>1. UNCHANGED <<today, lastSync, imported>>
  BY DEF UpsertTransactions, consumer
<1>2. /\ scrapedAt \in Nat /\ scrapedAt <= today /\ today <= scrapedAt + 1
      /\ batch \subseteq Scraped /\ lastSync <= today
  BY DEF UpsertTransactions, FeedInv, ScrapeClock, TypeOK, WindowInv
<1>3. ASSUME NEW id \in Ids
      PROVE  /\ rows'[id].status # "absent" =>
                    rows'[id].firstSeen <= today /\ rows'[id].postedSeenAt <= today
             /\ rows'[id].status # "absent" => RowDated(id)'
             /\ rows'[id].status = "posted" /\ imported[id] # "posted" => Reachable(rows'[id])
  <2>1. CASE rows'[id] = rows[id]
    BY <2>1 DEF WindowInv, RowDated
  <2>2. CASE \E x \in batch : IdOf(x, batch) = id /\ rows'[id] = Upserted(rows[id], x, scrapedAt)
    <3> DEFINE row == rows[id]
    <3> PICK x \in batch : IdOf(x, batch) = id /\ rows'[id] = Upserted(row, x, scrapedAt)
      BY <2>2
    <3> DEFINE r == Upserted(row, x, scrapedAt)
    <3>1. x \in Scraped /\ id.fingerprint = Fingerprint(x)
      BY <1>2 DEF IdOf
    <3>2. /\ r \in Row /\ WellFormed(r)
          /\ r.shown = PurchaseDay[x.txn] /\ r.lastSeen = scrapedAt
          /\ row.status = "absent" => r.firstSeen = scrapedAt /\ r.postedSeenAt = Never
          /\ row.status # "absent" => r.firstSeen = row.firstSeen
          /\ row.status = "pending" /\ r.status = "posted" => r.postedSeenAt = scrapedAt
          /\ row.status = "posted" => r.status = "posted" /\ r.postedSeenAt = row.postedSeenAt
      BY <1>2, <3>1, RowInts, UpsertedFacts
    <3> HIDE DEF r
    <3>3. row.status # "absent" => row.firstSeen <= today /\ row.postedSeenAt <= today
      BY DEF WindowInv
    <3>4. r.status # "absent" => r.firstSeen <= today /\ r.postedSeenAt <= today
      BY <1>2, <3>2, <3>3, RowInts DEF WellFormed, Never
    <3>5. \A y \in Scraped : Fingerprint(y) = id.fingerprint => r.shown = PurchaseDay[y.txn]
      BY <3>1, <3>2, LookAlikesShareDay DEF LookAlikesShareDay
    <3>6. ASSUME r.status = "posted", imported[id] # "posted" PROVE Reachable(r)
      <4>1. CASE row.status = "posted"
        <5>1. Reachable(row) /\ RowDated(id)
          BY <3>6, <4>1 DEF WindowInv
        <5>2. row.shown = r.shown /\ SeenPosted(r) = SeenPosted(row)
          BY <3>1, <3>2, <4>1, <5>1 DEF RowDated, SeenPosted
        <5> QED BY <5>1, <5>2 DEF Reachable
      <4>2. CASE row.status # "posted"
        <5>1. SeenPosted(r) = scrapedAt
          BY <1>2, <3>2, <3>6, <4>2, RowInts DEF SeenPosted, Never
        <5> QED BY <5>1, <1>2, RowInts DEF Reachable
      <4> QED BY <4>1, <4>2
    <3>7. rows'[id] = r
      BY DEF r
    <3> QED BY <3>4, <3>5, <3>6, <3>7 DEF RowDated
  <2> QED BY <2>1, <2>2, WrittenRow
<1> QED BY <1>1, <1>2, <1>3 DEF WindowInv, Reachable

LEMMA NextKeepsWindow == ASSUME FeedInv, WindowInv, [Next]_vars, LookAlikesShareDay PROVE WindowInv'
<1> USE DEF ledger, consumer
<1>0. today \in Int
  BY DEF FeedInv, TypeOK
<1>1. CASE Sync
  BY <1>1, SyncKeepsWindow
<1>2. CASE UpsertTransactions
  BY <1>2, UpsertKeepsWindow
<1>3. CASE Tick
  <2>1. UNCHANGED <<rows, imported, lastSync>> /\ today' = today + 1
    BY <1>3 DEF Tick
  <2> QED BY <1>0, <2>1, WindowFrame
<1>4. CASE (\E t \in Txns : BankMoves(t)) \/ Scrape \/ Normalise \/ UpsertAccount \/ Succeed \/ Abandon
  <2>1. UNCHANGED <<today, rows, imported, lastSync>>
    BY <1>4 DEF BankMoves, Scrape, Normalise, UpsertAccount, Succeed, Abandon
  <2> QED BY <1>0, <2>1, WindowFrame
<1>5. CASE UNCHANGED vars
  BY <1>0, <1>5, WindowFrame DEF vars
<1> QED BY <1>1, <1>2, <1>3, <1>4, <1>5 DEF Next

\* After every sync the consumer holds all posted rows dated today or before, for every
\* overlap, every rewind of a day or more and any order of publications, failures and syncs,
\* when rows of one id share their purchase day.
THEOREM SyncMissesNothing == ASSUME LookAlikesShareDay PROVE Spec => NothingMissed
<1>1. ASSUME FeedInv, WindowInv, Sync PROVE HoldsAllPosted'
  <2>1. UNCHANGED <<today, rows>>
    BY <1>1 DEF Sync, ledger
  <2> QED BY <1>1, <2>1, SyncServesPosted DEF HoldsAllPosted
<1>2. FeedInv /\ WindowInv => [Sync => HoldsAllPosted']_vars
  BY <1>1
<1>3. FeedInv /\ WindowInv /\ [Next]_vars => WindowInv'
  BY NextKeepsWindow
<1> QED BY <1>2, <1>3, InitFeedInv, InitWindowInv, NextKeepsFeedInv, PTL DEF Spec, NothingMissed

\* The same without that assumption in the default date mode, where an id fixes the purchase day.
THEOREM PurchaseModeMissesNothing == ASSUME ~ChargeMode PROVE Spec => NothingMissed
BY PurchaseModeSharesDay, SyncMissesNothing

-----------------------------------------------------------------------------
(* Look-alikes are stored once each: the rows of one fingerprint in a scrape get the ordinals  *)
(* 1, 2, ..., whichever of them the bank has shown, so a scrape of all of them finds theirs.   *)

LEMMA BeforeFacts ==
    ASSUME NEW x \in Scraped, NEW y \in Scraped
    PROVE  /\ x.txn # y.txn => Before(x, y) \/ Before(y, x)
           /\ ~Before(x, x) /\ (Before(x, y) => ~Before(y, x))
           /\ \A z \in Scraped : Before(z, x) /\ Before(x, y) => Before(z, y)
<1>1. \A z \in Scraped : ChargeDate(z) \in Int /\ z.txn \in Int
  <2> SUFFICES ASSUME NEW z \in Scraped PROVE ChargeDate(z) \in Int /\ z.txn \in Int
    OBVIOUS
  <2>1. z.txn \in Txns
    BY ScrapedType
  <2>2. ChargeDay[z.txn] \in Nat /\ z.txn \in Nat
    BY <2>1, TxnsAssumption, DaysAssumption
  <2> QED BY <2>2 DEF ChargeDate, Never
<1> QED BY <1>1 DEF Before

\* The rows that share the fingerprint of x and do not come after it.
UpTo(x, all) == {y \in all : Fingerprint(y) = Fingerprint(x) /\ (y = x \/ Before(y, x))}

\* A hold looks like no other transaction.
HoldsAreUnlike ==
    \A x, y \in Scraped : x.txn \in Holds /\ Fingerprint(x) = Fingerprint(y) => x.txn = y.txn

AsPosted(t) == [txn |-> t, status |-> "posted"]
PostedIds(f) == {id \in Ids : id.fingerprint = f /\ rows[id].status = "posted"}
EverPosted(f) == {t \in everPosted : Fingerprint(AsPosted(t)) = f}
Numbered(f, n) == {[fingerprint |-> f, ordinal |-> k] : k \in 1..n}

\* What a scrape has read of one fingerprint is everything that was ever posted of it, or
\* nothing: all of it is in the window, or none.
BatchWhole ==
    /\ \A t \in Txns : bank[t] = "pending" => t \in Holds
    /\ \A t \in everPosted : bank[t] = "posted"
    /\ \A x \in batch : IF x.status = "posted" THEN bank[x.txn] = "posted" ELSE x.txn \in Holds
    /\ \A x \in batch, t \in everPosted :
          Fingerprint(AsPosted(t)) = Fingerprint(x) => AsPosted(t) \in batch

\* The posted rows of a fingerprint have the first ordinals.
OrdinalsOK == \A f \in Fingerprints : PostedIds(f) = Numbered(f, Cardinality(EverPosted(f)))


LEMMA GroupFinite ==
    ASSUME NEW all \in SUBSET Scraped, OneRowEach(all), NEW G \in SUBSET all
    PROVE  IsFiniteSet(G) /\ Cardinality(G) \in Nat /\ Cardinality(G) = Cardinality({x.txn : x \in G})
<1> DEFINE T == {x.txn : x \in G}
           h == [x \in G |-> x.txn]
<1>1. T \in SUBSET Txns
  BY ScrapedType
<1>2. h \in Injection(G, T) /\ h \in Surjection(G, T)
  BY DEF Injection, IsInjective, Surjection, OneRowEach
<1>3. IsFiniteSet(T)
  <2> HIDE DEF T
  <2> QED BY <1>1, TxnsAssumption, FS_Subset
<1> HIDE DEF T, h
<1>4. IsFiniteSet(G) /\ Cardinality(G) = Cardinality(T)
  BY <1>2, <1>3, FS_Injection
<1>5. Cardinality(G) \in Nat
  BY <1>4, FS_CardinalityType
<1> QED BY <1>4, <1>5 DEF T

LEMMA RanksDiffer ==
    ASSUME NEW all \in SUBSET Scraped, OneRowEach(all), NEW x \in all, NEW y \in all,
           Fingerprint(x) = Fingerprint(y), Before(x, y)
    PROVE  Cardinality(UpTo(x, all)) # Cardinality(UpTo(y, all))
<1>1. UpTo(x, all) \subseteq UpTo(y, all) /\ y \in UpTo(y, all) /\ y \notin UpTo(x, all)
  BY BeforeFacts DEF UpTo
<1>2. UpTo(y, all) \in SUBSET all
  BY DEF UpTo
<1>3. IsFiniteSet(UpTo(y, all))
  BY <1>2, GroupFinite
<1> QED BY <1>1, <1>3, FS_Subset

\* Ordinals are ranks.
LEMMA Ranks ==
    ASSUME NEW all \in SUBSET Scraped, OneRowEach(all), NEW f
    PROVE  LET G == {x \in all : Fingerprint(x) = f} IN
           {IdOf(x, all) : x \in G} = Numbered(f, Cardinality(G))
<1> DEFINE G == {x \in all : Fingerprint(x) = f}
           n == Cardinality(G)
           r == [x \in G |-> Cardinality(UpTo(x, all))]
<1>1. IsFiniteSet(G) /\ n \in Nat
  <2>1. G \in SUBSET all
    OBVIOUS
  <2> HIDE DEF G
  <2> QED BY <2>1, GroupFinite
<1>2. ASSUME NEW x \in G PROVE Cardinality(UpTo(x, all)) \in 1..n
  <2>1. UpTo(x, all) \in SUBSET G /\ x \in UpTo(x, all)
    BY DEF UpTo
  <2> HIDE DEF G
  <2>2. IsFiniteSet(UpTo(x, all)) /\ Cardinality(UpTo(x, all)) <= n
    BY <1>1, <2>1, FS_Subset
  <2>3. Cardinality(UpTo(x, all)) \in Nat /\ Cardinality(UpTo(x, all)) # 0
    BY <2>1, <2>2, FS_CardinalityType, FS_EmptySet
  <2> HIDE DEF n
  <2> QED BY <1>1, <2>2, <2>3
<1>3. ASSUME NEW x \in G, NEW y \in G, x # y
      PROVE  Cardinality(UpTo(x, all)) # Cardinality(UpTo(y, all))
  <2>1. x.txn # y.txn
    BY <1>3 DEF OneRowEach
  <2> QED BY <2>1, BeforeFacts, RanksDiffer
<1>4. r \in Injection(G, 1..n)
  <2> HIDE DEF G, n
  <2> QED BY <1>2, <1>3 DEF Injection, IsInjective
<1>5. r \in Surjection(G, 1..n)
  <2>1. IsFiniteSet(1..n) /\ Cardinality(1..n) = n
    <3> HIDE DEF n
    <3> QED BY <1>1, FS_Interval
  <2> HIDE DEF r, G
  <2> QED BY <1>4, <2>1, FS_Injection
<1>6. \A x \in G : IdOf(x, all) = [fingerprint |-> f, ordinal |-> r[x]]
  BY DEF IdOf, UpTo
<1>7. {r[x] : x \in G} = 1..n
  <2> HIDE DEF r, G, n
  <2> QED BY <1>5 DEF Surjection
<1>8. {[fingerprint |-> f, ordinal |-> r[x]] : x \in G} = Numbered(f, n)
  <2> HIDE DEF r, G, n
  <2> QED BY <1>7 DEF Numbered
<1>9. {IdOf(x, all) : x \in G} = Numbered(f, n)
  <2> HIDE DEF r, G, n
  <2> QED BY <1>6, <1>8
<1> QED BY <1>9

LEMMA NumberedSize ==
    ASSUME NEW f, NEW n \in Nat
    PROVE  Cardinality(Numbered(f, n)) = n
<1> DEFINE h == [k \in 1..n |-> [fingerprint |-> f, ordinal |-> k]]
<1>1. h \in Bijection(1..n, Numbered(f, n))
  BY DEF Bijection, Injection, IsInjective, Surjection, Numbered
<1>2. IsFiniteSet(1..n) /\ Cardinality(1..n) = n
  BY FS_Interval
<1>3. ExistsBijection(1..n, Numbered(f, n))
  BY <1>1 DEF ExistsBijection
<1> QED BY <1>2, <1>3, FS_Bijection

LEMMA NumberedGrow ==
    ASSUME NEW f, NEW m \in Nat, NEW n \in Nat, m <= n
    PROVE  Numbered(f, m) \cup Numbered(f, n) = Numbered(f, n)
BY DEF Numbered


\* A posted row is a posted row afterwards, and a row becomes one only by a posted one.
LEMMA UpsertedStatus ==
    ASSUME NEW row \in Row, NEW x \in Scraped, NEW at
    PROVE  Upserted(row, x, at).status = "posted" <=> row.status = "posted" \/ x.status = "posted"
<1>1. row.status \in {"absent", "pending", "posted"} /\ x.status \in Status
  BY ScrapedType DEF Row, Status
<1>2. CASE row.status = "absent"
  BY <1>2 DEF Upserted, Inserted
<1>3. CASE row.status # "absent"
  <2>1. Upserted(row, x, at).status = IF row.status = "pending" /\ x.status = "posted" THEN "posted" ELSE row.status
    BY <1>3 DEF Upserted, Refreshed, Row
  <2> QED BY <1>1, <1>3, <2>1
<1> QED BY <1>2, <1>3

LEMMA EverPostedFinite ==
    ASSUME everPosted \subseteq Txns, NEW f
    PROVE  IsFiniteSet(EverPosted(f)) /\ Cardinality(EverPosted(f)) \in Nat
BY TxnsAssumption, FS_Subset, FS_CardinalityType DEF EverPosted

OnceInv == BatchWhole /\ OrdinalsOK

LEMMA InitOnce == Init => OnceInv
<1> SUFFICES ASSUME Init PROVE OnceInv
  OBVIOUS
<1>1. BatchWhole
  BY DEF Init, BatchWhole
<1>2. ASSUME NEW f \in Fingerprints PROVE PostedIds(f) = Numbered(f, Cardinality(EverPosted(f)))
  <2>1. EverPosted(f) = {} /\ Cardinality({}) = 0
    BY FS_EmptySet DEF Init, EverPosted
  <2>2. Numbered(f, 0) = {}
    BY DEF Numbered
  <2>3. PostedIds(f) = {}
    BY DEF Init, PostedIds, NoRow
  <2> QED BY <2>1, <2>2, <2>3
<1> QED BY <1>1, <1>2 DEF OnceInv, OrdinalsOK

\* A scrape reads all of a fingerprint that was ever posted, or nothing of it.
LEMMA ScrapeReadsWhole ==
    ASSUME FeedInv, BatchWhole, Scrape, LookAlikesShareDay, HoldsAreUnlike
    PROVE  BatchWhole'
<1>1. /\ \A x \in batch' : x \in Scraped /\ bank[x.txn] = x.status
      /\ UNCHANGED <<bank, everPosted>>
  BY DEF Scrape
<1>2. ASSUME NEW x \in batch', NEW t \in everPosted, Fingerprint(AsPosted(t)) = Fingerprint(x)
      PROVE  AsPosted(t) \in batch'
  <2>1. bank[t] = "posted" /\ t \in Txns /\ AsPosted(t) \in Scraped
    BY DEF BatchWhole, FeedInv, TypeOK, AsPosted, Scraped, Status
  <2>2. PurchaseDay[x.txn] = PurchaseDay[t] /\ x \in Scraped
    BY <1>1, <1>2, <2>1 DEF LookAlikesShareDay, AsPosted
  <2> QED BY <2>1, <2>2 DEF Scrape, AsPosted
<1>3. ASSUME NEW x \in batch' PROVE IF x.status = "posted" THEN bank[x.txn] = "posted" ELSE x.txn \in Holds
  <2>1. x.status \in Status /\ x.txn \in Txns
    BY <1>1, ScrapedType
  <2> QED BY <1>1, <2>1 DEF BatchWhole, Status
<1> QED BY <1>1, <1>2, <1>3 DEF BatchWhole

LEMMA UpsertKeepsOnce ==
    ASSUME FeedInv, OnceInv, UpsertTransactions, HoldsAreUnlike
    PROVE  OnceInv'
<1>1. /\ UNCHANGED <<bank, batch, scrapedAt>> /\ batch \in SUBSET Scraped /\ OneRowEach(batch)
      /\ everPosted' = everPosted \cup {x.txn : x \in {y \in batch : y.status = "posted"}}
      /\ rows \in [Ids -> Row] /\ everPosted \subseteq Txns /\ everPosted' \subseteq Txns
  BY UpsertKeepsInv DEF UpsertTransactions, FeedInv, TypeOK, ScrapeClock
<1>2. \A x \in batch : x.status = "posted" => x = AsPosted(x.txn)
  BY <1>1 DEF Scraped, AsPosted
<1>3. BatchWhole'
  <2>1. ASSUME NEW t \in everPosted' PROVE bank[t] = "posted" /\ (t \in everPosted \/ AsPosted(t) \in batch)
    BY <1>1, <1>2, <2>1 DEF OnceInv, BatchWhole
  <2> QED BY <1>1, <2>1 DEF OnceInv, BatchWhole
<1>4. ASSUME NEW f \in Fingerprints PROVE PostedIds(f)' = Numbered(f, Cardinality(EverPosted(f)'))
  <2> DEFINE G == {x \in batch : Fingerprint(x) = f}
             m == Cardinality(EverPosted(f))
             n == Cardinality(G)
  <2>1. PostedIds(f) = Numbered(f, m)
    BY DEF OnceInv, OrdinalsOK
  <2>2. ASSUME NEW id \in Ids, id.fingerprint = f
        PROVE  \/ id \notin IdsOf(batch) /\ rows'[id] = rows[id]
               \/ \E x \in G : IdOf(x, batch) = id /\ rows'[id] = Upserted(rows[id], x, scrapedAt)
    BY <2>2, WrittenRow DEF IdOf
  <2>3. CASE \E x \in G : x.status = "posted"
    <3>1. \A x \in G : x.status = "posted"
      <4>1. PICK y \in G : y.status = "posted"
        BY <2>3
      <4> SUFFICES ASSUME NEW x \in G, x.status # "posted" PROVE FALSE
        OBVIOUS
      <4>2. x.txn \in Holds
        BY <1>1 DEF OnceInv, BatchWhole
      <4>3. x.txn = y.txn
        BY <1>1, <4>2 DEF HoldsAreUnlike
      <4> QED BY <1>1, <4>1, <4>3 DEF OneRowEach
    <3>2. EverPosted(f)' = {x.txn : x \in G}
      <4>1. ASSUME NEW x \in G PROVE x.txn \in EverPosted(f)'
        BY <1>1, <1>2, <3>1 DEF EverPosted
      <4>2. ASSUME NEW t \in EverPosted(f)' PROVE t \in {x.txn : x \in G}
        <5>1. t \in everPosted' /\ Fingerprint(AsPosted(t)) = f
          BY DEF EverPosted
        <5>2. AsPosted(t) \in batch
          <6>1. CASE t \in everPosted
            BY <2>3, <5>1, <6>1 DEF OnceInv, BatchWhole
          <6>2. CASE t \notin everPosted
            BY <1>1, <1>2, <5>1, <6>2
          <6> QED BY <6>1, <6>2
        <5> QED BY <5>1, <5>2 DEF AsPosted
      <4> QED BY <4>1, <4>2
    <3>3. n \in Nat /\ n = Cardinality({x.txn : x \in G})
      <4>1. G \in SUBSET batch
        OBVIOUS
      <4> HIDE DEF G
      <4> QED BY <1>1, <4>1, GroupFinite
    <3>4. m \in Nat /\ m <= n
      <4>1. EverPosted(f) \subseteq EverPosted(f)'
        BY <1>1 DEF EverPosted
      <4>2. IsFiniteSet(EverPosted(f)')
        BY <1>1, TxnsAssumption, FS_Subset DEF EverPosted
      <4>3. IsFiniteSet(EverPosted(f)) /\ Cardinality(EverPosted(f)) <= Cardinality(EverPosted(f)')
        BY <4>1, <4>2, FS_Subset
      <4>4. m \in Nat
        BY <4>3, FS_CardinalityType
      <4>5. Cardinality(EverPosted(f)') = n
        BY <3>2, <3>3
      <4> QED BY <4>3, <4>4, <4>5
    <3>5. {IdOf(x, batch) : x \in G} = Numbered(f, n)
      BY <1>1, Ranks
    <3>6. PostedIds(f)' = Numbered(f, n)
      <4>1. ASSUME NEW id \in PostedIds(f)' PROVE id \in Numbered(f, n)
        <5>1. id \in Ids /\ id.fingerprint = f /\ rows'[id].status = "posted"
          BY DEF PostedIds
        <5>2. CASE rows'[id] = rows[id]
          <6>1. id \in PostedIds(f)
            BY <5>1, <5>2 DEF PostedIds
          <6> HIDE DEF m, n
          <6> QED BY <2>1, <3>3, <3>4, <6>1, NumberedGrow
        <5>3. CASE \E x \in G : IdOf(x, batch) = id
          BY <3>5, <5>3
        <5> QED BY <2>2, <5>1, <5>2, <5>3
      <4>2. ASSUME NEW id \in Numbered(f, n) PROVE id \in PostedIds(f)'
        <5>1. PICK x \in G : id = IdOf(x, batch)
          BY <3>5
        <5>2. id \in Ids /\ id \in IdsOf(batch) /\ id.fingerprint = f
          BY <5>1, BatchIds DEF IdsOf, IdOf
        <5>3. PICK y \in G : rows'[id] = Upserted(rows[id], y, scrapedAt)
          BY <2>2, <5>2
        <5>4. rows'[id].status = "posted"
          BY <1>1, <3>1, <5>2, <5>3, UpsertedStatus
        <5> QED BY <5>2, <5>4 DEF PostedIds
      <4> QED BY <4>1, <4>2
    <3>7. Cardinality(EverPosted(f)') = n
      BY <3>2, <3>3
    <3> QED BY <3>6, <3>7
  <2>4. CASE \A x \in G : x.status # "posted"
    <3>1. EverPosted(f)' = EverPosted(f)
      <4>1. ASSUME NEW x \in batch, x.status = "posted" PROVE Fingerprint(AsPosted(x.txn)) # f
        BY <1>2, <2>4, <4>1
      <4> QED BY <1>1, <4>1 DEF EverPosted
    <3>2. ASSUME NEW id \in Ids, id.fingerprint = f
          PROVE  rows'[id].status = "posted" <=> rows[id].status = "posted"
      <4>1. ASSUME NEW x \in G, rows'[id] = Upserted(rows[id], x, scrapedAt)
            PROVE  rows'[id].status = "posted" <=> rows[id].status = "posted"
        BY <1>1, <2>4, <4>1, UpsertedStatus
      <4> QED BY <2>2, <3>2, <4>1
    <3>3. PostedIds(f)' = PostedIds(f)
      BY <3>2 DEF PostedIds
    <3> QED BY <2>1, <3>1, <3>3
  <2> QED BY <2>3, <2>4
<1>5. OrdinalsOK'
  BY <1>4 DEF OrdinalsOK
<1> QED BY <1>3, <1>5 DEF OnceInv

LEMMA StepOnce ==
    ASSUME FeedInv, OnceInv, [Next]_vars, LookAlikesShareDay, HoldsAreUnlike
    PROVE  OnceInv'
<1> USE DEF ledger, consumer
<1>0. ASSUME UNCHANGED <<rows, everPosted>>, BatchWhole' PROVE OnceInv'
  BY <1>0 DEF OnceInv, OrdinalsOK, PostedIds, EverPosted
<1>1. ASSUME NEW t \in Txns, BankMoves(t) PROVE OnceInv'
  <2>1. UNCHANGED <<rows, everPosted, batch>>
    BY <1>1 DEF BankMoves
  <2>2. \A u \in Txns : /\ bank[u] = "posted" => bank'[u] = "posted"
                        /\ bank'[u] = "pending" => bank[u] = "pending" \/ u \in Holds
    BY <1>1 DEF BankMoves, FeedInv, TypeOK
  <2>3. \A x \in batch : x.txn \in Txns
    BY ScrapedType DEF FeedInv, TypeOK
  <2>4. everPosted \subseteq Txns
    BY DEF FeedInv, TypeOK
  <2>5. BatchWhole'
    BY <2>1, <2>2, <2>3, <2>4 DEF OnceInv, BatchWhole
  <2> QED BY <1>0, <2>1, <2>5
<1>2. CASE Scrape
  BY <1>0, <1>2, ScrapeReadsWhole DEF Scrape, OnceInv
<1>3. CASE UpsertTransactions
  BY <1>3, UpsertKeepsOnce
<1>4. CASE Succeed \/ Abandon
  <2>1. UNCHANGED <<rows, everPosted, bank>> /\ batch' = {}
    BY <1>4 DEF Succeed, Abandon, EndScrape
  <2> QED BY <1>0, <2>1 DEF OnceInv, BatchWhole
<1>5. CASE Normalise \/ UpsertAccount \/ Sync \/ Tick \/ UNCHANGED vars
  <2>1. UNCHANGED <<rows, everPosted, bank, batch>>
    BY <1>5 DEF Normalise, UpsertAccount, Sync, Tick, vars
  <2> QED BY <1>0, <2>1 DEF OnceInv, BatchWhole
<1> QED BY <1>1, <1>2, <1>3, <1>4, <1>5 DEF Next

LEMMA OnceIsEnough == FeedInv /\ OnceInv => StoredOnce
<1> SUFFICES ASSUME FeedInv, OnceInv, NEW f \in Fingerprints
             PROVE  Cardinality(PostedIds(f)) = Cardinality(EverPosted(f))
  BY DEF StoredOnce, PostedIds, EverPosted, AsPosted
<1>1. Cardinality(EverPosted(f)) \in Nat
  BY EverPostedFinite DEF FeedInv, TypeOK
<1>2. PostedIds(f) = Numbered(f, Cardinality(EverPosted(f)))
  BY DEF OnceInv, OrdinalsOK
<1> QED BY <1>1, <1>2, NumberedSize

\* Rows that look alike are neither merged nor stored twice, however the bank orders and delays
\* them and wherever a scrape stops, when they share their purchase day (a window then holds all
\* of them or none) and none of them is a hold (which would be ordered before the posted ones).
THEOREM LookAlikesAreStoredOnce ==
    ASSUME LookAlikesShareDay, HoldsAreUnlike
    PROVE  Spec => []StoredOnce
<1>1. FeedInv /\ OnceInv /\ [Next]_vars => OnceInv'
  BY StepOnce
<1> QED BY <1>1, InitFeedInv, InitOnce, NextKeepsFeedInv, OnceIsEnough, PTL DEF Spec

=============================================================================
