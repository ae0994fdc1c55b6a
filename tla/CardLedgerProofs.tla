--------------------------- MODULE CardLedgerProofs ---------------------------
(***************************************************************************)
(* A card's ledger for any occurrences, archives and calendars: it keeps   *)
(* the promise of CardStatement through every alias, repair and crash, a   *)
(* posted instalment gets no row next to its archived one, and a payment   *)
(* is of everything the bank posted in time.                               *)
(***************************************************************************)
EXTENDS CardLedger, FiniteSetTheorems, TLAPS

-----------------------------------------------------------------------------
(* The invariant the theorems rest on. *)

Billed(id) == rows[id].charge # Never

\* A row has a statement date only as a posted row, and that of its occurrence.
RowsOK ==
    /\ rows \in [Ids -> RowType]
    /\ \A id \in Ids :
          Billed(id) => /\ rows[id].status = "posted"
                        /\ rows[id].charge = ChargeDay[OccurrenceOf(id)]
                        /\ posted[OccurrenceOf(id)] # Never
    /\ \A o \in Occurrences : rows[o].status = "posted" => Billed(o)
    /\ \A a \in Archives : Present(a) <=> rows[a].evidence

\* What an archived row with a statement date may bill next to another row.
Doubtful == {ArchiveOf[a] : a \in {b \in Dated : Present(b)}}

\* No other occurrence is billed twice: a billed archived row is the only one that counts.
BilledOnce ==
    /\ \A a \in Archives : Billed(a) /\ ArchiveOf[a] \notin Doubtful
                              => ArchiveOf[a] \in Instalments /\ ~Present(ArchiveOf[a])
    /\ \A a, b \in Archives :
          Billed(a) /\ Billed(b) /\ ArchiveOf[a] = ArchiveOf[b] /\ ArchiveOf[a] \notin Doubtful => a = b

\* What a scrape has returned; a hold in it is not billed meanwhile.
BatchOK ==
    /\ phase # "read" => batch = NoBatch
    /\ batch.posted \subseteq Occurrences /\ batch.pending \subseteq Occurrences
    /\ batch.posted \cap batch.pending = {}
    /\ \A o \in batch.posted : posted[o] # Never
    /\ \A id \in Ids : Billed(id) => OccurrenceOf(id) \notin batch.pending

BankOK ==
    /\ today \in Nat
    /\ posted \in [Occurrences -> Nat \cup {Never}]
    /\ pending \subseteq Occurrences /\ \A o \in pending : posted[o] = Never

CInv == BankOK /\ RowsOK /\ BilledOnce /\ BatchOK

LEMMA IdFacts ==
    /\ \A o \in Occurrences : o \in Ids /\ o \notin Archives /\ OccurrenceOf(o) = o
    /\ \A a \in Archives : a \in Ids /\ OccurrenceOf(a) = ArchiveOf[a] /\ ArchiveOf[a] \in Occurrences
    /\ \A id \in Ids : OccurrenceOf(id) \in Occurrences
    /\ \A o \in Occurrences : ChargeDay[o] \in ChargeDays /\ ChargeDay[o] \in Nat /\ ChargeDay[o] # Never
BY CardAssumption, DayAssumption DEF Ids, OccurrenceOf, ChargeDays, Never

\* Archived rows stay, and with them what is doubtful.
LEMMA DoubtStays == (\A a \in Archives : Present(a) => Present(a)') => Doubtful \subseteq Doubtful'
BY CardAssumption DEF Doubtful

LEMMA NoRowFacts == NoRow \in RowType /\ NoRow.status = "absent" /\ NoRow.charge = Never /\ ~NoRow.evidence
BY DEF NoRow, RowType

LEMMA InitCInv == Init => CInv
<1> SUFFICES ASSUME Init PROVE CInv
  OBVIOUS
<1>1. \A id \in Ids : rows[id] = NoRow /\ ~Billed(id) /\ ~Present(id) /\ rows[id].status # "posted"
                      /\ ~rows[id].evidence
  BY NoRowFacts DEF Init, Billed, Present
<1>2. RowsOK /\ BilledOnce
  BY <1>1, NoRowFacts, IdFacts DEF Init, RowsOK, BilledOnce
<1>3. BankOK
  BY DEF Init, BankOK
<1>4. BatchOK
  BY <1>1 DEF Init, BatchOK, NoBatch
<1> QED BY <1>2, <1>3, <1>4 DEF CInv

-----------------------------------------------------------------------------
(* Writing the scraped rows. *)

\* The archived row an instalment is an alias of is the only candidate.
LEMMA CanonicalFacts ==
    ASSUME CInv, NEW os \in SUBSET Occurrences, Resolvable(os), NEW o \in os
    PROVE  /\ Canonical(o) \in Ids /\ OccurrenceOf(Canonical(o)) = o
           /\ Canonical(o) \in Archives =>
                 ~Present(o) /\ o \in Instalments /\ Candidates(o) = {Canonical(o)}
           /\ Canonical(o) \notin Archives => Canonical(o) = o /\ (Present(o) \/ Candidates(o) = {})
<1>1. CASE ~Present(o) /\ Candidates(o) # {}
  <2>1. Candidates(o) \subseteq Archives /\ IsFiniteSet(Candidates(o))
    <3>1. IsFiniteSet(Archives)
      BY CardAssumption, FS_Subset DEF Ids
    <3> QED BY <3>1, FS_Subset DEF Candidates
  <2>2. Cardinality(Candidates(o)) = 1
    BY <1>1, <2>1, FS_CardinalityType, FS_EmptySet DEF Resolvable
  <2>3. PICK a : Candidates(o) = {a}
    BY <2>1, <2>2, FS_Singleton
  <2>4. Canonical(o) = a
    BY <1>1, <2>3 DEF Canonical
  <2>5. a \in Archives /\ ArchiveOf[a] = o /\ o \in Instalments
    BY <2>3 DEF Candidates, Matches
  <2> QED BY <1>1, <2>3, <2>4, <2>5, IdFacts
<1>2. CASE ~(~Present(o) /\ Candidates(o) # {})
  BY <1>2, IdFacts DEF Canonical
<1> QED BY <1>1, <1>2

\* A new archived row or portal row is never billed next to one that is.
LEMMA BilledAlias ==
    ASSUME CInv, NEW os \in SUBSET Occurrences, Resolvable(os), NEW o \in os,
           NEW id \in Ids, Billed(id), OccurrenceOf(id) = o, o \notin Doubtful
    PROVE  Canonical(o) = id
<1>1. CASE id \in Archives
  <2>1. o \in Instalments /\ ~Present(o) /\ Present(id) /\ rows[id].evidence /\ ArchiveOf[id] = o
    BY <1>1, IdFacts DEF CInv, BilledOnce, RowsOK, Present
  <2>2. id \in Candidates(o)
    BY <1>1, <2>1 DEF Candidates, Matches
  <2> QED BY <2>1, <2>2, CanonicalFacts
<1>2. CASE id \notin Archives
  <2>1. id = o /\ Present(o)
    BY <1>2 DEF OccurrenceOf, CInv, RowsOK, Present
  <2> QED BY <2>1, CanonicalFacts
<1> QED BY <1>1, <1>2

\* What the transaction of the scraped rows does to a row.
LEMMA UpsertedFacts ==
    ASSUME CInv, Resolvable(batch.posted), NEW id \in Ids
    PROVE  LET new == Upserted(batch)[id]
               o == OccurrenceOf(id)
               target == o \in batch.posted /\ Canonical(o) = id
               hold == id \in batch.pending /\ ~Present(id) IN
           /\ target => new = Refreshed(rows[id], o)
           /\ ~target /\ hold => new = [NoRow EXCEPT !.status = "pending"]
           /\ ~target /\ ~hold => new = rows[id]
<1> DEFINE o == OccurrenceOf(id)
           target == o \in batch.posted /\ Canonical(o) = id
<1>1. batch.posted \in SUBSET Occurrences
  BY DEF CInv, BatchOK
<1>2. \A p \in batch.posted : Canonical(p) = id => p = o
  BY <1>1, CanonicalFacts
<1>3. (\E p \in batch.posted : Canonical(p) = id) <=> target
  BY <1>2
<1>4. target => (CHOOSE p \in batch.posted : Canonical(p) = id) = o
  BY <1>2
<1> QED BY <1>3, <1>4 DEF Upserted

LEMMA RefreshedFacts ==
    ASSUME NEW row \in RowType, NEW o \in Occurrences
    PROVE  LET new == Refreshed(row, o) IN
           /\ new \in RowType /\ new.status = "posted" /\ new.charge = ChargeDay[o]
           /\ new.evidence = row.evidence
BY IdFacts DEF Refreshed, RowType

LEMMA PendingRow ==
    LET new == [NoRow EXCEPT !.status = "pending"] IN
    new \in RowType /\ new.status = "pending" /\ new.charge = Never
<1>1. \A row \in RowType :
          LET new == [row EXCEPT !.status = "pending"] IN
          new \in RowType /\ new.status = "pending" /\ new.charge = row.charge
  BY DEF RowType
<1> QED BY <1>1, NoRowFacts

LEMMA UpsertKeeps ==
    ASSUME CInv, UpsertTransactions
    PROVE  /\ CInv'
           /\ \A id \in Ids : Present(id) => Present(id)'
           /\ \A id \in Ids : Billed(id) => Billed(id)'
           /\ \A a \in Archives : LET o == ArchiveOf[a] IN
                 /\ Present(a) /\ o \in Instalments /\ ~Present(o) => rows'[o].status # "posted"
                 /\ rows[a].evidence => Present(a)' /\ rows'[a].evidence
<1> USE IdFacts
<1>1. CASE ~Resolvable(batch.posted)
  <2>1. UNCHANGED <<rows, today, posted, pending>> /\ batch' = NoBatch
    BY <1>1 DEF UpsertTransactions, bank
  <2>2. BatchOK'
    BY <2>1 DEF BatchOK, NoBatch
  <2>3. \A id \in Ids : (Billed(id)' <=> Billed(id)) /\ (Present(id)' <=> Present(id))
    BY <2>1 DEF Billed, Present
  <2>4. RowsOK' /\ BilledOnce' /\ BankOK'
    BY <2>1, <2>3, DoubtStays DEF CInv, BankOK, RowsOK, BilledOnce, RowType
  <2>5. \A a \in Archives : LET o == ArchiveOf[a] IN
           /\ Present(a) /\ o \in Instalments /\ ~Present(o) => rows'[o].status # "posted"
           /\ rows[a].evidence => Present(a)' /\ rows'[a].evidence
    BY <2>1, <2>3 DEF CInv, RowsOK, Present
  <2> QED BY <2>2, <2>3, <2>4, <2>5 DEF CInv
<1>2. CASE Resolvable(batch.posted)
  <2> DEFINE Target(id) == OccurrenceOf(id) \in batch.posted /\ Canonical(OccurrenceOf(id)) = id
             Hold(id) == id \in batch.pending /\ ~Present(id)
  <2>1. rows' = Upserted(batch) /\ batch' = NoBatch /\ UNCHANGED <<today, posted, pending>>
    BY <1>2 DEF UpsertTransactions, bank
  <2>2. batch.posted \in SUBSET Occurrences /\ batch.pending \subseteq Occurrences
    BY DEF CInv, BatchOK
  <2>3. ASSUME NEW id \in Ids
        PROVE  /\ rows'[id] \in RowType
               /\ Target(id) => /\ rows'[id].status = "posted" /\ rows'[id].evidence = rows[id].evidence
                                /\ rows'[id].charge = ChargeDay[OccurrenceOf(id)]
               /\ ~Target(id) /\ Hold(id) => rows'[id].status = "pending" /\ rows'[id].charge = Never
               /\ ~Target(id) /\ ~Hold(id) => rows'[id] = rows[id]
    <3>1. rows[id] \in RowType /\ OccurrenceOf(id) \in Occurrences
      BY DEF CInv, RowsOK
    <3>2. CASE Target(id)
      BY <1>2, <2>1, <3>1, <3>2, UpsertedFacts, RefreshedFacts
    <3>3. CASE ~Target(id) /\ Hold(id)
      BY <1>2, <2>1, <3>3, UpsertedFacts, PendingRow
    <3>4. CASE ~Target(id) /\ ~Hold(id)
      BY <1>2, <2>1, <3>1, <3>4, UpsertedFacts
    <3> QED BY <3>2, <3>3, <3>4
  <2>4. rows' \in [Ids -> RowType]
    BY <2>1, <2>3 DEF Upserted
  <2>5. \A id \in Ids : Billed(id)' <=> Target(id) \/ Billed(id)
    <3> SUFFICES ASSUME NEW id \in Ids PROVE Billed(id)' <=> Target(id) \/ Billed(id)
      OBVIOUS
    <3>1. CASE Target(id)
      BY <2>3, <3>1 DEF Billed
    <3>2. CASE ~Target(id) /\ Hold(id)
      BY <2>3, <3>2 DEF Billed, Present, CInv, RowsOK
    <3>3. CASE ~Target(id) /\ ~Hold(id)
      BY <2>3, <3>3 DEF Billed
    <3> QED BY <3>1, <3>2, <3>3
  <2>6. \A id \in Ids : Present(id) => Present(id)'
    BY <2>3 DEF Present
  <2>7. \A a \in Archives : ~Hold(a)
    BY <2>2
  <2>8. \A id \in Ids : Target(id) /\ id \in Archives =>
            /\ Present(id) /\ rows[id].evidence /\ ~Present(OccurrenceOf(id))
            /\ OccurrenceOf(id) \in Instalments
    BY <1>2, <2>2, CanonicalFacts DEF Candidates, Matches
  <2>9. RowsOK'
    <3>1. ASSUME NEW id \in Ids, Billed(id)'
          PROVE  /\ rows'[id].status = "posted"
                 /\ rows'[id].charge = ChargeDay[OccurrenceOf(id)]
                 /\ posted'[OccurrenceOf(id)] # Never
      <4>1. CASE Target(id)
        BY <2>1, <2>3, <4>1 DEF CInv, BatchOK
      <4>2. CASE ~Target(id)
        <5>1. Billed(id) /\ ~Hold(id)
          BY <2>5, <3>1, <4>2 DEF CInv, RowsOK, Present
        <5> QED BY <2>1, <2>3, <4>2, <5>1 DEF CInv, RowsOK
      <4> QED BY <4>1, <4>2
    <3>2. ASSUME NEW o \in Occurrences, rows'[o].status = "posted" PROVE Billed(o)'
      BY <2>3, <2>5, <3>2 DEF CInv, RowsOK
    <3>3. ASSUME NEW a \in Archives PROVE Present(a)' <=> rows'[a].evidence
      BY <2>3, <2>7, <2>8 DEF CInv, RowsOK, Present
    <3> QED BY <2>4, <3>1, <3>2, <3>3 DEF RowsOK, Billed, Present
  <2>10. BilledOnce'
    <3>0. Doubtful \subseteq Doubtful'
      BY <2>6, DoubtStays
    <3>1. ASSUME NEW a \in Archives, Billed(a)', ArchiveOf[a] \notin Doubtful'
          PROVE  ArchiveOf[a] \in Instalments /\ ~Present(ArchiveOf[a])'
      <4>1. ArchiveOf[a] \in Instalments /\ ~Present(ArchiveOf[a])
        BY <2>5, <2>8, <3>0, <3>1 DEF CInv, BilledOnce
      <4>2. ~Target(ArchiveOf[a])
        <5>1. CASE Target(a)
          BY <5>1
        <5>2. CASE Billed(a)
          BY <1>2, <2>2, <3>0, <3>1, <5>2, BilledAlias
        <5> QED BY <2>5, <3>1, <5>1, <5>2
      <4>3. ArchiveOf[a] \notin batch.pending
        BY <2>5, <3>1 DEF CInv, BatchOK
      <4> QED BY <2>3, <4>1, <4>2, <4>3 DEF Present
    <3>2. ASSUME NEW a \in Archives, NEW b \in Archives, Billed(a)', Billed(b)',
                 ArchiveOf[a] = ArchiveOf[b], ArchiveOf[a] \notin Doubtful'
          PROVE  a = b
      <4>1. CASE Target(a) \/ Target(b)
        BY <1>2, <2>2, <2>5, <3>0, <3>2, <4>1, BilledAlias
      <4>2. CASE ~Target(a) /\ ~Target(b)
        BY <2>5, <3>0, <3>2, <4>2 DEF CInv, BilledOnce
      <4> QED BY <4>1, <4>2
    <3> QED BY <3>1, <3>2 DEF BilledOnce
  <2>11. BatchOK' /\ BankOK'
    BY <2>1 DEF CInv, BatchOK, BankOK, NoBatch
  <2>12. ASSUME NEW a \in Archives
         PROVE  LET o == ArchiveOf[a] IN
                /\ Present(a) /\ o \in Instalments /\ ~Present(o) => rows'[o].status # "posted"
                /\ rows[a].evidence => rows'[a].evidence
    <3>1. rows[a].evidence => rows'[a].evidence
      BY <2>3, <2>7
    <3>2. ASSUME Present(a), ArchiveOf[a] \in Instalments, ~Present(ArchiveOf[a])
          PROVE  rows'[ArchiveOf[a]].status # "posted"
      <4>1. a \in Candidates(ArchiveOf[a])
        BY <3>2 DEF CInv, RowsOK, Candidates, Matches
      <4>2. ~Target(ArchiveOf[a])
        BY <1>2, <2>2, <3>2, <4>1, CanonicalFacts
      <4> QED BY <2>3, <3>2, <4>2 DEF Present
    <3> QED BY <3>1, <3>2
  <2>13. \A a \in Archives : rows[a].evidence => Present(a)'
    BY <2>6 DEF CInv, RowsOK
  <2>14. CInv'
    BY <2>9, <2>10, <2>11 DEF CInv
  <2> QED BY <2>5, <2>6, <2>12, <2>13, <2>14
<1> QED BY <1>1, <1>2
-----------------------------------------------------------------------------
(* The other steps. *)

\* A reviewed repair leaves one billed row of each of its occurrences.
LEMMA CoalesceKeeps ==
    ASSUME CInv, NEW as \in SUBSET Archives, Coalesce(as)
    PROVE  /\ CInv'
           /\ \A id \in Ids : Present(id) => \E j \in Ids : Present(j)' /\ OccurrenceOf(j) = OccurrenceOf(id)
           /\ \A id \in Ids : Billed(id) => \E j \in Ids : Billed(j)' /\ OccurrenceOf(j) = OccurrenceOf(id)
           /\ \A a \in Archives : LET o == ArchiveOf[a] IN
                 /\ Present(a) /\ o \in Instalments /\ ~Present(o) => rows'[o].status # "posted"
                 /\ rows[a].evidence => Present(a)' /\ rows'[a].evidence
<1> USE IdFacts
<1> DEFINE Repaired == {ArchiveOf[a] : a \in as}
<1>1. /\ phase = "idle" /\ UNCHANGED <<today, posted, pending, phase, batch>>
      /\ \A id \in Ids : rows'[id] = IF id \in as THEN Refreshed(rows[id], ArchiveOf[id])
                                     ELSE IF id \in Repaired THEN NoRow ELSE rows[id]
  <2>1. \A id \in Ids : id \in Repaired <=> \E a \in as : ArchiveOf[a] = id
    OBVIOUS
  <2>2. rows' = [id \in Ids |-> IF id \in as THEN Refreshed(rows[id], ArchiveOf[id])
                               ELSE IF id \in Repaired THEN NoRow ELSE rows[id]]
    BY <2>1 DEF Coalesce
  <2> HIDE DEF Repaired
  <2>3. phase = "idle" /\ UNCHANGED <<today, posted, pending, phase, batch>>
    BY DEF Coalesce, bank, run
  <2> QED BY <2>2, <2>3
<1>2. ASSUME NEW a \in as
      PROVE  LET o == ArchiveOf[a] IN
             /\ Present(a) /\ rows[a].evidence /\ o \in Instalments
             /\ Billed(o) /\ Present(o) /\ posted[o] # Never
             /\ \A b \in Archives : ArchiveOf[b] = o /\ Present(b) => b = a
  <2>1. rows[ArchiveOf[a]].status = "posted" /\ Candidates(ArchiveOf[a]) = {a}
    BY <1>2 DEF Coalesce
  <2>2. Present(a) /\ rows[a].evidence /\ ArchiveOf[a] \in Instalments
    BY <1>2, <2>1 DEF Candidates, Matches
  <2>3. Billed(ArchiveOf[a]) /\ Present(ArchiveOf[a]) /\ posted[ArchiveOf[a]] # Never
    <3>1. ArchiveOf[a] \in Occurrences
      BY <1>2
    <3>2. Billed(ArchiveOf[a])
      BY <2>1, <3>1 DEF CInv, RowsOK
    <3> QED BY <2>1, <3>1, <3>2 DEF CInv, RowsOK, Present
  <2>4. ASSUME NEW b \in Archives, ArchiveOf[b] = ArchiveOf[a], Present(b) PROVE b = a
    BY <1>2, <2>1, <2>2, <2>4 DEF Candidates, Matches, CInv, RowsOK
  <2> QED BY <2>2, <2>3, <2>4
<1>3. ASSUME NEW id \in Ids
      PROVE  /\ rows'[id] \in RowType
             /\ id \in as => /\ rows'[id].status = "posted" /\ rows'[id].evidence = rows[id].evidence
                             /\ rows'[id].charge = ChargeDay[OccurrenceOf(id)]
             /\ id \in Repaired => /\ id \in Occurrences /\ id \notin as /\ rows'[id] = NoRow
             /\ id \notin as /\ id \notin Repaired => rows'[id] = rows[id]
  <2>1. rows[id] \in RowType
    BY DEF CInv, RowsOK
  <2>2. CASE id \in as
    <3>1. ArchiveOf[id] \in Occurrences /\ OccurrenceOf(id) = ArchiveOf[id] /\ id \notin Repaired
      BY <2>2
    <3>2. rows'[id] = Refreshed(rows[id], ArchiveOf[id])
      BY <1>1, <2>2
    <3> HIDE DEF Repaired
    <3>3. /\ rows'[id] \in RowType /\ rows'[id].status = "posted"
          /\ rows'[id].charge = ChargeDay[ArchiveOf[id]] /\ rows'[id].evidence = rows[id].evidence
      BY <2>1, <3>1, <3>2, RefreshedFacts
    <3> QED BY <2>2, <3>1, <3>3
  <2>3. CASE id \in Repaired
    BY <1>1, <2>3, NoRowFacts
  <2>4. CASE id \notin as /\ id \notin Repaired
    BY <1>1, <2>1, <2>4
  <2> QED BY <2>2, <2>3, <2>4
<1>4. rows' \in [Ids -> RowType]
  BY <1>3 DEF Coalesce
<1> HIDE DEF Repaired
<1>5. \A id \in Ids : /\ Billed(id)' <=> id \in as \/ (Billed(id) /\ id \notin Repaired)
                      /\ Present(id)' <=> Present(id) /\ id \notin Repaired
  <2> SUFFICES ASSUME NEW id \in Ids
               PROVE  /\ Billed(id)' <=> id \in as \/ (Billed(id) /\ id \notin Repaired)
                      /\ Present(id)' <=> Present(id) /\ id \notin Repaired
    OBVIOUS
  <2>1. CASE id \in as
    <3>1. rows'[id].status = "posted" /\ rows'[id].charge # Never /\ id \notin Repaired
      BY <1>3, <2>1
    <3>2. Present(id)
      BY <1>2, <2>1
    <3> QED BY <2>1, <3>1, <3>2 DEF Billed, Present
  <2>2. CASE id \in Repaired
    BY <1>3, <2>2, NoRowFacts DEF Billed, Present
  <2>3. CASE id \notin as /\ id \notin Repaired
    BY <1>3, <2>3 DEF Billed, Present
  <2> QED BY <2>1, <2>2, <2>3
<1>6. \A a \in Archives : a \notin Repaired
  BY <1>3
<1>7. \A o \in Repaired : \E a \in as : ArchiveOf[a] = o
  BY DEF Repaired
<1>8. \A a \in as : ArchiveOf[a] \in Repaired
  BY DEF Repaired
<1>9. RowsOK'
  <2>1. ASSUME NEW id \in Ids, Billed(id)'
        PROVE  /\ rows'[id].status = "posted" /\ rows'[id].charge = ChargeDay[OccurrenceOf(id)]
               /\ posted'[OccurrenceOf(id)] # Never
    <3>1. CASE id \in as
      BY <1>1, <1>2, <1>3, <3>1
    <3>2. CASE id \notin as
      <4>1. Billed(id) /\ id \notin Repaired /\ rows'[id] = rows[id]
        BY <1>3, <1>5, <2>1, <3>2
      <4> QED BY <1>1, <4>1 DEF CInv, RowsOK
    <3> QED BY <3>1, <3>2
  <2>2. ASSUME NEW o \in Occurrences, rows'[o].status = "posted" PROVE Billed(o)'
    BY <1>3, <1>5, <2>2, NoRowFacts DEF CInv, RowsOK
  <2>3. ASSUME NEW a \in Archives PROVE Present(a)' <=> rows'[a].evidence
    BY <1>2, <1>3, <1>5, <1>6 DEF CInv, RowsOK
  <2> QED BY <1>4, <2>1, <2>2, <2>3 DEF RowsOK, Billed, Present
<1>10. BilledOnce'
  <2>0. Doubtful \subseteq Doubtful'
    BY <1>5, <1>6, DoubtStays
  <2>1. ASSUME NEW a \in Archives, Billed(a)', ArchiveOf[a] \notin Doubtful'
        PROVE  ArchiveOf[a] \in Instalments /\ ~Present(ArchiveOf[a])'
    <3>1. CASE a \in as
      BY <1>2, <1>5, <1>8, <3>1
    <3>2. CASE a \notin as
      BY <1>5, <2>0, <2>1, <3>2 DEF CInv, BilledOnce
    <3> QED BY <3>1, <3>2
  <2>2. ASSUME NEW a \in Archives, NEW b \in Archives, Billed(a)', Billed(b)', ArchiveOf[a] = ArchiveOf[b],
               ArchiveOf[a] \notin Doubtful'
        PROVE  a = b
    <3>1. Present(a) /\ Present(b)
      BY <1>2, <1>5, <2>2 DEF CInv, RowsOK, Present
    <3>2. CASE a \in as
      BY <1>2, <2>2, <3>1, <3>2
    <3>3. CASE b \in as
      BY <1>2, <2>2, <3>1, <3>3
    <3>4. CASE a \notin as /\ b \notin as
      BY <1>5, <2>0, <2>2, <3>4 DEF CInv, BilledOnce
    <3> QED BY <3>2, <3>3, <3>4
  <2> QED BY <2>1, <2>2 DEF BilledOnce
<1>11. BatchOK' /\ BankOK'
  BY <1>1 DEF CInv, BatchOK, BankOK, NoBatch
<1>12. ASSUME NEW id \in Ids
       PROVE  /\ Present(id) => \E j \in Ids : Present(j)' /\ OccurrenceOf(j) = OccurrenceOf(id)
              /\ Billed(id) => \E j \in Ids : Billed(j)' /\ OccurrenceOf(j) = OccurrenceOf(id)
  <2>1. CASE id \in Repaired
    <3>1. PICK a \in as : ArchiveOf[a] = id
      BY <1>7, <2>1
    <3>2. Billed(a)' /\ Present(a)' /\ OccurrenceOf(a) = OccurrenceOf(id)
      BY <1>2, <1>5, <1>6, <3>1
    <3> QED BY <3>2
  <2>2. CASE id \notin Repaired
    BY <1>5, <2>2
  <2> QED BY <2>1, <2>2
<1>13. ASSUME NEW a \in Archives
       PROVE  LET o == ArchiveOf[a] IN
              /\ ~Present(o) => rows'[o].status # "posted"
              /\ rows[a].evidence => Present(a)' /\ rows'[a].evidence
  <2>1. ~Present(ArchiveOf[a]) => ~Present(ArchiveOf[a])'
    BY <1>5
  <2>2. rows[a].evidence => Present(a)' /\ rows'[a].evidence
    BY <1>3, <1>5, <1>6 DEF CInv, RowsOK
  <2> QED BY <2>1, <2>2 DEF Present
<1>14. CInv'
  BY <1>9, <1>10, <1>11 DEF CInv
<1> QED BY <1>12, <1>13, <1>14

\* An import adds one archived row; if it bills, its occurrence is doubtful.
LEMMA ImportKeeps ==
    ASSUME CInv, NEW a \in Archives, ImportArchive(a)
    PROVE  /\ CInv'
           /\ \A id \in Ids : (Present(id) => Present(id)') /\ (Billed(id) => Billed(id)')
           /\ \A b \in Archives :
                 /\ ~Present(ArchiveOf[b]) => rows'[ArchiveOf[b]].status # "posted"
                 /\ rows[b].evidence => Present(b)' /\ rows'[b].evidence
<1> USE IdFacts
<1> DEFINE new == [status |-> "posted", evidence |-> TRUE,
                   charge |-> IF a \in Dated THEN ChargeDay[ArchiveOf[a]] ELSE Never]
<1>0. new \in RowType /\ new.status = "posted" /\ new.evidence
      /\ new.charge = IF a \in Dated THEN ChargeDay[ArchiveOf[a]] ELSE Never
  BY DEF RowType
<1>1. /\ \A id \in Ids : id # a => rows'[id] = rows[id]
      /\ rows'[a] = new /\ rows' \in [Ids -> RowType]
      /\ phase = "idle" /\ UNCHANGED <<today, posted, pending, phase, batch>>
      /\ a \in Dated => posted[ArchiveOf[a]] # Never
  <2>1. rows' = [rows EXCEPT ![a] = new]
    BY DEF ImportArchive
  <2>2. /\ phase = "idle" /\ UNCHANGED <<today, posted, pending, phase, batch>>
        /\ a \in Dated => posted[ArchiveOf[a]] # Never
    BY DEF ImportArchive, bank, run
  <2> HIDE DEF new
  <2>3. rows \in [Ids -> RowType]
    BY DEF CInv, RowsOK
  <2> QED BY <1>0, <2>1, <2>2, <2>3
<1> HIDE DEF new
<1>2. ~Billed(a) /\ ~Present(a)
  BY DEF ImportArchive, Present, CInv, RowsOK
<1>3. \A id \in Ids : /\ Billed(id)' <=> (Billed(id) \/ (id = a /\ a \in Dated))
                      /\ Present(id)' <=> (Present(id) \/ id = a)
  BY <1>0, <1>1, <1>2 DEF Billed, Present
<1>4. RowsOK'
  <2>1. ASSUME NEW id \in Ids, Billed(id)'
        PROVE  /\ rows'[id].status = "posted" /\ rows'[id].charge = ChargeDay[OccurrenceOf(id)]
               /\ posted'[OccurrenceOf(id)] # Never
    <3>1. CASE id = a
      BY <1>0, <1>1, <1>2, <1>3, <2>1, <3>1
    <3>2. CASE id # a
      BY <1>1, <1>3, <2>1, <3>2 DEF CInv, RowsOK
    <3> QED BY <3>1, <3>2
  <2>2. \A o \in Occurrences : rows'[o].status = "posted" => Billed(o)'
    BY <1>1, <1>3 DEF CInv, RowsOK
  <2>3. \A b \in Archives : Present(b)' <=> rows'[b].evidence
    BY <1>0, <1>1, <1>3 DEF CInv, RowsOK
  <2> QED BY <1>1, <2>1, <2>2, <2>3 DEF RowsOK, Billed, Present
<1>5. BilledOnce'
  <2>1. Doubtful \subseteq Doubtful'
    BY <1>3, DoubtStays
  <2>2. a \in Dated => ArchiveOf[a] \in Doubtful'
    BY <1>3 DEF Doubtful
  <2>3. \A b \in Archives : ArchiveOf[b] \notin Doubtful' /\ Billed(b)' => Billed(b) /\ ArchiveOf[b] \notin Doubtful
    BY <1>3, <2>1, <2>2
  <2>4. \A b \in Archives : Present(ArchiveOf[b])' <=> Present(ArchiveOf[b])
    BY <1>3
  <2> QED BY <2>3, <2>4 DEF CInv, BilledOnce
<1>6. BatchOK' /\ BankOK'
  BY <1>1 DEF CInv, BatchOK, BankOK, NoBatch
<1>7. \A b \in Archives : /\ ~Present(ArchiveOf[b]) => rows'[ArchiveOf[b]].status # "posted"
                          /\ rows[b].evidence => Present(b)' /\ rows'[b].evidence
  BY <1>0, <1>1, <1>3 DEF Present, CInv, RowsOK
<1> QED BY <1>3, <1>4, <1>5, <1>6, <1>7 DEF CInv

\* The steps that leave the rows alone.
LEMMA QuietKeeps ==
    ASSUME CInv, UNCHANGED rows, BankOK', BatchOK',
           \A o \in Occurrences : posted[o] # Never => posted'[o] # Never
    PROVE  /\ CInv'
           /\ \A id \in Ids : (Present(id)' <=> Present(id)) /\ (Billed(id)' <=> Billed(id))
           /\ \A a \in Archives : LET o == ArchiveOf[a] IN
                 /\ Present(a) /\ o \in Instalments /\ ~Present(o) => rows'[o].status # "posted"
                 /\ rows[a].evidence => Present(a)' /\ rows'[a].evidence
<1> USE IdFacts
<1>1. \A id \in Ids : (Present(id)' <=> Present(id)) /\ (Billed(id)' <=> Billed(id))
  BY DEF Present, Billed
<1>2. RowsOK'
  BY <1>1 DEF CInv, RowsOK, RowType
<1>3. BilledOnce'
  BY <1>1, DoubtStays DEF CInv, BilledOnce
<1>4. \A a \in Archives : LET o == ArchiveOf[a] IN
        /\ Present(a) /\ o \in Instalments /\ ~Present(o) => rows'[o].status # "posted"
        /\ rows[a].evidence => Present(a)' /\ rows'[a].evidence
  BY <1>1 DEF Present, CInv, RowsOK
<1> QED BY <1>1, <1>2, <1>3, <1>4 DEF CInv

-----------------------------------------------------------------------------
(* The theorems. *)

Kept ==
    \A a \in Archives : LET o == ArchiveOf[a] IN
        /\ Present(a) /\ o \in Instalments /\ ~Present(o) => rows'[o].status # "posted"
        /\ rows[a].evidence => Present(a)' /\ rows'[a].evidence

\* What a step means for the promise: it learns or it pays.
Learnt ==
    /\ \A id \in Ids : Present(id) => \E j \in Ids : Present(j)' /\ OccurrenceOf(j) = OccurrenceOf(id)
    /\ \A id \in Ids : Billed(id) => \E j \in Ids : Billed(j)' /\ OccurrenceOf(j) = OccurrenceOf(id)
    /\ UNCHANGED payments

LEMMA StepCInv ==
    ASSUME CInv, [Next]_vars
    PROVE  /\ CInv' /\ Kept
           /\ Learnt \/ (UNCHANGED rows /\ \E d \in ChargeDays : InsertSyntheticPayment(d))
<1> DEFINE Done == /\ CInv' /\ Kept
                   /\ Learnt \/ (UNCHANGED rows /\ \E d \in ChargeDays : InsertSyntheticPayment(d))
<1>0. ASSUME UNCHANGED rows, BankOK', BatchOK',
             \A o \in Occurrences : posted[o] # Never => posted'[o] # Never,
             UNCHANGED payments \/ \E d \in ChargeDays : InsertSyntheticPayment(d)
      PROVE  Done
  BY <1>0, QuietKeeps DEF Kept, Learnt
<1>1. CASE Tomorrow
  BY <1>0, <1>1 DEF Tomorrow, bank, run, CInv, BankOK, BatchOK, Billed
<1>2. CASE Scrape
  <2>1. BatchOK'
    <3>1. /\ batch'.posted \subseteq {o \in Occurrences : posted[o] # Never}
          /\ batch'.pending \subseteq pending /\ phase' = "read" /\ UNCHANGED <<rows, posted>>
      BY <1>2 DEF Scrape, bank
    <3>2. \A id \in Ids : Billed(id) => posted[OccurrenceOf(id)] # Never
      BY DEF CInv, RowsOK
    <3> QED BY <3>1, <3>2 DEF BatchOK, CInv, BankOK, Billed
  <2> QED BY <1>0, <1>2, <2>1 DEF Scrape, bank, CInv, BankOK
<1>3. CASE UpsertTransactions
  BY <1>3, UpsertKeeps DEF Kept, Learnt, UpsertTransactions
<1>4. CASE WritePayments
  BY <1>0, <1>4 DEF WritePayments, bank, CInv, BankOK, BatchOK, Billed
<1>5. CASE Crash
  <2>1. BatchOK'
    BY <1>5 DEF Crash, BatchOK, NoBatch
  <2> QED BY <1>0, <1>5, <2>1 DEF Crash, bank, CInv, BankOK
<1>6. ASSUME NEW o \in Occurrences, BankMoves(o) PROVE Done
  <2>1. UNCHANGED <<rows, payments, phase, batch, today>>
    BY <1>6 DEF BankMoves, run
  <2>2. BankOK' /\ \A p \in Occurrences : posted[p] # Never => posted'[p] # Never
    BY <1>6, <2>1 DEF BankMoves, CInv, BankOK, Never
  <2>3. BatchOK'
    BY <2>1, <2>2 DEF CInv, BatchOK, Billed
  <2> QED BY <1>0, <2>1, <2>2, <2>3
<1>7. ASSUME NEW a \in Archives, ImportArchive(a) PROVE Done
  BY <1>7, ImportKeeps DEF Kept, Learnt, ImportArchive
<1>8. ASSUME NEW as \in SUBSET Archives, Coalesce(as) PROVE Done
  BY <1>8, CoalesceKeeps DEF Kept, Learnt, Coalesce
<1>9. ASSUME NEW d \in ChargeDays, InsertSyntheticPayment(d) PROVE Done
  BY <1>0, <1>9 DEF InsertSyntheticPayment, bank, CInv, BankOK, BatchOK, Billed
<1>10. CASE UNCHANGED vars
  BY <1>0, <1>10 DEF vars, bank, run, CInv, BankOK, BatchOK, Billed
<1> QED BY <1>1, <1>2, <1>3, <1>4, <1>5, <1>6, <1>7, <1>8, <1>9, <1>10 DEF Next

\* The bank, the batch of a scrape, the rows it writes and the payments agree at every step of
\* applySuccess, crashes in between included.
THEOREM Invariant == Spec => []CInv
BY InitCInv, StepCInv, PTL DEF Spec

\* A posted instalment does not get a row next to its archived one, and neither a refresh nor a
\* repair drops the archive's evidence (matchesArchiveInstallment, coalesceArchiveInstallments).
THEOREM ArchivedInstalmentsStaySingle == Spec => NoNewTwin
<1>1. CInv /\ [Next]_vars => [Kept]_vars
  BY StepCInv
<1> QED BY <1>1, Invariant, PTL DEF Spec, NoNewTwin, Kept

-----------------------------------------------------------------------------
(* Sums over finite sets, for what is billed on a day. *)

\* Among finite sets one has no other below it: what an induction over a finite set rests on.
LEMMA LeastSet ==
    ASSUME NEW T, T # {}, \A t \in T : IsFiniteSet(t)
    PROVE  \E t \in T : \A u \in T : u \subseteq t => u = t
<1>1. T \subseteq FiniteSubsetsOf(UNION T)
  BY DEF FiniteSubsetsOf
<1>2. \E t \in T : \A u \in T : <<u, t>> \notin StrictSubsetOrdering(UNION T)
  BY <1>1, FS_StrictSubsetOrderingWellFounded, WFMin
<1> QED BY <1>2 DEF StrictSubsetOrdering

\* The order in which MapThenSumSet takes the elements.
Pick(s) == CHOOSE x \in s : TRUE
Rest(s) == s \ {Pick(s)}

\* g adds up F over the subsets of S.
Adds(g, F, S) ==
    g = [s \in SUBSET S |-> IF s = {} THEN 0 ELSE F[Pick(s)] + g[Rest(s)]]

LEMMA RestFacts ==
    ASSUME NEW s, s # {}
    PROVE  Pick(s) \in s /\ Rest(s) \subseteq s /\ Rest(s) # s /\ Pick(s) \notin Rest(s)
BY DEF Pick, Rest

\* The sums of a set do not depend on the larger set they are taken in.
LEMMA AddsOnce ==
    ASSUME NEW F, NEW S, NEW U, IsFiniteSet(S), NEW g, NEW h, Adds(g, F, S), Adds(h, F, U),
           NEW t, t \subseteq S, t \subseteq U
    PROVE  g[t] = h[t]
<1> DEFINE Bad == {s \in SUBSET t : g[s] # h[s]}
<1> SUFFICES ASSUME Bad # {} PROVE FALSE
  OBVIOUS
<1>1. \A s \in Bad : IsFiniteSet(s)
  BY FS_Subset
<1>2. PICK s \in Bad : \A u \in Bad : u \subseteq s => u = s
  <2> HIDE DEF Bad
  <2> QED BY <1>1, LeastSet
<1>3. s # {}
  BY <1>2 DEF Adds
<1>4. Rest(s) \subseteq s /\ Rest(s) # s
  BY <1>3, RestFacts
<1>5. g[Rest(s)] = h[Rest(s)]
  BY <1>2, <1>4
<1>6. /\ g[s] = F[Pick(s)] + g[Rest(s)]
      /\ h[s] = F[Pick(s)] + h[Rest(s)]
  BY <1>2, <1>3 DEF Adds
<1> QED BY <1>2, <1>5, <1>6

\* Every finite set has its sums.
LEMMA AddsExists ==
    ASSUME NEW F, NEW S, IsFiniteSet(S)
    PROVE  \E g : Adds(g, F, S)
<1> DEFINE Bad == {s \in SUBSET S : ~\E g : Adds(g, F, s)}
<1> SUFFICES ASSUME Bad # {} PROVE FALSE
  OBVIOUS
<1>1. \A s \in Bad : IsFiniteSet(s)
  BY FS_Subset
<1>2. PICK t \in Bad : \A u \in Bad : u \subseteq t => u = t
  <2> HIDE DEF Bad
  <2> QED BY <1>1, LeastSet
<1> DEFINE For(s) == CHOOSE g : Adds(g, F, s)
           G == [s \in SUBSET t |-> IF s = {} THEN 0 ELSE F[Pick(s)] + For(Rest(s))[Rest(s)]]
<1>3. ASSUME NEW s \in SUBSET t, s # t PROVE Adds(For(s), F, s)
  BY <1>2, <1>3
<1>4. ASSUME NEW s \in SUBSET t, s # {}, Rest(s) # {}
      PROVE  For(Rest(s))[Rest(s)] = F[Pick(Rest(s))] + For(Rest(Rest(s)))[Rest(Rest(s))]
  <2> DEFINE r == Rest(s)
  <2>1. r \in SUBSET t /\ r # t /\ Rest(r) \in SUBSET t /\ Rest(r) # t /\ Rest(r) \subseteq r /\ r # {}
    BY <1>4, RestFacts
  <2>2. Adds(For(r), F, r) /\ Adds(For(Rest(r)), F, Rest(r))
    BY <1>3, <2>1
  <2>3. IsFiniteSet(r) /\ IsFiniteSet(Rest(r))
    BY <2>1, FS_Subset
  <2>4. For(r)[Rest(r)] = For(Rest(r))[Rest(r)]
    BY <2>1, <2>2, <2>3, AddsOnce
  <2>5. For(r)[r] = F[Pick(r)] + For(r)[Rest(r)]
    BY <2>1, <2>2 DEF Adds
  <2> QED BY <2>4, <2>5
<1>5. ASSUME NEW s \in SUBSET t, s # {} PROVE For(Rest(s))[Rest(s)] = G[Rest(s)]
  <2>1. Rest(s) \in SUBSET t /\ Rest(s) # t
    BY <1>5, RestFacts
  <2>2. CASE Rest(s) = {}
    <3>1. Adds(For({}), F, {})
      BY <2>1, <2>2, <1>3
    <3>2. For({})[{}] = 0
      <4> HIDE DEF For
      <4> QED BY <3>1 DEF Adds
    <3>3. G[{}] = 0
      OBVIOUS
    <3> QED BY <2>2, <3>2, <3>3
  <2>3. CASE Rest(s) # {}
    BY <1>4, <1>5, <2>1, <2>3
  <2> QED BY <2>2, <2>3
<1>6. Adds(G, F, t)
  <2>1. \A s \in SUBSET t : (IF s = {} THEN 0 ELSE F[Pick(s)] + For(Rest(s))[Rest(s)])
                            = (IF s = {} THEN 0 ELSE F[Pick(s)] + G[Rest(s)])
    <3> HIDE DEF For, G
    <3> QED BY <1>5
  <2>2. G = [s \in SUBSET t |-> IF s = {} THEN 0 ELSE F[Pick(s)] + G[Rest(s)]]
    <3> HIDE DEF For
    <3> QED BY <2>1
  <2> QED BY <2>2 DEF Adds
<1> QED BY <1>2, <1>6

SumOf(F, S) == (CHOOSE g : Adds(g, F, S))[S]

LEMMA SumIs ==
    ASSUME NEW F, NEW S, IsFiniteSet(S), NEW U, S \subseteq U, NEW g, Adds(g, F, U)
    PROVE  g[S] = SumOf(F, S)
<1> DEFINE c == CHOOSE h : Adds(h, F, S)
<1>1. Adds(c, F, S)
  BY AddsExists
<1>2. SumOf(F, S) = c[S]
  BY DEF SumOf
<1> HIDE DEF c
<1>3. c[S] = g[S]
  BY <1>1, AddsOnce
<1> QED BY <1>2, <1>3

LEMMA SumSteps ==
    ASSUME NEW F, NEW S, IsFiniteSet(S)
    PROVE  SumOf(F, S) = IF S = {} THEN 0 ELSE F[Pick(S)] + SumOf(F, Rest(S))
<1>1. PICK g : Adds(g, F, S)
  BY AddsExists
<1>2. g[S] = IF S = {} THEN 0 ELSE F[Pick(S)] + g[Rest(S)]
  BY <1>1 DEF Adds
<1>3. g[S] = SumOf(F, S)
  BY <1>1, SumIs
<1>4. Rest(S) \subseteq S /\ IsFiniteSet(Rest(S))
  BY FS_Subset DEF Rest
<1>5. g[Rest(S)] = SumOf(F, Rest(S))
  BY <1>1, <1>4, SumIs
<1> QED BY <1>2, <1>3, <1>5

LEMMA SumIsInt ==
    ASSUME NEW F, NEW S, IsFiniteSet(S), \A x \in S : F[x] \in Int
    PROVE  SumOf(F, S) \in Int
<1> DEFINE Bad == {s \in SUBSET S : SumOf(F, s) \notin Int}
<1> SUFFICES ASSUME Bad # {} PROVE FALSE
  OBVIOUS
<1>1. \A s \in Bad : IsFiniteSet(s)
  BY FS_Subset
<1>2. PICK s \in Bad : \A u \in Bad : u \subseteq s => u = s
  <2> HIDE DEF Bad
  <2> QED BY <1>1, LeastSet
<1>3. SumOf(F, s) = IF s = {} THEN 0 ELSE F[Pick(s)] + SumOf(F, Rest(s))
  BY <1>1, <1>2, SumSteps
<1>4. s # {}
  BY <1>2, <1>3
<1>5. Rest(s) \subseteq s /\ Rest(s) # s /\ Pick(s) \in s
  BY <1>4, RestFacts
<1>6. SumOf(F, Rest(s)) \in Int /\ F[Pick(s)] \in Int
  BY <1>2, <1>5
<1> QED BY <1>2, <1>3, <1>4, <1>6

\* Any element may be taken first.
LEMMA SumTakes ==
    ASSUME NEW F, NEW S, IsFiniteSet(S), \A x \in S : F[x] \in Int, NEW x \in S
    PROVE  SumOf(F, S) = F[x] + SumOf(F, S \ {x})
<1> DEFINE Bad == {s \in SUBSET S : \E y \in s : SumOf(F, s) # F[y] + SumOf(F, s \ {y})}
<1> SUFFICES ASSUME Bad # {} PROVE FALSE
  OBVIOUS
<1>1. \A s \in SUBSET S : IsFiniteSet(s) /\ SumOf(F, s) \in Int
  BY FS_Subset, SumIsInt
<1>2. PICK s \in Bad : \A u \in Bad : u \subseteq s => u = s
  <2>1. \A s \in Bad : IsFiniteSet(s)
    BY <1>1
  <2> HIDE DEF Bad
  <2> QED BY <2>1, LeastSet
<1>3. PICK y \in s : SumOf(F, s) # F[y] + SumOf(F, s \ {y})
  BY <1>2
<1> DEFINE p == Pick(s)
<1>4. p \in s /\ Rest(s) = s \ {p}
  BY RestFacts DEF Rest
<1>5. SumOf(F, s) = F[p] + SumOf(F, s \ {p})
  BY <1>1, <1>2, <1>4, SumSteps
<1>6. p # y
  BY <1>3, <1>5
<1> HIDE DEF p
<1>7. s \ {p} \notin Bad /\ s \ {y} \notin Bad
  BY <1>2, <1>3, <1>4
<1>8. /\ s \ {p} \in SUBSET S /\ s \ {y} \in SUBSET S /\ y \in s \ {p} /\ p \in s \ {y}
      /\ (s \ {p}) \ {y} \in SUBSET S /\ (s \ {p}) \ {y} = (s \ {y}) \ {p}
  BY <1>2, <1>3, <1>4, <1>6
<1>9. SumOf(F, s \ {p}) = F[y] + SumOf(F, (s \ {p}) \ {y})
  BY <1>7, <1>8
<1>10. SumOf(F, s \ {y}) = F[p] + SumOf(F, (s \ {p}) \ {y})
  BY <1>7, <1>8
<1>11. F[p] \in Int /\ F[y] \in Int /\ SumOf(F, (s \ {p}) \ {y}) \in Int
  BY <1>1, <1>2, <1>3, <1>4, <1>8
<1> QED BY <1>3, <1>5, <1>9, <1>10, <1>11

LEMMA SumOfEqual ==
    ASSUME NEW F, NEW G, NEW S, IsFiniteSet(S), \A x \in S : F[x] = G[x]
    PROVE  SumOf(F, S) = SumOf(G, S)
<1> DEFINE Bad == {s \in SUBSET S : SumOf(F, s) # SumOf(G, s)}
<1> SUFFICES ASSUME Bad # {} PROVE FALSE
  OBVIOUS
<1>1. \A s \in Bad : IsFiniteSet(s)
  BY FS_Subset
<1>2. PICK s \in Bad : \A u \in Bad : u \subseteq s => u = s
  <2> HIDE DEF Bad
  <2> QED BY <1>1, LeastSet
<1>3. /\ SumOf(F, s) = IF s = {} THEN 0 ELSE F[Pick(s)] + SumOf(F, Rest(s))
      /\ SumOf(G, s) = IF s = {} THEN 0 ELSE G[Pick(s)] + SumOf(G, Rest(s))
  BY <1>1, <1>2, SumSteps
<1>4. s # {}
  BY <1>2, <1>3
<1>5. Rest(s) \subseteq s /\ Rest(s) # s /\ Pick(s) \in s
  BY <1>4, RestFacts
<1>6. SumOf(F, Rest(s)) = SumOf(G, Rest(s)) /\ F[Pick(s)] = G[Pick(s)]
  BY <1>2, <1>5
<1> QED BY <1>2, <1>3, <1>4, <1>6

LEMMA SumOfZeros ==
    ASSUME NEW K, IsFiniteSet(K)
    PROVE  SumOf([k \in K |-> 0], K) = 0
<1> DEFINE Zero == [k \in K |-> 0]
           Bad == {s \in SUBSET K : SumOf(Zero, s) # 0}
<1> SUFFICES ASSUME Bad # {} PROVE FALSE
  OBVIOUS
<1>1. \A s \in Bad : IsFiniteSet(s)
  BY FS_Subset
<1>2. PICK s \in Bad : \A u \in Bad : u \subseteq s => u = s
  <2> HIDE DEF Bad
  <2> QED BY <1>1, LeastSet
<1>3. SumOf(Zero, s) = IF s = {} THEN 0 ELSE Zero[Pick(s)] + SumOf(Zero, Rest(s))
  <2> HIDE DEF Zero
  <2> QED BY <1>1, <1>2, SumSteps
<1>4. s # {}
  BY <1>2, <1>3
<1>5. Rest(s) \subseteq s /\ Rest(s) # s /\ Pick(s) \in s
  BY <1>4, RestFacts
<1>6. SumOf(Zero, Rest(s)) = 0 /\ Zero[Pick(s)] = 0
  BY <1>2, <1>5
<1> QED BY <1>2, <1>3, <1>4, <1>6

\* How many elements of s are mapped to k, and what they come to at G[k] each.
Number(f, s, k) == Cardinality({x \in s : f[x] = k})
Charged(f, s, G, K) == [k \in K |-> Number(f, s, k) * G[k]]

\* One more element counts once more, where it is mapped to.
LEMMA OneMore ==
    ASSUME NEW f, NEW s, IsFiniteSet(s), NEW x \in s, NEW k
    PROVE  /\ Number(f, s, k) \in Nat /\ Number(f, s \ {x}, k) \in Nat
           /\ Number(f, s, k) = Number(f, s \ {x}, k) + (IF f[x] = k THEN 1 ELSE 0)
<1> DEFINE A == {y \in s : f[y] = k}
           B == {y \in s \ {x} : f[y] = k}
<1>1. IsFiniteSet(A) /\ IsFiniteSet(B)
  BY FS_Subset
<1>2. Cardinality(A) \in Nat /\ Cardinality(B) \in Nat
  <2> HIDE DEF A, B
  <2> QED BY <1>1, FS_CardinalityType
<1>3. CASE f[x] = k
  <2>1. B = A \ {x} /\ x \in A
    BY <1>3
  <2> HIDE DEF A, B
  <2>2. Cardinality(B) = Cardinality(A) - 1
    BY <1>1, <2>1, FS_RemoveElement
  <2>3. Cardinality(A) = Cardinality(B) + 1
    BY <1>2, <2>2
  <2> QED BY <1>2, <1>3, <2>3 DEF Number, A, B
<1>4. CASE f[x] # k
  <2>1. A = B
    BY <1>4
  <2>2. Cardinality(A) = Cardinality(B) + 0
    BY <1>2, <2>1
  <2> HIDE DEF A, B
  <2> QED BY <1>2, <1>4, <2>2 DEF Number, A, B
<1> QED BY <1>3, <1>4

\* A sum over a set is that over what its elements are mapped to, each as often as it is met.
LEMMA SumCounts ==
    ASSUME NEW F, NEW G, NEW S, IsFiniteSet(S), NEW K, IsFiniteSet(K), NEW f,
           \A x \in S : f[x] \in K /\ F[x] = G[f[x]],
           \A k \in K : G[k] \in Int
    PROVE  SumOf(F, S) = SumOf(Charged(f, S, G, K), K)
<1> DEFINE C(s) == Charged(f, s, G, K)
           Bad == {s \in SUBSET S : SumOf(F, s) # SumOf(C(s), K)}
<1> SUFFICES ASSUME Bad # {} PROVE FALSE
  OBVIOUS
<1>1. \A s \in SUBSET S : IsFiniteSet(s)
  BY FS_Subset
<1>2. PICK s \in Bad : \A u \in Bad : u \subseteq s => u = s
  <2>1. \A s \in Bad : IsFiniteSet(s)
    BY <1>1
  <2> HIDE DEF Bad
  <2> QED BY <2>1, LeastSet
<1>3. s # {}
  <2>1. \A k \in K : C({})[k] = 0
    <3>1. \A k : {x \in {} : f[x] = k} = {}
      OBVIOUS
    <3>2. \A k : Number(f, {}, k) = 0
      BY <3>1, FS_EmptySet DEF Number
    <3> QED BY <3>2 DEF Charged
  <2>2. SumOf(F, {}) = 0
    BY FS_EmptySet, SumSteps
  <2>3. SumOf(C({}), K) = 0
    <3> DEFINE Zero == [k \in K |-> 0]
    <3>1. SumOf(C({}), K) = SumOf(Zero, K)
      <4> DEFINE D == C({})
      <4>1. \A k \in K : D[k] = Zero[k]
        BY <2>1
      <4> HIDE DEF D, Zero
      <4> QED BY <4>1, SumOfEqual DEF D
    <3>2. SumOf(Zero, K) = 0
      BY SumOfZeros
    <3> QED BY <3>1, <3>2
  <2> QED BY <1>2, <2>2, <2>3
<1>4. PICK x \in s : TRUE
  BY <1>3
<1> DEFINE r == s \ {x}
           h == f[x]
<1>5. r \in SUBSET S /\ s \in SUBSET S /\ r # s /\ h \in K /\ F[x] = G[h] /\ G[h] \in Int
  BY <1>2, <1>4
<1>6. SumOf(F, r) = SumOf(C(r), K)
  BY <1>2, <1>5
<1>7. SumOf(F, s) = F[x] + SumOf(F, r) /\ SumOf(F, r) \in Int
  <2>1. \A y \in s : F[y] \in Int
    BY <1>5
  <2>2. IsFiniteSet(s) /\ IsFiniteSet(r)
    BY <1>1, <1>5
  <2> HIDE DEF Bad
  <2>3. SumOf(F, s) = F[x] + SumOf(F, s \ {x})
    BY <1>4, <2>1, <2>2, SumTakes
  <2>4. SumOf(F, r) \in Int
    BY <2>1, <2>2, SumIsInt
  <2> QED BY <2>3, <2>4
<1>o. \A k \in K : /\ Number(f, s, k) \in Nat /\ Number(f, r, k) \in Nat
                   /\ Number(f, s, k) = Number(f, r, k) + (IF h = k THEN 1 ELSE 0)
  <2>1. IsFiniteSet(s)
    BY <1>1, <1>5
  <2> HIDE DEF Bad
  <2> QED BY <1>4, <2>1, OneMore
<1>8. \A k \in K : /\ C(s)[k] \in Int /\ C(r)[k] \in Int
                   /\ k # h => C(s)[k] = C(r)[k]
  <2> SUFFICES ASSUME NEW k \in K
               PROVE  C(s)[k] \in Int /\ C(r)[k] \in Int /\ (k # h => C(s)[k] = C(r)[k])
    OBVIOUS
  <2>1. /\ Number(f, s, k) \in Nat /\ Number(f, r, k) \in Nat
        /\ Number(f, s, k) = Number(f, r, k) + (IF h = k THEN 1 ELSE 0)
    BY <1>o
  <2>2. C(s)[k] = Number(f, s, k) * G[k] /\ C(r)[k] = Number(f, r, k) * G[k] /\ G[k] \in Int
    BY DEF Charged
  <2> HIDE DEF C, r, h
  <2>3. k # h => Number(f, s, k) = Number(f, r, k)
    BY <2>1
  <2>4. \A m \in Nat, g \in Int : m * g \in Int
    OBVIOUS
  <2> QED BY <2>1, <2>2, <2>3, <2>4
<1>9. C(s)[h] = C(r)[h] + G[h]
  <2>1. /\ Number(f, r, h) \in Nat
        /\ Number(f, s, h) = Number(f, r, h) + 1
    BY <1>5, <1>o
  <2>2. C(s)[h] = Number(f, s, h) * G[h] /\ C(r)[h] = Number(f, r, h) * G[h]
    BY <1>5 DEF Charged
  <2>3. \A m \in Nat, g \in Int : (m + 1) * g = m * g + g
    OBVIOUS
  <2> HIDE DEF C, r, h
  <2> QED BY <1>5, <2>1, <2>2, <2>3
<1> HIDE DEF C, r, h, Bad
<1>10. /\ SumOf(C(s), K) = C(s)[h] + SumOf(C(s), K \ {h})
       /\ SumOf(C(r), K) = C(r)[h] + SumOf(C(r), K \ {h})
  BY <1>5, <1>8, SumTakes
<1>11. SumOf(C(s), K \ {h}) = SumOf(C(r), K \ {h}) /\ SumOf(C(r), K \ {h}) \in Int
  <2>1. IsFiniteSet(K \ {h}) /\ \A k \in K \ {h} : C(s)[k] = C(r)[k] /\ C(r)[k] \in Int
    BY <1>8, FS_Subset
  <2> QED BY <2>1, SumOfEqual, SumIsInt
<1>12. SumOf(F, s) = SumOf(C(s), K)
  BY <1>5, <1>6, <1>7, <1>8, <1>9, <1>10, <1>11
<1> QED BY <1>2, <1>12 DEF Bad

\* The amounts of rows, by their ids.
RowAmount == [id \in Ids |-> Amount[OccurrenceOf(id)]]

LEMMA FiniteIds == \A ids : ids \subseteq Ids => IsFiniteSet(ids)
BY CardAssumption, FS_Subset

LEMMA WorthIsSum == ASSUME NEW S \in SUBSET Ids PROVE Worth(S) = SumOf(RowAmount, S)
<1> DEFINE Term(s) == Amount[OccurrenceOf(CHOOSE x \in s : TRUE)]
           Sums(h) == [s \in SUBSET S |-> IF s = {} THEN 0 ELSE Term(s) + h[s \ {CHOOSE x \in s : TRUE}]]
           c == CHOOSE g : g = Sums(g)
<1>1. Worth(S) = c[S]
  BY DEF Worth, MapThenSumSet, MapThenFoldSet
<1>2. \A s \in SUBSET S : s # {} => Term(s) = RowAmount[Pick(s)]
  BY RestFacts DEF Pick, RowAmount
<1>3. ASSUME NEW h PROVE Adds(h, RowAmount, S) <=> h = Sums(h)
  <2>1. \A s \in SUBSET S : (IF s = {} THEN 0 ELSE Term(s) + h[s \ {CHOOSE x \in s : TRUE}])
                            = (IF s = {} THEN 0 ELSE RowAmount[Pick(s)] + h[Rest(s)])
    BY <1>2 DEF Rest, Pick
  <2>2. Sums(h) = [s \in SUBSET S |-> IF s = {} THEN 0 ELSE RowAmount[Pick(s)] + h[Rest(s)]]
    BY <2>1
  <2> HIDE DEF Sums
  <2> QED BY <2>2 DEF Adds
<1>4. IsFiniteSet(S)
  BY FiniteIds
<1> HIDE DEF Sums
<1>5. PICK g : Adds(g, RowAmount, S)
  BY <1>4, AddsExists
<1>6. c = Sums(c)
  BY <1>3, <1>5
<1>7. Adds(c, RowAmount, S)
  BY <1>3, <1>6
<1> HIDE DEF c
<1> QED BY <1>1, <1>4, <1>7, SumIs

LEMMA RowAmountFacts == \A id \in Ids : RowAmount[id] = Amount[OccurrenceOf(id)] /\ RowAmount[id] \in Int
BY IdFacts, CardAssumption DEF RowAmount

-----------------------------------------------------------------------------
(* The refinement. *)

Stored == {OccurrenceOf(id) : id \in {i \in Ids : Present(i)}}
RowsBilling(o) == {id \in Ids : Billed(id) /\ OccurrenceOf(id) = o}
Copies == [o \in Occurrences |-> Cardinality(RowsBilling(o))]

\* What the bill of a day comes to in the terms of CardStatement.
LEMMA StatementTotalIsSum ==
    ASSUME NEW d
    PROVE  Statement!Total(d) = SumOf([o \in Occurrences |-> Copies[o] * Amount[o]],
                                      {o \in Occurrences : ChargeDay[o] = d})
<1> DEFINE S == {o \in Occurrences : ChargeDay[o] = d}
           A == [o \in Occurrences |-> Copies[o] * Amount[o]]
           Term(s) == LET o == CHOOSE x \in s : TRUE IN Copies[o] * Amount[o]
           Sums(h) == [s \in SUBSET S |-> IF s = {} THEN 0 ELSE Term(s) + h[s \ {CHOOSE x \in s : TRUE}]]
           c == CHOOSE g : g = Sums(g)
<1>1. Statement!Total(d) = c[S]
  BY DEF Statement!Total, Statement!MapThenSumSet, Statement!MapThenFoldSet, Copies, RowsBilling, Billed
<1>2. \A s \in SUBSET S : s # {} => Term(s) = A[Pick(s)]
  BY RestFacts DEF Pick
<1>3. ASSUME NEW h PROVE Adds(h, A, S) <=> h = Sums(h)
  <2>1. \A s \in SUBSET S : (IF s = {} THEN 0 ELSE Term(s) + h[s \ {CHOOSE x \in s : TRUE}])
                            = (IF s = {} THEN 0 ELSE A[Pick(s)] + h[Rest(s)])
    <3> HIDE DEF Term, A
    <3> QED BY <1>2 DEF Rest, Pick
  <2>2. Sums(h) = [s \in SUBSET S |-> IF s = {} THEN 0 ELSE A[Pick(s)] + h[Rest(s)]]
    <3> HIDE DEF Term, A
    <3> QED BY <2>1
  <2> HIDE DEF Sums, A
  <2> QED BY <2>2 DEF Adds
<1>4. IsFiniteSet(S)
  BY CardAssumption, FS_Subset DEF Ids
<1> HIDE DEF Sums, A, S
<1>5. PICK g : Adds(g, A, S)
  BY <1>4, AddsExists
<1>6. c = Sums(c)
  BY <1>3, <1>5
<1>7. Adds(c, A, S)
  BY <1>3, <1>6
<1> HIDE DEF c
<1>8. c[S] = SumOf(A, S)
  BY <1>4, <1>7, SumIs
<1> QED BY <1>1, <1>8 DEF A, S

\* What is billed on a day is its occurrences, each as often as there are rows that bill it.
LEMMA SumIsTotal ==
    ASSUME CInv, NEW d \in ChargeDays
    PROVE  Sum(d) = Statement!Total(d)
<1> USE IdFacts
<1> DEFINE f == [id \in Ids |-> OccurrenceOf(id)]
           K == {o \in Occurrences : ChargeDay[o] = d}
           A == [o \in Occurrences |-> Copies[o] * Amount[o]]
           S == BilledOn(d)
           C == Charged(f, S, Amount, K)
<1>1. \A id \in Ids : id \in S <=> Billed(id) /\ ChargeDay[OccurrenceOf(id)] = d
  <2>1. d # Never
    BY DEF ChargeDays
  <2> QED BY <2>1 DEF BilledOn, Billed, CInv, RowsOK
<1>2. S \in SUBSET Ids /\ IsFiniteSet(S) /\ IsFiniteSet(K)
  BY FiniteIds DEF BilledOn, Ids
<1>3. \A id \in S : f[id] \in K /\ RowAmount[id] = Amount[f[id]]
  BY <1>1, <1>2, RowAmountFacts
<1>4. \A o \in K : Amount[o] \in Int
  BY CardAssumption
<1>5. ASSUME NEW o \in K PROVE C[o] = A[o]
  <2>1. {id \in S : f[id] = o} = RowsBilling(o)
    BY <1>1, <1>2, <1>5 DEF RowsBilling
  <2> QED BY <2>1 DEF Charged, Number, Copies
<1>6. Worth(S) = SumOf(RowAmount, S)
  BY <1>2, WorthIsSum
<1> HIDE DEF f, K, A, S
<1>7. SumOf(RowAmount, S) = SumOf(C, K)
  BY <1>2, <1>3, <1>4, SumCounts
<1> HIDE DEF C
<1>8. SumOf(C, K) = SumOf(A, K)
  BY <1>2, <1>5, SumOfEqual
<1> QED BY <1>6, <1>7, <1>8, StatementTotalIsSum DEF Sum, A, K, S

LEMMA CountFacts ==
    ASSUME NEW S, IsFiniteSet(S)
    PROVE  /\ Cardinality(S) \in Nat
           /\ Cardinality(S) > 0 <=> S # {}
           /\ (\A i, j \in S : i = j) => Cardinality(S) <= 1
<1>1. Cardinality(S) \in Nat /\ (Cardinality(S) = 0 <=> S = {})
  BY FS_CardinalityType, FS_EmptySet
<1>2. ASSUME \A i, j \in S : i = j PROVE Cardinality(S) <= 1
  <2>1. CASE S = {}
    BY <1>1, <2>1
  <2>2. CASE S # {}
    <3>1. PICK i \in S : S = {i}
      BY <1>2, <2>2
    <3> QED BY <3>1, FS_Singleton
  <2> QED BY <2>1, <2>2
<1> QED BY <1>1, <1>2

LEMMA InitStatement == Init => Statement!Init
<1> SUFFICES ASSUME Init PROVE Statement!Init
  OBVIOUS
<1>1. \A id \in Ids : ~Present(id) /\ ~Billed(id)
  BY NoRowFacts DEF Init, Present, Billed
<1>2. \A o \in Occurrences : RowsBilling(o) = {}
  BY <1>1 DEF RowsBilling
<1>3. Copies = [o \in Occurrences |-> 0]
  BY <1>2, FS_EmptySet DEF Copies
<1>4. Doubtful = {}
  BY <1>1, IdFacts, CardAssumption DEF Doubtful
<1>5. Stored = {} /\ payments = [d \in ChargeDays |-> 0]
  BY <1>1 DEF Stored, Init, Unpaid
<1> QED BY <1>3, <1>4, <1>5
        DEF Statement!Init, Statement!ChargeDays, Statement!Unpaid, ChargeDays, Stored, Doubtful, Copies,
            RowsBilling, Billed

LEMMA LearntIsLearn ==
    ASSUME CInv, Learnt, CInv', Doubtful \subseteq Doubtful'
    PROVE  Statement!Learn
<1> USE IdFacts
<1>1. Stored \subseteq Stored' /\ Stored' \subseteq Occurrences
  BY DEF Learnt, Stored
<1>2. Copies' \in [Occurrences -> Nat]
  <2>1. ASSUME NEW o \in Occurrences PROVE Cardinality(RowsBilling(o)') \in Nat
    <3>1. RowsBilling(o)' \in SUBSET Ids
      BY DEF RowsBilling
    <3> QED BY <3>1, FiniteIds, CountFacts
  <2> QED BY <2>1 DEF Copies
<1>3. ASSUME NEW o \in Occurrences
      PROVE  /\ Copies[o] > 0 => Copies'[o] > 0
             /\ Copies'[o] > 0 => o \in Stored'
             /\ Copies'[o] > 1 => o \in Doubtful'
  <2>1. /\ Copies[o] > 0 <=> RowsBilling(o) # {}
        /\ Copies'[o] > 0 <=> RowsBilling(o)' # {}
        /\ (\A i, j \in RowsBilling(o)' : i = j) => Copies'[o] <= 1
        /\ Copies'[o] \in Nat
    <3>1. RowsBilling(o) \in SUBSET Ids /\ RowsBilling(o)' \in SUBSET Ids
      BY DEF RowsBilling
    <3>2. IsFiniteSet(RowsBilling(o)) /\ IsFiniteSet(RowsBilling(o)')
      BY <3>1, FiniteIds
    <3>3. Copies[o] = Cardinality(RowsBilling(o)) /\ Copies'[o] = Cardinality(RowsBilling(o)')
      BY DEF Copies
    <3> QED BY <3>2, <3>3, CountFacts
  <2>2. RowsBilling(o) # {} => RowsBilling(o)' # {}
    BY DEF Learnt, RowsBilling
  <2>3. RowsBilling(o)' # {} => o \in Stored'
    <3>1. \A id \in Ids : Billed(id)' => Present(id)'
      BY DEF CInv, RowsOK, Present
    <3> QED BY <3>1 DEF RowsBilling, Stored
  <2>4. o \notin Doubtful' => \A i, j \in RowsBilling(o)' : i = j
    <3> SUFFICES ASSUME o \notin Doubtful', NEW i \in RowsBilling(o)', NEW j \in RowsBilling(o)' PROVE i = j
      OBVIOUS
    <3>1. i \in Ids /\ j \in Ids /\ Billed(i)' /\ Billed(j)' /\ OccurrenceOf(i) = o /\ OccurrenceOf(j) = o
      BY DEF RowsBilling
    <3>2. Present(o)' \/ (i # o /\ j # o)
      BY <3>1 DEF CInv, RowsOK, Present
    <3> QED BY <3>1, <3>2 DEF CInv, BilledOnce, OccurrenceOf, Ids
  <2> QED BY <2>1, <2>2, <2>3, <2>4
<1>4. UNCHANGED payments
  BY DEF Learnt
<1> QED BY <1>1, <1>2, <1>3, <1>4
        DEF Statement!Learn, Stored, Copies, RowsBilling, Billed, Doubtful

LEMMA StepStatement == ASSUME CInv, [Next]_vars PROVE [Statement!Next]_(Statement!vars)
<1>1. CASE Learnt
  <2>1. \A a \in Archives : Present(a) => Present(a)'
    BY StepCInv, IdFacts DEF Kept, CInv, RowsOK
  <2> QED BY <1>1, <2>1, StepCInv, DoubtStays, LearntIsLearn DEF Statement!Next
<1>2. ASSUME NEW d \in ChargeDays, InsertSyntheticPayment(d), UNCHANGED rows
      PROVE  Statement!Next
  <2>1. payments[d] = Unpaid /\ payments' = [payments EXCEPT ![d] = -Sum(d)]
    BY <1>2 DEF InsertSyntheticPayment, Due
  <2>2. Statement!Pay(d)
    BY <1>2, <2>1, SumIsTotal DEF Statement!Pay, Statement!Unpaid, Unpaid, Present
  <2> QED BY <2>2 DEF Statement!Next, Statement!ChargeDays, ChargeDays
<1> QED BY <1>1, <1>2, StepCInv

\* The ledger implements the promise: what was stored or billed stays so under every alias,
\* repair and crash, and a payment is the sum of the rows that bill at its time, and final; two
\* of them bill one occurrence only if an archived row with a statement date is one of it.
THEOREM LedgerImplementsStatement == Spec => ImplementsStatement
BY InitStatement, StepStatement, Invariant, PTL DEF Spec, ImplementsStatement, Statement!Spec

-----------------------------------------------------------------------------
(* A payment is of the whole bill. *)

\* Posted in time for the windows, and not before the first of them.
InTime(o) == posted[o] # Never /\ posted[o] < BuyDay[o] + OverlapDays /\ StartDay <= BuyDay[o]

NoArchives == \A a \in Archives : ~Present(a)

\* Everything the bank posted in time before a day is billed, unless an archive says otherwise.
Known(day) == NoArchives => \A o \in Occurrences : InTime(o) /\ posted[o] < day => Billed(o)

\* Where the window of a scrape starts.
From == Max({StartDay, IF lastSuccess = Never THEN 0 ELSE lastSuccess - OverlapDays})

\* A success knows what was posted before the day of its scrape, which is its own day or the
\* one before; and no scraped row is from before the first window.
WindowsOK ==
    /\ lastSuccess # Never => Known(lastSuccess - 1)
    /\ phase = "read" => /\ readOn <= today /\ today <= readOn + 1
                         /\ \A o \in Occurrences :
                               posted[o] # Never /\ posted[o] < readOn /\ From <= BuyDay[o]
                               => o \in batch.posted
    /\ phase = "paying" => Known(today - 1)
    /\ \A o \in Occurrences :
          Present(o) \/ o \in batch.posted \cup batch.pending => StartDay <= BuyDay[o]

\* A payment is of a settled statement.
PaymentsOK ==
    /\ payments \in [ChargeDays -> Int]
    /\ \A d \in ChargeDays : payments[d] # Unpaid => d + SettleDays <= today
    /\ \A d \in credits \cup created : payments[d] # Unpaid
    /\ lastSuccess <= today

Bill(d) == {o \in Occurrences : ChargeDay[o] = d}
PostedInTime(d) == \A o \in Bill(d) : posted[o] \in 0..d /\ posted[o] < BuyDay[o] + OverlapDays

BillsOK ==
    \A d \in ChargeDays :
        payments[d] # Unpaid /\ NoArchives /\ PostedInTime(d) => payments[d] = -Worth(Bill(d))


PaidInv == CInv /\ TypeOK /\ WindowsOK /\ PaymentsOK /\ BillsOK

LEMMA DayFacts ==
    /\ \A o \in Occurrences : BuyDay[o] \in Nat /\ ChargeDay[o] \in Nat /\ ChargeDay[o] - BuyDay[o] \in 0..PartialDays
    /\ \A d \in ChargeDays : d \in Nat
    /\ StartDay \in Nat /\ OverlapDays \in Nat /\ SettleDays \in Nat /\ PartialDays \in Nat /\ MaxDay \in Nat
    /\ Never \in Int /\ Never = -1
BY DayAssumption, CycleAssumption DEF ChargeDays, Never

LEMMA InitPaid == Init => PaidInv
<1> SUFFICES ASSUME Init PROVE PaidInv
  OBVIOUS
<1> USE DayFacts, IdFacts
<1>1. CInv
  BY InitCInv
<1>2. TypeOK
  <2>1. rows \in [Ids -> RowType]
    BY <1>1 DEF CInv, RowsOK
  <2>2. \A d \in ChargeDays : payments[d] \in Int
    BY DEF Init, Unpaid
  <2>3. /\ today = 0 /\ posted = [o \in Occurrences |-> Never] /\ pending = {} /\ credits = {} /\ created = {}
        /\ phase = "idle" /\ readOn = Never /\ lastSuccess = Never
        /\ batch.posted = {} /\ batch.pending = {}
    BY DEF Init, NoBatch
  <2> HIDE DEF Init
  <2> QED BY <2>1, <2>2, <2>3 DEF TypeOK
<1>3. \A id \in Ids : ~Present(id)
  BY NoRowFacts DEF Init, Present
<1>4. WindowsOK
  BY <1>3 DEF Init, WindowsOK, NoBatch
<1>5. PaymentsOK
  BY DEF Init, PaymentsOK, Unpaid
<1>6. BillsOK
  BY DEF Init, BillsOK
<1> QED BY <1>1, <1>2, <1>4, <1>5, <1>6 DEF PaidInv

\* What no step takes back.
LEMMA StepsKeep ==
    ASSUME CInv, TypeOK, [Next]_vars
    PROVE  /\ today' \in {today, today + 1} /\ today' \in 0..MaxDay
           /\ \A o \in Occurrences :
                 /\ posted[o] # Never => posted'[o] = posted[o]
                 /\ posted'[o] \in {posted[o], today}
           /\ NoArchives' => NoArchives
           /\ \A o \in Occurrences : NoArchives' /\ Billed(o) => Billed(o)'
           /\ \A d \in ChargeDays : payments[d] # Unpaid => payments'[d] = payments[d]
<1> USE DayFacts
<1>1. today' \in {today, today + 1} /\ today' \in 0..MaxDay
  <2>1. CASE Tomorrow
    BY <2>1 DEF Tomorrow, TypeOK
  <2>2. CASE ~Tomorrow
    BY <2>2 DEF Next, vars, TypeOK, Scrape, UpsertTransactions, WritePayments, Crash, BankMoves, ImportArchive,
                Coalesce, InsertSyntheticPayment
  <2> QED BY <2>1, <2>2
<1>2. ASSUME NEW o \in Occurrences
      PROVE  (posted[o] # Never => posted'[o] = posted[o]) /\ posted'[o] \in {posted[o], today}
  <2>1. ASSUME NEW p \in Occurrences, BankMoves(p)
        PROVE  (posted[o] # Never => posted'[o] = posted[o]) /\ posted'[o] \in {posted[o], today}
    BY <2>1 DEF BankMoves, TypeOK
  <2>2. CASE ~\E p \in Occurrences : BankMoves(p)
    BY <2>2 DEF Next, vars, bank, Tomorrow, Scrape, UpsertTransactions, WritePayments, Crash, ImportArchive,
                Coalesce, InsertSyntheticPayment
  <2> QED BY <2>1, <2>2
<1>3. CInv' /\ Kept /\ (Learnt \/ UNCHANGED rows)
  BY StepCInv
<1>4. NoArchives' => NoArchives
  BY <1>3 DEF NoArchives, Kept, CInv, RowsOK
<1>5. ASSUME NEW o \in Occurrences, NoArchives', Billed(o) PROVE Billed(o)'
  <2>1. CASE Learnt
    <3>1. PICK j \in Ids : Billed(j)' /\ OccurrenceOf(j) = OccurrenceOf(o)
      BY <1>5, <2>1, IdFacts DEF Learnt
    <3>2. Present(j)'
      BY <1>3, <3>1 DEF CInv, RowsOK, Billed, Present
    <3>3. j \notin Archives
      BY <1>5, <3>2 DEF NoArchives
    <3>4. j = o
      BY <3>1, <3>3, IdFacts DEF OccurrenceOf
    <3> QED BY <3>1, <3>4
  <2>2. CASE UNCHANGED rows
    BY <1>5, <2>2 DEF Billed
  <2> QED BY <1>3, <2>1, <2>2
<1>6. ASSUME NEW d \in ChargeDays, payments[d] # Unpaid PROVE payments'[d] = payments[d]
  <2>1. ASSUME NEW e \in ChargeDays, InsertSyntheticPayment(e) PROVE payments'[d] = payments[d]
    BY <1>6, <2>1 DEF InsertSyntheticPayment, Due
  <2>2. CASE ~\E e \in ChargeDays : InsertSyntheticPayment(e)
    BY <2>2 DEF Next, vars, BankMoves, Tomorrow, Scrape, UpsertTransactions, WritePayments, Crash, ImportArchive,
                Coalesce
  <2> QED BY <2>1, <2>2
<1> QED BY <1>1, <1>2, <1>4, <1>5, <1>6

\* What was known stays known: the bank posts nothing into the past.
LEMMA KnownStays ==
    ASSUME CInv, TypeOK, [Next]_vars, NEW day \in Int, day <= today, Known(day)
    PROVE  NoArchives' => \A o \in Occurrences : InTime(o)' /\ posted'[o] < day => Billed(o)'
<1> SUFFICES ASSUME NoArchives', NEW o \in Occurrences, InTime(o)', posted'[o] < day PROVE Billed(o)'
  OBVIOUS
<1>1. NoArchives /\ posted'[o] \in {posted[o], today} /\ (Billed(o) => Billed(o)')
  BY StepsKeep
<1>2. posted'[o] = posted[o]
  BY <1>1, DayFacts DEF TypeOK
<1>3. InTime(o)
  BY <1>2 DEF InTime
<1> QED BY <1>1, <1>2, <1>3 DEF Known

\* A payment is a number other than nothing.
LEMMA SumsAreNumbers == ASSUME CInv, NEW d \in ChargeDays PROVE Sum(d) \in Int
<1>1. BilledOn(d) \in SUBSET Ids
  BY DEF BilledOn
<1>2. IsFiniteSet(BilledOn(d)) /\ \A id \in BilledOn(d) : RowAmount[id] \in Int
  BY <1>1, FiniteIds, RowAmountFacts
<1> QED BY <1>1, <1>2, WorthIsSum, SumIsInt DEF Sum

LEMMA StepPayments ==
    ASSUME CInv, TypeOK, PaymentsOK, [Next]_vars
    PROVE  PaymentsOK'
<1> USE DayFacts DEF PaymentsOK
<1>1. today' >= today /\ today' \in Int /\ today \in Int
  BY StepsKeep DEF TypeOK
<1>2. ASSUME UNCHANGED <<payments, credits, created, lastSuccess>> PROVE PaymentsOK'
  <2>1. lastSuccess <= today'
    BY <1>1 DEF TypeOK
  <2>2. \A d \in ChargeDays : payments[d] # Unpaid => d + SettleDays <= today'
    BY <1>1
  <2> QED BY <1>2, <2>1, <2>2
<1>3. ASSUME UNCHANGED <<payments, lastSuccess, today>>, created' \cup credits' \subseteq created \cup credits PROVE PaymentsOK'
  BY <1>3
<1>4. ASSUME NEW d \in ChargeDays, InsertSyntheticPayment(d) PROVE PaymentsOK'
  <2>1. /\ payments' = [payments EXCEPT ![d] = -Sum(d)] /\ created' = created \cup {d}
        /\ UNCHANGED <<today, credits, lastSuccess>> /\ Sum(d) # 0 /\ d <= today - SettleDays
    BY <1>4 DEF InsertSyntheticPayment, Due
  <2>2. Sum(d) \in Int
    BY SumsAreNumbers
  <2>3. -Sum(d) \in Int /\ -Sum(d) # Unpaid /\ d + SettleDays <= today
    BY <1>1, <2>1, <2>2 DEF Unpaid
  <2>4. payments' \in [ChargeDays -> Int]
    BY <2>1, <2>3
  <2>5. \A e \in ChargeDays : payments'[e] = IF e = d THEN -Sum(d) ELSE payments[e]
    BY <2>1
  <2>6. created \cup credits \subseteq ChargeDays
    BY DEF TypeOK
  <2> QED BY <2>1, <2>3, <2>4, <2>5, <2>6
<1>5. CASE WritePayments
  BY <1>1, <1>5 DEF WritePayments
<1>6. CASE Crash
  BY <1>3, <1>6 DEF Crash
<1>7. CASE Tomorrow \/ Scrape \/ UpsertTransactions \/ UNCHANGED vars
  BY <1>2, <1>7 DEF Tomorrow, Scrape, UpsertTransactions, vars, run
<1>8. ASSUME NEW o \in Occurrences, BankMoves(o) PROVE PaymentsOK'
  BY <1>2, <1>8 DEF BankMoves, run
<1>9. ASSUME NEW a \in Archives, ImportArchive(a) PROVE PaymentsOK'
  BY <1>2, <1>9 DEF ImportArchive, run
<1>10. ASSUME NEW as \in SUBSET Archives, Coalesce(as) PROVE PaymentsOK'
  BY <1>2, <1>10 DEF Coalesce, run
<1> QED BY <1>4, <1>5, <1>6, <1>7, <1>8, <1>9, <1>10 DEF Next


LEMMA StepType ==
    ASSUME CInv, TypeOK, PaymentsOK, [Next]_vars
    PROVE  TypeOK'
<1> USE DayFacts
<1>1. rows' \in [Ids -> RowType] /\ today' \in 0..MaxDay /\ PaymentsOK' /\ pending' \subseteq Occurrences
      /\ batch'.posted \subseteq Occurrences /\ batch'.pending \subseteq Occurrences
  BY StepCInv, StepsKeep, StepPayments DEF CInv, RowsOK, BankOK, BatchOK
<1>2. posted' \in [Occurrences -> 0..MaxDay \cup {Never}]
  <2>1. ASSUME NEW o \in Occurrences PROVE posted'[o] \in 0..MaxDay \cup {Never}
    BY StepsKeep DEF TypeOK
  <2>2. posted' \in [Occurrences -> Nat \cup {Never}]
    BY StepCInv DEF CInv, BankOK
  <2> QED BY <2>1, <2>2
<1>3. \A d \in ChargeDays : payments'[d] \in Int
  BY <1>1 DEF PaymentsOK
<1> DEFINE Rest1 == /\ credits' \subseteq ChargeDays /\ created' \subseteq ChargeDays \ credits'
                   /\ phase' \in {"idle", "read", "paying"} /\ (phase' # "paying" => created' = {})
                   /\ readOn' \in 0..MaxDay \cup {Never} /\ lastSuccess' \in 0..MaxDay \cup {Never}
<1>4. Rest1
  <2>1. CASE UNCHANGED <<phase, readOn, created, lastSuccess, credits>>
    BY <2>1 DEF TypeOK
  <2>2. CASE Scrape
    BY <2>2 DEF Scrape, TypeOK
  <2>3. CASE UpsertTransactions
    BY <2>3 DEF UpsertTransactions, TypeOK
  <2>4. CASE WritePayments
    BY <2>4 DEF WritePayments, TypeOK
  <2>5. CASE Crash
    BY <2>5 DEF Crash, TypeOK
  <2>6. ASSUME NEW d \in ChargeDays, InsertSyntheticPayment(d) PROVE Rest1
    <3>1. d \notin credits
      BY <2>6 DEF InsertSyntheticPayment, Due, PaymentsOK
    <3> QED BY <2>6, <3>1 DEF InsertSyntheticPayment, TypeOK
  <2>7. UNCHANGED <<phase, readOn, created, lastSuccess, credits>> \/ Scrape \/ UpsertTransactions \/ WritePayments
        \/ Crash \/ \E d \in ChargeDays : InsertSyntheticPayment(d)
    BY DEF Next, vars, run, Tomorrow, BankMoves, ImportArchive, Coalesce
  <2> QED BY <2>1, <2>2, <2>3, <2>4, <2>5, <2>6, <2>7
<1> QED BY <1>1, <1>2, <1>3, <1>4 DEF TypeOK

\* The least of a set of days.
LEMMA MinFacts ==
    ASSUME NEW S \in SUBSET Nat, S # {}
    PROVE  Min(S) \in S /\ \A x \in S : Min(S) <= x
<1> DEFINE Below == {0..n : n \in S}
<1>1. Below # {} /\ \A t \in Below : IsFiniteSet(t)
  <2>1. \A n \in S : IsFiniteSet(0..n)
    BY FS_Interval
  <2> QED BY <2>1
<1>2. PICK t \in Below : \A u \in Below : u \subseteq t => u = t
  <2> HIDE DEF Below
  <2> QED BY <1>1, LeastSet
<1>3. PICK n \in S : t = 0..n
  BY <1>2
<1>4. \A m \in S : n <= m
  <2> SUFFICES ASSUME NEW m \in S, m < n PROVE FALSE
    OBVIOUS
  <2>1. 0..m \subseteq 0..n /\ n \notin 0..m /\ n \in 0..n
    OBVIOUS
  <2> QED BY <1>2, <1>3, <2>1
<1> QED BY <1>3, <1>4 DEF Min

LEMMA MaxFacts ==
    ASSUME NEW a \in Int, NEW b \in Int
    PROVE  Max({a, b}) \in {a, b} /\ a <= Max({a, b}) /\ b <= Max({a, b})
BY DEF Max

LEMMA FromFacts ==
    ASSUME TypeOK
    PROVE  /\ From \in Int /\ StartDay <= From
           /\ lastSuccess = Never => \A x \in Nat : StartDay <= x => From <= x
           /\ lastSuccess # Never => \A x \in Nat : StartDay <= x /\ lastSuccess - OverlapDays <= x => From <= x
<1> USE DayFacts
<1> DEFINE b == IF lastSuccess = Never THEN 0 ELSE lastSuccess - OverlapDays
<1>1. b \in Int /\ (lastSuccess = Never => b = 0) /\ (lastSuccess # Never => b = lastSuccess - OverlapDays)
  BY DEF TypeOK
<1>2. From = Max({StartDay, b})
  BY DEF From
<1> HIDE DEF b
<1>3. Max({StartDay, b}) \in {StartDay, b} /\ StartDay <= Max({StartDay, b})
  BY <1>1, MaxFacts
<1>4. From \in Int /\ StartDay <= From /\ (From = StartDay \/ From = b)
  BY <1>1, <1>2, <1>3
<1>5. CASE lastSuccess = Never
  BY <1>1, <1>4, <1>5
<1>6. CASE lastSuccess # Never
  BY <1>1, <1>4, <1>6
<1> QED BY <1>4, <1>5, <1>6

\* Without archived rows a posted row is written under its own id.
LEMMA UpsertBills ==
    ASSUME CInv, UpsertTransactions, NoArchives
    PROVE  \A o \in batch.posted : Billed(o)'
<1>1. batch.posted \in SUBSET Occurrences
  BY DEF CInv, BatchOK
<1>2. \A o \in Occurrences : Candidates(o) = {}
  BY DEF NoArchives, Candidates, Matches
<1>3. Resolvable(batch.posted)
  BY <1>1, <1>2, FS_EmptySet DEF Resolvable
<1>4. \A o \in Occurrences : Canonical(o) = o
  BY <1>2 DEF Canonical
<1>5. ASSUME NEW o \in batch.posted PROVE Billed(o)'
  <2>1. o \in Occurrences /\ o \in Ids /\ OccurrenceOf(o) = o
    BY <1>1, IdFacts
  <2>2. rows'[o] = Refreshed(rows[o], o)
    BY <1>3, <1>4, <2>1, UpsertedFacts DEF UpsertTransactions
  <2>3. rows'[o].charge = ChargeDay[o]
    BY <2>1, <2>2, RefreshedFacts DEF CInv, RowsOK
  <2> QED BY <2>1, <2>3, IdFacts DEF Billed
<1> QED BY <1>5


LEMMA StepWindows ==
    ASSUME CInv, TypeOK, PaymentsOK, WindowsOK, [Next]_vars
    PROVE  WindowsOK'
<1> USE DayFacts
<1> DEFINE Success == lastSuccess' # Never => Known(lastSuccess - 1)'
           Reading == phase' = "read" =>
                        /\ readOn' <= today' /\ today' <= readOn' + 1
                        /\ \A o \in Occurrences :
                               posted'[o] # Never /\ posted'[o] < readOn' /\ From' <= BuyDay[o]
                               => o \in batch'.posted
           Paying == phase' = "paying" => Known(today - 1)'
           Scraped == \A o \in Occurrences :
                        Present(o)' \/ o \in batch'.posted \cup batch'.pending => StartDay <= BuyDay[o]
<1>0. Success /\ Reading /\ Paying /\ Scraped => WindowsOK'
  BY DEF WindowsOK
<1>1. /\ today \in Int /\ lastSuccess \in Int /\ lastSuccess <= today /\ readOn \in Int
      /\ \A o \in Occurrences : posted[o] \in Int
  BY DEF TypeOK, PaymentsOK
<1>2. \A o \in Occurrences : /\ posted[o] # Never => posted'[o] = posted[o]
                             /\ posted'[o] \in {posted[o], today}
  BY StepsKeep
\* A success of before.
<1>3. ASSUME UNCHANGED lastSuccess PROVE Success
  <2>1. CASE lastSuccess # Never
    <3>1. Known(lastSuccess - 1) /\ lastSuccess - 1 \in Int /\ lastSuccess - 1 <= today
      BY <1>1, <2>1 DEF WindowsOK
    <3>2. NoArchives' => \A o \in Occurrences : InTime(o)' /\ posted'[o] < lastSuccess - 1 => Billed(o)'
      BY <3>1, KnownStays
    <3> QED BY <1>3, <3>2 DEF Known
  <2>2. CASE lastSuccess = Never
    BY <1>3, <2>2
  <2> QED BY <2>1, <2>2
\* A batch of before.
<1>4. ASSUME UNCHANGED <<phase, readOn, batch, lastSuccess>>, phase = "read" => today' <= readOn + 1
      PROVE  Reading
  <2> SUFFICES ASSUME phase = "read" PROVE Reading
    BY <1>4
  <2>1. readOn <= today' /\ today' <= readOn' + 1
    BY <1>1, <1>4, StepsKeep DEF WindowsOK
  <2>2. From' = From
    BY <1>4 DEF From
  <2>3. ASSUME NEW o \in Occurrences, posted'[o] # Never, posted'[o] < readOn, From <= BuyDay[o]
        PROVE  o \in batch.posted
    <3>1. posted'[o] = posted[o]
      BY <1>1, <1>2, <2>3 DEF WindowsOK
    <3> QED BY <2>3, <3>1 DEF WindowsOK
  <2> HIDE DEF From
  <2> QED BY <1>4, <2>1, <2>2, <2>3
\* A transaction of before.
<1>5. ASSUME UNCHANGED <<phase, today>> PROVE Paying
  <2> SUFFICES ASSUME phase = "paying" PROVE Known(today - 1)'
    BY <1>5
  <2>1. Known(today - 1) /\ today - 1 \in Int /\ today - 1 <= today
    BY <1>1 DEF WindowsOK
  <2>2. NoArchives' => \A o \in Occurrences : InTime(o)' /\ posted'[o] < today - 1 => Billed(o)'
    BY <2>1, KnownStays
  <2> QED BY <1>5, <2>2 DEF Known
<1>6. ASSUME UNCHANGED <<rows, batch>> PROVE Scraped
  BY <1>6 DEF WindowsOK, Present
<1> HIDE DEF Success, Reading, Paying, Scraped
<1>7. CASE Tomorrow
  <2>1. UNCHANGED <<rows, phase, readOn, batch, lastSuccess>> /\ phase # "paying" /\ (phase = "read" => readOn = today)
        /\ today' = today + 1
    BY <1>7 DEF Tomorrow, run
  <2>2. Paying
    BY <2>1 DEF Paying
  <2>3. phase = "read" => today' <= readOn + 1
    BY <1>1, <2>1
  <2> QED BY <1>0, <1>3, <1>4, <1>6, <2>1, <2>2, <2>3
<1>8. CASE Scrape
  <2>1. /\ phase' = "read" /\ readOn' = today /\ UNCHANGED <<today, posted, rows, lastSuccess>>
        /\ batch'.posted = {o \in Occurrences : posted[o] # Never /\ BuyDay[o] >= From}
        /\ batch'.pending = {o \in pending : BuyDay[o] >= From}
    BY <1>8 DEF Scrape, bank, From
  <2>2. From' = From
    BY <2>1 DEF From
  <2>3. From \in Int /\ StartDay <= From
    BY FromFacts
  <2>4. Reading
    <3> HIDE DEF From
    <3> QED BY <1>1, <2>1, <2>2, <2>3 DEF Reading
  <2>5. Scraped
    <3>1. \A o \in Occurrences : Present(o)' => StartDay <= BuyDay[o]
      BY <2>1 DEF WindowsOK, Present
    <3>2. \A o \in Occurrences : o \in batch'.posted \cup batch'.pending => StartDay <= BuyDay[o]
      BY <2>1, <2>3
    <3> QED BY <3>1, <3>2 DEF Scraped
  <2>6. Paying
    BY <2>1 DEF Paying
  <2> QED BY <1>0, <1>3, <2>1, <2>4, <2>5, <2>6
<1>9. CASE UpsertTransactions
  <2>1. /\ phase = "read" /\ phase' \in {"idle", "paying"} /\ batch' = NoBatch
        /\ UNCHANGED <<today, posted, lastSuccess>>
    BY <1>9 DEF UpsertTransactions, bank
  <2>2. Reading
    BY <2>1 DEF Reading
  <2>3. Paying
    <3> SUFFICES ASSUME NoArchives', NEW o \in Occurrences, InTime(o)', posted'[o] < today' - 1
                 PROVE  Billed(o)'
      BY DEF Paying, Known
    <3>1. NoArchives /\ InTime(o) /\ posted[o] < today - 1 /\ posted[o] # Never
      BY <2>1, StepsKeep DEF InTime
    <3>2. posted[o] < readOn /\ StartDay <= BuyDay[o] /\ posted[o] < BuyDay[o] + OverlapDays /\ BuyDay[o] \in Int
      BY <1>1, <2>1, <3>1 DEF WindowsOK, InTime
    <3>3. CASE From <= BuyDay[o]
      BY <1>9, <2>1, <3>1, <3>2, <3>3, UpsertBills DEF WindowsOK
    <3>4. CASE ~(From <= BuyDay[o])
      <4>1. lastSuccess # Never /\ BuyDay[o] < lastSuccess - OverlapDays
        BY <1>1, <3>2, <3>4, FromFacts
      <4>2. posted[o] < lastSuccess - 1
        BY <1>1, <3>2, <4>1
      <4>3. Billed(o)
        BY <3>1, <4>1, <4>2 DEF WindowsOK, Known
      <4> QED BY <4>3, StepsKeep
    <3> QED BY <3>3, <3>4
  <2>4. Scraped
    <3> SUFFICES ASSUME NEW o \in Occurrences, Present(o)' PROVE StartDay <= BuyDay[o]
      BY <2>1 DEF Scraped, NoBatch
    <3>1. CASE Present(o) \/ o \in batch.posted \cup batch.pending
      BY <3>1 DEF WindowsOK
    <3>2. CASE ~Present(o) /\ o \notin batch.posted \cup batch.pending
      <4>1. o \in Ids /\ OccurrenceOf(o) = o
        BY IdFacts
      <4>2. rows'[o] = rows[o]
        BY <1>9, <3>2, <4>1, UpsertedFacts DEF UpsertTransactions
      <4> QED BY <3>2, <4>2 DEF Present
    <3> QED BY <3>1, <3>2
  <2> QED BY <1>0, <1>3, <2>1, <2>2, <2>3, <2>4
<1>10. CASE WritePayments
  <2>1. /\ phase = "paying" /\ phase' = "idle" /\ lastSuccess' = today
        /\ UNCHANGED <<today, posted, rows, batch>>
    BY <1>10 DEF WritePayments, bank
  <2>2. Success
    <3>1. Known(today - 1)
      BY <2>1 DEF WindowsOK
    <3> QED BY <2>1, <3>1 DEF Success, Known, NoArchives, InTime, Billed, Present
  <2>3. Reading /\ Paying
    BY <2>1 DEF Reading, Paying
  <2> QED BY <1>0, <1>6, <2>1, <2>2, <2>3
<1>11. CASE Crash
  <2>1. phase' = "idle" /\ batch' = NoBatch /\ UNCHANGED <<rows, lastSuccess>>
    BY <1>11 DEF Crash
  <2>2. Reading /\ Paying
    BY <2>1 DEF Reading, Paying
  <2>3. Scraped
    BY <2>1 DEF Scraped, WindowsOK, Present, NoBatch
  <2> QED BY <1>0, <1>3, <2>1, <2>2, <2>3
<1>12. ASSUME UNCHANGED <<today, phase, readOn, batch, lastSuccess>>,
              \A o \in Occurrences : Present(o)' => Present(o)
       PROVE  WindowsOK'
  <2>1. phase = "read" => today' <= readOn + 1
    BY <1>12 DEF WindowsOK
  <2>2. Scraped
    BY <1>12 DEF Scraped, WindowsOK
  <2> QED BY <1>0, <1>3, <1>4, <1>5, <1>12, <2>1, <2>2
<1>13. ASSUME NEW o \in Occurrences, BankMoves(o) PROVE WindowsOK'
  BY <1>12, <1>13 DEF BankMoves, run, Present
<1>14. ASSUME NEW a \in Archives, ImportArchive(a) PROVE WindowsOK'
  <2>1. UNCHANGED <<today, phase, readOn, batch, lastSuccess>>
    BY <1>14 DEF ImportArchive, run
  <2>2. \A o \in Occurrences : rows'[o] = rows[o]
    BY <1>14, IdFacts DEF ImportArchive
  <2> QED BY <1>12, <2>1, <2>2 DEF Present
<1>15. ASSUME NEW as \in SUBSET Archives, Coalesce(as) PROVE WindowsOK'
  <2>1. UNCHANGED <<today, phase, readOn, batch, lastSuccess>>
    BY <1>15 DEF Coalesce, run
  <2>2. ASSUME NEW o \in Occurrences PROVE Present(o)' => Present(o)
    <3>1. rows'[o] \in {NoRow, rows[o]}
      BY <1>15, IdFacts DEF Coalesce
    <3> QED BY <3>1, NoRowFacts DEF Present
  <2> QED BY <1>12, <2>1, <2>2
<1>16. ASSUME NEW d \in ChargeDays, InsertSyntheticPayment(d) PROVE WindowsOK'
  BY <1>12, <1>16 DEF InsertSyntheticPayment, Present
<1>17. CASE UNCHANGED vars
  BY <1>12, <1>17 DEF vars, Present
<1> QED BY <1>7, <1>8, <1>9, <1>10, <1>11, <1>13, <1>14, <1>15, <1>16, <1>17 DEF Next


\* A statement that is paid without archived rows is complete: nothing on its bill is from
\* before the first window, and the last scrape is from a day after all of it was posted.
LEMMA PaidBillIsWhole ==
    ASSUME SettleDays >= 2, PaidInv, NEW d \in ChargeDays, InsertSyntheticPayment(d), NoArchives, PostedInTime(d)
    PROVE  Sum(d) = Worth(Bill(d))
<1> USE DayFacts, IdFacts
<1>1. /\ phase = "paying" /\ BilledOn(d) # {} /\ d <= today - SettleDays
      /\ d >= EarliestBookedDate + PartialDays
  BY DEF InsertSyntheticPayment, Due
<1>2. EarliestBookedDate \in Nat /\ StartDay <= EarliestBookedDate
  <2> DEFINE Days == {BuyDay[OccurrenceOf(id)] : id \in {i \in Ids : Present(i)}}
  <2>1. \A id \in BilledOn(d) : id \in Ids /\ Present(id)
    BY DEF BilledOn, Present
  <2>2. Days \in SUBSET Nat /\ Days # {}
    BY <1>1, <2>1
  <2>3. \A x \in Days : StartDay <= x
    <3>1. ASSUME NEW id \in Ids, Present(id) PROVE StartDay <= BuyDay[OccurrenceOf(id)]
      <4>1. id \in Occurrences
        BY <3>1 DEF NoArchives, Ids
      <4> QED BY <3>1, <4>1 DEF PaidInv, WindowsOK
    <3> QED BY <3>1
  <2>4. EarliestBookedDate = Min(Days)
    BY DEF EarliestBookedDate
  <2> HIDE DEF Days
  <2> QED BY <2>2, <2>3, <2>4, MinFacts
<1>3. ASSUME NEW o \in Bill(d) PROVE Billed(o)
  <2>1. o \in Occurrences /\ ChargeDay[o] = d /\ posted[o] \in 0..d /\ posted[o] < BuyDay[o] + OverlapDays
    BY DEF Bill, PostedInTime
  <2>2. StartDay <= BuyDay[o]
    <3>1. d - BuyDay[o] <= PartialDays /\ BuyDay[o] \in Nat /\ d \in Nat
      BY <2>1
    <3> QED BY <1>1, <1>2, <3>1
  <2>3. posted[o] < today - 1 /\ posted[o] # Never
    <3>1. today \in Int /\ d \in Nat
      BY DEF PaidInv, TypeOK
    <3> QED BY <1>1, <2>1, <3>1
  <2>4. InTime(o)
    BY <2>1, <2>2, <2>3 DEF InTime
  <2> QED BY <1>1, <2>1, <2>3, <2>4 DEF PaidInv, WindowsOK, Known
<1>4. BilledOn(d) = Bill(d)
  <2>1. ASSUME NEW o \in Bill(d) PROVE o \in BilledOn(d)
    <3>1. o \in Occurrences /\ ChargeDay[o] = d
      BY DEF Bill
    <3> QED BY <1>3, <3>1 DEF PaidInv, CInv, RowsOK, BilledOn
  <2>2. ASSUME NEW id \in BilledOn(d) PROVE id \in Bill(d)
    <3>1. id \in Ids /\ rows[id].status = "posted" /\ rows[id].charge = d
      BY DEF BilledOn
    <3>2. Present(id) /\ Billed(id)
      BY <3>1, IdFacts DEF Present, Billed, ChargeDays
    <3>3. id \in Occurrences
      BY <3>1, <3>2 DEF NoArchives, Ids
    <3>4. ChargeDay[id] = d
      BY <3>1, <3>2, <3>3 DEF PaidInv, CInv, RowsOK
    <3> QED BY <3>3, <3>4 DEF Bill
  <2> QED BY <2>1, <2>2
<1> QED BY <1>4 DEF Sum

LEMMA StepPaid ==
    ASSUME SettleDays >= 2, PaidInv, [Next]_vars
    PROVE  PaidInv'
<1> USE DayFacts
<1>1. CInv /\ TypeOK /\ WindowsOK /\ PaymentsOK /\ BillsOK
  BY DEF PaidInv
<1>2. CInv' /\ TypeOK' /\ WindowsOK' /\ PaymentsOK'
  BY <1>1, StepCInv, StepType, StepWindows, StepPayments
<1>3. ASSUME NEW d \in ChargeDays, payments'[d] # Unpaid, NoArchives', PostedInTime(d)'
      PROVE  payments'[d] = -Worth(Bill(d))
  <2>1. NoArchives
    BY <1>1, <1>3, StepsKeep
  <2>2. d + SettleDays <= today' /\ today' \in {today, today + 1} /\ today \in Int
    BY <1>1, <1>2, <1>3, StepsKeep DEF PaymentsOK, TypeOK
  <2>3. PostedInTime(d)
    <3> SUFFICES ASSUME NEW o \in Bill(d) PROVE posted[o] \in 0..d /\ posted[o] < BuyDay[o] + OverlapDays
      BY DEF PostedInTime
    <3>1. o \in Occurrences /\ posted'[o] \in 0..d /\ posted'[o] < BuyDay[o] + OverlapDays
      BY <1>3 DEF PostedInTime, Bill
    <3>2. posted'[o] # today
      BY <2>2, <3>1
    <3>3. posted'[o] = posted[o]
      BY <1>1, <3>1, <3>2, StepsKeep
    <3> QED BY <3>1, <3>3
  <2>4. CASE payments[d] # Unpaid
    BY <1>1, <2>1, <2>3, <2>4, StepsKeep DEF BillsOK
  <2>5. CASE payments[d] = Unpaid
    <3>1. PICK e \in ChargeDays : InsertSyntheticPayment(e)
      BY <1>3, <2>5 DEF Next, vars, BankMoves, Tomorrow, Scrape, UpsertTransactions, WritePayments, Crash,
                       ImportArchive, Coalesce
    <3>2. payments' = [payments EXCEPT ![e] = -Sum(e)] /\ payments \in [ChargeDays -> Int]
      BY <1>1, <3>1 DEF InsertSyntheticPayment, PaymentsOK
    <3>3. e = d /\ payments'[d] = -Sum(d)
      BY <1>3, <2>5, <3>2
    <3>4. Sum(d) = Worth(Bill(d))
      BY <2>1, <2>3, <3>1, <3>3, PaidBillIsWhole
    <3> QED BY <3>3, <3>4
  <2> QED BY <2>4, <2>5
<1>4. BillsOK'
  BY <1>3 DEF BillsOK, Bill
<1> QED BY <1>2, <1>4 DEF PaidInv

LEMMA PaidInvIsEnough == PaidInv => PaidInFull
BY DEF PaidInv, BillsOK, PaidInFull, Bill, PostedInTime, NoArchives

\* A payment is the whole bill: at least two days after the statement date (SETTLE_DAYS is 2)
\* even rows scraped the day before hold all that the bank had posted in time, and the 35 days
\* of PARTIAL_CYCLE_DAYS keep the cycle of the first window from being paid (computeSyntheticPayments).
THEOREM BillsArePaidInFull == ASSUME SettleDays >= 2 PROVE Spec => []PaidInFull
BY InitPaid, StepPaid, PaidInvIsEnough, PTL DEF Spec

=============================================================================
