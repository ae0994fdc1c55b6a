------------------------- MODULE InvestmentStoreProofs -------------------------
(***************************************************************************)
(* The store of one provider, for any number of processes, collections and *)
(* records: what its transactions keep although collections, renewals and  *)
(* archive imports write in any order.                                     *)
(***************************************************************************)
EXTENDS InvestmentStore, TLAPS

-----------------------------------------------------------------------------
(* The invariant the theorems rest on. *)

AttemptType ==
    [kind : {None, "collect", "renew", "login"},
     stage : {None, "started", "browser", "read", "failed", "rejected", "renewed"},
     at : Never..MaxClock,
     result : {None, "partial", "error", "auth_required", "active"},
     pages : Snapshots \cup {NoSnapshot}]

\* What is under way started at some time, and a finished stage has its result.
AttemptOK(x) ==
    /\ x.stage # None => x.at \in Nat
    /\ x.at <= clock
    /\ x.stage = "read" => x.pages \in Snapshots
    /\ x.stage = "failed" => x.result \in {"partial", "error", "auth_required"}
    /\ x.stage = "renewed" => x.result \in {"active", "error", "auth_required"}

ClockOK ==
    /\ provider \in Providers /\ clock \in 0..MaxClock /\ profile \in Processes \cup {None}
    /\ attempt \in [Processes -> AttemptType]
    /\ \A p \in Processes : AttemptOK(attempt[p])

\* No row is newer than the last observation applied.
Applied == IF provider = "hapoalim" THEN source.applied ELSE source.success

DataOK ==
    /\ rows \in [Ids -> RowType] /\ product.pointer \in Dates \cup {None}
    /\ product = NoProduct \/ product.known
    /\ evidence \in Amounts \cup {None}
    /\ \A id \in Ids : rows[id].at <= Applied
    /\ \A e \in Entries : rows[e] # NoRow =>
          evidence # None /\ rows[e].at = Never /\ rows[e].value \in Amounts
    /\ \A c \in stored.rows : c.value # None
    /\ stored.rows \subseteq Current \cup revisions.rows
    /\ \A old \in stored.products : old.known /\ DOMAIN old.reports \subseteq DOMAIN product.reports
    /\ stored.products \subseteq {product} \cup revisions.products

\* The source state, as a function of what was recorded in whatever order.
SourceOK ==
    /\ source \in SourceType
    /\ \A a \in settled : a.at \in 0..MaxClock /\ a.success \in BOOLEAN
    /\ source.success <= source.attempt
    /\ source.success \in Successes \cup {Never} /\ \A t \in Successes : t <= source.success
    /\ source.status = "ok" => source.attempt = source.success /\ source.inventory
    /\ Failures # {} => \E m \in Failures : \A t \in Failures : t <= m
    /\ source.status \notin {"ok", "never_synced"} => \E t \in Failures : t >= source.success
    /\ provider = "hapoalim" =>
          /\ \A a \in settled : a.at <= source.attempt
          /\ source.attempt = Never \/ \E a \in settled : a.at = source.attempt

SessionOK ==
    /\ session.status \in {"unknown", "active", "auth_required", "error"}
    /\ session.checked \in Never..MaxClock
    /\ \A c \in checks : c.at \in Never..MaxClock /\ c.at <= session.checked

StoreInv == ClockOK /\ DataOK /\ SourceOK /\ SessionOK

-----------------------------------------------------------------------------
(* What a collection hands over. *)

LEMMA SnapshotFacts ==
    ASSUME NEW s \in Snapshots
    PROVE  /\ s.product.known /\ s.product.pointer \in Dates \cup {None}
           /\ DOMAIN s.rows \subseteq Dates \cup Executions
           /\ \A id \in DOMAIN s.rows : s.rows[id] \in Amounts
<1>1. CASE provider = "hapoalim"
  <2>1. PICK r \in Partials(Executions, Amounts) :
            s = [product |-> [NoProduct EXCEPT !.known = TRUE], rows |-> r]
    BY <1>1 DEF Snapshots, Histories
  <2>2. DOMAIN r \subseteq Executions /\ \A id \in DOMAIN r : r[id] \in Amounts
    BY <2>1 DEF Partials
  <2>3. s.rows = r /\ s.product.known /\ s.product.pointer = None
    BY <2>1 DEF NoProduct
  <2> QED BY <2>2, <2>3
<1>2. CASE provider # "hapoalim"
  <2>1. PICK d \in Dates, v \in Amounts, q \in ReportSets :
            s = [product |-> [known |-> TRUE, pointer |-> d, history |-> TRUE, reports |-> q],
                 rows |-> [x \in {d} |-> v]]
    <3>1. s \in Portfolios
      BY <1>2 DEF Snapshots
    <3> QED BY <3>1 DEF Portfolios
  <2>2. s.rows = [x \in {d} |-> v] /\ s.product.known /\ s.product.pointer = d
    BY <2>1
  <2> QED BY <2>1, <2>2
<1> QED BY <1>1, <1>2

LEMMA InitStoreInv == Init => StoreInv
<1> SUFFICES ASSUME Init PROVE StoreInv
  OBVIOUS
<1> USE StoreAssumption
<1>1. ClockOK
  <2>1. Idle \in AttemptType /\ AttemptOK(Idle)
    BY DEF Init, Idle, AttemptType, AttemptOK, Never, None
  <2> QED BY <2>1 DEF Init, ClockOK
<1>2. NoRow \in RowType /\ NoRow.at = Never
  BY DEF NoRow, RowType, Never
<1>3. DataOK
  <2>1. \A id \in Ids : rows[id] = NoRow
    BY DEF Init
  <2>2. rows \in [Ids -> RowType] /\ product = NoProduct /\ product.pointer = None /\ evidence = None
    BY <1>2 DEF Init, NoProduct
  <2>3. stored.rows = {} /\ stored.products = {}
    BY DEF Init, NoContents
  <2>4. Applied = Never
    BY DEF Init, NoSource, Applied
  <2> QED BY <1>2, <2>1, <2>2, <2>3, <2>4 DEF DataOK, Never, Ids
<1>4. SourceOK
  <2>1. source \in SourceType /\ source.status = "never_synced" /\ source.success = Never /\ source.attempt = Never
    BY DEF Init, NoSource, SourceType, Never
  <2>2. settled = {} /\ Successes = {} /\ Failures = {}
    BY DEF Init, Successes, Failures
  <2> QED BY <2>1, <2>2 DEF SourceOK, Never
<1>5. SessionOK
  BY DEF Init, NoSession, SessionOK, Never
<1> QED BY <1>1, <1>3, <1>4, <1>5 DEF StoreInv

-----------------------------------------------------------------------------
(* Attempts, the clock and the session. *)

\* The steps of one attempt: p becomes y.
LEMMA AttemptMoves ==
    ASSUME ClockOK, NEW p \in Processes, NEW y \in AttemptType, AttemptOK(y),
           attempt' = [attempt EXCEPT ![p] = y], UNCHANGED <<provider, clock>>,
           profile' \in Processes \cup {None}
    PROVE  ClockOK'
<1>1. Snapshots' = Snapshots /\ AttemptType' = AttemptType
  BY DEF AttemptType, Snapshots, Portfolios, Histories, ReportSets
<1>2. attempt' \in [Processes -> AttemptType]
  BY DEF ClockOK
<1>3. \A q \in Processes : AttemptOK(attempt'[q])
  BY DEF ClockOK
<1>4. \A q \in Processes : AttemptOK(attempt[q])'
  BY <1>1, <1>3 DEF AttemptOK
<1> QED BY <1>1, <1>2, <1>4 DEF ClockOK

LEMMA GotoMoves ==
    ASSUME ClockOK, NEW p \in Processes, attempt[p].stage # None, NEW stage, NEW result,
           <<stage, result>> \in ({"failed"} \X {"partial", "error", "auth_required"})
                \cup ({"renewed"} \X {"active", "error", "auth_required"})
                \cup {<<"browser", None>>, <<"rejected", "auth_required">>},
           Goto(p, stage, result), UNCHANGED <<provider, clock>>, profile' \in Processes \cup {None}
    PROVE  ClockOK'
<1> DEFINE y == [attempt[p] EXCEPT !.stage = stage, !.result = result]
<1>1. attempt[p] \in AttemptType /\ AttemptOK(attempt[p])
  BY DEF ClockOK
<1>2. attempt' = [attempt EXCEPT ![p] = y]
  BY DEF Goto, ClockOK
<1>3. y \in AttemptType
  BY <1>1 DEF AttemptType, None
<1>4. AttemptOK(y)
  BY <1>1 DEF AttemptType, AttemptOK, None
<1> QED BY <1>2, <1>3, <1>4, AttemptMoves

LEMMA EndMoves ==
    ASSUME ClockOK, NEW p \in Processes, End(p), UNCHANGED <<provider, clock>>,
           profile' \in Processes \cup {None}
    PROVE  ClockOK'
<1>1. Idle \in AttemptType /\ AttemptOK(Idle)
  BY StoreAssumption DEF Idle, AttemptType, AttemptOK, ClockOK, Never, None
<1> QED BY <1>1, AttemptMoves DEF End

LEMMA SessionMoves ==
    ASSUME SessionOK, NEW at \in Never..MaxClock, NEW expires,
           NEW status \in {"active", "auth_required", "error"}, SetSession(status, at, expires)
    PROVE  SessionOK'
<1>1. at >= session.checked => session'.status = status /\ session'.checked = at
  BY DEF SetSession
<1>2. ~(at >= session.checked) => session' = session
  BY DEF SetSession
<1>3. /\ session'.checked \in Never..MaxClock /\ session'.checked >= session.checked
      /\ session'.checked >= at
      /\ session'.status \in {"unknown", "active", "auth_required", "error"}
  BY <1>1, <1>2, StoreAssumption DEF SessionOK, Never
<1>4. \A c \in checks' : c \in checks \/ c.at = at
  BY DEF SetSession
<1>5. ASSUME NEW c \in checks' PROVE c.at \in Never..MaxClock /\ c.at <= session'.checked
  BY <1>3, <1>4, StoreAssumption DEF SessionOK, Never
<1> QED BY <1>3, <1>5 DEF SessionOK

\* A step leaves the stored data alone.
Quiet == UNCHANGED <<provider, data, source, evidence, settled>>

\* What each step of an attempt does besides writing data.
LEMMA ProcessStep ==
    ASSUME ClockOK, SessionOK, NEW p \in Processes,
           \/ \E kind \in {"collect", "renew", "login"} : Begin(p, kind)
           \/ GiveUp(p) \/ NoCredentials(p) \/ TakeProfile(p)
           \/ Read(p) \/ ReadFails(p) \/ LoggedIn(p) \/ Renewed(p)
           \/ SaveRenewal(p) \/ SaveRejection(p) \/ Abandon(p)
    PROVE  ClockOK' /\ SessionOK' /\ Quiet
<1> USE StoreAssumption
<1>0. /\ attempt[p] \in AttemptType /\ AttemptOK(attempt[p]) /\ profile \in Processes \cup {None}
      /\ clock \in Never..MaxClock /\ At(p) \in Never..MaxClock
  BY DEF ClockOK, AttemptType, At, Never
<1>1. ASSUME NEW kind \in {"collect", "renew", "login"}, Begin(p, kind)
      PROVE  ClockOK' /\ SessionOK' /\ Quiet
  <2> DEFINE y == [Idle EXCEPT !.kind = kind, !.stage = "started", !.at = clock]
  <2>1. y \in AttemptType /\ AttemptOK(y)
    <3>1. Idle \in AttemptType
      BY DEF Idle, AttemptType, ClockOK, Never, None
    <3>2. clock \in Nat
      BY DEF ClockOK
    <3>3. y \in AttemptType
      BY <1>0, <3>1 DEF AttemptType
    <3>4. y.stage = "started" /\ y.at = clock
      BY <3>1 DEF AttemptType
    <3> QED BY <3>2, <3>3, <3>4 DEF AttemptOK
  <2>2. ClockOK'
    BY <1>0, <1>1, <2>1, AttemptMoves DEF Begin
  <2> QED BY <1>1, <2>2 DEF Begin, SessionOK, Quiet
<1>2. CASE GiveUp(p) \/ Abandon(p)
  BY <1>0, <1>2, EndMoves DEF GiveUp, Abandon, SessionOK, Quiet
<1>3. CASE NoCredentials(p)
  BY <1>0, <1>3, GotoMoves DEF NoCredentials, SessionOK, Quiet, None
<1>4. CASE TakeProfile(p)
  BY <1>0, <1>4, GotoMoves DEF TakeProfile, SessionOK, Quiet, None
<1>5. CASE Read(p)
  <2>1. ClockOK'
    <3>1. CASE Goto(p, "failed", "partial")
      BY <1>0, <1>5, <3>1, GotoMoves DEF Read, Release, None
    <3>2. ASSUME NEW s \in Snapshots,
                 attempt' = [attempt EXCEPT ![p].stage = "read", ![p].pages = s]
          PROVE  ClockOK'
      <4> DEFINE y == [attempt[p] EXCEPT !.stage = "read", !.pages = s]
      <4>1. attempt' = [attempt EXCEPT ![p] = y]
        BY <3>2 DEF ClockOK
      <4>2. y \in AttemptType
        BY <1>0 DEF AttemptType
      <4>3. AttemptOK(y)
        BY <1>0, <1>5 DEF Read, AttemptType, AttemptOK, None
      <4> QED BY <1>5, <4>1, <4>2, <4>3, AttemptMoves DEF Read, Release
    <3> QED BY <1>5, <3>1, <3>2 DEF Read
  <2>2. SessionOK'
    BY <1>0, <1>5, SessionMoves DEF Read, SessionOK
  <2> QED BY <1>5, <2>1, <2>2 DEF Read, Quiet
<1>6. CASE ReadFails(p)
  <2>1. ClockOK'
    BY <1>0, <1>6, GotoMoves DEF ReadFails, Release, None
  <2> QED BY <1>6, <2>1 DEF ReadFails, SessionOK, Quiet
<1>7. CASE LoggedIn(p)
  <2>1. ClockOK'
    BY <1>0, <1>7, EndMoves DEF LoggedIn, Release
  <2>2. SessionOK'
    BY <1>0, <1>7, SessionMoves DEF LoggedIn, SessionOK
  <2> QED BY <1>7, <2>1, <2>2 DEF LoggedIn, Quiet
<1>8. CASE Renewed(p)
  <2>1. ClockOK'
    BY <1>0, <1>8, GotoMoves DEF Renewed, Release, None
  <2> QED BY <1>8, <2>1 DEF Renewed, SessionOK, Quiet
<1>9. CASE SaveRenewal(p)
  <2>1. ClockOK'
    BY <1>0, <1>9, EndMoves DEF SaveRenewal
  <2>2. SessionOK'
    BY <1>0, <1>9, SessionMoves DEF SaveRenewal, AttemptOK
  <2> QED BY <1>9, <2>1, <2>2 DEF SaveRenewal, Quiet
<1>10. CASE SaveRejection(p)
  <2>1. ClockOK'
    BY <1>0, <1>10, GotoMoves DEF SaveRejection, None
  <2>2. SessionOK'
    BY <1>0, <1>10, SessionMoves DEF SaveRejection
  <2> QED BY <1>10, <2>1, <2>2 DEF SaveRejection, Quiet
<1> QED BY <1>1, <1>2, <1>3, <1>4, <1>5, <1>6, <1>7, <1>8, <1>9, <1>10

-----------------------------------------------------------------------------
(* The stored data. *)

LEMMA ContentFacts ==
    \A i, j, v, w : Content(i, v) = Content(j, w) <=> i = j /\ v = w
BY DEF Content

\* Records keep their contents and never go back.
LEMMA ApplyData ==
    ASSUME StoreInv, NEW s \in Snapshots, NEW at \in 0..MaxClock, ~TooOld(at),
           Apply(s, at), UNCHANGED <<provider, evidence>>
    PROVE  /\ DataOK'
           /\ \A id \in Ids : rows'[id].at >= rows[id].at
           /\ \A e \in Entries : rows'[e] = rows[e]
<1> USE StoreAssumption
<1>1. /\ s.product.known /\ s.product.pointer \in Dates \cup {None}
      /\ DOMAIN s.rows \subseteq Dates \cup Executions
      /\ \A id \in DOMAIN s.rows : id \in Ids /\ id \notin Entries /\ s.rows[id] \in Amounts
  BY SnapshotFacts DEF Ids
<1>2. /\ source \in SourceType /\ source.applied \in Int /\ source.success \in Int
      /\ source.attempt \in Int
  BY DEF StoreInv, SourceOK, SourceType, Never
<1>3. Applied <= at /\ Applied' = at
  <2>1. CASE provider = "hapoalim"
    <3> DEFINE S == {source.applied, source.attempt, source.success}
    <3>1. \E m \in S : \A t \in S : t <= m
      BY <1>2
    <3>2. \A t \in S : t <= Latest(S)
      BY <3>1 DEF Latest
    <3>3. Latest(S) \in Int
      BY <1>2, <3>1 DEF Latest
    <3>4. at >= Latest(S)
      BY <2>1, <3>3 DEF TooOld
    <3>5. source.applied <= at
      BY <1>2, <3>2, <3>3, <3>4
    <3>6. source'.applied = at
      BY <2>1, <1>2 DEF Apply, AppliedState, SourceType
    <3> QED BY <2>1, <3>5, <3>6 DEF Applied
  <2>2. CASE provider # "hapoalim"
    <3>1. source.success <= at
      BY <1>2, <2>2 DEF TooOld
    <3>2. source'.success = at
      BY <1>2, <2>2 DEF Apply, AppliedState, SourceType
    <3> QED BY <2>2, <3>1, <3>2 DEF Applied
  <2> QED BY <2>1, <2>2
<1>4. \A id \in Ids : rows[id] \in RowType /\ rows[id].at <= Applied /\ rows[id].at \in Int
  BY DEF StoreInv, DataOK, RowType, Never
<1>5. Applied \in Int
  BY <1>2 DEF Applied
<1>6. \A id \in Ids : /\ id \in DOMAIN s.rows => rows'[id] = [value |-> s.rows[id], at |-> at]
                      /\ id \notin DOMAIN s.rows => rows'[id] = rows[id]
  BY DEF Apply
<1>7. \A id \in Ids : /\ rows'[id] \in RowType /\ rows'[id].at <= at /\ rows'[id].at >= rows[id].at
  <2> SUFFICES ASSUME NEW id \in Ids
               PROVE  rows'[id] \in RowType /\ rows'[id].at <= at /\ rows'[id].at >= rows[id].at
    OBVIOUS
  <2>1. CASE id \in DOMAIN s.rows
    <3>1. rows'[id] = [value |-> s.rows[id], at |-> at]
      BY <1>6, <2>1
    <3>2. s.rows[id] \in Amounts /\ at \in Never..MaxClock
      BY <1>1, <2>1 DEF Never
    <3>3. rows'[id] \in RowType /\ rows'[id].at = at
      BY <3>1, <3>2 DEF RowType
    <3>4. rows[id].at <= at
      BY <1>3, <1>4, <1>5
    <3> QED BY <3>3, <3>4
  <2>2. CASE id \notin DOMAIN s.rows
    <3>1. rows'[id] = rows[id]
      BY <1>6, <2>2
    <3>2. rows[id].at <= at
      BY <1>3, <1>4, <1>5
    <3> QED BY <1>4, <3>1, <3>2
  <2> QED BY <2>1, <2>2
<1>8. \A e \in Entries : rows'[e] = rows[e]
  BY <1>1, <1>6 DEF Ids
<1>9. \A c \in stored'.rows : c.value # None
  <2>1. stored'.rows = stored.rows \cup {Content(id, s.rows[id]) : id \in DOMAIN s.rows}
    BY DEF Apply
  <2> QED BY <1>1, <2>1 DEF Content, StoreInv, DataOK
<1>10. stored'.rows \subseteq Current' \cup revisions'.rows
  <2>1. /\ stored'.rows = stored.rows \cup {Content(id, s.rows[id]) : id \in DOMAIN s.rows}
        /\ revisions'.rows = revisions.rows \cup Replaced(s)
    BY DEF Apply
  <2>2. ASSUME NEW id \in Ids PROVE Content(id, rows'[id].value) \in Current'
    BY DEF Current
  <2>3. ASSUME NEW id \in DOMAIN s.rows PROVE Content(id, s.rows[id]) \in Current'
    <3>1. id \in Ids
      BY <1>1
    <3>2. rows'[id] = [value |-> s.rows[id], at |-> at]
      BY <1>6, <3>1
    <3>3. rows'[id].value = s.rows[id]
      BY <3>2
    <3> QED BY <2>2, <3>1, <3>3
  <2>4. ASSUME NEW c \in stored.rows, c \notin revisions.rows
        PROVE  c \in Current' \cup revisions'.rows
    <3>1. PICK id \in Ids : c = Content(id, rows[id].value)
      BY <2>4 DEF StoreInv, DataOK, Current
    <3>2. rows[id].value # None
      BY <3>1 DEF StoreInv, DataOK, Content
    <3>3. CASE id \in DOMAIN s.rows /\ rows[id].value # s.rows[id]
      BY <2>1, <3>1, <3>2, <3>3 DEF Replaced
    <3>4. CASE id \in DOMAIN s.rows /\ rows[id].value = s.rows[id]
      BY <2>3, <3>1, <3>4
    <3>5. CASE id \notin DOMAIN s.rows
      BY <1>6, <2>2, <3>1, <3>5
    <3> QED BY <3>3, <3>4, <3>5
  <2> QED BY <2>1, <2>3, <2>4
<1>11. /\ product'.known /\ product'.pointer \in Dates \cup {None}
       /\ DOMAIN product.reports \subseteq DOMAIN product'.reports
  BY <1>1 DEF Apply, Merged, StoreInv, DataOK
<1>12. /\ \A old \in stored'.products : old.known /\ DOMAIN old.reports \subseteq DOMAIN product'.reports
       /\ stored'.products \subseteq {product'} \cup revisions'.products
  <2>1. /\ stored'.products = stored.products \cup {product'}
        /\ revisions'.products = revisions.products \cup ({product} \ {NoProduct, product'})
    BY DEF Apply
  <2>2. ~NoProduct.known
    BY DEF NoProduct
  <2> QED BY <1>11, <2>1, <2>2 DEF StoreInv, DataOK
<1>13. \A e \in Entries : rows'[e] # NoRow =>
          evidence' # None /\ rows'[e].at = Never /\ rows'[e].value \in Amounts
  BY <1>8 DEF StoreInv, DataOK
<1>14. rows' \in [Ids -> RowType]
  BY <1>7 DEF Apply
<1>15. DataOK'
  BY <1>3, <1>7, <1>9, <1>10, <1>11, <1>12, <1>13, <1>14 DEF StoreInv, DataOK
<1> QED BY <1>7, <1>8, <1>15

\* An import changes no archived value and no evidence.
LEMMA SeedKeeps ==
    ASSUME StoreInv, SeedArchive
    PROVE  /\ StoreInv'
           /\ \A id \in Ids : rows'[id].at >= rows[id].at
           /\ \A e \in Entries : rows[e] # NoRow => rows'[e] = rows[e] /\ evidence' = evidence
<1> USE StoreAssumption
<1>1. PICK manifest \in Amounts, entries \in Partials(Entries, Amounts) :
          /\ provider = "hapoalim" /\ ~Conflicts(manifest, entries) /\ evidence' = manifest
          /\ product' = IF product = NoProduct THEN [NoProduct EXCEPT !.known = TRUE, !.history = TRUE] ELSE product
          /\ rows' = [id \in Ids |-> IF id \in DOMAIN entries
                                     THEN [value |-> entries[id], at |-> Never] ELSE rows[id]]
          /\ stored' = [rows |-> stored.rows \cup {Content(e, entries[e]) : e \in DOMAIN entries},
                        products |-> stored.products \cup {product'}]
  BY DEF SeedArchive
<1>2. UNCHANGED <<provider, clock, attempt, profile, revisions, source, session, settled, checks>>
  BY DEF SeedArchive
<1>3. DOMAIN entries \subseteq Entries /\ \A e \in DOMAIN entries : entries[e] \in Amounts
  BY DEF Partials
<1>4. \A id \in Ids : rows[id] \in RowType /\ rows[id].at \in Int
  BY DEF StoreInv, DataOK, RowType, Never
<1>5. \A e \in Entries : e \in Ids
  BY DEF Ids
<1>6. ASSUME NEW e \in DOMAIN entries
      PROVE  /\ rows'[e] = [value |-> entries[e], at |-> Never]
             /\ rows[e] # NoRow => rows'[e] = rows[e]
             /\ rows[e].value \in {None, entries[e]} /\ rows[e].at = Never
  <2>1. e \in Entries /\ e \in Ids /\ rows'[e] = [value |-> entries[e], at |-> Never]
    BY <1>1, <1>3, <1>5
  <2>2. rows[e].value \in {None, entries[e]}
    BY <1>1 DEF Conflicts
  <2>3. CASE rows[e] = NoRow
    BY <2>1, <2>2, <2>3 DEF NoRow
  <2>4. CASE rows[e] # NoRow
    <3>1. rows[e].at = Never /\ rows[e].value \in Amounts
      BY <2>1, <2>4 DEF StoreInv, DataOK
    <3>2. rows[e].value = entries[e]
      BY <2>2, <3>1
    <3>3. rows[e] = [value |-> entries[e], at |-> Never]
      BY <1>4, <2>1, <3>1, <3>2 DEF RowType
    <3> QED BY <2>1, <2>2, <3>1, <3>3
  <2> QED BY <2>3, <2>4
<1>7. \A id \in Ids : id \notin DOMAIN entries => rows'[id] = rows[id]
  BY <1>1
<1>8. \A id \in Ids : rows'[id] \in RowType /\ rows'[id].at = rows[id].at
  <2> SUFFICES ASSUME NEW id \in Ids PROVE rows'[id] \in RowType /\ rows'[id].at = rows[id].at
    OBVIOUS
  <2>1. CASE id \in DOMAIN entries
    <3>1. rows'[id] = [value |-> entries[id], at |-> Never] /\ rows[id].at = Never
      BY <1>6, <2>1
    <3>2. entries[id] \in Amounts /\ Never \in Never..MaxClock
      BY <1>3, <2>1 DEF Never
    <3> QED BY <3>1, <3>2 DEF RowType
  <2>2. CASE id \notin DOMAIN entries
    BY <1>4, <1>7, <2>2
  <2> QED BY <2>1, <2>2
<1>9. \A e \in Entries : /\ rows[e] # NoRow => rows'[e] = rows[e]
                         /\ rows'[e] # NoRow => rows'[e].at = Never /\ rows'[e].value \in Amounts
  <2> SUFFICES ASSUME NEW e \in Entries
               PROVE  /\ rows[e] # NoRow => rows'[e] = rows[e]
                      /\ rows'[e] # NoRow => rows'[e].at = Never /\ rows'[e].value \in Amounts
    OBVIOUS
  <2>1. CASE e \in DOMAIN entries
    <3>1. rows'[e] = [value |-> entries[e], at |-> Never] /\ (rows[e] # NoRow => rows'[e] = rows[e])
      BY <1>6, <2>1
    <3>2. entries[e] \in Amounts
      BY <1>3, <2>1
    <3> QED BY <3>1, <3>2
  <2>2. CASE e \notin DOMAIN entries
    BY <1>5, <1>7, <2>2 DEF StoreInv, DataOK
  <2> QED BY <2>1, <2>2
<1>10. \A e \in Entries : rows[e] # NoRow => evidence' = evidence
  BY <1>1 DEF Conflicts, StoreInv, DataOK
<1>11. (\A c \in stored'.rows : c.value # None) /\ stored'.rows \subseteq Current' \cup revisions'.rows
  <2>1. stored'.rows = stored.rows \cup {Content(e, entries[e]) : e \in DOMAIN entries}
    BY <1>1
  <2>2. \A id \in Ids : Content(id, rows'[id].value) \in Current'
    BY DEF Current
  <2>3. ASSUME NEW e \in DOMAIN entries
        PROVE  Content(e, entries[e]) \in Current' /\ Content(e, entries[e]).value # None
    <3>1. e \in Ids /\ entries[e] \in Amounts
      BY <1>3, <1>5
    <3>2. rows'[e].value = entries[e]
      <4>1. rows'[e] = [value |-> entries[e], at |-> Never]
        BY <1>6
      <4> QED BY <4>1
    <3>3. Content(e, entries[e]) \in Current'
      BY <2>2, <3>1, <3>2
    <3> QED BY <3>1, <3>3 DEF Content
  <2>4. ASSUME NEW c \in stored.rows, c \notin revisions.rows PROVE c \in Current'
    <3>1. PICK id \in Ids : c = Content(id, rows[id].value)
      BY <2>4 DEF StoreInv, DataOK, Current
    <3>2. rows[id].value # None
      BY <3>1 DEF StoreInv, DataOK, Content
    <3>3. rows'[id].value = rows[id].value
      <4>1. CASE id \in DOMAIN entries
        <5>1. rows'[id] = [value |-> entries[id], at |-> Never] /\ rows[id].value = entries[id]
          BY <1>6, <3>2, <4>1
        <5> QED BY <5>1
      <4>2. CASE id \notin DOMAIN entries
        BY <1>7, <4>2
      <4> QED BY <4>1, <4>2
    <3> QED BY <2>2, <3>1, <3>3
  <2>5. UNCHANGED revisions /\ \A c \in stored.rows : c.value # None
    BY <1>2 DEF StoreInv, DataOK
  <2> QED BY <2>1, <2>3, <2>4, <2>5
<1>12. /\ product'.pointer \in Dates \cup {None} /\ product'.known /\ UNCHANGED revisions
       /\ \A old \in stored'.products : old.known /\ DOMAIN old.reports \subseteq DOMAIN product'.reports
       /\ stored'.products \subseteq {product'} \cup revisions'.products
  <2>1. stored'.products = stored.products \cup {product'}
    BY <1>1
  <2>2. CASE product = NoProduct
    <3>1. product'.known /\ product'.pointer = None /\ product'.reports = product.reports
      BY <1>1, <2>2 DEF NoProduct
    <3>2. ~NoProduct.known
      BY DEF NoProduct
    <3> QED BY <1>2, <2>1, <2>2, <3>1, <3>2 DEF StoreInv, DataOK
  <2>3. CASE product # NoProduct
    BY <1>1, <1>2, <2>1, <2>3 DEF StoreInv, DataOK
  <2> QED BY <2>2, <2>3
<1>13. DataOK'
  <2>1. Applied' = Applied
    BY <1>2 DEF Applied
  <2>2. rows' \in [Ids -> RowType] /\ \A id \in Ids : rows'[id].at <= Applied'
    BY <1>1, <1>8, <2>1 DEF StoreInv, DataOK
  <2>3. \A e \in Entries : rows'[e] # NoRow =>
            evidence' # None /\ rows'[e].at = Never /\ rows'[e].value \in Amounts
    BY <1>1, <1>9
  <2> QED BY <1>1, <1>11, <1>12, <2>2, <2>3 DEF DataOK
<1>14. ClockOK'
  <2>1. Snapshots' = Snapshots
    BY <1>2 DEF Snapshots, Portfolios, Histories, ReportSets
  <2> QED BY <1>2, <2>1 DEF StoreInv, ClockOK, AttemptType, AttemptOK
<1>15. SourceOK' /\ SessionOK'
  BY <1>2 DEF StoreInv, SourceOK, Successes, Failures, SessionOK
<1>16. \A id \in Ids : rows'[id].at >= rows[id].at
  BY <1>4, <1>8
<1> QED BY <1>9, <1>10, <1>13, <1>14, <1>15, <1>16 DEF StoreInv

-----------------------------------------------------------------------------
(* The source state. *)

Settle(a) == settled' = settled \cup {a}

\* Settling an attempt adds its start to the successes or to the failures.
LEMMA SettleFacts ==
    ASSUME NEW at, NEW success \in BOOLEAN, Settle([at |-> at, success |-> success])
    PROVE  /\ Successes' = IF success THEN Successes \cup {at} ELSE Successes
           /\ Failures' = IF success THEN Failures ELSE Failures \cup {at}
           /\ \A a \in settled : a \in settled'
           /\ \A a \in settled' : a \in settled \/ (a.at = at /\ a.success = success)
           /\ \E a \in settled' : a.at = at
<1> DEFINE a == [at |-> at, success |-> success]
<1>1. a.at = at /\ a.success = success
  OBVIOUS
<1>2. settled' = settled \cup {a}
  BY DEF Settle
<1> HIDE DEF a
<1>3. CASE success
  BY <1>1, <1>2, <1>3 DEF Successes, Failures
<1>4. CASE ~success
  BY <1>1, <1>2, <1>4 DEF Successes, Failures
<1> QED BY <1>1, <1>2, <1>3, <1>4

\* The newest failure stays known.
LEMMA NewestFailure ==
    ASSUME SourceOK, NEW at \in 0..MaxClock, Failures' = Failures \cup {at}
    PROVE  \E m \in Failures' : \A t \in Failures' : t <= m
<1>1. \A t \in Failures : t \in Int
  BY DEF SourceOK, Failures
<1>2. CASE Failures = {}
  BY <1>2
<1>3. CASE Failures # {}
  <2>1. PICK m \in Failures : \A t \in Failures : t <= m
    BY <1>3 DEF SourceOK
  <2>2. CASE at <= m
    BY <2>1, <2>2
  <2>3. CASE ~(at <= m)
    BY <1>1, <2>1, <2>3
  <2> QED BY <2>2, <2>3
<1> QED BY <1>2, <1>3

LEMMA ApplySource ==
    ASSUME StoreInv, NEW s \in Snapshots, NEW at \in 0..MaxClock, ~TooOld(at),
           Apply(s, at), UNCHANGED provider
    PROVE  SourceOK'
<1> USE StoreAssumption
<1>1. /\ source \in SourceType /\ source.success \in Int /\ source.attempt \in Int
      /\ source.applied \in Int
  BY DEF StoreInv, SourceOK, SourceType, Never
<1>2. at \in Never..MaxClock
  BY DEF Never
<1>3. \A t \in Successes \cup Failures : t \in Int
  BY DEF StoreInv, SourceOK, Successes, Failures
<1>4. \A a \in settled : a.at \in 0..MaxClock /\ a.success \in BOOLEAN
  BY DEF StoreInv, SourceOK
<1>5. CASE provider = "hapoalim"
  <2>1. Settle([at |-> at, success |-> FALSE])
    BY <1>5 DEF Apply, Settle
  <2>2. /\ Successes' = Successes /\ Failures' = Failures \cup {at}
        /\ \A a \in settled' : a \in settled \/ (a.at = at /\ a.success = FALSE)
        /\ \E a \in settled' : a.at = at
    BY <2>1, SettleFacts
  <2>3. /\ source' \in SourceType /\ source'.status = "partial" /\ source'.attempt = at
        /\ source'.success = source.success
    BY <1>1, <1>2, <1>5 DEF Apply, AppliedState, SourceType
  <2>4. source.attempt <= at /\ source.success <= at
    <3> DEFINE S == {source.applied, source.attempt, source.success}
    <3>1. \E m \in S : \A t \in S : t <= m
      BY <1>1
    <3>2. (\A t \in S : t <= Latest(S)) /\ Latest(S) \in Int
      BY <1>1, <3>1 DEF Latest
    <3>3. at >= Latest(S)
      BY <1>5, <3>2 DEF TooOld
    <3> QED BY <1>1, <3>2, <3>3
  <2>6. \A a \in settled' : a.at \in 0..MaxClock /\ a.success \in BOOLEAN /\ a.at <= at
    <3> SUFFICES ASSUME NEW a \in settled' PROVE a.at \in 0..MaxClock /\ a.success \in BOOLEAN /\ a.at <= at
      OBVIOUS
    <3>1. CASE a \in settled
      BY <1>1, <1>4, <1>5, <2>4, <3>1 DEF StoreInv, SourceOK
    <3>2. CASE a.at = at /\ a.success = FALSE
      <4>1. a.success \in BOOLEAN
        BY <3>2, Zenon
      <4>2. at <= at /\ a.at = at
        BY <3>2
      <4> QED BY <4>1, <4>2
    <3> QED BY <2>2, <3>1, <3>2
  <2>8. \E m \in Failures' : \A t \in Failures' : t <= m
    BY <2>2, NewestFailure DEF StoreInv
  <2>9. /\ source'.success \in Successes' \cup {Never} /\ \A t \in Successes' : t <= source'.success
        /\ \E t \in Failures' : t >= source'.success
    BY <2>2, <2>3, <2>4 DEF StoreInv, SourceOK
  <2> QED BY <2>2, <2>3, <2>4, <2>6, <2>8, <2>9 DEF SourceOK
<1>6. CASE provider # "hapoalim"
  <2>1. Settle([at |-> at, success |-> TRUE])
    BY <1>6 DEF Apply, Settle
  <2>2. /\ Successes' = Successes \cup {at} /\ Failures' = Failures
        /\ \A a \in settled' : a \in settled \/ (a.at = at /\ a.success = TRUE)
    BY <2>1, SettleFacts
  <2>3. /\ source' \in SourceType /\ source'.status = "ok" /\ source'.attempt = at
        /\ source'.success = at /\ source'.inventory
    BY <1>1, <1>2, <1>6 DEF Apply, AppliedState, SourceType
  <2>4. source.success <= at
    BY <1>1, <1>6 DEF TooOld
  <2>5. \A t \in Successes' : t <= at
    BY <1>1, <1>3, <2>2, <2>4 DEF StoreInv, SourceOK
  <2>6. \A a \in settled' : a.at \in 0..MaxClock /\ a.success \in BOOLEAN
    BY <1>4, <2>2
  <2>7. Failures' # {} => \E m \in Failures' : \A t \in Failures' : t <= m
    BY <2>2 DEF StoreInv, SourceOK
  <2> QED BY <1>6, <2>2, <2>3, <2>5, <2>6, <2>7 DEF SourceOK
<1> QED BY <1>5, <1>6

LEMMA FailureSource ==
    ASSUME SourceOK, NEW at \in 0..MaxClock, NEW status \in {"partial", "error", "auth_required"},
           RecordFailure(status, at), UNCHANGED provider
    PROVE  /\ SourceOK'
           /\ UNCHANGED <<data, Applied>>
<1> USE StoreAssumption
<1>1. /\ source \in SourceType /\ source.success \in Int /\ source.attempt \in Int
  BY DEF SourceOK, SourceType, Never
<1>2. at \in Never..MaxClock
  BY DEF Never
<1>3. Settle([at |-> at, success |-> FALSE])
  BY DEF RecordFailure, Settle
<1>4. /\ Successes' = Successes /\ Failures' = Failures \cup {at}
      /\ \A a \in settled : a \in settled'
      /\ \E a \in settled' : a.at = at
  BY <1>3, SettleFacts
<1>5. \E m \in Failures' : \A t \in Failures' : t <= m
  BY <1>4, NewestFailure
<1>6. \A a \in settled' : a \in settled \/ (a.at = at /\ a.success = FALSE)
  BY <1>3, SettleFacts
<1>7. \A a \in settled' : a.at \in 0..MaxClock /\ a.success \in BOOLEAN
  <2> SUFFICES ASSUME NEW a \in settled' PROVE a.at \in 0..MaxClock /\ a.success \in BOOLEAN
    OBVIOUS
  <2>1. CASE a \in settled
    BY <2>1 DEF SourceOK
  <2>2. CASE a.at = at /\ a.success = FALSE
    BY <2>2
  <2> QED BY <1>6, <2>1, <2>2
<1>9. CASE at < source.attempt
  <2>1. source' = source
    BY <1>9 DEF RecordFailure, Failed
  <2>2. provider = "hapoalim" => \A a \in settled' : a.at <= source.attempt
    <3> SUFFICES ASSUME provider = "hapoalim", NEW a \in settled' PROVE a.at <= source.attempt
      OBVIOUS
    <3>1. CASE a \in settled
      BY <3>1 DEF SourceOK
    <3>2. CASE a.at = at /\ a.success = FALSE
      BY <1>1, <1>9, <3>2
    <3> QED BY <1>6, <3>1, <3>2
  <2>3. provider = "hapoalim" => source.attempt = Never \/ \E a \in settled' : a.at = source.attempt
    BY <1>4 DEF SourceOK
  <2>4. SourceOK'
    BY <1>4, <1>5, <1>7, <2>1, <2>2, <2>3 DEF SourceOK
  <2> QED BY <2>1, <2>4 DEF RecordFailure, data, Applied
<1>10. CASE ~(at < source.attempt)
  <2>1. /\ source' \in SourceType /\ source'.status = status /\ source'.attempt = at
        /\ source'.success = source.success /\ source'.applied = source.applied
    BY <1>1, <1>2, <1>10 DEF RecordFailure, Failed, SourceType
  <2>2. source.attempt <= at /\ source.success <= at
    BY <1>1, <1>10 DEF SourceOK
  <2>3. provider = "hapoalim" => \A a \in settled' : a.at <= at
    <3> SUFFICES ASSUME provider = "hapoalim", NEW a \in settled' PROVE a.at <= at
      OBVIOUS
    <3>1. CASE a \in settled
      BY <1>1, <1>7, <2>2, <3>1 DEF SourceOK
    <3>2. CASE a.at = at /\ a.success = FALSE
      BY <3>2
    <3> QED BY <1>6, <3>1, <3>2
  <2>4. /\ source'.success \in Successes' \cup {Never} /\ \A t \in Successes' : t <= source'.success
        /\ \E t \in Failures' : t >= source'.success
    BY <1>4, <2>1, <2>2 DEF SourceOK
  <2>5. SourceOK'
    BY <1>4, <1>5, <1>7, <2>1, <2>2, <2>3, <2>4 DEF SourceOK
  <2> QED BY <2>1, <2>5 DEF RecordFailure, data, Applied
<1> QED BY <1>9, <1>10

-----------------------------------------------------------------------------
(* Every step keeps the invariant, the order of the rows and the archive. *)

Ordered == \A id \in Ids : rows'[id].at >= rows[id].at
Archived == \A e \in Entries : rows[e] # NoRow => rows'[e] = rows[e] /\ evidence' = evidence

LEMMA QuietKeeps ==
    ASSUME StoreInv, Quiet, ClockOK', SessionOK'
    PROVE  StoreInv' /\ Ordered /\ Archived
<1>1. UNCHANGED <<provider, product, rows, revisions, stored, source, evidence, settled>>
  BY DEF Quiet, data
<1>2. DataOK' /\ SourceOK'
  BY <1>1 DEF StoreInv, DataOK, SourceOK, Applied, Current, Successes, Failures
<1>3. \A id \in Ids : rows[id].at \in Int
  BY StoreAssumption DEF StoreInv, DataOK, RowType, Never
<1> QED BY <1>1, <1>2, <1>3 DEF StoreInv, Ordered, Archived

LEMMA TickKeeps ==
    ASSUME StoreInv, Tick
    PROVE  StoreInv' /\ Ordered /\ Archived
<1>1. Snapshots' = Snapshots
  BY DEF Tick, Snapshots, Portfolios, Histories, ReportSets
<1>2. AttemptType' = AttemptType
  BY <1>1 DEF AttemptType
<1>3. \A p \in Processes : AttemptOK(attempt[p])'
  <2> SUFFICES ASSUME NEW p \in Processes PROVE AttemptOK(attempt[p])'
    OBVIOUS
  <2>1. /\ attempt[p] \in AttemptType /\ AttemptOK(attempt[p]) /\ clock \in Int
        /\ attempt' = attempt /\ clock' = clock + 1
    BY DEF StoreInv, ClockOK, Tick
  <2>2. attempt[p].at \in Int
    BY <2>1, StoreAssumption DEF AttemptType, Never
  <2> QED BY <1>1, <2>1, <2>2 DEF AttemptOK
<1>4. ClockOK'
  BY <1>2, <1>3, StoreAssumption DEF StoreInv, ClockOK, Tick
<1>5. Quiet /\ SessionOK'
  BY DEF Quiet, Tick, StoreInv, SessionOK
<1> QED BY <1>4, <1>5, QuietKeeps

LEMMA SaveSnapshotKeeps ==
    ASSUME StoreInv, NEW p \in Processes, SaveSnapshot(p)
    PROVE  StoreInv' /\ Ordered /\ Archived
<1>1. /\ attempt[p] \in AttemptType /\ AttemptOK(attempt[p]) /\ attempt[p].stage = "read"
      /\ ClockOK /\ SessionOK /\ profile \in Processes \cup {None}
  BY DEF StoreInv, ClockOK, SaveSnapshot
<1>2. attempt[p].pages \in Snapshots /\ At(p) \in 0..MaxClock
  BY <1>1, StoreAssumption DEF AttemptOK, AttemptType, At, None, StoreInv, ClockOK
<1>3. ClockOK'
  <2>1. CASE End(p)
    BY <1>1, <2>1, EndMoves DEF SaveSnapshot
  <2>2. CASE \E result \in {"error", "partial"} : Goto(p, "failed", result)
    BY <1>1, <2>2, GotoMoves DEF SaveSnapshot, None
  <2> QED BY <2>1, <2>2 DEF SaveSnapshot
<1>4. SessionOK'
  BY <1>1 DEF SaveSnapshot, SessionOK
<1>5. CASE TooOld(At(p))
  <2>1. Quiet
    BY <1>5 DEF SaveSnapshot, Quiet
  <2> QED BY <1>3, <1>4, <2>1, QuietKeeps
<1>6. CASE ~TooOld(At(p))
  <2>1. Apply(attempt[p].pages, At(p)) /\ UNCHANGED <<provider, evidence>>
    BY <1>6 DEF SaveSnapshot
  <2>2. DataOK' /\ Ordered /\ \A e \in Entries : rows'[e] = rows[e]
    BY <1>2, <1>6, <2>1, ApplyData DEF Ordered
  <2>3. SourceOK'
    BY <1>2, <1>6, <2>1, ApplySource
  <2> QED BY <1>3, <1>4, <2>1, <2>2, <2>3 DEF StoreInv, Archived
<1> QED BY <1>5, <1>6

LEMMA SaveFailureKeeps ==
    ASSUME StoreInv, NEW p \in Processes, SaveFailure(p)
    PROVE  StoreInv' /\ Ordered /\ Archived
<1>1. /\ attempt[p] \in AttemptType /\ AttemptOK(attempt[p]) /\ attempt[p].stage = "failed"
      /\ ClockOK /\ SessionOK /\ SourceOK /\ profile \in Processes \cup {None}
  BY DEF StoreInv, ClockOK, SaveFailure
<1>2. attempt[p].result \in {"partial", "error", "auth_required"} /\ At(p) \in 0..MaxClock
  BY <1>1, StoreAssumption DEF AttemptOK, AttemptType, At, None, StoreInv, ClockOK
<1>3. ClockOK' /\ SessionOK'
  BY <1>1, EndMoves DEF SaveFailure, SessionOK
<1>4. SourceOK' /\ UNCHANGED <<data, Applied>>
  BY <1>1, <1>2, FailureSource DEF SaveFailure
<1>5. UNCHANGED <<product, rows, revisions, stored, evidence, Applied>>
  BY <1>4 DEF data, SaveFailure
<1>6. DataOK'
  BY <1>5 DEF StoreInv, DataOK, Current
<1>7. \A id \in Ids : rows[id].at \in Int
  BY StoreAssumption DEF StoreInv, DataOK, RowType, Never
<1> QED BY <1>3, <1>4, <1>5, <1>6, <1>7 DEF StoreInv, Ordered, Archived

LEMMA StepKeeps ==
    ASSUME StoreInv, [Next]_vars
    PROVE  StoreInv' /\ Ordered /\ Archived
<1>1. CASE SeedArchive
  BY <1>1, SeedKeeps DEF Ordered, Archived
<1>2. CASE Tick
  BY <1>2, TickKeeps
<1>3. ASSUME NEW p \in Processes, SaveSnapshot(p) \/ SaveFailure(p)
      PROVE  StoreInv' /\ Ordered /\ Archived
  BY <1>3, SaveSnapshotKeeps, SaveFailureKeeps
<1>4. ASSUME NEW p \in Processes,
             \/ \E kind \in {"collect", "renew", "login"} : Begin(p, kind)
             \/ GiveUp(p) \/ NoCredentials(p) \/ TakeProfile(p)
             \/ Read(p) \/ ReadFails(p) \/ LoggedIn(p) \/ Renewed(p)
             \/ SaveRenewal(p) \/ SaveRejection(p) \/ Abandon(p)
      PROVE  StoreInv' /\ Ordered /\ Archived
  <2>1. ClockOK /\ SessionOK
    BY DEF StoreInv
  <2>2. ClockOK' /\ SessionOK' /\ Quiet
    BY <1>4, <2>1, ProcessStep
  <2> QED BY <2>2, QuietKeeps
<1>5. CASE UNCHANGED vars
  <2>1. Quiet /\ UNCHANGED <<provider, clock, attempt, profile, session, checks>>
    BY <1>5 DEF vars, Quiet
  <2>2. Snapshots' = Snapshots
    BY <2>1 DEF Snapshots, Portfolios, Histories, ReportSets
  <2>3. ClockOK' /\ SessionOK'
    BY <2>1, <2>2 DEF StoreInv, ClockOK, AttemptType, AttemptOK, SessionOK
  <2> QED BY <2>1, <2>3, QuietKeeps
<1> QED BY <1>1, <1>2, <1>3, <1>4, <1>5 DEF Next

\* The store's invariant holds in every reachable state.
THEOREM Invariant == Spec => []StoreInv
<1>1. Init => StoreInv
  BY InitStoreInv
<1>2. StoreInv /\ [Next]_vars => StoreInv'
  BY StepKeeps
<1> QED BY <1>1, <1>2, PTL DEF Spec

-----------------------------------------------------------------------------
(* What follows from the invariant. *)

\* The latest of a set of times that has one.
LEMMA LatestFacts ==
    ASSUME NEW S \in SUBSET Int, NEW m \in S, \A x \in S : x <= m
    PROVE  Latest(S) = m
<1>1. \E x \in S : \A y \in S : y <= x
  OBVIOUS
<1>2. Latest(S) \in S /\ \A y \in S : y <= Latest(S)
  BY <1>1 DEF Latest
<1>3. Latest(S) <= m /\ m <= Latest(S)
  BY <1>2
<1>4. Latest(S) \in Int /\ m \in Int
  BY <1>2
<1> QED BY <1>3, <1>4

LEMMA TypesHold ==
    ASSUME StoreInv
    PROVE  TypeOK
BY DEF StoreInv, ClockOK, DataOK, SourceOK, SessionOK, TypeOK

\* Nothing that was stored is lost (upsertRecord, mergeReports, seedArchive).
THEOREM StoredIsKept == Spec => []NothingLost
<1>1. StoreInv => NothingLost
  BY TypesHold DEF StoreInv, DataOK, NothingLost
<1> QED BY <1>1, Invariant, PTL

LEMMA FailureIsTheNewest ==
    ASSUME StoreInv
    PROVE  NoFalseAlarm
<1>1. /\ source.success \in Int /\ source.attempt \in Int
      /\ \A a \in settled : a.at \in Int /\ a.at >= 0
      /\ Successes \subseteq Int /\ Failures \subseteq Int
  <2>1. source.success \in Int /\ source.attempt \in Int
    BY DEF StoreInv, SourceOK, SourceType, Never
  <2>2. \A a \in settled : a.at \in Int /\ a.at >= 0
    BY DEF StoreInv, SourceOK
  <2> QED BY <2>1, <2>2 DEF Successes, Failures
<1>2. source.success = Latest(Successes \cup {Never})
  <2> DEFINE S == Successes \cup {Never}
  <2>1. S \in SUBSET Int /\ source.success \in S
    BY <1>1 DEF StoreInv, SourceOK, Never
  <2>2. \A x \in S : x <= source.success
    BY <1>1 DEF StoreInv, SourceOK, SourceType, Never
  <2> HIDE DEF S
  <2>3. Latest(S) = source.success
    BY <2>1, <2>2, LatestFacts
  <2> QED BY <2>3 DEF S
<1>3. ASSUME source.status \notin {"ok", "never_synced"}
      PROVE  Failures # {} /\ Latest(Failures) >= source.success
  <2>1. PICK t \in Failures : t >= source.success
    BY <1>3 DEF StoreInv, SourceOK
  <2>2. PICK m \in Failures : \A x \in Failures : x <= m
    BY <2>1 DEF StoreInv, SourceOK
  <2>3. Latest(Failures) = m
    BY <1>1, <2>2, LatestFacts
  <2>4. m \in Int /\ t \in Int /\ t <= m
    BY <1>1, <2>1, <2>2
  <2> QED BY <1>1, <2>1, <2>3, <2>4
<1>4. ASSUME provider = "hapoalim", settled # {}
      PROVE  source.attempt = Latest({a.at : a \in settled})
  <2> DEFINE S == {a.at : a \in settled}
  <2>1. S \in SUBSET Int /\ \A x \in S : x <= source.attempt
    BY <1>1, <1>4 DEF StoreInv, SourceOK
  <2>2. source.attempt \in S
    <3>1. PICK a \in settled : TRUE
      BY <1>4
    <3>2. source.attempt # Never
      BY <1>1, <1>4, <3>1 DEF StoreInv, SourceOK, Never
    <3> QED BY <1>4, <3>2 DEF StoreInv, SourceOK
  <2> HIDE DEF S
  <2>3. Latest(S) = source.attempt
    BY <2>1, <2>2, LatestFacts
  <2> QED BY <2>3 DEF S
<1>5. source.status = "ok" => source.attempt = source.success /\ source.inventory
  BY DEF StoreInv, SourceOK
<1>6. ASSUME source.status = "ok", provider = "hapoalim", NEW t \in Failures
      PROVE  t <= source.success
  <2>1. PICK a \in settled : t = a.at
    BY <1>6 DEF Failures
  <2>2. a.at <= source.attempt
    BY <1>1, <1>6, <2>1 DEF StoreInv, SourceOK
  <2> QED BY <1>5, <1>6, <2>1, <2>2
<1> QED BY <1>2, <1>3, <1>4, <1>5, <1>6 DEF NoFalseAlarm

\* A failure is shown only while no success started after it, in whatever order the two were
\* recorded; of Hapoalim, and of it alone, a success is shown only while no failure did
\* (recordFailure, applySnapshot).
THEOREM AlarmsAreNotFalse == Spec => []NoFalseAlarm
<1>1. StoreInv => NoFalseAlarm
  BY FailureIsTheNewest
<1> QED BY <1>1, Invariant, PTL

\* The session shown is that of the newest check (setSessionState).
THEOREM SessionHonestHolds == Spec => []SessionHonest
<1>1. StoreInv => SessionHonest
  BY DEF StoreInv, SessionOK, SessionHonest
<1> QED BY <1>1, Invariant, PTL

\* An older observation never overwrites a newer one (applySnapshot's guard).
THEOREM RowsNeverGoBack == Spec => NeverGoesBack
<1>1. StoreInv /\ [Next]_vars => [\A id \in Ids : rows'[id].at >= rows[id].at]_vars
  BY StepKeeps DEF Ordered
<1> QED BY <1>1, Invariant, PTL DEF Spec, NeverGoesBack

\* What the archive import stored stands, with its evidence (seedArchive).
THEOREM ArchiveStandsHolds == Spec => ArchiveStands
<1>1. StoreInv /\ StoreInv' /\ [Next]_vars =>
          [/\ \A e \in Entries : rows[e] # NoRow => rows'[e] = rows[e] /\ evidence' = evidence
           /\ \A e \in Entries : rows'[e] # NoRow => evidence' # None]_vars
  <2> SUFFICES ASSUME StoreInv, StoreInv', [Next]_vars
               PROVE  /\ \A e \in Entries : rows[e] # NoRow => rows'[e] = rows[e] /\ evidence' = evidence
                      /\ \A e \in Entries : rows'[e] # NoRow => evidence' # None
    OBVIOUS
  <2>1. Archived
    BY StepKeeps
  <2>2. \A e \in Entries : rows'[e] # NoRow => evidence' # None
    BY DEF StoreInv, DataOK
  <2> QED BY <2>1, <2>2 DEF Archived
<1> QED BY <1>1, Invariant, PTL DEF Spec, ArchiveStands

=============================================================================
