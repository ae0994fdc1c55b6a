--------------------------- MODULE InvestmentStore ---------------------------
(***************************************************************************)
(* The database of one investment provider (src/investments/store.ts) and  *)
(* the order in which collections, session checks and the archive import   *)
(* write it.                                                               *)
(*                                                                         *)
(* A collection notes when it started, works in the browser for minutes,   *)
(* gives the profile back and only then writes.  The service and an        *)
(* operator's command do this side by side, so an older observation can    *)
(* arrive after a newer one.  Every method of the store is one             *)
(* transaction, hence one step.                                            *)
(***************************************************************************)
EXTENDS Integers, FiniteSets

CONSTANTS
    Providers,      \* which of "clal", "best" and "hapoalim" to consider
    Processes,      \* the service and the commands
    Dates,          \* provider valuation dates
    Reports,        \* period reports of a Clal product
    Executions,     \* securities executions
    Entries,        \* archived valuations
    Amounts,        \* what a record may say
    SessionTime,    \* how long a verified session lasts
    MaxClock, MaxAttempts \* bounds, for model checking

None == "none"
Never == -1

Ids == Dates \cup Executions \cup Entries

ASSUME StoreAssumption ==
    /\ Providers \subseteq {"clal", "best", "hapoalim"}
    /\ SessionTime \in Nat /\ {MaxClock, MaxAttempts} \subseteq Nat
    /\ None \notin Processes \cup Amounts \cup Ids
    /\ Entries \cap (Dates \cup Executions) = {} \* archived ones read sure:entry:...

VARIABLES
    provider,   \* the provider the database is bound to
    clock,
    attempt,    \* per process: the collection, renewal or login under way
    profile,    \* who holds the browser profile (Hapoalim has none of its own)
    product,    \* the record of the product
    rows,       \* valuations, executions and archived valuations, by id
    revisions,  \* what was replaced
    source,     \* source_state and last_applied_observation
    session,    \* session_state
    evidence,   \* the manifest kept for the archive's source
    attempts,   \* attempts so far
    stored, settled, checks \* observation only: every content stored, every
                            \* attempt recorded, every session check

data == <<product, rows, revisions, stored>>
vars == <<provider, clock, attempt, profile, data, source, session, evidence,
          attempts, settled, checks>>

NoRow == [value |-> None, at |-> Never]
NoProduct == [known |-> FALSE, pointer |-> None, history |-> FALSE, reports |-> << >>]
NoSnapshot == [product |-> NoProduct, rows |-> << >>]
Idle == [kind |-> None, stage |-> None, at |-> Never, result |-> None, pages |-> NoSnapshot]
NoSource == [status |-> "never_synced", attempt |-> Never, success |-> Never,
             inventory |-> FALSE, applied |-> Never]
NoSession == [status |-> "unknown", checked |-> Never, expires |-> Never]

NoContents == [rows |-> {}, products |-> {}]

Latest(S) == CHOOSE x \in S : \A y \in S : y <= x
Content(id, value) == [id |-> id, value |-> value]
Partials(S, T) == UNION {[D -> T] : D \in SUBSET S}

-----------------------------------------------------------------------------
(* What a collection can hand over.                                        *)

\* Only Clal has reports.
ReportSets == IF provider = "clal" THEN Partials(Reports, Amounts) ELSE {<< >>}

\* A complete Clal or Best Invest collection: the product with its current value.
Portfolios ==
    {[product |-> [known |-> TRUE, pointer |-> d, history |-> TRUE, reports |-> r],
      rows |-> [x \in {d} |-> v]] :
        d \in Dates, v \in Amounts, r \in ReportSets}

\* buildHapoalimSnapshot: executions, and no verified current value.
Histories ==
    {[product |-> [NoProduct EXCEPT !.known = TRUE], rows |-> r] : r \in Partials(Executions, Amounts)}

Snapshots == IF provider = "hapoalim" THEN Histories ELSE Portfolios

-----------------------------------------------------------------------------
(* The transactions of the store.                                          *)

\* A failure is stored whenever it arrives.
WrongFailed(s, status, at) ==
    [s EXCEPT !.status = status, !.attempt = at, !.inventory = FALSE]

\* recordFailure: one that started before the last attempt changes nothing.
Failed(s, status, at) ==
    IF at < s.attempt THEN s
    ELSE [s EXCEPT !.status = status, !.attempt = at, !.inventory = FALSE]

\* The reports of the day replace those of earlier collections.
WrongMerged(old, new) == new

\* upsertRecord of a product: Hapoalim keeps what the archive knows, reports are kept by id.
Merged(old, new) ==
    [known |-> TRUE,
     pointer |-> IF provider = "hapoalim" /\ new.pointer = None THEN old.pointer ELSE new.pointer,
     history |-> new.history \/ (provider = "hapoalim" /\ old.history),
     reports |-> [r \in DOMAIN old.reports \cup DOMAIN new.reports |->
                     IF r \in DOMAIN new.reports THEN new.reports[r] ELSE old.reports[r]]]

\* upsertRecord of the other rows: a later observation of the same content is no revision.
Replaced(snapshot) ==
    {Content(id, rows[id].value) :
        id \in {i \in DOMAIN snapshot.rows : rows[i].value \notin {None, snapshot.rows[i]}}}

\* Hapoalim too looks at its successes only, of which it has none.
WrongTooOld(at) == at < source.success

\* applySnapshot: an observation older than what was seen is not applied.
TooOld(at) ==
    IF provider = "hapoalim"
    THEN at < Latest({source.applied, source.attempt, source.success})
    ELSE at < source.success

\* The state a snapshot leaves: Hapoalim's has no verified current value.
AppliedState(at) ==
    IF provider = "hapoalim"
    THEN [source EXCEPT !.status = "partial", !.attempt = at, !.inventory = FALSE, !.applied = at]
    ELSE [source EXCEPT !.status = "ok", !.attempt = at, !.success = at, !.inventory = TRUE]

\* applySnapshot: records, revisions and the source state commit together.
Apply(snapshot, at) ==
    /\ product' = Merged(product, snapshot.product)
    /\ rows' = [id \in Ids |-> IF id \in DOMAIN snapshot.rows
                               THEN [value |-> snapshot.rows[id], at |-> at] ELSE rows[id]]
    /\ revisions' = [rows |-> revisions.rows \cup Replaced(snapshot),
                     products |-> revisions.products \cup ({product} \ {NoProduct, product'})]
    /\ stored' = [rows |-> stored.rows \cup {Content(id, snapshot.rows[id]) : id \in DOMAIN snapshot.rows},
                  products |-> stored.products \cup {product'}]
    /\ source' = AppliedState(at)
    /\ settled' = settled \cup {[at |-> at, success |-> provider # "hapoalim"]}

RecordFailure(status, at) ==
    /\ source' = Failed(source, status, at)
    /\ settled' = settled \cup {[at |-> at, success |-> FALSE]}
    /\ UNCHANGED data

\* The last writer wins.
WrongSetSession(status, at, expires) ==
    /\ session' = [status |-> status, checked |-> at, expires |-> expires]
    /\ checks' = checks \cup {[at |-> at, status |-> status]}

\* setSessionState: a check older than the stored one changes nothing.
SetSession(status, at, expires) ==
    /\ session' = IF at >= session.checked
                  THEN [status |-> status, checked |-> at, expires |-> expires] ELSE session
    /\ checks' = checks \cup {[at |-> at, status |-> status]}

-----------------------------------------------------------------------------
Init ==
    /\ provider \in Providers /\ clock = 0
    /\ attempt = [p \in Processes |-> Idle] /\ profile = None
    /\ product = NoProduct /\ rows = [id \in Ids |-> NoRow] /\ revisions = NoContents
    /\ source = NoSource /\ session = NoSession /\ evidence = None /\ attempts = 0
    /\ stored = NoContents /\ settled = {} /\ checks = {}

-----------------------------------------------------------------------------
(* Collections, renewals and logins.                                       *)

Goto(p, stage, result) ==
    attempt' = [attempt EXCEPT ![p].stage = stage, ![p].result = result]
End(p) == attempt' = [attempt EXCEPT ![p] = Idle]
At(p) == attempt[p].at

\* The start time is taken before the profile is.
Begin(p, kind) ==
    /\ attempt[p] = Idle /\ attempts < MaxAttempts /\ attempts' = attempts + 1
    /\ kind \in {"renew", "login"} => provider = "clal"
    /\ attempt' = [attempt EXCEPT ![p] =
           [Idle EXCEPT !.kind = kind, !.stage = "started", !.at = clock]]
    /\ UNCHANGED <<provider, clock, profile, data, source, session, evidence, settled, checks>>

\* maintainSession leaves a session alone that is known to be lost.
GiveUp(p) ==
    /\ attempt[p].stage = "started"
    /\ \/ profile # None
       \/ attempt[p].kind = "renew" /\ session.status = "auth_required"
    /\ End(p)
    /\ UNCHANGED <<provider, clock, profile, data, source, session, evidence, attempts,
                   settled, checks>>

\* Best Invest resolves the customer's id before it opens the browser.
NoCredentials(p) ==
    /\ attempt[p].stage = "started" /\ provider = "best"
    /\ Goto(p, "failed", "error")
    /\ UNCHANGED <<provider, clock, profile, data, source, session, evidence, attempts,
                   settled, checks>>

TakeProfile(p) ==
    /\ attempt[p].stage = "started" /\ profile = None
    /\ profile' = IF provider = "hapoalim" THEN None ELSE p
    /\ Goto(p, "browser", None)
    /\ UNCHANGED <<provider, clock, data, source, session, evidence, attempts, settled, checks>>

Release == profile' = None

\* A collection reads the pages.  Clal also asks how long the session lasts, which may fail.
Read(p) ==
    /\ attempt[p].stage = "browser" /\ attempt[p].kind = "collect"
    /\ Release
    /\ \/ \E snapshot \in Snapshots :
             attempt' = [attempt EXCEPT ![p].stage = "read", ![p].pages = snapshot]
       \/ Goto(p, "failed", "partial")
    /\ IF provider # "clal" THEN UNCHANGED <<session, checks>>
       ELSE \/ SetSession("active", clock, clock + SessionTime)
            \/ \E status \in {"auth_required", "error"} : SetSession(status, clock, Never)
    /\ UNCHANGED <<provider, clock, data, source, evidence, attempts, settled>>

\* The session is gone, or the pages cannot be read.
ReadFails(p) ==
    /\ attempt[p].stage = "browser" /\ attempt[p].kind = "collect"
    /\ Release
    /\ \/ Goto(p, "failed", IF provider = "hapoalim" THEN "partial" ELSE "error")
       \/ Goto(p, IF provider = "clal" THEN "rejected" ELSE "failed", "auth_required")
    /\ UNCHANGED <<provider, clock, data, source, session, evidence, attempts, settled, checks>>

\* A login saves the verified session while it holds the profile.
LoggedIn(p) ==
    /\ attempt[p].stage = "browser" /\ attempt[p].kind = "login"
    /\ Release
    /\ \/ SetSession("active", clock, clock + SessionTime)
       \/ UNCHANGED <<session, checks>>
    /\ End(p)
    /\ UNCHANGED <<provider, clock, data, source, evidence, attempts, settled>>

Renewed(p) ==
    /\ attempt[p].stage = "browser" /\ attempt[p].kind = "renew"
    /\ Release
    /\ \E result \in {"active", "auth_required", "error"} : Goto(p, "renewed", result)
    /\ UNCHANGED <<provider, clock, data, source, session, evidence, attempts, settled, checks>>

\* What a renewal found is dated by its start.
SaveRenewal(p) ==
    /\ attempt[p].stage = "renewed"
    /\ SetSession(attempt[p].result, At(p),
           CASE attempt[p].result = "active" -> At(p) + SessionTime
             [] attempt[p].result = "error" -> session.expires
             [] OTHER -> Never)
    /\ End(p)
    /\ UNCHANGED <<provider, clock, profile, data, source, evidence, attempts, settled>>

\* The profile is free already: the missing session is dated by the start, too.
SaveRejection(p) ==
    /\ attempt[p].stage = "rejected"
    /\ SetSession("auth_required", At(p), Never)
    /\ Goto(p, "failed", "auth_required")
    /\ UNCHANGED <<provider, clock, profile, data, source, evidence, attempts, settled>>

\* Hapoalim's summary file may fail after the snapshot is in: the failure is recorded over it.
SaveSnapshot(p) ==
    /\ attempt[p].stage = "read"
    /\ IF TooOld(At(p))
       THEN /\ IF provider = "hapoalim" THEN End(p) ELSE Goto(p, "failed", "error")
            /\ UNCHANGED <<data, source, settled>>
       ELSE /\ Apply(attempt[p].pages, At(p))
            /\ End(p) \/ (provider = "hapoalim" /\ Goto(p, "failed", "partial"))
    /\ UNCHANGED <<provider, clock, profile, session, evidence, attempts, checks>>

SaveFailure(p) ==
    /\ attempt[p].stage = "failed"
    /\ RecordFailure(attempt[p].result, At(p))
    /\ End(p)
    /\ UNCHANGED <<provider, clock, profile, session, evidence, attempts, checks>>

\* An abort, or the end of the process and the removal of its lock: nothing more is written.
Abandon(p) ==
    /\ attempt[p] # Idle /\ End(p)
    /\ profile' = IF profile = p THEN None ELSE profile
    /\ UNCHANGED <<provider, clock, data, source, session, evidence, attempts, settled, checks>>

-----------------------------------------------------------------------------
(* The archive import.                                                     *)

\* An archived value may be corrected by a second import.
WrongConflicts(manifest, entries) == evidence \notin {None, manifest}

\* seedArchive refuses another manifest of the same source, and a value that differs.
Conflicts(manifest, entries) ==
    \/ evidence \notin {None, manifest}
    \/ \E e \in DOMAIN entries : rows[e].value \notin {None, entries[e]}

\* It adds what is missing, and the product only when there is none.
SeedArchive ==
    \E manifest \in Amounts, entries \in Partials(Entries, Amounts) :
        /\ provider = "hapoalim" /\ DOMAIN entries # {} /\ ~Conflicts(manifest, entries)
        /\ evidence' = manifest
        /\ product' = IF product = NoProduct THEN [NoProduct EXCEPT !.known = TRUE, !.history = TRUE] ELSE product
        /\ rows' = [id \in Ids |-> IF id \in DOMAIN entries
                                   THEN [value |-> entries[id], at |-> Never] ELSE rows[id]]
        /\ stored' = [rows |-> stored.rows \cup {Content(e, entries[e]) : e \in DOMAIN entries},
                      products |-> stored.products \cup {product'}]
        /\ UNCHANGED <<provider, clock, attempt, profile, revisions, source, session,
                       attempts, settled, checks>>

Tick ==
    /\ clock < MaxClock /\ clock' = clock + 1
    /\ UNCHANGED <<provider, attempt, profile, data, source, session, evidence,
                   attempts, settled, checks>>

Next ==
    \/ \E p \in Processes :
          \/ \E kind \in {"collect", "renew", "login"} : Begin(p, kind)
          \/ GiveUp(p) \/ NoCredentials(p) \/ TakeProfile(p)
          \/ Read(p) \/ ReadFails(p) \/ LoggedIn(p) \/ Renewed(p)
          \/ SaveRenewal(p) \/ SaveRejection(p) \/ SaveSnapshot(p) \/ SaveFailure(p)
          \/ Abandon(p)
    \/ SeedArchive \/ Tick

Spec == Init /\ [][Next]_vars

-----------------------------------------------------------------------------
(* What the store promises.                                                *)

Current == {Content(id, rows[id].value) : id \in Ids}
Successes == {a.at : a \in {b \in settled : b.success}}
Failures == {a.at : a \in {b \in settled : ~b.success}}

RowType == [value : Amounts \cup {None}, at : Never..MaxClock]
SourceType == [status : {"never_synced", "ok", "partial", "auth_required", "error"},
               attempt : Never..MaxClock, success : Never..MaxClock,
               inventory : BOOLEAN, applied : Never..MaxClock]

TypeOK ==
    /\ provider \in Providers /\ clock \in 0..MaxClock /\ profile \in Processes \cup {None}
    /\ rows \in [Ids -> RowType] /\ product.pointer \in Dates \cup {None}
    /\ source \in SourceType
    /\ session.status \in {"unknown", "active", "auth_required", "error"}
    /\ session.checked \in Never..MaxClock /\ evidence \in Amounts \cup {None}

\* Whatever was ever stored is still there, as the current content or as a revision, and
\* "omission never erases a previously collected report", in whatever order collections come.
NothingLost ==
    /\ TypeOK
    /\ stored.rows \subseteq Current \cup revisions.rows
    /\ stored.products \subseteq {product} \cup revisions.products
    /\ \A old \in stored.products : DOMAIN old.reports \subseteq DOMAIN product.reports

\* A collection that started earlier never overwrites what a later one observed,
\* although the two write in any order.
NeverGoesBack == [][\A id \in Ids : rows'[id].at >= rows[id].at]_vars

\* A failure is shown only while no success has started after it: one that started before
\* the last success and arrives late spoils nothing, and no failure touches the time of the
\* last success.  The converse holds of Hapoalim alone, whose observations must be as new as
\* its newest attempt; for the others an observation that started before a recorded failure
\* and is applied after it puts the source back in order.
NoFalseAlarm ==
    /\ source.success = Latest(Successes \cup {Never})
    /\ source.status \notin {"ok", "never_synced"} =>
           Failures # {} /\ Latest(Failures) >= source.success
    /\ source.status = "ok" =>
           /\ source.attempt = source.success
           /\ source.inventory
           /\ provider = "hapoalim" => \A t \in Failures : t <= source.success
    /\ provider = "hapoalim" /\ settled # {} => source.attempt = Latest({a.at : a \in settled})

\* Archived values and their evidence never change, and no value is there without it.
ArchiveStands ==
    [][/\ \A e \in Entries : rows[e] # NoRow => rows'[e] = rows[e] /\ evidence' = evidence
       /\ \A e \in Entries : rows'[e] # NoRow => evidence' # None]_vars

\* getClalSessionStatus.
VerifiedActive ==
    /\ session.status = "active" /\ session.checked <= clock
    /\ session.expires # Never /\ session.expires > clock

\* A session is not shown as verified after a check that started later found it lost.
SessionHonest ==
    VerifiedActive => \A c \in checks : c.status = "auth_required" => c.at <= session.checked

=============================================================================
