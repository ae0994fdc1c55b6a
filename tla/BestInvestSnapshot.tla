------------------------- MODULE BestInvestSnapshot -------------------------
(***************************************************************************)
(* How the answers of the Best Invest portal become one snapshot           *)
(* (buildBestInvestSnapshot): a captured policy after the other is joined  *)
(* and reconciled.  What is not what it should be makes the whole snapshot *)
(* invalid; what is not there, or does not add up, makes it incomplete.    *)
(***************************************************************************)
EXTENDS Integers, Sequences, FiniteSets, Functions

CONSTANTS
    Inventories, \* what may be captured: sequences of policies, in the order of the inventory
    Missing      \* a field that is null, empty or not there

VARIABLES
    captures, \* the captured policies
    next,     \* the policy to be added
    snapshot  \* the snapshot so far

vars == <<captures, next, snapshot>>

\* What is captured of a policy: the identity that was asked for and the one answered, whether
\* it has a name, its savings and the total of its tracks, rows of tracks by route, the codes of
\* routes, and deposits.
Amounts == Int \cup {Missing}
Policy ==
    [expected : Nat \cup {Missing}, id : Nat \cup {Missing}, name : BOOLEAN,
     savings : Amounts, total : Amounts,
     rows : Seq([amount : Amounts, route : STRING]),
     alloc : Seq([route : STRING, code : Nat \cup {Missing}]),
     deposits : [kind : {"undefined", "null", "data"}, total : Amounts, rows : Seq([amount : Amounts])]]

\* Of a function to records with an amount: of rows by position, of tracks by row.
SumOf(rows) == SumFunction([i \in DOMAIN rows |-> rows[i].amount])

Init ==
    /\ captures \in Inventories /\ next = 1
    /\ snapshot = [complete |-> captures # <<>>, invalid |-> FALSE, products |-> <<>>]

-----------------------------------------------------------------------------
(* Tracks and deposits.                                                    *)

\* Rows of the accumulation table that hold money, joined to their one allocation.
Held(d) == {i \in DOMAIN d.rows : d.rows[i].amount # 0}
Matches(row, d) == {i \in DOMAIN d.alloc : d.alloc[i].route = row.route}
Code(row, d) == d.alloc[CHOOSE i \in Matches(row, d) : TRUE].code
Unjoined(row, d) == row.amount # 0 /\ (Cardinality(Matches(row, d)) # 1 \/ Code(row, d) = Missing)

\* addTracks reads the rows in order, up to the first that stops it.
Stops(row, d) == row.amount = Missing \/ row.amount < 0 \/ Unjoined(row, d)
AllRead(d) == d.total # Missing /\ \A i \in DOMAIN d.rows : ~Stops(d.rows[i], d)
TwiceListed(d) == \E i, j \in Held(d) : i # j /\ Code(d.rows[i], d) = Code(d.rows[j], d)

\* Negative amounts, as far as they are looked at, and a track listed twice are refused.
BadTracks(d) ==
    \/ /\ d.total # Missing
       /\ \E i \in DOMAIN d.rows :
             /\ d.rows[i].amount # Missing /\ d.rows[i].amount < 0
             /\ \A j \in 1..(i - 1) : ~Stops(d.rows[j], d)
    \/ AllRead(d) /\ (TwiceListed(d) \/ (SumOf(d.rows) = d.savings /\ d.total < 0))

Unreconciled(d) == ~AllRead(d) \/ SumOf(d.rows) # d.savings \/ d.total # d.savings

\* addDepositSummary: deposits that could not be asked for are no defect.
Unsummed(d) ==
    \/ d.deposits.kind = "null"
    \/ /\ d.deposits.kind = "data"
       /\ \/ d.deposits.total = Missing
          \/ \E i \in DOMAIN d.deposits.rows : d.deposits.rows[i].amount = Missing
          \/ SumOf(d.deposits.rows) # d.deposits.total

-----------------------------------------------------------------------------
(* The snapshot.                                                           *)

Incomplete(s) == [s EXCEPT !.complete = FALSE]
Invalid(s) == [s EXCEPT !.invalid = TRUE]

TracksOf(d) == [i \in Held(d) |-> [amount |-> d.rows[i].amount, code |-> Code(d.rows[i], d)]]

Product(d) ==
    [id |-> d.id, amount |-> d.savings,
     tracks |-> IF d.savings = Missing \/ Unreconciled(d) THEN <<>> ELSE TracksOf(d),
     report |-> IF d.savings = Missing \/ d.deposits.kind # "data" \/ Unsummed(d) THEN Missing
                ELSE SumOf(d.deposits.rows)]

\* Another policy than was asked for, one that is there already, and amounts that cannot be.
Bad(s, d) ==
    \/ d.expected # Missing /\ d.expected # d.id
    \/ \E i \in DOMAIN s.products : s.products[i].id = d.id
    \/ d.savings # Missing /\ (d.savings < 0 \/ BadTracks(d))

Added(s, d) ==
    LET added == [s EXCEPT !.products = Append(@, Product(d))]
    IN IF d.savings = Missing \/ Unreconciled(d) \/ Unsummed(d) THEN Incomplete(added) ELSE added

\* One policy: without an identity or a name it is no product, one product twice is
\* invalid, and one whose amounts cannot be reconciled makes the snapshot incomplete.
With(s, d) ==
    IF d.id = Missing \/ ~d.name THEN Incomplete(s)
    ELSE IF Bad(s, d) THEN Invalid(s) ELSE Added(s, d)

AddPolicy ==
    /\ next <= Len(captures) /\ ~snapshot.invalid
    /\ snapshot' = With(snapshot, captures[next]) /\ next' = next + 1
    /\ UNCHANGED captures

Next == AddPolicy

Done == next > Len(captures) /\ ~snapshot.invalid

-----------------------------------------------------------------------------
(* "Missing policy data or failed reconciliation cannot replace saved      *)
(* values" (docs/best-invest.md): only a complete snapshot is applied.     *)

TypeOK ==
    /\ next \in 1..(Len(captures) + 1)
    /\ snapshot.complete \in BOOLEAN /\ snapshot.invalid \in BOOLEAN
    /\ Len(snapshot.products) < next

\* A complete snapshot has every policy that was asked for, once, each with its amount, tracks
\* that are the rows that hold money, carry distinct codes of the provider and add up to the
\* amount, and deposits that add up when they are there.
CompleteIsReconciled ==
    Done /\ snapshot.complete =>
        /\ captures # <<>> /\ DOMAIN snapshot.products = DOMAIN captures
        /\ \A i, j \in DOMAIN captures : snapshot.products[i].id = snapshot.products[j].id => i = j
        /\ \A i \in DOMAIN captures :
              LET p == snapshot.products[i]  d == captures[i]
              IN /\ d.expected # Missing => p.id = d.expected
                 /\ p.amount = d.savings /\ SumOf(p.tracks) = p.amount
                 /\ DOMAIN p.tracks = Held(d)
                 /\ \A k \in DOMAIN p.tracks : p.tracks[k].code # Missing /\ p.tracks[k].amount > 0
                 /\ \A k, l \in DOMAIN p.tracks : p.tracks[k].code = p.tracks[l].code => k = l
                 /\ p.report # Missing => p.report = SumOf(d.deposits.rows)

=============================================================================
