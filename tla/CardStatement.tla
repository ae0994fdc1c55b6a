---------------------------- MODULE CardStatement ----------------------------
(***************************************************************************)
(* What the ledger promises of a card: a purchase or an instalment that    *)
(* was once stored stays stored, and stays billed once its statement date  *)
(* is known, by one row, unless an archive that knows the date too has     *)
(* been imported; and a statement gets one payment, of the rows that bill  *)
(* on it by then, which is never computed again (src/scrape/synthetic.ts). *)
(* CardLedger, with its two kinds of ids, its aliases, repairs and         *)
(* crashes, implements it.                                                 *)
(***************************************************************************)
EXTENDS Integers, FiniteSetsExt

CONSTANTS Occurrences, Amount, ChargeDay

Unpaid == 0 \* a payment is never of nothing
ChargeDays == {ChargeDay[o] : o \in Occurrences}

VARIABLES
    stored,   \* the occurrences the ledger has
    archived, \* those of an archived row with a statement date
    copies,   \* copies[o]: how many rows bill the occurrence
    paid      \* paid[d]: the payment of the statement of day d

vars == <<stored, archived, copies, paid>>

\* What the statement of day d adds up to.
Total(d) == MapThenSumSet(LAMBDA o : copies[o] * Amount[o], {o \in Occurrences : ChargeDay[o] = d})

Init ==
    /\ stored = {} /\ archived = {} /\ copies = [o \in Occurrences |-> 0]
    /\ paid = [d \in ChargeDays |-> Unpaid]

Learn ==
    /\ stored \subseteq stored' /\ archived \subseteq archived'
    /\ stored' \subseteq Occurrences /\ copies' \in [Occurrences -> Nat]
    /\ \A o \in Occurrences :
          /\ copies[o] > 0 => copies'[o] > 0
          /\ copies'[o] > 0 => o \in stored'
          /\ copies'[o] > 1 => o \in archived'
    /\ UNCHANGED paid

Pay(d) ==
    /\ paid[d] = Unpaid
    /\ paid' = [paid EXCEPT ![d] = -Total(d)]
    /\ UNCHANGED <<stored, archived, copies>>

Next == Learn \/ \E d \in ChargeDays : Pay(d)

Spec == Init /\ [][Next]_vars

=============================================================================
