------------------------- MODULE MCInvestmentRuntime -------------------------
(***************************************************************************)
(* Constants for checking InvestmentRuntime: one recovery id, and times    *)
(* that keep the order of the real ones.                                   *)
(***************************************************************************)
EXTENDS InvestmentRuntime

CONSTANT r1

OneRequest == {r1}

=============================================================================
