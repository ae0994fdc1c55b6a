-------------------------- MODULE MCInvestmentStore --------------------------
(***************************************************************************)
(* Constants for checking InvestmentStore: the service and one command, a  *)
(* valuation date, a report, an execution, an archived value, and two      *)
(* contents for each.                                                      *)
(***************************************************************************)
EXTENDS InvestmentStore, TLC

CONSTANTS p1, p2, d1, r1, x1, e1, a1, a2

TwoProcesses == {p1, p2}
AllProviders == {"clal", "best", "hapoalim"}
OneDate == {d1}
OneReport == {r1}
OneExecution == {x1}
OneEntry == {e1}
TwoAmounts == {a1, a2}

\* Neither processes nor contents are told apart.
Symmetry == Permutations(TwoProcesses) \cup Permutations(TwoAmounts)

=============================================================================
