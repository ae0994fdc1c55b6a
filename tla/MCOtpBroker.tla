----------------------------- MODULE MCOtpBroker -----------------------------
(***************************************************************************)
(* Constants for checking OtpBroker: a login of each provider that compete *)
(* for the lease, and messages to one of them.                             *)
(***************************************************************************)
EXTENDS OtpBroker

CONSTANTS clal, bestInvest, m1, m2

TwoLogins == {clal, bestInvest}
TwoMessages == {m1, m2}
Owner == [x \in TwoLogins \cup TwoMessages |-> IF x = bestInvest THEN "best-invest" ELSE "clal"]

=============================================================================
