---------------------------- MODULE MCCardLedger ----------------------------
(* A card with a partial first cycle (statement of day 2) and a full one   *)
(* (day 4): a purchase before the first window, one inside it, and on the  *)
(* second one an instalment, held first, with two archived rows, of which  *)
(* one has a statement date, and more.                                     *)
EXTENDS CardLedger

CONSTANTS before, first, instalment, second, a1, a2

Card == {before, first, instalment, second}
Amounts == [o \in Card |-> CASE o = before -> -1 [] o = first -> -2 [] o = instalment -> -4 [] o = second -> -8]
BuyDays == [o \in Card |-> CASE o = before -> 0 [] o = first -> 1 [] o = instalment -> 2 [] o = second -> 2]
ChargeDates == [o \in Card |-> IF o \in {before, first} THEN 2 ELSE 4]
Posts == {instalment}
TwoArchives == {a1, a2}
SecondIsDated == {a2}
Same == [a \in TwoArchives |-> instalment]

=============================================================================
