--------------------------- MODULE MCTransactionFeed ---------------------------
(***************************************************************************)
(* Constants for checking TransactionFeed: two purchases of one day that   *)
(* look alike, and a third transaction that is a hold.  For the feed of    *)
(* the first run the hold is of another kind, and bookings carry the date  *)
(* of the bill; for the second the hold looks like the purchases.          *)
(***************************************************************************)
EXTENDS TransactionFeed

ThreeTxns == 1..3
OneHold == {3}

TwinsAndFuel == <<"coffee", "coffee", "fuel">>
AllAlike == <<"coffee", "coffee", "coffee">>

SameDay == <<1, 1, 0>>
OneDay == <<1, 1, 1>>
BillDays == <<3, 3, 0>>

=============================================================================
