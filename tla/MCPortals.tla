----------------------------- MODULE MCPortals -----------------------------
(***************************************************************************)
(* Inputs for checking the parsers of Portals.  Amounts are 0, 1 and 2,    *)
(* with negative and missing ones where the parser looks for them.         *)
(***************************************************************************)
EXTENDS Portals, SequencesExt

-----------------------------------------------------------------------------
(* Best Invest: one policy whose tracks vary, or its deposits, or its      *)
(* identity and totals, and another one that is fine.                      *)

Undefined == [kind |-> "undefined", total |-> Missing, rows |-> <<>>]
Plain == [expected |-> 1, id |-> 1, name |-> TRUE, savings |-> 1, total |-> 1, deposits |-> Undefined,
          rows |-> <<[amount |-> 1, route |-> "a"]>>, alloc |-> <<[route |-> "a", code |-> 1]>>]

Tracks == [amount : {Missing, -1, 0, 1}, route : {"a", "b"}]
Allocations == [route : {"a", "b"}, code : {Missing, 1, 2}]
Deposits ==
    {Undefined, [Undefined EXCEPT !.kind = "null"]} \cup
    [kind : {"data"}, total : {Missing, 1}, rows : BoundedSeq([amount : {Missing, 1, -1}], 2)]

Policies ==
    {[Plain EXCEPT !.savings = s, !.total = s, !.rows = r, !.alloc = a] :
         s \in {0, 1, 2}, r \in BoundedSeq(Tracks, 2), a \in BoundedSeq(Allocations, 2)}
    \cup {[Plain EXCEPT !.deposits = d] : d \in Deposits}
    \cup {[Plain EXCEPT !.expected = e, !.id = i, !.name = n] :
             e \in {Missing, 1, 2}, i \in {Missing, 1, 2}, n \in BOOLEAN}
    \cup {[Plain EXCEPT !.savings = s, !.total = t] : s \in {Missing, -1, 1}, t \in {Missing, -1, 1, 2}}

SomeInventories ==
    {<<>>} \cup {<<first>> \o second : first \in Policies,
                     second \in {<<>>, <<Plain>>, <<[Plain EXCEPT !.expected = 2, !.id = 2]>>}}

-----------------------------------------------------------------------------
(* Clal: a block of two rows at most, or a report of two lines at most,    *)
(* after one that is fine or none.                                         *)

Rows == [who : {"all", "X", "nobody"}, booked : {0, 11, 21}, month : {0, 11}, amount : {1, 2}]
SomeRows ==
    {r \in Rows : r.who = "all" => r.month = 0 /\ r.booked \in {0, 11}}
        \ {r \in Rows : r.who = "nobody" /\ (r.booked # 11 \/ r.month # 11)}
Blocks == [year : {1, 2}, rows : BoundedSeq(SomeRows, 2), total : 0..4]
BlockBefore == [year |-> 1, total |-> 1, rows |-> <<[who |-> "X", booked |-> 0, month |-> 11, amount |-> 1]>>]

Lines == [opening : BOOLEAN, date : {0, 11, 12}, amount : {-1, 1, 2}]
Reports == [from : {0, 11, 21}, to : {0, 11, 12, 22}, lines : BoundedSeq(Lines, 2)]
ReportBefore == [from |-> 11, to |-> 12, lines |-> <<[opening |-> FALSE, date |-> 12, amount |-> 1]>>]

SomeHistories ==
    [blocks : {before \o <<b>> : b \in Blocks, before \in {<<>>, <<BlockBefore>>}},
     current : {[date |-> 0, amount |-> 1]}, reports : {<<>>}]
    \cup [blocks : {<<>>}, current : [date : {0, 11, 12}, amount : {1, 2}],
          reports : {before \o <<r>> : r \in Reports, before \in {<<>>, <<ReportBefore>>}}]

=============================================================================
