----------------------------- MODULE ClalReader -----------------------------
(***************************************************************************)
(* What runs in the Clal browser: the reading of the portfolio through the *)
(* portal's own pages (investments/reader.ts), whose responses arrive when *)
(* they like, the snapshot parsed from them (clal-portfolio.ts), and the   *)
(* renewal of the session (session.ts).                                    *)
(*                                                                         *)
(* A response carries the amounts of the moment it was sent.  A checkpoint *)
(* makes every response captured before it ineligible, so only those since *)
(* the last checkpoint are kept here.                                      *)
(***************************************************************************)
EXTENDS Integers, Sequences, SequencesExt, FiniteSets

CONSTANTS
    Pensions, Gemels, \* policies, by the page that shows their details
    MaxChanges        \* bound, for model checking: changes at the portal meanwhile

VARIABLES
    site,  \* the portal: the policies it lists, their amounts, and whether the session is accepted
    wire,  \* responses that are on their way
    got,   \* responses captured since the last checkpoint
    task   \* the reading or renewal: its stage and what it has read

vars == <<site, wire, got, task>>

Policies == Pensions \cup Gemels
None == "none"
Family(p) == IF p \in Pensions THEN "pension" ELSE "gemel"

NoResponse == [kind |-> None, list |-> {}, ok |-> TRUE]
NoTask == [stage |-> "idle", count |-> 0, shown |-> {}, kind |-> None, home |-> NoResponse,
           daily |-> NoResponse, details |-> <<>>, result |-> None, step |-> 0, proven |-> FALSE, products |-> {}]

Response(kind, list) ==
    [kind |-> kind, list |-> list, amount |-> site.amount, ok |-> site.accepted]

Goto(stage) == task' = [task EXCEPT !.stage = stage]
End(result) == task' = [NoTask EXCEPT !.stage = "done", !.result = result]

Init ==
    /\ \E listed \in (SUBSET Policies) \ {{}} :
          site = [listed |-> listed, amount |-> [p \in Policies |-> 1], accepted |-> TRUE, changes |-> 0]
    /\ wire = {} /\ got = {} /\ task = NoTask

-----------------------------------------------------------------------------
(* The portal and the network.                                             *)

Change ==
    /\ site.changes < MaxChanges /\ task.stage # "done"
    /\ \/ \E p \in Policies : site' = [site EXCEPT !.amount[p] = 2, !.changes = @ + 1]
       \/ \E listed \in (SUBSET Policies) \ {{}} :
             site' = [site EXCEPT !.listed = listed, !.changes = @ + 1]
       \/ site' = [site EXCEPT !.accepted = FALSE, !.changes = @ + 1]
    /\ UNCHANGED <<wire, got, task>>

\* captureResponses keeps the responses of the known endpoints, in whatever order they come,
\* until it is closed.
Arrive(r) ==
    /\ task.stage # "done"
    /\ r \in wire /\ wire' = wire \ {r} /\ got' = got \cup {r}
    /\ UNCHANGED <<site, task>>

-----------------------------------------------------------------------------
(* The reading.                                                            *)

Eligible(kind) == {r \in got : r.kind = kind}
Denied(kind) == \E r \in Eligible(kind) : ~r.ok

\* wait: a response that is refused means a login, and sixty seconds without one the end.
Answers(kind) == IF Denied(kind) THEN {} ELSE Eligible(kind)
WaitFails(kind) == (Denied(kind) /\ End("OTP_REQUIRED")) \/ End("INCOMPLETE_RESPONSE")

\* The checkpoint comes before the navigation.  The portal shows its list, or its login page
\* when the session is over; its responses may be the first to say so.
GoHome ==
    /\ task.stage \in {"idle", "home"}
    /\ got' = {}
    /\ \/ /\ task' = [task EXCEPT !.stage = "listing", !.shown = site.listed]
          /\ wire' = wire \cup {Response("portfolio", site.listed)}
               \cup IF site.listed \cap Gemels = {} THEN {}
                    ELSE {Response("daily", site.listed \cap Gemels)}
       \/ ~site.accepted /\ End("OTP_REQUIRED") /\ UNCHANGED wire
    /\ UNCHANGED site

\* The first list is the one that counts; a later one must be as long.
TakeList ==
    /\ task.stage = "listing"
    /\ \/ WaitFails("portfolio")
       \/ \E r \in Answers("portfolio") :
             \/ /\ task.home.kind = None
                /\ task' = [task EXCEPT !.home = r, !.count = Cardinality(r.list),
                              !.stage = IF r.list \cap Gemels = {} THEN "cards" ELSE "daily"]
             \/ task.home.kind # None /\ Cardinality(r.list) = task.count /\ Goto("cards")
    /\ UNCHANGED <<site, wire, got>>

TakeDaily ==
    /\ task.stage = "daily"
    /\ \/ WaitFails("daily")
       \/ \E r \in Answers("daily") : task' = [task EXCEPT !.daily = r, !.stage = "cards"]
    /\ UNCHANGED <<site, wire, got>>

\* The next card is clicked, on a page that shows as many cards as there are policies, in
\* another order each time maybe; one that shows fewer ends the reading.
ClickCard ==
    /\ task.stage = "cards"
    /\ \/ End("INCOMPLETE_RESPONSE") /\ UNCHANGED <<wire, got>>
       \/ /\ Cardinality(task.shown) = task.count
          /\ \E p \in task.shown :
                /\ task' = [task EXCEPT !.stage = "detail", !.kind = Family(p)]
                /\ wire' = wire \cup {Response(Family(p), {p})}
          /\ got' = {}
    /\ UNCHANGED site

\* Whatever detail of that kind comes first is taken, a late one of the card before as well.
TakeDetail ==
    /\ task.stage = "detail"
    /\ \/ WaitFails(task.kind)
       \/ \E r \in Answers(task.kind) :
             task' = [task EXCEPT !.details = Append(@, r),
                          !.stage = IF Len(task.details) + 1 = task.count THEN "parsing" ELSE "home"]
    /\ UNCHANGED <<site, wire, got>>

\* A page that asks for the same details, or the balances, again.
AskAgain ==
    /\ site.changes < MaxChanges
    /\ \/ /\ task.stage \in {"detail", "home", "listing"}
          /\ \E p \in Policies : task.kind = Family(p) /\ wire' = wire \cup {Response(Family(p), {p})}
       \/ task.stage = "daily" /\ wire' = wire \cup {Response("daily", site.listed \cap Gemels)}
    /\ site' = [site EXCEPT !.changes = @ + 1]
    /\ UNCHANGED <<got, task>>

-----------------------------------------------------------------------------
(* The snapshot.                                                           *)

Stated(p) == IF p \in Pensions THEN task.home.amount[p] ELSE task.daily.amount[p]
Known(p) == p \in Pensions \/ p \in task.daily.list

\* The details are taken in the order they were read.
WrongDetails(p) == {i \in DOMAIN task.details : task.details[i].kind = Family(p)}

\* A detail belongs to the policy it names.
Details(p) == {i \in DOMAIN task.details : task.details[i].list = {p}}

Product(p) ==
    [id |-> p, amount |-> IF Known(p) THEN Stated(p) ELSE 0,
     details |-> {task.details[i] : i \in Details(p)}]

Agreed(p) == Known(p) /\ \E i \in Details(p) : task.details[i].amount[p] = Stated(p)

\* gemelMetadata: whether the tracks of the funds add up to their balances.
TracksAddUp == BOOLEAN

\* parseClalPortfolioSnapshot: a policy detailed twice, or one that the list has not, is
\* invalid; one without detail, amount or agreement of the two leaves the snapshot partial,
\* and so do tracks that do not add up.
Parse ==
    /\ task.stage = "parsing"
    /\ IF \/ UNION {Details(p) : p \in task.home.list} # DOMAIN task.details
          \/ \E p \in task.home.list : Cardinality(Details(p)) > 1
       THEN End("INVALID_RESPONSE")
       ELSE \E sums \in TracksAddUp :
              task' = [task EXCEPT
                !.stage = "done", !.products = {Product(p) : p \in task.home.list},
                !.result = IF sums /\ \A p \in task.home.list : Agreed(p) THEN "complete" ELSE "partial"]
    /\ UNCHANGED <<site, wire, got>>

Abort ==
    /\ task.stage \notin {"idle", "done"}
    /\ End("TIMEOUT")
    /\ UNCHANGED <<site, wire, got>>

-----------------------------------------------------------------------------
(* The renewal: timer, protected call, KeepSessionAlive, and both again.   *)

RenewalSteps == <<"expiration", "portfolio", "renewal", "portfolio", "expiration">>

StartRenewal ==
    /\ task.stage = "idle" /\ task' = [task EXCEPT !.stage = "renewing", !.step = 1]
    /\ UNCHANGED <<site, wire, got>>

\* Only the protected portfolio call proves the session: the timer may still be positive,
\* and the renewal may answer anything, when it has ended.
Renew ==
    /\ task.stage = "renewing"
    /\ LET asked == RenewalSteps[task.step]
           last == task.step = Len(RenewalSteps)
       IN \/ /\ site.accepted \/ asked # "portfolio"
             /\ task' = [task EXCEPT !.step = @ + 1, !.proven = asked = "portfolio" \/ (@ /\ asked # "renewal"),
                          !.stage = IF last THEN "done" ELSE @, !.result = IF last THEN "active" ELSE @]
          \/ ~site.accepted /\ End("OTP_REQUIRED")
          \/ End("INVALID_RESPONSE")
    /\ UNCHANGED <<site, wire, got>>

Next ==
    \/ Change \/ (\E r \in wire : Arrive(r)) \/ AskAgain
    \/ GoHome \/ TakeList \/ TakeDaily \/ ClickCard \/ TakeDetail \/ Parse \/ Abort
    \/ StartRenewal \/ Renew

-----------------------------------------------------------------------------
TypeOK ==
    /\ site.listed \subseteq Policies /\ site.amount \in [Policies -> 1..2]
    /\ task.count \in 0..Cardinality(Policies) /\ Len(task.details) <= task.count
    /\ \A r \in wire \cup got : r.kind \in {"portfolio", "daily", "pension", "gemel"}

\* Although the responses of one card may come while the next is waited for, and cards and
\* amounts may change between two visits: a snapshot that may replace saved data has every
\* policy of the list once, with the details of that policy and the amount both agree on.
CompleteIsConsistent ==
    task.result = "complete" =>
        /\ {x.id : x \in task.products} = task.home.list
        /\ \A x \in task.products :
              /\ Cardinality(x.details) = 1
              /\ \A d \in x.details : d.list = {x.id} /\ d.amount[x.id] = x.amount

\* "A positive value alone does not prove portal authentication" (session.ts:103): a
\* renewal reports an active session only when the portal has accepted a protected call
\* after KeepSessionAlive.
RenewedIsProven == task.result = "active" => task.proven

=============================================================================
