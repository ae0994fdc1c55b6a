----------------------------- MODULE Portals -----------------------------
(***************************************************************************)
(* The readers of the three investment portals.  They share no state: a    *)
(* behaviour is of the one the initial state chooses, and the variables of *)
(* the others stay Absent.                                                 *)
(***************************************************************************)
EXTENDS Integers, Sequences, FiniteSets

CONSTANTS
    Collectors, MaxSessions, MaxCollections, MaxPolicies, \* BestInvestSession
    Inventories, Missing,                                 \* BestInvestSnapshot
    Pensions, Gemels, MaxChanges,                         \* ClalReader
    Histories, Observed,                                  \* ClalHistory
    MaxRows, MaxPages                                     \* HapoalimRead

VARIABLES
    reader,                                      \* the module at work
    lease, chrome, saved, portal, issued, col,   \* BestInvestSession
    captures, next, snapshot,                    \* BestInvestSnapshot
    site, wire, got, task,                       \* ClalReader
    blocks, current, reports, result,            \* ClalHistory
    bank, boot, pull, job                        \* HapoalimRead

session == <<lease, chrome, saved, portal, issued, col>>
parser == <<captures, next, snapshot>>
clal == <<site, wire, got, task>>
history == <<blocks, current, reports, result>>
hapoalim == <<bank, boot, pull, job>>
readersVars == <<reader, session, parser, clal, history, hapoalim>>

BestInvest == INSTANCE BestInvestSession WITH MaxRuns <- MaxCollections
Parser == INSTANCE BestInvestSnapshot
Clal == INSTANCE ClalReader
History == INSTANCE ClalHistory
Hapoalim == INSTANCE HapoalimRead WITH run <- job

ASSUME PortalsAssumption ==
    /\ {MaxCollections, MaxPolicies, MaxRows} \subseteq Nat /\ {MaxSessions, MaxPages} \subseteq Nat \ {0}
    /\ "none" \notin Collectors /\ IsFiniteSet(Pensions) /\ IsFiniteSet(Gemels)

\* The inputs of the two parsers are any that have the shape of the portals' answers.
ASSUME InputsAssumption ==
    /\ Missing \notin Int /\ Inventories \subseteq Seq(Parser!Policy)
    /\ Histories \subseteq History!Details /\ Observed \in Nat

Absent == "absent"

NoSession ==
    /\ lease = Absent /\ chrome = Absent /\ saved = Absent
    /\ portal = Absent /\ issued = Absent /\ col = Absent
NoParser == captures = Absent /\ next = Absent /\ snapshot = Absent
NoClal == site = Absent /\ wire = Absent /\ got = Absent /\ task = Absent
NoHistory == blocks = Absent /\ current = Absent /\ reports = Absent /\ result = Absent
NoHapoalim == bank = Absent /\ boot = Absent /\ pull = Absent /\ job = Absent

ReadersInit ==
    \/ /\ reader = "session" /\ BestInvest!Init
       /\ NoParser /\ NoClal /\ NoHistory /\ NoHapoalim
    \/ /\ reader = "parser" /\ Parser!Init
       /\ NoSession /\ NoClal /\ NoHistory /\ NoHapoalim
    \/ /\ reader = "clal" /\ Clal!Init
       /\ NoSession /\ NoParser /\ NoHistory /\ NoHapoalim
    \/ /\ reader = "history" /\ History!Init
       /\ NoSession /\ NoParser /\ NoClal /\ NoHapoalim
    \/ /\ reader = "hapoalim" /\ Hapoalim!Init
       /\ NoSession /\ NoParser /\ NoClal /\ NoHistory

ReadersNext ==
    \/ reader = "session" /\ BestInvest!Next /\ UNCHANGED <<reader, parser, clal, history, hapoalim>>
    \/ reader = "parser" /\ Parser!Next /\ UNCHANGED <<reader, session, clal, history, hapoalim>>
    \/ reader = "clal" /\ Clal!Next /\ UNCHANGED <<reader, session, parser, history, hapoalim>>
    \/ reader = "history" /\ History!Next /\ UNCHANGED <<reader, session, parser, clal, hapoalim>>
    \/ reader = "hapoalim" /\ Hapoalim!Next /\ UNCHANGED <<reader, session, parser, clal, history>>

ReadersSpec == ReadersInit /\ [][ReadersNext]_readersVars

-----------------------------------------------------------------------------
\* What the reader at work vouches for is so, whatever the portal, the page and time did to it:
\* Best Invest and Clal call a snapshot complete only if its parts agree, a Clal session is
\* active on the word of a protected call, deposits add up and reports only add to them, and of
\* Hapoalim a whole history is applied and a one-time-code form is never reported as something else.
ReportsAreTrue ==
    CASE reader = "session" -> BestInvest!TypeOK
      [] reader = "parser" -> Parser!TypeOK /\ Parser!CompleteIsReconciled
      [] reader = "clal" -> Clal!TypeOK /\ Clal!CompleteIsConsistent /\ Clal!RenewedIsProven
      [] reader = "history" -> History!TypeOK /\ History!DepositsAddUp /\ History!ReportsOnlyAdd
      [] reader = "hapoalim" -> Hapoalim!TypeOK /\ Hapoalim!AppliedHasAll /\ Hapoalim!FormIsReported

\* Best Invest: no two Chromes on its profile, and none without the lease on it, after kills
\* that do not work and collectors that die (stopBestInvestProcess).
ProfileIsLeased == reader = "session" => BestInvest!ProfileIsLeased

\* Best Invest: one SMS at most, for a session that was no longer accepted (loginBestInvest).
SmsIsTheLastResort == reader = "session" => BestInvest!SmsIsTheLastResort

\* How a read may end.  Best Invest: a login that led nowhere else still leaves its session
\* behind; Hapoalim: a read that was given up captures, applies and reports nothing more.
EndsWell ==
    [][CASE reader = "session" -> \A c \in Collectors : BestInvest!KeepsSession(c)
         [] reader = "hapoalim" -> Hapoalim!Silent
         [] OTHER -> TRUE]_readersVars

=============================================================================
