------------------------------ MODULE OtpBroker ------------------------------
(***************************************************************************)
(* The Google Messages receiver (tools/google-messages-otp) and the logins *)
(* that take SMS codes from it (src/investments/otp.ts, login.ts): one     *)
(* lease shared by all providers, armed before the bank is asked for an    *)
(* SMS, waited on by long polls and given up by a DELETE.                  *)
(*                                                                         *)
(* Every section the broker runs under its mutex is one action.  The phone *)
(* may repeat, delay and reorder messages; replies, deletions and the      *)
(* connection may be lost; the process may die and start again.            *)
(***************************************************************************)
EXTENDS Integers, Sequences, FiniteSets

CONSTANTS
    Clients,        \* logins: one per provider, each holds its browser profile
    Msgs,           \* SMS messages that match a provider's template and sender
    ProviderOf,     \* ProviderOf[x]: the provider of a client or a message
    LeaseTime,      \* leaseDuration
    Skew,           \* how far a message may be stamped ahead of the broker's clock
    SeenTime,       \* how long a message is remembered in memory
    ConsumedTime,   \* how long a delivered message is remembered on disk
    Capacity,       \* maxConsumed
    Lookups,        \* sender lookups at a time
    MaxClock, MaxLeases, MaxFaults \* bounds, for model checking

None == "none"
Never == -1

ASSUME OtpAssumption ==
    /\ IsFiniteSet(Msgs) /\ None \notin Msgs
    /\ {LeaseTime, SeenTime, ConsumedTime, Capacity, Lookups} \subseteq Nat \ {0}
    /\ {Skew, MaxClock, MaxLeases, MaxFaults} \subseteq Nat
    /\ LeaseTime + Skew < ConsumedTime

VARIABLES
    clock,
    online, terminal,   \* broker.online, broker.terminal
    request,            \* broker.request, the lease
    seen,               \* seen[m]: when the message was looked at
    consumed, disk,     \* delivered messages, in memory and on disk
    lookups,            \* messages whose sender is being looked up
    pc, held,           \* what a client's request is doing, and the lease it was given
    woken,              \* sleeping waits whose channel has been closed
    deletes,            \* deletions under way
    stamp,              \* stamp[m]: the time the message carries
    leases, faults,     \* leases given; faults so far
    \* Observation only: no action reads these.
    rivals,             \* messages that qualified for the current lease
    cut,                \* the newest lease at the last disconnect or restart
    handed              \* the codes answered, in order

phone == <<stamp, lookups>>
memory == <<seen, consumed, disk>>
vars == <<clock, online, terminal, request, memory, phone, pc, held, woken, deletes, leases, faults,
          rivals, cut, handed>>

-----------------------------------------------------------------------------
(* The lease and the broker's health. *)

NoLease == [id |-> 0, provider |-> None, armedAt |-> 0, msg |-> None, delivered |-> FALSE, ambiguous |-> FALSE]
NewLease(c) == [NoLease EXCEPT !.id = leases + 1, !.provider = ProviderOf[c], !.armedAt = clock]

IsLive(r) == r # NoLease /\ clock < r.armedAt + LeaseTime

\* signalLocked: every wait that sleeps will look again.
Wake == woken' = {c \in Clients : pc[c] = "sleeping"}

Fault == faults < MaxFaults /\ faults' = faults + 1

\* Nobody tells the waits that sleep.
WrongGoOffline == online' = FALSE /\ request' = NoLease /\ cut' = leases /\ UNCHANGED woken

GoOffline == online' = FALSE /\ request' = NoLease /\ cut' = leases /\ Wake

\* setHealth; isFatal says that the state is one the broker does not recover from.
SetHealth(isOnline, isFatal) ==
    IF terminal THEN UNCHANGED <<online, terminal, request, woken, cut>>
    ELSE /\ terminal' = isFatal
         /\ IF isOnline THEN online' = TRUE /\ Wake /\ UNCHANGED <<request, cut>> ELSE GoOffline

FailForGood == terminal' = TRUE /\ GoOffline

-----------------------------------------------------------------------------
Init ==
    /\ clock = 0 /\ online = FALSE /\ terminal = FALSE /\ request = NoLease
    /\ seen = [m \in Msgs |-> Never] /\ consumed = {} /\ disk = {}
    /\ lookups = {} /\ stamp = [m \in Msgs |-> Never]
    /\ pc = [c \in Clients |-> "idle"] /\ held = [c \in Clients |-> NoLease]
    /\ woken = {} /\ deletes = {} /\ leases = 0 /\ faults = 0
    /\ rivals = {} /\ cut = 0 /\ handed = <<>>

-----------------------------------------------------------------------------
(* Arming. *)

Goto(c, label) == pc' = [pc EXCEPT ![c] = label]

\* Bounds: a lease can still be given, and can expire.
RoomToArm == leases < MaxLeases /\ clock + LeaseTime <= MaxClock

\* POST arm.  The phone is asked whether it answers unless the lease is taken.
ArmBegin(c) ==
    /\ pc[c] = "idle" /\ RoomToArm
    /\ Goto(c, IF online /\ ~IsLive(request) THEN "verifying" ELSE "deciding")
    /\ UNCHANGED <<clock, online, terminal, request, memory, phone, held, woken, deletes, leases,
                   faults, rivals, cut, handed>>

PhoneAnswers(c) ==
    /\ pc[c] = "verifying"
    /\ Goto(c, "deciding")
    /\ UNCHANGED <<clock, online, terminal, request, memory, phone, held, woken, deletes, leases,
                   faults, rivals, cut, handed>>

\* No answer in time, or the client went away: whatever lease there is by now is dropped.
PhoneSilent(c) ==
    /\ pc[c] = "verifying" /\ Fault
    /\ SetHealth(FALSE, FALSE)
    /\ Goto(c, "deciding")
    /\ UNCHANGED <<clock, memory, phone, held, deletes, leases, rivals, handed>>

Refuse(c) == Goto(c, "idle") /\ UNCHANGED <<request, held, woken, leases, rivals>>

\* The reply reaches the client, or the client has gone and nobody knows the lease.
Grant(c) ==
    /\ request' = NewLease(c)
    /\ leases' = leases + 1 /\ rivals' = {} /\ Wake
    /\ \/ Goto(c, "armed") /\ held' = [held EXCEPT ![c] = NewLease(c)]
       \/ Goto(c, "idle") /\ UNCHANGED held

\* The check made before the phone was asked is trusted.
WrongArmDecide(c) ==
    /\ pc[c] = "deciding" /\ RoomToArm
    /\ IF online THEN Grant(c) ELSE Refuse(c)
    /\ UNCHANGED <<clock, online, terminal, memory, phone, deletes, faults, cut, handed>>

ArmDecide(c) ==
    /\ pc[c] = "deciding" /\ RoomToArm
    /\ IF online /\ ~IsLive(request) THEN Grant(c) ELSE Refuse(c)
    /\ UNCHANGED <<clock, online, terminal, memory, phone, deletes, faults, cut, handed>>

-----------------------------------------------------------------------------
(* Waiting. *)

\* The login ends, whether it has the code or not, and deletes its lease.
Leave(c) ==
    /\ Goto(c, "idle")
    /\ held' = [held EXCEPT ![c] = NoLease]
    /\ deletes' = deletes \cup {held[c].id}

\* POST wait, until the lease the client knows has expired.
Wait(c) ==
    /\ pc[c] = "armed"
    /\ IF clock < held[c].armedAt + LeaseTime
       THEN Goto(c, "waiting") /\ UNCHANGED <<held, deletes>>
       ELSE Leave(c)
    /\ UNCHANGED <<clock, online, terminal, request, memory, phone, woken, leases, faults, rivals, cut, handed>>

\* 503, 410 or 409.
IsRefused(c) ==
    \/ ~online
    \/ request.id # held[c].id \/ ~IsLive(request) \/ request.delivered
    \/ request.ambiguous

Kept == {e \in consumed : clock - e.at < ConsumedTime}
Delivery == [msg |-> request.msg, at |-> clock]

LookRefused(c) ==
    /\ pc[c] = "waiting"
    /\ IsRefused(c) \/ (request.msg # None /\ Cardinality(Kept) >= Capacity)
    /\ Leave(c)
    /\ UNCHANGED <<clock, online, terminal, request, memory, phone, woken, leases, faults, rivals, cut, handed>>

HasCode(c) == ~IsRefused(c) /\ request.msg # None /\ Cardinality(Kept) < Capacity

Answer == [msg |-> request.msg, lease |-> request, rivals |-> rivals, cut |-> cut]

\* The answer is sent before the delivery is on disk.
WrongLookDelivers(c) ==
    /\ pc[c] = "waiting" /\ HasCode(c)
    /\ consumed' = Kept \cup {Delivery} /\ UNCHANGED disk
    /\ request' = [request EXCEPT !.delivered = TRUE]
    /\ handed' = Append(handed, Answer)
    /\ Leave(c)
    /\ UNCHANGED <<clock, online, terminal, seen, phone, woken, leases, faults, rivals, cut>>

\* The delivery is written to disk, then answered; the client may have gone.
LookDelivers(c) ==
    /\ pc[c] = "waiting" /\ HasCode(c)
    /\ consumed' = Kept \cup {Delivery} /\ disk' = consumed'
    /\ request' = [request EXCEPT !.delivered = TRUE]
    /\ handed' = Append(handed, Answer)
    /\ Leave(c)
    /\ UNCHANGED <<clock, online, terminal, seen, phone, woken, leases, faults, rivals, cut>>

\* The write fails, before or after the file was replaced.
LookCannotPersist(c) ==
    /\ pc[c] = "waiting" /\ HasCode(c) /\ Fault
    /\ disk' \in {disk, Kept \cup {Delivery}}
    /\ FailForGood
    /\ Leave(c)
    /\ UNCHANGED <<clock, seen, consumed, phone, leases, rivals, handed>>

LookSleeps(c) ==
    /\ pc[c] = "waiting" /\ ~IsRefused(c) /\ request.msg = None
    /\ Goto(c, "sleeping") /\ woken' = woken \ {c}
    /\ UNCHANGED <<clock, online, terminal, request, memory, phone, held, deletes, leases, faults,
                   rivals, cut, handed>>

WakeUp(c) ==
    /\ pc[c] = "sleeping" /\ c \in woken
    /\ Goto(c, "waiting") /\ woken' = woken \ {c}
    /\ UNCHANGED <<clock, online, terminal, request, memory, phone, held, deletes, leases, faults,
                   rivals, cut, handed>>

\* The timer of the wait is lost.
WrongWaitTimesOut(c) ==
    /\ pc[c] = "sleeping" /\ c \in woken
    /\ Goto(c, "armed") /\ woken' = woken \ {c}
    /\ UNCHANGED <<clock, online, terminal, request, memory, phone, held, deletes, leases, faults,
                   rivals, cut, handed>>

\* 202 after waitDuration: the client polls again.
WaitTimesOut(c) ==
    /\ pc[c] = "sleeping"
    /\ Goto(c, "armed") /\ woken' = woken \ {c}
    /\ UNCHANGED <<clock, online, terminal, request, memory, phone, held, deletes, leases, faults,
                   rivals, cut, handed>>

\* The login is aborted by its deadline, a shutdown or the bank's page.
Abort(c) ==
    /\ pc[c] \in {"armed", "waiting", "sleeping"}
    /\ Leave(c) /\ woken' = woken \ {c}
    /\ UNCHANGED <<clock, online, terminal, request, memory, phone, leases, faults, rivals, cut, handed>>

Delete(id) ==
    /\ id \in deletes /\ deletes' = deletes \ {id}
    /\ IF request.id = id THEN request' = NoLease /\ Wake ELSE UNCHANGED <<request, woken>>
    /\ UNCHANGED <<clock, online, terminal, memory, phone, pc, held, leases, faults, rivals, cut, handed>>

LoseDelete(id) ==
    /\ id \in deletes /\ deletes' = deletes \ {id}
    /\ UNCHANGED <<clock, online, terminal, request, memory, phone, pc, held, woken, leases, faults,
                   rivals, cut, handed>>

-----------------------------------------------------------------------------
(* Messages. *)

Remembered == [m \in Msgs |-> IF seen[m] # Never /\ clock - seen[m] > SeenTime THEN Never ELSE seen[m]]
IsFull == Cardinality({m \in Msgs : Remembered[m] # Never}) >= Capacity

IsIgnored(m) == request = NoLease \/ request.provider # ProviderOf[m] \/ seen[m] # Never

\* A second message replaces the first.
WrongTake(m) ==
    /\ request' = [request EXCEPT !.msg = m]
    /\ rivals' = rivals \cup {m} /\ Wake

\* The first message that qualifies carries the code; a second one spoils the lease.
Take(m) ==
    /\ request' = IF request.msg = None THEN [request EXCEPT !.msg = m] ELSE [request EXCEPT !.ambiguous = TRUE]
    /\ rivals' = rivals \cup {m} /\ Wake

Qualifies(m) ==
    /\ \A e \in consumed : e.msg # m
    /\ online /\ IsLive(request) /\ ~request.delivered /\ ~request.ambiguous
    /\ stamp[m] >= request.armedAt /\ stamp[m] <= clock + Skew

\* accept
Accept(m) ==
    /\ \/ IsIgnored(m) /\ UNCHANGED <<online, terminal, request, seen, woken, rivals, cut>>
       \/ ~IsIgnored(m) /\ IsFull /\ FailForGood /\ seen' = Remembered /\ UNCHANGED rivals
       \/ /\ ~IsIgnored(m) /\ ~IsFull
          /\ seen' = [Remembered EXCEPT ![m] = clock]
          /\ IF Qualifies(m) THEN Take(m) ELSE UNCHANGED <<request, rivals, woken>>
          /\ UNCHANGED <<online, terminal, cut>>
    /\ UNCHANGED <<clock, consumed, disk, stamp, pc, held, deletes, leases, faults, handed>>

\* candidateRule: messages are only looked at for the sake of a lease that waits for one.
IsCandidate(m) ==
    /\ online /\ IsLive(request) /\ ~request.delivered /\ ~request.ambiguous
    /\ request.provider = ProviderOf[m]

\* The bank sends a message, for whatever login; the phone's clock may be ahead.
Sms(m) ==
    /\ stamp[m] = Never
    /\ \E t \in clock..(clock + Skew) : stamp' = [stamp EXCEPT ![m] = t]
    /\ UNCHANGED <<clock, online, terminal, request, memory, lookups, pc, held, woken, deletes,
                   leases, faults, rivals, cut, handed>>

\* The event names the sender.  The phone may send the event again.
ArriveWithSender(m) ==
    /\ stamp[m] # Never /\ IsCandidate(m)
    /\ Accept(m)
    /\ UNCHANGED lookups

\* The sender has to be looked up, by one of a few goroutines.
ArriveWithoutSender(m) ==
    /\ stamp[m] # Never /\ IsCandidate(m)
    /\ stamp[m] >= request.armedAt /\ stamp[m] <= clock + Skew
    /\ IF Cardinality(lookups) < Lookups
       THEN lookups' = lookups \cup {m} /\ UNCHANGED <<online, terminal, request, woken, cut>>
       ELSE SetHealth(FALSE, TRUE) /\ UNCHANGED lookups
    /\ UNCHANGED <<clock, memory, stamp, pc, held, deletes, leases, faults, rivals, handed>>

LookupEnds(m) ==
    /\ m \in lookups /\ lookups' = lookups \ {m}
    /\ Accept(m)

LookupFails(m) ==
    /\ m \in lookups /\ lookups' = lookups \ {m}
    /\ UNCHANGED <<clock, online, terminal, request, memory, stamp, pc, held, woken, deletes, leases,
                   faults, rivals, cut, handed>>

-----------------------------------------------------------------------------
(* The receiver and the process. *)

\* status: the connection, the browser session and the phone are all there, or one is not.
PhoneConnects ==
    /\ SetHealth(TRUE, FALSE)
    /\ UNCHANGED <<clock, memory, phone, pc, held, deletes, leases, faults, rivals, handed>>

\* One of them is gone, or (isFatal) a refreshed session cannot be saved.
PhoneDisconnects(isFatal) ==
    /\ Fault /\ SetHealth(FALSE, isFatal)
    /\ UNCHANGED <<clock, memory, phone, pc, held, deletes, leases, rivals, handed>>

\* The process dies and starts again with what is on disk; requests under way fail.
Restart ==
    /\ Fault
    /\ online' = FALSE /\ terminal' = FALSE /\ request' = NoLease /\ cut' = leases
    /\ seen' = [m \in Msgs |-> Never] /\ consumed' = disk
    /\ lookups' = {} /\ woken' = {} /\ deletes' = {}
    /\ pc' = [c \in Clients |-> IF pc[c] = "armed" THEN "armed" ELSE "idle"]
    /\ held' = [c \in Clients |-> IF pc[c] = "armed" THEN held[c] ELSE NoLease]
    /\ UNCHANGED <<clock, disk, stamp, leases, rivals, handed>>

Tick ==
    /\ clock < MaxClock
    /\ clock' = clock + 1
    /\ UNCHANGED <<online, terminal, request, memory, phone, pc, held, woken, deletes, leases, faults,
                   rivals, cut, handed>>

-----------------------------------------------------------------------------
Client(c) ==
    \/ ArmBegin(c) \/ PhoneAnswers(c) \/ PhoneSilent(c) \/ ArmDecide(c)
    \/ Wait(c) \/ LookRefused(c) \/ LookDelivers(c) \/ LookCannotPersist(c) \/ LookSleeps(c)
    \/ WakeUp(c) \/ WaitTimesOut(c) \/ Abort(c)

Message(m) ==
    Sms(m) \/ ArriveWithSender(m) \/ ArriveWithoutSender(m) \/ LookupEnds(m) \/ LookupFails(m)

Next ==
    \/ \E c \in Clients : Client(c)
    \/ \E m \in Msgs : Message(m)
    \/ \E id \in deletes : Delete(id) \/ LoseDelete(id)
    \/ PhoneConnects \/ (\E isFatal \in BOOLEAN : PhoneDisconnects(isFatal)) \/ Restart
    \/ Tick

Spec == Init /\ [][Next]_vars

\* The client polls again after a 202 and stops at its lease's end; the server's goroutines run,
\* its timer fires and time passes.  Nothing is assumed of the phone, the bank or the network.
Fairness ==
    /\ WF_vars(Tick)
    /\ \A c \in Clients :
        /\ WF_vars(Wait(c))
        /\ WF_vars(LookRefused(c) \/ LookDelivers(c) \/ LookCannotPersist(c) \/ LookSleeps(c))
        /\ WF_vars(WakeUp(c) \/ WaitTimesOut(c))

FairSpec == Spec /\ Fairness

-----------------------------------------------------------------------------
(* Properties. *)

Providers == {ProviderOf[c] : c \in Clients}
Leases == [id : Nat, provider : Providers \cup {None}, armedAt : Nat, msg : Msgs \cup {None},
           delivered : BOOLEAN, ambiguous : BOOLEAN]
Deliveries == [msg : Msgs, at : Nat]
Answers == [msg : Msgs, lease : Leases, rivals : SUBSET Msgs, cut : Nat]

\* Every variable has its type, a client that is not waiting for a code holds no lease (it has
\* handed it to a deletion, the finally of performClalLogin), and after a failure the broker does
\* not recover from it stays silent until it is restarted, whatever the phone reports.
TypeOK ==
    /\ clock \in Nat /\ online \in BOOLEAN /\ terminal \in BOOLEAN
    /\ request \in Leases
    /\ seen \in [Msgs -> Nat \cup {Never}] /\ stamp \in [Msgs -> Nat \cup {Never}]
    /\ consumed \subseteq Deliveries /\ disk \subseteq Deliveries
    /\ lookups \subseteq Msgs /\ rivals \subseteq Msgs
    /\ pc \in [Clients -> {"idle", "verifying", "deciding", "armed", "waiting", "sleeping"}]
    /\ held \in [Clients -> Leases]
    /\ \A c \in Clients : held[c] # NoLease <=> pc[c] \in {"armed", "waiting", "sleeping"}
    /\ woken \subseteq {c \in Clients : pc[c] = "sleeping"}
    /\ deletes \subseteq 1..leases
    /\ leases \in Nat /\ faults \in Nat /\ cut \in 0..leases /\ request.id \in 0..leases
    /\ handed \in Seq(Answers)
    /\ terminal => ~online /\ request = NoLease

\* A code is answered at most once and a lease answers at most one code, over repeated events,
\* lost replies, new leases and restarts (README: the code cannot be fetched twice).
CodeAnsweredOnce ==
    \A i, j \in DOMAIN handed :
        handed[i].msg = handed[j].msg \/ handed[i].lease.id = handed[j].lease.id => i = j

\* An answered code is the only message that qualified for its lease, of the lease's provider,
\* and the connection held from the arming on (README: the receiver does not choose the latest
\* code, and disconnects invalidate leases).
AnswersAreClear ==
    \A i \in DOMAIN handed : LET h == handed[i] IN
        /\ h.rivals = {h.msg} /\ ProviderOf[h.msg] = h.lease.provider
        /\ stamp[h.msg] >= h.lease.armedAt
        /\ h.cut < h.lease.id

HoldersReserve ==
    \A c \in Clients :
        held[c].id > cut /\ clock < held[c].armedAt + LeaseTime => request.id = held[c].id

\* Whoever holds an unexpired lease still has the broker to itself, although arming checks the
\* lease before and after it asks the phone, and deletions arrive late (README: one lease at a
\* time, reserved until cancellation or deadline); and a broker that failed for good has no lease
\* any more and does not come back when the phone does (setHealth).
ReservationKept == HoldersReserve /\ (terminal => ~online /\ request = NoLease)

\* A wait sleeps only as long as another look would send it back to sleep (or the lease has
\* just run out): everything that changes an answer closes the channel it sleeps on.
SleepersMissNothing ==
    \A c \in Clients :
        pc[c] = "sleeping" /\ c \notin woken /\ IsLive(held[c]) => ~IsRefused(c) /\ request.msg = None

\* Every login stops waiting for its code.
ReadEnds ==
    \A c \in Clients : pc[c] \in {"armed", "waiting", "sleeping"} ~> pc[c] = "idle"

=============================================================================
