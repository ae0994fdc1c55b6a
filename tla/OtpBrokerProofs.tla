--------------------------- MODULE OtpBrokerProofs ---------------------------
(***************************************************************************)
(* The lease protocol of the SMS receiver, for any number of logins,       *)
(* messages, leases, restarts and disconnects: a code is answered once and *)
(* only when it is clear, a login that holds a lease keeps it, and no wait *)
(* sleeps through its answer.                                              *)
(***************************************************************************)
EXTENDS OtpBroker, TLAPS

-----------------------------------------------------------------------------
(* The lease and the broker's health, as every step uses them. *)

LEMMA LeaseFacts ==
    /\ NoLease \in Leases /\ NoLease.id = 0 /\ NoLease.armedAt = 0 /\ NoLease.msg = None
    /\ ~NoLease.delivered /\ ~NoLease.ambiguous
    /\ \A r \in Leases : r.id \in Nat /\ r.armedAt \in Nat /\ r.msg \in Msgs \cup {None}
                         /\ r.provider \in Providers \cup {None}
                         /\ r.delivered \in BOOLEAN /\ r.ambiguous \in BOOLEAN
    /\ \A r \in Leases : r.id # 0 => r # NoLease
BY DEF NoLease, Leases, None

LEMMA NewLeaseFacts ==
    ASSUME TypeOK, NEW c \in Clients
    PROVE  /\ NewLease(c) \in Leases /\ NewLease(c) # NoLease
           /\ NewLease(c).id = leases + 1 /\ NewLease(c).armedAt = clock
           /\ NewLease(c).msg = None /\ NewLease(c).provider = ProviderOf[c]
           /\ ~NewLease(c).delivered /\ ~NewLease(c).ambiguous
<1>1. leases + 1 \in Nat /\ leases + 1 # 0 /\ clock \in Nat /\ ProviderOf[c] \in Providers
  BY DEF TypeOK, Providers
<1> QED BY <1>1 DEF NewLease, NoLease, Leases, None

\* What a change of the receiver's health leaves.
LEMMA HealthFacts ==
    ASSUME TypeOK, NEW isOnline \in BOOLEAN, NEW isFatal \in BOOLEAN,
           isOnline => ~isFatal, SetHealth(isOnline, isFatal)
    PROVE  /\ online' \in BOOLEAN /\ terminal' \in BOOLEAN /\ request' \in Leases
           /\ terminal' => ~online' /\ request' = NoLease
           /\ \/ UNCHANGED <<online, request, cut, woken>>
              \/ online' /\ UNCHANGED <<request, cut>> /\ Wake
              \/ GoOffline
BY LeaseFacts DEF SetHealth, GoOffline, TypeOK

-----------------------------------------------------------------------------
(* Types. *)

\* What the clients are doing, the leases they hold and the deletions they sent.
PcType == {"idle", "verifying", "deciding", "armed", "waiting", "sleeping"}

ClientsOK ==
    /\ pc \in [Clients -> PcType] /\ held \in [Clients -> Leases]
    /\ \A c \in Clients : held[c] # NoLease <=> pc[c] \in {"armed", "waiting", "sleeping"}
    /\ woken \subseteq {c \in Clients : pc[c] = "sleeping"}

\* The rest of the types.
BrokerOK ==
    /\ clock \in Nat /\ online \in BOOLEAN /\ terminal \in BOOLEAN
    /\ request \in Leases /\ request.id \in 0..leases
    /\ leases \in Nat /\ cut \in 0..leases /\ deletes \subseteq 1..leases
    /\ terminal => ~online /\ request = NoLease

MessagesOK ==
    /\ seen \in [Msgs -> Nat \cup {Never}] /\ stamp \in [Msgs -> Nat \cup {Never}]
    /\ consumed \subseteq Deliveries /\ disk \subseteq Deliveries
    /\ lookups \subseteq Msgs /\ rivals \subseteq Msgs
    /\ handed \in Seq(Answers) /\ faults \in Nat

LEMMA TypeParts == TypeOK <=> ClientsOK /\ BrokerOK /\ MessagesOK
BY DEF TypeOK, ClientsOK, BrokerOK, MessagesOK, PcType

LEMMA TypesNext == ClientsOK' /\ BrokerOK' /\ MessagesOK' => TypeOK'
BY DEF TypeOK, ClientsOK, BrokerOK, MessagesOK, PcType

LEMMA ClientsFromTypes == TypeOK => ClientsOK
BY TypeParts

LEMMA InitTypes == Init => TypeOK
<1> SUFFICES ASSUME Init PROVE TypeOK
  OBVIOUS
<1>1. ClientsOK
  BY LeaseFacts DEF Init, ClientsOK, PcType
<1>2. BrokerOK
  <2>1. online \in BOOLEAN /\ terminal \in BOOLEAN /\ (terminal => ~online /\ request = NoLease)
    BY DEF Init
  <2>2. request \in Leases /\ request.id = 0 /\ clock = 0 /\ leases = 0 /\ cut = 0 /\ deletes = {}
    BY LeaseFacts DEF Init
  <2> QED BY <2>1, <2>2 DEF BrokerOK
<1>3. handed \in Seq(Answers)
  BY DEF Init
<1>4. MessagesOK
  BY <1>3 DEF Init, MessagesOK, Never
<1> QED BY <1>1, <1>2, <1>4, TypeParts

\* A client's request moves from one stage to another without the lease changing hands.
LEMMA ClientMoves ==
    ASSUME TypeOK, NEW c \in Clients, NEW label \in PcType, Goto(c, label),
           \/ /\ UNCHANGED held
              /\ label \in {"armed", "waiting", "sleeping"} <=> pc[c] \in {"armed", "waiting", "sleeping"}
           \/ label = "idle" /\ held' = [held EXCEPT ![c] = NoLease],
           woken' \subseteq Clients,
           \A d \in woken' : IF d = c THEN label = "sleeping" ELSE pc[d] = "sleeping"
    PROVE  ClientsOK'
<1>1. ClientsOK
  BY ClientsFromTypes
<1>2. pc' = [pc EXCEPT ![c] = label] /\ pc' \in [Clients -> PcType]
  BY <1>1 DEF Goto, ClientsOK
<1>3. held' \in [Clients -> Leases]
  BY <1>1, LeaseFacts DEF ClientsOK
<1>4. \A d \in Clients : held'[d] # NoLease <=> pc'[d] \in {"armed", "waiting", "sleeping"}
  BY <1>1, <1>2 DEF ClientsOK
<1>5. woken' \subseteq {d \in Clients : pc'[d] = "sleeping"}
  BY <1>1, <1>2 DEF ClientsOK
<1> QED BY <1>2, <1>3, <1>4, <1>5 DEF ClientsOK

\* The receiver goes offline and comes back under the clients.
LEMMA OfflineTypes ==
    ASSUME TypeOK, GoOffline, terminal' \in BOOLEAN, UNCHANGED <<clock, leases, deletes>>
    PROVE  BrokerOK'
<1>1. BrokerOK
  BY TypeParts
<1>2. online' \in BOOLEAN /\ (terminal' => ~online' /\ request' = NoLease)
  BY DEF GoOffline
<1>3. request' \in Leases /\ request'.id = 0 /\ cut' = leases
  BY LeaseFacts DEF GoOffline
<1>4. request'.id \in 0..leases' /\ cut' \in 0..leases'
  BY <1>1, <1>3 DEF BrokerOK
<1> QED BY <1>1, <1>2, <1>3, <1>4 DEF BrokerOK

LEMMA HealthTypes ==
    ASSUME TypeOK, NEW isOnline \in BOOLEAN, NEW isFatal \in BOOLEAN,
           isOnline => ~isFatal, SetHealth(isOnline, isFatal), UNCHANGED <<clock, leases, deletes>>
    PROVE  BrokerOK'
<1>1. BrokerOK
  BY TypeParts
<1>2. CASE terminal
  BY <1>1, <1>2 DEF SetHealth, BrokerOK
<1>3. CASE ~terminal /\ isOnline
  <2>1. online' \in BOOLEAN /\ terminal' \in BOOLEAN /\ ~terminal'
    BY <1>3 DEF SetHealth
  <2>2. UNCHANGED <<clock, request, cut, leases, deletes>>
    BY <1>3 DEF SetHealth
  <2> QED BY <1>1, <2>1, <2>2 DEF BrokerOK
<1>4. CASE ~terminal /\ ~isOnline
  BY <1>4, OfflineTypes DEF SetHealth
<1> QED BY <1>2, <1>3, <1>4

LEMMA FatalTypes ==
    ASSUME TypeOK, FailForGood, UNCHANGED <<clock, leases, deletes>>
    PROVE  BrokerOK'
<1>1. terminal' \in BOOLEAN
  BY DEF FailForGood
<1> QED BY <1>1, OfflineTypes DEF FailForGood

\* Waking the sleepers keeps the clients' types.
LEMMA WakeTypes ==
    ASSUME TypeOK, UNCHANGED <<pc, held>>, Wake \/ UNCHANGED woken
    PROVE  ClientsOK'
BY ClientsFromTypes DEF ClientsOK, Wake

\* What the steps of a client do to its request.
LEMMA ClientClients ==
    ASSUME TypeOK, NEW c \in Clients, Client(c)
    PROVE  ClientsOK'
<1>1. /\ ClientsOK /\ \A d \in woken : d \in Clients /\ pc[d] = "sleeping"
      /\ held[c] # NoLease <=> pc[c] \in {"armed", "waiting", "sleeping"}
  BY ClientsFromTypes DEF ClientsOK
<1>2. CASE ArmBegin(c)
  BY <1>1, <1>2, ClientMoves DEF ArmBegin, PcType
<1>3. CASE PhoneAnswers(c)
  BY <1>1, <1>3, ClientMoves DEF PhoneAnswers, PcType
<1>4. CASE Wait(c)
  BY <1>1, <1>4, ClientMoves DEF Wait, PcType, Leave
<1>5. CASE LookRefused(c)
  BY <1>1, <1>5, ClientMoves DEF LookRefused, PcType, Leave
<1>6. CASE LookDelivers(c)
  BY <1>1, <1>6, ClientMoves DEF LookDelivers, PcType, Leave
<1>7. CASE LookSleeps(c)
  BY <1>1, <1>7, ClientMoves DEF LookSleeps, PcType
<1>8. CASE WakeUp(c)
  BY <1>1, <1>8, ClientMoves DEF WakeUp, PcType
<1>9. CASE WaitTimesOut(c)
  BY <1>1, <1>9, ClientMoves DEF WaitTimesOut, PcType
<1>10. CASE Abort(c)
  BY <1>1, <1>10, ClientMoves DEF Abort, PcType, Leave
<1>11. CASE PhoneSilent(c)
  <2>1. \A d \in woken' : d \in Clients /\ pc[d] = "sleeping"
    BY <1>1, <1>11 DEF PhoneSilent, SetHealth, GoOffline, Wake
  <2> QED BY <1>1, <1>11, <2>1, ClientMoves DEF PhoneSilent, PcType
<1>12. CASE LookCannotPersist(c)
  <2>1. \A d \in woken' : d \in Clients /\ pc[d] = "sleeping"
    BY <1>1, <1>12 DEF LookCannotPersist, FailForGood, GoOffline, Wake
  <2> QED BY <1>1, <1>12, <2>1, ClientMoves DEF LookCannotPersist, PcType, Leave
<1>13. CASE ArmDecide(c)
  <2>1. CASE Refuse(c)
    BY <1>1, <1>13, <2>1, ClientMoves DEF ArmDecide, Refuse, PcType
  <2>2. CASE Grant(c)
    <3>1. \A d \in woken' : d \in Clients /\ pc[d] = "sleeping"
      BY <2>2 DEF Grant, Wake
    <3>2. CASE Goto(c, "idle") /\ UNCHANGED held
      BY <1>1, <1>13, <3>1, <3>2, ClientMoves DEF ArmDecide, PcType
    <3>3. CASE Goto(c, "armed") /\ held' = [held EXCEPT ![c] = NewLease(c)]
      <4>1. NewLease(c) \in Leases /\ NewLease(c) # NoLease
        BY NewLeaseFacts
      <4>2. pc' \in [Clients -> PcType] /\ held' \in [Clients -> Leases]
        BY <1>1, <3>3, <4>1 DEF Goto, ClientsOK, PcType
      <4>3. \A d \in Clients : held'[d] # NoLease <=> pc'[d] \in {"armed", "waiting", "sleeping"}
        BY <1>1, <3>3, <4>1 DEF Goto, ClientsOK
      <4>4. woken' \subseteq {d \in Clients : pc'[d] = "sleeping"}
        BY <1>1, <1>13, <3>1, <3>3 DEF ArmDecide, Goto, ClientsOK
      <4> QED BY <4>2, <4>3, <4>4 DEF ClientsOK
    <3> QED BY <2>2, <3>2, <3>3 DEF Grant
  <2> QED BY <1>13, <2>1, <2>2 DEF ArmDecide
<1> QED BY <1>2, <1>3, <1>4, <1>5, <1>6, <1>7, <1>8, <1>9, <1>10, <1>11, <1>12, <1>13 DEF Client

\* A client holds a lease that was given.
HeldOK == \A c \in Clients : held[c] # NoLease => held[c].id \in 1..leases

LEMMA LeaveBroker ==
    ASSUME TypeOK, HeldOK, NEW c \in Clients, pc[c] \in {"armed", "waiting", "sleeping"}, Leave(c),
           UNCHANGED <<clock, online, terminal, request, leases, cut>>
    PROVE  BrokerOK'
<1>1. BrokerOK /\ held[c] # NoLease
  BY TypeParts DEF ClientsOK
<1>2. held[c].id \in 1..leases
  BY <1>1 DEF HeldOK
<1>3. deletes' \subseteq 1..leases
  BY <1>1, <1>2 DEF Leave, BrokerOK
<1> QED BY <1>1, <1>3 DEF BrokerOK

LEMMA ClientBroker ==
    ASSUME TypeOK, HeldOK, NEW c \in Clients, Client(c)
    PROVE  BrokerOK'
<1>1. BrokerOK /\ ClientsOK
  BY TypeParts
<1>2. CASE ArmBegin(c) \/ PhoneAnswers(c) \/ LookSleeps(c) \/ WakeUp(c) \/ WaitTimesOut(c)
  <2>1. UNCHANGED <<clock, online, terminal, request, leases, cut, deletes>>
    BY <1>2 DEF ArmBegin, PhoneAnswers, LookSleeps, WakeUp, WaitTimesOut
  <2> QED BY <1>1, <2>1 DEF BrokerOK
<1>3. CASE PhoneSilent(c)
  BY <1>3, HealthTypes DEF PhoneSilent
<1>4. CASE ArmDecide(c)
  <2>1. CASE Refuse(c)
    <3>1. UNCHANGED <<clock, online, terminal, request, leases, cut, deletes>>
      BY <1>4, <2>1 DEF ArmDecide, Refuse
    <3> QED BY <1>1, <3>1 DEF BrokerOK
  <2>2. CASE online /\ Grant(c)
    <3>1. ~terminal /\ UNCHANGED <<clock, online, terminal, deletes, cut>>
      BY <1>1, <1>4, <2>2 DEF ArmDecide, BrokerOK
    <3>2. request' \in Leases /\ request'.id = leases + 1 /\ leases' = leases + 1
      BY <2>2, NewLeaseFacts DEF Grant
    <3>3. leases' \in Nat /\ request'.id \in 0..leases' /\ cut' \in 0..leases' /\ deletes' \subseteq 1..leases'
      BY <1>1, <3>1, <3>2 DEF BrokerOK
    <3> QED BY <1>1, <3>1, <3>2, <3>3 DEF BrokerOK
  <2> QED BY <1>4, <2>1, <2>2 DEF ArmDecide
<1>5. CASE Wait(c) \/ LookRefused(c) \/ Abort(c)
  <2>1. UNCHANGED <<clock, online, terminal, request, leases, cut>>
    BY <1>5 DEF Wait, LookRefused, Abort
  <2>2. CASE Leave(c)
    BY <1>5, <2>1, <2>2, LeaveBroker DEF Wait, LookRefused, Abort
  <2>3. CASE UNCHANGED deletes
    BY <1>1, <2>1, <2>3 DEF BrokerOK
  <2> QED BY <1>5, <2>2, <2>3 DEF Wait, LookRefused, Abort
<1>6. CASE LookDelivers(c)
  <2>1. held[c] # NoLease /\ held[c].id \in 1..leases
    BY <1>1, <1>6 DEF LookDelivers, ClientsOK, HeldOK
  <2>2. deletes' \subseteq 1..leases
    BY <1>1, <1>6, <2>1 DEF LookDelivers, Leave, BrokerOK
  <2>3. request' = [request EXCEPT !.delivered = TRUE] /\ online
        /\ UNCHANGED <<clock, online, terminal, leases, cut>>
    BY <1>1, <1>6 DEF LookDelivers, HasCode, IsRefused
  <2>4. request' \in Leases /\ request'.id = request.id
    BY <1>1, <2>3 DEF BrokerOK, Leases
  <2> QED BY <1>1, <2>2, <2>3, <2>4 DEF BrokerOK
<1>7. CASE LookCannotPersist(c)
  <2>1. held[c] # NoLease /\ held[c].id \in 1..leases
    BY <1>1, <1>7 DEF LookCannotPersist, ClientsOK, HeldOK
  <2>2. deletes' \subseteq 1..leases
    BY <1>1, <1>7, <2>1 DEF LookCannotPersist, Leave, BrokerOK
  <2>3. request' \in Leases /\ request'.id = 0 /\ cut' = leases /\ clock' = clock /\ leases' = leases
    BY <1>7, LeaseFacts DEF LookCannotPersist, FailForGood, GoOffline
  <2>4. online' \in BOOLEAN /\ terminal' \in BOOLEAN /\ (terminal' => ~online' /\ request' = NoLease)
    BY <1>7 DEF LookCannotPersist, FailForGood, GoOffline
  <2>5. request'.id \in 0..leases' /\ cut' \in 0..leases'
    BY <1>1, <2>3 DEF BrokerOK
  <2> QED BY <1>1, <2>2, <2>3, <2>4, <2>5 DEF BrokerOK
<1> QED BY <1>2, <1>3, <1>4, <1>5, <1>6, <1>7 DEF Client

\* What a look that finds the code adds.
LEMMA AnswerFacts ==
    ASSUME TypeOK, NEW c \in Clients, HasCode(c)
    PROVE  /\ request.msg \in Msgs /\ Delivery \in Deliveries /\ Answer \in Answers
           /\ Kept \subseteq consumed
           /\ Answer.msg = request.msg /\ Answer.lease = request /\ Answer.rivals = rivals /\ Answer.cut = cut
           /\ Delivery.msg = request.msg /\ Delivery.at = clock
<1>1. request \in Leases /\ request.msg \in Msgs
  BY LeaseFacts DEF TypeOK, HasCode
<1>2. clock \in Nat /\ cut \in Nat /\ rivals \in SUBSET Msgs
  BY DEF TypeOK
<1> QED BY <1>1, <1>2 DEF Delivery, Deliveries, Answer, Answers, Kept

LEMMA ClientMessages ==
    ASSUME TypeOK, NEW c \in Clients, Client(c)
    PROVE  MessagesOK'
<1>1. MessagesOK
  BY TypeParts
<1>2. CASE \/ ArmBegin(c) \/ PhoneAnswers(c) \/ Wait(c) \/ LookRefused(c) \/ LookSleeps(c)
           \/ WakeUp(c) \/ WaitTimesOut(c) \/ Abort(c)
  <2>1. UNCHANGED <<seen, stamp, consumed, disk, lookups, rivals, handed, faults>>
    BY <1>2 DEF ArmBegin, PhoneAnswers, Wait, LookRefused, LookSleeps, WakeUp, WaitTimesOut, Abort,
                memory, phone
  <2> QED BY <1>1, <2>1 DEF MessagesOK
<1>3. CASE PhoneSilent(c)
  <2>1. UNCHANGED <<seen, stamp, consumed, disk, lookups, rivals, handed>> /\ faults' = faults + 1
    BY <1>3 DEF PhoneSilent, Fault, memory, phone
  <2> QED BY <1>1, <2>1 DEF MessagesOK
<1>4. CASE ArmDecide(c)
  <2>1. UNCHANGED <<seen, stamp, consumed, disk, lookups, handed, faults>> /\ rivals' \in {rivals, {}}
    BY <1>4 DEF ArmDecide, Grant, Refuse, memory, phone
  <2> QED BY <1>1, <2>1 DEF MessagesOK
<1>5. CASE LookDelivers(c)
  <2>1. UNCHANGED <<seen, stamp, lookups, rivals, faults>> /\ handed' = Append(handed, Answer)
        /\ consumed' = Kept \cup {Delivery} /\ disk' = consumed'
    BY <1>5 DEF LookDelivers, phone
  <2>2. Delivery \in Deliveries /\ Answer \in Answers /\ Kept \subseteq consumed
    BY <1>5, AnswerFacts DEF LookDelivers
  <2>3. handed' \in Seq(Answers)
    BY <1>1, <2>1, <2>2 DEF MessagesOK
  <2> QED BY <1>1, <2>1, <2>2, <2>3 DEF MessagesOK
<1>6. CASE LookCannotPersist(c)
  <2>1. UNCHANGED <<seen, stamp, lookups, rivals, handed, consumed>> /\ faults' = faults + 1
        /\ disk' \in {disk, Kept \cup {Delivery}}
    BY <1>6 DEF LookCannotPersist, phone, Fault
  <2>2. Delivery \in Deliveries /\ Kept \subseteq consumed
    BY <1>6, AnswerFacts DEF LookCannotPersist
  <2> QED BY <1>1, <2>1, <2>2 DEF MessagesOK
<1> QED BY <1>2, <1>3, <1>4, <1>5, <1>6 DEF Client

\* What accepting a message does to the lease.
LEMMA TakeFacts ==
    ASSUME TypeOK, NEW m \in Msgs, Take(m)
    PROVE  /\ request' \in Leases /\ request'.id = request.id /\ request'.armedAt = request.armedAt
           /\ request'.provider = request.provider /\ request'.delivered = request.delivered
           /\ request'.msg = IF request.msg = None THEN m ELSE request.msg
           /\ request'.ambiguous = IF request.msg = None THEN request.ambiguous ELSE TRUE
<1>1. request \in Leases /\ m # None
  BY OtpAssumption DEF TypeOK
<1>2. CASE request.msg = None
  <2>1. request' = [request EXCEPT !.msg = m]
    BY <1>2 DEF Take
  <2> QED BY <1>1, <1>2, <2>1 DEF Leases
<1>3. CASE request.msg # None
  <2>1. request' = [request EXCEPT !.ambiguous = TRUE]
    BY <1>3 DEF Take
  <2> QED BY <1>1, <1>3, <2>1 DEF Leases
<1> QED BY <1>2, <1>3

\* What accept may do: nothing, remember the message, take it, or fail.
LEMMA AcceptCases ==
    ASSUME TypeOK, NEW m \in Msgs, Accept(m)
    PROVE  /\ UNCHANGED <<clock, consumed, disk, stamp, pc, held, deletes, leases, faults, handed>>
           /\ seen' \in [Msgs -> Nat \cup {Never}]
           /\ \/ UNCHANGED <<online, terminal, request, woken, rivals, cut>>
              \/ FailForGood /\ UNCHANGED rivals
              \/ /\ ~IsIgnored(m) /\ Qualifies(m) /\ Take(m)
                 /\ UNCHANGED <<online, terminal, cut>>
<1>1. seen \in [Msgs -> Nat \cup {Never}] /\ clock \in Nat
  BY DEF TypeOK
<1>2. Remembered \in [Msgs -> Nat \cup {Never}]
  BY <1>1 DEF Remembered
<1>3. seen' \in [Msgs -> Nat \cup {Never}]
  BY <1>1, <1>2 DEF Accept
<1> QED BY <1>3 DEF Accept

LEMMA AcceptTypes ==
    ASSUME TypeOK, NEW m \in Msgs, Accept(m), lookups' \subseteq Msgs
    PROVE  TypeOK'
<1>1. /\ UNCHANGED <<clock, consumed, disk, stamp, pc, held, deletes, leases, faults, handed>>
      /\ seen' \in [Msgs -> Nat \cup {Never}]
  BY AcceptCases
<1>2. ClientsOK /\ BrokerOK /\ MessagesOK
  BY TypeParts
<1>3. Wake \/ UNCHANGED woken
  BY AcceptCases DEF FailForGood, GoOffline, Take
<1>4. ClientsOK'
  BY <1>1, <1>3, WakeTypes
<1>5. MessagesOK'
  <2>1. rivals' \subseteq rivals \cup {m}
    BY AcceptCases DEF Take
  <2> QED BY <1>1, <1>2, <2>1 DEF MessagesOK
<1>6. BrokerOK'
  <2>1. CASE UNCHANGED <<online, terminal, request, cut>>
    BY <1>1, <1>2, <2>1 DEF BrokerOK
  <2>2. CASE FailForGood
    BY <1>1, <2>2, FatalTypes
  <2>3. CASE Qualifies(m) /\ Take(m) /\ UNCHANGED <<online, terminal, cut>>
    <3>1. request' \in Leases /\ request'.id = request.id /\ online
      BY <2>3, TakeFacts DEF Qualifies
    <3> QED BY <1>1, <1>2, <2>3, <3>1 DEF BrokerOK
  <2> QED BY <2>1, <2>2, <2>3, AcceptCases
<1> QED BY <1>4, <1>5, <1>6, TypesNext

LEMMA MessageTypes ==
    ASSUME TypeOK, NEW m \in Msgs, Message(m)
    PROVE  TypeOK'
<1>1. ClientsOK /\ BrokerOK /\ MessagesOK
  BY TypeParts
<1>2. CASE ArriveWithSender(m) \/ LookupEnds(m)
  <2>1. Accept(m) /\ lookups' \subseteq Msgs
    BY <1>1, <1>2 DEF ArriveWithSender, LookupEnds, MessagesOK
  <2> QED BY <2>1, AcceptTypes
<1>3. CASE Sms(m)
  <2>1. PICK t \in clock..(clock + Skew) : stamp' = [stamp EXCEPT ![m] = t]
    BY <1>3 DEF Sms
  <2>2. stamp' \in [Msgs -> Nat \cup {Never}]
    BY <1>1, <2>1, OtpAssumption DEF MessagesOK, BrokerOK
  <2>3. UNCHANGED <<clock, online, terminal, request, seen, consumed, disk, lookups, pc, held, woken,
                    deletes, leases, faults, rivals, cut, handed>>
    BY <1>3 DEF Sms, memory
  <2> QED BY <1>1, <2>2, <2>3, TypesNext DEF ClientsOK, BrokerOK, MessagesOK
<1>4. CASE ArriveWithoutSender(m)
  <2>1. UNCHANGED <<clock, seen, consumed, disk, stamp, pc, held, deletes, leases, faults, rivals, handed>>
        /\ lookups' \subseteq Msgs
    BY <1>1, <1>4 DEF ArriveWithoutSender, memory, MessagesOK
  <2>2. SetHealth(FALSE, TRUE) \/ UNCHANGED <<online, terminal, request, woken, cut>>
    BY <1>4 DEF ArriveWithoutSender
  <2>3. Wake \/ UNCHANGED woken
    BY <2>2 DEF SetHealth, GoOffline
  <2>4. BrokerOK'
    <3>1. CASE SetHealth(FALSE, TRUE)
      BY <2>1, <3>1, HealthTypes
    <3>2. CASE UNCHANGED <<online, terminal, request, woken, cut>>
      BY <1>1, <2>1, <3>2 DEF BrokerOK
    <3> QED BY <2>2, <3>1, <3>2
  <2>5. ClientsOK' /\ MessagesOK'
    BY <1>1, <2>1, <2>3, WakeTypes DEF MessagesOK
  <2> QED BY <2>4, <2>5, TypesNext
<1>5. CASE LookupFails(m)
  <2>1. UNCHANGED <<clock, online, terminal, request, seen, consumed, disk, stamp, pc, held, woken,
                    deletes, leases, faults, rivals, cut, handed>> /\ lookups' \subseteq Msgs
    BY <1>1, <1>5 DEF LookupFails, memory, MessagesOK
  <2> QED BY <1>1, <2>1, TypesNext DEF ClientsOK, BrokerOK, MessagesOK
<1> QED BY <1>2, <1>3, <1>4, <1>5 DEF Message

LEMMA BrokerTypes ==
    ASSUME TypeOK,
           \/ \E id \in deletes : Delete(id) \/ LoseDelete(id)
           \/ PhoneConnects \/ (\E isFatal \in BOOLEAN : PhoneDisconnects(isFatal)) \/ Restart
           \/ Tick \/ UNCHANGED vars
    PROVE  TypeOK'
<1>1. ClientsOK /\ BrokerOK /\ MessagesOK
  BY TypeParts
<1>2. ASSUME NEW id \in deletes, Delete(id) \/ LoseDelete(id) PROVE TypeOK'
  <2>1. UNCHANGED <<clock, online, terminal, seen, consumed, disk, stamp, lookups, pc, held, leases,
                    faults, rivals, cut, handed>> /\ deletes' \subseteq deletes
    BY <1>2 DEF Delete, LoseDelete, memory, phone
  <2>2. (Wake \/ UNCHANGED woken) /\ request' \in {request, NoLease}
    BY <1>2 DEF Delete, LoseDelete
  <2>3. BrokerOK'
    BY <1>1, <2>1, <2>2, LeaseFacts DEF BrokerOK
  <2> QED BY <1>1, <2>1, <2>2, <2>3, WakeTypes, TypesNext DEF MessagesOK
<1>3. CASE PhoneConnects \/ \E isFatal \in BOOLEAN : PhoneDisconnects(isFatal)
  <2>1. UNCHANGED <<clock, seen, consumed, disk, stamp, lookups, pc, held, deletes, leases, rivals, handed>>
        /\ faults' \in {faults, faults + 1}
    BY <1>3 DEF PhoneConnects, PhoneDisconnects, Fault, memory, phone
  <2>2. \E isOnline, isFatal \in BOOLEAN : (isOnline => ~isFatal) /\ SetHealth(isOnline, isFatal)
    BY <1>3 DEF PhoneConnects, PhoneDisconnects
  <2>3. Wake \/ UNCHANGED woken
    BY <2>2 DEF SetHealth, GoOffline
  <2>4. BrokerOK'
    BY <2>1, <2>2, HealthTypes
  <2>5. ClientsOK' /\ MessagesOK'
    BY <1>1, <2>1, <2>3, WakeTypes DEF MessagesOK
  <2> QED BY <2>4, <2>5, TypesNext
<1>4. CASE Restart
  <2>1. ClientsOK'
    <3>1. pc' \in [Clients -> PcType] /\ held' \in [Clients -> Leases] /\ woken' = {}
      BY <1>1, <1>4, LeaseFacts DEF Restart, ClientsOK, PcType
    <3>2. \A c \in Clients : held'[c] # NoLease <=> pc'[c] \in {"armed", "waiting", "sleeping"}
      BY <1>1, <1>4 DEF Restart, ClientsOK
    <3> QED BY <3>1, <3>2 DEF ClientsOK
  <2>2. BrokerOK'
    <3>1. online' \in BOOLEAN /\ terminal' \in BOOLEAN /\ ~terminal'
      BY <1>4 DEF Restart
    <3>2. request' \in Leases /\ request'.id = 0 /\ cut' = leases /\ deletes' = {}
          /\ leases' = leases /\ clock' = clock
      BY <1>4, LeaseFacts DEF Restart
    <3> QED BY <1>1, <3>1, <3>2 DEF BrokerOK
  <2>3. MessagesOK'
    <3>1. seen' \in [Msgs -> Nat \cup {Never}] /\ faults' = faults + 1
      BY <1>4 DEF Restart, Fault
    <3>2. consumed' = disk /\ lookups' = {} /\ UNCHANGED <<disk, stamp, rivals, handed>>
      BY <1>4 DEF Restart
    <3> QED BY <1>1, <3>1, <3>2 DEF MessagesOK
  <2> QED BY <2>1, <2>2, <2>3, TypesNext
<1>5. CASE Tick
  <2>1. clock' = clock + 1 /\ UNCHANGED <<online, terminal, request, seen, consumed, disk, stamp, lookups,
            pc, held, woken, deletes, leases, faults, rivals, cut, handed>>
    BY <1>5 DEF Tick, memory, phone
  <2> QED BY <1>1, <2>1, TypesNext DEF ClientsOK, BrokerOK, MessagesOK
<1>6. CASE UNCHANGED vars
  BY <1>1, <1>6, TypesNext DEF vars, memory, phone, ClientsOK, BrokerOK, MessagesOK
<1> QED BY <1>2, <1>3, <1>4, <1>5, <1>6

LEMMA TypeStep ==
    ASSUME TypeOK, HeldOK, [Next]_vars
    PROVE  TypeOK'
BY ClientClients, ClientBroker, ClientMessages, MessageTypes, BrokerTypes, TypesNext DEF Next

-----------------------------------------------------------------------------
(* The invariant. *)

\* The lease: younger than the last disconnect, and its message qualified for it.
LeaseOK ==
    /\ request # NoLease => cut < request.id
    /\ request.msg # None =>
          /\ request.provider = ProviderOf[request.msg]
          /\ stamp[request.msg] >= request.armedAt /\ stamp[request.msg] <= clock + Skew
    /\ request # NoLease =>
          IF request.msg = None THEN rivals = {} /\ ~request.ambiguous
          ELSE request.ambiguous \/ rivals = {request.msg}

\* The holders: nobody else has their lease, and no deletion of it is under way.
HolderOK ==
    /\ HeldOK
    /\ \A c, d \in Clients : held[c] # NoLease /\ held[c].id = held[d].id => c = d
    /\ \A c \in Clients : held[c].id \notin deletes
    /\ \A c \in Clients : held[c] # NoLease /\ held[c].id = request.id => held[c].armedAt = request.armedAt
    /\ HoldersReserve

\* A delivered message is on record, or too old for any lease there may ever be.
OnRecord(S, m) ==
    (\E e \in S : e.msg = m /\ stamp[m] <= e.at + Skew) \/ clock >= stamp[m] + LeaseTime

IsClear(h) ==
    /\ h.rivals = {h.msg} /\ ProviderOf[h.msg] = h.lease.provider
    /\ stamp[h.msg] >= h.lease.armedAt
    /\ h.cut < h.lease.id

AnswerOK(h) ==
    /\ IsClear(h)
    /\ h.lease.id \in 1..leases
    /\ OnRecord(consumed, h.msg) /\ OnRecord(disk, h.msg)
    /\ h.lease.id = request.id => request.delivered
    /\ h.msg = request.msg => request.delivered

HandedOK == (\A i \in DOMAIN handed : AnswerOK(handed[i])) /\ CodeAnsweredOnce

OtpInv == TypeOK /\ LeaseOK /\ HolderOK /\ HandedOK /\ SleepersMissNothing

LEMMA InitInv == Init => OtpInv
<1> SUFFICES ASSUME Init PROVE OtpInv
  OBVIOUS
<1>1. TypeOK
  BY InitTypes
<1>2. LeaseOK /\ HolderOK
  BY LeaseFacts DEF Init, LeaseOK, HolderOK, HeldOK, HoldersReserve
<1>3. HandedOK
  BY DEF Init, HandedOK, CodeAnsweredOnce
<1>4. SleepersMissNothing
  BY DEF Init, SleepersMissNothing
<1> QED BY <1>1, <1>2, <1>3, <1>4 DEF OtpInv

-----------------------------------------------------------------------------
(* How the parts move. *)

\* The lease is dropped, or nothing about it changes but the time.
LEMMA LeaseStays ==
    ASSUME TypeOK, LeaseOK, clock' \in Nat, clock' >= clock,
           \/ request' = NoLease
           \/ UNCHANGED <<request, cut, rivals>> /\ \A m \in Msgs : stamp[m] # Never => stamp'[m] = stamp[m]
    PROVE  LeaseOK'
<1>1. CASE request' = NoLease
  BY <1>1, LeaseFacts DEF LeaseOK
<1>2. CASE /\ UNCHANGED <<request, cut, rivals>>
           /\ \A m \in Msgs : stamp[m] # Never => stamp'[m] = stamp[m]
  <2>1. request.msg # None =>
            /\ request.msg \in Msgs /\ stamp[request.msg] \in Int /\ request.armedAt \in Nat
            /\ stamp[request.msg] # Never
    BY LeaseFacts DEF TypeOK, LeaseOK, Never
  <2>2. request.msg # None => stamp'[request.msg] = stamp[request.msg]
    BY <1>2, <2>1
  <2>3. request.msg # None => stamp[request.msg] <= clock' + Skew
    BY <2>1, OtpAssumption DEF LeaseOK, TypeOK
  <2> QED BY <1>2, <2>2, <2>3 DEF LeaseOK
<1> QED BY <1>1, <1>2

\* Holders leave, the lease is kept or cut off.
LEMMA HolderMoves ==
    ASSUME TypeOK, HolderOK, clock' \in Nat, clock' >= clock, leases' = leases,
           \A c \in Clients : held'[c] \in {held[c], NoLease} /\ held'[c].id \notin deletes',
           \/ request'.id = request.id /\ request'.armedAt = request.armedAt /\ cut' = cut
           \/ request' = NoLease /\ cut' = leases
    PROVE  HolderOK'
<1>1. \A c \in Clients : held[c] \in Leases /\ held[c].id \in Nat /\ held[c].armedAt \in Nat
  BY LeaseFacts DEF TypeOK
<1>2. HeldOK'
  BY DEF HolderOK, HeldOK
<1>3. \A c, d \in Clients : held'[c] # NoLease /\ held'[c].id = held'[d].id => c = d
  <2> SUFFICES ASSUME NEW c \in Clients, NEW d \in Clients, held'[c] # NoLease, held'[c].id = held'[d].id
               PROVE  c = d
    OBVIOUS
  <2>1. held'[c] = held[c] /\ held[c].id # 0
    BY DEF HolderOK, HeldOK
  <2>2. held'[d] = held[d]
    BY <2>1, LeaseFacts
  <2> QED BY <2>1, <2>2 DEF HolderOK
<1>4. \A c \in Clients : held'[c] # NoLease /\ held'[c].id = request'.id => held'[c].armedAt = request'.armedAt
  BY LeaseFacts DEF HolderOK, HeldOK
<1>5. HoldersReserve'
  <2> SUFFICES ASSUME NEW c \in Clients, held'[c].id > cut', clock' < held'[c].armedAt + LeaseTime
               PROVE  request'.id = held'[c].id
    BY DEF HoldersReserve
  <2>1. held'[c] = held[c]
    BY LeaseFacts DEF TypeOK
  <2>2. held[c] # NoLease
    BY <2>1, LeaseFacts DEF TypeOK
  <2>3. cut' = cut /\ request'.id = request.id
    BY <2>1, <2>2 DEF HolderOK, HeldOK, TypeOK
  <2>4. clock < held[c].armedAt + LeaseTime
    BY <1>1, <2>1, OtpAssumption DEF TypeOK
  <2> QED BY <2>1, <2>3, <2>4 DEF HolderOK, HoldersReserve
<1> QED BY <1>2, <1>3, <1>4, <1>5 DEF HolderOK

\* Nobody falls asleep, and what the sleepers would see stays.
LEMMA SleepersStay ==
    ASSUME TypeOK, HolderOK, SleepersMissNothing, clock' \in Nat, clock' >= clock,
           UNCHANGED <<online, request>>,
           \A c \in Clients : pc'[c] = "sleeping" /\ c \notin woken' =>
               pc[c] = "sleeping" /\ c \notin woken /\ held'[c] = held[c]
    PROVE  SleepersMissNothing'
<1> SUFFICES ASSUME NEW c \in Clients, pc'[c] = "sleeping", c \notin woken', IsLive(held[c])'
             PROVE  ~IsRefused(c)' /\ request.msg = None
  BY DEF SleepersMissNothing
<1>1. pc[c] = "sleeping" /\ c \notin woken /\ held'[c] = held[c]
  OBVIOUS
<1>2. held[c] \in Leases /\ held[c].armedAt \in Nat /\ held[c] # NoLease
  BY <1>1, LeaseFacts DEF TypeOK
<1>3. clock' < held[c].armedAt + LeaseTime /\ IsLive(held[c])
  BY <1>1, <1>2, OtpAssumption DEF IsLive, TypeOK
<1>4. ~IsRefused(c) /\ request.msg = None
  BY <1>1, <1>3 DEF SleepersMissNothing
<1>5. request.id = held[c].id /\ request.armedAt = held[c].armedAt
  BY <1>2, <1>4 DEF IsRefused, HolderOK
<1> QED BY <1>1, <1>3, <1>4, <1>5 DEF IsRefused, IsLive

\* Everybody who sleeps is told.
LEMMA SleepersWake ==
    ASSUME TypeOK, Wake, \A c \in Clients : pc'[c] = "sleeping" => pc[c] = "sleeping"
    PROVE  SleepersMissNothing'
BY DEF Wake, SleepersMissNothing

\* What is on record stays on record when older deliveries are forgotten.
LEMMA RecordKept ==
    ASSUME TypeOK, NEW m \in Msgs, stamp[m] \in Nat, OnRecord(consumed, m),
           NEW S, Kept \subseteq S
    PROVE  OnRecord(S, m)
<1>1. CASE clock >= stamp[m] + LeaseTime
  BY <1>1 DEF OnRecord
<1>2. ASSUME NEW e \in consumed, e.msg = m, stamp[m] <= e.at + Skew
      PROVE  OnRecord(S, m)
  <2>1. e.at \in Nat /\ clock \in Nat
    BY DEF TypeOK, Deliveries
  <2>2. CASE clock - e.at < ConsumedTime
    BY <1>2, <2>2 DEF Kept, OnRecord
  <2>3. CASE ~(clock - e.at < ConsumedTime)
    <3>1. clock >= stamp[m] + LeaseTime
      BY <1>2, <2>1, <2>3, OtpAssumption
    <3> QED BY <3>1 DEF OnRecord
  <2> QED BY <2>2, <2>3
<1> QED BY <1>1, <1>2 DEF OnRecord

\* No new answer.
LEMMA HandedStays ==
    ASSUME TypeOK, HandedOK, clock' \in Nat, clock' >= clock, UNCHANGED handed,
           leases' \in Nat, leases' >= leases,
           \A m \in Msgs : stamp[m] # Never => stamp'[m] = stamp[m],
           consumed' \in {consumed, disk}, disk' = disk \/ Kept \subseteq disk',
           \/ request' = NoLease \/ UNCHANGED request
           \/ request'.id > leases /\ request'.msg = None
    PROVE  HandedOK'
<1>1. ASSUME NEW i \in DOMAIN handed PROVE AnswerOK(handed[i])'
  <2> DEFINE h == handed[i]
  <2>1. h \in Answers /\ h.msg \in Msgs /\ h.lease \in Leases /\ h.lease.armedAt \in Nat
    <3>1. handed \in Seq(Answers)
      BY DEF TypeOK
    <3>2. h \in Answers
      BY <3>1
    <3> QED BY <3>2, LeaseFacts DEF Answers
  <2>2. AnswerOK(h)
    BY DEF HandedOK
  <2> HIDE DEF h
  <2>3. stamp[h.msg] \in Nat /\ stamp'[h.msg] = stamp[h.msg]
    BY <2>1, <2>2 DEF TypeOK, AnswerOK, IsClear, Never
  <2>4. h.lease.id \in 1..leases'
    BY <2>2 DEF AnswerOK, TypeOK
  <2>5. \A S : OnRecord(S, h.msg) =>
            (\E e \in S : e.msg = h.msg /\ stamp'[h.msg] <= e.at + Skew) \/ clock' >= stamp'[h.msg] + LeaseTime
    BY <2>3, OtpAssumption DEF OnRecord, TypeOK
  <2>6. /\ OnRecord(consumed, h.msg) /\ OnRecord(disk, h.msg) /\ OnRecord(consumed', h.msg)
        /\ OnRecord(disk', h.msg)
    BY <2>1, <2>2, <2>3, RecordKept DEF AnswerOK
  <2>7. h.lease.id = request'.id => request'.delivered
    BY <2>2, LeaseFacts DEF AnswerOK, TypeOK
  <2>8. h.msg = request'.msg => request'.delivered
    BY <2>1, <2>2, LeaseFacts, OtpAssumption DEF AnswerOK
  <2>9. IsClear(h)'
    BY <2>2, <2>3 DEF AnswerOK, IsClear, h
  <2>10. OnRecord(consumed, h.msg)' /\ OnRecord(disk, h.msg)'
    BY <2>5, <2>6 DEF OnRecord, h
  <2> QED BY <2>4, <2>7, <2>8, <2>9, <2>10 DEF AnswerOK, h
<1>2. CodeAnsweredOnce'
  BY DEF HandedOK, CodeAnsweredOnce
<1> QED BY <1>1, <1>2 DEF HandedOK

-----------------------------------------------------------------------------
(* The steps. *)

\* Steps of a client that leave the lease, the time and what was handed over alone.
LEMMA QuietSteps ==
    ASSUME OtpInv, NEW c \in Clients,
           \/ ArmBegin(c) \/ PhoneAnswers(c) \/ Wait(c) \/ LookRefused(c) \/ LookSleeps(c)
           \/ WakeUp(c) \/ WaitTimesOut(c) \/ Abort(c)
    PROVE  LeaseOK' /\ HolderOK' /\ HandedOK' /\ SleepersMissNothing'
<1>1. TypeOK /\ LeaseOK /\ HolderOK /\ HandedOK /\ SleepersMissNothing /\ clock \in Nat /\ leases \in Nat
  BY DEF OtpInv, TypeOK
<1>2. UNCHANGED <<clock, online, request, stamp, rivals, cut, leases, handed, consumed, disk>>
  BY DEF ArmBegin, PhoneAnswers, Wait, LookRefused, LookSleeps, WakeUp, WaitTimesOut, Abort, memory, phone
<1>3. LeaseOK' /\ HandedOK'
  BY <1>1, <1>2, LeaseStays, HandedStays
<1>4. \A d \in Clients : held'[d] \in {held[d], NoLease} /\ held'[d].id \notin deletes'
  <2>1. CASE Leave(c) /\ (Wait(c) \/ LookRefused(c) \/ Abort(c))
    <3>1. held' = [held EXCEPT ![c] = NoLease] /\ deletes' = deletes \cup {held[c].id}
      BY <2>1 DEF Leave
    <3>2. pc[c] \in {"armed", "waiting", "sleeping"}
      BY <2>1 DEF Wait, LookRefused, Abort
    <3>3. held[c] # NoLease /\ held \in [Clients -> Leases]
      BY <1>1, <3>2 DEF TypeOK
    <3>4. held[c].id # 0 /\ 0 \notin deletes
      BY <1>1, <3>3 DEF HolderOK, HeldOK, TypeOK
    <3>5. held'[c] = NoLease /\ held'[c].id \notin deletes'
      BY <3>1, <3>3, <3>4, LeaseFacts
    <3>6. \A d \in Clients : d # c => held'[d] = held[d] /\ held[d].id # held[c].id
      BY <1>1, <3>1, <3>3 DEF HolderOK
    <3> QED BY <1>1, <3>1, <3>5, <3>6 DEF HolderOK
  <2>2. CASE UNCHANGED <<held, deletes>>
    BY <1>1, <2>2 DEF HolderOK
  <2> QED BY <2>1, <2>2 DEF ArmBegin, PhoneAnswers, Wait, LookRefused, LookSleeps, WakeUp,
                            WaitTimesOut, Abort
<1>5. HolderOK'
  BY <1>1, <1>2, <1>4, HolderMoves
<1>6. ASSUME LookSleeps(c) PROVE SleepersMissNothing'
  <2> SUFFICES ASSUME NEW d \in Clients, pc'[d] = "sleeping", d \notin woken', IsLive(held[d])'
               PROVE  ~IsRefused(d)' /\ request'.msg = None
    BY DEF SleepersMissNothing
  <2>1. held' = held /\ ~IsRefused(c) /\ request.msg = None
    BY <1>6 DEF LookSleeps
  <2>2. d # c => pc[d] = "sleeping" /\ d \notin woken
    BY <1>1, <1>6 DEF LookSleeps, Goto, TypeOK
  <2>3. IsLive(held[d])
    BY <1>2, <2>1 DEF IsLive
  <2>4. ~IsRefused(d)
    BY <1>1, <2>1, <2>2, <2>3 DEF SleepersMissNothing
  <2> QED BY <1>2, <2>1, <2>4 DEF IsRefused, IsLive
<1>7. ASSUME ~LookSleeps(c) PROVE SleepersMissNothing'
  <2>1. \A d \in Clients : pc'[d] = "sleeping" /\ d \notin woken' =>
            pc[d] = "sleeping" /\ d \notin woken /\ held'[d] = held[d]
    <3>1. \E label \in PcType \ {"sleeping"} : pc' = [pc EXCEPT ![c] = label]
      BY <1>7 DEF ArmBegin, PhoneAnswers, Wait, LookRefused, WakeUp, WaitTimesOut, Abort, Leave, Goto, PcType
    <3>2. woken' = woken \/ woken' = woken \ {c}
      BY <1>7 DEF ArmBegin, PhoneAnswers, Wait, LookRefused, WakeUp, WaitTimesOut, Abort
    <3>3. held' = held \/ held' = [held EXCEPT ![c] = NoLease]
      BY <1>7 DEF ArmBegin, PhoneAnswers, Wait, LookRefused, WakeUp, WaitTimesOut, Abort, Leave
    <3> QED BY <1>1, <3>1, <3>2, <3>3 DEF TypeOK
  <2> QED BY <1>1, <1>2, <2>1, SleepersStay
<1> QED BY <1>3, <1>5, <1>6, <1>7

\* The receiver goes offline; a client may leave at the same time.
LEMMA OfflineSteps ==
    ASSUME OtpInv, GoOffline, UNCHANGED <<clock, stamp, leases, handed>>,
           consumed' = consumed, disk' = disk \/ Kept \subseteq disk',
           \A d \in Clients : /\ held'[d] \in {held[d], NoLease} /\ held'[d].id \notin deletes'
                              /\ pc'[d] = "sleeping" => pc[d] = "sleeping"
    PROVE  LeaseOK' /\ HolderOK' /\ HandedOK' /\ SleepersMissNothing'
<1>1. TypeOK /\ LeaseOK /\ HolderOK /\ HandedOK /\ clock \in Nat /\ leases \in Nat
  BY DEF OtpInv, TypeOK
<1>2. request' = NoLease /\ cut' = leases /\ Wake
  BY DEF GoOffline
<1>3. LeaseOK'
  BY <1>1, <1>2, LeaseStays
<1>4. HandedOK'
  BY <1>1, <1>2, HandedStays
<1>5. HolderOK'
  BY <1>1, <1>2, HolderMoves
<1>6. SleepersMissNothing'
  BY <1>1, <1>2, SleepersWake
<1> QED BY <1>3, <1>4, <1>5, <1>6

\* A new lease, when there is none that lives.
LEMMA GrantSteps ==
    ASSUME OtpInv, NEW c \in Clients, ArmDecide(c)
    PROVE  LeaseOK' /\ HolderOK' /\ HandedOK' /\ SleepersMissNothing'
<1>1. TypeOK /\ LeaseOK /\ HolderOK /\ HandedOK /\ SleepersMissNothing /\ clock \in Nat /\ leases \in Nat
      /\ cut \in 0..leases
  BY DEF OtpInv, TypeOK
<1>2. UNCHANGED <<clock, online, stamp, handed, consumed, disk, cut, deletes>>
  BY DEF ArmDecide, memory, phone
<1>3. CASE Refuse(c)
  <2>1. UNCHANGED <<request, rivals, leases, held, woken>> /\ pc' = [pc EXCEPT ![c] = "idle"]
    BY <1>3 DEF Refuse, Goto
  <2>2. LeaseOK' /\ HandedOK'
    BY <1>1, <1>2, <2>1, LeaseStays, HandedStays
  <2>3. HolderOK'
    BY <1>1, <1>2, <2>1, HolderMoves DEF HolderOK
  <2>4. SleepersMissNothing'
    BY <1>1, <1>2, <2>1, SleepersStay DEF TypeOK
  <2> QED BY <2>2, <2>3, <2>4
<1>4. CASE Grant(c) /\ ~IsLive(request)
  <2> DEFINE r == NewLease(c)
  <2>1. /\ r \in Leases /\ r # NoLease /\ r.id = leases + 1 /\ r.armedAt = clock /\ r.msg = None
        /\ ~r.delivered /\ ~r.ambiguous
    BY <1>1, NewLeaseFacts
  <2>2. /\ request' = r /\ leases' = leases + 1 /\ rivals' = {} /\ Wake
        /\ pc'[c] \in {"armed", "idle"} /\ held'[c] \in {held[c], r}
        /\ \A d \in Clients : d # c => pc'[d] = pc[d] /\ held'[d] = held[d]
    BY <1>1, <1>4 DEF Grant, Goto, TypeOK
  <2> HIDE DEF r
  <2>3. pc[c] = "deciding" /\ held[c] = NoLease
    BY <1>1 DEF ArmDecide, TypeOK
  <2>4. LeaseOK'
    BY <1>1, <1>2, <2>1, <2>2 DEF LeaseOK
  <2>5. HandedOK'
    BY <1>1, <1>2, <2>1, <2>2, HandedStays
  <2>6. SleepersMissNothing'
    BY <1>1, <2>2, SleepersWake
  <2>7. HolderOK'
    <3>1. \A d \in Clients : held[d] \in Leases /\ (held[d] # NoLease => held[d].id \in 1..leases)
      BY <1>1 DEF TypeOK, HolderOK, HeldOK
    <3>2. \A d \in Clients : held'[d] = held[d] \/ (d = c /\ held'[d] = r)
      BY <2>2
    <3>3. HeldOK'
      BY <1>1, <2>1, <2>2, <3>1, <3>2 DEF HeldOK
    <3>4. \A d, e \in Clients : held'[d] # NoLease /\ held'[d].id = held'[e].id => d = e
      BY <1>1, <2>1, <3>1, <3>2, LeaseFacts DEF HolderOK
    <3>5. \A d \in Clients : held'[d].id \notin deletes'
      BY <1>1, <1>2, <2>1, <3>2 DEF HolderOK, TypeOK
    <3>6. \A d \in Clients : held'[d] # NoLease /\ held'[d].id = request'.id => held'[d].armedAt = request'.armedAt
      BY <1>1, <2>1, <2>2, <3>1, <3>2
    <3>7. HoldersReserve'
      <4> SUFFICES ASSUME NEW d \in Clients, held'[d].id > cut', clock' < held'[d].armedAt + LeaseTime
                   PROVE  request'.id = held'[d].id
        BY DEF HoldersReserve
      <4>1. CASE held'[d] = r
        <5>1. request' = r
          BY <2>2
        <5> QED BY <4>1, <5>1
      <4>2. CASE held'[d] = held[d]
        <5>1. held[d].id > cut /\ clock < held[d].armedAt + LeaseTime /\ held[d].id \in Nat
          BY <1>2, <3>1, <4>2, LeaseFacts
        <5>2. request.id = held[d].id /\ held[d].id # 0
          BY <1>1, <5>1 DEF HolderOK, HoldersReserve
        <5>3. held[d] # NoLease /\ request # NoLease
          BY <5>2, LeaseFacts
        <5>4. request.armedAt = held[d].armedAt
          BY <1>1, <5>3, <5>2 DEF HolderOK
        <5> QED BY <1>4, <5>1, <5>3, <5>4 DEF IsLive
      <4> QED BY <3>2, <4>1, <4>2
    <3> QED BY <3>3, <3>4, <3>5, <3>6, <3>7 DEF HolderOK
  <2> QED BY <2>4, <2>5, <2>6, <2>7
<1> QED BY <1>3, <1>4 DEF ArmDecide

\* A look that finds the code: the answer is clear, and new.
LEMMA DeliverSteps ==
    ASSUME OtpInv, NEW c \in Clients, LookDelivers(c)
    PROVE  LeaseOK' /\ HolderOK' /\ HandedOK' /\ SleepersMissNothing'
<1>1. /\ TypeOK /\ LeaseOK /\ HolderOK /\ HandedOK /\ SleepersMissNothing /\ clock \in Nat /\ leases \in Nat
      /\ request \in Leases /\ stamp \in [Msgs -> Nat \cup {Never}] /\ handed \in Seq(Answers)
  BY DEF OtpInv, TypeOK
<1>2. /\ UNCHANGED <<clock, online, stamp, rivals, cut, leases, woken>>
      /\ consumed' = Kept \cup {Delivery} /\ disk' = consumed'
      /\ request' = [request EXCEPT !.delivered = TRUE] /\ handed' = Append(handed, Answer)
      /\ pc[c] = "waiting" /\ HasCode(c) /\ Leave(c)
  BY DEF LookDelivers, phone
<1>3. /\ request'.id = request.id /\ request'.armedAt = request.armedAt /\ request'.msg = request.msg
      /\ request'.provider = request.provider /\ request'.ambiguous = request.ambiguous
      /\ request'.delivered
  BY <1>1, <1>2 DEF Leases
<1>4. /\ held[c] # NoLease /\ request.id = held[c].id /\ request.id \in 1..leases /\ request # NoLease
      /\ request.msg # None /\ request.msg \in Msgs /\ ~request.delivered /\ ~request.ambiguous
  <2>1. held[c] # NoLease /\ held[c].id \in 1..leases
    BY <1>1, <1>2 DEF TypeOK, HolderOK, HeldOK
  <2> QED BY <1>1, <1>2, <2>1, LeaseFacts DEF HasCode, IsRefused
<1>5. LeaseOK'
  BY <1>1, <1>2, <1>3, <1>4 DEF LeaseOK
<1>6. HolderOK'
  <2>1. held' = [held EXCEPT ![c] = NoLease] /\ deletes' = deletes \cup {held[c].id}
    BY <1>2 DEF Leave
  <2>2. held \in [Clients -> Leases] /\ 0 \notin deletes
    BY <1>1 DEF TypeOK
  <2>3. held'[c] = NoLease /\ held'[c].id \notin deletes'
    BY <1>4, <2>1, <2>2, LeaseFacts
  <2>4. \A d \in Clients : d # c => held'[d] = held[d] /\ held[d].id # held[c].id
    BY <1>1, <1>4, <2>1, <2>2 DEF HolderOK
  <2>5. \A d \in Clients : held'[d] \in {held[d], NoLease} /\ held'[d].id \notin deletes'
    BY <1>1, <2>1, <2>3, <2>4 DEF HolderOK
  <2> QED BY <1>1, <1>2, <1>3, <2>5, HolderMoves
<1>7. SleepersMissNothing'
  <2> SUFFICES ASSUME NEW d \in Clients, pc'[d] = "sleeping", d \notin woken', IsLive(held[d])'
               PROVE  FALSE
    BY DEF SleepersMissNothing
  <2>1. d # c /\ pc[d] = "sleeping" /\ d \notin woken /\ held'[d] = held[d]
    BY <1>1, <1>2 DEF Leave, Goto, TypeOK
  <2>2. IsLive(held[d])
    BY <1>2, <2>1 DEF IsLive
  <2> QED BY <1>1, <1>4, <2>1, <2>2 DEF SleepersMissNothing
<1>8. \A i \in DOMAIN handed :
          /\ AnswerOK(handed[i]) /\ handed[i].msg # request.msg /\ handed[i].lease.id # request.id
  BY <1>1, <1>4 DEF HandedOK, AnswerOK
<1>9. /\ Answer \in Answers /\ Answer.msg = request.msg /\ Answer.lease = request
      /\ Answer.rivals = rivals /\ Answer.cut = cut
      /\ Delivery.msg = request.msg /\ Delivery.at = clock
  BY <1>1, <1>2, AnswerFacts
<1>10. /\ DOMAIN handed' = DOMAIN handed \cup {Len(handed) + 1} /\ Len(handed) + 1 \notin DOMAIN handed
       /\ \A i \in DOMAIN handed : handed'[i] = handed[i]
       /\ handed'[Len(handed) + 1] = Answer
  BY <1>1, <1>2, <1>9
<1>11. CodeAnsweredOnce'
  <2> SUFFICES ASSUME NEW i \in DOMAIN handed', NEW j \in DOMAIN handed',
                      handed'[i].msg = handed'[j].msg \/ handed'[i].lease.id = handed'[j].lease.id
               PROVE  i = j
    BY DEF CodeAnsweredOnce
  <2>1. CASE i \in DOMAIN handed /\ j \in DOMAIN handed
    BY <1>1, <1>10, <2>1 DEF HandedOK, CodeAnsweredOnce
  <2>2. CASE i \notin DOMAIN handed /\ j \in DOMAIN handed
    <3>1. handed'[i] = Answer /\ handed'[j] = handed[j]
      BY <1>10, <2>2
    <3> QED BY <1>8, <1>9, <2>2, <3>1
  <2>3. CASE i \in DOMAIN handed /\ j \notin DOMAIN handed
    <3>1. handed'[j] = Answer /\ handed'[i] = handed[i]
      BY <1>10, <2>3
    <3> QED BY <1>8, <1>9, <2>3, <3>1
  <2> QED BY <1>10, <2>1, <2>2, <2>3
<1>12. ASSUME NEW h \in Answers, AnswerOK(h) \/ h = Answer
       PROVE  IsClear(h)' /\ h.lease.id \in 1..leases' /\ OnRecord(consumed, h.msg)' /\ OnRecord(disk, h.msg)'
  <2>1. CASE AnswerOK(h)
    <3>1. h.msg \in Msgs /\ h.lease.armedAt \in Nat
      BY LeaseFacts DEF Answers
    <3>2. stamp[h.msg] \in Nat
      BY <1>1, <2>1, <3>1 DEF AnswerOK, IsClear, Never
    <3>3. OnRecord(consumed', h.msg)
      BY <1>1, <1>2, <2>1, <3>1, <3>2, RecordKept DEF AnswerOK
    <3>4. OnRecord(consumed, h.msg)' /\ OnRecord(disk, h.msg)'
      BY <1>2, <3>3 DEF OnRecord
    <3> QED BY <1>2, <2>1, <3>4 DEF AnswerOK, IsClear
  <2>2. CASE h = Answer
    <3>1. h.msg = request.msg /\ h.lease = request /\ h.rivals = rivals /\ h.cut = cut
      BY <1>9, <2>2
    <3>2. IsClear(h)
      BY <1>1, <1>4, <3>1 DEF LeaseOK, IsClear
    <3>3. Delivery \in consumed' /\ stamp[request.msg] <= Delivery.at + Skew
      BY <1>1, <1>2, <1>4, <1>9 DEF LeaseOK
    <3>4. OnRecord(consumed, h.msg)' /\ OnRecord(disk, h.msg)'
      BY <1>2, <1>9, <3>1, <3>3 DEF OnRecord
    <3> QED BY <1>2, <1>4, <3>1, <3>2, <3>4 DEF IsClear
  <2> QED BY <1>12, <2>1, <2>2
<1>13. ASSUME NEW i \in DOMAIN handed' PROVE AnswerOK(handed[i])'
  <2>1. handed'[i] \in Answers /\ (AnswerOK(handed'[i]) \/ handed'[i] = Answer)
    BY <1>1, <1>8, <1>9, <1>10
  <2>2. PICK h \in Answers : h = handed'[i]
    BY <2>1
  <2>3. IsClear(h)' /\ h.lease.id \in 1..leases' /\ OnRecord(consumed, h.msg)' /\ OnRecord(disk, h.msg)'
    BY <1>12, <2>1, <2>2
  <2> QED BY <1>3, <2>2, <2>3 DEF AnswerOK, IsClear, OnRecord
<1>14. HandedOK'
  BY <1>11, <1>13 DEF HandedOK
<1> QED BY <1>5, <1>6, <1>7, <1>14

\* Steps that touch neither the lease nor the clients.
LEMMA OtherSteps ==
    ASSUME OtpInv, clock' \in Nat, clock' >= clock,
           UNCHANGED <<request, rivals, cut, leases, handed, consumed, disk, pc, held>>,
           deletes' \subseteq deletes, Wake \/ UNCHANGED <<online, woken>>,
           \A m \in Msgs : stamp[m] # Never => stamp'[m] = stamp[m]
    PROVE  LeaseOK' /\ HolderOK' /\ HandedOK' /\ SleepersMissNothing'
<1>1. TypeOK /\ LeaseOK /\ HolderOK /\ HandedOK /\ SleepersMissNothing /\ leases \in Nat
  BY DEF OtpInv, TypeOK
<1>2. LeaseOK'
  BY <1>1, LeaseStays
<1>3. HandedOK'
  BY <1>1, HandedStays
<1>4. \A d \in Clients : held'[d] \in {held[d], NoLease} /\ held'[d].id \notin deletes'
  BY <1>1 DEF HolderOK
<1>5. HolderOK'
  BY <1>1, <1>4, HolderMoves
<1>6. SleepersMissNothing'
  <2>1. CASE Wake
    BY <1>1, <2>1, SleepersWake
  <2>2. CASE UNCHANGED <<online, woken>>
    BY <1>1, <2>2, SleepersStay
  <2> QED BY <2>1, <2>2
<1> QED BY <1>2, <1>3, <1>5, <1>6

\* A message that qualifies was never handed over.
LEMMA TakeSteps ==
    ASSUME OtpInv, NEW m \in Msgs, ~IsIgnored(m), Qualifies(m), Take(m),
           UNCHANGED <<clock, consumed, disk, stamp, pc, held, deletes, leases, handed, cut>>
    PROVE  LeaseOK' /\ HolderOK' /\ HandedOK' /\ SleepersMissNothing'
<1>1. /\ TypeOK /\ LeaseOK /\ HolderOK /\ HandedOK /\ clock \in Nat /\ leases \in Nat
      /\ request \in Leases /\ handed \in Seq(Answers) /\ stamp \in [Msgs -> Nat \cup {Never}]
  BY DEF OtpInv, TypeOK
<1>2. /\ request # NoLease /\ request.provider = ProviderOf[m] /\ ~request.ambiguous
      /\ stamp[m] >= request.armedAt /\ stamp[m] <= clock + Skew /\ clock < request.armedAt + LeaseTime
      /\ ~request.delivered /\ \A e \in consumed : e.msg # m
  BY DEF IsIgnored, Qualifies, IsLive
<1>3. /\ request'.id = request.id /\ request'.armedAt = request.armedAt
      /\ request'.provider = request.provider /\ request'.delivered = request.delivered
      /\ request'.msg = IF request.msg = None THEN m ELSE request.msg
      /\ request'.ambiguous = IF request.msg = None THEN request.ambiguous ELSE TRUE
      /\ rivals' = rivals \cup {m} /\ Wake
  BY <1>1, TakeFacts DEF Take
<1>4. m # None /\ stamp[m] \in Nat /\ request.armedAt \in Nat /\ LeaseTime \in Nat
  <2>1. m # None /\ LeaseTime \in Nat /\ request.armedAt \in Nat
    BY <1>1, LeaseFacts, OtpAssumption
  <2>2. stamp[m] \in Nat \cup {Never} /\ stamp[m] >= request.armedAt
    BY <1>1, <1>2
  <2> QED BY <2>1, <2>2 DEF Never
<1>5. LeaseOK'
  <2>1. CASE request.msg = None
    BY <1>1, <1>2, <1>3, <1>4, <2>1 DEF LeaseOK
  <2>2. CASE request.msg # None
    BY <1>1, <1>2, <1>3, <2>2 DEF LeaseOK
  <2> QED BY <2>1, <2>2
<1>6. HolderOK'
  <2>1. \A d \in Clients : held'[d] \in {held[d], NoLease} /\ held'[d].id \notin deletes'
    BY <1>1 DEF HolderOK
  <2> QED BY <1>1, <1>3, <2>1, HolderMoves
<1>7. SleepersMissNothing'
  BY <1>1, <1>3, SleepersWake
<1>8. ASSUME NEW i \in DOMAIN handed PROVE AnswerOK(handed[i])'
  <2>1. PICK h \in Answers : h = handed[i] /\ AnswerOK(h)
    BY <1>1 DEF HandedOK
  <2>2. h.msg # m
    <3>1. OnRecord(consumed, h.msg)
      BY <2>1 DEF AnswerOK
    <3>2. ~(clock >= stamp[m] + LeaseTime)
      BY <1>1, <1>2, <1>4
    <3> QED BY <1>2, <3>1, <3>2 DEF OnRecord
  <2>3. h.msg = request'.msg => request'.delivered
    BY <1>3, <2>1, <2>2 DEF AnswerOK
  <2>4. h.lease.id = request'.id => request'.delivered
    BY <1>3, <2>1 DEF AnswerOK
  <2> QED BY <2>1, <2>3, <2>4 DEF AnswerOK, IsClear, OnRecord
<1>9. HandedOK'
  BY <1>1, <1>8 DEF HandedOK, CodeAnsweredOnce
<1> QED BY <1>5, <1>6, <1>7, <1>9

LEMMA HoldersStay ==
    ASSUME OtpInv, UNCHANGED <<held, deletes, pc>>
    PROVE  \A d \in Clients : /\ held'[d] \in {held[d], NoLease} /\ held'[d].id \notin deletes'
                              /\ pc'[d] = "sleeping" => pc[d] = "sleeping"
BY DEF OtpInv, HolderOK

LEMMA MessageSteps ==
    ASSUME OtpInv, NEW m \in Msgs, Message(m)
    PROVE  LeaseOK' /\ HolderOK' /\ HandedOK' /\ SleepersMissNothing'
<1>1. TypeOK /\ clock \in Nat /\ stamp \in [Msgs -> Nat \cup {Never}]
  BY DEF OtpInv, TypeOK
<1>2. CASE Accept(m)
  <2>1. UNCHANGED <<clock, consumed, disk, stamp, pc, held, deletes, leases, handed>>
    BY <1>1, <1>2, AcceptCases
  <2>2. CASE UNCHANGED <<online, terminal, request, woken, rivals, cut>>
    BY <1>1, <2>1, <2>2, OtherSteps
  <2>3. CASE FailForGood
    BY <1>1, <2>1, <2>3, HoldersStay, OfflineSteps DEF FailForGood
  <2>4. CASE ~IsIgnored(m) /\ Qualifies(m) /\ Take(m) /\ UNCHANGED cut
    BY <2>1, <2>4, TakeSteps
  <2> QED BY <1>1, <1>2, <2>2, <2>3, <2>4, AcceptCases
<1>3. CASE Sms(m)
  <2>1. /\ UNCHANGED <<clock, online, request, rivals, cut, leases, handed, consumed, disk, pc, held,
                       deletes, woken>>
        /\ \A n \in Msgs : stamp[n] # Never => stamp'[n] = stamp[n]
    BY <1>1, <1>3 DEF Sms, memory
  <2> QED BY <1>1, <2>1, OtherSteps
<1>4. CASE ArriveWithoutSender(m)
  <2>1. UNCHANGED <<clock, consumed, disk, stamp, pc, held, deletes, leases, rivals, handed>>
    BY <1>4 DEF ArriveWithoutSender, memory
  <2>2. CASE UNCHANGED <<online, request, woken, cut>>
    BY <1>1, <2>1, <2>2, OtherSteps
  <2>3. CASE GoOffline
    BY <1>1, <2>1, <2>3, HoldersStay, OfflineSteps
  <2> QED BY <1>4, <2>2, <2>3 DEF ArriveWithoutSender, SetHealth
<1>5. CASE LookupFails(m)
  <2>1. UNCHANGED <<clock, online, request, rivals, cut, leases, handed, consumed, disk, stamp, pc,
                    held, deletes, woken>>
    BY <1>5 DEF LookupFails, memory
  <2> QED BY <1>1, <2>1, OtherSteps
<1> QED BY <1>2, <1>3, <1>4, <1>5 DEF Message, ArriveWithSender, LookupEnds

LEMMA ClientSteps ==
    ASSUME OtpInv, NEW c \in Clients, Client(c)
    PROVE  LeaseOK' /\ HolderOK' /\ HandedOK' /\ SleepersMissNothing'
<1>1. TypeOK /\ HolderOK /\ clock \in Nat
  BY DEF OtpInv, TypeOK
<1>2. CASE PhoneSilent(c)
  <2>1. /\ UNCHANGED <<clock, consumed, disk, stamp, held, deletes, leases, rivals, handed>>
        /\ pc' = [pc EXCEPT ![c] = "deciding"] /\ SetHealth(FALSE, FALSE) /\ pc[c] = "verifying"
    BY <1>2 DEF PhoneSilent, Goto, memory, phone
  <2>2. \A d \in Clients : /\ held'[d] \in {held[d], NoLease} /\ held'[d].id \notin deletes'
                           /\ pc'[d] = "sleeping" => pc[d] = "sleeping"
    BY <1>1, <2>1 DEF HolderOK, TypeOK
  <2>3. CASE GoOffline
    BY <1>1, <2>1, <2>2, <2>3, OfflineSteps
  <2>4. CASE UNCHANGED <<online, request, woken, cut>>
    <3>1. LeaseOK' /\ HandedOK'
      BY <1>1, <2>1, <2>4, LeaseStays, HandedStays DEF OtpInv, TypeOK
    <3>2. HolderOK'
      BY <1>1, <2>1, <2>2, <2>4, HolderMoves
    <3>3. SleepersMissNothing'
      BY <1>1, <2>1, <2>2, <2>4, SleepersStay DEF OtpInv
    <3> QED BY <3>1, <3>2, <3>3
  <2> QED BY <2>1, <2>3, <2>4 DEF SetHealth
<1>3. CASE LookCannotPersist(c)
  <2>1. /\ UNCHANGED <<clock, consumed, stamp, leases, rivals, handed>> /\ GoOffline /\ Leave(c)
        /\ disk' = disk \/ Kept \subseteq disk'
        /\ pc[c] = "waiting"
    BY <1>3 DEF LookCannotPersist, FailForGood, phone
  <2>2. /\ held' = [held EXCEPT ![c] = NoLease] /\ deletes' = deletes \cup {held[c].id}
        /\ pc' = [pc EXCEPT ![c] = "idle"]
    BY <2>1 DEF Leave, Goto
  <2>3. held \in [Clients -> Leases] /\ held[c] # NoLease /\ held[c].id # 0 /\ 0 \notin deletes
    BY <1>1, <2>1 DEF TypeOK, HolderOK, HeldOK
  <2>4. held'[c] = NoLease /\ held'[c].id \notin deletes'
    BY <2>2, <2>3, LeaseFacts
  <2>5. \A d \in Clients : d # c => held'[d] = held[d] /\ held[d].id # held[c].id
    BY <1>1, <2>2, <2>3 DEF HolderOK
  <2>6. \A d \in Clients : pc'[d] = "sleeping" => pc[d] = "sleeping"
    BY <1>1, <2>2 DEF TypeOK
  <2>7. \A d \in Clients : held'[d] \in {held[d], NoLease} /\ held'[d].id \notin deletes'
    BY <1>1, <2>2, <2>4, <2>5 DEF HolderOK
  <2> QED BY <2>1, <2>6, <2>7, OfflineSteps
<1> QED BY <1>2, <1>3, QuietSteps, GrantSteps, DeliverSteps DEF Client

LEMMA BrokerSteps ==
    ASSUME OtpInv,
           \/ \E id \in deletes : Delete(id) \/ LoseDelete(id)
           \/ PhoneConnects \/ (\E isFatal \in BOOLEAN : PhoneDisconnects(isFatal)) \/ Restart
           \/ Tick \/ UNCHANGED vars
    PROVE  LeaseOK' /\ HolderOK' /\ HandedOK' /\ SleepersMissNothing'
<1>1. /\ TypeOK /\ LeaseOK /\ HolderOK /\ HandedOK /\ SleepersMissNothing
      /\ clock \in Nat /\ leases \in Nat
  BY DEF OtpInv, TypeOK
<1>2. ASSUME NEW id \in deletes, Delete(id)
      PROVE  LeaseOK' /\ HolderOK' /\ HandedOK' /\ SleepersMissNothing'
  <2>1. /\ UNCHANGED <<clock, online, rivals, cut, leases, handed, consumed, disk, stamp, pc, held>>
        /\ deletes' \subseteq deletes
    BY <1>2 DEF Delete, memory, phone
  <2>2. CASE request.id # id
    <3>1. UNCHANGED <<request, woken>>
      BY <1>2, <2>2 DEF Delete
    <3> QED BY <1>1, <2>1, <3>1, OtherSteps
  <2>3. CASE request.id = id
    <3>1. request' = NoLease /\ Wake
      BY <1>2, <2>3 DEF Delete
    <3>2. LeaseOK' /\ HandedOK'
      BY <1>1, <2>1, <3>1, LeaseStays, HandedStays
    <3>3. SleepersMissNothing'
      BY <1>1, <2>1, <3>1, SleepersWake
    <3>4. \A d \in Clients : held[d].id # request.id
      BY <1>1, <1>2, <2>3 DEF HolderOK
    <3>5. HoldersReserve'
      BY <1>1, <2>1, <3>4 DEF HolderOK, HoldersReserve
    <3>6. HeldOK' /\ \A c \in Clients : held[c] # NoLease => held[c].id # request'.id
      BY <1>1, <2>1, <3>1, LeaseFacts DEF HolderOK, HeldOK
    <3>7. HolderOK'
      BY <1>1, <2>1, <3>5, <3>6 DEF HolderOK
    <3> QED BY <3>2, <3>3, <3>7
  <2> QED BY <2>2, <2>3
<1>3. ASSUME NEW id \in deletes, LoseDelete(id)
      PROVE  LeaseOK' /\ HolderOK' /\ HandedOK' /\ SleepersMissNothing'
  <2>1. /\ UNCHANGED <<clock, online, request, woken, rivals, cut, leases, handed, consumed, disk, stamp, pc, held>>
        /\ deletes' \subseteq deletes
    BY <1>3 DEF LoseDelete, memory, phone
  <2> QED BY <1>1, <2>1, OtherSteps
<1>4. CASE PhoneConnects \/ \E isFatal \in BOOLEAN : PhoneDisconnects(isFatal)
  <2>1. /\ UNCHANGED <<clock, stamp, consumed, disk, pc, held, deletes, leases, rivals, handed>>
        /\ \E isOnline, isFatal \in BOOLEAN : (isOnline => ~isFatal) /\ SetHealth(isOnline, isFatal)
    BY <1>4 DEF PhoneConnects, PhoneDisconnects, memory, phone
  <2>2. \/ UNCHANGED <<online, request, cut, woken>>
        \/ UNCHANGED <<request, cut>> /\ Wake
        \/ GoOffline
    BY <1>1, <2>1, HealthFacts
  <2>3. CASE UNCHANGED <<request, cut>> /\ (Wake \/ UNCHANGED <<online, woken>>)
    BY <1>1, <2>1, <2>3, OtherSteps
  <2>4. CASE GoOffline
    BY <1>1, <2>1, <2>4, HoldersStay, OfflineSteps
  <2> QED BY <2>2, <2>3, <2>4
<1>5. CASE Restart
  <2>1. /\ UNCHANGED <<clock, disk, stamp, leases, rivals, handed>> /\ consumed' = disk
        /\ request' = NoLease /\ cut' = leases /\ deletes' = {}
        /\ \A d \in Clients : pc'[d] # "sleeping" /\ held'[d] \in {held[d], NoLease}
    BY <1>5 DEF Restart
  <2>2. LeaseOK' /\ HandedOK'
    BY <1>1, <2>1, LeaseStays, HandedStays
  <2>3. HolderOK'
    BY <1>1, <2>1, HolderMoves
  <2>4. SleepersMissNothing'
    BY <2>1 DEF SleepersMissNothing
  <2> QED BY <2>2, <2>3, <2>4
<1>6. CASE Tick
  <2>1. /\ UNCHANGED <<online, request, woken, rivals, cut, leases, handed, consumed, disk, stamp, pc, held, deletes>>
        /\ clock' = clock + 1
    BY <1>6 DEF Tick, memory, phone
  <2> QED BY <1>1, <2>1, OtherSteps
<1>7. CASE UNCHANGED vars
  <2>1. UNCHANGED <<clock, online, request, woken, rivals, cut, leases, handed, consumed, disk, stamp, pc, held, deletes>>
    BY <1>7 DEF vars, memory, phone
  <2> QED BY <1>1, <2>1, OtherSteps
<1> QED BY <1>2, <1>3, <1>4, <1>5, <1>6, <1>7

-----------------------------------------------------------------------------
(* The theorems. *)

LEMMA InvStep == ASSUME OtpInv, [Next]_vars PROVE OtpInv'
<1>1. TypeOK /\ HeldOK
  BY DEF OtpInv, HolderOK
<1>2. TypeOK'
  BY <1>1, TypeStep
<1>3. LeaseOK' /\ HolderOK' /\ HandedOK' /\ SleepersMissNothing'
  BY ClientSteps, MessageSteps, BrokerSteps DEF Next
<1> QED BY <1>2, <1>3 DEF OtpInv

\* The broker's types, and its silence after a failure it does not recover from (setHealth).
THEOREM Invariant == Spec => []OtpInv
<1>1. OtpInv /\ [Next]_vars => OtpInv'
  BY InvStep
<1> QED BY <1>1, InitInv, PTL DEF Spec

\* Types, and what goes with them: only a waiting client holds a lease (performClalLogin), and a
\* receiver that failed for good stays silent until it is restarted (setHealth).
THEOREM TypesHold == Spec => []TypeOK
<1>1. OtpInv => TypeOK
  BY DEF OtpInv
<1> QED BY <1>1, Invariant, PTL

\* No code is answered twice, over repeated events, lost replies and restarts (accept, wait).
THEOREM CodesAreAnsweredOnce == Spec => []CodeAnsweredOnce
<1>1. OtpInv => CodeAnsweredOnce
  BY DEF OtpInv, HandedOK
<1> QED BY <1>1, Invariant, PTL

\* An answered code is the only one that qualified for its lease (accept).
THEOREM AnswersAreClearHolds == Spec => []AnswersAreClear
<1>1. OtpInv => AnswersAreClear
  BY DEF OtpInv, HandedOK, AnswerOK, IsClear, AnswersAreClear
<1> QED BY <1>1, Invariant, PTL

\* Whoever holds an unexpired lease has the broker to itself (arm), and a broker that failed for good
\* stays silent (setHealth).
THEOREM ReservationsAreKept == Spec => []ReservationKept
<1>1. OtpInv => ReservationKept
  BY DEF OtpInv, HolderOK, TypeOK, ReservationKept
<1> QED BY <1>1, Invariant, PTL

\* No long poll sleeps through a change of its answer (wait, signalLocked).
THEOREM NoLostWakeups == Spec => []SleepersMissNothing
<1>1. OtpInv => SleepersMissNothing
  BY DEF OtpInv
<1> QED BY <1>1, Invariant, PTL

=============================================================================
