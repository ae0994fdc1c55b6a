--------------------------- MODULE ConsumersProofs ---------------------------
(***************************************************************************)
(* Consumers for every maxClaims, TTL and number of mints: the claim       *)
(* budget, the handed secrets, the wiping of spent and of expired ones and *)
(* the claims that stay open, although the server may write back a copy an *)
(* operator's command has made stale.                                      *)
(***************************************************************************)
EXTENDS Consumers, TLAPS

ConsumersInv == TypeOK /\ CopiesAgree /\ ClaimBudget

LEMMA ConsumerFields ==
    ASSUME NEW r \in Consumer
    PROVE  /\ r.secretHash \in Mints /\ r.secretPlain \in Mints \cup {None} /\ r.claimId \in Mints
           /\ r.claimExpiresAt \in Nat /\ r.claimCount \in Nat /\ r.revoked \in BOOLEAN
           /\ r.authenticated \in BOOLEAN
BY DEF Consumer

LEMMA WipedFacts ==
    ASSUME NEW r \in Consumer
    PROVE  /\ Wiped(r) \in Consumer /\ Wiped(r).secretPlain = None
           /\ Wiped(r).secretHash = r.secretHash /\ Wiped(r).claimId = r.claimId
           /\ Wiped(r).claimCount = r.claimCount /\ Wiped(r).revoked = r.revoked
BY DEF Consumer, Wiped

LEMMA TouchedFacts ==
    ASSUME NEW r \in Consumer
    PROVE  LET s == Touched(r) IN
           /\ s \in Consumer /\ s.secretHash = r.secretHash /\ s.claimId = r.claimId
           /\ s.claimCount = r.claimCount /\ s.revoked = r.revoked
           /\ s.secretPlain \in {None, r.secretPlain}
<1>1. ASSUME NEW q \in Consumer
      PROVE  LET s == [q EXCEPT !.authenticated = TRUE] IN
             /\ s \in Consumer /\ s.secretHash = q.secretHash /\ s.claimId = q.claimId
             /\ s.claimCount = q.claimCount /\ s.revoked = q.revoked /\ s.secretPlain = q.secretPlain
  BY DEF Consumer
<1>2. Touched(r) = IF IsClaimOpen(r) THEN [r EXCEPT !.authenticated = TRUE]
                   ELSE [Wiped(r) EXCEPT !.authenticated = TRUE]
  BY DEF Touched
<1> QED BY <1>1, <1>2, WipedFacts

LEMMA ClaimedFacts ==
    ASSUME NEW r \in Consumer, IsClaimOpen(r)
    PROVE  /\ Claimed(r) \in Consumer
           /\ Claimed(r).secretHash = r.secretHash /\ Claimed(r).claimId = r.claimId
           /\ Claimed(r).claimCount = r.claimCount + 1 /\ ~Claimed(r).revoked
           /\ Claimed(r).secretPlain \in {None, r.secretPlain}
           /\ Claimed(r).claimCount >= MaxClaims => Claimed(r).secretPlain = None
           /\ r.claimCount < MaxClaims
<1> DEFINE counted == [r EXCEPT !.claimCount = r.claimCount + 1]
<1>1. /\ counted \in Consumer /\ counted.secretHash = r.secretHash /\ counted.claimId = r.claimId
      /\ counted.claimCount = r.claimCount + 1 /\ counted.revoked = r.revoked
      /\ counted.secretPlain = r.secretPlain
  BY DEF Consumer
<1>2. ~r.revoked /\ r.claimCount < MaxClaims
  BY ConsumersAssumption DEF IsClaimOpen, IsOver, Consumer
<1>3. Claimed(r) = IF counted.claimCount >= MaxClaims THEN Wiped(counted) ELSE counted
  BY DEF Claimed
<1> HIDE DEF counted
<1> QED BY <1>1, <1>2, <1>3, WipedFacts

LEMMA RevokedFacts ==
    ASSUME NEW r \in Consumer
    PROVE  LET s == [Wiped(r) EXCEPT !.revoked = TRUE] IN
           /\ s \in Consumer /\ s.secretPlain = None /\ s.revoked
           /\ s.secretHash = r.secretHash /\ s.claimId = r.claimId
BY DEF Consumer, Wiped

LEMMA MintedFacts ==
    ASSUME NEW k \in Mints, clock \in Nat
    PROVE  /\ Minted(k) \in Consumer /\ Minted(k).claimId = k /\ Minted(k).secretHash = k
           /\ Minted(k).secretPlain = k /\ Minted(k).claimCount = 0 /\ ~Minted(k).revoked
BY ConsumersAssumption DEF Consumer, Minted

-----------------------------------------------------------------------------
(* A server step that only reads: its copy is a copy of the row. *)
LEMMA ReadKeepsInv ==
    ASSUME ConsumersInv, UNCHANGED <<clock, row, mints, cli, ghosts>>, lastSweep' \in Nat,
           IsTask(server)', server'.rows \subseteq row,
           server'.op = "claim" => \A r \in server'.rows : r.claimId = server'.key
    PROVE  ConsumersInv'
<1>1. TypeOK'
  BY DEF ConsumersInv, TypeOK, ghosts
<1>2. CopiesAgree'
  BY DEF ConsumersInv, CopiesAgree, Copies, ghosts
<1>3. ClaimBudget'
  BY DEF ConsumersInv, ClaimBudget, ghosts
<1> QED BY <1>1, <1>2, <1>3 DEF ConsumersInv

LEMMA IdleIsTask == IsTask(Idle) /\ IsTask(Down) /\ Idle.rows = {} /\ Down.rows = {}
                    /\ Idle.op = "idle" /\ Down.op = "down"
BY DEF IsTask, Idle, Down, Ops, AtMostOne

(* A server step that writes its copy or a wiped copy back, or leaves the row alone. *)
LEMMA WriteBackKeepsInv ==
    ASSUME ConsumersInv, NEW rows, Answer(rows), UNCHANGED ghosts, lastSweep' \in Nat,
           rows = row \/ rows = server.rows \/ rows = {Wiped(r) : r \in server.rows}
                      \/ rows = {Touched(r) : r \in server.rows}
    PROVE  ConsumersInv'
<1>1. AtMostOne(row) /\ AtMostOne(server.rows) /\ mints \in 0..MaxMints
  BY DEF ConsumersInv, TypeOK, IsTask
<1>2. \A s \in rows : \E r \in Copies : s = r \/ s = Wiped(r) \/ s = Touched(r)
  BY DEF Copies
<1>3. \A s \in rows : /\ s \in Consumer /\ s.secretHash = s.claimId /\ s.claimId <= mints
                      /\ s.secretPlain # None => s.secretPlain = s.claimId
                      /\ ~s.revoked => claims[s.claimId] <= s.claimCount
                      /\ s.revoked \/ s.claimCount >= MaxClaims => s.secretPlain = None
  BY <1>1, <1>2, WipedFacts, TouchedFacts DEF ConsumersInv, CopiesAgree, Copies, AtMostOne
<1>4. AtMostOne(rows)
  BY <1>1, <1>3 DEF AtMostOne
<1>5. /\ row' = rows /\ server' = Idle /\ UNCHANGED <<clock, mints, cli, claims, handed>>
  BY DEF Answer, ghosts
<1>6. TypeOK'
  BY <1>4, <1>5, IdleIsTask DEF ConsumersInv, TypeOK, AtMostOne
<1>7. CopiesAgree'
  <2>1. Copies' = rows
    BY <1>5, IdleIsTask DEF Copies
  <2> QED BY <1>3, <1>5, <2>1, IdleIsTask DEF ConsumersInv, CopiesAgree
<1>8. ClaimBudget'
  BY <1>5 DEF ConsumersInv, ClaimBudget
<1> QED BY <1>6, <1>7, <1>8 DEF ConsumersInv

LEMMA AcceptClaimKeepsInv == ConsumersInv /\ AcceptClaim => ConsumersInv'
<1> SUFFICES ASSUME ConsumersInv, AcceptClaim PROVE ConsumersInv'
  OBVIOUS
<1>1. PICK r \in server.rows :
         /\ IsClaimOpen(r) /\ Answer({Claimed(r)})
         /\ claims' = [claims EXCEPT ![server.key] = claims[server.key] + 1]
         /\ handed' = [handed EXCEPT ![server.key] = handed[server.key] \cup {r.secretPlain}]
  BY DEF AcceptClaim
<1>2. /\ server.op = "claim" /\ lastSweep' = lastSweep
      /\ row' = {Claimed(r)} /\ server' = Idle /\ UNCHANGED <<clock, mints, cli>>
  BY <1>1 DEF AcceptClaim, Answer
<1> DEFINE k == r.claimId
           s == Claimed(r)
<1>3. /\ r \in Consumer /\ k \in Mints /\ server.key = k /\ r \in Copies
      /\ claims \in [Mints -> Nat] /\ mints \in 0..MaxMints
  BY <1>2, ConsumerFields DEF ConsumersInv, TypeOK, IsTask, AtMostOne, CopiesAgree, Copies
<1>4. /\ r.secretHash = k /\ k <= mints /\ r.secretPlain = k /\ claims[k] <= r.claimCount
  BY <1>1, <1>3 DEF ConsumersInv, CopiesAgree, IsClaimOpen, IsOver
<1>5. /\ s \in Consumer /\ s.secretHash = k /\ s.claimId = k /\ s.claimCount = r.claimCount + 1
      /\ ~s.revoked /\ s.secretPlain \in {None, k} /\ r.claimCount < MaxClaims
      /\ s.claimCount >= MaxClaims => s.secretPlain = None
  BY <1>1, <1>3, <1>4, ClaimedFacts
<1> HIDE DEF s, k
<1>6. /\ claims' \in [Mints -> Nat] /\ claims'[k] = claims[k] + 1
      /\ \A j \in Mints : j # k => claims'[j] = claims[j]
  BY <1>1, <1>3
<1>7. /\ handed' \in [Mints -> SUBSET (Mints \cup {None})]
      /\ \A j \in Mints : handed'[j] \subseteq handed[j] \cup (IF j = k THEN {k} ELSE {})
  BY <1>1, <1>3, <1>4 DEF ConsumersInv, TypeOK
<1>8. TypeOK'
  BY <1>2, <1>5, <1>6, <1>7, IdleIsTask DEF ConsumersInv, TypeOK, AtMostOne, s
<1>9. ClaimBudget'
  BY <1>3, <1>4, <1>5, <1>6, ConsumerFields, ConsumersAssumption DEF ConsumersInv, ClaimBudget
<1>10. CopiesAgree'
  <2>1. Copies' = {s}
    BY <1>2, IdleIsTask DEF Copies, s
  <2>2. ASSUME NEW j \in Mints PROVE handed'[j] \subseteq {j} /\ (j > mints' => claims'[j] = 0)
    <3>1. handed[j] \subseteq {j} /\ (j > mints => claims[j] = 0)
      BY DEF ConsumersInv, CopiesAgree
    <3>2. j > mints => j # k
      BY <1>3, <1>4 DEF Mints
    <3> QED BY <1>2, <1>6, <1>7, <3>1, <3>2
  <2>3. claims'[k] <= s.claimCount
    BY <1>3, <1>4, <1>5, <1>6, ConsumerFields
  <2> QED BY <1>2, <1>4, <1>5, <2>1, <2>2, <2>3, IdleIsTask DEF ConsumersInv, CopiesAgree
<1> QED BY <1>8, <1>9, <1>10 DEF ConsumersInv

LEMMA MintKeepsInv == ConsumersInv /\ Mint => ConsumersInv'
<1> SUFFICES ASSUME ConsumersInv, Mint PROVE ConsumersInv'
  OBVIOUS
<1> DEFINE k == mints + 1
           s == Minted(k)
<1>1. /\ mints' = k /\ row' = {s} /\ cli' = Idle
      /\ UNCHANGED <<clock, server, lastSweep, claims, handed>>
  BY DEF Mint
<1>2. k \in Mints /\ clock \in Nat /\ mints \in 0..MaxMints /\ claims[k] = 0
  BY ConsumersAssumption DEF ConsumersInv, TypeOK, CopiesAgree, Mint, Mints
<1>3. /\ s \in Consumer /\ s.claimId = k /\ s.secretHash = k /\ s.secretPlain = k
      /\ s.claimCount = 0 /\ ~s.revoked
  BY <1>2, MintedFacts
<1> HIDE DEF s
<1>4. TypeOK'
  BY <1>1, <1>2, <1>3, IdleIsTask DEF ConsumersInv, TypeOK, AtMostOne, Mints
<1>5. CopiesAgree'
  <2>1. \A r \in server.rows : r.claimId <= k
    BY <1>2, ConsumerFields DEF ConsumersInv, CopiesAgree, Copies, TypeOK, IsTask, AtMostOne, Mints
  <2>2. \A j \in Mints : j > k => claims[j] = 0
    BY <1>2 DEF ConsumersInv, CopiesAgree, Mints
  <2> QED BY <1>1, <1>2, <1>3, <2>1, <2>2, IdleIsTask, ConsumersAssumption
          DEF ConsumersInv, CopiesAgree, Copies
<1>6. ClaimBudget'
  BY <1>1 DEF ConsumersInv, ClaimBudget
<1> QED BY <1>4, <1>5, <1>6 DEF ConsumersInv

LEMMA RevokeKeepsInv == ConsumersInv /\ Revoke => ConsumersInv'
<1> SUFFICES ASSUME ConsumersInv, Revoke PROVE ConsumersInv'
  OBVIOUS
<1> DEFINE f(r) == [Wiped(r) EXCEPT !.revoked = TRUE]
<1>1. /\ row' = {f(r) : r \in cli.rows} /\ cli' = Idle
      /\ UNCHANGED <<clock, mints, server, lastSweep, claims, handed>>
  BY DEF Revoke
<1>2. \A r \in cli.rows : /\ f(r) \in Consumer /\ f(r).secretPlain = None /\ f(r).revoked
                          /\ f(r).secretHash = f(r).claimId /\ f(r).claimId <= mints
  BY RevokedFacts DEF ConsumersInv, TypeOK, IsTask, AtMostOne, CopiesAgree
<1> HIDE DEF f
<1>3. AtMostOne(row)'
  BY <1>1, <1>2 DEF ConsumersInv, TypeOK, IsTask, AtMostOne
<1>4. TypeOK'
  BY <1>1, <1>3, IdleIsTask DEF ConsumersInv, TypeOK
<1>5. CopiesAgree'
  BY <1>1, <1>2, IdleIsTask DEF ConsumersInv, CopiesAgree, Copies
<1>6. ClaimBudget'
  BY <1>1 DEF ConsumersInv, ClaimBudget
<1> QED BY <1>4, <1>5, <1>6 DEF ConsumersInv

LEMMA NextKeepsInv == ConsumersInv /\ [Next]_vars => ConsumersInv'
<1> SUFFICES ASSUME ConsumersInv, [Next]_vars PROVE ConsumersInv'
  OBVIOUS
<1>1. AtMostOne(row) /\ IsTask(server) /\ IsTask(cli) /\ clock \in Nat /\ lastSweep \in Nat
      /\ mints \in 0..MaxMints
  BY DEF ConsumersInv, TypeOK
<1>2. ASSUME NEW op \in {"claim", "auth", "sweep"}, NEW k \in Mints \cup {None}, NEW rows \in SUBSET row,
             server' = [op |-> op, rows |-> rows, key |-> k],
             op = "claim" => \A r \in rows : r.claimId = k,
             UNCHANGED <<clock, row, mints, lastSweep, cli, ghosts>>
      PROVE  ConsumersInv'
  <2>1. server'.op = op /\ server'.rows = rows /\ server'.key = k
    BY <1>2
  <2>2. IsTask(server)' /\ lastSweep' \in Nat
    BY <1>1, <1>2, <2>1 DEF IsTask, AtMostOne, Ops
  <2> QED BY <1>2, <2>1, <2>2, ReadKeepsInv
<1>3. ASSUME NEW k \in 1..mints PROVE k \in Mints
  BY <1>1, ConsumersAssumption DEF Mints
<1>4. CASE ReadForClaim
  BY <1>2, <1>3, <1>4 DEF ReadForClaim, Read
<1>5. CASE ReadForAuth
  <2>1. PICK j \in Mints : \E k \in handed[j] : Read("auth", k, row)
    BY <1>5 DEF ReadForAuth
  <2>a. PICK k \in handed[j] : Read("auth", k, row)
    BY <2>1
  <2>2. k \in Mints \cup {None}
    BY DEF ConsumersInv, TypeOK
  <2> QED BY <1>2, <2>a, <2>2 DEF Read
<1>6. CASE ReadForSweep
  BY <1>2, <1>6 DEF ReadForSweep, Read
<1>7. CASE StartServer
  BY <1>2, <1>7 DEF StartServer
<1>8. CASE StopServer
  <2>1. IsTask(server)' /\ server'.rows = {} /\ server'.op = "down" /\ lastSweep' \in Nat
    BY <1>1, <1>8, IdleIsTask DEF StopServer
  <2> QED BY <1>8, <2>1, ReadKeepsInv DEF StopServer
<1>9. CASE RefuseClaim
  BY <1>1, <1>9, WriteBackKeepsInv DEF RefuseClaim
<1>10. CASE Authenticate
  BY <1>1, <1>10, WriteBackKeepsInv DEF Authenticate
<1>11. CASE Sweep
  BY <1>1, <1>11, WriteBackKeepsInv DEF Sweep
<1>12. ASSUME NEW op \in {"mint", "revoke"}, ReadForCommand(op), op = "mint" => mints < MaxMints
       PROVE  ConsumersInv'
  <2>1. cli'.op = op /\ cli'.rows = row /\ cli' = [op |-> op, rows |-> row, key |-> None]
    BY <1>12 DEF ReadForCommand
  <2>2. IsTask(cli)'
    BY <1>1, <2>1 DEF IsTask, AtMostOne, Ops
  <2>3. UNCHANGED <<clock, row, mints, server, lastSweep, claims, handed>>
    BY <1>12 DEF ReadForCommand, ghosts
  <2>4. TypeOK' /\ ClaimBudget'
    BY <2>2, <2>3 DEF ConsumersInv, TypeOK, ClaimBudget
  <2>5. CopiesAgree'
    BY <1>12, <2>1, <2>3 DEF ConsumersInv, CopiesAgree, Copies
  <2> QED BY <2>4, <2>5 DEF ConsumersInv
<1>13. ReadForMint \/ ReadForRevoke => ConsumersInv'
  BY <1>12 DEF ReadForMint, ReadForRevoke
<1>14. CASE Tick
  BY <1>1, <1>14 DEF Tick, ConsumersInv, TypeOK, CopiesAgree, Copies, ClaimBudget, ghosts
<1>15. CASE UNCHANGED vars
  BY <1>15 DEF vars, ConsumersInv, TypeOK, CopiesAgree, Copies, ClaimBudget
<1> QED BY <1>4, <1>5, <1>6, <1>7, <1>8, <1>9, <1>10, <1>11, <1>13, <1>14, <1>15,
           AcceptClaimKeepsInv, MintKeepsInv, RevokeKeepsInv DEF Next

LEMMA InitInv == Init => ConsumersInv
BY IdleIsTask, ConsumersAssumption
   DEF Init, ConsumersInv, TypeOK, CopiesAgree, Copies, ClaimBudget, AtMostOne

\* For every maxClaims: a setup token never returns its Access URL more often than that,
\* whatever mints, revocations, restarts and stale write-backs come in between.
THEOREM ClaimBudgetHolds == Spec => []ClaimBudget
<1>1. ConsumersInv => ClaimBudget
  BY DEF ConsumersInv
<1> QED BY <1>1, InitInv, NextKeepsInv, PTL DEF Spec

\* Every URL a current token returned carries the secret the ledger accepts, and a revoked
\* or spent claim leaves no plain secret behind.
THEOREM SecretsAgree == Spec => [](HandedSecretsWork /\ SpentClaimsHoldNoSecret)
<1>1. ConsumersInv => HandedSecretsWork /\ SpentClaimsHoldNoSecret
  BY ConsumerFields DEF ConsumersInv, TypeOK, AtMostOne, CopiesAgree, Copies, HandedSecretsWork,
                        SpentClaimsHoldNoSecret
<1> QED BY <1>1, InitInv, NextKeepsInv, PTL DEF Spec

-----------------------------------------------------------------------------
(* The sweep. *)

Listening == server.op \in {"idle", "claim", "auth"}

\* A plain secret that is still there while the server listens was not due at the last sweep,
\* which is at most an interval ago.  A sweep under way has seen it, or it is not due yet.
SweepInv ==
    /\ lastSweep <= clock
    /\ Listening =>
          /\ clock <= lastSweep + SweepEvery
          /\ \A r \in Copies : r.secretPlain # None => lastSweep < r.claimExpiresAt
    /\ server.op = "sweep" =>
          \A r \in row : r.secretPlain # None => r \in server.rows \/ clock < r.claimExpiresAt

(* No rewriting of a row moves its expiry or brings a secret back. *)
LEMMA ExpiryStays ==
    ASSUME NEW r \in Consumer
    PROVE  /\ Wiped(r).claimExpiresAt = r.claimExpiresAt /\ Wiped(r).secretPlain = None
           /\ Touched(r).claimExpiresAt = r.claimExpiresAt
           /\ Touched(r).secretPlain # None => r.secretPlain # None
           /\ Claimed(r).claimExpiresAt = r.claimExpiresAt
           /\ Claimed(r).secretPlain # None => r.secretPlain # None
BY DEF Consumer, Wiped, Touched, Claimed

(* The server answers, and listens again: its copy was listening, or the row was swept. *)
LEMMA AnswerKeepsSweepInv ==
    ASSUME TypeOK, SweepInv, NEW rows, Answer(rows), lastSweep' = lastSweep, Listening,
           \A s \in rows : s.secretPlain # None => lastSweep < s.claimExpiresAt
    PROVE  SweepInv'
<1>1. row' = rows /\ server' = Idle /\ UNCHANGED clock
  BY DEF Answer
<1>2. Copies' = rows
  BY <1>1, IdleIsTask DEF Copies
<1> QED BY <1>1, <1>2, IdleIsTask DEF SweepInv, Listening

LEMMA SweepInvInductive ==
    ASSUME TypeOK, TypeOK', SweepInv, [Next]_vars
    PROVE  SweepInv'
<1>1. /\ clock \in Nat /\ lastSweep \in Nat
      /\ \A r \in Copies : r \in Consumer /\ r.claimExpiresAt \in Nat
  BY DEF TypeOK, AtMostOne, IsTask, Copies, Consumer
<1>2. ASSUME NEW op, NEW rows \in SUBSET row, NEW k, server.op = "idle", op \in {"claim", "auth"},
             server' = [op |-> op, rows |-> rows, key |-> k], UNCHANGED <<clock, row, lastSweep>>
      PROVE  SweepInv'
  BY <1>2 DEF SweepInv, Listening, Copies
<1>3. CASE ReadForClaim
  BY <1>2, <1>3 DEF ReadForClaim, Read
<1>4. CASE ReadForAuth
  BY <1>2, <1>4 DEF ReadForAuth, Read
<1>5. ASSUME server' = [op |-> "sweep", rows |-> row, key |-> None], UNCHANGED <<clock, row, lastSweep>>
      PROVE  SweepInv'
  BY <1>5 DEF SweepInv, Listening
<1>6. CASE ReadForSweep
  BY <1>5, <1>6 DEF ReadForSweep, Read
<1>7. CASE StartServer
  BY <1>5, <1>7 DEF StartServer
<1>8. CASE StopServer
  BY <1>8, IdleIsTask DEF StopServer, SweepInv, Listening
<1>9. CASE RefuseClaim
  <2>1. Listening /\ lastSweep' = lastSweep
    BY <1>9 DEF RefuseClaim, Listening
  <2>2. Answer({Wiped(r) : r \in server.rows}) \/ Answer(row)
    BY <1>9 DEF RefuseClaim
  <2>3. \A s \in {Wiped(r) : r \in server.rows} : s.secretPlain = None
    BY <1>1, ExpiryStays DEF Copies
  <2>4. \A s \in row : s.secretPlain # None => lastSweep < s.claimExpiresAt
    BY <2>1 DEF SweepInv, Copies
  <2> QED BY <2>1, <2>2, <2>3, <2>4, AnswerKeepsSweepInv
<1>10. CASE AcceptClaim
  <2>1. PICK r \in server.rows : Answer({Claimed(r)})
    BY <1>10 DEF AcceptClaim
  <2>2. Listening /\ lastSweep' = lastSweep
    BY <1>10 DEF AcceptClaim, Listening
  <2>3. Claimed(r).secretPlain # None => lastSweep < Claimed(r).claimExpiresAt
    BY <1>1, <2>2, ExpiryStays DEF SweepInv, Copies
  <2> QED BY <2>1, <2>2, <2>3, AnswerKeepsSweepInv
<1>11. CASE Authenticate
  <2>1. Listening /\ lastSweep' = lastSweep
    BY <1>11 DEF Authenticate, Listening
  <2>2. Answer({Touched(r) : r \in server.rows}) \/ Answer(row)
    BY <1>11 DEF Authenticate
  <2>3. \A s \in {Touched(r) : r \in server.rows} : s.secretPlain # None => lastSweep < s.claimExpiresAt
    BY <1>1, <2>1, ExpiryStays DEF SweepInv, Copies
  <2>4. \A s \in row : s.secretPlain # None => lastSweep < s.claimExpiresAt
    BY <2>1 DEF SweepInv, Copies
  <2> QED BY <2>1, <2>2, <2>3, <2>4, AnswerKeepsSweepInv
<1>12. CASE Sweep
  <2>1. /\ server.op = "sweep" /\ lastSweep' = clock /\ server' = Idle /\ UNCHANGED clock
        /\ row' = row \/ row' = {Wiped(r) : r \in server.rows}
    BY <1>12 DEF Sweep, Answer
  <2>2. ASSUME NEW s \in row', s.secretPlain # None PROVE clock < s.claimExpiresAt
    <3>1. CASE row' = {Wiped(r) : r \in server.rows}
      BY <1>1, <2>2, <3>1, ExpiryStays DEF Copies
    <3>2. CASE /\ ~\E r \in server.rows : r.secretPlain # None /\ ~IsClaimOpen(r)
               /\ row' = row
      <4>1. s \in server.rows \/ clock < s.claimExpiresAt
        BY <2>1, <2>2, <3>2 DEF SweepInv
      <4>2. s \in server.rows => IsClaimOpen(s)
        BY <2>2, <3>2
      <4>3. IsClaimOpen(s) => clock < s.claimExpiresAt
        BY <1>1, <2>2, <3>2 DEF IsClaimOpen, IsOver, Copies
      <4> QED BY <4>1, <4>2, <4>3
    <3> QED BY <1>12, <3>1, <3>2 DEF Sweep, Answer
  <2>3. Copies' = row'
    BY <2>1, IdleIsTask DEF Copies
  <2> QED BY <1>1, <2>1, <2>2, <2>3, IdleIsTask, ConsumersAssumption DEF SweepInv
<1>13. CASE ReadForMint \/ ReadForRevoke
  BY <1>13 DEF ReadForMint, ReadForRevoke, ReadForCommand, SweepInv, Listening, Copies
<1>14. CASE Mint
  <2> DEFINE s == Minted(mints + 1)
  <2>1. row' = {s} /\ UNCHANGED <<clock, server, lastSweep>>
    BY <1>14 DEF Mint
  <2>2. clock < s.claimExpiresAt
    BY <1>1, ConsumersAssumption DEF Minted
  <2> HIDE DEF s
  <2>3. lastSweep < s.claimExpiresAt
    <3>1. s.claimExpiresAt \in Nat
      BY <2>1 DEF TypeOK, AtMostOne, Consumer
    <3> QED BY <1>1, <2>2, <3>1 DEF SweepInv
  <2> QED BY <2>1, <2>2, <2>3 DEF SweepInv, Listening, Copies
<1>15. CASE Revoke
  <2> DEFINE f(r) == [Wiped(r) EXCEPT !.revoked = TRUE]
  <2>1. row' = {f(r) : r \in cli.rows} /\ UNCHANGED <<clock, server, lastSweep>>
    BY <1>15 DEF Revoke
  <2>a. \A r \in cli.rows : f(r).secretPlain = None
    BY RevokedFacts DEF TypeOK, IsTask, AtMostOne
  <2> HIDE DEF f
  <2>2. \A s \in row' : s.secretPlain = None
    BY <2>1, <2>a
  <2> QED BY <2>1, <2>2 DEF SweepInv, Listening, Copies
<1>16. CASE Tick
  <2>1. /\ clock' = clock + 1 /\ UNCHANGED <<row, server, lastSweep>> /\ server.op # "sweep"
        /\ server.op \in {"idle", "down"} /\ (server.op = "idle" => clock < lastSweep + SweepEvery)
    BY <1>16 DEF Tick
  <2>2. SweepEvery \in Nat
    BY ConsumersAssumption
  <2> QED BY <1>1, <2>1, <2>2 DEF SweepInv, Listening, Copies
<1>17. CASE UNCHANGED vars
  BY <1>17 DEF vars, SweepInv, Listening, Copies
<1> QED BY <1>3, <1>4, <1>6, <1>7, <1>8, <1>9, <1>10, <1>11, <1>12, <1>13, <1>14, <1>15, <1>16, <1>17
        DEF Next

\* While the server listens, a plain secret outlives its TTL by less than one interval, for any
\* TTL and interval and whatever a command writes while the sweep has the row (sweepClosedClaims).
THEOREM ExpiredSecretsGo == Spec => []ExpiredSecretsSwept
<1>1. Init => ConsumersInv /\ SweepInv
  BY InitInv, IdleIsTask DEF Init, SweepInv, Listening
<1>2. ConsumersInv /\ SweepInv /\ [Next]_vars => ConsumersInv' /\ SweepInv'
  <2> SUFFICES ASSUME ConsumersInv, SweepInv, [Next]_vars PROVE ConsumersInv' /\ SweepInv'
    OBVIOUS
  <2>1. ConsumersInv'
    BY NextKeepsInv
  <2> QED BY <2>1, SweepInvInductive DEF ConsumersInv
<1>3. ConsumersInv /\ SweepInv => ExpiredSecretsSwept
  <2> SUFFICES ASSUME ConsumersInv, SweepInv, Listening, NEW r \in row, r.secretPlain # None
               PROVE  clock < r.claimExpiresAt + SweepEvery
    BY DEF ExpiredSecretsSwept, Listening
  <2>1. clock \in Nat /\ lastSweep \in Nat /\ r.claimExpiresAt \in Nat /\ SweepEvery \in Nat
    BY ConsumersAssumption DEF ConsumersInv, TypeOK, AtMostOne, Consumer
  <2>2. clock <= lastSweep + SweepEvery /\ lastSweep < r.claimExpiresAt
    BY DEF SweepInv, Copies
  <2> QED BY <2>1, <2>2
<1> QED BY <1>1, <1>2, <1>3, PTL DEF Spec

-----------------------------------------------------------------------------
(* Open claims. *)

\* No copy has counted a claim that was not answered.
Uncounted == \A r \in Copies \cup cli.rows : r.claimCount <= claims[r.claimId]

(* What a rewriting does to the count. *)
LEMMA CountStays ==
    ASSUME NEW r \in Consumer
    PROVE  /\ Wiped(r).claimCount = r.claimCount /\ Wiped(r).claimId = r.claimId
           /\ Touched(r).claimCount = r.claimCount /\ Touched(r).claimId = r.claimId
           /\ LET s == [Wiped(r) EXCEPT !.revoked = TRUE] IN
              s.claimCount = r.claimCount /\ s.claimId = r.claimId
BY DEF Consumer, Wiped, Touched

LEMMA UncountedInductive ==
    ASSUME ConsumersInv, ConsumersInv', Uncounted, [Next]_vars
    PROVE  Uncounted'
<1>1. /\ \A r \in Copies \cup cli.rows : r \in Consumer /\ r.claimId \in Mints /\ r.claimCount \in Nat
      /\ claims \in [Mints -> Nat]
  BY DEF ConsumersInv, TypeOK, AtMostOne, IsTask, Copies, Consumer
<1>2. ASSUME NEW rows, Answer(rows), UNCHANGED claims,
             rows = row \/ rows = {Wiped(r) : r \in server.rows} \/ rows = {Touched(r) : r \in server.rows}
      PROVE  Uncounted'
  <2>1. row' = rows /\ server'.rows = {} /\ UNCHANGED <<cli, claims>>
    BY <1>2, IdleIsTask DEF Answer
  <2>2. \A s \in rows : s.claimCount <= claims[s.claimId]
    <3>1. \A s \in rows : \E r \in Copies : s = r \/ s = Wiped(r) \/ s = Touched(r)
      BY <1>2 DEF Copies
    <3> QED BY <1>1, <3>1, CountStays DEF Uncounted
  <2> QED BY <2>1, <2>2 DEF Uncounted, Copies
<1>3. ASSUME server'.rows \subseteq row, UNCHANGED <<row, cli, claims>> PROVE Uncounted'
  BY <1>3 DEF Uncounted, Copies
<1>4. CASE ReadForClaim
  BY <1>3, <1>4 DEF ReadForClaim, Read, ghosts
<1>5. CASE ReadForAuth
  BY <1>3, <1>5 DEF ReadForAuth, Read, ghosts
<1>6. CASE ReadForSweep
  BY <1>3, <1>6 DEF ReadForSweep, Read, ghosts
<1>7. CASE StartServer
  BY <1>3, <1>7 DEF StartServer, ghosts
<1>8. CASE StopServer
  BY <1>3, <1>8, IdleIsTask DEF StopServer, ghosts
<1>9. CASE RefuseClaim
  BY <1>2, <1>9 DEF RefuseClaim, ghosts
<1>10. CASE Authenticate
  BY <1>2, <1>10 DEF Authenticate, ghosts
<1>11. CASE Sweep
  BY <1>2, <1>11 DEF Sweep, ghosts
<1>12. CASE AcceptClaim
  <2>1. PICK r \in server.rows :
           /\ IsClaimOpen(r) /\ Answer({Claimed(r)})
           /\ claims' = [claims EXCEPT ![server.key] = claims[server.key] + 1]
    BY <1>12 DEF AcceptClaim
  <2>2. /\ r \in Consumer /\ server.key = r.claimId /\ r.claimId \in Mints
        /\ r.claimCount <= claims[r.claimId]
    BY <1>1, <1>12 DEF AcceptClaim, ConsumersInv, CopiesAgree, Copies, Uncounted
  <2>3. Claimed(r).claimCount = r.claimCount + 1 /\ Claimed(r).claimId = r.claimId
    BY <2>1, <2>2, ClaimedFacts
  <2>4. \A k \in Mints : claims'[k] >= claims[k] /\ claims'[k] \in Nat
    BY <1>1, <2>1, <2>2
  <2>5. claims'[r.claimId] = claims[r.claimId] + 1
    BY <1>1, <2>1, <2>2
  <2>6. Claimed(r).claimCount <= claims'[Claimed(r).claimId]
    BY <1>1, <2>2, <2>3, <2>5, ConsumerFields
  <2>7. \A s \in cli.rows : s.claimCount <= claims'[s.claimId]
    BY <1>1, <2>4 DEF Uncounted
  <2>8. row' = {Claimed(r)} /\ server'.rows = {} /\ cli' = cli
    BY <2>1, IdleIsTask DEF Answer
  <2> QED BY <2>6, <2>7, <2>8 DEF Uncounted, Copies
<1>13. CASE ReadForMint \/ ReadForRevoke
  <2>1. cli'.rows = row /\ UNCHANGED <<row, server, claims>>
    BY <1>13 DEF ReadForMint, ReadForRevoke, ReadForCommand, ghosts
  <2> QED BY <2>1 DEF Uncounted, Copies
<1>14. CASE Mint
  <2>1. row' = {Minted(mints + 1)} /\ cli'.rows = {} /\ UNCHANGED <<server, claims>>
    BY <1>14, IdleIsTask DEF Mint
  <2>2. /\ Minted(mints + 1).claimCount = 0 /\ Minted(mints + 1).claimId = mints + 1
        /\ mints + 1 \in Mints
    BY <2>1, ConsumersAssumption DEF Minted, ConsumersInv, TypeOK, AtMostOne, Consumer
  <2>3. 0 <= claims[mints + 1]
    BY <1>1, <2>2
  <2> QED BY <2>1, <2>2, <2>3 DEF Uncounted, Copies
<1>15. CASE Revoke
  <2> DEFINE f(r) == [Wiped(r) EXCEPT !.revoked = TRUE]
  <2>1. row' = {f(r) : r \in cli.rows} /\ cli'.rows = {} /\ UNCHANGED <<server, claims>>
    BY <1>15, IdleIsTask DEF Revoke
  <2>2. \A r \in cli.rows : f(r).claimCount = r.claimCount /\ f(r).claimId = r.claimId
    BY <1>1, CountStays
  <2> HIDE DEF f
  <2> QED BY <2>1, <2>2 DEF Uncounted, Copies
<1>16. CASE Tick
  BY <1>16 DEF Tick, Uncounted, Copies, ghosts
<1>17. CASE UNCHANGED vars
  BY <1>17 DEF vars, Uncounted, Copies
<1> QED BY <1>4, <1>5, <1>6, <1>7, <1>8, <1>9, <1>10, <1>11, <1>12, <1>13, <1>14, <1>15, <1>16, <1>17
        DEF Next

(* An open claim of the row, and a server without a stale copy. *)
LEMMA OpenClaimStep ==
    ASSUME ConsumersInv, Uncounted, [Next]_vars, NEW r \in row, IsClaimOpen(r), server.rows \subseteq row,
           cli' = cli, clock' = clock, ~\E s \in row' : s.claimId = r.claimId /\ IsClaimOpen(s)'
    PROVE  claims'[r.claimId] = MaxClaims
<1>1. /\ r \in Consumer /\ \A s \in row : s = r
      /\ \A s \in server.rows : s = r
  BY DEF ConsumersInv, TypeOK, AtMostOne
<1>2. \A s : IsClaimOpen(s)' <=> /\ ~s.revoked /\ ~(s.claimExpiresAt <= clock)
                                /\ ~(s.claimCount >= MaxClaims) /\ s.secretPlain # None
  BY DEF IsClaimOpen, IsOver
<1>3. /\ ~r.revoked /\ ~(r.claimExpiresAt <= clock) /\ ~(r.claimCount >= MaxClaims)
      /\ r.secretPlain # None
  BY DEF IsClaimOpen, IsOver
<1>4. r \notin row'
  BY <1>2, <1>3
<1>5. ~ReadForClaim /\ ~ReadForAuth /\ ~ReadForSweep /\ ~StartServer /\ ~StopServer /\ ~Tick
      /\ ~ReadForMint /\ ~ReadForRevoke /\ ~UNCHANGED vars
  BY <1>4 DEF ReadForClaim, ReadForAuth, ReadForSweep, Read, StartServer, StopServer, Tick, ReadForMint,
              ReadForRevoke, ReadForCommand, vars
<1>6. ~Mint /\ ~Revoke
  BY DEF Mint, Revoke, Idle
<1>7. ~RefuseClaim /\ ~Sweep
  BY <1>1, <1>4 DEF RefuseClaim, Sweep, Answer
<1>8. ~Authenticate
  <2>1. SUFFICES ASSUME Authenticate PROVE FALSE
    OBVIOUS
  <2>2. row' = {Touched(s) : s \in server.rows} /\ r \in server.rows
    BY <1>1, <1>4, <2>1 DEF Authenticate, Answer
  <2>3. Touched(r) = [r EXCEPT !.authenticated = TRUE]
    BY DEF Touched
  <2>4. /\ Touched(r).revoked = r.revoked /\ Touched(r).claimExpiresAt = r.claimExpiresAt
        /\ Touched(r).claimCount = r.claimCount /\ Touched(r).secretPlain = r.secretPlain
        /\ Touched(r).claimId = r.claimId
    BY <1>1, <2>3 DEF Consumer
  <2>5. Touched(r) \in row'
    BY <2>2
  <2> QED BY <1>2, <1>3, <2>4, <2>5
<1>9. CASE AcceptClaim
  <2>1. /\ row' = {Claimed(r)} /\ server.key = r.claimId /\ r \in server.rows
        /\ claims' = [claims EXCEPT ![server.key] = claims[server.key] + 1]
    BY <1>1, <1>9 DEF AcceptClaim, Answer, ConsumersInv, CopiesAgree
  <2>2. r.claimCount \in Nat /\ claims[r.claimId] \in Nat /\ claims[r.claimId] = r.claimCount
    BY <1>1, <1>3, ConsumerFields DEF ConsumersInv, TypeOK, CopiesAgree, Copies, Uncounted
  <2>3. r.claimCount + 1 >= MaxClaims
    <3>1. SUFFICES ASSUME ~(r.claimCount + 1 >= MaxClaims) PROVE FALSE
      OBVIOUS
    <3> DEFINE counted == [r EXCEPT !.claimCount = r.claimCount + 1]
    <3>2. counted.claimCount = r.claimCount + 1 /\ counted.revoked = r.revoked
          /\ counted.claimExpiresAt = r.claimExpiresAt /\ counted.secretPlain = r.secretPlain
          /\ counted.claimId = r.claimId
      BY <1>1 DEF Consumer
    <3>3. Claimed(r) = counted
      BY <3>1, <3>2 DEF Claimed
    <3> QED BY <1>2, <1>3, <2>1, <3>1, <3>2, <3>3
  <2>4. MaxClaims \in Nat /\ claims'[r.claimId] = claims[r.claimId] + 1
    BY <1>1, <2>1, ConsumersAssumption, ConsumerFields DEF ConsumersInv, TypeOK
  <2> QED BY <1>3, <2>2, <2>3, <2>4
<1> QED BY <1>5, <1>6, <1>7, <1>8, <1>9 DEF Next

\* A claim closes by its TTL, its last use or a command only, for any number of claims, in
\* particular not by the consumer's first authenticated request (touchConsumer, basicAuth).
THEOREM ClaimsStayOpen == Spec => OpenClaimStaysOpen
<1>1. Init => ConsumersInv /\ Uncounted
  BY InitInv, IdleIsTask DEF Init, Uncounted, Copies
<1>2. ConsumersInv /\ Uncounted /\ [Next]_vars => ConsumersInv' /\ Uncounted'
  BY NextKeepsInv, UncountedInductive
<1>3. ConsumersInv /\ Uncounted /\ [Next]_vars =>
        [\A r \in row :
            /\ IsClaimOpen(r)
            /\ server.rows \subseteq row
            /\ ~\E s \in row' : s.claimId = r.claimId /\ IsClaimOpen(s)'
            => cli' # cli \/ clock' # clock \/ claims'[r.claimId] = MaxClaims]_vars
  BY OpenClaimStep
<1> QED BY <1>1, <1>2, <1>3, PTL DEF Spec, OpenClaimStaysOpen

=============================================================================
