------------------------------- MODULE Consumers -------------------------------
(***************************************************************************)
(* A SimpleFIN consumer's row: minting and rotating its setup token        *)
(* (src/simplefin/consumers.ts), claiming it (claim.ts), authenticating    *)
(* with the claimed secret (app.ts) and sweeping closed claims (server.ts).*)
(*                                                                         *)
(* Every operation reads one row, decides, and writes the whole row back;  *)
(* the rows of two consumers never meet, so one is modelled.  The server   *)
(* answers its requests one at a time (scryptSync blocks the event loop),  *)
(* but the operator's commands run in a process of their own and may come  *)
(* between a read and the write that follows it.  A write is one SQL       *)
(* statement that sets every column.                                       *)
(*                                                                         *)
(* A mint draws a fresh secret and a fresh claim id; both are represented  *)
(* by the number of the mint.  Time is in units of the sweep's resolution; *)
(* an operation takes none.  The ledger itself never fails here.           *)
(***************************************************************************)
EXTENDS Integers

CONSTANTS
    MaxClaims,  \* config.server.maxClaims
    ClaimTtl,   \* config.server.claimTtlMinutes
    SweepEvery, \* the sweep's interval
    MaxMints,   \* bound on the mints, for model checking
    MaxClock    \* bound on the clock, for model checking

ASSUME ConsumersAssumption ==
    /\ MaxClaims \in Nat \ {0} /\ ClaimTtl \in Nat \ {0} /\ SweepEvery \in Nat \ {0}
    /\ MaxMints \in Nat /\ MaxClock \in Nat

VARIABLES
    clock,
    row,        \* the consumers row: at most one
    mints,      \* mints drawn so far
    server,     \* what the server is doing and the copy of the row it holds
    lastSweep,  \* when the running server swept last
    cli,        \* what the operator's command is doing and the copy it holds
    handed,     \* handed[k]: the secrets consumers got for setup token k
    \* Observation only.
    claims      \* claims[k]: claims of setup token k that returned an Access URL

vars == <<clock, row, mints, server, lastSweep, cli, claims, handed>>

Mints == 1..MaxMints
None == 0
Consumer == [secretHash : Mints, secretPlain : Mints \cup {None}, claimId : Mints,
             claimExpiresAt : Nat, claimCount : Nat, authenticated : BOOLEAN,
             revoked : BOOLEAN]
AtMostOne(rows) == rows \subseteq Consumer /\ \A r, s \in rows : r = s

Idle == [op |-> "idle", rows |-> {}, key |-> None]
Down == [op |-> "down", rows |-> {}, key |-> None]

-----------------------------------------------------------------------------
\* isClaimOpen and rejectionReason: TTL, maxClaims, revocation, then the plain secret.
IsOver(r) == r.revoked \/ r.claimExpiresAt <= clock \/ r.claimCount >= MaxClaims
IsClaimOpen(r) == ~IsOver(r) /\ r.secretPlain # None

Wiped(r) == [r EXCEPT !.secretPlain = None]

\* Faulty: a rotation renews the claim and forgets the hash.
WrongMinted(k) == [secretHash |-> 1, secretPlain |-> k, claimId |-> k,
                   claimExpiresAt |-> clock + ClaimTtl, claimCount |-> 0,
              authenticated |-> FALSE, revoked |-> FALSE]

\* mintConsumerToken: the k-th secret and claim, whatever row there was.
Minted(k) == [secretHash |-> k, secretPlain |-> k, claimId |-> k,
              claimExpiresAt |-> clock + ClaimTtl, claimCount |-> 0,
              authenticated |-> FALSE, revoked |-> FALSE]

\* A successful claim: the last one takes the plain secret with it.  (An operator named
\* Wrong... is the faulty variant of the definition that follows it, which the properties are
\* tested against; no specification uses it.)
Claimed(r) ==
    LET counted == [r EXCEPT !.claimCount = r.claimCount + 1]
    IN  IF counted.claimCount >= MaxClaims THEN Wiped(counted) ELSE counted

\* touchConsumer, as far as a decision reads it.
\* Faulty: the first authenticated request closes the claim.
WrongTouched(r) == [Wiped(r) EXCEPT !.authenticated = TRUE]
Touched(r) == [(IF IsClaimOpen(r) THEN r ELSE Wiped(r)) EXCEPT !.authenticated = TRUE]

-----------------------------------------------------------------------------
Init ==
    /\ clock = 0 /\ row = {} /\ mints = 0 /\ lastSweep = 0
    /\ server = Down /\ cli = Idle
    /\ claims = [k \in Mints |-> 0] /\ handed = [k \in Mints |-> {}]

ghosts == <<claims, handed>>

\* The server reads the row for a claim of setup token k, for a request with a secret k that
\* a consumer was handed, or to sweep.
Read(op, k, rows) ==
    /\ server.op = "idle"
    /\ server' = [op |-> op, rows |-> rows, key |-> k]
    /\ UNCHANGED <<clock, row, mints, lastSweep, cli, ghosts>>

ReadForClaim == \E k \in 1..mints : Read("claim", k, {r \in row : r.claimId = k})
ReadForAuth  == \E j \in Mints : \E k \in handed[j] : Read("auth", k, row)
ReadForSweep == clock > lastSweep /\ Read("sweep", None, row)

\* A server that starts sweeps before it listens.
StartServer ==
    /\ server.op = "down"
    /\ server' = [op |-> "sweep", rows |-> row, key |-> None]
    /\ UNCHANGED <<clock, row, mints, lastSweep, cli, ghosts>>

StopServer ==
    /\ server.op # "down"
    /\ server' = Down
    /\ UNCHANGED <<clock, row, mints, lastSweep, cli, ghosts>>

\* updateConsumer is an upsert: it writes whatever has become of the row.
Answer(rows) ==
    /\ row' = rows
    /\ server' = Idle
    /\ UNCHANGED <<clock, mints, cli>>

\* handleClaim, refused: a claim that is over loses its plain secret at once.
RefuseClaim ==
    /\ server.op = "claim"
    /\ \A r \in server.rows : ~IsClaimOpen(r)
    /\ IF \E r \in server.rows : IsOver(r) /\ r.secretPlain # None
       THEN Answer({Wiped(r) : r \in server.rows})
       ELSE Answer(row)
    /\ UNCHANGED <<lastSweep, ghosts>>

\* Faulty: the claim is answered and not counted.
WrongAcceptClaim ==
    /\ server.op = "claim"
    /\ \E r \in server.rows :
          /\ IsClaimOpen(r)
          /\ claims' = [claims EXCEPT ![server.key] = claims[server.key] + 1]
          /\ handed' = [handed EXCEPT ![server.key] = handed[server.key] \cup {r.secretPlain}]
    /\ Answer(row)
    /\ UNCHANGED lastSweep

\* handleClaim, accepted: counted in the ledger before the URL goes out.
AcceptClaim ==
    /\ server.op = "claim"
    /\ \E r \in server.rows :
          /\ IsClaimOpen(r)
          /\ Answer({Claimed(r)})
          /\ claims' = [claims EXCEPT ![server.key] = claims[server.key] + 1]
          /\ handed' = [handed EXCEPT ![server.key] = handed[server.key] \cup {r.secretPlain}]
    /\ UNCHANGED lastSweep

\* basicAuth: the secret is checked against the copy, which is then written back.
Authenticate ==
    /\ server.op = "auth"
    /\ IF \E r \in server.rows : r.secretHash = server.key /\ ~r.revoked
       THEN Answer({Touched(r) : r \in server.rows})
       ELSE Answer(row)
    /\ UNCHANGED <<lastSweep, ghosts>>

\* Faulty: the sweep passes over claims that were never used.
WrongSweep ==
    /\ server.op = "sweep"
    /\ IF \E r \in server.rows : r.claimCount > 0 /\ r.secretPlain # None /\ ~IsClaimOpen(r)
       THEN Answer({Wiped(r) : r \in server.rows})
       ELSE Answer(row)
    /\ lastSweep' = clock
    /\ UNCHANGED ghosts

\* sweepClosedClaims.
Sweep ==
    /\ server.op = "sweep"
    /\ IF \E r \in server.rows : r.secretPlain # None /\ ~IsClaimOpen(r)
       THEN Answer({Wiped(r) : r \in server.rows})
       ELSE Answer(row)
    /\ lastSweep' = clock
    /\ UNCHANGED ghosts

ReadForCommand(op) ==
    /\ cli.op = "idle"
    /\ cli' = [op |-> op, rows |-> row, key |-> None]
    /\ UNCHANGED <<clock, row, mints, server, lastSweep, ghosts>>

ReadForMint   == mints < MaxMints /\ ReadForCommand("mint")
ReadForRevoke == row # {} /\ ReadForCommand("revoke")

\* mintConsumerToken, new or with rotate (without it an existing consumer is refused unchanged).
Mint ==
    /\ cli.op = "mint"
    /\ mints' = mints + 1
    /\ row' = {Minted(mints + 1)}
    /\ cli' = Idle
    /\ UNCHANGED <<clock, server, lastSweep, claims, handed>>

Revoke ==
    /\ cli.op = "revoke"
    /\ row' = {[Wiped(r) EXCEPT !.revoked = TRUE] : r \in cli.rows}
    /\ cli' = Idle
    /\ UNCHANGED <<clock, mints, server, lastSweep, claims, handed>>

\* Time passes while nobody is busy; a running server does not miss a sweep.
Tick ==
    /\ clock < MaxClock
    /\ cli.op = "idle" /\ server.op \in {"idle", "down"}
    /\ server.op = "idle" => clock < lastSweep + SweepEvery
    /\ clock' = clock + 1
    /\ UNCHANGED <<row, mints, server, lastSweep, cli, ghosts>>

Next ==
    \/ ReadForClaim \/ RefuseClaim \/ AcceptClaim
    \/ ReadForAuth \/ Authenticate
    \/ ReadForSweep \/ Sweep \/ StartServer \/ StopServer
    \/ ReadForMint \/ Mint \/ ReadForRevoke \/ Revoke
    \/ Tick

Spec == Init /\ [][Next]_vars

-----------------------------------------------------------------------------
(* Properties.  They hold although commands and requests interleave. *)

Ops == {"idle", "claim", "auth", "sweep", "mint", "revoke", "down"}
IsTask(t) ==
    /\ t = [op |-> t.op, rows |-> t.rows, key |-> t.key]
    /\ t.op \in Ops /\ AtMostOne(t.rows) /\ t.key \in Mints \cup {None}
TypeOK ==
    /\ clock \in Nat /\ lastSweep \in Nat /\ mints \in 0..MaxMints
    /\ AtMostOne(row) /\ IsTask(server) /\ IsTask(cli)
    /\ claims \in [Mints -> Nat]
    /\ handed \in [Mints -> SUBSET (Mints \cup {None})]

\* What makes ClaimBudget inductive: a live row, in the ledger or in the server's hands, has
\* counted at least the claims its token answered, and copies pair secret and claim rightly.
Copies == row \cup server.rows
CopiesAgree ==
    /\ \A r \in Copies \cup cli.rows :
          /\ r.secretHash = r.claimId /\ r.claimId <= mints
          /\ r.secretPlain # None => r.secretPlain = r.claimId
    /\ \A r \in Copies : ~r.revoked => claims[r.claimId] <= r.claimCount
    /\ \A r \in Copies : r.revoked \/ r.claimCount >= MaxClaims => r.secretPlain = None
    /\ \A k \in Mints : handed[k] \subseteq {k} /\ (k > mints => claims[k] = 0)
    /\ server.op = "claim" => \A r \in server.rows : r.claimId = server.key
    /\ cli.op = "mint" => mints < MaxMints

\* A setup token returns its Access URL at most maxClaims times over its life, although a
\* whole row, claim count included, may be written back after a command changed it.
ClaimBudget == \A k \in Mints : claims[k] <= MaxClaims

\* Every Access URL a token ever returned carries the secret that the ledger's hash accepts
\* while that token is the current one: a re-claim never invalidates an earlier URL.
HandedSecretsWork == \A r \in row : handed[r.claimId] \subseteq {r.secretHash}

\* A revoked or exhausted claim leaves no plain secret in the ledger.
SpentClaimsHoldNoSecret ==
    \A r \in row : r.revoked \/ r.claimCount >= MaxClaims => r.secretPlain = None

\* While the server listens, an unused token's plain secret outlives its TTL by less than one
\* sweep interval; a restart sweeps before it listens.
ExpiredSecretsSwept ==
    server.op \in {"idle", "claim", "auth"} =>
        \A r \in row : r.secretPlain # None => clock < r.claimExpiresAt + SweepEvery

\* An open claim closes for three reasons only: its TTL, its last claim, or an operator's
\* command.  In particular the consumer's first authenticated request does not close it, so a
\* connect that failed half-way can be repeated with the same token.  The comment of
\* touchConsumer and docs/securo-simplefin-contract.md say so too; what `bridge mint-token`
\* prints ("none after the first authenticated sync") says the opposite and is not so.
OpenClaimStaysOpen ==
    [][\A r \in row :
          /\ IsClaimOpen(r)
          /\ server.rows \subseteq row
          /\ ~\E s \in row' : s.claimId = r.claimId /\ IsClaimOpen(s)'
          => cli' # cli \/ clock' # clock \/ claims'[r.claimId] = MaxClaims]_vars

=============================================================================
