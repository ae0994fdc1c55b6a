------------------------------- MODULE Recovery -------------------------------
(***************************************************************************)
(* What a consumer is promised of the recoveries it drives with SMS codes  *)
(* (src/investments/manual-recovery.ts, and the manual recovery of         *)
(* store.ts): a request asks for one SMS at most, and no retry of it for   *)
(* another; a code is required only after the SMS; a recovery completes    *)
(* with its code, or without any SMS, and does not expire once its code is *)
(* accepted; and what it came to is decided once.  InvestmentRuntime, with *)
(* its collections, browsers, timers and restarts, implements it.          *)
(***************************************************************************)
EXTENDS Naturals

CONSTANT Requests

None == "none"

VARIABLES
    current,  \* the id of the latest recovery of the process
    status,   \* what a consumer is told of it
    sent,     \* has its SMS been asked for?  FALSE again when it has settled
    saved,    \* what is on disk for each id
    messages  \* the SMS asked for by recoveries, since ever

vars == <<current, status, sent, saved, messages>>

Live == status \in {"starting", "awaiting_code", "verifying"}

\* What a recovery may come to in its state.
MaySettle(outcome) ==
    /\ Live
    /\ outcome = "complete" => status = "verifying" \/ (status = "starting" /\ ~sent)
    /\ outcome = "expired" => status \in {"starting", "awaiting_code"}

Init ==
    /\ current = None /\ status = None /\ ~sent
    /\ saved = [id \in Requests |-> None] /\ messages = 0

\* An id that is known asks for nothing; old ids may be forgotten when a new one is saved.
Ask(id) ==
    /\ ~Live /\ current # id /\ saved[id] = None
    /\ current' = id /\ status' = "starting" /\ sent' = FALSE
    /\ \E forgotten \in SUBSET (Requests \ {id}) :
          saved' = [r \in Requests |-> IF r = id THEN "interrupted"
                                       ELSE IF r \in forgotten THEN None ELSE saved[r]]
    /\ UNCHANGED messages

SendSms ==
    /\ status = "starting" /\ ~sent
    /\ sent' = TRUE /\ messages' = messages + 1
    /\ UNCHANGED <<current, status, saved>>

RequireCode ==
    /\ status = "starting" /\ sent
    /\ status' = "awaiting_code"
    /\ UNCHANGED <<current, sent, saved, messages>>

AcceptCode ==
    /\ status = "awaiting_code"
    /\ status' = "verifying"
    /\ UNCHANGED <<current, sent, saved, messages>>

\* The outcome may fail to be saved, and the id then stays one that was interrupted.
Settle(outcome) ==
    /\ MaySettle(outcome)
    /\ status' = outcome /\ sent' = FALSE
    /\ saved' \in {saved, [saved EXCEPT ![current] = outcome]}
    /\ UNCHANGED <<current, messages>>

\* The process ends; what is saved stays.
Restart ==
    /\ current' = None /\ status' = None /\ sent' = FALSE
    /\ UNCHANGED <<saved, messages>>

Next ==
    \/ \E id \in Requests : Ask(id)
    \/ SendSms \/ RequireCode \/ AcceptCode
    \/ \E outcome \in {"complete", "failed", "canceled", "expired"} : Settle(outcome)
    \/ Restart

Spec == Init /\ [][Next]_vars

=============================================================================
