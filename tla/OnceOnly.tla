------------------------------ MODULE OnceOnly ------------------------------
(***************************************************************************)
(* What an Idempotency-Key promises to the client that sends it.           *)
(*                                                                         *)
(* A request acts at most once until its outcome is forgotten, and every   *)
(* answer a retry gets is the answer of that one act.  The modules that    *)
(* implement it are Idempotency (claim, complete, cancel_for_retry) and    *)
(* the refinement Idempotency!Once.                                        *)
(***************************************************************************)
CONSTANTS
    Clients,   \* calls made with the key
    Payloads   \* requests they may carry

VARIABLES
    acted,     \* the payload of the act that is remembered, as a set
    answer     \* Clients -> [asked, given]: the request and whose outcome it got

onceVars == <<acted, answer>>

Unanswered == [asked |-> "none", given |-> {}]

OnceInit ==
    /\ acted = {}
    /\ answer = [c \in Clients |-> Unanswered]

\* The mutation commits, or the provider accepts the message.
Act(b) ==
    /\ acted = {}
    /\ acted' = {b}

\* A call ends with an error, or with the outcome of the act if that was its request.
Answer(c) ==
    \E b \in Payloads, given \in {{}, acted'} :
        /\ given \subseteq {b}
        /\ answer' = [answer EXCEPT ![c] = [asked |-> b, given |-> given]]

\* The record's lifetime is over.
Forget ==
    /\ acted # {}
    /\ acted' = {}
    /\ UNCHANGED answer

\* Processes stop: what they were about to answer is lost.
Interrupted ==
    /\ \E gone \in SUBSET Clients :
          answer' = [c \in Clients |-> IF c \in gone THEN Unanswered ELSE answer[c]]
    /\ UNCHANGED acted

OnceNext ==
    \/ \E b \in Payloads : Act(b) /\ (UNCHANGED answer \/ \E c \in Clients : Answer(c))
    \/ \E c \in Clients : Answer(c) /\ UNCHANGED acted
    \/ Forget
    \/ Interrupted

OnceSpec == OnceInit /\ [][OnceNext]_onceVars

============================================================================
