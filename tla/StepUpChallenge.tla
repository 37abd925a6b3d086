--------------------------- MODULE StepUpChallenge ---------------------------
(***************************************************************************)
(* Step-up: before a privileged call a carbon proves one of its contacts   *)
(* again and receives an assertion that is bound to the login session, the *)
(* action and the resource, lives for five minutes and is consumed in the  *)
(* transaction of the call.  Login sessions may be revoked at any moment,  *)
(* which leaves their challenges and assertions as they are.               *)
(*                                                                         *)
(* Sources: src/features/authentication/step_up.rs,                        *)
(*          src/infrastructure/postgres/step_up.rs.                        *)
(*                                                                         *)
(* Challenge transactions are SERIALIZABLE and consume holds the locks of  *)
(* principal, session and assertion until the caller commits: each is one  *)
(* action, and a caller that rolls back is a step that does nothing.       *)
(* Verification under a used key only replays its answer.                  *)
(***************************************************************************)
EXTENDS OtpAttempts, FiniteSets, Sequences

CONSTANTS
    LoginSessions,   \* login sessions of one carbon
    Targets,         \* pairs of an action and the resource it is restricted to
    StepUpRequests,  \* idempotency keys of create_challenge
    SessionAsking,   \* the login session that makes a request
    TargetAsked,     \* what it wants to do
    MaxStepUps,      \* bound: challenges of the carbon
    AssertionTtl     \* ASSERTION_TTL_SECONDS, in ticks

ASSUME StepUpAssumption ==
    /\ OtpAssumption
    /\ MaxStepUps \in Nat /\ AssertionTtl \in Nat \ {0}
    /\ SessionAsking \in [StepUpRequests -> LoginSessions]
    /\ TargetAsked \in [StepUpRequests -> Targets]

StepUps == 1 .. MaxStepUps

VARIABLES
    loginSession,   \* iam.authentication_sessions
    stepUp,         \* iam.step_up_challenges: status and delivery_status
    askedWith,      \* the key whose request created the challenge
    codeTtl,        \* remaining life of the code
    codeAttempts,   \* attempt_count and cooldown_until
    sending,        \* what the API process still has to do for the challenge
    message,        \* what the provider did with its message
    requestRecord,  \* iam.idempotency_records of the requests
    assertion,      \* iam.step_up_assertions of each challenge
    acts,           \* history: privileged calls committed with each assertion
    wrongCodes      \* history: wrong codes per session and target since a cooldown

codes == <<askedWith, codeTtl, sending, message, requestRecord>>
stepUpVars == <<loginSession, stepUp, askedWith, codeTtl, codeAttempts, sending,
                message, requestRecord, assertion, acts, wrongCodes>>

NoStepUp == [status |-> "absent", delivery |-> "pending"]
NoAssertion == [status |-> "none", ttl |-> 0]
StepUpScope(s, t) ==
    {c \in StepUps : /\ stepUp[c].status # "absent"
                     /\ SessionAsking[askedWith[c]] = s
                     /\ TargetAsked[askedWith[c]] = t}
StepUpSession(c) == SessionAsking[askedWith[c]]
StepUpTarget(c) == TargetAsked[askedWith[c]]

StepUpInit ==
    /\ loginSession = [s \in LoginSessions |-> "active"]
    /\ stepUp = [c \in StepUps |-> NoStepUp]
    /\ askedWith = [c \in StepUps |-> "nobody"]
    /\ codeTtl = [c \in StepUps |-> 0]
    /\ codeAttempts = [c \in StepUps |-> NoAttempts]
    /\ sending = [c \in StepUps |-> "idle"]
    /\ message = [c \in StepUps |-> "none"]
    /\ requestRecord = [k \in StepUpRequests |-> "none"]
    /\ assertion = [c \in StepUps |-> NoAssertion]
    /\ acts = [c \in StepUps |-> <<>>]
    /\ wrongCodes = [s \in LoginSessions |-> [t \in Targets |-> 0]]

\* The session is logged out; its challenges and assertions are not touched.
RevokeSession(s) ==
    /\ loginSession[s] = "active"
    /\ loginSession' = [loginSession EXCEPT ![s] = "revoked"]
    /\ UNCHANGED <<stepUp, codes, codeAttempts, assertion, acts, wrongCodes>>

----------------------------------------------------------------------------
(* Creation and delivery *)

\* The challenges that create_challenge cancels, whether expired or not.
StepUpsSuperseded(s, t) == {c \in StepUpScope(s, t) : stepUp[c].status = "pending"}

CancelledStepUp(row) ==
    [status |-> "cancelled",
     delivery |-> IF row.delivery = "pending" THEN "failed" ELSE row.delivery]

\* lock_current_session: creation and verification hold the session's row.
CurrentSession(s) == loginSession[s] = "active"

\* create_challenge up to its commit.
CreateStepUp(c, k) ==
    LET s == SessionAsking[k]
        t == TargetAsked[k] IN
    /\ requestRecord[k] = "none"
    /\ CurrentSession(s)
    /\ stepUp[c].status = "absent"
    /\ \A d \in 1 .. (c - 1) : stepUp[d].status # "absent"
    /\ stepUp' = [d \in StepUps |->
         CASE d = c -> [status |-> "pending", delivery |-> "pending"]
           [] d \in StepUpsSuperseded(s, t) -> CancelledStepUp(stepUp[d])
           [] OTHER -> stepUp[d]]
    /\ askedWith' = [askedWith EXCEPT ![c] = k]
    /\ codeTtl' = [codeTtl EXCEPT ![c] = Ttl]
    /\ codeAttempts' = [codeAttempts EXCEPT ![c] =
         InheritedAttemptState({codeAttempts[d] : d \in StepUpsSuperseded(s, t)})]
    /\ sending' = [sending EXCEPT ![c] = "sending"]
    /\ requestRecord' = [requestRecord EXCEPT ![k] = "processing"]
    /\ UNCHANGED <<loginSession, message, assertion, acts, wrongCodes>>

\* send_required: with an unknown outcome the request ends here.
SendRequired(c) ==
    /\ sending[c] = "sending"
    /\ \E result \in ProviderResult :
         /\ message' = [message EXCEPT ![c] = result]
         /\ sending' = [sending EXCEPT ![c] =
              IF result = "ok" \/ Definitive(result) THEN "finalizing" ELSE "idle"]
    /\ UNCHANGED <<loginSession, stepUp, askedWith, codeTtl, codeAttempts,
                   requestRecord, assertion, acts, wrongCodes>>

\* The process stops, or the transaction that would finalize fails.
AbandonStepUp(c) ==
    /\ sending[c] # "idle"
    /\ sending' = [sending EXCEPT ![c] = "idle"]
    /\ message' = [message EXCEPT ![c] = IF @ = "none" THEN "unavailable" ELSE @]
    /\ UNCHANGED <<loginSession, stepUp, askedWith, codeTtl, codeAttempts,
                   requestRecord, assertion, acts, wrongCodes>>

\* The WHERE clause of the activation in confirm_step_up_delivery.
StepUpActivatable(c) ==
    /\ stepUp[c] = [status |-> "pending", delivery |-> "pending"]
    /\ codeTtl[c] > 0
    /\ loginSession[StepUpSession(c)] = "active"

\* confirm_step_up_delivery.
ConfirmStepUpDelivery(c) ==
    /\ sending[c] = "finalizing" /\ message[c] = "ok"
    /\ stepUp' = IF StepUpActivatable(c)
         THEN [stepUp EXCEPT ![c].delivery = "delivered"] ELSE stepUp
    /\ requestRecord' = [requestRecord EXCEPT ![askedWith[c]] =
         IF StepUpActivatable(c) THEN "completed" ELSE "none"]
    /\ sending' = [sending EXCEPT ![c] = "idle"]
    /\ UNCHANGED <<loginSession, askedWith, codeTtl, codeAttempts, message,
                   assertion, acts, wrongCodes>>

\* fail_step_up_delivery; a rejected replacement takes the count with it.
FailStepUpDelivery(c) ==
    LET cancels == stepUp[c] = [status |-> "pending", delivery |-> "pending"] IN
    /\ sending[c] = "finalizing" /\ Definitive(message[c])
    /\ stepUp' = IF cancels
         THEN [stepUp EXCEPT ![c] = CancelledStepUp(@)] ELSE stepUp
    /\ requestRecord' = [requestRecord EXCEPT ![askedWith[c]] = "none"]
    /\ sending' = [sending EXCEPT ![c] = "idle"]
    /\ wrongCodes' = IF cancels
         THEN [wrongCodes EXCEPT ![StepUpSession(c)][StepUpTarget(c)] = 0]
         ELSE wrongCodes
    /\ UNCHANGED <<loginSession, askedWith, codeTtl, codeAttempts, message,
                   assertion, acts>>

----------------------------------------------------------------------------
(* Verification, and the privileged call *)

\* STEP_UP_CHALLENGE_LOCK_QUERY, lock_current_session and the early returns of
\* verify_challenge.
StepUpVerifiable(c) ==
    /\ CurrentSession(StepUpSession(c))
    /\ stepUp[c] = [status |-> "pending", delivery |-> "delivered"]
    /\ codeTtl[c] > 0
    /\ codeAttempts[c].cooldown = 0

\* verify_challenge with the right code: the assertion is issued.
VerifyStepUp(c) ==
    /\ stepUp[c].status # "absent"
    /\ StepUpVerifiable(c)
    /\ stepUp' = [stepUp EXCEPT ![c].status = "completed"]
    /\ assertion' = [assertion EXCEPT ![c] =
         [status |-> "issued", ttl |-> AssertionTtl]]
    /\ wrongCodes' = [wrongCodes EXCEPT ![StepUpSession(c)][StepUpTarget(c)] = 0]
    /\ UNCHANGED <<loginSession, codes, codeAttempts, acts>>

\* verify_challenge with any other code.
FailStepUp(c) ==
    /\ stepUp[c].status # "absent"
    /\ StepUpVerifiable(c)
    /\ codeAttempts' = [codeAttempts EXCEPT ![c] = AfterFailure(@)]
    /\ wrongCodes' = [wrongCodes EXCEPT ![StepUpSession(c)][StepUpTarget(c)] =
         IF codeAttempts'[c].cooldown > 0 THEN 0 ELSE @ + 1]
    /\ UNCHANGED <<loginSession, stepUp, codes, assertion, acts>>

\* Mutant of AuthorityActive: an assertion is enough.
AuthorityAsserted(s) == s \in LoginSessions

\* lock_active_authority.
AuthorityActive(s) == loginSession[s] = "active"

\* Mutant of Consumable: the row is not asked whether it was consumed.
ConsumableAgain(c, s, t) ==
    /\ assertion[c].status # "none" /\ assertion[c].ttl > 0
    /\ StepUpSession(c) = s /\ StepUpTarget(c) = t

\* The candidate query of consume.
Consumable(c, s, t) ==
    /\ assertion[c].status = "issued"
    /\ assertion[c].ttl > 0
    /\ stepUp[c].status = "completed"
    /\ StepUpSession(c) = s
    /\ StepUpTarget(c) = t

\* A privileged call of session s that presents the assertion of challenge c, and
\* the commit that consume shares with it.
Perform(c, s, t) ==
    /\ AuthorityActive(s)
    /\ Consumable(c, s, t)
    /\ assertion' = [assertion EXCEPT ![c].status = "consumed"]
    /\ acts' = [acts EXCEPT ![c] = Append(@, <<s, t>>)]
    /\ UNCHANGED <<loginSession, stepUp, codes, codeAttempts, wrongCodes>>

StepUpTick ==
    /\ codeTtl' = [c \in StepUps |-> Elapsed(codeTtl[c])]
    /\ codeAttempts' = [c \in StepUps |->
         [codeAttempts[c] EXCEPT !.cooldown = Elapsed(@)]]
    /\ assertion' = [c \in StepUps |->
         [assertion[c] EXCEPT !.ttl = Elapsed(@)]]
    /\ UNCHANGED <<loginSession, stepUp, askedWith, sending, message, requestRecord,
                   acts, wrongCodes>>

StepUpNext ==
    \/ \E s \in LoginSessions : RevokeSession(s)
    \/ \E c \in StepUps, k \in StepUpRequests : CreateStepUp(c, k)
    \/ \E c \in StepUps :
         \/ SendRequired(c)
         \/ AbandonStepUp(c)
         \/ ConfirmStepUpDelivery(c)
         \/ FailStepUpDelivery(c)
         \/ VerifyStepUp(c)
         \/ FailStepUp(c)
    \/ \E c \in StepUps, s \in LoginSessions, t \in Targets : Perform(c, s, t)
    \/ StepUpTick

StepUpSpec == StepUpInit /\ [][StepUpNext]_stepUpVars

----------------------------------------------------------------------------
(* Properties *)

\* Rows have their declared shape.
StepUpTypeOK ==
    /\ loginSession \in [LoginSessions -> {"active", "revoked"}]
    /\ stepUp \in [StepUps ->
         [status : {"absent", "pending", "completed", "cancelled"},
          delivery : {"pending", "delivered", "failed"}]]
    /\ askedWith \in [StepUps -> StepUpRequests \cup {"nobody"}]
    /\ codeTtl \in [StepUps -> 0 .. Ttl]
    /\ codeAttempts \in [StepUps -> AttemptState]
    /\ sending \in [StepUps -> {"idle", "sending", "finalizing"}]
    /\ message \in [StepUps -> ProviderResult \cup {"none"}]
    /\ requestRecord \in [StepUpRequests -> {"none", "processing", "completed"}]
    /\ assertion \in [StepUps ->
         [status : {"none", "issued", "consumed"}, ttl : 0 .. AssertionTtl]]
    /\ acts \in [StepUps -> Seq(LoginSessions \X Targets)]
    /\ wrongCodes \in [LoginSessions -> [Targets -> 0 .. MaxAttempts]]

\* step_up.rs: an assertion is good for one committed call, of the session and on
\* the target it was issued for, and only when the provider had confirmed the
\* message with the code.
ActsProven ==
    \A c \in StepUps :
        /\ Len(acts[c]) <= 1
        /\ \A i \in DOMAIN acts[c] :
             /\ acts[c][i] = <<StepUpSession(c), StepUpTarget(c)>>
             /\ message[c] = "ok"

\* What was begun before a logout is worthless after it: no code of a revoked
\* session becomes usable, no assertion is issued and none is spent.
RevocationFreezes ==
    [][\A c \in StepUps :
         stepUp[c].status # "absent" /\ loginSession[StepUpSession(c)] = "revoked" =>
           /\ acts'[c] = acts[c]
           /\ assertion'[c].status = assertion[c].status
           /\ stepUp'[c].delivery = "delivered" =>
                stepUp[c].delivery = "delivered"]_stepUpVars

\* One failed-verification window per session and target, whichever codes replace
\* each other and even when they expire; only a rejected delivery ends it.
StepUpBudget ==
    \A s \in LoginSessions, t \in Targets : wrongCodes[s][t] < MaxAttempts

\* What a step-up guards happens on a proof for that act, session and resource,
\* codes that replace each other share one budget of wrong guesses, and a logout
\* ends them all.
StepUpSound == [](ActsProven /\ StepUpBudget) /\ RevocationFreezes
=============================================================================
