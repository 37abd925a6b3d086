--------------------------- MODULE LogoutRequest ---------------------------
(***************************************************************************)
(* Who may end which sessions of a Carbon, and what a late retry may do.   *)
(*                                                                         *)
(* Sources: src/api/authentication.rs and                                  *)
(*          src/features/authentication/sessions.rs (revoke_session and    *)
(*          logout up to the revocation itself, whose effect on families,  *)
(*          tokens and consents is the module SessionAuthority).           *)
(*                                                                         *)
(* The extractor authenticates in a transaction of its own; the handler    *)
(* acts in a serializable one, a single step here.  A client that got no   *)
(* answer sends the same request with the same key again.                  *)
(***************************************************************************)
EXTENDS Naturals, FiniteSets

CONSTANTS
    LoginSessions,   \* sessions of the Carbon
    Calls,      \* calls, each with an idempotency key of its own
    MaxTries    \* bound on the times a call is sent

\* The credential presented: an access token of IAM, one of an application, or
\* the browser's cookie with its CSRF token.  What it asks for: the session it
\* belongs to, all of them, or the session named (which takes an IAM token).
Ask ==
    {a \in [session : LoginSessions, via : {"iam", "application", "cookie"},
            mode : {"current", "all", "named"}, target : LoginSessions] :
       /\ a.via = "application" => a.mode = "current"
       /\ a.mode = "named" => a.via = "iam"
       /\ a.mode # "named" => a.target = a.session}
NoAsk == [session |-> "none", via |-> "none", mode |-> "none", target |-> "none"]

VARIABLES
    status,    \* iam.authentication_sessions: "none", "young", "mature" or "ended"
    bearer,    \* sessions whose access tokens are live, by the kind of token
    stepUp,    \* unused step-up proofs: <<session that proved, purpose>>
    logoutCall, \* the call in flight: what it asks, and what authentication found
    done       \* calls whose idempotency record is completed

logoutVars == <<status, bearer, stepUp, logoutCall, done>>

LogoutInit ==
    /\ status = [s \in LoginSessions |-> "none"]
    /\ bearer = [via \in {"iam", "application"} |-> {}]
    /\ stepUp = {}
    /\ logoutCall = [c \in Calls |-> [ask |-> NoAsk, phase |-> "unsent", tries |-> 0]]
    /\ done = {}

Active(s) == status[s] \in {"young", "mature"}

----------------------------------------------------------------------------
(* The sessions *)

SignIn(s) ==
    /\ status[s] = "none"
    /\ status' = [status EXCEPT ![s] = "young"]
    /\ bearer' = [via \in DOMAIN bearer |-> bearer[via] \union {s}]
    /\ UNCHANGED <<stepUp, logoutCall, done>>

\* SESSION_REVOCATION_MIN_AGE_SECONDS have passed.
Mature(s) ==
    /\ status[s] = "young"
    /\ status' = [status EXCEPT ![s] = "mature"]
    /\ UNCHANGED <<bearer, stepUp, logoutCall, done>>

\* An access token runs out, or an application revokes its own.
TokenEnds(via, s) ==
    /\ s \in bearer[via]
    /\ bearer' = [bearer EXCEPT ![via] = @ \ {s}]
    /\ UNCHANGED <<status, stepUp, logoutCall, done>>

\* A refresh gives the session another access token.
TokenRenewed(s) ==
    /\ Active(s)
    /\ bearer' = [bearer EXCEPT !["iam"] = @ \union {s}]
    /\ UNCHANGED <<status, stepUp, logoutCall, done>>

\* A step-up challenge verified in session s, for the purpose of call c.
ProveLogout(c) ==
    /\ logoutCall[c].ask.mode \in {"all", "named"} /\ Active(logoutCall[c].ask.session)
    /\ stepUp' = stepUp \union {c}
    /\ UNCHANGED <<status, bearer, logoutCall, done>>

----------------------------------------------------------------------------
(* The call *)

\* A client sends a call; it sends the same again until it has an answer.
Send(c) ==
    /\ logoutCall[c].phase = "unsent"
    /\ \E ask \in Ask :
         logoutCall' = [logoutCall EXCEPT ![c] = [ask |-> ask, phase |-> "waiting", tries |-> 0]]
    /\ UNCHANGED <<status, bearer, stepUp, done>>

\* tokens::authenticate, or the browser's session row.
CredentialLive(a) ==
    IF a.via = "cookie" THEN Active(a.session)
    ELSE Active(a.session) /\ a.session \in bearer[a.via]

\* LogoutAuthenticated and Authenticated: a credential that is no longer live
\* still identifies the caller of a logout, to replay its answer only.
Authenticate(c) ==
    LET a == logoutCall[c].ask IN
    /\ logoutCall[c].phase = "waiting"
    /\ logoutCall[c].tries < MaxTries
    /\ status[a.session] # "none"
    /\ CredentialLive(a) \/ a.mode # "named"
    /\ logoutCall' = [logoutCall EXCEPT ![c].phase = IF CredentialLive(a) THEN "active" ELSE "replayOnly",
                            ![c].tries = @ + 1]
    /\ UNCHANGED <<status, bearer, stepUp, done>>

\* The answer is lost or read; the client may send the call again.
LogoutAnswered(c) == logoutCall' = [logoutCall EXCEPT ![c].phase = "waiting"]

\* Mutant of ReplayOnly: the state of the credential is not looked at.
ReplayOnlyIgnored(c) == logoutCall[c].phase = "active" /\ c \in done

\* replay_completed_logout, or the answer the idempotency record holds.
ReplayOnly(c) == logoutCall[c].phase = "replayOnly" \/ c \in done

Replay(c) ==
    /\ logoutCall[c].phase \in {"active", "replayOnly"}
    /\ ReplayOnly(c)
    /\ LogoutAnswered(c)
    /\ UNCHANGED <<status, bearer, stepUp, done>>

Others(s) == {t \in LoginSessions \ {s} : Active(t)}

\* Mutant of MayEndOthers: the caller's session is not looked at again.
MayEndOthersOnce(s, T) == \A t \in T : status[t] = "mature"

\* require_mature_target_session, authorize_all_sessions_logout: young sessions
\* can neither be ended by another one nor end another one.
MayEndOthers(s, T) == (\A t \in T : status[t] = "mature") /\ status[s] = "mature"

\* What authorize_logout_scope and authorize_session_revocation let the call end;
\* ending another session consumes a proof of this session for this purpose.
Ends(c) ==
    LET a == logoutCall[c].ask IN
    CASE a.mode = "current" -> {a.session}
      [] a.mode = "named" -> {a.target}
      [] a.mode = "all" -> {a.session} \union Others(a.session)

NeedsProof(c) == logoutCall[c].ask.mode = "named" \/ Ends(c) # {logoutCall[c].ask.session}

\* lock_application_logout_authority: the application's token, once more.
StillAuthority(c) ==
    LET a == logoutCall[c].ask IN
    a.via = "application" => Active(a.session) /\ a.session \in bearer["application"]

Permitted(c) ==
    LET a == logoutCall[c].ask
        T == Ends(c) \ {a.session}
    IN
    /\ StillAuthority(c)
    /\ NeedsProof(c) => c \in stepUp
    /\ a.mode = "named" => status[a.target] = "mature"
    /\ T # {} => MayEndOthers(a.session, T)

\* execute_logout and the rest of revoke_session: sessions already ended stay as
\* they are, the others take their tokens with them.
Execute(c) ==
    LET ended == {t \in Ends(c) : Active(t)} IN
    /\ logoutCall[c].phase \in {"active", "replayOnly"} /\ ~ReplayOnly(c)
    /\ Permitted(c)
    /\ status' = [t \in LoginSessions |-> IF t \in ended THEN "ended" ELSE status[t]]
    /\ bearer' = [via \in DOMAIN bearer |-> bearer[via] \ ended]
    /\ stepUp' = IF NeedsProof(c) THEN stepUp \ {c} ELSE stepUp
    /\ done' = done \union {c}
    /\ LogoutAnswered(c)

\* The call is refused, its transaction rolled back.
RefuseLogout(c) ==
    /\ logoutCall[c].phase \in {"active", "replayOnly"} /\ ~ReplayOnly(c)
    /\ ~Permitted(c)
    /\ LogoutAnswered(c)
    /\ UNCHANGED <<status, bearer, stepUp, done>>

LogoutNext ==
    \/ \E s \in LoginSessions : SignIn(s) \/ Mature(s) \/ TokenRenewed(s)
    \/ \E via \in DOMAIN bearer : \E s \in LoginSessions : TokenEnds(via, s)
    \/ \E c \in Calls : \/ Send(c) \/ ProveLogout(c) \/ Authenticate(c) \/ Replay(c)
                        \/ Execute(c) \/ RefuseLogout(c)

LogoutSpec == LogoutInit /\ [][LogoutNext]_logoutVars

----------------------------------------------------------------------------
(* Properties *)

\* What a call c that ends session s must be: one that never acted before, whose
\* credential was found live (an expired token replays an answer and never acts).
\* Another session than its own it ends only while its own is active in the same
\* transaction, on a proof consumed with it, and never a session too young.
MayHaveEnded(c, s) ==
    LET own == logoutCall[c].ask.session IN
    /\ c \notin done /\ c \in done'
    /\ logoutCall[c].phase = "active"
    /\ s # own =>
         /\ Active(own)
         /\ c \in stepUp /\ c \notin stepUp'
         /\ status[s] = "mature"

\* Every session that ends is ended by such a call, whatever was retried, and whatever
\* ran out or was revoked between its authentication and its transaction.
EndedByAuthorityStep ==
    \A s \in LoginSessions :
        Active(s) /\ status'[s] = "ended" => \E c \in Calls : MayHaveEnded(c, s)

\* A logout that ends other sessions does so on a live one and a step-up of its own.
LogoutSound == [][EndedByAuthorityStep]_logoutVars
============================================================================
