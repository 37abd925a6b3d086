------------------------------- MODULE OboProof -------------------------------
(***************************************************************************)
(* On-behalf-of proofs.  An application (the issuer) exchanges a user's    *)
(* access token for a short-lived proof that another application (the      *)
(* audience) may verify once.  A proof depends on a whole chain of         *)
(* authority: the user, the membership, both applications, the endpoint,   *)
(* the parent token and its login session.                                 *)
(*                                                                         *)
(* Sources: src/features/applications/{obo,authorization,applications}.rs, *)
(* sessions.rs (logout) and the iam_private functions they call.           *)
(*                                                                         *)
(* Verification runs at READ COMMITTED in three statements of which only   *)
(* the last locks, so the chain may change between them.  An exchange      *)
(* locks its whole chain FOR SHARE and is one action once the client is    *)
(* authenticated.  Logout is SERIALIZABLE: it sweeps the proofs of its     *)
(* snapshot and fails when one of them has changed since.                  *)
(***************************************************************************)
EXTENDS Naturals, FiniteSets

CONSTANTS
    Keys,        \* idempotency keys of exchange; a key names the proof it makes
    Tokens,      \* application access tokens of the user, under one session
    Verifiers,   \* concurrent verify requests
    ProofTtl,    \* ttl_seconds of the endpoint, in ticks
    MaxEpoch,    \* bound: the largest epoch or version of a party
    MaxChanges   \* bound: changes of epochs or versions altogether

ASSUME OboAssumption ==
    /\ ProofTtl \in Nat \ {0}
    /\ MaxEpoch \in Nat \ {0}
    /\ MaxChanges \in Nat

Applications == {"issuer", "audience"}
Parties == Applications \cup {"subject", "membership", "endpoint"}

VARIABLES
    party,      \* status and auth_epoch, authz_epoch or version of each party
    session,    \* iam.authentication_sessions: status and subject_auth_epoch
    token,      \* iam.access_tokens: status and the epochs they were issued at
    proof,      \* iam.obo_proofs
    client,     \* the issuer epoch an exchange in flight authenticated with
    task,       \* where a verification is
    logout,     \* the snapshot of a logout in flight
    uses,       \* history: positive answers of verify
    replayed,   \* history: proofs that an exchange handed out again
    withdrawn   \* history: proofs whose chain was changed while they were unused

authority == <<party, session, token>>
vars == <<party, session, token, proof, client, task, logout, uses, replayed,
          withdrawn>>

NoToken == [status |-> "absent", issuer |-> 0, subject |-> 0]
NoProof == [status |-> "absent", parent |-> "none",
            epoch |-> [p \in Parties |-> 0], ttl |-> 0]
Idle == [step |-> "idle", key |-> "none", epoch |-> 0]
NoLogout == [open |-> FALSE, proofs |-> {}, tokens |-> {}]
Unused == {k \in Keys : proof[k].status \in {"issued", "revoked"}}

Init ==
    /\ party = [p \in Parties |-> [live |-> TRUE, epoch |-> 1]]
    /\ session = [status |-> "active", epoch |-> 1]
    /\ token = [t \in Tokens |-> NoToken]
    /\ proof = [k \in Keys |-> NoProof]
    /\ client = [k \in Keys |-> 0]
    /\ task = [v \in Verifiers |-> Idle]
    /\ logout = NoLogout
    /\ uses = [k \in Keys |-> 0]
    /\ replayed = {}
    /\ withdrawn = {}

----------------------------------------------------------------------------
(* The chain of authority, and what changes it *)

\* Mutant of ParentActive: the join keeps a proof whose parent row is missing.
ParentUnrevoked(t) == token[t].status # "revoked"

\* The parent token and its session, as every query of the flow asks for them.
ParentActive(t) ==
    /\ token[t] = [status |-> "live", issuer |-> party["issuer"].epoch,
                   subject |-> party["subject"].epoch]
    /\ session = [status |-> "active", epoch |-> party["subject"].epoch]

AllLive == \A p \in Parties : party[p].live

\* exchange_authorization_code issues a token under the session (SessionAuthority
\* has the details).
IssueToken(t) ==
    /\ token[t].status = "absent"
    /\ party["issuer"].live /\ party["subject"].live
    /\ session = [status |-> "active", epoch |-> party["subject"].epoch]
    /\ token' = [token EXCEPT ![t] =
         [status |-> "live", issuer |-> party["issuer"].epoch,
          subject |-> party["subject"].epoch]]
    /\ UNCHANGED <<party, session, proof, client, task, logout, uses, replayed,
                   withdrawn>>

\* revoke_access_token: proofs made from the token are left as they are.
RevokeAccessToken(t) ==
    /\ token[t].status = "live"
    /\ token' = [token EXCEPT ![t].status = "revoked"]
    /\ withdrawn' = withdrawn \cup {k \in Unused : proof[k].parent = t}
    /\ UNCHANGED <<party, session, proof, client, task, logout, uses, replayed>>

\* The UPDATE that revokes unconsumed proofs.
Swept ==
    [k \in Keys |-> IF proof[k].status = "issued"
                      THEN [proof[k] EXCEPT !.status = "revoked"] ELSE proof[k]]

Changes == {c \in Parties \X (2 .. MaxEpoch) : c[2] <= party[c[1]].epoch}

Changed(p, live) ==
    /\ party[p].epoch < MaxEpoch /\ Cardinality(Changes) < MaxChanges
    /\ party' = [party EXCEPT ![p] = [live |-> live, epoch |-> @.epoch + 1]]
    /\ withdrawn' = withdrawn \cup Unused

\* admin_decide suspends an application: revoke_application_authority sweeps the
\* proofs on either side and the tokens of the application.
SuspendApplication(a) ==
    /\ party[a].live
    /\ Changed(a, FALSE)
    /\ proof' = Swept
    /\ token' = [t \in Tokens |-> IF a = "issuer" /\ token[t].status = "live"
                   THEN [token[t] EXCEPT !.status = "revoked"] ELSE token[t]]
    /\ UNCHANGED <<session, client, task, logout, uses, replayed>>

\* admin_decide verifies it again; the epoch stays.
ReactivateApplication(a) ==
    /\ ~ party[a].live
    /\ party' = [party EXCEPT ![a].live = TRUE]
    /\ UNCHANGED <<session, token, proof, client, task, logout, uses, replayed,
                   withdrawn>>

\* A membership is changed, removed or joined again, or the user is suspended or
\* restored with a new epoch; no proof is touched.
ChangeSubject(p, live) ==
    /\ p \in {"subject", "membership"}
    /\ party[p].live \/ live
    /\ Changed(p, live)
    /\ UNCHANGED <<session, token, proof, client, task, logout, uses, replayed>>

\* replace_obo_endpoints and its trigger: new metadata, retirement or return.
ReplaceOboEndpoint(live) ==
    /\ party["endpoint"].live \/ live
    /\ Changed("endpoint", live)
    /\ UNCHANGED <<session, token, proof, client, task, logout, uses, replayed>>

\* revoke_session: the snapshot is taken before the session row is updated.
BeginLogout ==
    /\ ~ logout.open
    /\ session.status = "active"
    /\ logout' = [open |-> TRUE,
                  proofs |-> {k \in Keys : proof[k].status = "issued"},
                  tokens |-> {t \in Tokens : token[t].status = "live"}]
    /\ UNCHANGED <<party, session, token, proof, client, task, uses, replayed,
                   withdrawn>>

\* Mutant of Unconflicted: rows changed since the snapshot are written all the same.
ConflictsIgnored == logout.open

\* First updater wins: a row of the snapshot that changed fails the transaction.
Unconflicted ==
    /\ \A k \in logout.proofs : proof[k].status = "issued"
    /\ \A t \in logout.tokens : token[t].status = "live"

\* revoke_one with revoke_session_token_authority and revoke_session_obo_authority.
FinishLogout ==
    /\ logout.open
    /\ Unconflicted
    /\ session' = [session EXCEPT !.status = "revoked"]
    /\ token' = [t \in Tokens |-> IF t \in logout.tokens
                   THEN [token[t] EXCEPT !.status = "revoked"] ELSE token[t]]
    /\ proof' = [k \in Keys |-> IF k \in logout.proofs
                   THEN [proof[k] EXCEPT !.status = "revoked"] ELSE proof[k]]
    /\ logout' = NoLogout
    /\ withdrawn' = withdrawn \cup Unused
    /\ UNCHANGED <<party, client, task, uses, replayed>>

RollbackLogout ==
    /\ logout.open
    /\ logout' = NoLogout
    /\ UNCHANGED <<authority, proof, client, task, uses, replayed, withdrawn>>

----------------------------------------------------------------------------
(* exchange *)

\* ApplicationClient: the epoch of the issuer is read before the transaction.
BeginExchange(k) ==
    /\ client[k] = 0
    /\ party["issuer"].live
    /\ client' = [client EXCEPT ![k] = party["issuer"].epoch]
    /\ UNCHANGED <<authority, proof, task, logout, uses, replayed, withdrawn>>

\* lock_current_application_obo_exchange_authority.
ExchangeAuthority(k, t) ==
    /\ AllLive
    /\ party["issuer"].epoch = client[k]
    /\ ParentActive(t)

\* exchange with a fresh key: the proof records the chain it was issued under.
ExchangeProof(k, t) ==
    /\ client[k] # 0
    /\ ExchangeAuthority(k, t)
    /\ proof[k].status = "absent"
    /\ proof' = [proof EXCEPT ![k] =
         [status |-> "issued", parent |-> t,
          epoch |-> [p \in Parties |-> party[p].epoch], ttl |-> ProofTtl]]
    /\ client' = [client EXCEPT ![k] = 0]
    /\ UNCHANGED <<authority, task, logout, uses, replayed, withdrawn>>

Live(k) == proof[k].status = "issued" /\ proof[k].ttl > 0

\* The joins of the replay check, of load_current_context and of the locking read.
Chain(k) ==
    /\ AllLive
    /\ \A p \in Parties : party[p].epoch = proof[k].epoch[p]
    /\ ParentActive(proof[k].parent)

\* Mutant of ReplayIsLive: only the proof itself is looked at.
ReplayIsUnused(k) == Live(k)

\* application_obo_exchange_replay_is_live.
ReplayIsLive(k) == Live(k) /\ Chain(k)

\* exchange under a used key: the stored answer, as long as it is worth something.
ReplayExchange(k) ==
    /\ client[k] # 0
    /\ proof[k].status # "absent"
    /\ ExchangeAuthority(k, proof[k].parent)
    /\ ReplayIsLive(k)
    /\ replayed' = replayed \cup {k}
    /\ client' = [client EXCEPT ![k] = 0]
    /\ UNCHANGED <<authority, proof, task, logout, uses, withdrawn>>

\* Every other exchange fails, and the process may stop at any time.
DropExchange(k) ==
    /\ client[k] # 0
    /\ client' = [client EXCEPT ![k] = 0]
    /\ UNCHANGED <<authority, proof, task, logout, uses, replayed, withdrawn>>

----------------------------------------------------------------------------
(* verify *)

\* The client is authenticated and lookup_application_obo_proof finds a usable row.
VerifyLookup(v, k) ==
    /\ task[v].step = "idle"
    /\ party["audience"].live
    /\ Live(k)
    /\ task' = [task EXCEPT ![v] =
         [step |-> "context", key |-> k, epoch |-> party["audience"].epoch]]
    /\ UNCHANGED <<authority, proof, client, logout, uses, replayed, withdrawn>>

\* application_obo_load_current_context, without a lock.
VerifyContext(v) ==
    /\ task[v].step = "context"
    /\ Chain(task[v].key)
    /\ task' = [task EXCEPT ![v].step = "consume"]
    /\ UNCHANGED <<authority, proof, client, logout, uses, replayed, withdrawn>>

\* Mutants of Authorized: the chain was checked a statement ago; the proof was.
AuthorizedEarlier(k, epoch) == Live(k) /\ party["audience"].epoch = epoch
AuthorizedAgain(k, epoch) ==
    /\ proof[k].ttl > 0 /\ party["audience"].epoch = epoch
    /\ Chain(k)

\* get_current_application_authorization, which locks the chain and the proof, and
\* the conditions of the UPDATE that consumes it.
Authorized(k, epoch) ==
    /\ Live(k)
    /\ party["audience"].epoch = epoch
    /\ Chain(k)

\* The end of verify: everything is locked until the proof is consumed.
VerifyConsume(v) ==
    LET k == task[v].key IN
    /\ task[v].step = "consume"
    /\ Authorized(k, task[v].epoch)
    /\ proof' = [proof EXCEPT ![k].status = "consumed"]
    /\ uses' = [uses EXCEPT ![k] = @ + 1]
    /\ task' = [task EXCEPT ![v] = Idle]
    /\ UNCHANGED <<authority, client, logout, replayed, withdrawn>>

\* Every other verification fails, and the process may stop at any time.
DropVerify(v) ==
    /\ task[v].step # "idle"
    /\ task' = [task EXCEPT ![v] = Idle]
    /\ UNCHANGED <<authority, proof, client, logout, uses, replayed, withdrawn>>

Tick ==
    /\ \E k \in Keys : proof[k].ttl > 0
    /\ proof' = [k \in Keys |-> IF proof[k].ttl > 0
                   THEN [proof[k] EXCEPT !.ttl = @ - 1] ELSE proof[k]]
    /\ UNCHANGED <<authority, client, task, logout, uses, replayed, withdrawn>>

Next ==
    \/ \E t \in Tokens : IssueToken(t) \/ RevokeAccessToken(t)
    \/ \E a \in Applications : SuspendApplication(a) \/ ReactivateApplication(a)
    \/ \E p \in Parties, live \in BOOLEAN : ChangeSubject(p, live)
    \/ \E live \in BOOLEAN : ReplaceOboEndpoint(live)
    \/ BeginLogout \/ FinishLogout \/ RollbackLogout
    \/ \E k \in Keys : BeginExchange(k) \/ ReplayExchange(k) \/ DropExchange(k)
    \/ \E k \in Keys, t \in Tokens : ExchangeProof(k, t)
    \/ \E v \in Verifiers, k \in Keys : VerifyLookup(v, k)
    \/ \E v \in Verifiers :
         VerifyContext(v) \/ VerifyConsume(v) \/ DropVerify(v)
    \/ Tick

Spec == Init /\ [][Next]_vars

----------------------------------------------------------------------------
(* Properties *)

PartyType == [live : BOOLEAN, epoch : 1 .. MaxEpoch]
SessionType == [status : {"active", "revoked"}, epoch : 1 .. MaxEpoch]
TokenType == [status : {"absent", "live", "revoked"},
              issuer : 0 .. MaxEpoch, subject : 0 .. MaxEpoch]
ProofType == [status : {"absent", "issued", "consumed", "revoked"},
              parent : Tokens \cup {"none"}, epoch : [Parties -> 0 .. MaxEpoch],
              ttl : 0 .. ProofTtl]
TaskType == [step : {"idle", "context", "consume"}, key : Keys \cup {"none"},
             epoch : 0 .. MaxEpoch]
LogoutType == [open : BOOLEAN, proofs : SUBSET Keys, tokens : SUBSET Tokens]

\* Every verification in flight has a proof, and every proof a token that exists.
Refers ==
    /\ \A v \in Verifiers : task[v].step # "idle" => task[v].key \in Keys
    /\ \A k \in Keys : proof[k].status # "absent" =>
         /\ proof[k].parent \in Tokens
         /\ token[proof[k].parent].status # "absent"

\* Rows have their declared shape and refer to existing rows.
TypeOK ==
    /\ party \in [Parties -> PartyType]
    /\ session \in SessionType
    /\ token \in [Tokens -> TokenType]
    /\ proof \in [Keys -> ProofType]
    /\ client \in [Keys -> 0 .. MaxEpoch]
    /\ task \in [Verifiers -> TaskType]
    /\ logout \in LogoutType
    /\ uses \in [Keys -> Nat]
    /\ replayed \in SUBSET Keys
    /\ withdrawn \in SUBSET Keys
    /\ Refers

\* INTEGRATION_FIXES_2026-09-05.md: of sequential and concurrent verifications of
\* a proof exactly one succeeds.
ConsumedOnce == \A k \in Keys : uses[k] <= 1

\* A proof whose chain of authority changed after it was issued is never accepted
\* again: not when the change falls between the statements of a verification, not
\* when what was withdrawn is restored, and not when a logout did not see the
\* proof it should have swept.
NoUseAfterWithdrawal ==
    \A k \in withdrawn : proof[k].status # "consumed"

\* An exchange never answers a retry with a proof that can no longer be used.
ReplayLive ==
    [][\A k \in replayed' \ replayed :
         /\ proof[k].status = "issued" /\ proof[k].ttl > 0
         /\ k \notin withdrawn]_vars

\* A proof has one outcome: a late sweep does not revoke what was consumed, and
\* what was revoked is not consumed.
OutcomeFinal ==
    [][\A k \in Keys : proof[k].status \in {"consumed", "revoked"} =>
         proof'[k].status = proof[k].status]_vars

\* All of the above: a proof is used once, only while its chain of authority
\* stands, is never handed out again dead, and keeps its outcome.
OboSound ==
    /\ []TypeOK
    /\ []ConsumedOnce
    /\ []NoUseAfterWithdrawal
    /\ ReplayLive
    /\ OutcomeFinal
=============================================================================
