-------------------------- MODULE SessionAuthority --------------------------
(***************************************************************************)
(* Login sessions and the authority that hangs off them: first-party and   *)
(* application refresh-token families, access tokens, short-lived tokens   *)
(* (authorization codes) and consents; their rotation, reuse detection,    *)
(* logout, and revocation by the application or by its suspension.         *)
(*                                                                         *)
(* Sources: src/features/authentication/{tokens,refresh,sessions}.rs,      *)
(*          src/features/applications/{oauth,applications}.rs,             *)
(*          src/infrastructure/postgres/tokens.rs.                         *)
(*                                                                         *)
(* Application transactions run READ COMMITTED and hold the row locks that *)
(* decide them until they commit: each is one action.  Rotation of a       *)
(* first-party token, session revocation and logout run SERIALIZABLE: they *)
(* take a snapshot, miss every row inserted later, and fail when a row     *)
(* they lock or write was written since.  Each is a Begin step, a Finish   *)
(* step, and a Rollback.                                                   *)
(*                                                                         *)
(* The record of a request is erased a day after it was made, long before  *)
(* the family ends, and the same request then is a new one: erasure is an  *)
(* action.  Other expiry only disables steps and is left out, as is the    *)
(* refusal with which a record answers once its response has expired.      *)
(***************************************************************************)
EXTENDS Naturals, FiniteSets, TLC

CONSTANTS
    Sessions,        \* login sessions of one carbon
    Applications,    \* verified applications
    Iam,             \* the client of a first-party family (NULL application)
    MaxCodes,        \* bound: short-lived tokens per session and application
    MaxTokens,       \* bound: refresh tokens per family
    Keys,            \* idempotency keys a client may send
    MaxSuspensions,  \* bound: suspensions per application
    MaxErasures,     \* bound: records erased and not made again
    Transactions     \* serializable transactions in flight

ASSUME AuthorityAssumption ==
    /\ Iam \notin Applications
    /\ MaxCodes \in Nat
    /\ MaxTokens \in Nat \ {0}
    /\ MaxSuspensions \in Nat
    /\ MaxErasures \in Nat

\* A code yields one family, which is named after it.
Codes == Sessions \X Applications \X (1 .. MaxCodes)
IamFamilies == Sessions \X {Iam} \X {1}
Families == IamFamilies \cup Codes

\* The n-th refresh token of a family and the access token issued with it.
Tokens == Families \X (1 .. MaxTokens)

Consents == Sessions \X Applications

VARIABLES
    session,        \* iam.authentication_sessions: status
    family,         \* iam.refresh_token_families: status
    issued,         \* refresh tokens issued in each family
    consumed,       \* refresh tokens with consumed_at
    revokedRefresh, \* refresh tokens with revoked_at
    revokedAccess,  \* access tokens with revoked_at
    accessEpoch,    \* client_auth_epoch of each access token
    consent,        \* iam.oauth_consent_grants: status
    code,           \* iam.oauth_authorization_codes with their request
    standing,       \* review status of the application
    epoch,          \* auth_epoch of the application principal
    outcome,        \* idempotency records of token exchanges, erased ones told apart
    open            \* serializable transactions in flight

credentials == <<family, issued, consumed, revokedRefresh, revokedAccess,
                 accessEpoch>>
lifecycle == <<standing, epoch>>
vars == <<session, family, issued, consumed, revokedRefresh, revokedAccess,
          accessEpoch, consent, code, standing, epoch, outcome, open>>

----------------------------------------------------------------------------
(* Rows and snapshots *)

SessionRow(s) == <<"session", s>>
FamilyRow(f) == <<"family", f>>
RefreshRow(x) == <<"refresh", x>>
AccessRow(x) == <<"access", x>>
ConsentRow(g) == <<"consent", g>>
CodeRow(c) == <<"code", c>>
RecordRow(x, k) == <<"record", x, k>>

SessionOf(f) == f[1]
ClientOf(f) == f[2]
ConsentOf(f) == <<f[1], f[2]>>

IssuedTokens == {x \in Tokens : x[2] <= issued[x[1]]}
TokensOf(fs) == {x \in IssuedTokens : x[1] \in fs}
FamiliesOf(ss) ==
    {f \in Families : SessionOf(f) \in ss /\ family[f] # "absent"}
NextToken(f) == <<f, issued[f] + 1>>
PairRows(x) == {RefreshRow(x), AccessRow(x)}

\* Operations of a serializable transaction: rotate one token under a key, or
\* revoke the sessions active in its snapshot with their codes and consents
\* (families and tokens of a session are swept whatever their state).
RotateOp ==
    [kind : {"rotate"}, token : IamFamilies \X (1 .. MaxTokens), key : Keys]
LogoutOp ==
    [kind : {"logout"}, targets : SUBSET Sessions, codes : SUBSET Codes,
     consents : SUBSET Consents]
Idle == [kind |-> "idle"]

Started(op) == [op |-> op, inserted |-> {}, updated |-> {}]

\* Rows written by a commit become invisible or dirty for the others in flight.
Commit(ended, inserted, updated) ==
    open' = [t \in Transactions |->
      IF t \in ended \/ open[t].op = Idle THEN Started(Idle)
      ELSE [open[t] EXCEPT !.inserted = @ \cup inserted,
                           !.updated = @ \cup updated]]

\* Mutant of Unconflicted: the transaction does not ask for SERIALIZABLE.
ConflictsIgnored(t, rows) == t \in Transactions /\ rows # {}

\* First updater wins: none of the rows locked or written changed since.
Unconflicted(t, rows) == rows \cap open[t].updated = {}

Init ==
    /\ session = [s \in Sessions |-> "absent"]
    /\ family = [f \in Families |-> "absent"]
    /\ issued = [f \in Families |-> 0]
    /\ consumed = {}
    /\ revokedRefresh = {}
    /\ revokedAccess = {}
    /\ accessEpoch = [x \in Tokens |-> 0]
    /\ consent = [g \in Consents |-> "absent"]
    /\ code = [c \in Codes |-> "absent"]
    /\ standing = [a \in Applications |-> "verified"]
    /\ epoch = [a \in Applications |-> 0]
    /\ outcome = [x \in Tokens |-> [k \in Keys |-> "none"]]
    /\ open = [t \in Transactions |-> Started(Idle)]

----------------------------------------------------------------------------
(* First-party sessions *)

\* issue_login_session: the session, its family and the first token pair.
Login(s) ==
    LET f == <<s, Iam, 1>> IN
    /\ session[s] = "absent"
    /\ session' = [session EXCEPT ![s] = "active"]
    /\ family' = [family EXCEPT ![f] = "active"]
    /\ issued' = [issued EXCEPT ![f] = 1]
    /\ Commit({}, {SessionRow(s), FamilyRow(f)} \cup PairRows(<<f, 1>>), {})
    /\ UNCHANGED <<consumed, revokedRefresh, revokedAccess, accessEpoch, consent,
                   code, lifecycle, outcome>>

Begin(t, op) ==
    /\ open[t].op = Idle
    /\ open' = [open EXCEPT ![t] = Started(op)]
    /\ UNCHANGED <<session, credentials, consent, code, lifecycle, outcome>>

\* refresh::rotate takes its snapshot when it looks up the idempotency record.
BeginRotate(t, x, k) ==
    /\ x \in IssuedTokens
    /\ Begin(t, [kind |-> "rotate", token |-> x, key |-> k])

\* revoke_session and logout of one session, or logout of all of them.  Step-up
\* proofs and the minimum age of sessions only refuse the request.
BeginLogout(t) ==
    \E targets \in SUBSET {s \in Sessions : session[s] = "active"} :
        /\ \/ Cardinality(targets) = 1
           \/ targets = {s \in Sessions : session[s] = "active"}
        /\ Begin(t,
             [kind |-> "logout", targets |-> targets,
              codes |-> {c \in Codes : c[1] \in targets /\ code[c] = "approved"},
              consents |-> {g \in Consents :
                              g[1] \in targets /\ consent[g] = "active"}])

\* A serialization conflict, a refused request or a dropped connection.
Rollback(t) ==
    /\ open[t].op # Idle
    /\ open' = [open EXCEPT ![t] = Started(Idle)]
    /\ UNCHANGED <<session, credentials, consent, code, lifecycle, outcome>>

\* Mutant of Recorded: the stored outcome is not looked up.
NeverRecorded(x, k) == x \in Tokens /\ k \notin Keys

\* An idempotency record for this token and key: its outcome is replayed, or the
\* request is refused when the response has expired.
Recorded(x, k) == outcome[x][k] \in {"rotated", "reuse"}

Record(x, k, result) == outcome' = [outcome EXCEPT ![x][k] = result]

\* run_worker_ephemeral_maintenance deletes a record that has expired.
EraseRecord(x, k) ==
    /\ Recorded(x, k)
    /\ Cardinality({y \in Tokens \X Keys : outcome[y[1]][y[2]] = "erased"}) < MaxErasures
    /\ Record(x, k, "erased")
    /\ Commit({}, {}, {RecordRow(x, k)})
    /\ UNCHANGED <<session, credentials, consent, code, lifecycle>>

\* Rows rotate_refresh_token locks FOR UPDATE, and the record it inserts.
RotateLocks(x, k) ==
    {SessionRow(SessionOf(x[1])), FamilyRow(x[1]), RefreshRow(x), RecordRow(x, k)}

\* The condition "active" of rotate_refresh_token.
Rotatable(x) ==
    /\ x \notin revokedRefresh
    /\ family[x[1]] = "active"
    /\ session[SessionOf(x[1])] = "active"

\* Mutant of IssueNext: the parent token is not consumed.
IssueNextUnconsumed(x) ==
    /\ issued' = [issued EXCEPT ![x[1]] = @ + 1]
    /\ UNCHANGED consumed

\* insert_token_pair_with_id and issue_tokens: the next pair of the family; the
\* parent is consumed.
IssueNext(x) ==
    /\ issued[x[1]] < MaxTokens
    /\ issued' = [issued EXCEPT ![x[1]] = @ + 1]
    /\ consumed' = consumed \cup {x}

\* rotate_refresh_token of an unconsumed token.
FinishRotate(t) ==
    LET x == open[t].op.token
        k == open[t].op.key
    IN
    /\ open[t].op.kind = "rotate"
    /\ RecordRow(x, k) \notin open[t].inserted
    /\ Unconflicted(t, RotateLocks(x, k))
    /\ ~Recorded(x, k)
    /\ x \notin consumed
    /\ Rotatable(x)
    /\ IssueNext(x)
    /\ Record(x, k, "rotated")
    /\ Commit({t}, PairRows(NextToken(x[1])) \cup {RecordRow(x, k)},
              {RefreshRow(x), SessionRow(SessionOf(x[1]))})
    /\ UNCHANGED <<session, family, revokedRefresh, revokedAccess, accessEpoch,
                   consent, code, lifecycle>>

\* revoke_replayed_family: the family is compromised, and the session with every
\* access token that the snapshot shows is revoked.
FinishReuse(t) ==
    LET x == open[t].op.token
        k == open[t].op.key
        s == SessionOf(x[1])
        refresh == {y \in TokensOf({x[1]}) :
                      RefreshRow(y) \notin open[t].inserted}
        access == {y \in TokensOf(FamiliesOf({s})) :
                      AccessRow(y) \notin open[t].inserted}
        written == {RefreshRow(y) : y \in refresh}
                     \cup {AccessRow(y) : y \in access}
                     \cup {FamilyRow(x[1]), SessionRow(s)}
    IN
    /\ open[t].op.kind = "rotate"
    /\ RecordRow(x, k) \notin open[t].inserted
    /\ Unconflicted(t, RotateLocks(x, k) \cup written)
    /\ ~Recorded(x, k)
    /\ x \in consumed
    /\ family' = [family EXCEPT ![x[1]] = "compromised"]
    /\ revokedRefresh' = revokedRefresh \cup refresh
    /\ revokedAccess' = revokedAccess \cup access
    /\ session' = [session EXCEPT ![s] = "revoked"]
    /\ Record(x, k, "reuse")
    /\ Commit({t}, {RecordRow(x, k)}, written)
    /\ UNCHANGED <<issued, consumed, accessEpoch, consent, code, lifecycle>>

\* UPDATE ... SET status = 'revoked' ... WHERE status = 'active'.
Revoked(status) == IF status = "active" THEN "revoked" ELSE status

\* revoke_one and revoke_all with revoke_session_authority: families, refresh and
\* access tokens, codes and consents of the sessions, as far as the snapshot
\* shows them.
FinishLogout(t) ==
    LET op == open[t].op
        fs == {f \in FamiliesOf(op.targets) :
                 FamilyRow(f) \notin open[t].inserted}
        refresh == {x \in TokensOf(fs) :
                      RefreshRow(x) \notin open[t].inserted}
        access == {x \in TokensOf(FamiliesOf(op.targets)) :
                     AccessRow(x) \notin open[t].inserted}
        written == {SessionRow(s) : s \in op.targets}
                     \cup {FamilyRow(f) : f \in fs}
                     \cup {RefreshRow(x) : x \in refresh}
                     \cup {AccessRow(x) : x \in access}
                     \cup {CodeRow(c) : c \in op.codes}
                     \cup {ConsentRow(g) : g \in op.consents}
    IN
    /\ op.kind = "logout"
    /\ Unconflicted(t, written)
    /\ session' = [s \in Sessions |->
         IF s \in op.targets THEN "revoked" ELSE session[s]]
    /\ family' = [f \in Families |->
         IF f \in fs THEN Revoked(family[f]) ELSE family[f]]
    /\ revokedRefresh' = revokedRefresh \cup refresh
    /\ revokedAccess' = revokedAccess \cup access
    /\ code' = [c \in Codes |-> IF c \in op.codes THEN "consumed" ELSE code[c]]
    /\ consent' = [g \in Consents |->
         IF g \in op.consents THEN "revoked" ELSE consent[g]]
    /\ Commit({t}, {}, written)
    /\ UNCHANGED <<issued, consumed, accessEpoch, lifecycle, outcome>>

----------------------------------------------------------------------------
(* Applications *)

\* issue_for_selection and approve_request: the session is locked FOR SHARE and
\* the consent is granted again whatever its status.  The review status is read
\* without a lock, so a suspension may commit in between.
MintCode(c) ==
    LET g == ConsentOf(c)
        new == IF consent[g] = "absent" THEN {ConsentRow(g)} ELSE {}
    IN
    /\ code[c] = "absent"
    /\ \A n \in 1 .. (c[3] - 1) : code[<<c[1], c[2], n>>] # "absent"
    /\ session[SessionOf(c)] = "active"
    /\ code' = [code EXCEPT ![c] = "approved"]
    /\ consent' = [consent EXCEPT ![g] = "active"]
    /\ Commit({}, {CodeRow(c)} \cup new, {ConsentRow(g)} \ new)
    /\ UNCHANGED <<session, credentials, lifecycle, outcome>>

\* Mutant of SubjectAuthority: the parent session is not looked at.
ConsentAuthority(f) == consent[ConsentOf(f)] = "active"

\* lock_current_application_oauth_subject_authority, held until commit.
SubjectAuthority(f) ==
    session[SessionOf(f)] = "active" /\ consent[ConsentOf(f)] = "active"

\* lock_current_application_client, held until commit.
ClientCurrent(f) == standing[ClientOf(f)] = "verified"

\* exchange_authorization_code: the code opens a family with its first pair.
ExchangeCode(c) ==
    /\ ClientCurrent(c)
    /\ SubjectAuthority(c)
    /\ code[c] = "approved"
    /\ code' = [code EXCEPT ![c] = "consumed"]
    /\ family' = [family EXCEPT ![c] = "active"]
    /\ issued' = [issued EXCEPT ![c] = 1]
    /\ accessEpoch' = [accessEpoch EXCEPT ![<<c, 1>>] = epoch[ClientOf(c)]]
    /\ Commit({}, {FamilyRow(c)} \cup PairRows(<<c, 1>>), {CodeRow(c)})
    /\ UNCHANGED <<session, consumed, revokedRefresh, revokedAccess, consent,
                   lifecycle, outcome>>

\* exchange_refresh_token of an unconsumed token.
ExchangeRefresh(x, k) ==
    LET f == x[1] IN
    /\ f \in Codes /\ x \in IssuedTokens
    /\ ~Recorded(x, k)
    /\ x \notin consumed
    /\ x \notin revokedRefresh
    /\ family[f] = "active"
    /\ ClientCurrent(f)
    /\ SubjectAuthority(f)
    /\ IssueNext(x)
    /\ accessEpoch' = [accessEpoch EXCEPT ![NextToken(f)] = epoch[ClientOf(f)]]
    /\ Record(x, k, "rotated")
    /\ Commit({}, PairRows(NextToken(f)) \cup {RecordRow(x, k)}, {RefreshRow(x)})
    /\ UNCHANGED <<session, family, revokedRefresh, revokedAccess, consent, code,
                   lifecycle>>

\* Mutant of FamilyAccess: access tokens of the same session and application.
ClientAccess(fs) ==
    {x \in IssuedTokens : \E f \in fs : ConsentOf(x[1]) = ConsentOf(f)}

\* OAUTH_REFRESH_FAMILY_ACCESS_REVOCATION_QUERY
FamilyAccess(fs) == TokensOf(fs)

\* Families, tokens and rows an application-side revocation of families writes.
RevokeFamilies(fs, status) ==
    /\ family' = [f \in Families |-> IF f \in fs THEN status ELSE family[f]]
    /\ revokedRefresh' = revokedRefresh \cup TokensOf(fs)
    /\ revokedAccess' = revokedAccess \cup FamilyAccess(fs)

FamilyRows(fs) ==
    {FamilyRow(f) : f \in fs} \cup {RefreshRow(x) : x \in TokensOf(fs)}
      \cup {AccessRow(x) : x \in FamilyAccess(fs)}

\* compromise_refresh_family: the family of the reused token, if still active.
ReuseScope(f) == {f} \cap {h \in Codes : family[h] = "active"}

\* exchange_refresh_token of a consumed token under another key.
RefreshReuse(x, k) ==
    LET fs == ReuseScope(x[1]) IN
    /\ x[1] \in Codes /\ x \in IssuedTokens
    /\ ~Recorded(x, k)
    /\ x \in consumed
    /\ RevokeFamilies(fs, "compromised")
    /\ Record(x, k, "reuse")
    /\ Commit({}, {RecordRow(x, k)}, FamilyRows(fs))
    /\ UNCHANGED <<session, issued, consumed, accessEpoch, consent, code,
                   lifecycle>>

\* revoke_for_application with an access token.
RevokeAccessToken(x) ==
    /\ x[1] \in Codes /\ x \in IssuedTokens
    /\ x \notin revokedAccess
    /\ revokedAccess' = revokedAccess \cup {x}
    /\ Commit({}, {}, {AccessRow(x)})
    /\ UNCHANGED <<session, family, issued, consumed, revokedRefresh, accessEpoch,
                   consent, code, lifecycle, outcome>>

\* revoke_for_application with a refresh token.
RevokeRefreshFamily(f) ==
    /\ f \in Codes /\ family[f] = "active"
    /\ RevokeFamilies({f}, "revoked")
    /\ Commit({}, {}, FamilyRows({f}))
    /\ UNCHANGED <<session, issued, consumed, accessEpoch, consent, code,
                   lifecycle, outcome>>

\* Mutant of SuspendApplication: only the review status changes.
SuspendStatusOnly(a) ==
    /\ standing[a] = "verified" /\ epoch[a] < MaxSuspensions
    /\ standing' = [standing EXCEPT ![a] = "suspended"]
    /\ Commit({}, {}, {})
    /\ UNCHANGED <<session, credentials, consent, code, epoch, outcome>>

\* admin_decide "suspend" with revoke_application_authority: families, tokens and
\* consents of the application; its codes are left alone.
SuspendApplication(a) ==
    LET fs == {f \in Codes : ClientOf(f) = a /\ family[f] # "absent"}
        gs == {g \in Consents : g[2] = a /\ consent[g] = "active"}
    IN
    /\ standing[a] = "verified" /\ epoch[a] < MaxSuspensions
    /\ standing' = [standing EXCEPT ![a] = "suspended"]
    /\ epoch' = [epoch EXCEPT ![a] = @ + 1]
    /\ family' = [f \in Families |->
         IF f \in fs THEN Revoked(family[f]) ELSE family[f]]
    /\ revokedRefresh' = revokedRefresh \cup TokensOf(fs)
    /\ revokedAccess' = revokedAccess \cup TokensOf(fs)
    /\ consent' = [g \in Consents |-> IF g \in gs THEN "revoked" ELSE consent[g]]
    /\ Commit({}, {},
         {FamilyRow(f) : f \in {h \in fs : family[h] = "active"}}
           \cup {RefreshRow(x) : x \in TokensOf(fs) \ revokedRefresh}
           \cup {AccessRow(x) : x \in TokensOf(fs) \ revokedAccess}
           \cup {ConsentRow(g) : g \in gs})
    /\ UNCHANGED <<session, issued, consumed, accessEpoch, code, outcome>>

\* admin_decide "reactivate": the epoch keeps its new value.
ReactivateApplication(a) ==
    /\ standing[a] = "suspended"
    /\ standing' = [standing EXCEPT ![a] = "verified"]
    /\ Commit({}, {}, {})
    /\ UNCHANGED <<session, credentials, consent, code, epoch, outcome>>

SerializableStep(t) ==
    \/ \E x \in Tokens, k \in Keys : x[1] \in IamFamilies /\ BeginRotate(t, x, k)
    \/ BeginLogout(t)
    \/ FinishRotate(t)
    \/ FinishReuse(t)
    \/ FinishLogout(t)
    \/ Rollback(t)

ApplicationStep ==
    \/ \E c \in Codes : MintCode(c) \/ ExchangeCode(c) \/ RevokeRefreshFamily(c)
    \/ \E x \in Tokens, k \in Keys : ExchangeRefresh(x, k) \/ RefreshReuse(x, k)
    \/ \E x \in Tokens : RevokeAccessToken(x)
    \/ \E a \in Applications : SuspendApplication(a) \/ ReactivateApplication(a)

Next ==
    \/ \E s \in Sessions : Login(s)
    \/ \E t \in Transactions : SerializableStep(t)
    \/ \E x \in Tokens, k \in Keys : EraseRecord(x, k)
    \/ ApplicationStep

Spec == Init /\ [][Next]_vars

----------------------------------------------------------------------------
(* Properties *)

\* infrastructure authenticate: what a presented access token must satisfy.
Usable(x) ==
    LET f == x[1] IN
    /\ x \in IssuedTokens
    /\ x \notin revokedAccess
    /\ session[SessionOf(f)] = "active"
    /\ f \in Codes =>
         /\ standing[ClientOf(f)] = "verified"
         /\ epoch[ClientOf(f)] = accessEpoch[x]
         /\ consent[ConsentOf(f)] = "active"

\* Rows, records and transactions stay within their declared shape.
TypeOK ==
    /\ session \in [Sessions -> {"absent", "active", "revoked"}]
    /\ family \in [Families -> {"absent", "active", "revoked", "compromised"}]
    /\ issued \in [Families -> 0 .. MaxTokens]
    /\ consumed \in SUBSET Tokens
    /\ revokedRefresh \in SUBSET Tokens
    /\ revokedAccess \in SUBSET Tokens
    /\ accessEpoch \in [Tokens -> 0 .. MaxSuspensions]
    /\ consent \in [Consents -> {"absent", "active", "revoked"}]
    /\ code \in [Codes -> {"absent", "approved", "consumed"}]
    /\ standing \in [Applications -> {"verified", "suspended"}]
    /\ epoch \in [Applications -> 0 .. MaxSuspensions]
    /\ outcome \in [Tokens -> [Keys -> {"none", "rotated", "reuse", "erased"}]]
    /\ DOMAIN open = Transactions
    /\ \A t \in Transactions : open[t].op \in {Idle} \cup RotateOp \cup LogoutOp

\* Rotation keeps at most one refresh token of a family presentable, whatever
\* presentations, logouts and revocations overlap.
OneLiveRefresh ==
    \A f \in Families :
        Cardinality(TokensOf({f}) \ (consumed \cup revokedRefresh)) <= 1

\* A family that is no longer active holds no unrevoked refresh or access token:
\* a rotation that commits between the snapshot and the sweep of a logout or of
\* a reuse revocation leaves none behind.
InactiveFamilyIsDead ==
    \A f \in Families :
        family[f] \in {"revoked", "compromised"}
          => TokensOf({f}) \subseteq revokedRefresh \cap revokedAccess

\* A family is compromised only when one of its tokens, consumed under a key, is
\* presented under another key, or under the same one after its record was erased: a
\* client that retries with the key of the lost answer while the record lives keeps
\* its session.
HonestRetryStep ==
    \A f \in Families :
        family[f] # "compromised" /\ family'[f] = "compromised" =>
          \E x \in TokensOf({f}), j, k \in Keys :
            /\ outcome[x][j] \in {"rotated", "erased"}
            /\ outcome[x][k] # "reuse" /\ outcome'[x][k] = "reuse"
            /\ outcome[x][j] = "rotated" => j # k
HonestRetrySafe == [][HonestRetryStep]_vars

\* The three together, of every family there is: one live refresh token at most,
\* none in a family that ended, and none that ended over an honest retry.
FamilySound == [](OneLiveRefresh /\ InactiveFamilyIsDead) /\ HonestRetrySafe

\* docs/client/README.md: reuse of an application refresh token "does not revoke
\* the parent IAM session, other devices, or unrelated Applications".
ReuseContainedStep ==
    \A f \in Codes :
      family[f] = "active" /\ family'[f] = "compromised" =>
        /\ session' = session /\ consent' = consent
        /\ \A x \in IssuedTokens : x[1] # f /\ Usable(x) => Usable(x)'
        /\ \A h \in Families \ {f} : family'[h] = family[h]
ReuseContained == [][ReuseContainedStep]_vars

\* No token pair is issued under a session that was revoked before, whichever
\* snapshot, code or surviving family the request started from.
NoIssueAfterRevocationStep ==
    \A f \in Families :
      issued'[f] > issued[f] => session[SessionOf(f)] # "revoked"
NoIssueAfterRevocation == [][NoIssueAfterRevocationStep]_vars

\* An access token that stopped being usable never becomes usable again: not by
\* a new consent of the same session, nor by reactivating the application.
NoResurrectionStep ==
    \A x \in IssuedTokens : ~Usable(x) => ~Usable(x)'
NoResurrection == [][NoResurrectionStep]_vars

\* What an application holds ends as a whole and for good, and with the session:
\* an inactive family is dead, reuse of one of its tokens ends nothing else, nothing
\* is issued under a revoked session, and no access token works again once it did not.
AuthoritySound ==
    /\ []InactiveFamilyIsDead
    /\ ReuseContained
    /\ NoIssueAfterRevocation
    /\ NoResurrection

\* Symmetries for TLC: sessions, keys and transactions are told apart nowhere.
FirstPartySymmetry ==
    Permutations(Transactions) \cup Permutations(Sessions) \cup Permutations(Keys)
KeySymmetry == Permutations(Keys)
=============================================================================
