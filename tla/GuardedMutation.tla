-------------------------- MODULE GuardedMutation --------------------------
(***************************************************************************)
(* The envelope every versioned change of the API goes through: admit the  *)
(* credential, claim the idempotency key, compare the If-Match version,    *)
(* spend the step-up proof, write, append audit and outbox rows, store the *)
(* answer, commit.                                                         *)
(*                                                                         *)
(* Sources: src/features/organizations/support.rs and handlers.rs,         *)
(*          src/features/sso/support.rs, src/api/me.rs,                    *)
(*          src/features/testing_environments/support.rs and manager.rs,   *)
(*          src/infrastructure/postgres/events.rs.                         *)
(*                                                                         *)
(* Four families share it and differ in whom they admit, in the scope a    *)
(* key is claimed under and in what they record.  How a claimed key itself *)
(* is stored and recovered is module Idempotency; one request body here.   *)
(* Row locks last until commit, so the steps from the version check to the *)
(* commit are two: Lock and Finish.                                        *)
(***************************************************************************)
EXTENDS Naturals, Sequences, FiniteSets

CONSTANTS
    Orgs, Sessions, Keys,
    Tokens,             \* credentials in use, each a member of TokenType
    Resources,          \* what is changed, each a <<family, owner>>
    Slots,              \* requests in flight
    MaxChanges,         \* bound on the changes committed
    MaxProofs           \* bound on the step-up proofs of a session

Permissions == {"profile", "sso"}

\* First-party tokens of the person and of a Silicon, tokens an application
\* holds for the person, and the application's own client credential.
TokenType ==
    [holder : {"carbon"}, via : {"iam"}, session : Sessions, org : {"any"}, scopes : {{}}]
    \cup [holder : {"silicon"}, via : {"iam"}, session : {"none"}, org : Orgs, scopes : {{}}]
    \cup [holder : {"carbon"}, via : {"app"}, session : Sessions, org : Orgs \cup {"any"}, scopes : SUBSET Permissions]
    \cup [holder : {"application"}, via : {"client"}, session : {"none"}, org : Orgs, scopes : {{}}]

Family == {"organization", "sso", "profile", "environment"}

\* The profile belongs to the person, the rest to an organization.
ResourceType == {<<"profile", "person">>} \cup ((Family \ {"profile"}) \X Orgs)

ASSUME MutationAssumption == Tokens \subseteq TokenType /\ Resources \subseteq ResourceType

Idle == [phase |-> "idle"]

VARIABLES
    member,     \* organizations the person is an active member of
    selected,   \* organizations the application was granted access to
    version,    \* version of each resource
    announced,  \* outbox: per resource, the versions announced in order
    audited,    \* per resource, the audit entries in order
    proof,      \* newest step-up proof of each session
    stored,     \* answers stored under a claimed key
    request,    \* requests in flight
    sanctioned  \* single sign-on changes committed by each session

mutationVars == <<member, selected, version, announced, audited, proof, stored, request, sanctioned>>

MutationInit ==
    /\ member = Orgs /\ selected = Orgs
    /\ version = [r \in Resources |-> 1]
    /\ announced = [r \in Resources |-> <<>>]
    /\ audited = [r \in Resources |-> <<>>]
    /\ proof = [s \in Sessions |-> [number |-> 0, org |-> "none", fresh |-> FALSE]]
    /\ stored = {}
    /\ request = [x \in Slots |-> Idle]
    /\ sanctioned = [s \in Sessions |-> 0]

----------------------------------------------------------------------------
(* Admission *)

\* direct_iam_binding, begin_organization: a Silicon acts in its own organization only.
DirectBinding(t, o) ==
    /\ t.via = "iam"
    /\ t.holder = "carbon" => o \in member
    /\ t.holder = "silicon" => t.org = o

\* require_application_scope
ApplicationScope(t, permission) == t.via = "app" => permission \in t.scopes

\* begin_directory_organization for a token an application holds.
Selected(t, o) ==
    /\ t.via = "app"
    /\ o \in member
    /\ t.org \in {"any", o}
    /\ o \in selected

\* EnvironmentManager::begin
Manages(t, o) == DirectBinding(t, o) \/ (t.via = "client" /\ t.org = o)

AdmitOrganization(t, o) == ApplicationScope(t, "profile") /\ (DirectBinding(t, o) \/ Selected(t, o))

AdmitSso(t, o) ==
    /\ t.holder = "carbon"
    /\ ApplicationScope(t, "sso")
    /\ DirectBinding(t, o) \/ Selected(t, o)

\* require_self_service
AdmitProfile(t) == t.holder = "carbon" /\ t.via = "iam"

Admitted(t, r) ==
    CASE r[1] = "organization" -> AdmitOrganization(t, r[2])
      [] r[1] = "sso"          -> AdmitSso(t, r[2])
      [] r[1] = "environment"  -> Manages(t, r[2])
      [] r[1] = "profile"      -> AdmitProfile(t)

----------------------------------------------------------------------------
(* Claiming the key *)

\* application_caller_scope: an application's session and scopes.
Direct == [app |-> FALSE, session |-> "none", scopes |-> {}]
ApplicationPart(t) == IF t.via = "app" THEN [app |-> TRUE, session |-> t.session, scopes |-> t.scopes] ELSE Direct

\* idempotency_caller_scope of the organization routes.
OrganizationScope(t, o) == [holder |-> t.holder, resource |-> o, as |-> ApplicationPart(t)]

\* idempotency_caller_scope of the single sign-on routes, which admit persons only.
SsoScope(t, o) == [holder |-> "carbon", resource |-> o, as |-> ApplicationPart(t)]

\* Environment and profile routes admit no token held by an application.
EnvironmentScope(t, o) == [holder |-> t.holder, resource |-> o, as |-> Direct]
ProfileScope(t) == [holder |-> "carbon", resource |-> "person", as |-> Direct]

\* Mutant of CallerScope: the holder and the resource for every route.
CallerScopePlain(t, r) == EnvironmentScope(t, r[2])

CallerScope(t, r) ==
    CASE r[1] = "organization" -> OrganizationScope(t, r[2])
      [] r[1] = "sso"          -> SsoScope(t, r[2])
      [] r[1] = "environment"  -> EnvironmentScope(t, r[2])
      [] r[1] = "profile"      -> ProfileScope(t)

\* The name a key is stored under; the route is part of it.
Name(t, r, k) == [route |-> r[1], scope |-> CallerScope(t, r), key |-> k]

StoredUnder(name) == {a \in stored : a.name = name}

InFlight(x) == request[x].phase # "idle"

----------------------------------------------------------------------------
(* A request *)

\* Admit, with the version the client last saw in If-Match.
Begin(x) ==
    /\ ~InFlight(x)
    /\ \E t \in Tokens, r \in Resources, k \in Keys :
        /\ Admitted(t, r)
        /\ \E e \in 1..version[r] :
            request' = [request EXCEPT ![x] = [phase |-> "open", token |-> t, resource |-> r, key |-> k, expected |-> e]]
    /\ UNCHANGED <<member, selected, version, announced, audited, proof, stored, sanctioned>>

\* Claims wait for one another until the holder commits or rolls back.
ClaimFree(x, name) ==
    \A y \in Slots \ {x} :
        request[y].phase \in {"claimed", "locked"} =>
            Name(request[y].token, request[y].resource, request[y].key) # name

InPhase(q, phase) == [q EXCEPT !.phase = phase]

\* claim: a stored answer is given out again, otherwise the key is taken.
Claim(x) ==
    LET q == request[x]
        name == Name(q.token, q.resource, q.key)
    IN  /\ q.phase = "open"
        /\ ClaimFree(x, name)
        /\ \/ StoredUnder(name) # {} /\ request' = [request EXCEPT ![x] = Idle]
           \/ StoredUnder(name) = {} /\ request' = [request EXCEPT ![x] = InPhase(@, "claimed")]
    /\ UNCHANGED <<member, selected, version, announced, audited, proof, stored, sanctioned>>

\* The resource row is free.
RowFree(x, r) ==
    \A y \in Slots \ {x} : request[y].phase = "locked" => request[y].resource # r

\* Mutant of VersionMatches: the read before the row lock decides.
VersionRead(q) == q.expected <= version[q.resource]

\* UPDATE ... WHERE version = expected, or the comparison under FOR UPDATE.
VersionMatches(q) == q.expected = version[q.resource]

Lock(x) ==
    LET q == request[x]
    IN  /\ q.phase = "claimed"
        /\ RowFree(x, q.resource)
        /\ VersionMatches(q)
        /\ request' = [request EXCEPT ![x] = InPhase(@, "locked")]
    /\ UNCHANGED <<member, selected, version, announced, audited, proof, stored, sanctioned>>

\* Mutant of Consumable: a proof of the session for the resource, spent or not.
ConsumableAgain(q) == q.resource[1] = "sso" => proof[q.token.session].org = q.resource[2]

\* consume_step_up: the proof of this session, for this resource, unspent.
Consumable(q) ==
    q.resource[1] = "sso" =>
        /\ proof[q.token.session].fresh
        /\ proof[q.token.session].org = q.resource[2]

Spent(p) == [p EXCEPT !.fresh = FALSE]

Consumed(q) ==
    IF q.resource[1] = "sso" THEN [proof EXCEPT ![q.token.session] = Spent(@)] ELSE proof

Sanctioned(q) ==
    IF q.resource[1] = "sso" THEN [sanctioned EXCEPT ![q.token.session] = @ + 1] ELSE sanctioned

\* record_audit
Audited(q) ==
    [audited EXCEPT ![q.resource] = Append(@, [version |-> version'[q.resource], over |-> q.expected, by |-> q.token.holder])]

\* Mutant of Announced: environments are announced like the rest.
AnnouncedAll(q) == [announced EXCEPT ![q.resource] = Append(@, version[q.resource])]

\* enqueue_outbox; no subscription covers testing environments.
Announced(q) ==
    IF q.resource[1] = "environment" THEN announced
    ELSE [announced EXCEPT ![q.resource] = Append(@, version'[q.resource])]

\* The answer stored for the key.
Answer(q) == [name |-> Name(q.token, q.resource, q.key), by |-> q.token, resource |-> q.resource]

\* Changes committed so far.
Committed == Cardinality(UNION {{r} \X (1..Len(audited[r])) : r \in Resources})

\* Write, record, store the answer and commit.
Finish(x) ==
    LET q == request[x]
    IN  /\ q.phase = "locked"
        /\ Committed < MaxChanges
        /\ Consumable(q)
        /\ proof' = Consumed(q)
        /\ version' = [version EXCEPT ![q.resource] = @ + 1]
        /\ audited' = Audited(q)
        /\ announced' = Announced(q)
        /\ stored' = stored \cup {Answer(q)}
        /\ sanctioned' = Sanctioned(q)
        /\ request' = [request EXCEPT ![x] = Idle]
    /\ UNCHANGED <<member, selected>>

\* A refusal, a serialization failure or a crash rolls everything back.
GiveUpRequest(x) ==
    /\ InFlight(x)
    /\ request' = [request EXCEPT ![x] = Idle]
    /\ UNCHANGED <<member, selected, version, announced, audited, proof, stored, sanctioned>>

----------------------------------------------------------------------------
(* Around it *)

\* A change to single sign-on that no If-Match request asked for; the row is free.
Unrequested(r, by) ==
    /\ r[1] = "sso"
    /\ Committed < MaxChanges
    /\ \A x \in Slots : request[x].phase = "locked" => request[x].resource # r
    /\ version' = [version EXCEPT ![r] = @ + 1]
    /\ audited' = [audited EXCEPT ![r] = Append(@, [version |-> version'[r], over |-> version[r], by |-> by])]
    /\ announced' = [announced EXCEPT ![r] = Append(@, version'[r])]
    /\ UNCHANGED <<member, selected, proof, stored, request, sanctioned>>

\* record_system_mutation: an event of the identity provider.
ProviderChange(r) == Unrequested(r, "provider")

\* record_browser_mutation: a person signing in through the provider.
BrowserChange(r) == Unrequested(r, "carbon")

\* The person completes a step-up challenge for one organization.
Prove(s) ==
    /\ proof[s].number < MaxProofs
    /\ ~proof[s].fresh
    /\ \E o \in Orgs : proof' = [proof EXCEPT ![s] = [number |-> @.number + 1, org |-> o, fresh |-> TRUE]]
    /\ UNCHANGED <<member, selected, version, announced, audited, stored, request, sanctioned>>

\* A membership or a consent ends, once; neither is locked by a request in flight.
EndAuthority ==
    /\ member = Orgs /\ selected = Orgs
    /\ \/ \E o \in member : member' = member \ {o} /\ UNCHANGED selected
       \/ \E o \in selected : selected' = selected \ {o} /\ UNCHANGED member
    /\ UNCHANGED <<version, announced, audited, proof, stored, request, sanctioned>>

MutationNext ==
    \/ \E x \in Slots : Begin(x) \/ Claim(x) \/ Lock(x) \/ Finish(x) \/ GiveUpRequest(x)
    \/ \E r \in Resources : ProviderChange(r) \/ BrowserChange(r)
    \/ \E s \in Sessions : Prove(s)
    \/ EndAuthority

MutationSpec == MutationInit /\ [][MutationNext]_mutationVars

----------------------------------------------------------------------------
(* Properties *)

\* A stored answer is given only to the actor it was produced for, about the same
\* resource, and never crosses between the person's own tokens and those an
\* application holds, nor between two sessions or scope sets of an application.
ReplayConfined ==
    \A x \in Slots :
        LET q == request[x]
        IN  q.phase = "open" =>
              \A a \in StoredUnder(Name(q.token, q.resource, q.key)) :
                /\ a.resource = q.resource
                /\ a.by.holder = q.token.holder
                /\ "app" \in {a.by.via, q.token.via} =>
                      /\ a.by.via = q.token.via
                      /\ a.by.session = q.token.session /\ a.by.scopes = q.token.scopes

\* Every committed version has one audit entry, and one event unless nothing can
\* subscribe to it, in version order; each was written over the version its
\* author had seen.
HistoryComplete ==
    \A r \in Resources :
        LET n == version[r] - 1
        IN  /\ Len(audited[r]) = n
            /\ \A i \in 1..n : audited[r][i].version = i + 1 /\ audited[r][i].over = i
            /\ announced[r] = IF r[1] = "environment" THEN <<>> ELSE [i \in 1..n |-> i + 1]

\* One step-up proof sanctions one committed change.
ProofSpentOnce ==
    \A s \in Sessions : sanctioned[s] + (IF proof[s].fresh THEN 1 ELSE 0) <= proof[s].number

MutationSound == ReplayConfined /\ HistoryComplete /\ ProofSpentOnce

=============================================================================
