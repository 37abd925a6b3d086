-------------------------- MODULE ApplicationScopes --------------------------
(***************************************************************************)
(* What an application may ask of a user: the scopes it wants, the scopes  *)
(* that are approved and on what basis, the review threads, and its        *)
(* publication through Honeycomb.                                          *)
(*                                                                         *)
(* Sources: src/features/applications/{applications,scopes,scope_reviews}  *)
(*          .rs, honeycomb/operations.rs, operations/{publication,         *)
(*          decisions}.rs and the functions of migrations/0077, 0096,      *)
(*          0097, 0102, 0119, 0120 and 0121 they call.                     *)
(*                                                                         *)
(* Every operation on the application locks its row first and is one step. *)
(* A provider that makes a scope critical locks only its own row, so that  *)
(* change takes two: what it read of this application and wrote to its     *)
(* approvals, and the commit.  The two statements it reads the visibility  *)
(* with count as one.  An If-Match or expected_iam_revision only refuses.  *)
(* The configuration that a plan binds by its digest is its set of scopes. *)
(* Consents and tokens that rest on the approvals are the module           *)
(* ScopedTokens.                                                           *)
(***************************************************************************)
EXTENDS Naturals, FiniteSets, TLAPS

CONSTANTS
    AppScopes,      \* scopes of the catalogue
    ProviderOf,     \* who reviews a scope: "iam", "honeycomb" or an application
    Reclassified,   \* scopes of an application, whose owner may change "critical"
    RoleChanges,    \* bound: providers whose reviewer may lose the role
    Plans,          \* publication plans
    MaxRevision     \* bound: configuration revisions of Honeycomb

Providers == {ProviderOf[s] : s \in AppScopes} \union {"honeycomb"}

ASSUME ScopesAssumption ==
    /\ ProviderOf \in [AppScopes -> STRING]
    /\ Reclassified \subseteq AppScopes
    /\ RoleChanges \subseteq Providers
    /\ MaxRevision \in Nat \ {0}

Unplanned == [at |-> "none"]
NoThread == {}

VARIABLES
    critical,    \* the critical scopes of application_scope_catalog
    client,      \* the iam.applications row
    basis,       \* iam.application_approved_scopes: basis of the live approval
    thread,      \* scopes of the pending scope request to each provider
    plan,        \* iam.honeycomb_publication_plans with their latest decisions
    upgrade,     \* the open transaction that makes a scope critical
    reviewers    \* providers whose reviewer is eligible at this moment

applicationScopeVars ==
    <<critical, client, basis, thread, plan, upgrade, reviewers>>

NoUpgrade == [scope |-> "none", held |-> FALSE, basis |-> "none"]

Wanted == {S \in SUBSET AppScopes : S # {}}
Live == {s \in AppScopes : basis[s] # "none"}

ApplicationScopesTypeOK ==
    /\ critical \subseteq AppScopes
    /\ client \in [visibility : {"private", "public"},
                   status : {"under_review", "verified", "suspended", "rejected", "deleted"},
                   scope : Wanted, revision : 0..MaxRevision]
    /\ basis \in [AppScopes -> {"none", "noncritical", "private_exemption", "provider_approval"}]
    /\ reviewers \subseteq Providers

----------------------------------------------------------------------------
(* configure_application_scopes, on its own values so that it composes *)

\* Approvals of the scopes still wanted stay; a missing one is granted when
\* the scope is not critical or the application is private.
Configured(b, S, visibility) ==
    [s \in AppScopes |->
        IF s \notin S THEN "none"
        ELSE IF b[s] # "none" THEN b[s]
        ELSE IF s \notin critical THEN "noncritical"
        ELSE IF visibility = "private" THEN "private_exemption" ELSE "none"]

\* Under review until everything wanted is approved.
Reviewed(status, S, b) ==
    IF status = "under_review" /\ \A s \in S : b[s] # "none" THEN "verified" ELSE status

\* Approvals that end, in a step from b to c.
Ended(b, c) == {s \in AppScopes : b[s] # "none" /\ c[s] = "none"}

\* What ending the approvals of R does to the plans that rest on them.
Lapse(R) ==
    [p \in Plans |->
        IF plan[p].at = "none" THEN plan[p]
        ELSE [plan[p] EXCEPT !.lapsed = @ \/ R \cap plan[p].reused # {},
                             !.voided = @ \union {s \in R \cap plan[p].scope :
                                          plan[p].verdict[ProviderOf[s]] # "none"}]]

ClientExists == client.status # "deleted"

ApplicationScopesInit ==
    /\ critical \in {C \in SUBSET AppScopes : AppScopes \ Reclassified \subseteq C}
    /\ \E S \in Wanted, v \in {"private", "public"} :
          LET b == Configured([s \in AppScopes |-> "none"], S, v) IN
          /\ basis = b
          /\ client = [visibility |-> v,
                       status |-> IF v = "private" THEN "verified" ELSE Reviewed("under_review", S, b),
                       scope |-> S,
                       revision |-> IF v = "private" THEN 1 ELSE 0]
    /\ thread = [g \in Providers |-> NoThread]
    /\ plan = [p \in Plans |-> Unplanned]
    /\ upgrade = NoUpgrade
    /\ reviewers = Providers

----------------------------------------------------------------------------
(* The owner of the application *)

\* applications::patch with an app_scope.
Patch(S) ==
    LET b == Configured(basis, S, client.visibility) IN
    /\ ClientExists
    /\ S # client.scope
    /\ basis' = b
    /\ client' = [client EXCEPT !.scope = S, !.status = Reviewed(@, S, b)]
    /\ plan' = Lapse(Ended(basis, b))
    /\ UNCHANGED <<critical, thread, upgrade, reviewers>>

\* scope_reviews::submit: configures, supersedes every pending thread and opens
\* one for each provider of a critical scope that is not approved.
Submit(S) ==
    LET b == Configured(basis, S, client.visibility)
        missing == {s \in S \cap critical : b[s] = "none"} IN
    /\ ClientExists
    /\ missing # {}
    /\ basis' = b
    /\ client' = [client EXCEPT !.scope = S, !.status = Reviewed(@, S, b)]
    /\ thread' = [g \in Providers |->
                    {s \in missing : ProviderOf[s] = g}]
    /\ plan' = Lapse(Ended(basis, b))
    /\ UNCHANGED <<critical, upgrade, reviewers>>

\* Honeycomb configure with visibility private: accepted at once.  A public
\* configuration is only recorded as pending and changes nothing here.
ConfigurePrivate(S, availability) ==
    LET b == Configured(Configured(basis, S, client.visibility), S, "private") IN
    /\ ClientExists
    /\ client.revision < MaxRevision
    /\ basis' = b
    /\ client' = [client EXCEPT !.visibility = "private", !.scope = S,
                                !.status = IF availability = "disabled" THEN "suspended" ELSE "verified",
                                !.revision = @ + 1]
    /\ plan' = Lapse(Ended(basis, b))
    /\ UNCHANGED <<critical, thread, upgrade, reviewers>>

----------------------------------------------------------------------------
(* Reviewers *)

\* scope_reviews::decide; the thread must still be wanted in full.
DecideThread(g, decision) ==
    LET t == thread[g]
        b == [s \in AppScopes |->
                IF decision = "approve" /\ s \in t /\ basis[s] = "none"
                THEN "provider_approval" ELSE basis[s]] IN
    /\ ClientExists
    /\ t # NoThread
    /\ g \in reviewers
    /\ t \subseteq client.scope
    /\ basis' = b
    /\ thread' = [thread EXCEPT ![g] = NoThread]
    /\ client' = IF decision = "approve"
                 THEN [client EXCEPT !.status = Reviewed(@, client.scope, b)] ELSE client
    /\ UNCHANGED <<critical, plan, upgrade, reviewers>>

\* honeycomb_scope_decision: the old approval ends either way.
ScopeDecision(s, decision) ==
    /\ ClientExists
    /\ ProviderOf[s] \in reviewers
    /\ s \in client.scope \cap critical
    /\ basis' = [basis EXCEPT ![s] = IF decision = "approve" THEN "provider_approval" ELSE "none"]
    /\ plan' = Lapse({s} \cap Live)
    /\ UNCHANGED <<critical, client, thread, upgrade, reviewers>>

\* The reviewer of a provider loses or regains the role (directory, platform roles).
ReviewerChange(g) ==
    /\ reviewers' = IF g \in reviewers THEN reviewers \ {g} ELSE reviewers \union {g}
    /\ UNCHANGED <<critical, client, basis, thread, plan, upgrade>>

\* replace_obo_endpoints of a provider: the endpoint is no longer critical.
Downgrade(s) ==
    /\ s \in critical
    /\ upgrade.scope = "none"
    /\ critical' = critical \ {s}
    /\ UNCHANGED <<client, basis, thread, plan, upgrade, reviewers>>

\* It becomes critical.  invalidate_upgraded_obo_endpoint_scope rewrites the live
\* approval for an application it sees private, revokes it for one it sees public.
BeginUpgrade(s) ==
    /\ s \notin critical
    /\ upgrade.scope = "none"
    /\ upgrade' = [scope |-> s, held |-> basis[s] # "none",
                   basis |-> IF client.visibility = "private" /\ basis[s] # "none"
                             THEN "private_exemption" ELSE "none"]
    /\ UNCHANGED <<critical, client, basis, thread, plan, reviewers>>

CommitUpgrade ==
    LET s == upgrade.scope IN
    /\ s # "none"
    /\ critical' = critical \union {s}
    /\ basis' = IF upgrade.held THEN [basis EXCEPT ![s] = upgrade.basis] ELSE basis
    /\ plan' = IF upgrade.held
               THEN [p \in Plans |->
                       IF plan[p].at = "none" \/ upgrade.basis = "none" THEN Lapse({s})[p]
                       ELSE [plan[p] EXCEPT !.lapsed = @ \/ s \in plan[p].reused]]
               ELSE plan
    /\ upgrade' = NoUpgrade
    /\ UNCHANGED <<client, thread, reviewers>>

\* A step on the application waits for the approval row the upgrade has written.
RowFree == upgrade.held => basis'[upgrade.scope] = basis[upgrade.scope]

----------------------------------------------------------------------------
(* Publication *)

\* honeycomb_publication_gates
CatalogGates(S) == [g \in Providers |-> {s \in S \cap critical : ProviderOf[s] = g}]

\* The gates of a plan: the validator's always, another while it has scopes left.
Gates(p) == {g \in Providers : g = "honeycomb" \/ plan[p].gates[g] \ plan[p].reused # {}}

\* The revision may not be behind the application, nor repeat a public one.
RevisionOpen(r) == r > client.revision \/ (r = client.revision /\ client.visibility = "private")

\* validate_current_revision: publishing the saved revision changes visibility only.
MatchesSaved(r, S) ==
    r = client.revision =>
        client.visibility = "private" /\ client.status = "verified"
        /\ client.scope = S

\* publication::plan; a retry with the same request only reads the plan.
MakePlan(p, S, r) ==
    /\ ClientExists
    /\ plan[p].at = "none"
    /\ RevisionOpen(r)
    /\ MatchesSaved(r, S)
    /\ plan' = [plan EXCEPT ![p] =
                  [at |-> "open", revision |-> r, scope |-> S,
                   gates |-> CatalogGates(S),
                   reused |-> {s \in S \cap critical : basis[s] = "provider_approval"},
                   lapsed |-> FALSE, voided |-> {}, verdict |-> [g \in Providers |-> "none"]]]
    /\ UNCHANGED <<critical, client, basis, thread, upgrade, reviewers>>

\* The catalogue still asks for what the plan was made for, and the approvals
\* it reuses are the very ones it found.
PlanCurrent(p) == plan[p].gates = CatalogGates(plan[p].scope) /\ ~plan[p].lapsed

\* publication::decide: the latest decision of a gate counts.
DecidePlan(p, g, decision) ==
    /\ ClientExists
    /\ plan[p].at # "none"
    /\ RevisionOpen(plan[p].revision)
    /\ PlanCurrent(p)
    /\ g \in Gates(p)
    /\ g \in reviewers
    /\ plan' = [plan EXCEPT ![p].verdict[g] = decision,
                            ![p].voided = @ \ plan[p].gates[g]]
    /\ UNCHANGED <<critical, client, basis, thread, upgrade, reviewers>>

\* Scopes the decisions of the plan grant.
Granted(p) == UNION {plan[p].gates[g] \ plan[p].reused : g \in Gates(p)}

\* Mutant of DecisionsComplete: a gate may be open, or denied last.
DecisionsAny(p) == \E g \in Gates(p) : plan[p].verdict[g] = "approve"

\* Every gate's latest decision approves, and nothing it covers was revoked since.
DecisionsComplete(p) ==
    /\ \A g \in Gates(p) : plan[p].verdict[g] = "approve"
    /\ plan[p].voided \cap Granted(p) = {}

\* The providers of the plan's gates are locked: none has an upgrade open.
Pinned(p) == upgrade.scope # "none" => plan[p].gates[ProviderOf[upgrade.scope]] = {}

\* Nothing wanted rests on the exemption of private applications.
FullyApproved(S, b) == \A s \in S : b[s] \notin {"none", "private_exemption"}

\* publication::activate: honeycomb_publication_accept, then apply_configuration,
\* which the trigger on visibility and the final check of the result bound.
Activate(p, S, r) ==
    LET d == plan[p]
        granted == [s \in AppScopes |->
                       IF s \in Granted(p) THEN "provider_approval"
                       ELSE Configured(basis, S, client.visibility)[s]]
        b == Configured(granted, S, "public")
        ended == {s \in Live : s \notin S \/ s \in Granted(p)} IN
    /\ ClientExists
    /\ d.at # "none"
    /\ d.scope = S /\ d.revision = r
    /\ MatchesSaved(r, S)
    /\ RevisionOpen(r)
    /\ Pinned(p)
    /\ PlanCurrent(p)
    /\ DecisionsComplete(p)
    /\ client.visibility = "private" =>
          \A s \in S \cap critical : granted[s] = "provider_approval"
    /\ (client.visibility = "public" /\ client.status = "verified") \/ FullyApproved(S, b)
    /\ basis' = b
    /\ client' = [client EXCEPT !.visibility = "public", !.status = "verified", !.scope = S,
                                !.revision = r]
    /\ plan' = Lapse(ended)
    /\ UNCHANGED <<critical, thread, upgrade, reviewers>>

----------------------------------------------------------------------------
(* The platform administrator *)

\* admin_decide reject
Reject ==
    /\ client.status = "under_review"
    /\ client' = [client EXCEPT !.status = "rejected"]
    /\ UNCHANGED <<critical, basis, thread, plan, upgrade, reviewers>>

\* admin_decide suspend, with revoke_application_authority: consents end too.
Suspend ==
    /\ client.status = "verified"
    /\ client' = [client EXCEPT !.status = "suspended"]
    /\ UNCHANGED <<critical, basis, thread, plan, upgrade, reviewers>>

\* admin_decide reactivate
Reactivate ==
    /\ client.status = "suspended"
    /\ client' = [client EXCEPT !.status = "verified"]
    /\ UNCHANGED <<critical, basis, thread, plan, upgrade, reviewers>>

\* admin_decide delete, with retire_application_credentials.
DeleteClient ==
    /\ ClientExists
    /\ client' = [client EXCEPT !.status = "deleted"]
    /\ basis' = [s \in AppScopes |-> "none"]
    /\ plan' = Lapse(Live)
    /\ UNCHANGED <<critical, thread, upgrade, reviewers>>

----------------------------------------------------------------------------
OwnerStep ==
    \/ \E S \in Wanted : Patch(S)
    \/ \E S \in Wanted : Submit(S)
    \/ \E S \in Wanted, a \in {"active", "disabled"} : ConfigurePrivate(S, a)
    \/ \E p \in Plans, S \in Wanted, r \in 1..MaxRevision :
          MakePlan(p, S, r) \/ Activate(p, S, r)

ReviewerStep ==
    \/ \E g \in Providers, d \in {"approve", "deny"} : DecideThread(g, d)
    \/ \E s \in AppScopes, d \in {"approve", "revoke"} : ScopeDecision(s, d)
    \/ \E p \in Plans, g \in Providers, d \in {"approve", "deny"} : DecidePlan(p, g, d)

\* admin_decide
AdminStep == Reject \/ Suspend \/ Reactivate \/ DeleteClient

ProviderStep ==
    \/ \E s \in Reclassified : Downgrade(s) \/ BeginUpgrade(s)
    \/ CommitUpgrade

ApplicationScopesNext ==
    \/ (OwnerStep \/ ReviewerStep \/ AdminStep) /\ RowFree
    \/ ProviderStep
    \/ \E g \in RoleChanges : ReviewerChange(g)

ApplicationScopesSpec == ApplicationScopesInit /\ [][ApplicationScopesNext]_applicationScopeVars

----------------------------------------------------------------------------
(* Properties *)

\* An application becomes public only with the configuration its plan put
\* before the reviewers, after each of them last said yes.
PublicationReviewedStep ==
    client.visibility = "private" /\ client'.visibility = "public" =>
       \E p \in Plans :
          /\ plan[p].at = "open"
          /\ plan[p].verdict["honeycomb"] = "approve"
          /\ client'.scope = plan[p].scope
          /\ \A s \in client'.scope \cap critical :
                \/ plan[p].verdict[ProviderOf[s]] = "approve"
                \/ s \in plan[p].reused /\ basis[s] = "provider_approval"
PublicationReviewed == [][PublicationReviewedStep]_applicationScopeVars

----------------------------------------------------------------------------
(* Proofs *)

Bases == {"none", "noncritical", "private_exemption", "provider_approval"}

Planned ==
    [at : {"open"}, revision : 1..MaxRevision, scope : SUBSET AppScopes,
     gates : [Providers -> SUBSET AppScopes], reused : SUBSET AppScopes, lapsed : BOOLEAN,
     voided : SUBSET AppScopes, verdict : [Providers -> {"none", "approve", "deny"}]]

PlansTypeOK ==
    /\ plan \in [Plans -> {Unplanned} \cup Planned]
    /\ upgrade \in [scope : AppScopes \cup {"none"}, held : BOOLEAN,
                    basis : {"none", "private_exemption"}]

\* An approval that a plan reuses stands as the provider's own until the plan lapses.
ReuseStands ==
    \A p \in Plans : plan[p].at # "none" /\ ~plan[p].lapsed =>
        \A s \in plan[p].reused : basis[s] = "provider_approval"

ApplicationScopesInv == ApplicationScopesTypeOK /\ PlansTypeOK /\ ReuseStands

LEMMA ConfiguredType ==
    ASSUME NEW b \in [AppScopes -> Bases], NEW S \in Wanted, NEW visibility
    PROVE  /\ Configured(b, S, visibility) \in [AppScopes -> Bases]
           /\ \A s \in S : b[s] # "none" => Configured(b, S, visibility)[s] = b[s]
BY DEF Configured, Bases, Wanted

\* Every step that ends approvals lapses the plans that reuse them.
LEMMA LapseKeepsReuse ==
    ASSUME ApplicationScopesInv, NEW R \in SUBSET AppScopes, plan' = Lapse(R),
           \A s \in AppScopes \ R : basis[s] = "provider_approval" => basis'[s] = "provider_approval"
    PROVE  plan' \in [Plans -> {Unplanned} \cup Planned] /\ ReuseStands'
<1>1. ASSUME NEW p \in Plans
      PROVE  /\ plan'[p] \in {Unplanned} \cup Planned
             /\ plan'[p].at # "none" /\ ~plan'[p].lapsed =>
                   \A s \in plan'[p].reused : basis'[s] = "provider_approval"
  <2>1. CASE plan[p].at = "none"
    BY <2>1 DEF ApplicationScopesInv, PlansTypeOK, Lapse
  <2>2. CASE plan[p].at # "none"
    <3>1. plan[p] \in Planned
      BY <2>2 DEF ApplicationScopesInv, PlansTypeOK, Unplanned
    <3>2. plan'[p] = [plan[p] EXCEPT !.lapsed = plan[p].lapsed \/ R \cap plan[p].reused # {},
                             !.voided = plan[p].voided \union {s \in R \cap plan[p].scope :
                                          plan[p].verdict[ProviderOf[s]] # "none"}]
      BY <2>2 DEF Lapse
    <3>3. /\ plan'[p] \in Planned /\ plan'[p].reused = plan[p].reused
          /\ plan'[p].lapsed <=> (plan[p].lapsed \/ R \cap plan[p].reused # {})
      <4>1. PICK voided \in SUBSET AppScopes :
              plan'[p] = [plan[p] EXCEPT !.lapsed = plan[p].lapsed \/ R \cap plan[p].reused # {},
                                         !.voided = voided]
        BY <3>1, <3>2 DEF Planned
      <4>2. CASE plan[p].lapsed \/ R \cap plan[p].reused # {}
        <5>0. (plan[p].lapsed \/ R \cap plan[p].reused # {}) = TRUE
          BY <4>2
        <5>1. plan'[p] = [plan[p] EXCEPT !.lapsed = TRUE, !.voided = voided]
          BY <4>1, <5>0, Zenon
        <5>2. plan'[p] \in Planned /\ plan'[p].reused = plan[p].reused /\ plan'[p].lapsed
          BY <3>1, <5>1 DEF Planned
        <5> QED BY <4>2, <5>2
      <4>3. CASE ~(plan[p].lapsed \/ R \cap plan[p].reused # {})
        <5>0. (plan[p].lapsed \/ R \cap plan[p].reused # {}) = FALSE
          BY <4>3
        <5>1. plan'[p] = [plan[p] EXCEPT !.lapsed = FALSE, !.voided = voided]
          BY <4>1, <5>0, Zenon
        <5>2. plan'[p] \in Planned /\ plan'[p].reused = plan[p].reused /\ ~plan'[p].lapsed
          BY <3>1, <5>1 DEF Planned
        <5> QED BY <4>3, <5>2
      <4> QED BY <4>2, <4>3
    <3> QED BY <2>2, <3>1, <3>3 DEF ApplicationScopesInv, ReuseStands, Planned
  <2> QED BY <2>1, <2>2
<1>2. plan' \in [Plans -> {Unplanned} \cup Planned]
  BY <1>1 DEF Lapse
<1> QED BY <1>1, <1>2 DEF ReuseStands

LEMMA ReviewedType ==
    ASSUME NEW status \in {"under_review", "verified", "suspended", "rejected", "deleted"}, NEW S, NEW b
    PROVE  Reviewed(status, S, b) \in {"under_review", "verified", "suspended", "rejected", "deleted"}
BY DEF Reviewed

LEMMA ApplicationScopesInitial == ApplicationScopesInit => ApplicationScopesInv
<1> SUFFICES ASSUME ApplicationScopesInit PROVE ApplicationScopesInv
  OBVIOUS
<1>1. PICK S \in Wanted, v \in {"private", "public"} :
        LET b == Configured([s \in AppScopes |-> "none"], S, v) IN
          /\ basis = b
          /\ client = [visibility |-> v,
                       status |-> IF v = "private" THEN "verified" ELSE Reviewed("under_review", S, b),
                       scope |-> S,
                       revision |-> IF v = "private" THEN 1 ELSE 0]
  BY DEF ApplicationScopesInit
<1>2. basis \in [AppScopes -> Bases]
  <2>1. [s \in AppScopes |-> "none"] \in [AppScopes -> Bases]
    BY DEF Bases
  <2> QED BY <1>1, <2>1, ConfiguredType
<1>3. client \in [visibility : {"private", "public"},
                  status : {"under_review", "verified", "suspended", "rejected", "deleted"},
                  scope : Wanted, revision : 0..MaxRevision]
  BY <1>1, ScopesAssumption, ReviewedType
<1>4. PlansTypeOK /\ ReuseStands
  BY DEF ApplicationScopesInit, PlansTypeOK, ReuseStands, Unplanned, NoUpgrade
<1> QED BY <1>2, <1>3, <1>4 DEF ApplicationScopesInit, ApplicationScopesInv, ApplicationScopesTypeOK, Bases

LEMMA OwnerKeepsInv ==
    ASSUME ApplicationScopesInv, OwnerStep
    PROVE  ApplicationScopesInv'
<1> USE DEF ApplicationScopesInv, ApplicationScopesTypeOK, Bases
<1>0. basis \in [AppScopes -> Bases]
  OBVIOUS
<1>1. ASSUME NEW S \in Wanted, Patch(S) \/ Submit(S) PROVE ApplicationScopesInv'
  <2> DEFINE b == Configured(basis, S, client.visibility)
  <2>1. b \in [AppScopes -> Bases] /\ \A s \in S : basis[s] # "none" => b[s] = basis[s]
    BY <1>0, ConfiguredType
  <2>2. /\ basis' = b /\ plan' = Lapse(Ended(basis, b))
        /\ client' = [client EXCEPT !.scope = S, !.status = Reviewed(client.status, S, b)]
        /\ UNCHANGED <<critical, upgrade, reviewers>>
    BY <1>1 DEF Patch, Submit
  <2> HIDE DEF b
  <2>3. Reviewed(client.status, S, b) \in {"under_review", "verified", "suspended", "rejected", "deleted"}
    BY ReviewedType
  <2>4. Ended(basis, b) \in SUBSET AppScopes
        /\ \A s \in AppScopes \ Ended(basis, b) :
              basis[s] = "provider_approval" => b[s] = "provider_approval"
    <3>1. \A s \in AppScopes \ S : b[s] = "none"
      BY DEF b, Configured
    <3> QED BY <2>1, <3>1 DEF Ended
  <2>5. plan' \in [Plans -> {Unplanned} \cup Planned] /\ ReuseStands'
    BY <2>2, <2>4, LapseKeepsReuse
  <2> QED BY <2>1, <2>2, <2>3, <2>5 DEF PlansTypeOK
<1>2. ASSUME NEW S \in Wanted, NEW a \in {"active", "disabled"}, ConfigurePrivate(S, a)
      PROVE  ApplicationScopesInv'
  <2> DEFINE c == Configured(basis, S, client.visibility)
             b == Configured(c, S, "private")
  <2>1. c \in [AppScopes -> Bases] /\ \A s \in S : basis[s] # "none" => c[s] = basis[s]
    BY <1>0, ConfiguredType
  <2>2. b \in [AppScopes -> Bases] /\ \A s \in S : c[s] # "none" => b[s] = c[s]
    BY <2>1, ConfiguredType
  <2>3. /\ basis' = b /\ plan' = Lapse(Ended(basis, b))
        /\ client' = [client EXCEPT !.visibility = "private", !.scope = S,
                                !.status = IF a = "disabled" THEN "suspended" ELSE "verified",
                                !.revision = client.revision + 1]
        /\ client.revision < MaxRevision
        /\ UNCHANGED <<critical, upgrade, reviewers>>
    BY <1>2 DEF ConfigurePrivate
  <2>4. \A s \in AppScopes \ S : b[s] = "none"
    BY DEF Configured
  <2> HIDE DEF b, c
  <2>5. Ended(basis, b) \in SUBSET AppScopes
        /\ \A s \in AppScopes \ Ended(basis, b) :
              basis[s] = "provider_approval" => b[s] = "provider_approval"
    BY <2>1, <2>2, <2>4 DEF Ended
  <2>6. plan' \in [Plans -> {Unplanned} \cup Planned] /\ ReuseStands'
    BY <2>3, <2>5, LapseKeepsReuse
  <2>7. client.revision + 1 \in 0..MaxRevision
    BY <2>3, ScopesAssumption
  <2>8. client' \in [visibility : {"private", "public"},
                  status : {"under_review", "verified", "suspended", "rejected", "deleted"},
                  scope : Wanted, revision : 0..MaxRevision]
    BY <2>3, <2>7
  <2> QED BY <2>2, <2>3, <2>6, <2>8 DEF PlansTypeOK
<1>3. ASSUME NEW p \in Plans, NEW S \in Wanted, NEW r \in 1..MaxRevision, MakePlan(p, S, r)
      PROVE  ApplicationScopesInv'
  <2> DEFINE d == [at |-> "open", revision |-> r, scope |-> S,
                   gates |-> CatalogGates(S),
                   reused |-> {s \in S \cap critical : basis[s] = "provider_approval"},
                   lapsed |-> FALSE, voided |-> {}, verdict |-> [g \in Providers |-> "none"]]
  <2>1. d \in Planned /\ \A s \in d.reused : basis[s] = "provider_approval"
    BY DEF Planned, CatalogGates, Wanted
  <2>2. plan' = [plan EXCEPT ![p] = d] /\ UNCHANGED <<critical, client, basis, thread, upgrade, reviewers>>
    BY <1>3 DEF MakePlan
  <2> HIDE DEF d
  <2>3. plan'[p] = d /\ \A q \in Plans : q # p => plan'[q] = plan[q]
    BY <2>2 DEF PlansTypeOK
  <2>4. PlansTypeOK'
    BY <2>1, <2>2 DEF PlansTypeOK
  <2>5. ReuseStands'
    BY <2>1, <2>2, <2>3 DEF ReuseStands
  <2> QED BY <2>2, <2>4, <2>5
<1>4. ASSUME NEW p \in Plans, NEW S \in Wanted, NEW r \in 1..MaxRevision, Activate(p, S, r)
      PROVE  ApplicationScopesInv'
  <2> DEFINE granted == [s \in AppScopes |->
                       IF s \in Granted(p) THEN "provider_approval"
                       ELSE Configured(basis, S, client.visibility)[s]]
             b == Configured(granted, S, "public")
             ended == {s \in Live : s \notin S \/ s \in Granted(p)}
  <2>1. /\ granted \in [AppScopes -> Bases]
        /\ \A s \in S : basis[s] = "provider_approval" => granted[s] = "provider_approval"
    <3>1. /\ Configured(basis, S, client.visibility) \in [AppScopes -> Bases]
          /\ \A s \in S : basis[s] # "none" => Configured(basis, S, client.visibility)[s] = basis[s]
      BY <1>0, ConfiguredType
    <3> HIDE DEF Bases
    <3>2. "provider_approval" \in Bases
      BY DEF Bases
    <3> QED BY <3>1, <3>2 DEF Wanted
  <2>2. /\ basis' = b /\ plan' = Lapse(ended)
        /\ client' = [client EXCEPT !.visibility = "public", !.status = "verified", !.scope = S,
                                !.revision = r]
        /\ UNCHANGED <<critical, thread, upgrade, reviewers>>
    BY <1>4 DEF Activate
  <2> HIDE DEF granted
  <2>3. b \in [AppScopes -> Bases] /\ \A s \in S : granted[s] # "none" => b[s] = granted[s]
    BY <2>1, ConfiguredType
  <2> HIDE DEF b
  <2>4. ended \in SUBSET AppScopes
        /\ \A s \in AppScopes \ ended : basis[s] = "provider_approval" => b[s] = "provider_approval"
    BY <2>1, <2>3 DEF Live
  <2> HIDE DEF ended
  <2>5. plan' \in [Plans -> {Unplanned} \cup Planned] /\ ReuseStands'
    BY <2>2, <2>4, LapseKeepsReuse
  <2>6. client' \in [visibility : {"private", "public"},
                  status : {"under_review", "verified", "suspended", "rejected", "deleted"},
                  scope : Wanted, revision : 0..MaxRevision]
    <3>1. r \in 0..MaxRevision
      BY ScopesAssumption
    <3> QED BY <2>2, <3>1
  <2> QED BY <2>2, <2>3, <2>5, <2>6 DEF PlansTypeOK
<1> QED BY <1>1, <1>2, <1>3, <1>4 DEF OwnerStep

LEMMA OthersKeepInv ==
    ASSUME ApplicationScopesInv,
           ReviewerStep \/ AdminStep \/ ProviderStep \/ \E g \in RoleChanges : ReviewerChange(g)
    PROVE  ApplicationScopesInv'
<1> USE DEF ApplicationScopesInv, ApplicationScopesTypeOK, Bases
<1>1. ASSUME NEW g \in Providers, NEW decision \in {"approve", "deny"}, DecideThread(g, decision)
      PROVE  ApplicationScopesInv'
  <2> DEFINE b == [s \in AppScopes |->
                IF decision = "approve" /\ s \in thread[g] /\ basis[s] = "none"
                THEN "provider_approval" ELSE basis[s]]
  <2>1. /\ b \in [AppScopes -> Bases]
        /\ \A s \in AppScopes : basis[s] = "provider_approval" => b[s] = "provider_approval"
    OBVIOUS
  <2>2. /\ basis' = b
        /\ client' = IF decision = "approve"
                     THEN [client EXCEPT !.status = Reviewed(client.status, client.scope, b)] ELSE client
        /\ UNCHANGED <<critical, plan, upgrade, reviewers>>
    BY <1>1 DEF DecideThread
  <2> HIDE DEF b
  <2>3. Reviewed(client.status, client.scope, b)
          \in {"under_review", "verified", "suspended", "rejected", "deleted"}
    BY ReviewedType
  <2>4. ReuseStands' /\ PlansTypeOK'
    <3>1. ASSUME NEW p \in Plans, plan[p].at # "none", ~plan[p].lapsed, NEW q \in plan[p].reused
          PROVE  b[q] = "provider_approval"
      <4>1. plan[p] \in Planned
        BY <3>1 DEF PlansTypeOK, Unplanned
      <4>2. q \in AppScopes /\ basis[q] = "provider_approval"
        BY <3>1, <4>1 DEF ReuseStands, Planned
      <4> QED BY <2>1, <4>2
    <3> QED BY <2>2, <3>1 DEF ReuseStands, PlansTypeOK
  <2> QED BY <2>1, <2>2, <2>3, <2>4
<1>2. ASSUME NEW s \in AppScopes, NEW decision \in {"approve", "revoke"}, ScopeDecision(s, decision)
      PROVE  ApplicationScopesInv'
  <2>1. /\ basis' = [basis EXCEPT ![s] = IF decision = "approve" THEN "provider_approval" ELSE "none"]
        /\ plan' = Lapse({s} \cap Live)
        /\ UNCHANGED <<critical, client, thread, upgrade, reviewers>>
    BY <1>2 DEF ScopeDecision
  <2>2. \A q \in AppScopes \ ({s} \cap Live) :
           basis[q] = "provider_approval" => basis'[q] = "provider_approval"
    BY <2>1 DEF Live
  <2>3. plan' \in [Plans -> {Unplanned} \cup Planned] /\ ReuseStands'
    BY <2>1, <2>2, LapseKeepsReuse
  <2>4. basis' \in [AppScopes -> Bases]
    BY <2>1
  <2> QED BY <2>1, <2>3, <2>4 DEF PlansTypeOK
<1>3. ASSUME NEW p \in Plans, NEW g \in Providers, NEW decision \in {"approve", "deny"},
             DecidePlan(p, g, decision)
      PROVE  ApplicationScopesInv'
  <2>0. plan[p] \in Planned
    BY <1>3 DEF DecidePlan, PlansTypeOK, Unplanned
  <2> DEFINE d == [plan[p] EXCEPT !.verdict[g] = decision, !.voided = plan[p].voided \ plan[p].gates[g]]
  <2>1. d \in Planned /\ d.reused = plan[p].reused /\ d.lapsed = plan[p].lapsed
    BY <2>0 DEF Planned
  <2>2. plan' = [plan EXCEPT ![p] = d] /\ UNCHANGED <<critical, client, basis, thread, upgrade, reviewers>>
    <3>1. plan' = [plan EXCEPT ![p].verdict[g] = decision,
                               ![p].voided = plan[p].voided \ plan[p].gates[g]]
      BY <1>3, <2>0 DEF DecidePlan, PlansTypeOK, Planned
    <3> QED BY <1>3, <2>0, <3>1 DEF DecidePlan, PlansTypeOK
  <2> HIDE DEF d
  <2>3. plan'[p] = d /\ \A q \in Plans : q # p => plan'[q] = plan[q]
    BY <2>2 DEF PlansTypeOK
  <2>4. PlansTypeOK'
    BY <2>1, <2>2 DEF PlansTypeOK
  <2>5. ReuseStands'
    BY <2>0, <2>1, <2>2, <2>3 DEF ReuseStands, Planned
  <2> QED BY <2>2, <2>4, <2>5
<1>4. ASSUME DeleteClient PROVE ApplicationScopesInv'
  <2>1. /\ client' = [client EXCEPT !.status = "deleted"]
        /\ basis' = [s \in AppScopes |-> "none"]
        /\ plan' = Lapse(Live)
        /\ UNCHANGED <<critical, thread, upgrade, reviewers>>
    BY <1>4 DEF DeleteClient
  <2>2. Live \in SUBSET AppScopes /\ \A s \in AppScopes \ Live : basis[s] = "none"
    BY DEF Live
  <2>3. plan' \in [Plans -> {Unplanned} \cup Planned] /\ ReuseStands'
    BY <2>1, <2>2, LapseKeepsReuse
  <2> QED BY <2>1, <2>3 DEF PlansTypeOK
<1>5. ASSUME Reject \/ Suspend \/ Reactivate PROVE ApplicationScopesInv'
  BY <1>5 DEF Reject, Suspend, Reactivate, PlansTypeOK, ReuseStands, Planned
<1>6. ASSUME NEW s \in Reclassified, Downgrade(s) \/ BeginUpgrade(s) PROVE ApplicationScopesInv'
  <2>1. PlansTypeOK'
    <3>1. CASE Downgrade(s)
      BY <3>1 DEF Downgrade, PlansTypeOK
    <3>2. CASE BeginUpgrade(s)
      <4>1. PICK held \in BOOLEAN, end \in {"none", "private_exemption"} :
              upgrade' = [scope |-> s, held |-> held, basis |-> end] /\ plan' = plan
        BY <3>2 DEF BeginUpgrade
      <4> QED BY <4>1, ScopesAssumption DEF PlansTypeOK
    <3> QED BY <1>6, <3>1, <3>2
  <2>2. UNCHANGED <<client, basis, plan, reviewers>> /\ critical' \subseteq AppScopes
    BY <1>6 DEF Downgrade, BeginUpgrade
  <2> QED BY <2>1, <2>2 DEF ReuseStands
<1>7. ASSUME CommitUpgrade PROVE ApplicationScopesInv'
  <2> DEFINE s == upgrade.scope
  <2>1. s \in AppScopes
    BY <1>7 DEF CommitUpgrade, PlansTypeOK
  <2>2. critical' \subseteq AppScopes /\ upgrade' = NoUpgrade /\ UNCHANGED <<client, thread, reviewers>>
    BY <1>7, <2>1 DEF CommitUpgrade
  <2>3. basis' \in [AppScopes -> Bases]
    BY <1>7, <2>1 DEF CommitUpgrade, PlansTypeOK
  <2>4. plan' \in [Plans -> {Unplanned} \cup Planned] /\ ReuseStands'
    <3>1. CASE ~upgrade.held
      BY <1>7, <3>1 DEF CommitUpgrade, PlansTypeOK, ReuseStands
    <3>2. CASE upgrade.held
      <4>1. \A q \in AppScopes : q # s => basis'[q] = basis[q]
        BY <1>7, <2>1, <3>2 DEF CommitUpgrade
      <4>2. ASSUME NEW p \in Plans
            PROVE  /\ plan'[p] \in {Unplanned} \cup Planned
                   /\ plan'[p].at # "none" /\ ~plan'[p].lapsed =>
                         \A q \in plan'[p].reused : basis'[q] = "provider_approval"
        <5>1. CASE plan[p].at = "none"
          BY <1>7, <3>2, <5>1 DEF CommitUpgrade, PlansTypeOK, Lapse
        <5>2. CASE plan[p].at # "none"
          <6>1. plan[p] \in Planned
            BY <5>2 DEF PlansTypeOK, Unplanned
          <6>2. PICK v \in SUBSET AppScopes :
                  plan'[p] = [plan[p] EXCEPT !.lapsed = plan[p].lapsed \/ s \in plan[p].reused, !.voided = v]
            <7>1. CASE upgrade.basis = "none"
              <8>1. plan'[p] = [plan[p] EXCEPT !.lapsed = plan[p].lapsed \/ {s} \cap plan[p].reused # {},
                             !.voided = plan[p].voided \union {q \in {s} \cap plan[p].scope :
                                          plan[p].verdict[ProviderOf[q]] # "none"}]
                BY <1>7, <3>2, <5>2, <7>1 DEF CommitUpgrade, Lapse
              <8>2. {s} \cap plan[p].reused # {} <=> s \in plan[p].reused
                OBVIOUS
              <8>3. plan[p].voided \union {q \in {s} \cap plan[p].scope :
                          plan[p].verdict[ProviderOf[q]] # "none"} \in SUBSET AppScopes
                BY <2>1, <6>1 DEF Planned
              <8> QED BY <8>1, <8>2, <8>3
            <7>2. CASE upgrade.basis # "none"
              <8>1. plan'[p] = [plan[p] EXCEPT !.lapsed = plan[p].lapsed \/ s \in plan[p].reused]
                BY <1>7, <3>2, <5>2, <7>2 DEF CommitUpgrade
              <8>2. plan'[p] = [plan[p] EXCEPT !.lapsed = plan[p].lapsed \/ s \in plan[p].reused,
                                               !.voided = plan[p].voided]
                BY <6>1, <8>1 DEF Planned
              <8>3. plan[p].voided \in SUBSET AppScopes
                BY <6>1 DEF Planned
              <8> QED BY <8>2, <8>3
            <7> QED BY <7>1, <7>2
          <6>3. /\ plan'[p] \in Planned /\ plan'[p].reused = plan[p].reused
                /\ plan'[p].lapsed <=> (plan[p].lapsed \/ s \in plan[p].reused)
            <7>1. CASE plan[p].lapsed \/ s \in plan[p].reused
              <8>0. (plan[p].lapsed \/ s \in plan[p].reused) = TRUE
                BY <7>1
              <8>1. plan'[p] = [plan[p] EXCEPT !.lapsed = TRUE, !.voided = v]
                BY <6>2, <8>0, Zenon
              <8>2. plan'[p] \in Planned /\ plan'[p].reused = plan[p].reused /\ plan'[p].lapsed
                BY ZenonT(30), <6>1, <8>1 DEF Planned
              <8> QED BY <7>1, <8>2
            <7>2. CASE ~(plan[p].lapsed \/ s \in plan[p].reused)
              <8>0. (plan[p].lapsed \/ s \in plan[p].reused) = FALSE
                BY <7>2
              <8>1. plan'[p] = [plan[p] EXCEPT !.lapsed = FALSE, !.voided = v]
                BY <6>2, <8>0, Zenon
              <8>2. plan'[p] \in Planned /\ plan'[p].reused = plan[p].reused /\ ~plan'[p].lapsed
                BY ZenonT(30), <6>1, <8>1 DEF Planned
              <8> QED BY <7>2, <8>2
            <7> QED BY <7>1, <7>2
          <6> QED BY <4>1, <5>2, <6>1, <6>3 DEF ReuseStands, Planned
        <5> QED BY <5>1, <5>2
      <4>3. plan' \in [Plans -> {Unplanned} \cup Planned]
        BY <1>7, <3>2, <4>2 DEF CommitUpgrade
      <4> QED BY <4>2, <4>3 DEF ReuseStands
    <3> QED BY <3>1, <3>2 DEF PlansTypeOK
  <2> QED BY <2>2, <2>3, <2>4 DEF PlansTypeOK, NoUpgrade
<1>8. ASSUME NEW g \in RoleChanges, ReviewerChange(g) PROVE ApplicationScopesInv'
  <2>1. reviewers' \subseteq Providers
    BY <1>8, ScopesAssumption DEF ReviewerChange
  <2> QED BY <1>8, <2>1 DEF ReviewerChange, PlansTypeOK, ReuseStands
<1> QED BY <1>1, <1>2, <1>3, <1>4, <1>5, <1>6, <1>7, <1>8 DEF ReviewerStep, AdminStep, ProviderStep

\* ApplicationScopes: the types, and what makes a plan worth its activation: the provider
\* approvals it counts on stand for as long as it is not lapsed.
THEOREM ApplicationScopesInvariant == ApplicationScopesSpec => []ApplicationScopesInv
<1>1. ASSUME ApplicationScopesInv, UNCHANGED applicationScopeVars PROVE ApplicationScopesInv'
  BY <1>1 DEF applicationScopeVars, ApplicationScopesInv, ApplicationScopesTypeOK, PlansTypeOK, ReuseStands
<1>2. ASSUME ApplicationScopesInv, ApplicationScopesNext PROVE ApplicationScopesInv'
  BY <1>2, OwnerKeepsInv, OthersKeepInv DEF ApplicationScopesNext
<1> QED BY ApplicationScopesInitial, <1>1, <1>2, PTL DEF ApplicationScopesSpec

LEMMA ActivatesReviewed ==
    ApplicationScopesInv /\ [ApplicationScopesNext]_applicationScopeVars => PublicationReviewedStep
<1> SUFFICES ASSUME ApplicationScopesInv, [ApplicationScopesNext]_applicationScopeVars,
                    client.visibility = "private", client'.visibility = "public"
             PROVE  \E p \in Plans :
          /\ plan[p].at = "open"
          /\ plan[p].verdict["honeycomb"] = "approve"
          /\ client'.scope = plan[p].scope
          /\ \A s \in client'.scope \cap critical :
                \/ plan[p].verdict[ProviderOf[s]] = "approve"
                \/ s \in plan[p].reused /\ basis[s] = "provider_approval"
  BY DEF PublicationReviewedStep
<1>1. PICK p \in Plans, S \in Wanted, r \in 1..MaxRevision : Activate(p, S, r)
  <2>1. client \in [visibility : {"private", "public"},
                  status : {"under_review", "verified", "suspended", "rejected", "deleted"},
                  scope : Wanted, revision : 0..MaxRevision]
    BY DEF ApplicationScopesInv, ApplicationScopesTypeOK
  <2> QED BY <2>1 DEF ApplicationScopesNext, applicationScopeVars, OwnerStep, ReviewerStep, AdminStep,
              ProviderStep, Patch, Submit, ConfigurePrivate, MakePlan, DecideThread, ScopeDecision,
              DecidePlan, Reject, Suspend, Reactivate, DeleteClient, Downgrade, BeginUpgrade,
              CommitUpgrade, ReviewerChange
<1>2. /\ plan[p].at # "none" /\ plan[p].scope = S /\ PlanCurrent(p) /\ DecisionsComplete(p)
      /\ client'.scope = S
  BY <1>1 DEF Activate, ApplicationScopesInv, ApplicationScopesTypeOK
<1>3. plan[p] \in Planned
  BY <1>2 DEF ApplicationScopesInv, PlansTypeOK, Unplanned
<1>4. plan[p].verdict["honeycomb"] = "approve"
  BY <1>2 DEF DecisionsComplete, Gates, Providers
<1>5. ASSUME NEW s \in S \cap critical, s \notin plan[p].reused
      PROVE  plan[p].verdict[ProviderOf[s]] = "approve"
  <2>1. s \in AppScopes /\ ProviderOf[s] \in Providers
    BY DEF Wanted, Providers
  <2>2. s \in plan[p].gates[ProviderOf[s]]
    BY <1>2, <2>1 DEF PlanCurrent, CatalogGates
  <2> QED BY <1>2, <1>5, <2>1, <2>2 DEF DecisionsComplete, Gates
<1>6. ASSUME NEW s \in plan[p].reused PROVE basis[s] = "provider_approval"
  BY <1>2 DEF PlanCurrent, ApplicationScopesInv, ReuseStands
<1> QED BY <1>2, <1>3, <1>4, <1>5, <1>6 DEF Planned

\* ApplicationScopes: an application becomes public only on a plan of exactly its scopes
\* whose critical ones were each decided for it, or rest on an approval still standing.
THEOREM PublicationReviewedHolds == ApplicationScopesSpec => PublicationReviewed
BY ApplicationScopesInvariant, ActivatesReviewed, PTL DEF PublicationReviewed, ApplicationScopesSpec
=============================================================================
