---------------------------- MODULE ScopedTokens ----------------------------
(***************************************************************************)
(* From the permissions a user is shown to the scopes of an access token.  *)
(*                                                                         *)
(* Sources: src/features/applications/{oauth,scopes}.rs and the functions  *)
(*          of migrations/0057, 0062, 0077, 0096 and 0097 they call.       *)
(*                                                                         *)
(* Approvals change in transactions that lock the application row, each    *)
(* one step; the module ApplicationScopes has their reasons.  An exchange  *)
(* locks that row FOR SHARE, reads, inserts and commits: two steps, between*)
(* which a writer would have to wait.  Whether client, session, subject    *)
(* and refresh family still stand is the module SessionAuthority.          *)
(***************************************************************************)
EXTENDS Naturals, TLAPS

CONSTANT Permissions   \* scopes of the catalogue

Idle == [kind |-> "none", scopes |-> {}]

VARIABLES
    allowed,     \* live iam.application_approved_scopes
    page,        \* what the user was shown, and whether the version still is that
    consented,   \* iam.oauth_consent_grant_scopes
    code,        \* scopes of the request behind the unused short-lived token
    family,      \* iam.oauth_refresh_family_scopes: the snapshot
    exchange,    \* the exchange in progress and the scopes it read
    bearer       \* live access tokens, each its set of scopes

scopedTokenVars == <<allowed, page, consented, code, family, exchange, bearer>>

ScopedTokensInit ==
    /\ allowed \in SUBSET Permissions
    /\ page = [shown |-> {}, current |-> FALSE]
    /\ consented = {}
    /\ code = {}
    /\ family = {}
    /\ exchange = Idle
    /\ bearer = {}

----------------------------------------------------------------------------
(* Approvals *)

\* Mutant of NoExchange: an exchange does not lock the application row.
NoExchangeLock == TRUE

\* The application row is free of the lock an exchange holds.
NoExchange == exchange = Idle

\* A scope is approved, by configuration or by a reviewer.
Allow(s) ==
    /\ NoExchange
    /\ s \notin allowed
    /\ allowed' = allowed \union {s}
    /\ page' = [page EXCEPT !.current = FALSE]
    /\ UNCHANGED <<consented, code, family, exchange, bearer>>

\* Mutant of SweptBy: only tokens that carry nothing else are revoked.
SweptWhole(R) == {t \in bearer : ~(t \subseteq R)}

\* The access tokens that survive the end of the approvals of R.
SweptBy(R) == {t \in bearer : t \cap R = {}}

\* configure_application_scopes without R, or honeycomb_scope_decision revoking it.
Withdraw(R) ==
    /\ NoExchange
    /\ R # {} /\ R \subseteq allowed
    /\ allowed' = allowed \ R
    /\ bearer' = SweptBy(R)
    /\ page' = [page EXCEPT !.current = FALSE]
    /\ UNCHANGED <<consented, code, family, exchange>>

----------------------------------------------------------------------------
(* The user *)

\* login_choices: the scopes of the policy with the version of the application.
Choose ==
    /\ page' = [shown |-> allowed, current |-> TRUE]
    /\ UNCHANGED <<allowed, consented, code, family, exchange, bearer>>

\* Mutant of ConsentHolds: neither version nor set is compared.
ConsentAssumed == page.shown # {}

\* validate_consent: the version displayed, and exactly its scopes.
ConsentHolds == page.shown # {} /\ page.current /\ page.shown = allowed

\* issue_for_selection: the request, the consent (replacing its scopes) and the
\* code all carry the scopes of the policy read now.
Consent ==
    /\ ConsentHolds
    /\ allowed # {}
    /\ consented' = allowed
    /\ code' = allowed
    /\ UNCHANGED <<allowed, page, family, exchange, bearer>>

----------------------------------------------------------------------------
(* The application *)

\* CODE_EXCHANGE_ACTIVE_SCOPES_QUERY, REFRESH_ISSUANCE_SCOPES_QUERY
Authorized(S) == S \cap consented \cap allowed

\* Mutant of RefreshScopes: the snapshot of the family is taken as it is.
RefreshSnapshot == family \cap consented

\* locked_refresh_issuance_scopes
RefreshScopes == Authorized(family)

\* authorized_code_exchange_scopes: all that was requested, or nothing.
BeginCode ==
    /\ NoExchange
    /\ code # {}
    /\ Authorized(code) = code
    /\ exchange' = [kind |-> "code", scopes |-> code]
    /\ UNCHANGED <<allowed, page, consented, code, family, bearer>>

\* exchange_refresh_token: what is left of the snapshot, unless nothing is.
BeginRefresh ==
    /\ NoExchange
    /\ RefreshScopes # {}
    /\ exchange' = [kind |-> "refresh", scopes |-> RefreshScopes]
    /\ UNCHANGED <<allowed, page, consented, code, family, bearer>>

\* issue_tokens and the commit: a code opens a family with its snapshot.
Issue ==
    /\ exchange # Idle
    /\ bearer' = bearer \union {exchange.scopes}
    /\ code' = IF exchange.kind = "code" THEN {} ELSE code
    /\ family' = IF exchange.kind = "code" THEN exchange.scopes ELSE family
    /\ exchange' = Idle
    /\ UNCHANGED <<allowed, page, consented>>

\* An exchange that fails before its commit, or a connection lost.
Abandon ==
    /\ exchange # Idle
    /\ exchange' = Idle
    /\ UNCHANGED <<allowed, page, consented, code, family, bearer>>

\* revoke_for_application, or the expiry of an access token.
EndBearer(t) ==
    /\ bearer' = bearer \ {t}
    /\ UNCHANGED <<allowed, page, consented, code, family, exchange>>

ScopedTokensNext ==
    \/ \E s \in Permissions : Allow(s)
    \/ \E R \in SUBSET Permissions : Withdraw(R)
    \/ Choose \/ Consent \/ BeginCode \/ BeginRefresh \/ Issue \/ Abandon
    \/ \E t \in bearer : EndBearer(t)

ScopedTokensSpec == ScopedTokensInit /\ [][ScopedTokensNext]_scopedTokenVars

----------------------------------------------------------------------------
(* Properties *)

\* No live access token carries a scope whose approval has ended, however code
\* exchange and refresh interleave with reconfiguration and revocation.
TokensWithinApproval == \A t \in bearer : t \subseteq allowed

\* The consent of the user never comes to cover a permission the user was not
\* shown, though the application changes between the page and the click.
ConsentInformedStep ==
    consented' \subseteq consented \union page.shown
ConsentInformed == [][ConsentInformedStep]_scopedTokenVars

\* What a user granted and what an application is approved for both bound its tokens.
TokensSound == []TokensWithinApproval /\ ConsentInformed

----------------------------------------------------------------------------
(* Proofs *)

\* The sets of scopes are sets of scopes, and an exchange in progress is of one of
\* the two kinds.
ScopedTypeOK ==
    /\ allowed \in SUBSET Permissions
    /\ page \in [shown : SUBSET Permissions, current : BOOLEAN]
    /\ consented \in SUBSET Permissions
    /\ code \in SUBSET Permissions
    /\ family \in SUBSET Permissions
    /\ exchange \in [kind : {"none", "code", "refresh"}, scopes : SUBSET Permissions]
    /\ bearer \in SUBSET SUBSET Permissions

\* What makes TokensWithinApproval inductive: an exchange in progress holds scopes
\* that are still approved, because the lock it holds keeps every Withdraw out.
\* Neither the consent nor the snapshot of the family is within the approvals.
ScopedTokensInv ==
    /\ ScopedTypeOK
    /\ exchange.kind = "none" <=> exchange = Idle
    /\ exchange.scopes \subseteq allowed
    /\ TokensWithinApproval

LEMMA ScopedTokensInitially == ScopedTokensInit => ScopedTokensInv
  BY DEF ScopedTokensInit, ScopedTokensInv, ScopedTypeOK, Idle, TokensWithinApproval

LEMMA ScopedTokensInductive ==
    ScopedTokensInv /\ [ScopedTokensNext]_scopedTokenVars => ScopedTokensInv'
  <1> SUFFICES ASSUME ScopedTokensInv, [ScopedTokensNext]_scopedTokenVars
               PROVE  ScopedTokensInv'
      OBVIOUS
  <1> USE DEF ScopedTokensInv, ScopedTypeOK, TokensWithinApproval, Idle
  <1>1. ASSUME NEW s \in Permissions, Allow(s) PROVE ScopedTokensInv'
      BY <1>1 DEF Allow, NoExchange
  <1>2. ASSUME NEW R \in SUBSET Permissions, Withdraw(R) PROVE ScopedTokensInv'
      BY <1>2 DEF Withdraw, NoExchange, SweptBy
  <1>3. CASE Choose
      BY <1>3 DEF Choose
  <1>4. CASE Consent
      BY <1>4 DEF Consent
  <1>5. CASE BeginCode
      BY <1>5 DEF BeginCode, NoExchange, Authorized
  <1>6. CASE BeginRefresh
      BY <1>6 DEF BeginRefresh, NoExchange, RefreshScopes, Authorized
  <1>7. CASE Issue
      BY <1>7 DEF Issue
  <1>8. CASE Abandon
      BY <1>8 DEF Abandon
  <1>9. ASSUME NEW t \in bearer, EndBearer(t) PROVE ScopedTokensInv'
      BY <1>9 DEF EndBearer
  <1>10. CASE UNCHANGED scopedTokenVars
      BY <1>10 DEF scopedTokenVars
  <1>11. QED
      BY <1>1, <1>2, <1>3, <1>4, <1>5, <1>6, <1>7, <1>8, <1>9, <1>10
      DEF ScopedTokensNext

\* TokensWithinApproval, for every catalogue of scopes: an access token issued by
\* exchange_code or exchange_refresh_token never outlives the approval of a scope.
THEOREM TokensWithinApprovalHolds == ScopedTokensSpec => []TokensWithinApproval
  <1>1. ScopedTokensInv => TokensWithinApproval
      BY DEF ScopedTokensInv
  <1>2. QED
      BY <1>1, ScopedTokensInitially, ScopedTokensInductive, PTL DEF ScopedTokensSpec

\* ConsentInformed: whatever set of scopes is approved meanwhile, validate_consent
\* lets no consent cover what the page did not show.
THEOREM ConsentInformedHolds == ScopedTokensSpec => ConsentInformed
  <1>1. ScopedTokensNext => ConsentInformedStep
      BY DEF ScopedTokensNext, ConsentInformedStep, Allow, Withdraw, Choose, Consent,
             ConsentHolds, BeginCode, BeginRefresh, Issue, Abandon, EndBearer
  <1>2. QED
      BY <1>1, PTL DEF ScopedTokensSpec, ConsentInformed

\* TokensSound: both bounds of a token at once, for every catalogue of scopes.
THEOREM TokensSoundHolds == ScopedTokensSpec => TokensSound
  BY TokensWithinApprovalHolds, ConsentInformedHolds DEF TokensSound

=============================================================================
