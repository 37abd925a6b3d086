--------------------------- MODULE Introspection ---------------------------
(***************************************************************************)
(* What an application learns of a token while its authority changes.      *)
(*                                                                         *)
(* Sources: src/features/applications/{oauth,security,authorization}.rs,   *)
(*          src/infrastructure/postgres/tokens.rs and the functions of     *)
(*          migrations/0057, 0062, 0072, 0093 and 0100 they call.          *)
(*                                                                         *)
(* A request crosses three transactions: the client credential, the bearer *)
(* token, the disclosure.  The last one runs READ COMMITTED: each of its   *)
(* statements is a step, and only the rows it locked FOR SHARE stand still.*)
(* One application, one subject with a session, a membership for every     *)
(* organization, one access token and one refresh token.                   *)
(***************************************************************************)
EXTENDS Naturals, TLAPS

CONSTANTS
    Organizations,   \* active organizations
    Scopes,          \* scopes of the catalogue
    MaxEpoch         \* bound on the epochs of client and memberships

NoOrg == "none"

NoIntrospection == [phase |-> "idle", kind |-> "access", epoch |-> 0, scopes |-> {},
         want |-> NoOrg, chosen |-> NoOrg, told |-> {}]

VARIABLES
    caller,      \* iam.applications and iam.principals: verified, auth_epoch, secret valid
    approved,    \* live iam.application_approved_scopes
    consent,     \* iam.oauth_consent_grants: active, scopes, selected_membership_ids
    signedIn,    \* iam.authentication_sessions.status = 'active'
    membership,  \* iam.organization_memberships: active, authz_epoch
    access,      \* the access token: live, scopes, organization, the two epochs
    refresh,     \* the refresh token and its family: live, scopes of the snapshot
    request      \* the introspection in progress

introspectionVars ==
    <<caller, approved, consent, signedIn, membership, access, refresh, request>>

\* A token of an organization's login is bound to it, another reaches what the
\* user selected.
IntrospectionInit ==
    /\ caller = [verified |-> TRUE, epoch |-> 0, secret |-> TRUE]
    /\ approved = Scopes
    /\ signedIn = TRUE
    /\ membership = [o \in Organizations |-> [active |-> TRUE, epoch |-> 0]]
    /\ \E bound \in Organizations \union {NoOrg} : \E selected \in SUBSET Organizations :
         /\ bound # NoOrg => selected = {bound}
         /\ consent = [active |-> TRUE, scopes |-> Scopes, selected |-> selected]
         /\ access = [live |-> TRUE, scopes |-> Scopes, org |-> bound]
    /\ refresh = [live |-> TRUE, scopes |-> Scopes]
    /\ request = NoIntrospection

----------------------------------------------------------------------------
(* What others change, unless the disclosure holds the row *)

Disclosing == request.phase \in {"locked", "known", "chosen", "loaded"}

\* Mutant of ClientFree: the disclosure does not lock the application.
ClientNeverLocked == TRUE

\* lock_current_application_client holds the application FOR SHARE.
ClientFree == ~Disclosing

\* The disclosing statement has locked token, session and memberships.
SubjectFree == request.phase # "loaded"

\* Mutant of Swept: removing a scope leaves the tokens that carry it.
SweptLater(R) == access

\* configure_application_scopes revokes every access token with a removed scope.
Swept(R) == [access EXCEPT !.live = @ /\ access.scopes \cap R = {}]

RemoveScopes(R) ==
    /\ ClientFree
    /\ R # {} /\ R \subseteq approved
    /\ approved' = approved \ R
    /\ access' = Swept(R)
    /\ UNCHANGED <<caller, consent, signedIn, membership, refresh, request>>

ApproveScope(s) ==
    /\ ClientFree
    /\ s \notin approved
    /\ approved' = approved \union {s}
    /\ UNCHANGED <<caller, consent, signedIn, membership, access, refresh, request>>

\* admin_decide suspends: tokens, families and consents end with the epoch.
SuspendClient ==
    /\ ClientFree /\ SubjectFree
    /\ caller.verified /\ caller.epoch < MaxEpoch
    /\ caller' = [caller EXCEPT !.verified = FALSE, !.epoch = @ + 1]
    /\ access' = [access EXCEPT !.live = FALSE]
    /\ refresh' = [refresh EXCEPT !.live = FALSE]
    /\ consent' = [consent EXCEPT !.active = FALSE]
    /\ UNCHANGED <<approved, signedIn, membership, request>>

ReactivateClient ==
    /\ ClientFree
    /\ ~caller.verified
    /\ caller' = [caller EXCEPT !.verified = TRUE]
    /\ UNCHANGED <<approved, consent, signedIn, membership, access, refresh, request>>

\* rotate_secret with no overlap: the secret the caller holds stops working.
RotateSecret ==
    /\ ClientFree
    /\ caller.secret
    /\ caller' = [caller EXCEPT !.secret = FALSE]
    /\ UNCHANGED <<approved, consent, signedIn, membership, access, refresh, request>>

\* revoke_session_authority
EndSession ==
    /\ signedIn /\ SubjectFree
    /\ signedIn' = FALSE
    /\ access' = [access EXCEPT !.live = FALSE]
    /\ refresh' = [refresh EXCEPT !.live = FALSE]
    /\ consent' = [consent EXCEPT !.active = FALSE]
    /\ UNCHANGED <<caller, approved, membership, request>>

\* approve_request: the scopes of the policy replace those of the consent, the
\* memberships chosen replace (private application) or extend the selection.
\* A refresh token and a listing lock the consent; one organization does not.
ConsentAgain(S) ==
    /\ signedIn /\ caller.verified
    /\ SubjectFree \/ (request.kind = "access" /\ request.chosen # NoOrg)
    /\ access.org = NoOrg
    /\ \E selected \in {S, consent.selected \union S} :
         consent' = [active |-> TRUE, scopes |-> approved, selected |-> selected]
    /\ UNCHANGED <<caller, approved, signedIn, membership, access, refresh, request>>

\* Removal, a role change or a new arrival: the trigger raises authz_epoch.
ChangeMembership(o, stays) ==
    /\ SubjectFree
    /\ membership[o].epoch < MaxEpoch
    /\ membership[o].active \/ stays
    /\ membership' = [membership EXCEPT ![o] = [active |-> stays, epoch |-> @.epoch + 1]]
    /\ UNCHANGED <<caller, approved, consent, signedIn, access, refresh, request>>

\* revoke_for_application, or the expiry of a token.
EndTokens ==
    /\ SubjectFree
    /\ \/ access' = [access EXCEPT !.live = FALSE] /\ UNCHANGED refresh
       \/ refresh' = [refresh EXCEPT !.live = FALSE] /\ UNCHANGED access
    /\ UNCHANGED <<caller, approved, consent, signedIn, membership, request>>

----------------------------------------------------------------------------
(* The request *)

AdvanceRequest(phase) == request' = [request EXCEPT !.phase = phase]

Answer(phase) ==
    /\ AdvanceRequest(phase)
    /\ UNCHANGED <<caller, approved, consent, signedIn, membership, access, refresh>>

\* basic_credentials, and the secret looked up without a lock.
FindSecret(kind, o) ==
    /\ request.phase \in {"idle", "active", "inactive", "refused"}
    /\ caller.secret
    /\ request' = [NoIntrospection EXCEPT !.phase = "secret", !.kind = kind, !.want = o]
    /\ UNCHANGED <<caller, approved, consent, signedIn, membership, access, refresh>>

\* resolve_application_client: locked and checked once more, then committed.
ResolveClient ==
    /\ request.phase = "secret"
    /\ request' = IF caller.verified /\ caller.secret
                  THEN [request EXCEPT !.phase = "client", !.epoch = caller.epoch]
                  ELSE [request EXCEPT !.phase = "refused"]
    /\ UNCHANGED <<caller, approved, consent, signedIn, membership, access, refresh>>

\* The bearer chain, as every statement checks it; client_auth_epoch and
\* membership_authz_epoch of the token were 0 when it was issued.
Stands ==
    /\ access.live /\ signedIn
    /\ caller.verified /\ caller.epoch = 0
    /\ access.org \in Organizations
         => membership[access.org] = [active |-> TRUE, epoch |-> 0]

\* tokens::authenticate: the scopes the answer will report are read here.
AuthenticateToken ==
    /\ request.phase = "client" /\ request.kind = "access"
    /\ request' = IF Stands /\ consent.active
                  THEN [request EXCEPT !.phase = "bearer",
                          !.scopes = access.scopes \cap approved \cap consent.scopes]
                  ELSE [request EXCEPT !.phase = "inactive"]
    /\ UNCHANGED <<caller, approved, consent, signedIn, membership, access, refresh>>

\* lock_current_application_client: verified, and still the epoch of the caller.
LockClient ==
    /\ \/ request.phase = "bearer"
       \/ request.phase = "client" /\ request.kind = "refresh"
    /\ Answer(IF caller.verified /\ caller.epoch = request.epoch
              THEN "locked" ELSE "inactive")

\* The metadata projection, and the organization a bound token names.
ReadMetadata ==
    /\ request.phase = "locked" /\ request.kind = "access"
    /\ Answer(IF /\ Stands
                 /\ access.org = NoOrg \/ request.want \in {NoOrg, access.org}
              THEN "known" ELSE "inactive")

\* select_reachable_organization asks for the membership alone.
SelectOrganization ==
    /\ request.phase = "known"
    /\ LET chosen == IF access.org # NoOrg THEN access.org ELSE request.want IN
       request' = IF chosen \in Organizations /\ ~membership[chosen].active
                  THEN [request EXCEPT !.phase = "inactive"]
                  ELSE [request EXCEPT !.phase = "chosen", !.chosen = chosen]
    /\ UNCHANGED <<caller, approved, consent, signedIn, membership, access, refresh>>

\* Mutant of Allowed: every membership of the subject is reachable.
AllowedAll == {o \in Organizations : membership[o].active}

\* application_token_allows_membership
Allowed ==
    {o \in Organizations : consent.active /\ membership[o].active
                             /\ o \in consent.selected}

Disclosed(S) ==
    /\ request' = [request EXCEPT !.phase = "loaded", !.told = S]
    /\ UNCHANGED <<caller, approved, consent, signedIn, membership, access, refresh>>

\* authorization::load: the chain is locked and checked again; a chain that fell,
\* or an organization the user did not select, is an inactive token.
DiscloseOne ==
    /\ request.phase = "chosen" /\ request.chosen # NoOrg
    /\ IF Stands /\ request.chosen \in Allowed
       THEN Disclosed({request.chosen}) ELSE Answer("inactive")

\* authorization::load_all: every organization reached, possibly none.
DiscloseAll ==
    /\ request.phase = "chosen" /\ request.chosen = NoOrg
    /\ IF Stands THEN Disclosed(Allowed) ELSE Answer("inactive")

\* Mutant of FilterMatches: a membership is enough, as for the access token.
FilterMember ==
    request.want \in Organizations => membership[request.want].active

\* An organization filter has to match the binding, or the explicit selection.
FilterMatches ==
    request.want \in Organizations =>
      IF access.org # NoOrg THEN request.want = access.org
      ELSE membership[request.want].active /\ request.want \in consent.selected

\* introspect_refresh_token: subject authority, consent and credential are locked.
DiscloseRefresh ==
    /\ request.phase = "locked" /\ request.kind = "refresh"
    /\ request' = IF /\ signedIn /\ consent.active /\ refresh.live
                     /\ access.org \in Organizations => membership[access.org].active
                     /\ FilterMatches
                  THEN [request EXCEPT !.phase = "loaded",
                          !.scopes = refresh.scopes \cap consent.scopes \cap approved,
                          !.told = {request.want} \ {NoOrg}]
                  ELSE [request EXCEPT !.phase = "inactive"]
    /\ UNCHANGED <<caller, approved, consent, signedIn, membership, access, refresh>>

\* The commit, and the answer: its scopes are the ones carried in the request.
Respond ==
    /\ request.phase = "loaded"
    /\ Answer("active")

Authorities ==
    \/ \E R \in SUBSET Scopes : RemoveScopes(R)
    \/ \E s \in Scopes : ApproveScope(s)
    \/ SuspendClient \/ ReactivateClient \/ RotateSecret \/ EndSession \/ EndTokens
    \/ \E S \in SUBSET Organizations : ConsentAgain(S)
    \/ \E o \in Organizations : \E stays \in BOOLEAN : ChangeMembership(o, stays)

Request ==
    \/ \E kind \in {"access", "refresh"} : \E o \in Organizations \union {NoOrg} :
         FindSecret(kind, o)
    \/ ResolveClient \/ AuthenticateToken \/ LockClient \/ ReadMetadata
    \/ SelectOrganization \/ DiscloseOne \/ DiscloseAll \/ DiscloseRefresh
    \/ Respond

IntrospectionNext == Authorities \/ Request

IntrospectionSpec == IntrospectionInit /\ [][IntrospectionNext]_introspectionVars

----------------------------------------------------------------------------
(* Properties *)

\* An answer "active" is true when it is committed, although its scopes were
\* read two transactions before: the client is the one that authenticated, the
\* session and the token it asked about are live, and every scope reported is
\* still approved.
AnswerStillTrueStep ==
    Respond =>
     /\ caller.verified /\ caller.epoch = request.epoch
     /\ signedIn
     /\ IF request.kind = "access" THEN access.live ELSE refresh.live
     /\ request.scopes \subseteq approved

\* An organization is disclosed only when the user selected it for this
\* application and the subject is an active member of it, in the very statement
\* that discloses it, whatever the caller named in X-Org-ID.
DisclosedAsSelectedStep ==
    \A o \in request'.told \ request.told :
      consent.active /\ membership[o].active
        /\ (access.org = NoOrg => o \in consent.selected)

\* A token is reported active on rows that still stand when the report is given, and
\* the report names only organizations that its user still shares.
IntrospectionSound == [][AnswerStillTrueStep /\ DisclosedAsSelectedStep]_introspectionVars

----------------------------------------------------------------------------
(* The inductive invariant *)

OrganizationsOrNone == Organizations \union {NoOrg}

IntrospectionRequests ==
    [phase : {"idle", "secret", "refused", "client", "bearer", "locked", "known", "chosen",
              "loaded", "active", "inactive"},
     kind : {"access", "refresh"}, epoch : Nat, scopes : SUBSET Scopes,
     want : OrganizationsOrNone, chosen : OrganizationsOrNone, told : SUBSET Organizations]

IntrospectionTyped ==
    /\ caller \in [verified : BOOLEAN, epoch : Nat, secret : BOOLEAN]
    /\ approved \in SUBSET Scopes
    /\ consent \in [active : BOOLEAN, scopes : SUBSET Scopes, selected : SUBSET Organizations]
    /\ signedIn \in BOOLEAN
    /\ membership \in [Organizations -> [active : BOOLEAN, epoch : Nat]]
    /\ access \in [live : BOOLEAN, scopes : SUBSET Scopes, org : OrganizationsOrNone]
    /\ refresh \in [live : BOOLEAN, scopes : SUBSET Scopes]
    /\ request \in IntrospectionRequests

\* The client locked for the disclosure is the one that authenticated.
ClientHeld == Disclosing => caller.verified /\ caller.epoch = request.epoch

\* The scopes read in the second transaction are scopes of the token, which does not
\* outlive their approval.
ScopesOfToken ==
    request.kind = "access" /\ request.phase \in {"bearer", "locked", "known", "chosen"} =>
        /\ request.scopes \subseteq access.scopes
        /\ access.live => request.scopes \subseteq approved

\* What the disclosing statement locked is what it checked.
LoadedStands ==
    request.phase = "loaded" =>
        /\ signedIn
        /\ IF request.kind = "access" THEN access.live ELSE refresh.live
        /\ request.scopes \subseteq approved

KindOfPhase == request.phase \in {"bearer", "known", "chosen"} => request.kind = "access"

IntrospectionInv ==
    IntrospectionTyped /\ ClientHeld /\ ScopesOfToken /\ LoadedStands /\ KindOfPhase

LEMMA IntrospectionInitial ==
    ASSUME IntrospectionInit
    PROVE  IntrospectionInv
  BY DEF IntrospectionInit, IntrospectionInv, IntrospectionTyped, ClientHeld, ScopesOfToken, LoadedStands,
         KindOfPhase, Disclosing, NoIntrospection, IntrospectionRequests, OrganizationsOrNone

\* While nothing is asked, authorities may change: the request is the same, and what a
\* disclosure holds is.
LEMMA AuthoritiesKeep ==
    ASSUME IntrospectionInv, Authorities
    PROVE  IntrospectionInv'
  <1> USE DEF IntrospectionTyped, IntrospectionRequests, OrganizationsOrNone
  <1>1. ASSUME NEW R \in SUBSET Scopes, RemoveScopes(R) PROVE IntrospectionInv'
    <2>1. /\ request' = request /\ caller' = caller /\ signedIn' = signedIn /\ refresh' = refresh
          /\ consent' = consent /\ membership' = membership /\ approved' = approved \ R /\ ~Disclosing
      BY <1>1 DEF RemoveScopes, ClientFree
    <2>2. /\ access' \in [live : BOOLEAN, scopes : SUBSET Scopes, org : OrganizationsOrNone]
          /\ access'.scopes = access.scopes
          /\ access'.live => access.live /\ access.scopes \cap R = {}
      BY <1>1 DEF RemoveScopes, Swept, IntrospectionInv
    <2>3. IntrospectionTyped'
      BY <2>1, <2>2 DEF IntrospectionInv
    <2> QED
      BY <2>1, <2>2, <2>3 DEF IntrospectionInv, ClientHeld, ScopesOfToken, LoadedStands, KindOfPhase, Disclosing
  <1>2. ASSUME NEW t \in Scopes, ApproveScope(t) PROVE IntrospectionInv'
    BY <1>2 DEF ApproveScope, ClientFree, IntrospectionInv, ClientHeld, ScopesOfToken, LoadedStands, KindOfPhase,
                Disclosing
  <1>3. ASSUME SuspendClient PROVE IntrospectionInv'
    <2>1. IntrospectionTyped'
      <3>1. caller \in [verified : BOOLEAN, epoch : Nat, secret : BOOLEAN] /\ caller.epoch + 1 \in Nat
        BY DEF IntrospectionInv
      <3>2. caller' \in [verified : BOOLEAN, epoch : Nat, secret : BOOLEAN]
        BY <1>3, <3>1 DEF SuspendClient
      <3>3. /\ access' \in [live : BOOLEAN, scopes : SUBSET Scopes, org : OrganizationsOrNone]
            /\ refresh' \in [live : BOOLEAN, scopes : SUBSET Scopes]
            /\ consent' \in [active : BOOLEAN, scopes : SUBSET Scopes, selected : SUBSET Organizations]
        BY <1>3 DEF SuspendClient, IntrospectionInv
      <3> QED BY <1>3, <3>2, <3>3 DEF SuspendClient, IntrospectionInv
    <2> QED
      BY <1>3, <2>1 DEF SuspendClient, ClientFree, SubjectFree, IntrospectionInv, ClientHeld, ScopesOfToken, LoadedStands, KindOfPhase,
                    Disclosing
  <1>4. ASSUME ReactivateClient PROVE IntrospectionInv'
    <2>1. IntrospectionTyped'
      <3>1. caller \in [verified : BOOLEAN, epoch : Nat, secret : BOOLEAN]
        BY DEF IntrospectionInv
      <3>2. caller' \in [verified : BOOLEAN, epoch : Nat, secret : BOOLEAN]
        BY <1>4, <3>1 DEF ReactivateClient
      <3> QED BY <1>4, <3>2 DEF ReactivateClient, IntrospectionInv
    <2> QED
      BY <1>4, <2>1 DEF ReactivateClient, ClientFree, IntrospectionInv, ClientHeld, ScopesOfToken, LoadedStands, KindOfPhase,
                    Disclosing
  <1>5. ASSUME RotateSecret PROVE IntrospectionInv'
    <2>1. IntrospectionTyped'
      <3>1. caller \in [verified : BOOLEAN, epoch : Nat, secret : BOOLEAN]
        BY DEF IntrospectionInv
      <3>2. caller' \in [verified : BOOLEAN, epoch : Nat, secret : BOOLEAN]
        BY <1>5, <3>1 DEF RotateSecret
      <3> QED BY <1>5, <3>2 DEF RotateSecret, IntrospectionInv
    <2> QED
      BY <1>5, <2>1 DEF RotateSecret, ClientFree, IntrospectionInv, ClientHeld, ScopesOfToken, LoadedStands, KindOfPhase,
                    Disclosing
  <1>6. ASSUME EndSession PROVE IntrospectionInv'
    <2>1. IntrospectionTyped'
      BY <1>6 DEF EndSession, IntrospectionInv
    <2> QED
      BY <1>6, <2>1 DEF EndSession, SubjectFree, IntrospectionInv, ClientHeld, ScopesOfToken, LoadedStands, KindOfPhase,
                    Disclosing
  <1>7. ASSUME EndTokens PROVE IntrospectionInv'
    <2>1. IntrospectionTyped'
      <3>1. /\ [access EXCEPT !.live = FALSE] \in [live : BOOLEAN, scopes : SUBSET Scopes, org : OrganizationsOrNone]
            /\ [refresh EXCEPT !.live = FALSE] \in [live : BOOLEAN, scopes : SUBSET Scopes]
        BY DEF IntrospectionInv
      <3>2. /\ access' \in [live : BOOLEAN, scopes : SUBSET Scopes, org : OrganizationsOrNone]
            /\ refresh' \in [live : BOOLEAN, scopes : SUBSET Scopes]
        BY <1>7, <3>1 DEF EndTokens, IntrospectionInv
      <3> QED BY <1>7, <3>2 DEF EndTokens, IntrospectionInv
    <2> QED
      BY <1>7, <2>1 DEF EndTokens, SubjectFree, IntrospectionInv, ClientHeld, ScopesOfToken, LoadedStands, KindOfPhase,
                    Disclosing
  <1>8. ASSUME NEW S \in SUBSET Organizations, ConsentAgain(S) PROVE IntrospectionInv'
    <2>1. IntrospectionTyped'
      BY <1>8 DEF ConsentAgain, IntrospectionInv
    <2> QED
      BY <1>8, <2>1 DEF ConsentAgain, IntrospectionInv, ClientHeld, ScopesOfToken, LoadedStands, KindOfPhase,
                    Disclosing
  <1>9. ASSUME NEW o \in Organizations, NEW stays \in BOOLEAN, ChangeMembership(o, stays) PROVE IntrospectionInv'
    <2>1. IntrospectionTyped'
      BY <1>9 DEF ChangeMembership, IntrospectionInv
    <2> QED
      BY <1>9, <2>1 DEF ChangeMembership, IntrospectionInv, ClientHeld, ScopesOfToken, LoadedStands, KindOfPhase,
                    Disclosing
  <1> QED
    BY <1>1, <1>2, <1>3, <1>4, <1>5, <1>6, <1>7, <1>8, <1>9 DEF Authorities

\* The steps of a request, which change nothing else.
LEMMA RequestKeeps ==
    ASSUME IntrospectionInv, Request
    PROVE  IntrospectionInv' /\ DisclosedAsSelectedStep
  <1> USE DEF IntrospectionTyped, IntrospectionRequests, OrganizationsOrNone
  <1>0. UNCHANGED <<caller, approved, consent, signedIn, membership, access, refresh>>
    BY DEF Request, FindSecret, ResolveClient, AuthenticateToken, LockClient, ReadMetadata, SelectOrganization,
           DiscloseOne, DiscloseAll, DiscloseRefresh, Respond, Answer, Disclosed
  <1>1. ASSUME NEW kind \in {"access", "refresh"}, NEW o \in Organizations \union {NoOrg}, FindSecret(kind, o) PROVE IntrospectionInv' /\ DisclosedAsSelectedStep
    <2>1. IntrospectionTyped'
      BY <1>0, <1>1 DEF FindSecret, NoIntrospection, IntrospectionInv
    <2>2. ClientHeld' /\ ScopesOfToken' /\ LoadedStands' /\ KindOfPhase'
      BY <1>0, <1>1 DEF FindSecret, NoIntrospection, IntrospectionInv, ClientHeld, ScopesOfToken, LoadedStands, KindOfPhase, Disclosing
    <2>3. DisclosedAsSelectedStep
      BY <1>0, <1>1 DEF FindSecret, NoIntrospection, IntrospectionInv, DisclosedAsSelectedStep
    <2> QED BY <2>1, <2>2, <2>3 DEF IntrospectionInv
  <1>2. ASSUME ResolveClient PROVE IntrospectionInv' /\ DisclosedAsSelectedStep
    <2>1. IntrospectionTyped'
      BY <1>0, <1>2 DEF ResolveClient, IntrospectionInv
    <2>2. ClientHeld' /\ ScopesOfToken' /\ LoadedStands' /\ KindOfPhase'
      BY <1>0, <1>2 DEF ResolveClient, IntrospectionInv, ClientHeld, ScopesOfToken, LoadedStands, KindOfPhase, Disclosing
    <2>3. DisclosedAsSelectedStep
      BY <1>0, <1>2 DEF ResolveClient, IntrospectionInv, DisclosedAsSelectedStep
    <2> QED BY <2>1, <2>2, <2>3 DEF IntrospectionInv
  <1>3. ASSUME AuthenticateToken PROVE IntrospectionInv' /\ DisclosedAsSelectedStep
    <2>1. IntrospectionTyped'
      BY <1>0, <1>3 DEF AuthenticateToken, IntrospectionInv
    <2>2. ClientHeld' /\ ScopesOfToken' /\ LoadedStands' /\ KindOfPhase'
      BY <1>0, <1>3 DEF AuthenticateToken, Stands, IntrospectionInv, ClientHeld, ScopesOfToken, LoadedStands, KindOfPhase, Disclosing
    <2>3. DisclosedAsSelectedStep
      BY <1>0, <1>3 DEF AuthenticateToken, Stands, IntrospectionInv, DisclosedAsSelectedStep
    <2> QED BY <2>1, <2>2, <2>3 DEF IntrospectionInv
  <1>4. ASSUME LockClient PROVE IntrospectionInv' /\ DisclosedAsSelectedStep
    <2>1. IntrospectionTyped'
      BY <1>0, <1>4 DEF LockClient, Answer, AdvanceRequest, IntrospectionInv
    <2>2. ClientHeld' /\ ScopesOfToken' /\ LoadedStands' /\ KindOfPhase'
      BY <1>0, <1>4 DEF LockClient, Answer, AdvanceRequest, IntrospectionInv, ClientHeld, ScopesOfToken, LoadedStands, KindOfPhase, Disclosing
    <2>3. DisclosedAsSelectedStep
      BY <1>0, <1>4 DEF LockClient, Answer, AdvanceRequest, IntrospectionInv, DisclosedAsSelectedStep
    <2> QED BY <2>1, <2>2, <2>3 DEF IntrospectionInv
  <1>5. ASSUME ReadMetadata PROVE IntrospectionInv' /\ DisclosedAsSelectedStep
    <2>1. IntrospectionTyped'
      BY <1>0, <1>5 DEF ReadMetadata, Answer, AdvanceRequest, IntrospectionInv
    <2>2. ClientHeld' /\ ScopesOfToken' /\ LoadedStands' /\ KindOfPhase'
      BY <1>0, <1>5 DEF ReadMetadata, Answer, AdvanceRequest, IntrospectionInv, ClientHeld, ScopesOfToken, LoadedStands, KindOfPhase, Disclosing
    <2>3. DisclosedAsSelectedStep
      BY <1>0, <1>5 DEF ReadMetadata, Answer, AdvanceRequest, IntrospectionInv, DisclosedAsSelectedStep
    <2> QED BY <2>1, <2>2, <2>3 DEF IntrospectionInv
  <1>6. ASSUME SelectOrganization PROVE IntrospectionInv' /\ DisclosedAsSelectedStep
    <2>1. IntrospectionTyped'
      BY <1>0, <1>6 DEF SelectOrganization, IntrospectionInv
    <2>2. ClientHeld' /\ ScopesOfToken' /\ LoadedStands' /\ KindOfPhase'
      BY <1>0, <1>6 DEF SelectOrganization, IntrospectionInv, ClientHeld, ScopesOfToken, LoadedStands, KindOfPhase, Disclosing
    <2>3. DisclosedAsSelectedStep
      BY <1>0, <1>6 DEF SelectOrganization, IntrospectionInv, DisclosedAsSelectedStep
    <2> QED BY <2>1, <2>2, <2>3 DEF IntrospectionInv
  <1>7. ASSUME DiscloseOne PROVE IntrospectionInv' /\ DisclosedAsSelectedStep
    <2>0. \/ \E S \in SUBSET Allowed : request' = [request EXCEPT !.phase = "loaded", !.told = S]
          \/ request' = [request EXCEPT !.phase = "inactive"]
      <3>1. CASE Stands /\ request.chosen \in Allowed
        <4>1. {request.chosen} \in SUBSET Allowed
          BY <3>1
        <4>2. request' = [request EXCEPT !.phase = "loaded", !.told = {request.chosen}]
          BY <1>7, <3>1 DEF DiscloseOne, Disclosed
        <4> QED BY <4>1, <4>2
      <3>2. CASE ~(Stands /\ request.chosen \in Allowed)
        BY <1>7, <3>2 DEF DiscloseOne, Answer, AdvanceRequest
      <3> QED BY <3>1, <3>2
    <2>1. IntrospectionTyped'
      <3>1. \A S \in SUBSET Organizations :
              [request EXCEPT !.phase = "loaded", !.told = S] \in IntrospectionRequests
        BY DEF IntrospectionInv
      <3>2. [request EXCEPT !.phase = "inactive"] \in IntrospectionRequests
        BY DEF IntrospectionInv
      <3>3. Allowed \in SUBSET Organizations
        BY DEF Allowed
      <3>4. request' \in IntrospectionRequests
        BY <2>0, <3>1, <3>2, <3>3
      <3> QED BY <1>0, <3>4 DEF IntrospectionInv
    <2>2. ClientHeld' /\ ScopesOfToken' /\ LoadedStands' /\ KindOfPhase'
      BY ZenonT(90), <1>0, <1>7 DEF DiscloseOne, Answer, AdvanceRequest, Disclosed, Stands, Allowed, IntrospectionInv, ClientHeld, ScopesOfToken, LoadedStands, KindOfPhase, Disclosing
    <2>3. DisclosedAsSelectedStep
      <3>1. request'.told \subseteq request.told \cup Allowed
        <4>1. \A S : [request EXCEPT !.phase = "loaded", !.told = S].told = S
          BY DEF IntrospectionInv
        <4>2. [request EXCEPT !.phase = "inactive"].told = request.told
          BY DEF IntrospectionInv
        <4>3. CASE request' = [request EXCEPT !.phase = "inactive"]
          BY <4>2, <4>3
        <4>4. ASSUME NEW S \in SUBSET Allowed, request' = [request EXCEPT !.phase = "loaded", !.told = S]
              PROVE  request'.told \subseteq Allowed
          <5>1. request'.told = S
            BY <4>1, <4>4
          <5> QED BY <5>1
        <4> QED BY <2>0, <4>3, <4>4
      <3> QED BY <3>1 DEF DisclosedAsSelectedStep, Allowed
    <2> QED BY <2>1, <2>2, <2>3 DEF IntrospectionInv
  <1>8. ASSUME DiscloseAll PROVE IntrospectionInv' /\ DisclosedAsSelectedStep
    <2>1. IntrospectionTyped'
      <3>1. \A S \in SUBSET Organizations :
              [request EXCEPT !.phase = "loaded", !.told = S] \in IntrospectionRequests
        BY DEF IntrospectionInv
      <3>2. [request EXCEPT !.phase = "inactive"] \in IntrospectionRequests
        BY DEF IntrospectionInv
      <3>3. Allowed \in SUBSET Organizations
        BY DEF Allowed
      <3>4. request' \in IntrospectionRequests
        BY ZenonT(90), <1>8, <3>1, <3>2, <3>3 DEF DiscloseAll, Answer, AdvanceRequest, Disclosed
      <3> QED BY <1>0, <3>4 DEF IntrospectionInv
    <2>2. ClientHeld' /\ ScopesOfToken' /\ LoadedStands' /\ KindOfPhase'
      BY ZenonT(90), <1>0, <1>8 DEF DiscloseAll, Answer, AdvanceRequest, Disclosed, Stands, Allowed, IntrospectionInv, ClientHeld, ScopesOfToken, LoadedStands, KindOfPhase, Disclosing
    <2>3. DisclosedAsSelectedStep
      <3>1. request'.told \subseteq request.told \cup Allowed
        <4>1. \A S : [request EXCEPT !.phase = "loaded", !.told = S].told = S
          BY DEF IntrospectionInv
        <4>2. [request EXCEPT !.phase = "inactive"].told = request.told
          BY DEF IntrospectionInv
        <4> QED BY <1>8, <4>1, <4>2 DEF DiscloseAll, Answer, AdvanceRequest, Disclosed
      <3> QED BY <3>1 DEF DisclosedAsSelectedStep, Allowed
    <2> QED BY <2>1, <2>2, <2>3 DEF IntrospectionInv
  <1>9. ASSUME DiscloseRefresh PROVE IntrospectionInv' /\ DisclosedAsSelectedStep
    <2>1. IntrospectionTyped'
      BY ZenonT(90), <1>0, <1>9 DEF DiscloseRefresh, IntrospectionInv
    <2>2. ClientHeld' /\ ScopesOfToken' /\ LoadedStands' /\ KindOfPhase'
      BY <1>0, <1>9 DEF DiscloseRefresh, FilterMatches, IntrospectionInv, ClientHeld, ScopesOfToken, LoadedStands, KindOfPhase, Disclosing
    <2>3. DisclosedAsSelectedStep
      BY <1>0, <1>9 DEF DiscloseRefresh, FilterMatches, IntrospectionInv, DisclosedAsSelectedStep
    <2> QED BY <2>1, <2>2, <2>3 DEF IntrospectionInv
  <1>10. ASSUME Respond PROVE IntrospectionInv' /\ DisclosedAsSelectedStep
    <2>1. IntrospectionTyped'
      BY <1>0, <1>10 DEF Respond, Answer, AdvanceRequest, IntrospectionInv
    <2>2. ClientHeld' /\ ScopesOfToken' /\ LoadedStands' /\ KindOfPhase'
      BY <1>0, <1>10 DEF Respond, Answer, AdvanceRequest, IntrospectionInv, ClientHeld, ScopesOfToken, LoadedStands, KindOfPhase, Disclosing
    <2>3. DisclosedAsSelectedStep
      BY <1>0, <1>10 DEF Respond, Answer, AdvanceRequest, IntrospectionInv, DisclosedAsSelectedStep
    <2> QED BY <2>1, <2>2, <2>3 DEF IntrospectionInv
  <1> QED
    BY <1>1, <1>2, <1>3, <1>4, <1>5, <1>6, <1>7, <1>8, <1>9, <1>10 DEF Request

LEMMA IntrospectionStep ==
    ASSUME IntrospectionInv, [IntrospectionNext]_introspectionVars
    PROVE  IntrospectionInv' /\ [AnswerStillTrueStep /\ DisclosedAsSelectedStep]_introspectionVars
  <1>1. CASE Authorities
    <2>1. request' = request
      BY <1>1 DEF Authorities, RemoveScopes, ApproveScope, SuspendClient, ReactivateClient, RotateSecret,
                  EndSession, EndTokens, ConsentAgain, ChangeMembership
    <2>2. DisclosedAsSelectedStep
      BY <2>1 DEF DisclosedAsSelectedStep
    <2>3. ~Respond
      BY <2>1 DEF Respond, Answer, AdvanceRequest, IntrospectionInv, IntrospectionTyped, IntrospectionRequests
    <2> QED BY <1>1, <2>2, <2>3, AuthoritiesKeep DEF AnswerStillTrueStep
  <1>2. CASE Request
    <2>1. AnswerStillTrueStep
      BY DEF AnswerStillTrueStep, Respond, IntrospectionInv, ClientHeld, LoadedStands, Disclosing
    <2> QED BY <1>2, <2>1, RequestKeeps
  <1>3. CASE UNCHANGED introspectionVars
    BY <1>3 DEF introspectionVars, IntrospectionInv, IntrospectionTyped, ClientHeld, ScopesOfToken, LoadedStands,
                KindOfPhase, Disclosing
  <1> QED BY <1>1, <1>2, <1>3 DEF IntrospectionNext

\* Whatever is suspended, withdrawn, ended or selected again between the three
\* transactions of an introspection, its answer is true when it is given, for every set
\* of organizations and scopes.
THEOREM IntrospectionSoundHolds == IntrospectionSpec => IntrospectionSound
  <1>1. IntrospectionInit => IntrospectionInv
    BY IntrospectionInitial
  <1>2. IntrospectionInv /\ [IntrospectionNext]_introspectionVars
        => IntrospectionInv' /\ [AnswerStillTrueStep /\ DisclosedAsSelectedStep]_introspectionVars
    BY IntrospectionStep
  <1> QED BY <1>1, <1>2, PTL DEF IntrospectionSpec, IntrospectionSound
============================================================================
