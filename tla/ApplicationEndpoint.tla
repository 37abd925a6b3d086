------------------------ MODULE ApplicationEndpoint ------------------------
(***************************************************************************)
(* The webhook destinations of one application, and the secrets they are   *)
(* signed with.                                                            *)
(*                                                                         *)
(* Sources: src/features/applications/{applications,webhooks}.rs,          *)
(*          honeycomb/operations.rs and honeycomb/operations/{decisions,   *)
(*          webhook_secret}.rs; tables iam.application_webhook_endpoints   *)
(*          and iam.application_webhook_signing_keys (migrations/0004).    *)
(*                                                                         *)
(* A destination is one row per URL (UNIQUE (application_id, url_digest)). *)
(* Every writer locks the application row, compares the version its caller *)
(* named and bumps it: one step.  Only an approval is two transactions,    *)
(* with the resolution of the destination's name between them.  A secret   *)
(* is the number of the write that introduced it.                          *)
(***************************************************************************)
EXTENDS Naturals

CONSTANTS
    Destinations,   \* webhook URLs
    MaxSecrets      \* bound: signing secrets ever supplied

NoUrl == "none"

Unreviewed == [url |-> NoUrl, secret |-> 0, fresh |-> FALSE]

VARIABLES
    registry,   \* status of the application
    endpoint,   \* Destinations -> [status, secret]; secret 0: no active key
    latest,     \* the secret supplied last
    rotated,    \* the secret of the last rotation
    approval,   \* the approval between its two transactions
    sealed      \* what became active last, as it was approved

applicationEndpointVars ==
    <<registry, endpoint, latest, rotated, approval, sealed>>

\* create: the application is under review with one pending destination.
ApplicationEndpointInit ==
    \E u \in Destinations :
        /\ registry = "under_review"
        /\ endpoint = [d \in Destinations |->
                         IF d = u THEN [status |-> "pending_review", secret |-> 1]
                         ELSE [status |-> "none", secret |-> 0]]
        /\ latest = 1
        /\ rotated = 1
        /\ approval = Unreviewed
        /\ sealed = Unreviewed

ConfiguredUrls == {d \in Destinations : endpoint[d].status \in {"active", "pending_review"}}
PendingUrls == {d \in Destinations : endpoint[d].status = "pending_review"}
ActiveUrls == {d \in Destinations : endpoint[d].status = "active"}

\* resolve_technical_app, resolve_webhook_review_app: deleted_at IS NULL.
Registered == registry # "deleted"

\* bump_application: every version named earlier is out of date.
Bumped == approval' = [approval EXCEPT !.fresh = FALSE]

\* The retirement of the destinations in D; their keys are left as they are.
RetiredUrls(D) ==
    [d \in Destinations |->
        IF d \in D THEN [endpoint[d] EXCEPT !.status = "retired"] ELSE endpoint[d]]

----------------------------------------------------------------------------
(* Proposals *)

\* replacement_signing_key: the key of the active destination before that of
\* the pending one.
ReplacementKey ==
    IF ActiveUrls # {} THEN {endpoint[d].secret : d \in ActiveUrls}
    ELSE {endpoint[d].secret : d \in PendingUrls}

\* replace: a URL the application never had, with a supplied secret or the one
\* in use.  A known URL ends in webhook_url_conflict or application_webhook_unchanged.
Propose(u, supplied) ==
    /\ Registered
    /\ endpoint[u].status = "none"
    /\ \E old \in ReplacementKey :
        /\ supplied => latest < MaxSecrets
        /\ latest' = IF supplied THEN latest + 1 ELSE latest
        /\ endpoint' = [RetiredUrls(PendingUrls) EXCEPT
                          ![u] = [status |-> "pending_review",
                                  secret |-> IF supplied THEN latest' ELSE old]]
    /\ Bumped
    /\ UNCHANGED <<registry, rotated, sealed>>

\* honeycomb configure_webhook: the row of a URL is taken up again whatever became
\* of it; its keys end and it waits for approval with the supplied secret.
ConfigureWebhook(u) ==
    /\ Registered
    /\ u \notin ConfiguredUrls
    /\ latest < MaxSecrets
    /\ latest' = latest + 1
    /\ endpoint' = [RetiredUrls(PendingUrls) EXCEPT
                      ![u] = [status |-> "pending_review", secret |-> latest']]
    /\ Bumped
    /\ UNCHANGED <<registry, rotated, sealed>>

----------------------------------------------------------------------------
(* Approval *)

\* require_approvable_application
Approvable == registry \in {"verified", "under_review"}

\* approve, first transaction: the pending destination of the version named.
BeginApproval(u) ==
    /\ approval = Unreviewed
    /\ Approvable
    /\ u \in PendingUrls
    /\ approval' = [url |-> u, secret |-> endpoint[u].secret, fresh |-> TRUE]
    /\ UNCHANGED <<registry, endpoint, latest, rotated, sealed>>

\* The approved destination is active and every other one is retired.
Activated(u) ==
    [RetiredUrls(ConfiguredUrls \ {u}) EXCEPT ![u].status = "active"]

\* Mutant of StillReviewed: the version is not compared again.
StillPending == Approvable /\ approval.url \in PendingUrls

\* approve, second transaction: version, state and destination are as before.
StillReviewed == Approvable /\ approval.fresh /\ approval.url \in PendingUrls

\* approve, second transaction.
FinishApproval ==
    /\ approval # Unreviewed
    /\ StillReviewed
    /\ endpoint' = Activated(approval.url)
    /\ sealed' = approval
    /\ approval' = Unreviewed
    /\ UNCHANGED <<registry, latest, rotated>>

\* The name does not resolve to a public address, or the request is refused.
AbandonApproval ==
    /\ approval # Unreviewed
    /\ approval' = Unreviewed
    /\ UNCHANGED <<registry, endpoint, latest, rotated, sealed>>

\* honeycomb webhook_approval: one transaction, no state of the application asked.
HoneycombApproval(u) ==
    /\ Registered
    /\ u \in PendingUrls
    /\ endpoint' = Activated(u)
    /\ sealed' = [url |-> u, secret |-> endpoint[u].secret, fresh |-> TRUE]
    /\ Bumped
    /\ UNCHANGED <<registry, latest, rotated>>

----------------------------------------------------------------------------
(* Secrets *)

\* Mutant of RekeyedUrls: a destination that waits for approval keeps its key.
RekeyedActive == IF ActiveUrls # {} THEN ActiveUrls ELSE PendingUrls

\* The destinations a rotation gives a new key.
RekeyedUrls == ConfiguredUrls

\* rotate_secret
RotateSigningSecret ==
    /\ Registered
    /\ ConfiguredUrls # {}
    /\ latest < MaxSecrets
    /\ latest' = latest + 1
    /\ rotated' = latest'
    /\ endpoint' = [d \in Destinations |->
                      IF d \in RekeyedUrls THEN [endpoint[d] EXCEPT !.secret = latest']
                      ELSE endpoint[d]]
    /\ Bumped
    /\ UNCHANGED <<registry, sealed>>

\* Honeycomb's rotation of the webhook secret does the same to the destinations.
HoneycombSecretRotation == RotateSigningSecret

\* rotate_client_secret: the version moves, no destination does.
RotateClientSecret ==
    /\ Registered
    /\ Bumped
    /\ UNCHANGED <<registry, endpoint, latest, rotated, sealed>>

HoneycombClientRotation == RotateClientSecret

----------------------------------------------------------------------------
(* Platform decisions *)

\* apply_admin_decision: verification, suspension and reactivation.
Decide(status) ==
    /\ Registered
    /\ registry # status
    /\ registry' = status
    /\ Bumped
    /\ UNCHANGED <<endpoint, latest, rotated, sealed>>

\* retire_application_credentials: keys are compromised, destinations disabled.
Delete ==
    /\ Registered
    /\ registry' = "deleted"
    /\ endpoint' = [d \in Destinations |->
                      [status |-> IF d \in ConfiguredUrls THEN "disabled" ELSE endpoint[d].status,
                       secret |-> 0]]
    /\ Bumped
    /\ UNCHANGED <<latest, rotated, sealed>>

ApplicationEndpointNext ==
    \/ \E u \in Destinations :
        \/ \E supplied \in BOOLEAN : Propose(u, supplied)
        \/ ConfigureWebhook(u)
        \/ BeginApproval(u)
        \/ HoneycombApproval(u)
    \/ FinishApproval
    \/ AbandonApproval
    \/ RotateSigningSecret \/ HoneycombSecretRotation
    \/ RotateClientSecret \/ HoneycombClientRotation
    \/ \E status \in {"verified", "suspended"} : Decide(status)
    \/ Delete

ApplicationEndpointSpec ==
    ApplicationEndpointInit /\ [][ApplicationEndpointNext]_applicationEndpointVars

----------------------------------------------------------------------------
(* Properties *)

\* After a signing secret has been rotated no destination of the application can
\* come to be signed with an older one: not the active one, nor one that was
\* proposed before the rotation and approved after it, nor one proposed with the
\* secret in use, nor a retired URL that is configured again.
RotationReachesPending ==
    \A d \in ConfiguredUrls : endpoint[d].secret >= rotated

\* What receives events is what was reviewed: the active destination is the one
\* approved last, and it is signed with the secret it had when its approver read
\* it or with a later rotation's, never with one proposed behind the approver's back.
ApprovedAsSeen ==
    \A d \in ActiveUrls :
        /\ sealed.url = d
        /\ endpoint[d].secret \in {sealed.secret, rotated}

\* A rotated signing secret reaches the destination that still waits for its
\* approval, and what is approved is what was reviewed.
EndpointSound == RotationReachesPending /\ ApprovedAsSeen
============================================================================
