---------------------------- MODULE SingleSignOn ----------------------------
(***************************************************************************)
(* Single sign-on of one organization: the entitlement, the setup link,    *)
(* the connections WorkOS reports, and the admission of a carbon.          *)
(*                                                                         *)
(* Sources: src/features/sso/{configuration,authorization,webhook,support, *)
(*          security}.rs, src/infrastructure/providers/workos.rs,          *)
(*          update_organization, and migrations/0006, 0013, 0029 and 0043. *)
(*                                                                         *)
(* Configuration, entitlement and provider events are serializable         *)
(* transactions, one step each.  A setup link and a callback call WorkOS   *)
(* between two transactions, and update_organization reads whether SSO is  *)
(* ready before it writes the organization: two steps each.  WorkOS sends  *)
(* an event at least once and in any order.  If-Match versions are left    *)
(* out: the caller may always hold the current one.                        *)
(***************************************************************************)
EXTENDS Naturals, FiniteSets

CONSTANTS
    SsoCarbons,    \* carbons with an account and a session
    Connections,   \* WorkOS connections of the organization
    Attempts,      \* rows of iam.sso_authorization_transactions
    MaxReports     \* bound: provider events WorkOS ever sends

NoConnection == "none"
NoAttempt == [status |-> "none", by |-> "none", connection |-> NoConnection]

VARIABLES
    config,      \* iam.organization_sso_configs
    joinMethod,  \* iam.organizations.join_method
    connection,  \* iam.sso_connections.status
    attempt,     \* iam.sso_authorization_transactions
    signIn,      \* callbacks that WorkOS has answered: connection and subject
    identity,    \* iam.sso_identities: the subject of a carbon at a connection
    admitted,    \* iam.organization_memberships.status of the carbons
    setup,       \* a setup link between its two transactions
    joinChange,  \* update_organization has found SSO ready
    reports,     \* events WorkOS has sent, delivered any number of times
    receipts,    \* iam.external_webhook_receipts
    voided       \* history: attempts that a disable must have ended

ssoVars == <<config, joinMethod, connection, attempt, signIn, identity, admitted,
             setup, joinChange, reports, receipts, voided>>

SingleSignOnInit ==
    /\ config = [entitled |-> FALSE, mapped |-> FALSE, status |-> "disabled"]
    /\ joinMethod = "email"
    /\ connection = [c \in Connections |-> "absent"]
    /\ attempt = [a \in Attempts |-> NoAttempt]
    /\ signIn = [a \in Attempts |-> NoConnection]
    /\ identity = [c \in Connections |-> {}]
    /\ admitted = [p \in SsoCarbons |-> "none"]
    /\ setup = FALSE /\ joinChange = FALSE
    /\ reports = {} /\ receipts = {} /\ voided = {}

ActiveConnections == {c \in Connections : connection[c] = "active"}

\* The organization may send carbons to WorkOS.
SsoUsable == config.entitled /\ config.mapped /\ config.status = "active"

----------------------------------------------------------------------------
(* Configuration *)

\* replace_organization_sso_entitlement: the status follows from the connections.
ReplaceEntitlement(enabled) ==
    /\ config' = [config EXCEPT
           !.entitled = enabled,
           !.status = IF ~enabled THEN "disabled"
                      ELSE IF config.mapped /\ ActiveConnections # {} THEN "active"
                      ELSE "pending"]
    /\ UNCHANGED <<joinMethod, connection, attempt, signIn, identity, admitted, setup,
                   joinChange, reports, receipts, voided>>

\* The first transaction of create_setup_link: only an entitled organization.
BeginSetupLink ==
    /\ ~setup /\ config.entitled
    /\ setup' = TRUE
    /\ UNCHANGED <<config, joinMethod, connection, attempt, signIn, identity, admitted,
                   joinChange, reports, receipts, voided>>

\* ensure_organization and portal_link answered: the entitlement is read again.
FinishSetupLink ==
    /\ setup /\ config.entitled
    /\ config' = [config EXCEPT
           !.mapped = TRUE,
           !.status = IF config.status = "active" THEN "active" ELSE "pending"]
    /\ setup' = FALSE
    /\ UNCHANGED <<joinMethod, connection, attempt, signIn, identity, admitted,
                   joinChange, reports, receipts, voided>>

\* WorkOS refused or is unavailable, or the entitlement is gone.
AbandonSetupLink ==
    /\ setup /\ setup' = FALSE
    /\ UNCHANGED <<config, joinMethod, connection, attempt, signIn, identity, admitted,
                   joinChange, reports, receipts, voided>>

\* Mutant of Cancelled: disabling leaves the attempts of the carbons pending.
CancelledLater == attempt

\* What disabling does to the attempts under way.
Cancelled ==
    [a \in Attempts |-> IF attempt[a].status = "pending"
                        THEN [attempt[a] EXCEPT !.status = "cancelled"] ELSE attempt[a]]

\* disable: refused while SSO is how carbons join.
Disable ==
    /\ joinMethod # "sso"
    /\ config' = [config EXCEPT !.status = "disabled"]
    /\ connection' = [c \in Connections |->
           IF connection[c] = "absent" THEN "absent" ELSE "disabled"]
    /\ attempt' = Cancelled
    /\ voided' = {a \in Attempts : attempt[a].status # "none"}
    /\ UNCHANGED <<joinMethod, signIn, identity, admitted, setup, joinChange, reports, receipts>>

\* update_organization reads that SSO is ready, and later writes the join method.
FindReady ==
    /\ ~joinChange /\ joinMethod = "email"
    /\ SsoUsable /\ ActiveConnections # {}
    /\ joinChange' = TRUE
    /\ UNCHANGED <<config, joinMethod, connection, attempt, signIn, identity, admitted,
                   setup, reports, receipts, voided>>

JoinBySso ==
    /\ joinChange /\ joinChange' = FALSE
    /\ joinMethod' \in {joinMethod, "sso"}   \* the organization moved on, or not
    /\ UNCHANGED <<config, connection, attempt, signIn, identity, admitted, setup,
                   reports, receipts, voided>>

JoinByEmail ==
    /\ joinMethod' = "email"
    /\ UNCHANGED <<config, connection, attempt, signIn, identity, admitted, setup,
                   joinChange, reports, receipts, voided>>

----------------------------------------------------------------------------
(* Events of the provider *)

\* WorkOS sends an event about a connection of the mapped organization.
Report(kind, c) ==
    /\ config.mapped
    /\ Cardinality(reports) < MaxReports
    /\ reports' = reports \cup {[id |-> Cardinality(reports), kind |-> kind, of |-> c]}
    /\ UNCHANGED <<config, joinMethod, connection, attempt, signIn, identity, admitted,
                   setup, joinChange, receipts, voided>>

\* apply_workos_connection_event: one connection is active at a time.
Activated(e) ==
    /\ connection' = [c \in Connections |->
           IF c = e.of THEN "active"
           ELSE IF connection[c] = "active" THEN "disabled" ELSE connection[c]]
    /\ config' = [config EXCEPT !.status = IF config.entitled THEN "active" ELSE "disabled"]

\* Mutant of Withdrawn: the event ends the connection and not the configuration.
WithdrawnAlone == config

\* The configuration after a connection was deactivated or deleted, whichever it was.
Withdrawn ==
    [config EXCEPT !.status = IF config.entitled THEN "pending" ELSE "disabled"]

Deactivated(e) ==
    /\ connection' = [connection EXCEPT ![e.of] = IF @ = "absent" THEN "absent" ELSE "disabled"]
    /\ config' = Withdrawn

\* receive: an event whose receipt exists changes nothing.
Receive(e) ==
    /\ e.id \notin receipts
    /\ receipts' = receipts \cup {e.id}
    /\ IF e.kind = "activated" THEN Activated(e) ELSE Deactivated(e)
    /\ UNCHANGED <<joinMethod, attempt, signIn, identity, admitted, setup, joinChange,
                   reports, voided>>

----------------------------------------------------------------------------
(* A carbon joins *)

\* authorize, begin_sso_authorization: the attempt before it is cancelled.
Authorize(a, p) ==
    /\ attempt[a] = NoAttempt
    /\ SsoUsable /\ joinMethod = "sso"
    /\ \E c \in ActiveConnections :
           attempt' = [b \in Attempts |->
               IF b = a THEN [status |-> "pending", by |-> p, connection |-> c]
               ELSE IF attempt[b].by = p /\ attempt[b].status = "pending"
                    THEN [attempt[b] EXCEPT !.status = "cancelled"] ELSE attempt[b]]
    /\ UNCHANGED <<config, joinMethod, connection, signIn, identity, admitted, setup,
                   joinChange, reports, receipts, voided>>

\* is_valid_sso_callback_correlation: the state and nonce of a pending attempt of
\* this browser session, under a configuration that still stands.
Correlated(a) ==
    /\ attempt[a].status = "pending"
    /\ SsoUsable /\ joinMethod = "sso"
    /\ connection[attempt[a].connection] = "active"

\* The first part of callback: correlation, then WorkOS names the connection.
ExchangeCode(a) ==
    /\ signIn[a] = NoConnection
    /\ Correlated(a)
    /\ \E c \in Connections : signIn' = [signIn EXCEPT ![a] = c]
    /\ UNCHANGED <<config, joinMethod, connection, attempt, identity, admitted, setup,
                   joinChange, reports, receipts, voided>>

\* Mutant of StillCorrelated: what was checked before WorkOS was asked is trusted.
CorrelatedBefore(a) == attempt[a].status \in {"pending", "cancelled"}

\* lock_sso_membership_activation_state, complete_sso_authorization: checked again,
\* and WorkOS answered for the connection the carbon was sent to.
StillCorrelated(a) == Correlated(a) /\ signIn[a] = attempt[a].connection

\* A subject stands for one carbon at a connection, and a carbon for one subject.
IdentityFits(c, p, subject) ==
    \A i \in identity[c] : (i.carbon = p) <=> (i.subject = subject)

\* The second part of callback: created, reactivated or unchanged.
Admit(a, subject) ==
    /\ signIn[a] # NoConnection
    /\ StillCorrelated(a)
    /\ LET c == attempt[a].connection
           p == attempt[a].by
       IN  /\ IdentityFits(c, p, subject)
           /\ identity' = [identity EXCEPT ![c] = @ \cup {[carbon |-> p, subject |-> subject]}]
           /\ admitted' = [admitted EXCEPT ![p] = "active"]
    /\ attempt' = [attempt EXCEPT ![a].status = "completed"]
    /\ signIn' = [signIn EXCEPT ![a] = NoConnection]
    /\ UNCHANGED <<config, joinMethod, connection, setup, joinChange, reports, receipts, voided>>

\* The second transaction fails: mismatch of the email or the identity, or a rollback.
Refuse(a) ==
    /\ signIn[a] # NoConnection
    /\ signIn' = [signIn EXCEPT ![a] = NoConnection]
    /\ UNCHANGED <<config, joinMethod, connection, attempt, identity, admitted, setup,
                   joinChange, reports, receipts, voided>>

\* The ten minutes of an attempt are over, or its session has ended.
Expire(a) ==
    /\ attempt[a].status = "pending"
    /\ attempt' = [attempt EXCEPT ![a].status = "expired"]
    /\ UNCHANGED <<config, joinMethod, connection, signIn, identity, admitted, setup,
                   joinChange, reports, receipts, voided>>

\* The membership is removed by the organization.
Remove(p) ==
    /\ admitted[p] = "active"
    /\ admitted' = [admitted EXCEPT ![p] = "removed"]
    /\ UNCHANGED <<config, joinMethod, connection, attempt, signIn, identity, setup,
                   joinChange, reports, receipts, voided>>

SingleSignOnNext ==
    \/ \E enabled \in BOOLEAN : ReplaceEntitlement(enabled)
    \/ BeginSetupLink \/ FinishSetupLink \/ AbandonSetupLink \/ Disable
    \/ FindReady \/ JoinBySso \/ JoinByEmail
    \/ \E kind \in {"activated", "withdrawn"}, c \in Connections : Report(kind, c)
    \/ \E e \in reports : Receive(e)
    \/ \E a \in Attempts, p \in SsoCarbons : Authorize(a, p)
    \/ \E a \in Attempts : ExchangeCode(a) \/ Refuse(a) \/ Expire(a)
    \/ \E a \in Attempts, subject \in SsoCarbons : Admit(a, subject)
    \/ \E p \in SsoCarbons : Remove(p)

SingleSignOnSpec == SingleSignOnInit /\ [][SingleSignOnNext]_ssoVars

----------------------------------------------------------------------------
(* Properties *)

\* An organization is shown as active only with its entitlement, its WorkOS
\* organization and exactly one active connection, in whatever order events arrive.
SsoActiveBacked ==
    config.status = "active" =>
        config.entitled /\ config.mapped /\ Cardinality(ActiveConnections) = 1

\* After SSO was disabled no attempt begun before admits anybody, though WorkOS had
\* already answered and though SSO may have become active again since.
DisabledEndsSignInStep ==
    \A a \in voided : attempt[a].status # "completed"
                          => attempt'[a].status # "completed"
DisabledEndsSignIn == [][DisabledEndsSignInStep]_ssoVars

\* Single sign-on is active only on an active connection, and no sign-in completes
\* that began under a configuration disabled since.
SsoSound == []SsoActiveBacked /\ DisabledEndsSignIn
=============================================================================
