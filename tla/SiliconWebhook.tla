--------------------------- MODULE SiliconWebhook ---------------------------
(***************************************************************************)
(* The webhook of a silicon: endpoint, signing key and subscription, and   *)
(* the fan-out of events to it.                                            *)
(*                                                                         *)
(* Sources: src/features/organizations/silicon_webhooks/{endpoints,shared, *)
(*          subscriptions,replays}.rs, src/features/webhook_replay.rs,     *)
(*          src/worker/{outbox,webhook}.rs and the functions of            *)
(*          migrations/0014, 0027, 0038 and 0041 they call.                *)
(*                                                                         *)
(* A change of configuration holds the silicon, its endpoint and the       *)
(* delivery scope of the endpoint to its commit, and is one step.  What    *)
(* precedes those locks is a step of its own: the preflight of a redirect, *)
(* which resolves the new address with no transaction open, and the first  *)
(* read of an expansion.  Leases of deliveries and their order are the     *)
(* module WebhookPipeline; versions of If-Match, step-up and idempotency   *)
(* records only refuse.                                                    *)
(***************************************************************************)
EXTENDS Naturals, FiniteSets

CONSTANTS
    Receivers,     \* silicons
    FanEvents,     \* routable events of the organization
    Redirects,     \* bound: replacements of an endpoint in flight at once
    MaxConfig      \* bound: configurations of one silicon

NoDelivery == [status |-> "none", config |-> 0, key |-> 0]
NoRedirect == [at |-> "idle"]

VARIABLES
    receiver,      \* "active" or "removed"
    hook,          \* the iam.silicon_webhook_endpoints row and its keys
    interest,      \* the subscription: a set of events, or the empty set for none
    config,        \* how often the configuration of the silicon has changed
    fanned,        \* expansion of each event: where it is, what it has read and locked
    dispatch,      \* the delivery of an event to a silicon
    redirect       \* replacements between preflight and commit

siliconWebhookVars == <<receiver, hook, interest, config, fanned, dispatch, redirect>>

SiliconWebhookInit ==
    /\ receiver = [s \in Receivers |-> "active"]
    /\ hook = [s \in Receivers |-> [status |-> "none", key |-> 0, keys |-> 0]]
    /\ interest = [s \in Receivers |-> {}]
    /\ config = [s \in Receivers |-> 0]
    /\ fanned = [e \in FanEvents |-> [stage |-> "waiting", candidates |-> {}, chosen |-> {}]]
    /\ dispatch = [e \in FanEvents |-> [s \in Receivers |-> NoDelivery]]
    /\ redirect = [r \in Redirects |-> NoRedirect]

----------------------------------------------------------------------------
(* What every change goes through *)

Queued(d) == d.status \in {"pending", "processing"}

\* cancel_silicon_webhook_deliveries: pending and processing, leases included.
Cancelled(s) ==
    [e \in FanEvents |->
        [dispatch[e] EXCEPT ![s] = IF Queued(@) THEN [@ EXCEPT !.status = "cancelled"] ELSE @]]

\* Mutant of DeliveryScopeFree: a change does not wait for an expansion.
DeliveryScopeIgnored(s) == TRUE

\* lock_silicon_webhook_delivery_scope: an expansion that holds the scope must end.
DeliveryScopeFree(s) ==
    \A e \in FanEvents : fanned[e].stage \in {"locked", "chosen"} => s \notin fanned[e].candidates

\* Mutant of TargetActive: the status read before the lock is trusted.
TargetSeen(s) == TRUE

\* load_target_for_update and authorize.
TargetActive(s) == receiver[s] = "active"

\* lock_active_endpoint
HookActive(s) == hook[s].status = "active"

Reconfigured(s) == config' = [config EXCEPT ![s] = @ + 1]

----------------------------------------------------------------------------
(* Endpoints *)

\* replace_webhook up to the commit of its preflight: identity is checked, the
\* status of the silicon is not.
PreflightRedirect(r, s) ==
    /\ redirect[r] = NoRedirect
    /\ redirect' = [redirect EXCEPT ![r] = [at |-> "resolving", silicon |-> s]]
    /\ UNCHANGED <<receiver, hook, interest, config, fanned, dispatch>>

\* validate_resolved_target or a check after it refuses, or the client goes away.
DropRedirect(r) ==
    /\ redirect[r] # NoRedirect
    /\ redirect' = [redirect EXCEPT ![r] = NoRedirect]
    /\ UNCHANGED <<receiver, hook, interest, config, fanned, dispatch>>

\* retire_keys_immediately, then next_secret_version and insert_signing_key.
NextKey(h) == [h EXCEPT !.key = h.keys + 1, !.keys = h.keys + 1]
WithoutKey(h) == [h EXCEPT !.key = 0]

\* The second transaction of replace_webhook: what was queued under the old address
\* is cancelled, the row keeps its identity and is active again.
FinishRedirect(r) ==
    /\ redirect[r] # NoRedirect
    /\ LET s == redirect[r].silicon IN
         /\ config[s] < MaxConfig
         /\ TargetActive(s)
         /\ hook[s].status # "none" => DeliveryScopeFree(s)
         /\ dispatch' = IF hook[s].status = "none" THEN dispatch ELSE Cancelled(s)
         /\ hook' = [hook EXCEPT ![s] = [NextKey(WithoutKey(@)) EXCEPT !.status = "active"]]
         /\ Reconfigured(s)
    /\ redirect' = [redirect EXCEPT ![r] = NoRedirect]
    /\ UNCHANGED <<receiver, interest, fanned>>

\* delete_webhook: the subscription goes with the endpoint.
DeleteWebhook(s) ==
    /\ config[s] < MaxConfig
    /\ TargetActive(s) /\ HookActive(s)
    /\ DeliveryScopeFree(s)
    /\ interest' = [interest EXCEPT ![s] = {}]
    /\ dispatch' = Cancelled(s)
    /\ hook' = [hook EXCEPT ![s] = [WithoutKey(@) EXCEPT !.status = "disabled"]]
    /\ Reconfigured(s)
    /\ UNCHANGED <<receiver, fanned, redirect>>

\* deactivate_silicon_webhook_for_removal in remove_silicon.
RemoveReceiver(s) ==
    /\ receiver[s] = "active"
    /\ receiver' = [receiver EXCEPT ![s] = "removed"]
    /\ IF hook[s].status = "none"
       THEN UNCHANGED <<hook, interest, dispatch>>
       ELSE /\ DeliveryScopeFree(s)
            /\ interest' = [interest EXCEPT ![s] = {}]
            /\ dispatch' = Cancelled(s)
            /\ hook' = [hook EXCEPT ![s] = [WithoutKey(@) EXCEPT !.status = "disabled"]]
    /\ Reconfigured(s)
    /\ UNCHANGED <<fanned, redirect>>

----------------------------------------------------------------------------
(* Subscriptions *)

\* replace_subscription with a canonical, changed set of topics and tags.
ReplaceSubscription(s, events) ==
    /\ config[s] < MaxConfig
    /\ events # {} /\ events # interest[s]
    /\ TargetActive(s) /\ HookActive(s)
    /\ DeliveryScopeFree(s)
    /\ dispatch' = Cancelled(s)
    /\ interest' = [interest EXCEPT ![s] = events]
    /\ Reconfigured(s)
    /\ UNCHANGED <<receiver, hook, fanned, redirect>>

\* delete_subscription.
DeleteSubscription(s) ==
    /\ config[s] < MaxConfig
    /\ TargetActive(s) /\ HookActive(s) /\ interest[s] # {}
    /\ DeliveryScopeFree(s)
    /\ dispatch' = Cancelled(s)
    /\ interest' = [interest EXCEPT ![s] = {}]
    /\ Reconfigured(s)
    /\ UNCHANGED <<receiver, hook, fanned, redirect>>

----------------------------------------------------------------------------
(* Fan-out *)

\* list_worker_silicon_webhook_recipients
SiliconRecipients(e) ==
    {s \in Receivers : receiver[s] = "active" /\ HookActive(s) /\ e \in interest[s]}

\* The first read of expand_silicon_recipients.
ReadCandidates(e) ==
    /\ fanned[e].stage = "waiting"
    /\ fanned' = [fanned EXCEPT ![e] = [stage |-> "read", candidates |-> SiliconRecipients(e), chosen |-> {}]]
    /\ UNCHANGED <<receiver, hook, interest, config, dispatch, redirect>>

\* Its locks, held by one expansion at a time.
LockScopes(e) ==
    /\ fanned[e].stage = "read"
    /\ \A s \in fanned[e].candidates : DeliveryScopeFree(s)
    /\ fanned' = [fanned EXCEPT ![e].stage = "locked"]
    /\ UNCHANGED <<receiver, hook, interest, config, dispatch, redirect>>

\* Mutant of Confirmed: the candidates are taken as they were read.
AsRead(e) == fanned[e].candidates

\* The second read, restricted to the scopes that are locked.
Confirmed(e) == SiliconRecipients(e) \cap fanned[e].candidates

ReadRecipients(e) ==
    /\ fanned[e].stage = "locked"
    /\ fanned' = [fanned EXCEPT ![e].stage = "chosen",
         ![e].chosen = {<<s, config[s], hook[s].key>> : s \in Confirmed(e)}]
    /\ UNCHANGED <<receiver, hook, interest, config, dispatch, redirect>>

\* insert_silicon_recipient for each, and commit.
InsertSiliconRecipients(e) ==
    /\ fanned[e].stage = "chosen"
    /\ dispatch' = [dispatch EXCEPT ![e] = [s \in Receivers |->
         IF \E c \in fanned[e].chosen : c[1] = s
         THEN LET c == CHOOSE c \in fanned[e].chosen : c[1] = s
              IN [status |-> "pending", config |-> c[2], key |-> c[3]]
         ELSE @[s]]]
    /\ fanned' = [fanned EXCEPT ![e].stage = "expanded"]
    /\ UNCHANGED <<receiver, hook, interest, config, redirect>>

\* The worker dies or the transaction fails: the event is expanded again later.
AbandonExpansion(e) ==
    /\ fanned[e].stage \in {"read", "locked", "chosen"}
    /\ fanned' = [fanned EXCEPT ![e].stage = "waiting"]
    /\ UNCHANGED <<receiver, hook, interest, config, dispatch, redirect>>

----------------------------------------------------------------------------
(* Deliveries *)

\* A delivery is claimed.
ClaimDispatch(e, s) ==
    /\ dispatch[e][s].status = "pending"
    /\ dispatch' = [dispatch EXCEPT ![e][s].status = "processing"]
    /\ UNCHANGED <<receiver, hook, interest, config, fanned, redirect>>

\* load_silicon_material: the endpoint and the key that was chosen must be current.
Material(e, s) == TargetActive(s) /\ HookActive(s) /\ hook[s].key = dispatch[e][s].key

\* The outcome is recorded if the delivery is still the worker's: it is delivered or
\* waits for a retry, which needs material, or it has failed for good.
RecordDispatch(e, s, outcome) ==
    /\ dispatch[e][s].status = "processing"
    /\ outcome \in {"delivered", "pending"} => Material(e, s)
    /\ dispatch' = [dispatch EXCEPT ![e][s].status = outcome]
    /\ UNCHANGED <<receiver, hook, interest, config, fanned, redirect>>

\* lock_silicon_dead_letters
DeadLetters(s) == {e \in FanEvents : dispatch[e][s].status = "dead_letter"}

\* replay_silicon_delivery: queued again, for the target it has now.
Requeued(s) == [status |-> "pending", config |-> config[s], key |-> hook[s].key]

\* replay_dead_letters: every selected delivery must still have a target.
ReplaySiliconDeadLetters(s, events) ==
    /\ events # {} /\ TargetActive(s)
    /\ events \subseteq DeadLetters(s) /\ \A e \in events : s \in SiliconRecipients(e)
    /\ DeliveryScopeFree(s)
    /\ dispatch' = [e \in FanEvents |->
         IF e \in events
         THEN [dispatch[e] EXCEPT ![s] = Requeued(s)]
         ELSE dispatch[e]]
    /\ UNCHANGED <<receiver, hook, interest, config, fanned, redirect>>

SiliconWebhookNext ==
    \/ \E r \in Redirects, s \in Receivers : PreflightRedirect(r, s)
    \/ \E r \in Redirects : DropRedirect(r) \/ FinishRedirect(r)
    \/ \E s \in Receivers : DeleteWebhook(s) \/ RemoveReceiver(s) \/ DeleteSubscription(s)
    \/ \E s \in Receivers, events \in SUBSET FanEvents :
         ReplaceSubscription(s, events) \/ ReplaySiliconDeadLetters(s, events)
    \/ \E e \in FanEvents :
         \/ ReadCandidates(e) \/ LockScopes(e) \/ ReadRecipients(e)
         \/ InsertSiliconRecipients(e) \/ AbandonExpansion(e)
    \/ \E e \in FanEvents, s \in Receivers :
         \/ ClaimDispatch(e, s)
         \/ \E outcome \in {"delivered", "pending", "dead_letter"} : RecordDispatch(e, s, outcome)

SiliconWebhookSpec == SiliconWebhookInit /\ [][SiliconWebhookNext]_siliconWebhookVars
----------------------------------------------------------------------------
(* Properties *)

\* Whatever is queued for a silicon was chosen under the configuration it has now:
\* a redirect, a new or deleted subscription or a removal leaves nothing behind that
\* was selected before it, not even by an expansion that was half way.
QueuedAsConfigured ==
    \A e \in FanEvents, s \in Receivers :
        Queued(dispatch[e][s]) =>
            /\ dispatch[e][s].config = config[s]
            /\ e \in interest[s]
            /\ Material(e, s)

\* "Holding it through membership removal prevents a concurrent configuration
\* transaction from reviving a webhook for a removed Silicon" (0027): a redirect
\* whose address was being resolved during the removal finds nothing to redirect.
RemovedStaysSilent ==
    \A s \in Receivers : receiver[s] = "removed" => hook[s].key = 0 /\ interest[s] = {}

\* What is queued for a silicon, or about to be, is meant for it as it is set up now.
SiliconWebhookSound == QueuedAsConfigured /\ RemovedStaysSilent
=============================================================================
