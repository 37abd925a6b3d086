-------------------------- MODULE WebhookPipeline --------------------------
(***************************************************************************)
(* The webhook pipeline of the IAM worker: committed outbox events are     *)
(* claimed under a lease, expanded into one delivery per authorized        *)
(* application, and every delivery is claimed under a lease, POSTed, and   *)
(* recorded as delivered, retried, or dead-lettered.  Dead letters return  *)
(* through the manual replay endpoint.                                     *)
(*                                                                         *)
(* Sources: src/worker/{mod,outbox,webhook}.rs,                            *)
(*          src/features/webhook_replay.rs,                                *)
(*          src/features/applications/webhooks.rs.                         *)
(*                                                                         *)
(* PostgreSQL rows are functions of records.  Every action is one          *)
(* transaction of the code, or one network call between two transactions,  *)
(* so the interleavings of several worker instances and the API are        *)
(* explored at transaction granularity.  Timestamps are countdowns: a      *)
(* lease or a retry delay of n expires after n ticks.                      *)
(***************************************************************************)
EXTENDS Naturals, FiniteSets, TLC

CONSTANTS
    Instances,       \* worker instance identifiers (a restart gets a new one)
    EventCount,      \* outbox events carry global_sequence 1 .. EventCount
    Aggregates,      \* aggregate identities (aggregate_type, aggregate_id)
    Organizations,   \* tenants of outbox events
    AggregateOf,     \* [Events -> Aggregates]
    OrganizationOf,  \* [Events -> Organizations]
    Applications,    \* webhook recipients
    Audience,        \* [Events -> SUBSET Applications]
    ClaimLimit,      \* delivery_claim_limit
    MaxAttempts,     \* IAM_WORKER_MAX_ATTEMPTS
    MaxRetryDelay,   \* IAM_WORKER_MAX_RETRY_DELAY_SECONDS, in ticks
    JitterPercents,  \* values the digest-derived jitter may take
    LeaseTicks,      \* IAM_WORKER_LEASE_SECONDS, in ticks
    DeadlineTicks,   \* from begin_attempt to the recorded outcome, in ticks
    Stalls,          \* TRUE when a process may overrun DeadlineTicks
    DatabaseErrors,  \* TRUE when the transaction ending a task may fail
    Suspensions,     \* TRUE when platform administrators may suspend applications
    MaxEndpoints,    \* bound: endpoint generations per application
    MaxBatches,      \* bound: manual replay batches
    NoOwner,         \* NULL lease_owner
    NoAggregate      \* aggregate part of a replay lane's ordering_key

Events == 1 .. EventCount

ASSUME PipelineAssumption ==
    /\ EventCount \in Nat
    /\ AggregateOf \in [Events -> Aggregates]
    /\ OrganizationOf \in [Events -> Organizations]
    /\ Audience \in [Events -> SUBSET Applications]
    /\ ClaimLimit \in Nat \ {0}
    /\ MaxAttempts \in 1 .. 100
    /\ MaxRetryDelay \in Nat \ {0}
    /\ JitterPercents \in SUBSET (75 .. 125)
    /\ JitterPercents # {}
    /\ LeaseTicks \in Nat
    /\ DeadlineTicks \in Nat
    /\ Stalls \in BOOLEAN
    /\ DatabaseErrors \in BOOLEAN
    /\ Suspensions \in BOOLEAN
    /\ MaxEndpoints \in Nat \ {0}
    /\ MaxBatches \in Nat
    /\ NoOwner \notin Instances
    /\ NoAggregate \notin Aggregates

(* validate_worker_database_lease_policy: the configured lease outlives the *)
(* database acquisition, one statement, the provider deadline and a margin. *)
ValidLeasePolicy == LeaseTicks > DeadlineTicks

ASSUME LeasePolicy == ValidLeasePolicy

Deliveries == Events \X Applications

\* An application endpoint is a generation number; approving a replacement
\* retires the previous one.
Endpoints == Applications \X (1 .. MaxEndpoints)

\* ordering_key of a recipient: destination and aggregate, or destination and
\* manual replay batch.
Lanes == [endpoint : Endpoints,
          aggregate : Aggregates \cup {NoAggregate},
          batch : 0 .. MaxBatches]

\* A (delivery, lane) pair: one pass of a delivery through one ordering lane.
Passes == Deliveries \X Lanes

VARIABLES
    event,         \* iam.outbox_events
    delivery,      \* iam.webhook_deliveries joined with its recipient row
    expansion,     \* per instance: the expansion tasks of the current cycle
    attempt,       \* per instance: the delivery tasks of the current cycle
    alive,         \* instances that have not crashed
    active,        \* per application: generation of its active endpoint
    batches,       \* manual replay batches created so far
    standing,      \* per application: review status
    assigned,      \* history: passes created by expansion or replay
    withheld,      \* history: recipients left out of an expansion
    posted,        \* history: passes whose request reached the endpoint
    acknowledged,  \* history: passes the endpoint answered with success
    settled        \* history: passes delivered, dead-lettered or cancelled

rows == <<event, delivery, active, batches, standing>>
tasks == <<expansion, attempt, alive>>
history == <<assigned, withheld, posted, acknowledged, settled>>
vars == <<event, delivery, expansion, attempt, alive, active, batches,
          standing, assigned, withheld, posted, acknowledged, settled>>

----------------------------------------------------------------------------
(* Rows and tasks *)

EventStatus == {"absent", "pending", "processing", "completed", "dead_letter"}
DeliveryStatus == {"absent", "pending", "processing", "delivered", "dead_letter",
                   "cancelled"}
Unsettled == {"pending", "processing"}

\* Review status: verified and never suspended, suspended, or verified again.
Standing == {"verified", "suspended", "reactivated"}

MinOf(a, b) == IF a <= b THEN a ELSE b

\* Upper bound of retry_delay_seconds: 125 % of the cap, rounded up.
DelayBound == (MaxRetryDelay * 125 + 99) \div 100

EventRow == [status : EventStatus, owner : Instances \cup {NoOwner},
             lease : 0 .. LeaseTicks, attempts : 0 .. MaxAttempts,
             delay : 0 .. DelayBound]

DeliveryRow == [status : DeliveryStatus, owner : Instances \cup {NoOwner},
                lease : 0 .. LeaseTicks, cycle : 0 .. MaxAttempts,
                delay : 0 .. DelayBound, lane : Lanes]

\* ClaimedEvent: the attempt_count returned by the claim travels with the task.
ExpansionTask == [phase : {"idle", "claimed", "failed"},
                  attempts : 0 .. MaxAttempts]

\* ClaimedDelivery: destination, lane and cycle_attempt_count are the claimed
\* values; left counts down the time budget of an attempt in progress.
AttemptTask == [phase : {"idle", "claimed", "loaded", "posting", "accepted",
                         "retryable", "rejected"},
                lane : Lanes, cycle : 0 .. MaxAttempts,
                left : 0 .. DeadlineTicks]

OrdinaryLane(e, endpoint) ==
    [endpoint |-> endpoint, aggregate |-> AggregateOf[e], batch |-> 0]

ReplayLane(endpoint, batch) ==
    [endpoint |-> endpoint, aggregate |-> NoAggregate, batch |-> batch]

FirstLane(d) == OrdinaryLane(d[1], <<d[2], 1>>)

IdleExpansion == [phase |-> "idle", attempts |-> 0]
IdleAttempt(d) ==
    [phase |-> "idle", lane |-> FirstLane(d), cycle |-> 0, left |-> 0]

\* 1_u64.checked_shl(exponent) over the exponents retry_delay_seconds uses.
ASSUME ShiftAssumption == \A n \in 0 .. 20 : 2 ^ n \in Nat

\* retry_delay_seconds with the jitter percentage as a parameter.
RetryDelay(attempts, jitter) ==
    LET exponent == IF attempts = 0 THEN 0 ELSE MinOf(attempts - 1, 20)
        capped == MinOf(2 ^ exponent, MaxRetryDelay)
    IN  (capped * jitter + 99) \div 100

Init ==
    /\ event = [e \in Events |->
         [status |-> "absent", owner |-> NoOwner, lease |-> 0,
          attempts |-> 0, delay |-> 0]]
    /\ delivery = [d \in Deliveries |->
         [status |-> "absent", owner |-> NoOwner, lease |-> 0, cycle |-> 0,
          delay |-> 0, lane |-> FirstLane(d)]]
    /\ expansion = [i \in Instances |-> [e \in Events |-> IdleExpansion]]
    /\ attempt = [i \in Instances |-> [d \in Deliveries |-> IdleAttempt(d)]]
    /\ alive = Instances
    /\ active = [a \in Applications |-> 1]
    /\ batches = 0
    /\ standing = [a \in Applications |-> "verified"]
    /\ assigned = {}
    /\ withheld = {}
    /\ posted = {}
    /\ acknowledged = {}
    /\ settled = {}

\* Row updates shared by both tables: a terminal or retry update clears the
\* lease columns; a retry also schedules the next attempt.
Released(row, status) ==
    [row EXCEPT !.status = status, !.owner = NoOwner, !.lease = 0]

Rescheduled(row, delay) ==
    [row EXCEPT !.status = "pending", !.owner = NoOwner, !.lease = 0,
                !.delay = delay]

Renewed(row) == [row EXCEPT !.lease = LeaseTicks]

WithPhase(task, phase) == [task EXCEPT !.phase = phase]

----------------------------------------------------------------------------
(* Domain transactions *)

\* enqueue_outbox: the event row becomes visible when the domain transaction
\* commits.  The transaction holds the aggregate's row lock from before it
\* draws the sequence number, so the events of one aggregate become visible
\* in sequence order; a number that never becomes visible was rolled back.
Publish(e) ==
    /\ event[e].status = "absent"
    /\ \A later \in Events :
         later > e /\ AggregateOf[later] = AggregateOf[e]
           => event[later].status = "absent"
    /\ event' = [event EXCEPT ![e] = Released(@, "pending")]
    /\ UNCHANGED <<delivery, active, batches, standing, tasks, history>>

----------------------------------------------------------------------------
(* Outbox expansion *)

\* Mutant of EventClaimable: an expired lease is never reclaimed.
EventClaimableOnce(e) == event[e].status = "pending" /\ event[e].delay = 0

EventClaimable(e) ==
    \/ event[e].status = "pending" /\ event[e].delay = 0
    \/ event[e].status = "processing" /\ event[e].lease = 0

ClaimedEventRow(row, i) ==
    [row EXCEPT !.status = "processing", !.owner = i, !.lease = LeaseTicks,
                !.attempts = MinOf(@ + 1, MaxAttempts)]

\* outbox::process_pool claims one batch per cycle; the cycle awaits every
\* task before the next claim.
ClaimEvents(i, batch) ==
    /\ i \in alive
    /\ \A e \in Events : expansion[i][e].phase = "idle"
    /\ batch # {}
    /\ Cardinality(batch) <= ClaimLimit
    /\ \A e \in batch : EventClaimable(e)
    /\ event' = [e \in Events |->
         IF e \in batch THEN ClaimedEventRow(event[e], i) ELSE event[e]]
    /\ expansion' = [expansion EXCEPT ![i] = [e \in Events |->
         IF e \in batch
         THEN [phase |-> "claimed",
               attempts |-> ClaimedEventRow(event[e], i).attempts]
         ELSE IdleExpansion]]
    /\ UNCHANGED <<delivery, active, batches, standing, attempt, alive,
                   history>>

\* Mutant of OwnsEvent: the update names the row by id alone.
EventExists(i, e) == i \in Instances /\ event[e].status # "absent"

\* The fence of the terminal updates: status = 'processing' AND lease_owner.
OwnsEvent(i, e) == event[e].status = "processing" /\ event[e].owner = i

\* expand_event's opening check also requires an unexpired lease.
EventLeaseHeld(i, e) == OwnsEvent(i, e) /\ event[e].lease > 0

\* The event's audience, one delivery per application.
Recipients(e) == {<<e, a>> : a \in Audience[e]}

\* expand_application_recipients lists verified applications only.  It takes no
\* lock on them: one that is suspended or reactivated meanwhile may be listed
\* or not.
Withholdable(e) == {d \in Recipients(e) : standing[d[2]] # "verified"}

CurrentLane(d) == OrdinaryLane(d[1], <<d[2], active[d[2]]>>)

\* insert_application_recipient: ON CONFLICT DO NOTHING keeps an existing row.
InsertedDeliveries(e, omitted) ==
    {d \in Recipients(e) \ omitted : delivery[d].status = "absent"}

EndExpansion(i, e) == expansion' = [expansion EXCEPT ![i][e] = IdleExpansion]

InsertRecipients(inserted) ==
    /\ delivery' = [d \in Deliveries |->
         IF d \in inserted
         THEN [status |-> "pending", owner |-> NoOwner, lease |-> 0,
               cycle |-> 0, delay |-> 0, lane |-> CurrentLane(d)]
         ELSE delivery[d]]
    /\ assigned' = assigned \cup {<<d, CurrentLane(d)>> : d \in inserted}

\* expand_event commits recipients, deliveries and the completed event row in
\* one transaction; without the lease it rolls back and returns.
ExpandEvent(i, e) ==
    /\ expansion[i][e].phase = "claimed"
    /\ EndExpansion(i, e)
    /\ \/ /\ EventLeaseHeld(i, e)
          /\ \E omitted \in SUBSET Withholdable(e) :
               /\ InsertRecipients(InsertedDeliveries(e, omitted))
               /\ withheld' = withheld \cup omitted
          /\ event' = [event EXCEPT ![e] = Released(@, "completed")]
       \/ /\ ~EventLeaseHeld(i, e)
          /\ UNCHANGED <<event, delivery, assigned, withheld>>
    /\ UNCHANGED <<active, batches, standing, attempt, alive, posted,
                   acknowledged, settled>>

\* Any error inside expand_event rolls its transaction back.
ExpandError(i, e) ==
    /\ expansion[i][e].phase = "claimed"
    /\ expansion' = [expansion EXCEPT ![i][e] = WithPhase(@, "failed")]
    /\ UNCHANGED <<rows, attempt, alive, history>>

\* mark_failure: retry later, or dead-letter once the claimed attempt_count
\* reached the limit; fenced on the lease owner.
MarkFailure(i, e) ==
    /\ expansion[i][e].phase = "failed"
    /\ EndExpansion(i, e)
    /\ \/ /\ OwnsEvent(i, e)
          /\ expansion[i][e].attempts >= MaxAttempts
          /\ event' = [event EXCEPT ![e] = Released(@, "dead_letter")]
       \/ /\ OwnsEvent(i, e)
          /\ expansion[i][e].attempts < MaxAttempts
          /\ \E jitter \in JitterPercents :
               event' = [event EXCEPT ![e] =
                 Rescheduled(@, RetryDelay(expansion[i][e].attempts, jitter))]
       \/ ~OwnsEvent(i, e) /\ UNCHANGED event
    /\ UNCHANGED <<delivery, active, batches, standing, attempt, alive,
                   history>>

\* mark_failure itself fails: the row keeps its lease until it expires.
AbandonEvent(i, e) ==
    /\ DatabaseErrors
    /\ expansion[i][e].phase = "failed"
    /\ EndExpansion(i, e)
    /\ UNCHANGED <<rows, attempt, alive, history>>

----------------------------------------------------------------------------
(* Webhook delivery *)

\* Mutant of DeliveryDue: an expired lease is never reclaimed.
DeliveryDueOnce(d) == delivery[d].status = "pending" /\ delivery[d].delay = 0

DeliveryDue(d) ==
    \/ delivery[d].status = "pending" /\ delivery[d].delay = 0
    \/ delivery[d].status = "processing" /\ delivery[d].lease = 0

\* Mutant of PriorUnexpandedEvent: an event under expansion does not block.
PriorPendingEvent(d) ==
    \E e \in Events :
        /\ OrganizationOf[e] = OrganizationOf[d[1]]
        /\ AggregateOf[e] = AggregateOf[d[1]]
        /\ e < d[1]
        /\ event[e].status = "pending"

\* prior_unexpanded_event: same organization and aggregate, lower sequence.
PriorUnexpandedEvent(d) ==
    \E e \in Events :
        /\ OrganizationOf[e] = OrganizationOf[d[1]]
        /\ AggregateOf[e] = AggregateOf[d[1]]
        /\ e < d[1]
        /\ event[e].status \in Unsettled

\* prior_delivery: same ordering_key, lower sequence.
PriorDelivery(d) ==
    \E p \in Deliveries :
        /\ delivery[p].lane = delivery[d].lane
        /\ p[1] < d[1]
        /\ delivery[p].status \in Unsettled

DeliveryClaimable(d) ==
    DeliveryDue(d) /\ ~PriorUnexpandedEvent(d) /\ ~PriorDelivery(d)

ClaimedDeliveryRow(row, i) ==
    [row EXCEPT !.status = "processing", !.owner = i, !.lease = LeaseTicks,
                !.cycle = MinOf(@ + 1, MaxAttempts)]

\* webhook::process_pool claims one batch per cycle in one statement.
ClaimDeliveries(i, batch) ==
    /\ i \in alive
    /\ \A d \in Deliveries : attempt[i][d].phase = "idle"
    /\ batch # {}
    /\ Cardinality(batch) <= ClaimLimit
    /\ \A d \in batch : DeliveryClaimable(d)
    /\ delivery' = [d \in Deliveries |->
         IF d \in batch THEN ClaimedDeliveryRow(delivery[d], i)
                        ELSE delivery[d]]
    /\ attempt' = [attempt EXCEPT ![i] = [d \in Deliveries |->
         IF d \in batch
         THEN [phase |-> "claimed", lane |-> delivery[d].lane, left |-> 0,
               cycle |-> ClaimedDeliveryRow(delivery[d], i).cycle]
         ELSE IdleAttempt(d)]]
    /\ UNCHANGED <<event, active, batches, standing, expansion, alive,
                   history>>

\* Mutant of OwnsDelivery: the update names the row by id alone.
DeliveryExists(i, d) == i \in Instances /\ delivery[d].status # "absent"

OwnsDelivery(i, d) ==
    delivery[d].status = "processing" /\ delivery[d].owner = i

DeliveryLeaseHeld(i, d) == OwnsDelivery(i, d) /\ delivery[d].lease > 0

SetPhase(i, d, phase) ==
    attempt' = [attempt EXCEPT ![i][d] = WithPhase(@, phase)]

PostingTask(task) == [task EXCEPT !.phase = "posting", !.left = DeadlineTicks]

StartPosting(i, d) == attempt' = [attempt EXCEPT ![i][d] = PostingTask(@)]

EndAttempt(i, d) == attempt' = [attempt EXCEPT ![i][d] = IdleAttempt(d)]

\* get_worker_application_webhook_material: only the active endpoint of a
\* verified application yields one.
EndpointActive(i, d) ==
    /\ attempt[i][d].lane.endpoint[2] = active[d[2]]
    /\ standing[d[2]] # "suspended"

\* process_delivery loads destination, secret and event data of the claimed
\* endpoint.  A transient error is retryable; a retired endpoint, a suspended
\* application or unusable stored material is not.
LoadMaterial(i, d) ==
    /\ attempt[i][d].phase = "claimed"
    /\ \/ EndpointActive(i, d) /\ SetPhase(i, d, "loaded")
       \/ SetPhase(i, d, "retryable")
       \/ SetPhase(i, d, "rejected")
    /\ UNCHANGED <<rows, expansion, alive, history>>

\* Mutant of BeginAttempt: the lease is checked but not renewed.
BeginAttemptUnrenewed(i, d) ==
    /\ attempt[i][d].phase = "loaded"
    /\ IF DeliveryLeaseHeld(i, d)
       THEN StartPosting(i, d)
       ELSE EndAttempt(i, d)
    /\ UNCHANGED <<rows, expansion, alive, history>>

\* begin_attempt renews the lease of a delivery still owned and unexpired; any
\* other delivery is left to its new owner.
BeginAttempt(i, d) ==
    /\ attempt[i][d].phase = "loaded"
    /\ IF DeliveryLeaseHeld(i, d)
       THEN /\ delivery' = [delivery EXCEPT ![d] = Renewed(@)]
            /\ StartPosting(i, d)
       ELSE EndAttempt(i, d) /\ UNCHANGED delivery
    /\ UNCHANGED <<event, active, batches, standing, expansion, alive,
                   history>>

\* transport::deliver: the endpoint may accept the request, reject it, handle
\* it without the answer arriving, or never see it.
Post(i, d) ==
    /\ attempt[i][d].phase = "posting"
    /\ \/ /\ SetPhase(i, d, "accepted")
          /\ posted' = posted \cup {<<d, attempt[i][d].lane>>}
          /\ acknowledged' = acknowledged \cup {<<d, attempt[i][d].lane>>}
       \/ /\ SetPhase(i, d, "rejected") \/ SetPhase(i, d, "retryable")
          /\ posted' = posted \cup {<<d, attempt[i][d].lane>>}
          /\ UNCHANGED acknowledged
       \/ /\ SetPhase(i, d, "rejected") \/ SetPhase(i, d, "retryable")
          /\ UNCHANGED <<posted, acknowledged>>
    /\ UNCHANGED <<rows, expansion, alive, assigned, withheld, settled>>

\* finish_success: fenced on the owner alone; a lost lease rolls back.
FinishSuccess(i, d) ==
    /\ attempt[i][d].phase = "accepted"
    /\ EndAttempt(i, d)
    /\ IF OwnsDelivery(i, d)
       THEN /\ delivery' = [delivery EXCEPT ![d] = Released(@, "delivered")]
            /\ settled' = settled \cup {<<d, delivery[d].lane>>}
       ELSE UNCHANGED <<delivery, settled>>
    /\ UNCHANGED <<event, active, batches, standing, expansion, alive, assigned,
                   withheld, posted, acknowledged>>

\* finish_failure: dead-letter a permanent error or an exhausted cycle, else
\* schedule a retry; an update that matches no row is ignored.
DeadLettered(i, d) ==
    \/ attempt[i][d].cycle >= MaxAttempts
    \/ attempt[i][d].phase = "rejected"

FinishFailure(i, d) ==
    /\ attempt[i][d].phase \in {"retryable", "rejected"}
    /\ EndAttempt(i, d)
    /\ \/ /\ OwnsDelivery(i, d)
          /\ DeadLettered(i, d)
          /\ delivery' = [delivery EXCEPT ![d] = Released(@, "dead_letter")]
          /\ settled' = settled \cup {<<d, delivery[d].lane>>}
       \/ /\ OwnsDelivery(i, d)
          /\ ~DeadLettered(i, d)
          /\ \E jitter \in JitterPercents :
               delivery' = [delivery EXCEPT ![d] =
                 Rescheduled(@, RetryDelay(attempt[i][d].cycle, jitter))]
          /\ UNCHANGED settled
       \/ ~OwnsDelivery(i, d) /\ UNCHANGED <<delivery, settled>>
    /\ UNCHANGED <<event, active, batches, standing, expansion, alive, assigned,
                   withheld, posted, acknowledged>>

\* A database error outside the POST ends the task; the row keeps its lease.
AbandonDelivery(i, d) ==
    /\ DatabaseErrors
    /\ attempt[i][d].phase \in {"claimed", "loaded", "accepted", "retryable",
                                "rejected"}
    /\ EndAttempt(i, d)
    /\ UNCHANGED <<rows, expansion, alive, history>>

----------------------------------------------------------------------------
(* Application API *)

\* approve (or, inside a testing environment, replace) retires every other
\* endpoint of the application and activates the new one.
ActivateEndpoint(a) ==
    /\ active[a] < MaxEndpoints
    /\ active' = [active EXCEPT ![a] = @ + 1]
    /\ UNCHANGED <<event, delivery, batches, standing, tasks, history>>

\* reset_delivery
ResetDeliveryRow(row, lane) ==
    [row EXCEPT !.status = "pending", !.owner = NoOwner, !.lease = 0,
                !.cycle = 0, !.delay = 0, !.lane = lane]

\* replay_dead_letters: the application must be verified and the whole selection
\* still dead-lettered; it is redirected to the active endpoint in one fresh lane.
ReplayDeadLetters(a, selection) ==
    LET lane == ReplayLane(<<a, active[a]>>, batches + 1) IN
    /\ batches < MaxBatches
    /\ standing[a] # "suspended"
    /\ selection # {}
    /\ \A d \in selection : d[2] = a /\ delivery[d].status = "dead_letter"
    /\ delivery' = [d \in Deliveries |->
         IF d \in selection THEN ResetDeliveryRow(delivery[d], lane)
                            ELSE delivery[d]]
    /\ batches' = batches + 1
    /\ assigned' = assigned \cup {<<d, lane>> : d \in selection}
    /\ UNCHANGED <<event, active, standing, tasks, withheld, posted,
                   acknowledged, settled>>

\* Deliveries of an application that revoke_application_authority cancels.
Cancellable(a) ==
    {d \in Deliveries : d[2] = a /\ delivery[d].status \in Unsettled}

\* admin_decide "suspend": the open deliveries of the application are cancelled
\* under whatever lease they are.
SuspendApplication(a) ==
    /\ Suspensions
    /\ standing[a] # "suspended"
    /\ standing' = [standing EXCEPT ![a] = "suspended"]
    /\ delivery' = [d \in Deliveries |->
         IF d \in Cancellable(a) THEN Released(delivery[d], "cancelled")
                                 ELSE delivery[d]]
    /\ settled' = settled
         \cup {<<d, delivery[d].lane>> : d \in Cancellable(a)}
    /\ UNCHANGED <<event, active, batches, tasks, assigned, withheld, posted,
                   acknowledged>>

\* admin_decide "reactivate": nothing that was cancelled comes back.
ReactivateApplication(a) ==
    /\ standing[a] = "suspended"
    /\ standing' = [standing EXCEPT ![a] = "reactivated"]
    /\ UNCHANGED <<event, delivery, active, batches, tasks, history>>

----------------------------------------------------------------------------
(* Processes and time *)

\* A crash, or a drain cut off by the shutdown deadline, drops the tasks of an
\* instance.  Its identifier is never used again; the deployment keeps at
\* least one instance running.
Crash(i) ==
    /\ i \in alive
    /\ alive # {i}
    /\ alive' = alive \ {i}
    /\ expansion' = [expansion EXCEPT ![i] = [e \in Events |-> IdleExpansion]]
    /\ attempt' = [attempt EXCEPT ![i] = [d \in Deliveries |-> IdleAttempt(d)]]
    /\ UNCHANGED <<rows, history>>

Dec(n) == IF n = 0 THEN 0 ELSE n - 1

Aged(row) == [row EXCEPT !.lease = Dec(@), !.delay = Dec(@)]

Elapsed(task) == [task EXCEPT !.left = Dec(@)]

InProgress(i, d) == attempt[i][d].phase \in {"posting", "accepted"}

\* Time passes.  Without stalls an attempt in progress reaches its recorded
\* outcome within DeadlineTicks: the request timeout of the transport plus the
\* acquisition and statement timeouts of the database.
Tick ==
    /\ \A i \in Instances, d \in Deliveries :
         ~Stalls /\ InProgress(i, d) => attempt[i][d].left > 0
    /\ event' = [e \in Events |-> Aged(event[e])]
    /\ delivery' = [d \in Deliveries |-> Aged(delivery[d])]
    /\ attempt' = [i \in Instances |-> [d \in Deliveries |->
         Elapsed(attempt[i][d])]]
    /\ UNCHANGED <<active, batches, standing, expansion, alive, history>>

ExpansionStep(i, e) ==
    \/ ExpandEvent(i, e)
    \/ ExpandError(i, e)
    \/ MarkFailure(i, e)
    \/ AbandonEvent(i, e)

DeliveryStep(i, d) ==
    \/ LoadMaterial(i, d)
    \/ BeginAttempt(i, d)
    \/ Post(i, d)
    \/ FinishSuccess(i, d)
    \/ FinishFailure(i, d)
    \/ AbandonDelivery(i, d)

Next ==
    \/ \E e \in Events : Publish(e)
    \/ \E i \in Instances, batch \in SUBSET Events : ClaimEvents(i, batch)
    \/ \E i \in Instances, e \in Events : ExpansionStep(i, e)
    \/ \E i \in Instances, batch \in SUBSET Deliveries :
         ClaimDeliveries(i, batch)
    \/ \E i \in Instances, d \in Deliveries : DeliveryStep(i, d)
    \/ \E a \in Applications : ActivateEndpoint(a)
    \/ \E a \in Applications, selection \in SUBSET Deliveries :
         ReplayDeadLetters(a, selection)
    \/ \E a \in Applications :
         SuspendApplication(a) \/ ReactivateApplication(a)
    \/ \E i \in Instances : Crash(i)
    \/ Tick

Spec == Init /\ [][Next]_vars

(***************************************************************************)
(* Fairness.  Time advances, an idle instance with due rows claims some,   *)
(* and every started task ends: the poll loop, the runtime and the request *)
(* and statement timeouts see to that.  Strong fairness says that an       *)
(* instance is not slower than its lease every time.  Nothing is assumed   *)
(* about the endpoint's answers, about crashes, or about the API.          *)
(***************************************************************************)
TimelyExpansion(e) ==
    \E i \in Instances :
        EventLeaseHeld(i, e) /\ (ExpandEvent(i, e) \/ ExpandError(i, e))

TimelyLoad(d) ==
    \E i \in Instances : DeliveryLeaseHeld(i, d) /\ LoadMaterial(i, d)

TimelyAttempt(d) ==
    \E i \in Instances : DeliveryLeaseHeld(i, d) /\ BeginAttempt(i, d)

FairSpec ==
    /\ Spec
    /\ WF_vars(Tick)
    /\ WF_vars(\E i \in Instances, batch \in SUBSET Events :
                  ClaimEvents(i, batch))
    /\ WF_vars(\E i \in Instances, batch \in SUBSET Deliveries :
                  ClaimDeliveries(i, batch))
    /\ \A i \in Instances :
         /\ \A e \in Events : WF_vars(ExpansionStep(i, e))
         /\ \A d \in Deliveries : WF_vars(DeliveryStep(i, d))
    /\ \A e \in Events : SF_vars(TimelyExpansion(e))
    /\ \A d \in Deliveries : SF_vars(TimelyLoad(d)) /\ SF_vars(TimelyAttempt(d))

(***************************************************************************)
(* With database errors, the same rows must also not be passed over and    *)
(* the same transactions must not fail every time: the claim takes the     *)
(* oldest due rows first, and outages end.                                 *)
(***************************************************************************)
RecoveringSpec ==
    /\ FairSpec
    /\ \A e \in Events :
         /\ SF_vars(\E i \in Instances, batch \in SUBSET Events :
                       e \in batch /\ ClaimEvents(i, batch))
         /\ SF_vars(\E i \in Instances :
                       OwnsEvent(i, e) /\ MarkFailure(i, e))
    /\ \A d \in Deliveries :
         /\ SF_vars(\E i \in Instances, batch \in SUBSET Deliveries :
                       d \in batch /\ ClaimDeliveries(i, batch))
         /\ SF_vars(\E i \in Instances : OwnsDelivery(i, d) /\ Post(i, d))
         /\ SF_vars(\E i \in Instances :
                       /\ OwnsDelivery(i, d)
                       /\ FinishSuccess(i, d) \/ FinishFailure(i, d))

----------------------------------------------------------------------------
(* Properties *)

\* Every row, task and history set stays within its declared shape.
TypeOK ==
    /\ event \in [Events -> EventRow]
    /\ delivery \in [Deliveries -> DeliveryRow]
    /\ expansion \in [Instances -> [Events -> ExpansionTask]]
    /\ attempt \in [Instances -> [Deliveries -> AttemptTask]]
    /\ alive \in SUBSET Instances
    /\ active \in [Applications -> 1 .. MaxEndpoints]
    /\ batches \in 0 .. MaxBatches
    /\ standing \in [Applications -> Standing]
    /\ assigned \in SUBSET Passes
    /\ withheld \in SUBSET Deliveries
    /\ posted \in SUBSET Passes
    /\ acknowledged \in SUBSET Passes
    /\ settled \in SUBSET Passes

\* Two passes of one lane that the pipeline promises to order: always inside a
\* replay batch, and for ordinary lanes within one organization.
Ordered(p, q) ==
    /\ p[2] = q[2]
    /\ p[1][1] < q[1][1]
    /\ q[2].batch > 0 \/ OrganizationOf[p[1][1]] = OrganizationOf[q[1][1]]

\* Ordered delivery (README.md: "ordered application and Silicon webhook
\* deliveries"): no request for a later event of a lane reaches the endpoint
\* before every earlier delivery of that lane was recorded delivered,
\* dead-lettered or cancelled, whatever expansions, retries, lost leases, crashes and manual
\* replays happen in between, and however late an earlier event is expanded.
LaneOrder ==
    \A q \in posted : \A p \in assigned : Ordered(p, q) => p \in settled

\* A row says delivered only if the endpoint acknowledged a request of the
\* row's current pass: no stale worker records success for a replayed pass.
DeliveredIsAcknowledged ==
    \A d \in Deliveries :
        delivery[d].status = "delivered"
          => <<d, delivery[d].lane>> \in acknowledged

\* While no process overruns the deadline the lease policy leaves room for,
\* an attempt from its POST to its recorded outcome holds the row's lease, so
\* no second instance sends the same delivery meanwhile; what a suspension
\* cancelled under the lease nobody sends again.
AttemptHoldsLease ==
    \A i \in Instances, d \in Deliveries :
        ~Stalls /\ InProgress(i, d)
          => DeliveryLeaseHeld(i, d) \/ delivery[d].status = "cancelled"

\* An event is marked completed exactly when all its deliveries exist, except
\* those left out because of a suspension: neither a crash, a lost lease nor a
\* failed expansion leaves a partial fan-out.
ExpansionAtomic ==
    \A e \in Events : \A d \in Recipients(e) :
        event[e].status = "completed"
          <=> delivery[d].status # "absent" \/ d \in withheld

\* Recorded outcomes are final: a completed or dead-lettered event and a
\* delivered or cancelled delivery never change again, whoever still works on
\* them, and a dead letter leaves that state only through a manual replay,
\* which opens a new lane.
OutcomesFinalStep ==
    /\ \A e \in Events :
         event[e].status \in {"completed", "dead_letter"}
           => event'[e].status = event[e].status
    /\ \A d \in Deliveries :
         /\ delivery[d].status \in {"delivered", "cancelled"}
              => delivery'[d].status = delivery[d].status
         /\ delivery[d].status = "dead_letter"
              => \/ delivery'[d].status = "dead_letter"
                 \/ /\ delivery'[d].status = "pending"
                    /\ delivery'[d].lane.batch > delivery[d].lane.batch
OutcomesFinal == [][OutcomesFinalStep]_vars

\* What a worker records is true and stays: rows keep their shape, a success was
\* acknowledged in the row's pass, and no outcome is overwritten.
OutcomesSound == []TypeOK /\ []DeliveredIsAcknowledged /\ OutcomesFinal

\* Every committed event is eventually expanded or dead-lettered.
EventsSettle ==
    \A e \in Events :
        event[e].status \in Unsettled ~> event[e].status \notin Unsettled

\* Every delivery is eventually recorded delivered or dead-lettered: whichever
\* worker died or failed with it, no lane is blocked forever.
DeliveriesSettle ==
    \A d \in Deliveries :
        delivery[d].status \in Unsettled ~> delivery[d].status \notin Unsettled

EverythingSettles == EventsSettle /\ DeliveriesSettle

\* Small instances for TLC: the events of one aggregate and organization, which
\* every application hears of; instances are told apart nowhere.
OneAggregate == [e \in Events |-> CHOOSE g \in Aggregates : TRUE]
OneOrganization == [e \in Events |-> CHOOSE o \in Organizations : TRUE]
EverybodyListens == [e \in Events |-> Applications]
InstanceSymmetry == Permutations(Instances)
=============================================================================
