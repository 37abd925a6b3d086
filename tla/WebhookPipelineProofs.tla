----------------------- MODULE WebhookPipelineProofs -----------------------
(***************************************************************************)
(* Proofs about what leaves the system: WebhookPipeline for every number   *)
(* of instances, events, applications, organizations, endpoint             *)
(* generations, replay batches, attempts and every lease length the        *)
(* configuration accepts; ApplicationEndpoint, HoneycombOperations,        *)
(* SiliconWebhook, WebhookProjection, ReplayDisclosure and EventRouting for*)
(* every set of destinations, operations, calls, silicons, people, changes,*)
(* members, tags and events.                                               *)
(*                                                                         *)
(* ApplicationEndpoint: a reviewed version that still stands answers for   *)
(* the key too (ReviewStands), because whoever changes a key bumps it.     *)
(* HoneycombOperations: what a call read under the row's lock still stands *)
(* when it writes, unless it read that there was no bundle (CallsStand);   *)
(* so the revisions the accepted operations were based on are distinct.    *)
(* SiliconWebhook: what an expansion chose is the silicon as it is set up  *)
(* now until the expansion ends (ChosenNow), because it holds the scope.   *)
(*                                                                         *)
(* WebhookProjection: a change has locked what its event will report and   *)
(* excludes every other writer of it (Excluded), so what it captured is what*)
(* it commits (TxSound), and what was reported is still recognizable in the*)
(* rows (Reported). ReplayDisclosure: a dead letter has no field that its  *)
(* own kind does not have (LetterFits). EventRouting: only active members  *)
(* have tags, and only active ones (RoutingInv).                           *)
(***************************************************************************)
EXTENDS WebhookPipeline, WebhookProjection, EventRouting, ReplayDisclosure,
        ApplicationEndpoint, HoneycombOperations, SiliconWebhook, TLAPS

\* The smaller of two naturals is one of them.
LEMMA MinOfType ==
    ASSUME NEW a \in Nat, NEW b \in Nat
    PROVE  MinOf(a, b) \in Nat /\ MinOf(a, b) <= a /\ MinOf(a, b) <= b
  BY DEF MinOf

\* retry_delay_seconds stays between zero and 125 % of the configured maximum.
LEMMA RetryDelayType ==
    ASSUME NEW c \in 0 .. MaxAttempts, NEW j \in JitterPercents
    PROVE  RetryDelay(c, j) \in 0 .. DelayBound
<1> DEFINE exponent == IF c = 0 THEN 0 ELSE MinOf(c - 1, 20)
           capped == MinOf(2 ^ exponent, MaxRetryDelay)
<1>1. exponent \in 0 .. 20
  BY PipelineAssumption DEF MinOf
<1>2. 2 ^ exponent \in Nat
  BY <1>1, ShiftAssumption
<1>3. capped \in Nat /\ capped <= MaxRetryDelay
  BY <1>2, PipelineAssumption DEF MinOf
<1>4. j \in Nat /\ j <= 125
  BY PipelineAssumption
<1> HIDE DEF capped
<1>5. capped * j <= MaxRetryDelay * 125
  BY <1>3, <1>4, PipelineAssumption
<1>6. capped * j \in Nat
  BY <1>3, <1>4
<1>7. (capped * j + 99) \div 100 <= (MaxRetryDelay * 125 + 99) \div 100
  BY <1>5, <1>6, PipelineAssumption
<1>8. (capped * j + 99) \div 100 \in Nat
  BY <1>6
<1> QED
  BY <1>7, <1>8, PipelineAssumption DEF RetryDelay, DelayBound, capped

\* A delivery is its event and its application.
LEMMA DeliveryParts ==
    ASSUME NEW d \in Deliveries
    PROVE  d[1] \in Events /\ d[2] \in Applications /\ d = <<d[1], d[2]>>
  BY DEF Deliveries

\* recipient_ordering_key and manual_replay_ordering_key yield lanes.
LEMMA OrdinaryLaneType ==
    ASSUME NEW e \in Events, NEW gen \in Endpoints
    PROVE  OrdinaryLane(e, gen) \in Lanes
  BY PipelineAssumption DEF OrdinaryLane, Lanes

\* A replay batch has a lane.
LEMMA ReplayLaneType ==
    ASSUME NEW gen \in Endpoints, NEW batch \in 0 .. MaxBatches
    PROVE  ReplayLane(gen, batch) \in Lanes
  BY DEF ReplayLane, Lanes

\* The lane an absent row is initialised with is a lane.
LEMMA FirstLaneType ==
    ASSUME NEW d \in Deliveries
    PROVE  FirstLane(d) \in Lanes
<1>1. <<d[2], 1>> \in Endpoints
  BY DeliveryParts, PipelineAssumption DEF Endpoints
<1> QED
  BY <1>1, DeliveryParts, OrdinaryLaneType DEF FirstLane

\* Idle tasks are tasks.
LEMMA IdleTaskType ==
    /\ IdleExpansion \in ExpansionTask
    /\ \A d \in Deliveries : IdleAttempt(d) \in AttemptTask
  BY FirstLaneType, PipelineAssumption
     DEF IdleExpansion, IdleAttempt, ExpansionTask, AttemptTask

\* The initial state is well typed.
LEMMA TypeInit == Init => TypeOK
<1> SUFFICES ASSUME Init PROVE TypeOK
  OBVIOUS
<1>1. event \in [Events -> EventRow]
  BY PipelineAssumption DEF Init, EventRow, EventStatus, DelayBound
<1>2. delivery \in [Deliveries -> DeliveryRow]
  BY FirstLaneType, PipelineAssumption
     DEF Init, DeliveryRow, DeliveryStatus, DelayBound
<1>3. /\ expansion \in [Instances -> [Events -> ExpansionTask]]
      /\ attempt \in [Instances -> [Deliveries -> AttemptTask]]
  BY IdleTaskType DEF Init
<1> QED
  BY <1>1, <1>2, <1>3, PipelineAssumption DEF Init, TypeOK, Standing

\* Claims, in their row and task parts.
LEMMA ClaimTypes ==
    ASSUME TypeOK, NEW i \in Instances
    PROVE  /\ \A e \in Events : ClaimedEventRow(event[e], i) \in EventRow
           /\ \A d \in Deliveries :
                ClaimedDeliveryRow(delivery[d], i) \in DeliveryRow
<1>1. ASSUME NEW e \in Events
      PROVE  ClaimedEventRow(event[e], i) \in EventRow
  <2>1. event[e] \in EventRow
    BY DEF TypeOK
  <2>2. MinOf(event[e].attempts + 1, MaxAttempts) \in 0 .. MaxAttempts
    BY <2>1, PipelineAssumption DEF MinOf, EventRow
  <2>3. LeaseTicks \in 0 .. LeaseTicks
    BY PipelineAssumption
  <2> QED
    BY <2>1, <2>2, <2>3 DEF ClaimedEventRow, EventRow, EventStatus
<1>2. ASSUME NEW d \in Deliveries
      PROVE  ClaimedDeliveryRow(delivery[d], i) \in DeliveryRow
  <2>1. delivery[d] \in DeliveryRow
    BY DEF TypeOK
  <2>2. MinOf(delivery[d].cycle + 1, MaxAttempts) \in 0 .. MaxAttempts
    BY <2>1, PipelineAssumption DEF MinOf, DeliveryRow
  <2>3. LeaseTicks \in 0 .. LeaseTicks
    BY PipelineAssumption
  <2> QED
    BY <2>1, <2>2, <2>3 DEF ClaimedDeliveryRow, DeliveryRow, DeliveryStatus
<1> QED
  BY <1>1, <1>2

\* Released, rescheduled and aged rows are rows.
LEMMA RowUpdateTypes ==
    /\ \A row \in EventRow, status \in EventStatus :
         Released(row, status) \in EventRow
    /\ \A row \in EventRow, delay \in 0 .. DelayBound :
         Rescheduled(row, delay) \in EventRow
    /\ \A row \in EventRow : Aged(row) \in EventRow
    /\ \A row \in DeliveryRow, status \in DeliveryStatus :
         Released(row, status) \in DeliveryRow
    /\ \A row \in DeliveryRow, delay \in 0 .. DelayBound :
         Rescheduled(row, delay) \in DeliveryRow
    /\ \A row \in DeliveryRow, lane \in Lanes :
         ResetDeliveryRow(row, lane) \in DeliveryRow
    /\ \A row \in DeliveryRow : Aged(row) \in DeliveryRow
    /\ \A row \in DeliveryRow : Renewed(row) \in DeliveryRow
<1>1. /\ 0 \in 0 .. LeaseTicks
      /\ LeaseTicks \in 0 .. LeaseTicks
      /\ 0 \in 0 .. MaxAttempts
      /\ 0 \in 0 .. DelayBound
      /\ DelayBound \in Nat
  BY PipelineAssumption DEF DelayBound
<1>2. \A m \in Nat : \A n \in 0 .. m : Dec(n) \in 0 .. m
  BY DEF Dec
<1>3. /\ \A n \in 0 .. LeaseTicks : Dec(n) \in 0 .. LeaseTicks
      /\ \A n \in 0 .. DelayBound : Dec(n) \in 0 .. DelayBound
  BY <1>1, <1>2, PipelineAssumption
<1>4. ASSUME NEW row \in EventRow
      PROVE  /\ \A status \in EventStatus : Released(row, status) \in EventRow
             /\ \A delay \in 0 .. DelayBound : Rescheduled(row, delay) \in EventRow
             /\ Aged(row) \in EventRow
  BY <1>1, <1>3 DEF EventRow, EventStatus, Released, Rescheduled, Aged
<1>5. ASSUME NEW row \in DeliveryRow
      PROVE  /\ \A status \in DeliveryStatus :
                  Released(row, status) \in DeliveryRow
             /\ \A delay \in 0 .. DelayBound :
                  Rescheduled(row, delay) \in DeliveryRow
             /\ Aged(row) \in DeliveryRow
             /\ Renewed(row) \in DeliveryRow
  BY <1>1, <1>3
     DEF DeliveryRow, DeliveryStatus, Released, Rescheduled, Aged, Renewed
<1>6. ASSUME NEW row \in DeliveryRow, NEW lane \in Lanes
      PROVE  ResetDeliveryRow(row, lane) \in DeliveryRow
  BY <1>1 DEF DeliveryRow, DeliveryStatus, ResetDeliveryRow
<1> QED
  BY <1>4, <1>5, <1>6

\* Tasks that change phase, start an attempt or age are tasks.
LEMMA TaskUpdateTypes ==
    /\ \A task \in ExpansionTask : WithPhase(task, "failed") \in ExpansionTask
    /\ \A task \in AttemptTask :
         /\ WithPhase(task, "loaded") \in AttemptTask
         /\ WithPhase(task, "accepted") \in AttemptTask
         /\ WithPhase(task, "retryable") \in AttemptTask
         /\ WithPhase(task, "rejected") \in AttemptTask
         /\ PostingTask(task) \in AttemptTask
         /\ Elapsed(task) \in AttemptTask
<1>1. /\ DeadlineTicks \in 0 .. DeadlineTicks
      /\ \A n \in 0 .. DeadlineTicks : Dec(n) \in 0 .. DeadlineTicks
  BY PipelineAssumption DEF Dec
<1>2. ASSUME NEW task \in ExpansionTask
      PROVE  WithPhase(task, "failed") \in ExpansionTask
  BY DEF WithPhase, ExpansionTask
<1>3. ASSUME NEW task \in AttemptTask
      PROVE  /\ WithPhase(task, "loaded") \in AttemptTask
             /\ WithPhase(task, "accepted") \in AttemptTask
             /\ WithPhase(task, "retryable") \in AttemptTask
             /\ WithPhase(task, "rejected") \in AttemptTask
             /\ PostingTask(task) \in AttemptTask
             /\ Elapsed(task) \in AttemptTask
  BY <1>1 DEF WithPhase, PostingTask, Elapsed, AttemptTask
<1> QED
  BY <1>2, <1>3

\* Every step of the pipeline keeps rows, tasks and history well typed.
LEMMA TypeNext == TypeOK /\ [Next]_vars => TypeOK'
<1> SUFFICES ASSUME TypeOK, [Next]_vars PROVE TypeOK'
  OBVIOUS
<1> USE DEF TypeOK
<1>0. /\ LeaseTicks \in 0 .. LeaseTicks
      /\ DeadlineTicks \in 0 .. DeadlineTicks
      /\ 0 \in 0 .. LeaseTicks
      /\ 0 \in 0 .. DeadlineTicks
      /\ 0 \in 0 .. MaxAttempts
      /\ 0 \in 0 .. DelayBound
  BY PipelineAssumption DEF DelayBound
<1>1. ASSUME NEW e \in Events, Publish(e) PROVE TypeOK'
  <2>1. event' \in [Events -> EventRow]
    BY <1>1, RowUpdateTypes DEF Publish, EventStatus
  <2> QED
    BY <1>1, <2>1 DEF Publish, tasks, history
<1>2. ASSUME NEW i \in Instances, NEW batch \in SUBSET Events,
             ClaimEvents(i, batch)
      PROVE  TypeOK'
  <2>1. event' \in [Events -> EventRow]
    BY <1>2, ClaimTypes DEF ClaimEvents
  <2>2. \A e \in Events : ClaimedEventRow(event[e], i).attempts \in 0 .. MaxAttempts
    BY ClaimTypes DEF EventRow
  <2>3. [e \in Events |->
          IF e \in batch
          THEN [phase |-> "claimed",
                attempts |-> ClaimedEventRow(event[e], i).attempts]
          ELSE IdleExpansion] \in [Events -> ExpansionTask]
    BY <2>2, IdleTaskType DEF ExpansionTask
  <2>4. expansion' \in [Instances -> [Events -> ExpansionTask]]
    BY <1>2, <2>3 DEF ClaimEvents
  <2> QED
    BY <1>2, <2>1, <2>4 DEF ClaimEvents, history
<1>3. ASSUME NEW i \in Instances, NEW e \in Events, ExpansionStep(i, e)
      PROVE  TypeOK'
  <2>1. CASE ExpandEvent(i, e)
    <3>1. expansion' \in [Instances -> [Events -> ExpansionTask]]
      BY <2>1, IdleTaskType DEF ExpandEvent, EndExpansion
    <3>2. \A d \in Deliveries : CurrentLane(d) \in Lanes
      <4> SUFFICES ASSUME NEW d \in Deliveries PROVE CurrentLane(d) \in Lanes
        OBVIOUS
      <4>1. <<d[2], active[d[2]]>> \in Endpoints
        BY DeliveryParts DEF Endpoints
      <4> QED
        BY <4>1, DeliveryParts, OrdinaryLaneType DEF CurrentLane
    <3>3. Recipients(e) \subseteq Deliveries
      BY PipelineAssumption DEF Recipients, Deliveries
    <3>4. CASE ~EventLeaseHeld(i, e)
      BY <2>1, <3>1, <3>4 DEF ExpandEvent
    <3>5. CASE EventLeaseHeld(i, e)
      <4>0. PICK omitted \in SUBSET Withholdable(e) :
              /\ InsertRecipients(InsertedDeliveries(e, omitted))
              /\ withheld' = withheld \cup omitted
        BY <2>1, <3>5 DEF ExpandEvent
      <4>1. delivery' \in [Deliveries -> DeliveryRow]
        BY <3>2, <4>0, <1>0 DEF InsertRecipients, DeliveryRow, DeliveryStatus
      <4>2. event' \in [Events -> EventRow]
        BY <2>1, <3>5, RowUpdateTypes DEF ExpandEvent, EventStatus
      <4>3. assigned' \in SUBSET Passes
        BY <3>2, <3>3, <4>0 DEF InsertRecipients, InsertedDeliveries, Passes
      <4>4. withheld' \in SUBSET Deliveries
        BY <3>3, <4>0 DEF Withholdable
      <4> QED
        BY <2>1, <3>1, <4>1, <4>2, <4>3, <4>4 DEF ExpandEvent
    <3> QED
      BY <3>4, <3>5
  <2>2. CASE ExpandError(i, e)
    <3>1. expansion' \in [Instances -> [Events -> ExpansionTask]]
      BY <2>2, TaskUpdateTypes DEF ExpandError
    <3> QED
      BY <2>2, <3>1 DEF ExpandError, rows, history
  <2>3. CASE MarkFailure(i, e)
    <3>1. expansion' \in [Instances -> [Events -> ExpansionTask]]
      BY <2>3, IdleTaskType DEF MarkFailure, EndExpansion
    <3>2. \A jitter \in JitterPercents :
            RetryDelay(expansion[i][e].attempts, jitter) \in 0 .. DelayBound
      BY RetryDelayType DEF ExpansionTask
    <3>3. event' \in [Events -> EventRow]
      BY <2>3, <3>2, RowUpdateTypes DEF MarkFailure, EventStatus
    <3> QED
      BY <2>3, <3>1, <3>3 DEF MarkFailure, history
  <2>4. CASE AbandonEvent(i, e)
    <3>1. expansion' \in [Instances -> [Events -> ExpansionTask]]
      BY <2>4, IdleTaskType DEF AbandonEvent, EndExpansion
    <3> QED
      BY <2>4, <3>1 DEF AbandonEvent, rows, history
  <2> QED
    BY <1>3, <2>1, <2>2, <2>3, <2>4 DEF ExpansionStep
<1>4. ASSUME NEW i \in Instances, NEW batch \in SUBSET Deliveries,
             ClaimDeliveries(i, batch)
      PROVE  TypeOK'
  <2>1. delivery' \in [Deliveries -> DeliveryRow]
    BY <1>4, ClaimTypes DEF ClaimDeliveries
  <2>2. \A d \in Deliveries :
          /\ ClaimedDeliveryRow(delivery[d], i).cycle \in 0 .. MaxAttempts
          /\ delivery[d].lane \in Lanes
    BY ClaimTypes DEF DeliveryRow
  <2>3. [d \in Deliveries |->
          IF d \in batch
          THEN [phase |-> "claimed", lane |-> delivery[d].lane, left |-> 0,
                cycle |-> ClaimedDeliveryRow(delivery[d], i).cycle]
          ELSE IdleAttempt(d)] \in [Deliveries -> AttemptTask]
    BY <1>0, <2>2, IdleTaskType DEF AttemptTask
  <2>4. attempt' \in [Instances -> [Deliveries -> AttemptTask]]
    BY <1>4, <2>3 DEF ClaimDeliveries
  <2> QED
    BY <1>4, <2>1, <2>4 DEF ClaimDeliveries, history
<1>5. ASSUME NEW i \in Instances, NEW d \in Deliveries, DeliveryStep(i, d)
      PROVE  TypeOK'
  <2>t. \A task \in AttemptTask :
          attempt' = [attempt EXCEPT ![i][d] = task]
            => attempt' \in [Instances -> [Deliveries -> AttemptTask]]
    OBVIOUS
  <2>u. attempt[i][d] \in AttemptTask
    OBVIOUS
  <2>0. /\ \A phase \in {"loaded", "accepted", "retryable", "rejected"} :
             SetPhase(i, d, phase)
               => attempt' \in [Instances -> [Deliveries -> AttemptTask]]
        /\ EndAttempt(i, d)
             => attempt' \in [Instances -> [Deliveries -> AttemptTask]]
    BY <2>t, <2>u, IdleTaskType, TaskUpdateTypes DEF SetPhase, EndAttempt
  <2>p. {<<d, attempt[i][d].lane>>, <<d, delivery[d].lane>>} \subseteq Passes
    BY DEF Passes, AttemptTask, DeliveryRow
  <2>1. CASE LoadMaterial(i, d)
    BY <2>0, <2>1 DEF LoadMaterial, rows, history
  <2>2. CASE BeginAttempt(i, d)
    <3>1. CASE DeliveryLeaseHeld(i, d)
      <4>1. delivery' \in [Deliveries -> DeliveryRow]
        BY <2>2, <3>1, RowUpdateTypes DEF BeginAttempt
      <4>2. attempt' \in [Instances -> [Deliveries -> AttemptTask]]
        BY <2>t, <2>u, <2>2, <3>1, TaskUpdateTypes
           DEF BeginAttempt, StartPosting
      <4> QED
        BY <2>2, <4>1, <4>2 DEF BeginAttempt, history
    <3>2. CASE ~DeliveryLeaseHeld(i, d)
      BY <2>0, <2>2, <3>2 DEF BeginAttempt, history
    <3> QED
      BY <3>1, <3>2
  <2>3. CASE Post(i, d)
    <3>1. attempt' \in [Instances -> [Deliveries -> AttemptTask]]
      BY <2>0, <2>3 DEF Post
    <3>2. posted' \in SUBSET Passes /\ acknowledged' \in SUBSET Passes
      BY <2>p, <2>3 DEF Post
    <3> QED
      BY <2>3, <3>1, <3>2 DEF Post, rows
  <2>4. CASE FinishSuccess(i, d)
    <3>1. delivery' \in [Deliveries -> DeliveryRow]
      BY <2>4, RowUpdateTypes DEF FinishSuccess, DeliveryStatus
    <3>2. settled' \in SUBSET Passes
      BY <2>p, <2>4 DEF FinishSuccess
    <3> QED
      BY <2>0, <2>4, <3>1, <3>2 DEF FinishSuccess
  <2>5. CASE FinishFailure(i, d)
    <3>1. \A jitter \in JitterPercents :
            RetryDelay(attempt[i][d].cycle, jitter) \in 0 .. DelayBound
      BY RetryDelayType DEF AttemptTask
    <3>2. delivery' \in [Deliveries -> DeliveryRow]
      BY <2>5, <3>1, RowUpdateTypes DEF FinishFailure, DeliveryStatus
    <3>3. settled' \in SUBSET Passes
      BY <2>p, <2>5 DEF FinishFailure
    <3> QED
      BY <2>0, <2>5, <3>2, <3>3 DEF FinishFailure
  <2>6. CASE AbandonDelivery(i, d)
    BY <2>0, <2>6 DEF AbandonDelivery, rows, history
  <2> QED
    BY <1>5, <2>1, <2>2, <2>3, <2>4, <2>5, <2>6 DEF DeliveryStep
<1>6. ASSUME NEW a \in Applications, ActivateEndpoint(a) PROVE TypeOK'
  <2>1. active' \in [Applications -> 1 .. MaxEndpoints]
    BY <1>6, PipelineAssumption DEF ActivateEndpoint
  <2> QED
    BY <1>6, <2>1 DEF ActivateEndpoint, tasks, history
<1>7. ASSUME NEW a \in Applications, NEW selection \in SUBSET Deliveries,
             ReplayDeadLetters(a, selection)
      PROVE  TypeOK'
  <2> DEFINE lane == ReplayLane(<<a, active[a]>>, batches + 1)
  <2>1. batches + 1 \in 0 .. MaxBatches
    BY <1>7, PipelineAssumption DEF ReplayDeadLetters
  <2>2. <<a, active[a]>> \in Endpoints
    BY DEF Endpoints
  <2>3. lane \in Lanes
    BY <2>1, <2>2, ReplayLaneType
  <2> HIDE DEF lane
  <2>4. \A d \in Deliveries : ResetDeliveryRow(delivery[d], lane) \in DeliveryRow
    BY <2>3, RowUpdateTypes
  <2>5. delivery' \in [Deliveries -> DeliveryRow]
    BY <1>7, <2>4 DEF ReplayDeadLetters, lane
  <2>6. assigned' \in SUBSET Passes
    BY <1>7, <2>3 DEF ReplayDeadLetters, Passes, lane
  <2> QED
    BY <1>7, <2>1, <2>5, <2>6 DEF ReplayDeadLetters, tasks
<1>8. ASSUME NEW i \in Instances, Crash(i) PROVE TypeOK'
  <2>1. /\ expansion' \in [Instances -> [Events -> ExpansionTask]]
        /\ attempt' \in [Instances -> [Deliveries -> AttemptTask]]
    BY <1>8, IdleTaskType DEF Crash
  <2> QED
    BY <1>8, <2>1 DEF Crash, rows, history
<1>9. CASE Tick
  <2>2. event' \in [Events -> EventRow]
    BY <1>9, RowUpdateTypes DEF Tick
  <2>3. delivery' \in [Deliveries -> DeliveryRow]
    BY <1>9, RowUpdateTypes DEF Tick
  <2>4. attempt' \in [Instances -> [Deliveries -> AttemptTask]]
    BY <1>9, TaskUpdateTypes DEF Tick
  <2> QED
    BY <1>9, <2>2, <2>3, <2>4 DEF Tick, history
<1>10. ASSUME NEW a \in Applications, SuspendApplication(a) PROVE TypeOK'
  <2>1. delivery' \in [Deliveries -> DeliveryRow]
    BY <1>10, RowUpdateTypes DEF SuspendApplication, DeliveryStatus
  <2>2. settled' \in SUBSET Passes
    BY <1>10 DEF SuspendApplication, Cancellable, Passes, DeliveryRow
  <2>3. standing' \in [Applications -> Standing]
    BY <1>10 DEF SuspendApplication, Standing
  <2> QED
    BY <1>10, <2>1, <2>2, <2>3 DEF SuspendApplication, tasks
<1>11. ASSUME NEW a \in Applications, ReactivateApplication(a) PROVE TypeOK'
  <2>1. standing' \in [Applications -> Standing]
    BY <1>11 DEF ReactivateApplication, Standing
  <2> QED
    BY <1>11, <2>1 DEF ReactivateApplication, tasks, history
<1>12. CASE UNCHANGED vars
  BY <1>12 DEF vars
<1> QED
  BY <1>1, <1>2, <1>3, <1>4, <1>5, <1>6, <1>7, <1>8, <1>9, <1>10, <1>11, <1>12
     DEF Next

\* Type correctness of the webhook pipeline for every value of its constants.
THEOREM TypeCorrect == Spec => []TypeOK
  BY TypeInit, TypeNext, PTL DEF Spec

----------------------------------------------------------------------------
(***************************************************************************)
(* Ordered delivery.  LaneOrder speaks of requests already sent; the       *)
(* inductive invariant also covers tasks that were claimed but have not    *)
(* sent anything yet, which may be arbitrarily stale when they do.         *)
(***************************************************************************)

\* Events that may still add a pass before q to its ordinary lane.
Behind(e, q) ==
    /\ e < q[1][1]
    /\ OrganizationOf[e] = OrganizationOf[q[1][1]]
    /\ AggregateOf[e] = q[2].aggregate

\* A pass that a claim let through, given the assigned and settled passes, the
\* event rows and the number of batches: everything before it in its lane has
\* an outcome, and no event that could still add to the lane is unexpanded.
ClearedIn(q, asg, set, ev, bat) ==
    /\ \A p \in asg : Ordered(p, q) => p \in set
    /\ ev[q[1][1]].status = "completed"
    /\ q[2].batch <= bat
    /\ q[2].batch = 0 =>
         /\ q[2].aggregate = AggregateOf[q[1][1]]
         /\ \A e \in Events : Behind(e, q) => ev[e].status \notin Unsettled

\* A pass without an outcome is the current one of its delivery row.
OpenIn(p, set, del) ==
    \/ p \in set
    \/ /\ del[p[1]].lane = p[2]
       /\ del[p[1]].status \in Unsettled

\* Only a completed event has delivery rows, and their lanes exist.
KnownIn(d, del, ev, bat) ==
    del[d].status # "absent" =>
        /\ ev[d[1]].status = "completed"
        /\ del[d].lane.batch <= bat
        /\ del[d].lane.batch = 0 => del[d].lane.aggregate = AggregateOf[d[1]]

Cleared(q) == ClearedIn(q, assigned, settled, event, batches)

SentCleared == \A q \in posted : Cleared(q)

TasksCleared ==
    \A i \in Instances, d \in Deliveries :
        attempt[i][d].phase # "idle" => Cleared(<<d, attempt[i][d].lane>>)

PassesOpen == \A p \in assigned : OpenIn(p, settled, delivery)

RowsKnown == \A d \in Deliveries : KnownIn(d, delivery, event, batches)

OrderInv == SentCleared /\ TasksCleared /\ PassesOpen /\ RowsKnown

\* A cleared pass stays cleared while new passes are not ordered before it,
\* its own event stays completed, and no event behind it becomes unsettled.
LEMMA ClearedStable ==
    ASSUME NEW q, NEW asg, NEW asg2, NEW set, NEW set2, NEW ev, NEW ev2,
           NEW bat \in Nat, NEW bat2 \in Nat,
           q[2].batch \in Nat,
           ClearedIn(q, asg, set, ev, bat),
           \A p \in asg2 : p \in asg \/ ~Ordered(p, q),
           set \subseteq set2,
           ev2[q[1][1]].status = "completed",
           bat <= bat2,
           \A e \in Events :
             Behind(e, q) /\ q[2].batch = 0 /\ ev[e].status \notin Unsettled
               => ev2[e].status \notin Unsettled
    PROVE  ClearedIn(q, asg2, set2, ev2, bat2)
<1>1. \A p \in asg2 : Ordered(p, q) => p \in set2
  BY DEF ClearedIn
<1>2. q[2].batch <= bat2
  BY DEF ClearedIn
<1> QED
  BY <1>1, <1>2 DEF ClearedIn

\* How a step carries the two parts about claimed and sent passes over: cleared
\* passes stay cleared, a task is new and cleared or keeps its lane, and only
\* claimed tasks send.
LEMMA CarriedOver ==
    ASSUME TypeOK, TypeOK', OrderInv,
           \A q \in Passes : Cleared(q)
             => ClearedIn(q, assigned', settled', event', batches'),
           \A i \in Instances, d \in Deliveries :
             \/ attempt'[i][d].phase = "idle"
             \/ /\ attempt[i][d].phase # "idle"
                /\ attempt'[i][d].lane = attempt[i][d].lane
             \/ Cleared(<<d, attempt'[i][d].lane>>),
           \A q \in posted' : q \in posted \/ Cleared(q)
    PROVE  SentCleared' /\ TasksCleared'
<1>1. \A q \in posted' : ClearedIn(q, assigned', settled', event', batches')
  BY DEF OrderInv, SentCleared, TypeOK
<1>2. ASSUME NEW i \in Instances, NEW d \in Deliveries,
             attempt'[i][d].phase # "idle"
      PROVE  ClearedIn(<<d, attempt'[i][d].lane>>,
                       assigned', settled', event', batches')
  <2>1. attempt'[i][d] \in AttemptTask
    BY DEF TypeOK
  <2>2. <<d, attempt'[i][d].lane>> \in Passes
    BY <2>1 DEF AttemptTask, Passes
  <2>3. Cleared(<<d, attempt'[i][d].lane>>)
    BY <1>2 DEF OrderInv, TasksCleared
  <2> QED
    BY <2>2, <2>3
<1> QED
  BY <1>1, <1>2 DEF SentCleared, TasksCleared, Cleared

\* A pass has an event, a batch number and a lane.
LEMMA PassParts ==
    ASSUME NEW q \in Passes
    PROVE  /\ q[1] \in Deliveries
           /\ q[1][1] \in Events
           /\ q[2] \in Lanes
           /\ q[2].batch \in Nat
  BY PipelineAssumption DEF Passes, Deliveries, Lanes

\* Steps that leave events, passes and batches alone keep passes cleared.
LEMMA ClearedUnchanged ==
    ASSUME TypeOK, UNCHANGED <<assigned, event, batches>>,
           settled \subseteq settled'
    PROVE  \A q \in Passes : Cleared(q)
             => ClearedIn(q, assigned', settled', event', batches')
<1> SUFFICES ASSUME NEW q \in Passes, Cleared(q)
             PROVE  ClearedIn(q, assigned', settled', event', batches')
  OBVIOUS
<1> QED
  BY DEF Cleared, ClearedIn

\* Nothing is sent, claimed or expanded initially.
LEMMA OrderInit == Init => OrderInv
<1> SUFFICES ASSUME Init PROVE OrderInv
  OBVIOUS
<1>1. SentCleared /\ PassesOpen
  BY DEF Init, SentCleared, PassesOpen
<1>2. TasksCleared
  BY DEF Init, TasksCleared, IdleAttempt
<1>3. RowsKnown
  BY DEF Init, RowsKnown, KnownIn
<1> QED
  BY <1>1, <1>2, <1>3 DEF OrderInv

\* The status and the lane that each row update leaves behind.
LEMMA RowUpdateFields ==
    /\ \A row \in EventRow, status \in EventStatus :
         Released(row, status).status = status
    /\ \A row \in EventRow : Aged(row).status = row.status
    /\ \A row \in DeliveryRow, status \in DeliveryStatus :
         /\ Released(row, status).status = status
         /\ Released(row, status).lane = row.lane
    /\ \A row \in DeliveryRow, delay \in 0 .. DelayBound :
         /\ Rescheduled(row, delay).status = "pending"
         /\ Rescheduled(row, delay).lane = row.lane
    /\ \A row \in DeliveryRow, i \in Instances :
         /\ ClaimedDeliveryRow(row, i).status = "processing"
         /\ ClaimedDeliveryRow(row, i).lane = row.lane
    /\ \A row \in DeliveryRow, lane \in Lanes :
         /\ ResetDeliveryRow(row, lane).status = "pending"
         /\ ResetDeliveryRow(row, lane).lane = lane
    /\ \A row \in DeliveryRow :
         /\ Aged(row).status = row.status
         /\ Aged(row).lane = row.lane
         /\ Renewed(row).status = row.status
         /\ Renewed(row).lane = row.lane
<1>1. ASSUME NEW row \in EventRow
      PROVE  /\ \A status \in EventStatus : Released(row, status).status = status
             /\ Aged(row).status = row.status
  BY DEF EventRow, Released, Aged
<1>2. ASSUME NEW row \in DeliveryRow
      PROVE  /\ \A status \in DeliveryStatus :
                  /\ Released(row, status).status = status
                  /\ Released(row, status).lane = row.lane
             /\ \A delay \in 0 .. DelayBound :
                  /\ Rescheduled(row, delay).status = "pending"
                  /\ Rescheduled(row, delay).lane = row.lane
             /\ \A i \in Instances :
                  /\ ClaimedDeliveryRow(row, i).status = "processing"
                  /\ ClaimedDeliveryRow(row, i).lane = row.lane
             /\ \A lane \in Lanes :
                  /\ ResetDeliveryRow(row, lane).status = "pending"
                  /\ ResetDeliveryRow(row, lane).lane = lane
             /\ Aged(row).status = row.status
             /\ Aged(row).lane = row.lane
             /\ Renewed(row).status = row.status
             /\ Renewed(row).lane = row.lane
  BY DEF DeliveryRow, Released, Rescheduled, ClaimedDeliveryRow,
         ResetDeliveryRow, Aged, Renewed
<1> QED
  BY <1>1, <1>2

\* A commit of a domain transaction: the new event is behind no cleared pass,
\* because later events of its aggregate are not visible yet.
LEMMA OrderPublish ==
    ASSUME TypeOK, TypeOK', OrderInv, NEW e \in Events, Publish(e)
    PROVE  OrderInv'
<1>1. /\ event[e].status = "absent"
      /\ \A x \in Events : x # e => event'[x] = event[x]
      /\ UNCHANGED <<delivery, batches, attempt, assigned, posted, settled>>
  BY DEF Publish, TypeOK, tasks, history
<1>2. ASSUME NEW q \in Passes, Cleared(q)
      PROVE  ClearedIn(q, assigned', settled', event', batches')
  <2>1. q[1][1] \in Events /\ q[2].batch \in Nat
    BY PassParts
  <2>2. event[q[1][1]].status = "completed"
    BY <1>2 DEF Cleared, ClearedIn
  <2>3. event'[q[1][1]].status = "completed"
    BY <1>1, <2>1, <2>2
  <2>4. q[2].batch = 0 => ~Behind(e, q)
    <3> SUFFICES ASSUME q[2].batch = 0, Behind(e, q) PROVE FALSE
      OBVIOUS
    <3>1. AggregateOf[q[1][1]] = AggregateOf[e] /\ q[1][1] > e
      BY <1>2, <2>1 DEF Cleared, ClearedIn, Behind, Events
    <3> QED
      BY <2>1, <2>2, <3>1 DEF Publish
  <2>5. \A x \in Events :
          Behind(x, q) /\ q[2].batch = 0 /\ event[x].status \notin Unsettled
            => event'[x].status \notin Unsettled
    BY <1>1, <2>4
  <2>6. batches \in Nat
    BY DEF TypeOK
  <2> HIDE DEF Behind
  <2> QED
    BY <1>1, <1>2, <2>1, <2>3, <2>5, <2>6, ClearedStable DEF Cleared
<1>3. SentCleared' /\ TasksCleared'
  BY <1>1, <1>2, CarriedOver DEF OrderInv
<1>4. PassesOpen'
  BY <1>1 DEF OrderInv, PassesOpen
<1>5. RowsKnown'
  <2> SUFFICES ASSUME NEW d \in Deliveries
               PROVE  KnownIn(d, delivery', event', batches')
    BY DEF RowsKnown
  <2>1. d[1] \in Events /\ KnownIn(d, delivery, event, batches)
    BY DeliveryParts DEF OrderInv, RowsKnown
  <2> QED
    BY <1>1, <2>1 DEF KnownIn
<1> QED
  BY <1>3, <1>4, <1>5 DEF OrderInv

\* Event rows that only move between unsettled and other states, while no
\* delivery or pass changes: claims, retries and dead letters of events.
LEMMA OrderEventUpdate ==
    ASSUME TypeOK, TypeOK', OrderInv,
           \A x \in Events :
             event'[x] = event[x] \/ event[x].status \in Unsettled,
           UNCHANGED <<delivery, batches, attempt, assigned, posted, settled>>
    PROVE  OrderInv'
<1>1. \A x \in Events : event[x].status \notin Unsettled => event'[x] = event[x]
  OBVIOUS
<1>2. ASSUME NEW q \in Passes, Cleared(q)
      PROVE  ClearedIn(q, assigned', settled', event', batches')
  <2>1. q[1][1] \in Events /\ q[2].batch \in Nat
    BY PassParts
  <2>2. event'[q[1][1]].status = "completed"
    BY <1>1, <1>2, <2>1 DEF Cleared, ClearedIn, Unsettled
  <2>3. batches \in Nat
    BY DEF TypeOK
  <2> QED
    BY <1>1, <1>2, <2>1, <2>2, <2>3, ClearedStable DEF Cleared
<1>3. SentCleared' /\ TasksCleared'
  BY <1>2, CarriedOver DEF OrderInv
<1>4. PassesOpen'
  BY DEF OrderInv, PassesOpen
<1>5. RowsKnown'
  <2> SUFFICES ASSUME NEW d \in Deliveries
               PROVE  KnownIn(d, delivery', event', batches')
    BY DEF RowsKnown
  <2>1. d[1] \in Events /\ KnownIn(d, delivery, event, batches)
    BY DeliveryParts DEF OrderInv, RowsKnown
  <2> QED
    BY <1>1, <2>1 DEF KnownIn, Unsettled
<1> QED
  BY <1>3, <1>4, <1>5 DEF OrderInv

\* expand_event: a new pass precedes no cleared pass, since its event was
\* unsettled until this transaction.
LEMMA OrderExpand ==
    ASSUME TypeOK, TypeOK', OrderInv, NEW i \in Instances, NEW e \in Events,
           ExpandEvent(i, e), EventLeaseHeld(i, e)
    PROVE  OrderInv'
<1>0. PICK omitted \in SUBSET Withholdable(e) :
        InsertRecipients(InsertedDeliveries(e, omitted))
  BY DEF ExpandEvent
<1> DEFINE inserted == InsertedDeliveries(e, omitted)
           new == {<<d, CurrentLane(d)>> : d \in inserted}
<1>1. /\ event[e].status = "processing"
      /\ event'[e].status = "completed"
      /\ \A x \in Events : x # e => event'[x] = event[x]
      /\ UNCHANGED <<batches, attempt, posted, settled>>
      /\ assigned' = assigned \cup new
  <2>1. event[e] \in EventRow
    BY DEF TypeOK
  <2>2. event' = [event EXCEPT ![e] = Released(@, "completed")]
    BY DEF ExpandEvent
  <2>3. event'[e].status = "completed"
    BY <2>1, <2>2, RowUpdateFields DEF TypeOK, EventStatus
  <2> QED
    BY <1>0, <2>2, <2>3
       DEF ExpandEvent, InsertRecipients, EventLeaseHeld, OwnsEvent, TypeOK
<1>2. \A d \in inserted :
        /\ d \in Deliveries
        /\ d[1] = e
        /\ delivery[d].status = "absent"
        /\ CurrentLane(d).batch = 0
        /\ CurrentLane(d).aggregate = AggregateOf[e]
  BY PipelineAssumption
     DEF InsertedDeliveries, Recipients, Deliveries, CurrentLane, OrdinaryLane
<1>3. \A d \in inserted :
        delivery'[d].status = "pending" /\ delivery'[d].lane = CurrentLane(d)
  BY <1>0, <1>2 DEF InsertRecipients
<1>4. \A d \in Deliveries :
        d \notin inserted => delivery'[d] = delivery[d]
  BY <1>0 DEF InsertRecipients
<1> HIDE DEF inserted, new
<1>5. ASSUME NEW q \in Passes, Cleared(q)
      PROVE  ClearedIn(q, assigned', settled', event', batches')
  <2>1. q[1][1] \in Events /\ q[2].batch \in Nat /\ batches \in Nat
    BY PassParts DEF TypeOK
  <2>2. event'[q[1][1]].status = "completed"
    BY <1>1, <1>5, <2>1 DEF Cleared, ClearedIn
  <2>3. q[2].batch = 0 => ~Behind(e, q)
    BY <1>1, <1>5 DEF Cleared, ClearedIn, Unsettled
  <2>4. \A p \in new : ~Ordered(p, q)
    <3> SUFFICES ASSUME NEW d \in inserted,
                        Ordered(<<d, CurrentLane(d)>>, q)
                 PROVE  FALSE
      BY DEF new
    <3>1. q[2] = CurrentLane(d) /\ e < q[1][1]
      BY <1>2 DEF Ordered
    <3>2. q[2].batch = 0 /\ OrganizationOf[e] = OrganizationOf[q[1][1]]
      BY <1>2, <3>1 DEF Ordered
    <3> QED
      BY <1>2, <2>3, <3>1, <3>2 DEF Behind
  <2>5. \A x \in Events :
          Behind(x, q) /\ q[2].batch = 0 /\ event[x].status \notin Unsettled
            => event'[x].status \notin Unsettled
    BY <1>1, <2>3
  <2>6. \A p \in assigned' : p \in assigned \/ ~Ordered(p, q)
    BY <1>1, <2>4
  <2> QED
    BY <1>1, <1>5, <2>1, <2>2, <2>5, <2>6, ClearedStable DEF Cleared
<1>6. SentCleared' /\ TasksCleared'
  BY <1>1, <1>5, CarriedOver DEF OrderInv
<1>7. PassesOpen'
  <2> SUFFICES ASSUME NEW p \in assigned' PROVE OpenIn(p, settled', delivery')
    BY DEF PassesOpen
  <2>1. CASE p \in new
    BY <1>3, <2>1 DEF new, OpenIn, Unsettled
  <2>2. CASE p \in assigned
    <3>1. OpenIn(p, settled, delivery) /\ p[1] \in Deliveries
      BY <2>2, PassParts DEF OrderInv, PassesOpen, TypeOK
    <3> QED
      BY <1>1, <1>2, <1>4, <3>1 DEF OpenIn, Unsettled
  <2> QED
    BY <1>1, <2>1, <2>2
<1>8. RowsKnown'
  <2> SUFFICES ASSUME NEW d \in Deliveries
               PROVE  KnownIn(d, delivery', event', batches')
    BY DEF RowsKnown
  <2>1. CASE d \in inserted
    <3>1. 0 <= batches'
      BY <1>1 DEF TypeOK
    <3> QED
      BY <1>1, <1>2, <1>3, <2>1, <3>1 DEF KnownIn
  <2>2. CASE d \notin inserted
    <3>1. d[1] \in Events /\ KnownIn(d, delivery, event, batches)
      BY DeliveryParts DEF OrderInv, RowsKnown
    <3> QED
      BY <1>1, <1>4, <2>2, <3>1 DEF KnownIn
  <2> QED
    BY <2>1, <2>2
<1> QED
  BY <1>6, <1>7, <1>8 DEF OrderInv

\* process_pool: the claim's two NOT EXISTS clauses are what clears a pass.
LEMMA OrderClaim ==
    ASSUME TypeOK, TypeOK', OrderInv, NEW i \in Instances,
           NEW batch \in SUBSET Deliveries, ClaimDeliveries(i, batch)
    PROVE  OrderInv'
<1>1. UNCHANGED <<event, batches, assigned, posted, settled>>
  BY DEF ClaimDeliveries, history
<1>2. \A d \in Deliveries :
        /\ d \notin batch => delivery'[d] = delivery[d]
        /\ d \in batch =>
             /\ delivery[d].status \in Unsettled
             /\ delivery'[d].status = "processing"
             /\ delivery'[d].lane = delivery[d].lane
  <2> SUFFICES ASSUME NEW d \in Deliveries
               PROVE  /\ d \notin batch => delivery'[d] = delivery[d]
                      /\ d \in batch =>
                           /\ delivery[d].status \in Unsettled
                           /\ delivery'[d].status = "processing"
                           /\ delivery'[d].lane = delivery[d].lane
    OBVIOUS
  <2>1. delivery[d] \in DeliveryRow
    BY DEF TypeOK
  <2> QED
    BY <2>1, RowUpdateFields
       DEF ClaimDeliveries, DeliveryClaimable, DeliveryDue, Unsettled
<1>3. ASSUME NEW d \in batch PROVE Cleared(<<d, delivery[d].lane>>)
  <2> DEFINE q == <<d, delivery[d].lane>>
  <2>1. /\ d \in Deliveries
        /\ d[1] \in Events
        /\ KnownIn(d, delivery, event, batches)
        /\ delivery[d].status # "absent"
    BY <1>2, DeliveryParts DEF OrderInv, RowsKnown, Unsettled
  <2>2. ~PriorUnexpandedEvent(d) /\ ~PriorDelivery(d)
    BY DEF ClaimDeliveries, DeliveryClaimable
  <2>3. ASSUME NEW p \in assigned, Ordered(p, q) PROVE p \in settled
    <3>1. OpenIn(p, settled, delivery) /\ p[1] \in Deliveries
      BY PassParts DEF OrderInv, PassesOpen, TypeOK
    <3> QED
      BY <2>2, <2>3, <3>1 DEF OpenIn, Ordered, PriorDelivery
  <2>4. ASSUME NEW e \in Events, Behind(e, q), q[2].batch = 0
        PROVE  event[e].status \notin Unsettled
    <3>1. AggregateOf[e] = AggregateOf[d[1]]
      BY <2>1, <2>4 DEF KnownIn, Behind
    <3> QED
      BY <2>2, <2>4, <3>1 DEF PriorUnexpandedEvent, Behind
  <2> QED
    BY <2>1, <2>3, <2>4 DEF Cleared, ClearedIn, KnownIn
<1>4. ASSUME NEW j \in Instances, NEW d \in Deliveries
      PROVE  \/ attempt'[j][d].phase = "idle"
             \/ /\ attempt[j][d].phase # "idle"
                /\ attempt'[j][d].lane = attempt[j][d].lane
             \/ Cleared(<<d, attempt'[j][d].lane>>)
  <2>1. CASE j # i
    BY <2>1 DEF ClaimDeliveries, TypeOK
  <2>2. CASE j = i /\ d \notin batch
    BY <2>2 DEF ClaimDeliveries, TypeOK, IdleAttempt
  <2>3. CASE j = i /\ d \in batch
    <3>1. attempt'[j][d].lane = delivery[d].lane
      BY <2>3 DEF ClaimDeliveries, TypeOK
    <3> QED
      BY <1>3, <2>3, <3>1
  <2> QED
    BY <2>1, <2>2, <2>3
<1>5. SentCleared' /\ TasksCleared'
  <2>1. \A q \in Passes : Cleared(q)
          => ClearedIn(q, assigned', settled', event', batches')
    BY <1>1, ClearedUnchanged
  <2> QED
    BY <1>1, <1>4, <2>1, CarriedOver
<1>6. PassesOpen'
  <2> SUFFICES ASSUME NEW p \in assigned PROVE OpenIn(p, settled', delivery')
    BY <1>1 DEF PassesOpen
  <2>1. OpenIn(p, settled, delivery) /\ p[1] \in Deliveries
    BY PassParts DEF OrderInv, PassesOpen, TypeOK
  <2> QED
    BY <1>1, <1>2, <2>1 DEF OpenIn, Unsettled
<1>7. RowsKnown'
  <2> SUFFICES ASSUME NEW d \in Deliveries
               PROVE  KnownIn(d, delivery', event', batches')
    BY DEF RowsKnown
  <2>1. KnownIn(d, delivery, event, batches)
    BY DEF OrderInv, RowsKnown
  <2> QED
    BY <1>1, <1>2, <2>1 DEF KnownIn, Unsettled
<1> QED
  BY <1>5, <1>6, <1>7 DEF OrderInv

\* Steps of a claimed task, of a crash and of time: events, passes and batches
\* stay, a row keeps its lane, and a row leaves the unsettled states only with
\* its pass recorded as settled.
LEMMA OrderRowUpdate ==
    ASSUME TypeOK, TypeOK', OrderInv,
           UNCHANGED <<batches, assigned>>,
           \A x \in Events : event'[x].status = event[x].status,
           settled \subseteq settled',
           \A d \in Deliveries :
             /\ delivery'[d].lane = delivery[d].lane
             /\ delivery[d].status = "absent" => delivery'[d].status = "absent"
             /\ \/ delivery'[d].status \in Unsettled
                \/ delivery'[d].status = delivery[d].status
                \/ <<d, delivery[d].lane>> \in settled',
           \A i \in Instances, d \in Deliveries :
             \/ attempt'[i][d].phase = "idle"
             \/ /\ attempt[i][d].phase # "idle"
                /\ attempt'[i][d].lane = attempt[i][d].lane,
           \A q \in posted' : q \in posted \/ Cleared(q)
    PROVE  OrderInv'
<1>1. ASSUME NEW q \in Passes, Cleared(q)
      PROVE  ClearedIn(q, assigned', settled', event', batches')
  <2>1. q[1][1] \in Events /\ q[2].batch \in Nat /\ batches \in Nat
    BY PassParts DEF TypeOK
  <2>2. event'[q[1][1]].status = "completed"
    BY <1>1, <2>1 DEF Cleared, ClearedIn
  <2> QED
    BY <1>1, <2>1, <2>2, ClearedStable DEF Cleared
<1>2. SentCleared' /\ TasksCleared'
  BY <1>1, CarriedOver
<1>3. PassesOpen'
  <2> SUFFICES ASSUME NEW p \in assigned PROVE OpenIn(p, settled', delivery')
    BY DEF PassesOpen
  <2>1. /\ OpenIn(p, settled, delivery)
        /\ p[1] \in Deliveries
        /\ p = <<p[1], p[2]>>
    BY PassParts DEF OrderInv, PassesOpen, TypeOK, Passes
  <2> QED
    BY <2>1 DEF OpenIn
<1>4. RowsKnown'
  <2> SUFFICES ASSUME NEW d \in Deliveries
               PROVE  KnownIn(d, delivery', event', batches')
    BY DEF RowsKnown
  <2>1. d[1] \in Events /\ KnownIn(d, delivery, event, batches)
    BY DeliveryParts DEF OrderInv, RowsKnown
  <2> QED
    BY <2>1 DEF KnownIn
<1> QED
  BY <1>2, <1>3, <1>4 DEF OrderInv

\* replay_dead_letters: a fresh batch is later than the lane of every cleared
\* pass, and the rows it takes have no open pass.
LEMMA OrderReplay ==
    ASSUME TypeOK, TypeOK', OrderInv, NEW a \in Applications,
           NEW selection \in SUBSET Deliveries, ReplayDeadLetters(a, selection)
    PROVE  OrderInv'
<1> DEFINE lane == ReplayLane(<<a, active[a]>>, batches + 1)
<1>1. /\ UNCHANGED <<event, attempt, posted, settled>>
      /\ batches' = batches + 1
      /\ assigned' = assigned \cup {<<d, lane>> : d \in selection}
      /\ batches \in Nat
  BY DEF ReplayDeadLetters, tasks, TypeOK
<1>2. lane.batch = batches + 1
  BY DEF ReplayLane
<1>3. lane \in Lanes
  <2>1. batches + 1 \in 0 .. MaxBatches
    BY PipelineAssumption DEF ReplayDeadLetters, TypeOK
  <2>2. <<a, active[a]>> \in Endpoints
    BY DEF Endpoints, TypeOK
  <2> QED
    BY <2>1, <2>2, ReplayLaneType
<1>4. \A d \in Deliveries :
        /\ d \notin selection => delivery'[d] = delivery[d]
        /\ d \in selection =>
             /\ delivery[d].status = "dead_letter"
             /\ delivery'[d].status = "pending"
             /\ delivery'[d].lane = lane
  <2> SUFFICES ASSUME NEW d \in Deliveries
               PROVE  /\ d \notin selection => delivery'[d] = delivery[d]
                      /\ d \in selection =>
                           /\ delivery[d].status = "dead_letter"
                           /\ delivery'[d].status = "pending"
                           /\ delivery'[d].lane = lane
    OBVIOUS
  <2>1. delivery[d] \in DeliveryRow
    BY DEF TypeOK
  <2>2. /\ ResetDeliveryRow(delivery[d], lane).status = "pending"
        /\ ResetDeliveryRow(delivery[d], lane).lane = lane
    BY <1>3, <2>1, RowUpdateFields
  <2> QED
    BY <2>2 DEF ReplayDeadLetters
<1> HIDE DEF lane
<1>5. ASSUME NEW q \in Passes, Cleared(q)
      PROVE  ClearedIn(q, assigned', settled', event', batches')
  <2>1. q[1][1] \in Events /\ q[2].batch \in Nat /\ q[2].batch <= batches
    BY <1>5, PassParts DEF Cleared, ClearedIn
  <2>2. \A p \in assigned' : p \in assigned \/ ~Ordered(p, q)
    BY <1>1, <1>2, <2>1 DEF Ordered
  <2>3. event'[q[1][1]].status = "completed"
    BY <1>1, <1>5 DEF Cleared, ClearedIn
  <2> QED
    BY <1>1, <1>5, <2>1, <2>2, <2>3, ClearedStable DEF Cleared
<1>6. SentCleared' /\ TasksCleared'
  BY <1>1, <1>5, CarriedOver DEF OrderInv
<1>7. PassesOpen'
  <2> SUFFICES ASSUME NEW p \in assigned' PROVE OpenIn(p, settled', delivery')
    BY DEF PassesOpen
  <2>1. CASE p \in assigned
    <3>1. OpenIn(p, settled, delivery) /\ p[1] \in Deliveries
      BY <2>1, PassParts DEF OrderInv, PassesOpen, TypeOK
    <3> QED
      BY <1>1, <1>4, <3>1 DEF OpenIn, Unsettled
  <2>2. CASE p \notin assigned
    BY <1>1, <1>4, <2>2 DEF OpenIn, Unsettled
  <2> QED
    BY <2>1, <2>2
<1>8. RowsKnown'
  <2> SUFFICES ASSUME NEW d \in Deliveries
               PROVE  KnownIn(d, delivery', event', batches')
    BY DEF RowsKnown
  <2>1. /\ KnownIn(d, delivery, event, batches)
        /\ delivery[d].lane.batch \in Nat
    BY PipelineAssumption DEF OrderInv, RowsKnown, TypeOK, DeliveryRow, Lanes
  <2> QED
    BY <1>1, <1>2, <1>4, <2>1 DEF KnownIn
<1> QED
  BY <1>6, <1>7, <1>8 DEF OrderInv

\* What one task step does to the tasks: the task keeps its lane or ends.
LEMMA TaskSteps ==
    ASSUME TypeOK, NEW i \in Instances, NEW d \in Deliveries,
           attempt[i][d].phase # "idle",
           \/ \E phase \in {"loaded", "accepted", "retryable", "rejected"} :
                SetPhase(i, d, phase)
           \/ StartPosting(i, d)
           \/ EndAttempt(i, d)
    PROVE  \A j \in Instances, x \in Deliveries :
             \/ attempt'[j][x].phase = "idle"
             \/ /\ attempt[j][x].phase # "idle"
                /\ attempt'[j][x].lane = attempt[j][x].lane
<1>1. attempt[i][d] \in AttemptTask
  BY DEF TypeOK
<1>2. /\ \A phase \in {"loaded", "accepted", "retryable", "rejected"} :
           WithPhase(attempt[i][d], phase).lane = attempt[i][d].lane
      /\ PostingTask(attempt[i][d]).lane = attempt[i][d].lane
  BY <1>1 DEF WithPhase, PostingTask, AttemptTask
<1>3. \A task : attempt' = [attempt EXCEPT ![i][d] = task] =>
        /\ attempt'[i][d] = task
        /\ \A j \in Instances, x \in Deliveries :
             attempt'[j][x] = attempt[j][x] \/ (j = i /\ x = d)
  BY DEF TypeOK
<1>4. IdleAttempt(d).phase = "idle"
  BY DEF IdleAttempt
<1>5. CASE \E phase \in {"loaded", "accepted", "retryable", "rejected"} :
             SetPhase(i, d, phase)
  <2>1. PICK phase \in {"loaded", "accepted", "retryable", "rejected"} :
          attempt' = [attempt EXCEPT ![i][d] = WithPhase(attempt[i][d], phase)]
    BY <1>5 DEF SetPhase, TypeOK
  <2> QED
    BY <1>2, <1>3, <2>1
<1>6. CASE StartPosting(i, d)
  <2>1. attempt' = [attempt EXCEPT ![i][d] = PostingTask(attempt[i][d])]
    BY <1>6 DEF StartPosting, TypeOK
  <2> QED
    BY <1>2, <1>3, <2>1
<1>7. CASE EndAttempt(i, d)
  BY <1>3, <1>4, <1>7 DEF EndAttempt
<1> QED
  BY <1>5, <1>6, <1>7

\* Every step of a delivery task keeps the ordering invariant.
LEMMA OrderDeliveryStep ==
    ASSUME TypeOK, TypeOK', OrderInv, NEW i \in Instances,
           NEW d \in Deliveries, DeliveryStep(i, d)
    PROVE  OrderInv'
<1>0. delivery[d] \in DeliveryRow
  BY DEF TypeOK
<1>1. attempt[i][d].phase # "idle" => Cleared(<<d, attempt[i][d].lane>>)
  BY DEF OrderInv, TasksCleared
<1>2. CASE LoadMaterial(i, d)
  <2>1. \A j \in Instances, x \in Deliveries :
          \/ attempt'[j][x].phase = "idle"
          \/ /\ attempt[j][x].phase # "idle"
             /\ attempt'[j][x].lane = attempt[j][x].lane
    BY <1>2, TaskSteps DEF LoadMaterial
  <2> QED
    BY <1>2, <2>1, OrderRowUpdate DEF LoadMaterial, rows, history
<1>3. CASE BeginAttempt(i, d)
  <2>1. \A j \in Instances, x \in Deliveries :
          \/ attempt'[j][x].phase = "idle"
          \/ /\ attempt[j][x].phase # "idle"
             /\ attempt'[j][x].lane = attempt[j][x].lane
    BY <1>3, TaskSteps DEF BeginAttempt
  <2>2. delivery' = delivery
        \/ delivery' = [delivery EXCEPT ![d] = Renewed(delivery[d])]
    BY <1>3 DEF BeginAttempt
  <2>r. /\ Renewed(delivery[d]).lane = delivery[d].lane
        /\ Renewed(delivery[d]).status = delivery[d].status
    BY <1>0, RowUpdateFields
  <2>3. \A x \in Deliveries : /\ delivery'[x].lane = delivery[x].lane
                              /\ delivery'[x].status = delivery[x].status
    BY <2>r, <2>2 DEF TypeOK
  <2> QED
    BY <1>3, <2>1, <2>3, OrderRowUpdate DEF BeginAttempt, history
<1>4. CASE Post(i, d)
  <2>1. \A j \in Instances, x \in Deliveries :
          \/ attempt'[j][x].phase = "idle"
          \/ /\ attempt[j][x].phase # "idle"
             /\ attempt'[j][x].lane = attempt[j][x].lane
    BY <1>4, TaskSteps DEF Post
  <2>2. \A q \in posted' : q \in posted \/ Cleared(q)
    BY <1>1, <1>4 DEF Post
  <2> QED
    BY <1>4, <2>1, <2>2, OrderRowUpdate DEF Post, rows
<1>5. CASE FinishSuccess(i, d)
  <2>1. \A j \in Instances, x \in Deliveries :
          \/ attempt'[j][x].phase = "idle"
          \/ /\ attempt[j][x].phase # "idle"
             /\ attempt'[j][x].lane = attempt[j][x].lane
    BY <1>5, TaskSteps DEF FinishSuccess
  <2>2. \/ UNCHANGED <<delivery, settled>>
        \/ /\ delivery[d].status = "processing"
           /\ delivery' = [delivery EXCEPT ![d] =
                             Released(delivery[d], "delivered")]
           /\ settled' = settled \cup {<<d, delivery[d].lane>>}
    BY <1>5 DEF FinishSuccess, OwnsDelivery
  <2>3. /\ Released(delivery[d], "delivered").lane = delivery[d].lane
        /\ settled \subseteq settled'
    BY <1>0, <2>2, RowUpdateFields DEF DeliveryStatus
  <2>4. \A x \in Deliveries :
          /\ delivery'[x].lane = delivery[x].lane
          /\ delivery[x].status = "absent" => delivery'[x].status = "absent"
          /\ \/ delivery'[x].status \in Unsettled
             \/ delivery'[x].status = delivery[x].status
             \/ <<x, delivery[x].lane>> \in settled'
    BY <2>2, <2>3 DEF TypeOK
  <2> QED
    BY <1>5, <2>1, <2>3, <2>4, OrderRowUpdate DEF FinishSuccess
<1>6. CASE FinishFailure(i, d)
  <2>1. \A j \in Instances, x \in Deliveries :
          \/ attempt'[j][x].phase = "idle"
          \/ /\ attempt[j][x].phase # "idle"
             /\ attempt'[j][x].lane = attempt[j][x].lane
    BY <1>6, TaskSteps DEF FinishFailure
  <2>d. \A jitter \in JitterPercents :
          RetryDelay(attempt[i][d].cycle, jitter) \in 0 .. DelayBound
    BY RetryDelayType DEF TypeOK, AttemptTask
  <2>2. \/ UNCHANGED <<delivery, settled>>
        \/ /\ delivery[d].status = "processing"
           /\ delivery' = [delivery EXCEPT ![d] =
                             Released(delivery[d], "dead_letter")]
           /\ settled' = settled \cup {<<d, delivery[d].lane>>}
        \/ /\ delivery[d].status = "processing"
           /\ \E delay \in 0 .. DelayBound :
                delivery' = [delivery EXCEPT ![d] =
                               Rescheduled(delivery[d], delay)]
           /\ UNCHANGED settled
    BY <1>6, <2>d DEF FinishFailure, OwnsDelivery
  <2>3. /\ Released(delivery[d], "dead_letter").lane = delivery[d].lane
        /\ \A delay \in 0 .. DelayBound :
             /\ Rescheduled(delivery[d], delay).lane = delivery[d].lane
             /\ Rescheduled(delivery[d], delay).status = "pending"
        /\ settled \subseteq settled'
    BY <1>0, <2>2, RowUpdateFields DEF DeliveryStatus
  <2>4. \A x \in Deliveries :
          /\ delivery'[x].lane = delivery[x].lane
          /\ delivery[x].status = "absent" => delivery'[x].status = "absent"
          /\ \/ delivery'[x].status \in Unsettled
             \/ delivery'[x].status = delivery[x].status
             \/ <<x, delivery[x].lane>> \in settled'
    BY <2>2, <2>3 DEF TypeOK, Unsettled
  <2> QED
    BY <1>6, <2>1, <2>3, <2>4, OrderRowUpdate DEF FinishFailure
<1>7. CASE AbandonDelivery(i, d)
  <2>1. \A j \in Instances, x \in Deliveries :
          \/ attempt'[j][x].phase = "idle"
          \/ /\ attempt[j][x].phase # "idle"
             /\ attempt'[j][x].lane = attempt[j][x].lane
    BY <1>7, TaskSteps DEF AbandonDelivery
  <2> QED
    BY <1>7, <2>1, OrderRowUpdate DEF AbandonDelivery, rows, history
<1> QED
  BY <1>2, <1>3, <1>4, <1>5, <1>6, <1>7 DEF DeliveryStep

\* Every step of the pipeline keeps the ordering invariant.
LEMMA OrderNext == TypeOK /\ OrderInv /\ [Next]_vars => OrderInv'
<1> SUFFICES ASSUME TypeOK, OrderInv, [Next]_vars PROVE OrderInv'
  OBVIOUS
<1>0. TypeOK'
  BY TypeNext
<1>1. ASSUME NEW e \in Events, Publish(e) PROVE OrderInv'
  BY <1>0, <1>1, OrderPublish
<1>2. ASSUME NEW i \in Instances, NEW batch \in SUBSET Events,
             ClaimEvents(i, batch)
      PROVE  OrderInv'
  <2>1. \A x \in Events : event'[x] = event[x] \/ event[x].status \in Unsettled
    BY <1>2 DEF ClaimEvents, EventClaimable, Unsettled
  <2> QED
    BY <1>0, <1>2, <2>1, OrderEventUpdate DEF ClaimEvents, history
<1>3. ASSUME NEW i \in Instances, NEW e \in Events, ExpansionStep(i, e)
      PROVE  OrderInv'
  <2>1. CASE ExpandEvent(i, e) /\ EventLeaseHeld(i, e)
    BY <1>0, <2>1, OrderExpand
  <2>2. CASE ExpandEvent(i, e) /\ ~EventLeaseHeld(i, e)
    BY <1>0, <2>2, OrderEventUpdate DEF ExpandEvent
  <2>3. CASE ExpandError(i, e) \/ AbandonEvent(i, e)
    BY <1>0, <2>3, OrderEventUpdate DEF ExpandError, AbandonEvent, rows, history
  <2>4. CASE MarkFailure(i, e)
    <3>1. \A x \in Events :
            event'[x] = event[x] \/ event[x].status \in Unsettled
      BY <2>4 DEF MarkFailure, OwnsEvent, Unsettled, TypeOK
    <3> QED
      BY <1>0, <2>4, <3>1, OrderEventUpdate DEF MarkFailure, history
  <2> QED
    BY <1>3, <2>1, <2>2, <2>3, <2>4 DEF ExpansionStep
<1>4. ASSUME NEW i \in Instances, NEW batch \in SUBSET Deliveries,
             ClaimDeliveries(i, batch)
      PROVE  OrderInv'
  BY <1>0, <1>4, OrderClaim
<1>5. ASSUME NEW i \in Instances, NEW d \in Deliveries, DeliveryStep(i, d)
      PROVE  OrderInv'
  BY <1>0, <1>5, OrderDeliveryStep
<1>6. ASSUME NEW a \in Applications, ActivateEndpoint(a) PROVE OrderInv'
  BY <1>0, <1>6, OrderEventUpdate DEF ActivateEndpoint, tasks, history
<1>7. ASSUME NEW a \in Applications, NEW selection \in SUBSET Deliveries,
             ReplayDeadLetters(a, selection)
      PROVE  OrderInv'
  BY <1>0, <1>7, OrderReplay
<1>8. ASSUME NEW i \in Instances, Crash(i) PROVE OrderInv'
  <2>1. \A j \in Instances, x \in Deliveries :
          \/ attempt'[j][x].phase = "idle"
          \/ /\ attempt[j][x].phase # "idle"
             /\ attempt'[j][x].lane = attempt[j][x].lane
    BY <1>8 DEF Crash, IdleAttempt, TypeOK
  <2> QED
    BY <1>0, <1>8, <2>1, OrderRowUpdate DEF Crash, rows, history
<1>9. CASE Tick
  <2>1. \A x \in Events : event'[x].status = event[x].status
    BY <1>9, RowUpdateFields DEF Tick, TypeOK
  <2>2. \A x \in Deliveries : /\ delivery'[x].lane = delivery[x].lane
                              /\ delivery'[x].status = delivery[x].status
    BY <1>9, RowUpdateFields DEF Tick, TypeOK
  <2>3. ASSUME NEW j \in Instances, NEW x \in Deliveries
        PROVE  /\ attempt'[j][x].phase = attempt[j][x].phase
               /\ attempt'[j][x].lane = attempt[j][x].lane
    <3>1. attempt[j][x] \in AttemptTask /\ attempt'[j][x] = Elapsed(attempt[j][x])
      BY <1>9 DEF Tick, TypeOK
    <3> QED
      BY <3>1 DEF Elapsed, AttemptTask
  <2> QED
    BY <1>0, <1>9, <2>1, <2>2, <2>3, OrderRowUpdate DEF Tick, history
<1>10. ASSUME NEW a \in Applications, SuspendApplication(a) PROVE OrderInv'
  <2>1. \A x \in Deliveries :
          /\ x \in Cancellable(a) =>
               /\ delivery[x].status \in Unsettled
               /\ delivery'[x] = Released(delivery[x], "cancelled")
               /\ <<x, delivery[x].lane>> \in settled'
          /\ x \notin Cancellable(a) => delivery'[x] = delivery[x]
    BY <1>10 DEF SuspendApplication, Cancellable
  <2>2. \A x \in Deliveries :
          Released(delivery[x], "cancelled").lane = delivery[x].lane
    BY RowUpdateFields DEF TypeOK, DeliveryStatus
  <2>3. \A x \in Deliveries :
          /\ delivery'[x].lane = delivery[x].lane
          /\ delivery[x].status = "absent" => delivery'[x].status = "absent"
          /\ \/ delivery'[x].status \in Unsettled
             \/ delivery'[x].status = delivery[x].status
             \/ <<x, delivery[x].lane>> \in settled'
    BY <2>1, <2>2 DEF Unsettled
  <2>4. settled \subseteq settled'
    BY <1>10 DEF SuspendApplication
  <2> QED
    BY <1>0, <1>10, <2>3, <2>4, OrderRowUpdate DEF SuspendApplication, tasks
<1>11. ASSUME NEW a \in Applications, ReactivateApplication(a) PROVE OrderInv'
  BY <1>0, <1>11, OrderEventUpdate DEF ReactivateApplication, tasks, history
<1>12. CASE UNCHANGED vars
  BY <1>0, <1>12, OrderEventUpdate DEF vars
<1> QED
  BY <1>1, <1>2, <1>3, <1>4, <1>5, <1>6, <1>7, <1>8, <1>9, <1>10, <1>11, <1>12
     DEF Next

\* Ordered delivery of the worker, for every number of instances, events,
\* destinations and replays, and without any assumption on how long a process
\* stalls: no later request of a lane precedes an earlier delivery's outcome.
THEOREM LaneOrderHolds == Spec => []LaneOrder
<1>1. OrderInv => LaneOrder
  BY DEF OrderInv, SentCleared, Cleared, ClearedIn, LaneOrder
<1> QED
  BY <1>1, TypeInit, TypeNext, OrderInit, OrderNext, PTL DEF Spec

----------------------------------------------------------------------------
(***************************************************************************)
(* Recorded outcomes.  A worker records what it did without looking at the *)
(* lane again: the updates name the lease owner alone.  That this is       *)
(* enough rests on FenceInv: while an instance still has a task for a row  *)
(* that it owns, the row is in the lane it was claimed in, because a row   *)
(* changes lanes only when nobody owns it and an instance claims nothing   *)
(* before its last cycle has ended.                                        *)
(***************************************************************************)

FenceInv ==
    \A i \in Instances, d \in Deliveries :
        attempt[i][d].phase # "idle" /\ OwnsDelivery(i, d)
          => delivery[d].lane = attempt[i][d].lane

AcceptedAcknowledged ==
    \A i \in Instances, d \in Deliveries :
        attempt[i][d].phase = "accepted"
          => <<d, attempt[i][d].lane>> \in acknowledged

OutcomeInv == FenceInv /\ AcceptedAcknowledged /\ DeliveredIsAcknowledged

\* What a step may make of a delivery row: nothing, a claim, a retry or an end
\* without success, a success, and a pass in a new lane.
SameRow(x) ==
    /\ delivery'[x].status = delivery[x].status
    /\ delivery'[x].owner = delivery[x].owner
    /\ delivery'[x].lane = delivery[x].lane
ClaimedRow(x) ==
    /\ delivery[x].status \in Unsettled
    /\ delivery'[x].status = "processing"
    /\ delivery'[x].lane = delivery[x].lane
    /\ \A i \in Instances :
         delivery'[x].owner = i => attempt'[i][x].lane = delivery[x].lane
GivenUpRow(x) ==
    /\ delivery[x].status \in Unsettled
    /\ delivery'[x].status \in {"pending", "dead_letter", "cancelled"}
    /\ delivery'[x].lane = delivery[x].lane
DeliveredRow(x) ==
    /\ \E i \in Instances : attempt[i][x].phase = "accepted" /\ OwnsDelivery(i, x)
    /\ delivery'[x].status = "delivered"
    /\ delivery'[x].lane = delivery[x].lane
NewPassRow(x) ==
    /\ delivery'[x].status = "pending"
    /\ \/ /\ delivery[x].status = "absent"
          /\ event[x[1]].status = "processing" /\ event'[x[1]].status = "completed"
       \/ /\ delivery[x].status = "dead_letter"
          /\ delivery'[x].lane.batch > delivery[x].lane.batch

RowMoves(x) ==
    SameRow(x) \/ ClaimedRow(x) \/ GivenUpRow(x) \/ DeliveredRow(x) \/ NewPassRow(x)

\* What a step may make of a task: nothing or its end, progress, a claim.
TaskMoves(j, x) ==
    \/ attempt'[j][x].phase = "idle"
    \/ /\ attempt[j][x].phase # "idle"
       /\ attempt'[j][x].lane = attempt[j][x].lane
       /\ attempt'[j][x].phase = "accepted" =>
            attempt[j][x].phase = "accepted" \/ <<x, attempt[j][x].lane>> \in acknowledged'
    \/ /\ attempt'[j][x].phase = "claimed"
       /\ attempt'[j][x].lane = delivery'[x].lane

EventMoves ==
    /\ \A e \in Events :
         event'[e].status = event[e].status \/ event[e].status \in {"absent"} \cup Unsettled
    /\ acknowledged \subseteq acknowledged'

StepMoves ==
    /\ \A x \in Deliveries : RowMoves(x)
    /\ \A j \in Instances, x \in Deliveries : TaskMoves(j, x)
    /\ EventMoves

\* Steps of these kinds keep the fence and with it what a success means.
LEMMA MovesKeep ==
    ASSUME TypeOK, OutcomeInv, StepMoves
    PROVE  OutcomeInv'
<1>1. FenceInv'
  <2> SUFFICES ASSUME NEW i \in Instances, NEW d \in Deliveries,
                      attempt'[i][d].phase # "idle", delivery'[d].status = "processing",
                      delivery'[d].owner = i
               PROVE  delivery'[d].lane = attempt'[i][d].lane
    BY DEF FenceInv, OwnsDelivery
  <2>1. TaskMoves(i, d) /\ RowMoves(d) BY DEF StepMoves
  <2>2. ClaimedRow(d) \/ SameRow(d)
    BY <2>1 DEF RowMoves, GivenUpRow, DeliveredRow, NewPassRow
  <2>3. CASE ClaimedRow(d) BY <2>3 DEF ClaimedRow
  <2>4. CASE SameRow(d)
    BY <2>1, <2>4 DEF SameRow, TaskMoves, OutcomeInv, FenceInv, OwnsDelivery
  <2> QED BY <2>2, <2>3, <2>4
<1>2. AcceptedAcknowledged'
  <2> SUFFICES ASSUME NEW i \in Instances, NEW d \in Deliveries,
                      attempt'[i][d].phase = "accepted"
               PROVE  <<d, attempt'[i][d].lane>> \in acknowledged'
    BY DEF AcceptedAcknowledged
  <2>1. TaskMoves(i, d) /\ acknowledged \subseteq acknowledged'
    BY DEF StepMoves, EventMoves
  <2> QED BY <2>1 DEF TaskMoves, OutcomeInv, AcceptedAcknowledged
<1>3. DeliveredIsAcknowledged'
  <2> SUFFICES ASSUME NEW d \in Deliveries, delivery'[d].status = "delivered"
               PROVE  <<d, delivery'[d].lane>> \in acknowledged'
    BY DEF DeliveredIsAcknowledged
  <2>1. RowMoves(d) /\ acknowledged \subseteq acknowledged'
    BY DEF StepMoves, EventMoves
  <2>2. SameRow(d) \/ DeliveredRow(d)
    BY <2>1 DEF RowMoves, ClaimedRow, GivenUpRow, NewPassRow
  <2>3. CASE SameRow(d)
    BY <2>1, <2>3 DEF SameRow, OutcomeInv, DeliveredIsAcknowledged
  <2>4. CASE DeliveredRow(d)
    BY <2>1, <2>4 DEF DeliveredRow, OutcomeInv, FenceInv, AcceptedAcknowledged
  <2> QED BY <2>2, <2>3, <2>4
<1> QED BY <1>1, <1>2, <1>3 DEF OutcomeInv

\* Steps of these kinds overwrite no recorded outcome.
LEMMA MovesFinal ==
    ASSUME StepMoves
    PROVE  OutcomesFinalStep
<1>1. \A e \in Events : event[e].status \in {"completed", "dead_letter"}
        => event'[e].status = event[e].status
  BY DEF StepMoves, EventMoves, Unsettled
<1>2. ASSUME NEW d \in Deliveries
      PROVE  /\ delivery[d].status \in {"delivered", "cancelled"}
                  => delivery'[d].status = delivery[d].status
             /\ delivery[d].status = "dead_letter"
                  => \/ delivery'[d].status = "dead_letter"
                     \/ /\ delivery'[d].status = "pending"
                        /\ delivery'[d].lane.batch > delivery[d].lane.batch
  <2>1. RowMoves(d) BY DEF StepMoves
  <2> QED
    BY <2>1 DEF RowMoves, SameRow, ClaimedRow, GivenUpRow, DeliveredRow, NewPassRow,
       OwnsDelivery, Unsettled
<1> QED BY <1>1, <1>2 DEF OutcomesFinalStep

\* Steps that leave the delivery rows alone and start no task.
LEMMA QuietMoves ==
    ASSUME \A x \in Deliveries : SameRow(x),
           \A j \in Instances, x \in Deliveries :
             \/ attempt'[j][x].phase = "idle"
             \/ /\ attempt[j][x].phase # "idle"
                /\ attempt'[j][x].lane = attempt[j][x].lane
                /\ attempt'[j][x].phase = "accepted" =>
                     attempt[j][x].phase = "accepted" \/ <<x, attempt[j][x].lane>> \in acknowledged',
           EventMoves
    PROVE  StepMoves
  BY DEF StepMoves, RowMoves, TaskMoves

\* The owner that each row update leaves behind.
LEMMA RowUpdateOwners ==
    \A row \in DeliveryRow :
      /\ Aged(row).owner = row.owner
      /\ Renewed(row).owner = row.owner
      /\ \A i \in Instances : ClaimedDeliveryRow(row, i).owner = i
  BY DEF DeliveryRow, Aged, Renewed, ClaimedDeliveryRow

\* A claim: the instance had no task, and each new task is in its row's lane.
LEMMA ClaimMoves ==
    ASSUME TypeOK, NEW i \in Instances, NEW batch \in SUBSET Deliveries,
           ClaimDeliveries(i, batch)
    PROVE  StepMoves
<1>1. UNCHANGED <<event, acknowledged>>
  BY DEF ClaimDeliveries, history
<1>2. \A x \in Deliveries :
        /\ x \notin batch => delivery'[x] = delivery[x] /\ attempt'[i][x].phase = "idle"
        /\ x \in batch =>
             /\ delivery[x].status \in Unsettled
             /\ delivery'[x].status = "processing"
             /\ delivery'[x].lane = delivery[x].lane
             /\ delivery'[x].owner = i
             /\ attempt'[i][x].phase = "claimed"
             /\ attempt'[i][x].lane = delivery[x].lane
  <2> SUFFICES ASSUME NEW x \in Deliveries
               PROVE  /\ x \notin batch => delivery'[x] = delivery[x]
                                           /\ attempt'[i][x].phase = "idle"
                      /\ x \in batch =>
                           /\ delivery[x].status \in Unsettled
                           /\ delivery'[x].status = "processing"
                           /\ delivery'[x].lane = delivery[x].lane
                           /\ delivery'[x].owner = i
                           /\ attempt'[i][x].phase = "claimed"
                           /\ attempt'[i][x].lane = delivery[x].lane
    OBVIOUS
  <2>1. delivery[x] \in DeliveryRow
    BY DEF TypeOK
  <2>2. x \in batch => delivery'[x] = ClaimedDeliveryRow(delivery[x], i)
    BY DEF ClaimDeliveries
  <2>3. /\ x \notin batch => delivery'[x] = delivery[x] /\ attempt'[i][x] = IdleAttempt(x)
        /\ x \in batch => /\ attempt'[i][x].phase = "claimed"
                          /\ attempt'[i][x].lane = delivery[x].lane
    BY DEF ClaimDeliveries, TypeOK
  <2>4. x \in batch => delivery[x].status \in Unsettled
    BY DEF ClaimDeliveries, DeliveryClaimable, DeliveryDue, Unsettled
  <2> QED BY <2>1, <2>2, <2>3, <2>4, RowUpdateFields, RowUpdateOwners DEF IdleAttempt
<1>3. ASSUME NEW j \in Instances, NEW x \in Deliveries, j # i
      PROVE  attempt'[j][x] = attempt[j][x]
  BY <1>3 DEF ClaimDeliveries, TypeOK
<1>4. \A x \in Deliveries : RowMoves(x)
  BY <1>2 DEF RowMoves, SameRow, ClaimedRow
<1>5. \A j \in Instances, x \in Deliveries : TaskMoves(j, x)
  BY <1>2, <1>3 DEF TaskMoves
<1> QED BY <1>1, <1>4, <1>5 DEF StepMoves, EventMoves

\* A replay opens a lane whose batch is newer than every other.
LEMMA ReplayMoves ==
    ASSUME TypeOK, OrderInv, NEW a \in Applications, NEW selection \in SUBSET Deliveries,
           ReplayDeadLetters(a, selection)
    PROVE  StepMoves
<1> DEFINE lane == ReplayLane(<<a, active[a]>>, batches + 1)
<1>1. UNCHANGED <<event, attempt, acknowledged>>
  BY DEF ReplayDeadLetters, tasks
<1>2. lane \in Lanes /\ lane.batch = batches + 1 /\ batches \in Nat
  <2>1. batches + 1 \in 0 .. MaxBatches
    BY PipelineAssumption DEF ReplayDeadLetters, TypeOK
  <2>2. <<a, active[a]>> \in Endpoints
    BY DEF Endpoints, TypeOK
  <2> QED
    BY <2>1, <2>2, ReplayLaneType DEF ReplayLane, TypeOK
<1> HIDE DEF lane
<1>3. ASSUME NEW x \in Deliveries PROVE RowMoves(x)
  <2>1. delivery[x] \in DeliveryRow
    BY DEF TypeOK
  <2>2. CASE x \in selection
    <3>1. /\ delivery[x].status = "dead_letter"
          /\ delivery'[x] = ResetDeliveryRow(delivery[x], lane)
      BY <2>2 DEF ReplayDeadLetters, lane
    <3>2. delivery[x].lane.batch <= batches
      BY <3>1 DEF OrderInv, RowsKnown, KnownIn
    <3>3. delivery[x].lane.batch \in Nat
      BY <2>1, PipelineAssumption DEF DeliveryRow, Lanes
    <3> QED
      BY <1>2, <2>1, <3>1, <3>2, <3>3, RowUpdateFields DEF RowMoves, NewPassRow
  <2>3. CASE x \notin selection
    BY <2>3 DEF ReplayDeadLetters, RowMoves, SameRow
  <2> QED BY <2>2, <2>3
<1>4. \A j \in Instances, x \in Deliveries : TaskMoves(j, x)
  BY <1>1 DEF TaskMoves
<1> QED BY <1>1, <1>3, <1>4 DEF StepMoves, EventMoves

\* A step of one task: its own row alone may change.
LEMMA TaskStepMoves ==
    ASSUME TypeOK, NEW i \in Instances, NEW d \in Deliveries, DeliveryStep(i, d)
    PROVE  StepMoves
<1>0. delivery[d] \in DeliveryRow /\ attempt[i][d] \in AttemptTask
  BY DEF TypeOK
<1>1. UNCHANGED event /\ acknowledged \subseteq acknowledged'
  BY DEF DeliveryStep, LoadMaterial, BeginAttempt, Post, FinishSuccess, FinishFailure,
         AbandonDelivery, rows, history
<1>2. ASSUME NEW j \in Instances, NEW x \in Deliveries PROVE TaskMoves(j, x)
  <2>1. \/ \E phase \in {"loaded", "accepted", "retryable", "rejected"} :
             /\ SetPhase(i, d, phase)
             /\ phase = "accepted" => <<d, attempt[i][d].lane>> \in acknowledged'
        \/ StartPosting(i, d)
        \/ EndAttempt(i, d)
    BY DEF DeliveryStep, LoadMaterial, BeginAttempt, Post, FinishSuccess, FinishFailure,
           AbandonDelivery
  <2>2. attempt[i][d].phase # "idle"
    BY DEF DeliveryStep, LoadMaterial, BeginAttempt, Post, FinishSuccess, FinishFailure,
           AbandonDelivery
  <2>3. \A task : attempt' = [attempt EXCEPT ![i][d] = task] =>
          attempt'[i][d] = task /\ (attempt'[j][x] = attempt[j][x] \/ (j = i /\ x = d))
    BY DEF TypeOK
  <2>4. CASE EndAttempt(i, d)
    BY <2>3, <2>4 DEF EndAttempt, IdleAttempt, TaskMoves
  <2>5. CASE StartPosting(i, d)
    <3>1. attempt' = [attempt EXCEPT ![i][d] = PostingTask(attempt[i][d])]
      BY <2>5 DEF StartPosting, TypeOK
    <3>2. /\ PostingTask(attempt[i][d]).phase = "posting"
          /\ PostingTask(attempt[i][d]).lane = attempt[i][d].lane
      BY <1>0 DEF PostingTask, AttemptTask
    <3> QED BY <2>2, <2>3, <3>1, <3>2 DEF TaskMoves
  <2>6. ASSUME NEW phase \in {"loaded", "accepted", "retryable", "rejected"},
               SetPhase(i, d, phase),
               phase = "accepted" => <<d, attempt[i][d].lane>> \in acknowledged'
        PROVE  TaskMoves(j, x)
    <3>1. attempt' = [attempt EXCEPT ![i][d] = WithPhase(attempt[i][d], phase)]
      BY <2>6 DEF SetPhase, TypeOK
    <3>2. /\ WithPhase(attempt[i][d], phase).phase = phase
          /\ WithPhase(attempt[i][d], phase).lane = attempt[i][d].lane
      BY <1>0 DEF WithPhase, AttemptTask
    <3> QED BY <2>2, <2>3, <2>6, <3>1, <3>2 DEF TaskMoves
  <2> QED BY <2>1, <2>4, <2>5, <2>6
<1>3. \A row : delivery' = [delivery EXCEPT ![d] = row] =>
        /\ delivery'[d] = row
        /\ \A x \in Deliveries : x # d => delivery'[x] = delivery[x]
  BY DEF TypeOK
<1>4. ASSUME RowMoves(d), \E row : delivery' = [delivery EXCEPT ![d] = row]
      PROVE  \A x \in Deliveries : RowMoves(x)
  BY <1>3, <1>4 DEF RowMoves, SameRow
<1>5. CASE UNCHANGED delivery
  <2>1. \A x \in Deliveries : RowMoves(x)
    BY <1>5 DEF RowMoves, SameRow
  <2> QED BY <1>1, <1>2, <2>1 DEF StepMoves, EventMoves
<1>6. CASE delivery' = [delivery EXCEPT ![d] = Renewed(delivery[d])]
  <2>1. delivery'[d] = Renewed(delivery[d])
    BY <1>3, <1>6
  <2>2. SameRow(d)
    BY <1>0, <2>1, RowUpdateFields, RowUpdateOwners DEF SameRow
  <2>3. RowMoves(d)
    BY <2>2 DEF RowMoves
  <2> QED BY <1>1, <1>2, <1>4, <1>6, <2>3 DEF StepMoves, EventMoves
<1>7. CASE /\ attempt[i][d].phase = "accepted" /\ OwnsDelivery(i, d)
           /\ delivery' = [delivery EXCEPT ![d] = Released(delivery[d], "delivered")]
  <2>1. delivery'[d] = Released(delivery[d], "delivered")
    BY <1>3, <1>7
  <2>2. delivery'[d].status = "delivered" /\ delivery'[d].lane = delivery[d].lane
    BY <1>0, <2>1, RowUpdateFields DEF DeliveryStatus
  <2>3. RowMoves(d)
    BY <1>7, <2>2 DEF RowMoves, DeliveredRow
  <2> QED BY <1>1, <1>2, <1>4, <1>7, <2>3 DEF StepMoves, EventMoves
<1>8. CASE /\ OwnsDelivery(i, d)
           /\ delivery' = [delivery EXCEPT ![d] = Released(delivery[d], "dead_letter")]
  <2>1. delivery'[d] = Released(delivery[d], "dead_letter")
    BY <1>3, <1>8
  <2>2. delivery'[d].status = "dead_letter" /\ delivery'[d].lane = delivery[d].lane
    BY <1>0, <2>1, RowUpdateFields DEF DeliveryStatus
  <2>3. RowMoves(d)
    BY <1>8, <2>2 DEF RowMoves, GivenUpRow, OwnsDelivery, Unsettled
  <2> QED BY <1>1, <1>2, <1>4, <1>8, <2>3 DEF StepMoves, EventMoves
<1>9. ASSUME NEW delay \in 0 .. DelayBound, OwnsDelivery(i, d),
             delivery' = [delivery EXCEPT ![d] = Rescheduled(delivery[d], delay)]
      PROVE  StepMoves
  <2>1. delivery'[d] = Rescheduled(delivery[d], delay)
    BY <1>3, <1>9
  <2>2. delivery'[d].status = "pending" /\ delivery'[d].lane = delivery[d].lane
    BY <1>0, <2>1, RowUpdateFields
  <2>3. RowMoves(d)
    BY <1>9, <2>2 DEF RowMoves, GivenUpRow, OwnsDelivery, Unsettled
  <2> QED BY <1>1, <1>2, <1>4, <1>9, <2>3 DEF StepMoves, EventMoves
<1>10. CASE FinishFailure(i, d)
  <2>1. \A jitter \in JitterPercents :
          RetryDelay(attempt[i][d].cycle, jitter) \in 0 .. DelayBound
    BY RetryDelayType DEF TypeOK, AttemptTask
  <2> QED BY <1>5, <1>8, <1>9, <1>10, <2>1 DEF FinishFailure
<1>11. CASE FinishSuccess(i, d)
  BY <1>5, <1>7, <1>11 DEF FinishSuccess
<1>12. CASE BeginAttempt(i, d)
  BY <1>5, <1>6, <1>12 DEF BeginAttempt
<1>13. CASE LoadMaterial(i, d) \/ Post(i, d) \/ AbandonDelivery(i, d)
  BY <1>5, <1>13 DEF LoadMaterial, Post, AbandonDelivery, rows
<1> QED BY <1>10, <1>11, <1>12, <1>13 DEF DeliveryStep

\* expand_event: rows that did not exist, of an event that is being expanded.
LEMMA ExpandMoves ==
    ASSUME TypeOK, NEW i \in Instances, NEW e \in Events, ExpansionStep(i, e)
    PROVE  StepMoves
<1>0. event[e] \in EventRow
  BY DEF TypeOK
<1>1. UNCHANGED <<attempt, acknowledged>>
  BY DEF ExpansionStep, ExpandEvent, ExpandError, MarkFailure, AbandonEvent, history
<1>2. \A j \in Instances, x \in Deliveries : TaskMoves(j, x)
  BY <1>1 DEF TaskMoves
<1>3. \A x \in Events : event'[x] = event[x] \/ event[x].status \in Unsettled
  BY DEF ExpansionStep, ExpandEvent, ExpandError, MarkFailure, AbandonEvent, rows,
         EventLeaseHeld, OwnsEvent, Unsettled, TypeOK
<1>4. ASSUME NEW x \in Deliveries PROVE RowMoves(x)
  <2>1. CASE UNCHANGED delivery
    BY <2>1 DEF RowMoves, SameRow
  <2>2. CASE ExpandEvent(i, e) /\ EventLeaseHeld(i, e)
    <3>1. PICK omitted \in SUBSET Withholdable(e) :
            InsertRecipients(InsertedDeliveries(e, omitted))
      BY <2>2 DEF ExpandEvent
    <3>0. event'[e].status = "completed"
      BY <1>0, <2>2, RowUpdateFields DEF ExpandEvent, EventStatus, TypeOK
    <3>2. CASE x \in InsertedDeliveries(e, omitted)
      BY <2>2, <3>0, <3>1, <3>2
         DEF InsertRecipients, InsertedDeliveries, Recipients, EventLeaseHeld, OwnsEvent,
             RowMoves, NewPassRow
    <3>3. CASE x \notin InsertedDeliveries(e, omitted)
      BY <3>1, <3>3 DEF InsertRecipients, RowMoves, SameRow
    <3> QED BY <3>2, <3>3
  <2> QED
    BY <2>1, <2>2
       DEF ExpansionStep, ExpandEvent, ExpandError, MarkFailure, AbandonEvent, rows
<1> QED BY <1>1, <1>2, <1>3, <1>4 DEF StepMoves, EventMoves

\* Every step of the pipeline is made of such moves.
LEMMA NextMoves == TypeOK /\ OrderInv /\ [Next]_vars => StepMoves
<1> SUFFICES ASSUME TypeOK, OrderInv, [Next]_vars PROVE StepMoves
  OBVIOUS
<1>0. ASSUME UNCHANGED <<delivery, attempt, acknowledged>>,
             \A e \in Events : event'[e].status = event[e].status
                                \/ event[e].status \in {"absent"} \cup Unsettled
      PROVE  StepMoves
  BY <1>0 DEF StepMoves, RowMoves, SameRow, TaskMoves, EventMoves
<1>1. ASSUME NEW e \in Events, Publish(e) PROVE StepMoves
  BY <1>0, <1>1 DEF Publish, tasks, history, TypeOK
<1>2. ASSUME NEW i \in Instances, NEW batch \in SUBSET Events, ClaimEvents(i, batch)
      PROVE  StepMoves
  BY <1>0, <1>2 DEF ClaimEvents, EventClaimable, Unsettled, history
<1>3. ASSUME NEW i \in Instances, NEW e \in Events, ExpansionStep(i, e)
      PROVE  StepMoves
  BY <1>3, ExpandMoves
<1>4. ASSUME NEW i \in Instances, NEW batch \in SUBSET Deliveries,
             ClaimDeliveries(i, batch)
      PROVE  StepMoves
  BY <1>4, ClaimMoves
<1>5. ASSUME NEW i \in Instances, NEW d \in Deliveries, DeliveryStep(i, d)
      PROVE  StepMoves
  BY <1>5, TaskStepMoves
<1>6. ASSUME NEW a \in Applications,
             ActivateEndpoint(a) \/ ReactivateApplication(a)
      PROVE  StepMoves
  BY <1>0, <1>6 DEF ActivateEndpoint, ReactivateApplication, tasks, history
<1>7. ASSUME NEW a \in Applications, NEW selection \in SUBSET Deliveries,
             ReplayDeadLetters(a, selection)
      PROVE  StepMoves
  BY <1>7, ReplayMoves
<1>8. ASSUME NEW i \in Instances, Crash(i) PROVE StepMoves
  <2>1. \A j \in Instances, x \in Deliveries :
          attempt'[j][x].phase = "idle" \/ attempt'[j][x] = attempt[j][x]
    BY <1>8 DEF Crash, IdleAttempt, TypeOK
  <2> QED
    BY <1>8, <2>1
       DEF Crash, rows, history, StepMoves, RowMoves, SameRow, TaskMoves, EventMoves
<1>9. CASE Tick
  <2>1. \A x \in Events : event'[x].status = event[x].status
    BY <1>9, RowUpdateFields DEF Tick, TypeOK
  <2>2. \A x \in Deliveries : SameRow(x)
    BY <1>9, RowUpdateFields, RowUpdateOwners DEF Tick, TypeOK, SameRow
  <2>3. ASSUME NEW j \in Instances, NEW x \in Deliveries
        PROVE  /\ attempt'[j][x].phase = attempt[j][x].phase
               /\ attempt'[j][x].lane = attempt[j][x].lane
    <3>1. attempt[j][x] \in AttemptTask /\ attempt'[j][x] = Elapsed(attempt[j][x])
      BY <1>9 DEF Tick, TypeOK
    <3> QED
      BY <3>1 DEF Elapsed, AttemptTask
  <2>4. UNCHANGED acknowledged
    BY <1>9 DEF Tick, history
  <2> QED
    BY <2>1, <2>2, <2>3, <2>4 DEF StepMoves, RowMoves, TaskMoves, EventMoves
<1>10. ASSUME NEW a \in Applications, SuspendApplication(a) PROVE StepMoves
  <2>1. ASSUME NEW x \in Deliveries PROVE RowMoves(x)
    <3>1. CASE x \in Cancellable(a)
      <4>1. /\ delivery[x].status \in Unsettled
            /\ delivery'[x] = Released(delivery[x], "cancelled")
            /\ delivery[x] \in DeliveryRow
        BY <1>10, <3>1 DEF SuspendApplication, Cancellable, TypeOK
      <4>2. /\ delivery'[x].status = "cancelled"
            /\ delivery'[x].lane = delivery[x].lane
        BY <4>1, RowUpdateFields DEF DeliveryStatus
      <4> QED BY <4>1, <4>2 DEF RowMoves, GivenUpRow
    <3>2. CASE x \notin Cancellable(a)
      BY <1>10, <3>2 DEF SuspendApplication, RowMoves, SameRow
    <3> QED BY <3>1, <3>2
  <2>2. UNCHANGED <<event, attempt, acknowledged>>
    BY <1>10 DEF SuspendApplication, tasks
  <2> QED BY <2>1, <2>2 DEF StepMoves, TaskMoves, EventMoves
<1>11. CASE UNCHANGED vars
  BY <1>0, <1>11 DEF vars
<1> QED
  BY <1>1, <1>2, <1>3, <1>4, <1>5, <1>6, <1>7, <1>8, <1>9, <1>10, <1>11 DEF Next

\* No success is recorded and no task is started initially.
LEMMA OutcomeInit == Init => OutcomeInv
  BY DEF Init, OutcomeInv, FenceInv, AcceptedAcknowledged, DeliveredIsAcknowledged,
         IdleAttempt

\* The invariants the outcome theorems rest on hold in every state.
LEMMA OutcomeInvariance == Spec => [](TypeOK /\ OrderInv /\ OutcomeInv)
<1>1. TypeOK /\ OrderInv /\ OutcomeInv /\ [Next]_vars => OutcomeInv'
  BY NextMoves, MovesKeep
<1> QED
  BY <1>1, TypeInit, TypeNext, OrderInit, OrderNext, OutcomeInit, PTL DEF Spec

\* What finish_success, finish_failure and mark_failure record is true and final,
\* for every number of workers and however long one of them stalls: a stale worker
\* neither records a success for a replayed pass nor overwrites an outcome.
THEOREM OutcomesSoundHolds == Spec => OutcomesSound
<1>1. OutcomeInv => DeliveredIsAcknowledged
  BY DEF OutcomeInv
<1>2. TypeOK /\ OrderInv /\ [Next]_vars => [OutcomesFinalStep]_vars
  BY NextMoves, MovesFinal
<1> QED
  BY <1>1, <1>2, OutcomeInvariance, PTL DEF Spec, OutcomesSound, OutcomesFinal

\* A row appears only with its event's expansion, and none disappears.
LEMMA AtomicKept ==
    ASSUME TypeOK, OrderInv, ExpansionAtomic, [Next]_vars
    PROVE  ExpansionAtomic'
<1>1. StepMoves
  BY NextMoves
<1>2. ASSUME NEW e \in Events, NEW d \in Recipients(e)
      PROVE  d \in Deliveries /\ d[1] = e
  BY PipelineAssumption DEF Recipients, Deliveries
<1>3. ASSUME NEW i \in Instances, NEW e \in Events, ExpandEvent(i, e),
             EventLeaseHeld(i, e)
      PROVE  ExpansionAtomic'
  <2>1. PICK omitted \in SUBSET Withholdable(e) :
          /\ InsertRecipients(InsertedDeliveries(e, omitted))
          /\ withheld' = withheld \cup omitted
    BY <1>3 DEF ExpandEvent
  <2>2. /\ event[e].status = "processing"
        /\ event'[e].status = "completed"
        /\ \A x \in Events : x # e => event'[x] = event[x]
    <3>1. event[e] \in EventRow /\ event' = [event EXCEPT ![e] = Released(@, "completed")]
      BY <1>3 DEF ExpandEvent, TypeOK
    <3> QED
      BY <1>3, <3>1, RowUpdateFields DEF EventLeaseHeld, OwnsEvent, TypeOK, EventStatus
  <2>3. ASSUME NEW d \in Recipients(e)
        PROVE  delivery'[d].status # "absent" \/ d \in withheld'
    <3>1. delivery[d].status = "absent"
      BY <1>3, <2>2, <2>3 DEF ExpansionAtomic
    <3>2. d \in Deliveries
      BY <1>2, <2>3
    <3> QED
      BY <2>1, <2>3, <3>1, <3>2 DEF InsertRecipients, InsertedDeliveries
  <2>4. ASSUME NEW x \in Events, NEW d \in Recipients(x), x # e
        PROVE  /\ delivery'[d] = delivery[d]
               /\ d \in withheld' <=> d \in withheld
    <3>1. d \in Deliveries /\ d[1] = x
      BY <1>2, <2>4
    <3>2. d \notin Recipients(e)
      BY <1>2, <2>4, <3>1
    <3> QED
      BY <2>1, <3>1, <3>2 DEF InsertRecipients, InsertedDeliveries, Withholdable
  <2>5. ASSUME NEW x \in Events, NEW d \in Recipients(x)
        PROVE  event'[x].status = "completed"
                 <=> delivery'[d].status # "absent" \/ d \in withheld'
    <3>1. CASE x = e BY <2>2, <2>3, <2>5, <3>1
    <3>2. CASE x # e BY <2>2, <2>4, <2>5, <3>2 DEF ExpansionAtomic
    <3> QED BY <3>1, <3>2
  <2> QED BY <2>5 DEF ExpansionAtomic, Recipients
<1>4. ASSUME UNCHANGED withheld,
             \A e \in Events :
               event'[e].status = "completed" <=> event[e].status = "completed",
             \A x \in Deliveries :
               delivery'[x].status = "absent" <=> delivery[x].status = "absent"
      PROVE  ExpansionAtomic'
  BY <1>2, <1>4 DEF ExpansionAtomic, Recipients
<1>5. ASSUME UNCHANGED withheld,
             \A e \in Events :
               event'[e].status = "completed" <=> event[e].status = "completed"
      PROVE  ExpansionAtomic'
  <2>1. ASSUME NEW x \in Deliveries
        PROVE  delivery'[x].status = "absent" <=> delivery[x].status = "absent"
    <3>1. RowMoves(x) /\ x[1] \in Events
      BY <1>1, DeliveryParts DEF StepMoves
    <3> QED
      BY <1>5, <3>1
         DEF RowMoves, SameRow, ClaimedRow, GivenUpRow, DeliveredRow, NewPassRow,
             OwnsDelivery, Unsettled
  <2> QED BY <1>4, <1>5, <2>1
<1>6. ASSUME NEW i \in Instances, NEW e \in Events, ExpansionStep(i, e),
             ~(ExpandEvent(i, e) /\ EventLeaseHeld(i, e))
      PROVE  ExpansionAtomic'
  <2>1. CASE UNCHANGED event
    BY <1>5, <1>6, <2>1
       DEF ExpansionStep, ExpandEvent, ExpandError, MarkFailure, AbandonEvent, history
  <2>2. CASE MarkFailure(i, e)
    <3>1. event[e] \in EventRow /\ expansion[i][e] \in ExpansionTask
      BY DEF TypeOK
    <3>2. \A jitter \in JitterPercents :
            RetryDelay(expansion[i][e].attempts, jitter) \in 0 .. DelayBound
      BY <3>1, RetryDelayType DEF ExpansionTask
    <3>3. \A delay \in 0 .. DelayBound : Rescheduled(event[e], delay).status = "pending"
      BY <3>1 DEF EventRow, Rescheduled
    <3>4. Released(event[e], "dead_letter").status = "dead_letter"
      BY <3>1, RowUpdateFields DEF EventStatus
    <3>5. \/ UNCHANGED event
          \/ /\ event[e].status = "processing"
             /\ event'[e].status # "completed"
             /\ \A x \in Events : x # e => event'[x] = event[x]
      BY <2>2, <3>2, <3>3, <3>4 DEF MarkFailure, OwnsEvent, TypeOK
    <3>6. UNCHANGED withheld
      BY <2>2 DEF MarkFailure, history
    <3> QED BY <1>5, <3>5, <3>6
  <2> QED
    BY <1>6, <2>1, <2>2 DEF ExpansionStep, ExpandEvent, ExpandError, AbandonEvent, rows
<1>7. ASSUME NEW e \in Events, Publish(e) PROVE ExpansionAtomic'
  <2>1. event[e] \in EventRow
    BY DEF TypeOK
  <2>2. Released(event[e], "pending").status = "pending"
    BY <2>1, RowUpdateFields DEF EventStatus
  <2> QED BY <1>5, <1>7, <2>2 DEF Publish, history, TypeOK
<1>8. ASSUME NEW i \in Instances, NEW batch \in SUBSET Events, ClaimEvents(i, batch)
      PROVE  ExpansionAtomic'
  <2>1. ASSUME NEW x \in Events
        PROVE  event'[x].status = "completed" <=> event[x].status = "completed"
    <3>1. event[x] \in EventRow
      BY DEF TypeOK
    <3>2. ClaimedEventRow(event[x], i).status = "processing"
      BY <3>1 DEF ClaimedEventRow, EventRow
    <3> QED BY <1>8, <3>2 DEF ClaimEvents, EventClaimable
  <2> QED BY <1>5, <1>8, <2>1 DEF ClaimEvents, history
<1>9. CASE Tick
  <2>1. \A x \in Events : event'[x].status = event[x].status
    BY <1>9, RowUpdateFields DEF Tick, TypeOK
  <2> QED BY <1>5, <1>9, <2>1 DEF Tick, history
<1>10. ASSUME UNCHANGED <<event, withheld>> PROVE ExpansionAtomic'
  BY <1>5, <1>10
<1>11. ASSUME NEW i \in Instances, NEW batch \in SUBSET Deliveries,
              ClaimDeliveries(i, batch)
       PROVE  ExpansionAtomic'
  BY <1>10, <1>11 DEF ClaimDeliveries, history
<1>12. ASSUME NEW i \in Instances, NEW d \in Deliveries, DeliveryStep(i, d)
       PROVE  ExpansionAtomic'
  BY <1>10, <1>12 DEF DeliveryStep, LoadMaterial, BeginAttempt, Post, FinishSuccess,
     FinishFailure, AbandonDelivery, rows, history
<1>13. ASSUME NEW a \in Applications,
              \/ ActivateEndpoint(a) \/ SuspendApplication(a) \/ ReactivateApplication(a)
              \/ \E selection \in SUBSET Deliveries : ReplayDeadLetters(a, selection)
       PROVE  ExpansionAtomic'
  BY <1>10, <1>13 DEF ActivateEndpoint, SuspendApplication, ReactivateApplication,
     ReplayDeadLetters, history
<1>14. CASE UNCHANGED vars \/ \E i \in Instances : Crash(i)
  BY <1>10, <1>14 DEF vars, Crash, rows, history
<1> QED
  BY <1>3, <1>6, <1>7, <1>8, <1>9, <1>11, <1>12, <1>13, <1>14 DEF Next

\* expand_event is atomic for every number of workers, applications and events and
\* whatever fails or loses its lease: no partial fan-out, and a suspended
\* application is the only one that may be left out.
THEOREM ExpansionAtomicHolds == Spec => []ExpansionAtomic
<1>1. Init => ExpansionAtomic
  BY PipelineAssumption DEF Init, ExpansionAtomic, Recipients, Deliveries
<1> QED
  BY <1>1, AtomicKept, OutcomeInvariance, PTL DEF Spec

----------------------------------------------------------------------------
(***************************************************************************)
(* One request at a time.  While no process stalls, the lease that         *)
(* begin_attempt renews is longer than what is left of the attempt's       *)
(* deadline, and stays so because both run down together.                  *)
(***************************************************************************)

HoldsLonger(i, d) ==
    \/ delivery[d].status = "cancelled"
    \/ OwnsDelivery(i, d) /\ attempt[i][d].left < delivery[d].lease

LeaseInv ==
    ~Stalls => \A i \in Instances, d \in Deliveries :
                 InProgress(i, d) => HoldsLonger(i, d)

\* Steps that leave an attempt in progress and its row alone, or cancel the row.
LEMMA LeaseKept ==
    ASSUME LeaseInv,
           \A j \in Instances, x \in Deliveries :
             InProgress(j, x)' =>
               \/ /\ attempt'[j][x] = attempt[j][x]
                  /\ \/ delivery'[x] = delivery[x]
                     \/ delivery'[x].status = "cancelled"
                     \/ ~(OwnsDelivery(j, x) \/ delivery[x].status = "cancelled")
               \/ HoldsLonger(j, x)'
    PROVE  LeaseInv'
  BY DEF LeaseInv, InProgress, HoldsLonger, OwnsDelivery

\* begin_attempt renews the lease for longer than the attempt may last; every other
\* step of a task ends it or keeps its time and its row.
LEMMA LeaseTaskStep ==
    ASSUME TypeOK, LeaseInv, NEW i \in Instances, NEW d \in Deliveries,
           DeliveryStep(i, d)
    PROVE  LeaseInv'
<1>0. delivery[d] \in DeliveryRow /\ attempt[i][d] \in AttemptTask
  BY DEF TypeOK
<1>1. \A task : attempt' = [attempt EXCEPT ![i][d] = task] =>
        /\ attempt'[i][d] = task
        /\ \A j \in Instances, x \in Deliveries :
             attempt'[j][x] = attempt[j][x] \/ (j = i /\ x = d)
  BY DEF TypeOK
<1>2. \A row : delivery' = [delivery EXCEPT ![d] = row] =>
        /\ delivery'[d] = row
        /\ \A x \in Deliveries : x # d => delivery'[x] = delivery[x]
  BY DEF TypeOK
<1>3. ASSUME EndAttempt(i, d),
             \/ UNCHANGED delivery
             \/ /\ OwnsDelivery(i, d)
                /\ \E row : delivery' = [delivery EXCEPT ![d] = row]
      PROVE  LeaseInv'
  <2>1. attempt'[i][d].phase = "idle"
    BY ZenonT(90), <1>1, <1>3 DEF EndAttempt, IdleAttempt
  <2>2. ASSUME NEW j \in Instances, NEW x \in Deliveries, InProgress(j, x)'
        PROVE  /\ attempt'[j][x] = attempt[j][x]
               /\ \/ delivery'[x] = delivery[x]
                  \/ ~(OwnsDelivery(j, x) \/ delivery[x].status = "cancelled")
    <3>1. j # i \/ x # d
      BY <2>1, <2>2 DEF InProgress
    <3>2. attempt'[j][x] = attempt[j][x]
      BY <1>1, <1>3, <3>1 DEF EndAttempt
    <3> QED BY <1>2, <1>3, <3>1, <3>2 DEF OwnsDelivery
  <2> QED BY <2>2, LeaseKept
<1>4. ASSUME NEW phase \in {"loaded", "retryable", "rejected"},
             SetPhase(i, d, phase), UNCHANGED delivery
      PROVE  LeaseInv'
  <2>1. attempt' = [attempt EXCEPT ![i][d] = WithPhase(attempt[i][d], phase)]
    BY <1>4 DEF SetPhase, TypeOK
  <2>2. WithPhase(attempt[i][d], phase).phase = phase
    BY <1>0 DEF WithPhase, AttemptTask
  <2>3. \A j \in Instances, x \in Deliveries :
          InProgress(j, x)' => attempt'[j][x] = attempt[j][x]
    BY <1>1, <2>1, <2>2 DEF InProgress
  <2> QED BY <1>4, <2>3, LeaseKept
<1>5. CASE Post(i, d)
  <2>1. UNCHANGED delivery
    BY <1>5 DEF Post, rows
  <2>2. CASE SetPhase(i, d, "accepted")
    <3>1. attempt' = [attempt EXCEPT ![i][d] = WithPhase(attempt[i][d], "accepted")]
      BY <2>2 DEF SetPhase, TypeOK
    <3>2. WithPhase(attempt[i][d], "accepted").left = attempt[i][d].left
      BY <1>0 DEF WithPhase, AttemptTask
    <3>3. ASSUME ~Stalls PROVE HoldsLonger(i, d)
      BY <1>5, <3>3 DEF Post, LeaseInv, InProgress
    <3>4. ~Stalls => HoldsLonger(i, d)'
      BY <1>1, <2>1, <3>1, <3>2, <3>3 DEF HoldsLonger, OwnsDelivery
    <3>5. \A j \in Instances, x \in Deliveries :
            attempt'[j][x] = attempt[j][x] \/ (j = i /\ x = d)
      BY <1>1, <3>1
    <3>6. CASE Stalls BY <3>6 DEF LeaseInv
    <3>7. CASE ~Stalls
      BY <2>1, <3>4, <3>5, <3>7, LeaseKept
    <3> QED BY <3>6, <3>7
  <2> QED BY <1>4, <1>5, <2>1, <2>2 DEF Post
<1>6. CASE BeginAttempt(i, d) /\ DeliveryLeaseHeld(i, d)
  <2>1. /\ delivery'[d] = Renewed(delivery[d])
        /\ \A x \in Deliveries : x # d => delivery'[x] = delivery[x]
    BY <1>2, <1>6 DEF BeginAttempt, TypeOK
  <2>2. attempt' = [attempt EXCEPT ![i][d] = PostingTask(attempt[i][d])]
    BY <1>6 DEF BeginAttempt, StartPosting, TypeOK
  <2>3. PostingTask(attempt[i][d]).left = DeadlineTicks
    BY <1>0 DEF PostingTask, AttemptTask
  <2>4. /\ Renewed(delivery[d]).status = delivery[d].status
        /\ Renewed(delivery[d]).owner = delivery[d].owner
        /\ Renewed(delivery[d]).lease = LeaseTicks
    BY <1>0 DEF Renewed, DeliveryRow
  <2>5. HoldsLonger(i, d)'
    BY <1>1, <1>6, <2>1, <2>2, <2>3, <2>4, PipelineAssumption, LeasePolicy
       DEF HoldsLonger, OwnsDelivery, DeliveryLeaseHeld, ValidLeasePolicy
  <2>6. ASSUME NEW j \in Instances, NEW x \in Deliveries, j # i \/ x # d
        PROVE  /\ attempt'[j][x] = attempt[j][x]
               /\ \/ delivery'[x] = delivery[x]
                  \/ ~(OwnsDelivery(j, x) \/ delivery[x].status = "cancelled")
    BY <1>1, <1>6, <2>1, <2>2, <2>6 DEF DeliveryLeaseHeld, OwnsDelivery
  <2> QED BY <2>5, <2>6, LeaseKept
<1>7. CASE BeginAttempt(i, d) /\ ~DeliveryLeaseHeld(i, d)
  BY <1>3, <1>7 DEF BeginAttempt
<1>8. CASE FinishSuccess(i, d) \/ FinishFailure(i, d) \/ AbandonDelivery(i, d)
  BY <1>3, <1>8 DEF FinishSuccess, FinishFailure, AbandonDelivery, rows
<1>9. CASE LoadMaterial(i, d)
  BY <1>4, <1>9 DEF LoadMaterial, rows
<1> QED BY <1>5, <1>6, <1>7, <1>8, <1>9 DEF DeliveryStep

\* Every step keeps the margin between lease and deadline.
LEMMA LeaseNext == TypeOK /\ LeaseInv /\ [Next]_vars => LeaseInv'
<1> SUFFICES ASSUME TypeOK, LeaseInv, [Next]_vars PROVE LeaseInv'
  OBVIOUS
<1>1. ASSUME UNCHANGED <<attempt, delivery>> PROVE LeaseInv'
  BY <1>1, LeaseKept
<1>2. ASSUME NEW i \in Instances, NEW e \in Events, ExpansionStep(i, e)
      PROVE  LeaseInv'
  <2>1. UNCHANGED attempt
    BY <1>2 DEF ExpansionStep, ExpandEvent, ExpandError, MarkFailure, AbandonEvent
  <2>2. ASSUME NEW x \in Deliveries
        PROVE  delivery'[x] = delivery[x] \/ delivery[x].status = "absent"
    BY <1>2, <2>2 DEF ExpansionStep, ExpandEvent, InsertRecipients, InsertedDeliveries,
       ExpandError, MarkFailure, AbandonEvent, rows
  <2> QED BY <2>1, <2>2, LeaseKept DEF OwnsDelivery
<1>3. ASSUME NEW i \in Instances, NEW batch \in SUBSET Deliveries,
             ClaimDeliveries(i, batch)
      PROVE  LeaseInv'
  <2>1. ASSUME NEW j \in Instances, NEW x \in Deliveries, InProgress(j, x)'
        PROVE  j # i /\ attempt'[j][x] = attempt[j][x]
    <3>1. attempt'[i][x].phase \in {"claimed", "idle"}
      BY <1>3 DEF ClaimDeliveries, IdleAttempt, TypeOK
    <3>2. j # i
      BY <2>1, <3>1 DEF InProgress
    <3> QED BY <1>3, <3>2 DEF ClaimDeliveries, TypeOK
  <2>2. ASSUME ~Stalls, NEW j \in Instances, NEW x \in Deliveries, InProgress(j, x)'
        PROVE  delivery'[x] = delivery[x]
    <3>1. HoldsLonger(j, x)
      BY <2>1, <2>2 DEF LeaseInv, InProgress
    <3>2. attempt[j][x].left \in Nat /\ delivery[x].lease \in Nat
      BY PipelineAssumption DEF TypeOK, AttemptTask, DeliveryRow
    <3>3. ~DeliveryDue(x)
      BY <3>1, <3>2 DEF HoldsLonger, OwnsDelivery, DeliveryDue
    <3> QED BY <1>3, <3>3 DEF ClaimDeliveries, DeliveryClaimable
  <2>3. CASE Stalls BY <2>3 DEF LeaseInv
  <2>4. CASE ~Stalls BY <2>1, <2>2, <2>4, LeaseKept
  <2> QED BY <2>3, <2>4
<1>4. ASSUME NEW a \in Applications, NEW selection \in SUBSET Deliveries,
             ReplayDeadLetters(a, selection)
      PROVE  LeaseInv'
  <2>1. ASSUME NEW x \in Deliveries
        PROVE  delivery'[x] = delivery[x] \/ delivery[x].status = "dead_letter"
    BY <1>4 DEF ReplayDeadLetters
  <2> QED BY <1>4, <2>1, LeaseKept DEF ReplayDeadLetters, OwnsDelivery, tasks
<1>5. ASSUME NEW a \in Applications, SuspendApplication(a) PROVE LeaseInv'
  <2>1. ASSUME NEW x \in Deliveries
        PROVE  delivery'[x] = delivery[x] \/ delivery'[x].status = "cancelled"
    <3>1. delivery[x] \in DeliveryRow
      BY DEF TypeOK
    <3>2. delivery'[x] = delivery[x] \/ delivery'[x] = Released(delivery[x], "cancelled")
      BY <1>5 DEF SuspendApplication
    <3> QED BY <3>1, <3>2, RowUpdateFields DEF DeliveryStatus
  <2> QED BY <1>5, <2>1, LeaseKept DEF SuspendApplication, tasks
<1>6. ASSUME NEW i \in Instances, Crash(i) PROVE LeaseInv'
  <2>1. \A j \in Instances, x \in Deliveries :
          attempt'[j][x].phase = "idle" \/ attempt'[j][x] = attempt[j][x]
    BY <1>6 DEF Crash, IdleAttempt, TypeOK
  <2> QED BY <1>6, <2>1, LeaseKept DEF Crash, rows, InProgress
<1>7. CASE Tick
  <2>1. ASSUME ~Stalls, NEW j \in Instances, NEW x \in Deliveries, InProgress(j, x)'
        PROVE  HoldsLonger(j, x)'
    <3>1. /\ attempt[j][x] \in AttemptTask /\ attempt'[j][x] = Elapsed(attempt[j][x])
          /\ delivery[x] \in DeliveryRow /\ delivery'[x] = Aged(delivery[x])
      BY <1>7 DEF Tick, TypeOK
    <3>2. /\ attempt'[j][x].phase = attempt[j][x].phase
          /\ attempt'[j][x].left = Dec(attempt[j][x].left)
      BY <3>1 DEF Elapsed, AttemptTask
    <3>3. /\ delivery'[x].lease = Dec(delivery[x].lease)
          /\ delivery'[x].status = delivery[x].status
          /\ delivery'[x].owner = delivery[x].owner
      BY <3>1 DEF Aged, DeliveryRow
    <3>4. InProgress(j, x)
      BY <2>1, <3>2 DEF InProgress
    <3>5. HoldsLonger(j, x) /\ attempt[j][x].left > 0
      BY <1>7, <2>1, <3>4 DEF LeaseInv, Tick
    <3>6. attempt[j][x].left \in Nat /\ delivery[x].lease \in Nat
      BY <3>1, PipelineAssumption DEF AttemptTask, DeliveryRow
    <3> QED BY <3>2, <3>3, <3>5, <3>6 DEF HoldsLonger, OwnsDelivery, Dec
  <2> QED BY <2>1 DEF LeaseInv
<1> QED
  BY <1>1, <1>2, <1>3, <1>4, <1>5, <1>6, <1>7, LeaseTaskStep
     DEF Next, vars, Publish, ClaimEvents, ActivateEndpoint, ReactivateApplication,
         tasks, history

\* No second instance POSTs a delivery while a first one still does, for every
\* lease longer than the deadline: validate_worker_database_lease_policy is what
\* it takes, with any number of instances, crashes and replays.
THEOREM AttemptHoldsLeaseHolds == Spec => []AttemptHoldsLease
<1>1. Init => LeaseInv
  BY DEF Init, LeaseInv, InProgress, IdleAttempt
<1>2. TypeOK /\ LeaseInv => AttemptHoldsLease
  <2> SUFFICES ASSUME TypeOK, LeaseInv, ~Stalls, NEW i \in Instances, NEW d \in Deliveries,
                      InProgress(i, d)
               PROVE  DeliveryLeaseHeld(i, d) \/ delivery[d].status = "cancelled"
    BY DEF AttemptHoldsLease
  <2>1. attempt[i][d].left \in Nat /\ delivery[d].lease \in Nat
    BY PipelineAssumption DEF TypeOK, AttemptTask, DeliveryRow
  <2> QED BY <2>1 DEF LeaseInv, HoldsLonger, DeliveryLeaseHeld
<1> QED
  BY <1>1, <1>2, LeaseNext, TypeInit, TypeNext, PTL DEF Spec

----------------------------------------------------------------------------
(* The destinations of an application and their signing secrets *)

ReviewRows == [url : Destinations \cup {NoUrl}, secret : Nat, fresh : BOOLEAN]

EndpointShape ==
    /\ endpoint \in [Destinations ->
          [status : {"none", "pending_review", "active", "retired", "disabled"}, secret : Nat]]
    /\ latest \in Nat /\ rotated \in Nat
    /\ approval \in ReviewRows

\* A key that is in use is no older than the last rotation, and none is newer than
\* the last secret that was supplied.
KeysReplaced ==
    /\ rotated <= latest
    /\ \A d \in Destinations : endpoint[d].secret <= latest
    /\ RotationReachesPending

\* A version that still stands answers for the destination's key too.
ReviewStands ==
    approval.fresh /\ approval.url \in Destinations =>
        approval.secret = endpoint[approval.url].secret

EndpointInv ==
    /\ EndpointShape
    /\ KeysReplaced
    /\ ReviewStands
    /\ ApprovedAsSeen

LEMMA BumpedReview ==
    ASSUME approval \in ReviewRows, Bumped PROVE approval' \in ReviewRows /\ ~approval'.fresh
  BY DEF ReviewRows, Bumped

LEMMA UnreviewedRow == Unreviewed \in ReviewRows /\ ~Unreviewed.fresh
  BY DEF ReviewRows, Unreviewed, NoUrl

LEMMA EndpointStarts == ApplicationEndpointInit => EndpointInv
  <1> SUFFICES ASSUME ApplicationEndpointInit PROVE EndpointInv
    OBVIOUS
  <1>1. PICK u \in Destinations :
            endpoint = [d \in Destinations |->
                           IF d = u THEN [status |-> "pending_review", secret |-> 1]
                           ELSE [status |-> "none", secret |-> 0]]
    BY DEF ApplicationEndpointInit
  <1>2. latest = 1 /\ rotated = 1 /\ ~approval.fresh /\ approval = Unreviewed
    BY DEF ApplicationEndpointInit, Unreviewed
  <1>3. EndpointShape
    BY <1>1, <1>2, UnreviewedRow DEF EndpointShape
  <1>4. KeysReplaced
    BY <1>1, <1>2 DEF KeysReplaced, RotationReachesPending, ConfiguredUrls
  <1>5. ApprovedAsSeen
    BY <1>1 DEF ApprovedAsSeen, ActiveUrls
  <1> QED BY <1>2, <1>3, <1>4, <1>5 DEF EndpointInv, ReviewStands

\* A proposal replaces what waits: the new destination is pending, with a key that
\* is as new as the last rotation.
LEMMA ProposalKeeps ==
    ASSUME EndpointInv, NEW u \in Destinations, NEW key \in Nat, latest' \in Nat,
           u \notin ActiveUrls,
           endpoint' = [RetiredUrls(PendingUrls) EXCEPT
                           ![u] = [status |-> "pending_review", secret |-> key]],
           latest <= latest', key <= latest', rotated <= key,
           Bumped, UNCHANGED <<rotated, sealed>>
    PROVE  EndpointInv'
  <1>1. /\ endpoint'[u] = [status |-> "pending_review", secret |-> key]
        /\ \A d \in Destinations : d # u =>
             /\ endpoint'[d].secret = endpoint[d].secret
             /\ endpoint'[d].status = (IF d \in PendingUrls THEN "retired" ELSE endpoint[d].status)
             /\ endpoint'[d] \in [status : {"none", "pending_review", "active", "retired",
                                            "disabled"}, secret : Nat]
    BY DEF RetiredUrls, EndpointInv, EndpointShape, PendingUrls
  <1>2. DOMAIN endpoint' = Destinations /\ endpoint' = [d \in Destinations |-> endpoint'[d]]
    BY DEF RetiredUrls
  <1>3. EndpointShape'
    BY <1>1, <1>2, BumpedReview DEF EndpointInv, EndpointShape
  <1>4. \A d \in ActiveUrls' : d \in ActiveUrls /\ endpoint'[d].secret = endpoint[d].secret
    BY <1>1 DEF ActiveUrls
  <1>5. ApprovedAsSeen'
    BY <1>4 DEF EndpointInv, ApprovedAsSeen
  <1>6. \A d \in ConfiguredUrls' : endpoint'[d].secret >= rotated'
    BY <1>1 DEF ConfiguredUrls, EndpointInv, EndpointShape, KeysReplaced, RotationReachesPending
  <1>7. KeysReplaced'
    BY <1>1, <1>6 DEF EndpointInv, EndpointShape, KeysReplaced, RotationReachesPending
  <1> QED BY <1>3, <1>5, <1>7 DEF EndpointInv, ReviewStands, Bumped

\* An approval makes the destination the only one that is configured.
LEMMA ApprovalKeeps ==
    ASSUME EndpointInv, NEW u \in PendingUrls, endpoint' = Activated(u),
           sealed'.url = u, sealed'.secret = endpoint[u].secret,
           ~approval'.fresh, approval' \in ReviewRows, UNCHANGED <<latest, rotated>>
    PROVE  EndpointInv'
  <1>1. \A d \in Destinations :
            /\ endpoint'[d].secret = endpoint[d].secret
            /\ endpoint'[d].status = (IF d = u THEN "active"
                                     ELSE IF d \in ConfiguredUrls THEN "retired"
                                     ELSE endpoint[d].status)
            /\ endpoint'[d] \in [status : {"none", "pending_review", "active", "retired",
                                           "disabled"}, secret : Nat]
    BY DEF Activated, RetiredUrls, EndpointInv, EndpointShape, PendingUrls
  <1>2. endpoint' = [d \in Destinations |-> endpoint'[d]] /\ u \in ConfiguredUrls
    BY DEF Activated, RetiredUrls, PendingUrls, ConfiguredUrls
  <1>3. EndpointShape'
    BY <1>1, <1>2 DEF EndpointInv, EndpointShape
  <1>4. ActiveUrls' \subseteq {u} /\ ConfiguredUrls' \subseteq {u}
    BY <1>1 DEF ActiveUrls, ConfiguredUrls
  <1>5. KeysReplaced'
    BY <1>1, <1>2, <1>4 DEF EndpointInv, KeysReplaced, RotationReachesPending, PendingUrls
  <1>6. ApprovedAsSeen'
    BY <1>1, <1>4 DEF ApprovedAsSeen, PendingUrls
  <1> QED BY <1>3, <1>5, <1>6 DEF EndpointInv, ReviewStands

LEMMA RotationKeeps == ASSUME EndpointInv, RotateSigningSecret PROVE EndpointInv'
  <1>1. /\ latest' = latest + 1 /\ rotated' = latest' /\ UNCHANGED sealed /\ Bumped
        /\ endpoint' = [d \in Destinations |->
                          IF d \in RekeyedUrls THEN [endpoint[d] EXCEPT !.secret = latest']
                          ELSE endpoint[d]]
    BY DEF RotateSigningSecret
  <1>2. latest' \in Nat /\ rotated' \in Nat /\ latest <= latest'
    BY <1>1 DEF EndpointInv, EndpointShape
  <1>3. \A d \in Destinations :
            /\ endpoint'[d].status = endpoint[d].status
            /\ endpoint'[d].secret = (IF d \in ConfiguredUrls THEN latest' ELSE endpoint[d].secret)
            /\ endpoint'[d] \in [status : {"none", "pending_review", "active", "retired",
                                           "disabled"}, secret : Nat]
    BY <1>1, <1>2 DEF EndpointInv, EndpointShape, RekeyedUrls
  <1>4. EndpointShape'
    BY <1>1, <1>2, <1>3, BumpedReview DEF EndpointInv, EndpointShape
  <1>5. ConfiguredUrls' = ConfiguredUrls /\ ActiveUrls' = ActiveUrls
        /\ ActiveUrls \subseteq ConfiguredUrls
    BY <1>3 DEF ConfiguredUrls, ActiveUrls
  <1>6. \A d \in ConfiguredUrls : d \in Destinations /\ endpoint'[d].secret = rotated'
    BY <1>1, <1>3 DEF ConfiguredUrls
  <1>7. RotationReachesPending'
    BY <1>2, <1>5, <1>6 DEF RotationReachesPending
  <1>8. KeysReplaced'
    BY <1>1, <1>2, <1>3, <1>7 DEF EndpointInv, EndpointShape, KeysReplaced
  <1>9. ApprovedAsSeen'
    BY <1>5, <1>6, <1>1 DEF EndpointInv, ApprovedAsSeen
  <1> QED BY <1>1, <1>4, <1>8, <1>9 DEF EndpointInv, ReviewStands, Bumped

LEMMA DeletionKeeps == ASSUME EndpointInv, Delete PROVE EndpointInv'
  <1>1. \A d \in Destinations :
            /\ endpoint'[d].secret = 0
            /\ endpoint'[d].status \notin {"active", "pending_review"}
            /\ endpoint'[d] \in [status : {"none", "pending_review", "active", "retired",
                                           "disabled"}, secret : Nat]
    BY DEF Delete, EndpointInv, EndpointShape, ConfiguredUrls
  <1>2. endpoint' = [d \in Destinations |-> endpoint'[d]]
    BY DEF Delete
  <1>3. ConfiguredUrls' = {} /\ ActiveUrls' = {}
    BY <1>1 DEF ConfiguredUrls, ActiveUrls
  <1>4. approval' \in ReviewRows /\ ~approval'.fresh /\ UNCHANGED <<latest, rotated>>
    BY BumpedReview DEF Delete, EndpointInv, EndpointShape
  <1> QED
    BY <1>1, <1>2, <1>3, <1>4 DEF EndpointInv, EndpointShape, KeysReplaced,
       RotationReachesPending, ApprovedAsSeen, ReviewStands

LEMMA EndpointStep ==
    EndpointInv /\ [ApplicationEndpointNext]_applicationEndpointVars => EndpointInv'
  <1> SUFFICES ASSUME EndpointInv, [ApplicationEndpointNext]_applicationEndpointVars
               PROVE  EndpointInv'
    OBVIOUS
  <1>1. ASSUME NEW u \in Destinations, NEW supplied \in BOOLEAN, Propose(u, supplied)
        PROVE  EndpointInv'
    <2>1. PICK old \in ReplacementKey :
              /\ latest' = IF supplied THEN latest + 1 ELSE latest
              /\ endpoint' = [RetiredUrls(PendingUrls) EXCEPT
                                ![u] = [status |-> "pending_review",
                                        secret |-> IF supplied THEN latest' ELSE old]]
      BY <1>1 DEF Propose
    <2>2. old \in Nat /\ rotated <= old /\ old <= latest
      BY DEF ReplacementKey, ActiveUrls, PendingUrls, ConfiguredUrls, EndpointInv,
         EndpointShape, KeysReplaced, RotationReachesPending
    <2> DEFINE key == IF supplied THEN latest' ELSE old
    <2>3. /\ latest' \in Nat /\ latest <= latest'
          /\ key \in Nat /\ key <= latest' /\ rotated <= key
      BY <2>1, <2>2 DEF EndpointInv, EndpointShape, KeysReplaced
    <2>4. u \notin ActiveUrls /\ Bumped /\ UNCHANGED <<rotated, sealed>>
      BY <1>1 DEF Propose, ActiveUrls
    <2> HIDE DEF key
    <2>5. endpoint' = [RetiredUrls(PendingUrls) EXCEPT
                          ![u] = [status |-> "pending_review", secret |-> key]]
      BY <2>1 DEF key
    <2> QED BY <2>3, <2>4, <2>5, ProposalKeeps
  <1>2. ASSUME NEW u \in Destinations, ConfigureWebhook(u) PROVE EndpointInv'
    <2>1. /\ latest' = latest + 1 /\ latest' \in Nat /\ rotated <= latest'
          /\ u \notin ActiveUrls /\ Bumped /\ UNCHANGED <<rotated, sealed>>
          /\ endpoint' = [RetiredUrls(PendingUrls) EXCEPT
                            ![u] = [status |-> "pending_review", secret |-> latest']]
      BY <1>2 DEF ConfigureWebhook, ConfiguredUrls, ActiveUrls, EndpointInv, EndpointShape,
         KeysReplaced
    <2>2. latest <= latest' /\ latest' <= latest'
      BY <2>1 DEF EndpointInv, EndpointShape
    <2> QED BY <2>1, <2>2, ProposalKeeps
  <1>3. ASSUME NEW u \in Destinations, BeginApproval(u) PROVE EndpointInv'
    <2>1. /\ approval' = [url |-> u, secret |-> endpoint[u].secret, fresh |-> TRUE]
          /\ UNCHANGED <<endpoint, latest, rotated, sealed>>
      BY <1>3 DEF BeginApproval
    <2>2. approval' \in ReviewRows
      BY <2>1 DEF ReviewRows, EndpointInv, EndpointShape
    <2> QED
      BY <2>1, <2>2 DEF EndpointInv, EndpointShape, KeysReplaced, RotationReachesPending,
         ReviewStands, ApprovedAsSeen, ConfiguredUrls, ActiveUrls
  <1>4. ASSUME NEW u \in Destinations, HoneycombApproval(u) PROVE EndpointInv'
    <2>1. /\ u \in PendingUrls /\ endpoint' = Activated(u) /\ UNCHANGED <<latest, rotated>>
          /\ sealed'.url = u /\ sealed'.secret = endpoint[u].secret /\ Bumped
      BY <1>4 DEF HoneycombApproval
    <2>2. ~approval'.fresh /\ approval' \in ReviewRows
      BY <2>1, BumpedReview DEF EndpointInv, EndpointShape
    <2> QED BY <2>1, <2>2, ApprovalKeeps
  <1>5. CASE FinishApproval
    <2>1. /\ approval.url \in PendingUrls /\ approval.fresh
          /\ endpoint' = Activated(approval.url) /\ sealed' = approval
          /\ approval' = Unreviewed /\ UNCHANGED <<latest, rotated>>
      BY <1>5 DEF FinishApproval, StillReviewed
    <2>2. sealed'.url = approval.url /\ sealed'.secret = endpoint[approval.url].secret
          /\ ~approval'.fresh /\ approval' \in ReviewRows
      BY <2>1, UnreviewedRow DEF EndpointInv, ReviewStands, PendingUrls
    <2> QED BY <2>1, <2>2, ApprovalKeeps
  <1>6. CASE AbandonApproval
    BY <1>6, UnreviewedRow DEF AbandonApproval, EndpointInv, EndpointShape, KeysReplaced,
       RotationReachesPending, ReviewStands, ApprovedAsSeen, ConfiguredUrls, ActiveUrls
  <1>7. CASE RotateSigningSecret \/ HoneycombSecretRotation
    BY <1>7, RotationKeeps DEF HoneycombSecretRotation
  <1>8. CASE \/ RotateClientSecret \/ HoneycombClientRotation
             \/ \E status \in {"verified", "suspended"} : Decide(status)
    <2>1. Bumped /\ UNCHANGED <<endpoint, latest, rotated, sealed>>
      BY <1>8 DEF RotateClientSecret, HoneycombClientRotation, Decide
    <2>2. approval' \in ReviewRows /\ ~approval'.fresh
      BY <2>1, BumpedReview DEF EndpointInv, EndpointShape
    <2> QED
      BY <2>1, <2>2 DEF EndpointInv, EndpointShape, KeysReplaced, RotationReachesPending,
         ReviewStands, ApprovedAsSeen, ConfiguredUrls, ActiveUrls
  <1>9. CASE Delete
    BY <1>9, DeletionKeeps
  <1>10. CASE UNCHANGED applicationEndpointVars
    BY <1>10 DEF applicationEndpointVars, EndpointInv, EndpointShape, KeysReplaced,
       RotationReachesPending, ReviewStands, ApprovedAsSeen, ConfiguredUrls, ActiveUrls
  <1> QED
    BY <1>1, <1>2, <1>3, <1>4, <1>5, <1>6, <1>7, <1>8, <1>9, <1>10
       DEF ApplicationEndpointNext

\* A rotation reaches whatever is configured, and what receives events is what its
\* approver saw, however proposals, approvals and rotations overlap.
THEOREM EndpointSoundHolds == ApplicationEndpointSpec => []EndpointSound
  <1>1. EndpointInv => EndpointSound
    BY DEF EndpointInv, KeysReplaced, EndpointSound
  <1> QED BY EndpointStarts, EndpointStep, <1>1, PTL DEF ApplicationEndpointSpec

----------------------------------------------------------------------------
(* Honeycomb's operations and the notifications of them *)

Bodies == [expected : Nat, configuration : Nat, deleted : BOOLEAN]
CallRows ==
    [at : {"claimed", "read"}, op : HoneycombOps] \cup {NoHoneycombCall}
Letters == [on : BOOLEAN, attempt : Nat, due : BOOLEAN, delivered : BOOLEAN]
Posts == [op : HoneycombOps, attempt : Nat, ok : BOOLEAN]

OperationsShape ==
    /\ body \in [HoneycombOps -> Bodies]
    /\ stored \in [exists : BOOLEAN, gone : BOOLEAN, version : Nat, configuration : Nat,
                   by : HoneycombOps \cup {Owner, Nobody}]
    /\ result \in [HoneycombOps -> Nat]
    /\ answers \in [HoneycombOps -> SUBSET Nat]
    /\ request \in [HoneycombCalls -> CallRows]
    /\ letter \in [HoneycombOps -> Letters]
    /\ posts \subseteq Posts

Calling(c) == request[c].at \in {"claimed", "read"}
Reading(c) == request[c].at = "read"
BodyOf(c) == body[request[c].op]

\* A composed operation has a number; the completed ones have answered with one
\* revision and were based on one that is past.
OperationsPast ==
    /\ ~stored.exists => stored.version = 0
    /\ \A o \in HoneycombOps :
          /\ body[o].configuration = 0 => body[o] = NoBody
          /\ answers[o] \subseteq {result[o]} \ {0}
          /\ Completed(o) =>
               /\ body[o] # NoBody
               /\ body[o].configuration <= stored.configuration
               /\ body[o].expected < stored.version
    /\ \A o, q \in Accepted : o # q => body[o].expected # body[q].expected
    /\ stored.by \in HoneycombOps =>
          Completed(stored.by) /\ body[stored.by].configuration = stored.configuration

\* A call holds its operation alone.  What it read under the turned's lock still stands,
\* unless it read that there is no bundle and another call has created it.
CallsStand ==
    /\ \A c \in HoneycombCalls : Calling(c) =>
          /\ ~Completed(request[c].op) /\ BodyOf(c) # NoBody
          /\ Reading(c) =>
                \/ BodyOf(c).expected = stored.version
                \/ BodyOf(c).expected = 0 /\ stored.exists
    /\ \A c, d \in HoneycombCalls : c # d =>
          /\ Calling(c) /\ Calling(d) => request[c].op # request[d].op
          /\ Reading(c) /\ Reading(d) => BodyOf(c).expected = 0 /\ BodyOf(d).expected = 0

\* Only what was accepted is notified, and an attempt is one worker's.
LettersStand ==
    /\ \A o \in HoneycombOps :
          /\ letter[o].on => Completed(o)
          /\ letter[o].delivered => o \in received
    /\ \A p \in posts :
          /\ letter[p.op].on /\ p.attempt <= letter[p.op].attempt
          /\ p.ok => p.op \in received
          /\ letter[p.op].delivered => p.attempt < letter[p.op].attempt \/ p.ok
    /\ \A p, q \in posts : p.op = q.op /\ p.attempt = q.attempt => p = q

OperationsInv ==
    OperationsShape /\ OperationsPast /\ CallsStand /\ LettersStand

LEMMA CallParts ==
    ASSUME OperationsShape, NEW c \in HoneycombCalls
    PROVE  /\ Calling(c) => request[c].op \in HoneycombOps
                            /\ request[c] = [at |-> request[c].at, op |-> request[c].op]
                            /\ BodyOf(c) \in Bodies
           /\ ~Calling(c) <=> request[c] = NoHoneycombCall
  <1>1. request[c] \in CallRows
    BY DEF OperationsShape
  <1>2. CASE request[c] = NoHoneycombCall
    BY <1>2 DEF Calling, NoHoneycombCall
  <1>3. CASE request[c] \in [at : {"claimed", "read"}, op : HoneycombOps]
    BY <1>3 DEF Calling, NoHoneycombCall, BodyOf, OperationsShape
  <1> QED BY <1>1, <1>2, <1>3 DEF CallRows

LEMMA OperationsStart == OperationsInit => OperationsInv
  <1> SUFFICES ASSUME OperationsInit PROVE OperationsInv
    OBVIOUS
  <1>1. OperationsShape
    BY DEF OperationsInit, OperationsShape, NoBody, NoBundle, NoLetter, Bodies, Letters,
       CallRows, Posts
  <1>2. OperationsPast
    BY HoneycombAssumption DEF OperationsInit, OperationsPast, NoBody, NoBundle, Completed,
       Accepted
  <1>3. CallsStand
    BY DEF OperationsInit, CallsStand, Calling, Reading, NoHoneycombCall
  <1>4. LettersStand
    BY DEF OperationsInit, LettersStand, NoLetter
  <1> QED BY <1>1, <1>2, <1>3, <1>4 DEF OperationsInv

\* A step of the notifications alone.
LEMMA LettersAlone ==
    ASSUME OperationsInv, UNCHANGED <<body, stored, result, answers, request>>,
           letter' \in [HoneycombOps -> Letters], posts' \subseteq Posts, LettersStand'
    PROVE  OperationsInv'
  BY DEF OperationsInv, OperationsShape, OperationsPast, CallsStand, Calling, Reading, BodyOf,
     Completed, Accepted

LEMMA CallsAlone ==
    ASSUME OperationsInv, UNCHANGED <<body, stored, result, letter, posts, received>>,
           answers' \in [HoneycombOps -> SUBSET Nat],
           \A o \in HoneycombOps : answers'[o] \subseteq {result[o]} \ {0},
           request' \in [HoneycombCalls -> CallRows], CallsStand'
    PROVE  OperationsInv'
  BY DEF OperationsInv, OperationsShape, OperationsPast, LettersStand, Completed, Accepted

LEMMA ComposeKeeps ==
    ASSUME OperationsInv, NEW o \in HoneycombOps, Compose(o) PROVE OperationsInv'
  <1>1. PICK expected \in 0 .. stored.version, n \in 1 .. MaxConfiguration, d \in BOOLEAN :
            body' = [body EXCEPT ![o] = [expected |-> expected, configuration |-> n,
                                         deleted |-> d]]
    BY DEF Compose
  <1>2. /\ body[o] = NoBody
        /\ UNCHANGED <<stored, result, answers, request, letter, posts, received>>
    BY DEF Compose
  <1>3. expected \in Nat /\ n \in Nat /\ n # 0
    BY DEF OperationsInv, OperationsShape
  <1>4. /\ body' \in [HoneycombOps -> Bodies]
        /\ body'[o].configuration = n /\ body'[o] # NoBody
        /\ \A q \in HoneycombOps : q # o => body'[q] = body[q]
    BY <1>1, <1>3 DEF Bodies, OperationsInv, OperationsShape, NoBody
  <1>5. ~Completed(o)
    BY <1>2 DEF OperationsInv, OperationsPast
  <1>6. OperationsShape'
    BY <1>2, <1>4 DEF OperationsInv, OperationsShape
  <1>7. OperationsPast'
    BY <1>2, <1>3, <1>4, <1>5 DEF OperationsInv, OperationsPast, Completed, Accepted
  <1>8. CallsStand'
    <2>1. \A c \in HoneycombCalls : Calling(c) => request[c].op # o /\ BodyOf(c)' = BodyOf(c)
      BY <1>2, <1>4, CallParts DEF OperationsInv, CallsStand, BodyOf
    <2> QED BY <1>2, <2>1 DEF OperationsInv, CallsStand, Calling, Reading, Completed
  <1>9. LettersStand'
    BY <1>2 DEF OperationsInv, LettersStand, Completed
  <1> QED BY <1>6, <1>7, <1>8, <1>9 DEF OperationsInv

LEMMA ClaimKeeps ==
    ASSUME OperationsInv, NEW c \in HoneycombCalls, NEW o \in HoneycombOps,
           ClaimOperation(c, o)
    PROVE  OperationsInv'
  <1>0. /\ request[c] = NoHoneycombCall /\ body[o] # NoBody /\ OperationFree(o)
        /\ UNCHANGED <<body, stored, result, letter, posts, received>>
    BY DEF ClaimOperation
  <1>1. CASE Completed(o)
    <2>1. answers' = [answers EXCEPT ![o] = @ \cup {result[o]}] /\ UNCHANGED request
      BY <1>1 DEF ClaimOperation
    <2>2. result[o] \in Nat /\ result[o] # 0
      BY <1>1 DEF Completed, OperationsInv, OperationsShape
    <2>3. answers' \in [HoneycombOps -> SUBSET Nat]
          /\ \A q \in HoneycombOps : answers'[q] \subseteq {result[q]} \ {0}
      BY <2>1, <2>2 DEF OperationsInv, OperationsShape, OperationsPast
    <2>4. CallsStand' /\ request' \in [HoneycombCalls -> CallRows]
      BY <1>0, <2>1 DEF OperationsInv, OperationsShape, CallsStand, Calling, Reading, BodyOf,
         Completed
    <2> QED BY <1>0, <2>3, <2>4, CallsAlone
  <1>2. CASE ~Completed(o)
    <2>1. request' = [request EXCEPT ![c] = [at |-> "claimed", op |-> o]] /\ UNCHANGED answers
      BY <1>2 DEF ClaimOperation
    <2>2. /\ request' \in [HoneycombCalls -> CallRows]
          /\ request'[c] = [at |-> "claimed", op |-> o]
          /\ \A d \in HoneycombCalls : d # c => request'[d] = request[d]
      BY <2>1 DEF CallRows, OperationsInv, OperationsShape
    <2>3. \A d \in HoneycombCalls : d # c =>
              /\ Calling(d)' = Calling(d) /\ Reading(d)' = Reading(d)
              /\ BodyOf(d)' = BodyOf(d) /\ request'[d].op = request[d].op
              /\ request[d].op # o
      BY <1>0, <2>2 DEF Calling, Reading, BodyOf, OperationFree
    <2>4. ~Reading(c)' /\ request'[c].op = o /\ BodyOf(c)' = body[o]
      BY <1>0, <2>2 DEF Reading, BodyOf
    <2>5. CallsStand'
      BY <1>0, <1>2, <2>2, <2>3, <2>4 DEF OperationsInv, CallsStand, Completed
    <2>6. answers' \in [HoneycombOps -> SUBSET Nat]
          /\ \A q \in HoneycombOps : answers'[q] \subseteq {result[q]} \ {0}
      BY <2>1 DEF OperationsInv, OperationsShape, OperationsPast
    <2> QED BY <1>0, <2>2, <2>5, <2>6, CallsAlone
  <1> QED BY <1>1, <1>2

LEMMA ReadKeeps ==
    ASSUME OperationsInv, NEW c \in HoneycombCalls, ReadBundle(c) PROVE OperationsInv'
  <1>0. /\ request[c].at = "claimed" /\ (stored.exists => RowHolders = {})
        /\ BodyOf(c).expected = stored.version
        /\ request' = [request EXCEPT ![c].at = "read"]
        /\ UNCHANGED <<body, stored, result, answers, letter, posts, received>>
    BY DEF ReadBundle, Based, BodyOf
  <1>1. Calling(c) /\ request[c].op \in HoneycombOps
        /\ request[c] = [at |-> "claimed", op |-> request[c].op]
    BY <1>0, CallParts DEF Calling, OperationsInv
  <1>2. /\ request'[c] = [at |-> "read", op |-> request[c].op]
        /\ \A d \in HoneycombCalls : d # c => request'[d] = request[d]
        /\ DOMAIN request' = HoneycombCalls /\ request' = [d \in HoneycombCalls |-> request'[d]]
    BY <1>0, <1>1 DEF OperationsInv, OperationsShape
  <1>3. request' \in [HoneycombCalls -> CallRows]
    BY <1>1, <1>2 DEF CallRows, OperationsInv, OperationsShape
  <1>4. \A d \in HoneycombCalls :
            /\ request'[d].op = request[d].op /\ BodyOf(d)' = BodyOf(d)
            /\ Calling(d)' = Calling(d)
            /\ d # c => Reading(d)' = Reading(d)
    BY <1>0, <1>1, <1>2 DEF Calling, Reading, BodyOf
  <1>5. \A d \in HoneycombCalls : d # c /\ Reading(d) =>
            BodyOf(d).expected = 0 /\ BodyOf(c).expected = 0
    <2> SUFFICES ASSUME NEW d \in HoneycombCalls, d # c, Reading(d)
                 PROVE  BodyOf(d).expected = 0 /\ BodyOf(c).expected = 0
      OBVIOUS
    <2>1. ~stored.exists
      BY <1>0 DEF RowHolders, Reading
    <2> QED
      BY <1>0, <2>1 DEF OperationsInv, OperationsPast, CallsStand, Calling, Reading
  <1>6. CallsStand'
    BY <1>0, <1>4, <1>5 DEF OperationsInv, CallsStand, Completed
  <1>7. answers' \in [HoneycombOps -> SUBSET Nat]
        /\ \A q \in HoneycombOps : answers'[q] \subseteq {result[q]} \ {0}
    BY <1>0 DEF OperationsInv, OperationsShape, OperationsPast
  <1> QED BY <1>0, <1>3, <1>6, <1>7, CallsAlone

LEMMA RejectKeeps ==
    ASSUME OperationsInv, NEW c \in HoneycombCalls, Reject(c) PROVE OperationsInv'
  <1>0. /\ request' = [request EXCEPT ![c] = NoHoneycombCall]
        /\ UNCHANGED <<body, stored, result, answers, letter, posts, received>>
    BY DEF Reject
  <1>1. request' \in [HoneycombCalls -> CallRows]
    BY <1>0 DEF CallRows, OperationsInv, OperationsShape
  <1>2. ~Calling(c)' /\ ~Reading(c)'
    BY <1>0 DEF Calling, Reading, NoHoneycombCall, OperationsInv, OperationsShape
  <1>3. \A d \in HoneycombCalls : d # c =>
            /\ request'[d].op = request[d].op /\ BodyOf(d)' = BodyOf(d)
            /\ Calling(d)' = Calling(d) /\ Reading(d)' = Reading(d)
    BY <1>0 DEF Calling, Reading, BodyOf, OperationsInv, OperationsShape
  <1>4. CallsStand'
    BY <1>0, <1>2, <1>3 DEF OperationsInv, CallsStand, Completed
  <1>5. answers' \in [HoneycombOps -> SUBSET Nat]
        /\ \A q \in HoneycombOps : answers'[q] \subseteq {result[q]} \ {0}
    BY <1>0 DEF OperationsInv, OperationsShape, OperationsPast
  <1> QED BY <1>0, <1>1, <1>4, <1>5, CallsAlone

\* What is accepted was based on the revision that stands, numbered above all before.
LEMMA AcceptKeeps ==
    ASSUME OperationsInv, NEW c \in HoneycombCalls, Accept(c) PROVE OperationsInv'
  <1>0. /\ request[c].op \in HoneycombOps /\ Calling(c) /\ Reading(c)
        /\ BodyOf(c) = body[request[c].op] /\ BodyOf(c) \in Bodies
    BY CallParts DEF Calling, Reading, BodyOf, OperationsInv, Accept
  <1> PICK o \in HoneycombOps, b \in Bodies, version \in Nat :
            o = request[c].op /\ b = body[o] /\ version = stored.version + 2
    BY <1>0 DEF OperationsInv, OperationsShape
  <1>1. /\ Reading(c) /\ Mutable(b) /\ Newer(b)
        /\ stored' = [exists |-> TRUE, gone |-> b.deleted, version |-> version,
                      configuration |-> b.configuration, by |-> o]
        /\ result' = [result EXCEPT ![o] = version]
        /\ answers' \in {answers, [answers EXCEPT ![o] = @ \cup {version}]}
        /\ letter' = [letter EXCEPT ![o] = QueuedLetter]
        /\ request' = [request EXCEPT ![c] = NoHoneycombCall]
        /\ UNCHANGED <<body, posts, received>>
    BY DEF Accept, Reading
  <1>2. o \in HoneycombOps /\ b \in Bodies /\ ~Completed(o) /\ b # NoBody
        /\ BodyOf(c) = b /\ Calling(c)
    BY <1>0 DEF BodyOf, OperationsInv, CallsStand
  <1>3. /\ version \in Nat /\ stored.version \in Nat /\ stored.version < version /\ version # 0
        /\ stored.configuration \in Nat /\ b.configuration \in Nat /\ b.expected \in Nat
    BY <1>2 DEF OperationsInv, OperationsShape, Bodies
  <1>4. b.expected = stored.version /\ stored.configuration < b.configuration
    BY <1>1, <1>2, <1>3 DEF Mutable, Newer, OperationsInv, OperationsPast, CallsStand
  <1>5. /\ result' \in [HoneycombOps -> Nat] /\ result'[o] = version
        /\ \A q \in HoneycombOps : q # o => result'[q] = result[q]
    BY <1>1, <1>2, <1>3 DEF OperationsInv, OperationsShape
  <1>6. /\ answers' \in [HoneycombOps -> SUBSET Nat]
        /\ answers'[o] \in {answers[o], answers[o] \cup {version}}
        /\ \A q \in HoneycombOps : q # o => answers'[q] = answers[q]
    BY <1>1, <1>2, <1>3 DEF OperationsInv, OperationsShape
  <1>7. /\ letter' \in [HoneycombOps -> Letters] /\ letter'[o] = QueuedLetter
        /\ \A q \in HoneycombOps : q # o => letter'[q] = letter[q]
    BY <1>1, <1>2 DEF OperationsInv, OperationsShape, QueuedLetter, NoLetter, Letters
  <1>8. /\ request' \in [HoneycombCalls -> CallRows] /\ request'[c] = NoHoneycombCall
        /\ \A d \in HoneycombCalls : d # c => request'[d] = request[d]
    BY <1>1 DEF OperationsInv, OperationsShape, CallRows
  <1>9. Completed(o)' /\ (\A q \in HoneycombOps : q # o => Completed(q)' = Completed(q))
    BY <1>3, <1>5 DEF Completed
  <1>10. /\ stored'.exists /\ stored'.version = version /\ stored'.by = o
         /\ stored'.configuration = b.configuration
         /\ stored' \in [exists : BOOLEAN, gone : BOOLEAN, version : Nat, configuration : Nat,
                         by : HoneycombOps \cup {Owner, Nobody}]
    <2>1. b.deleted \in BOOLEAN
      BY <1>2 DEF Bodies
    <2> QED BY <1>1, <1>2, <1>3, <2>1
  <1>11. b = body[o] /\ body' = body
    BY <1>1
  <1>12. OperationsShape'
    BY <1>1, <1>5, <1>6, <1>7, <1>8, <1>10 DEF OperationsInv, OperationsShape
  <1>13. \A q \in HoneycombOps : Completed(q) =>
            /\ body[q].expected < b.expected /\ body[q].expected \in Nat
            /\ body[q].configuration <= stored.configuration /\ body[q].configuration \in Nat
    BY <1>3, <1>4 DEF OperationsInv, OperationsPast, OperationsShape, Bodies
  <1>14. answers[o] = {}
    <2>1. result[o] = 0
      BY <1>2 DEF Completed, OperationsInv, OperationsShape
    <2> QED BY <1>2, <2>1 DEF OperationsInv, OperationsPast
  <1>15. OperationsPast'
    <2>1. \A q \in HoneycombOps :
              /\ body'[q].configuration = 0 => body'[q] = NoBody
              /\ answers'[q] \subseteq {result'[q]} \ {0}
              /\ Completed(q)' =>
                   /\ body'[q] # NoBody
                   /\ body'[q].configuration <= stored'.configuration
                   /\ body'[q].expected < stored'.version
      <3> SUFFICES ASSUME NEW q \in HoneycombOps
                   PROVE  /\ body[q].configuration = 0 => body[q] = NoBody
                          /\ answers'[q] \subseteq {result'[q]} \ {0}
                          /\ Completed(q)' => /\ body[q] # NoBody
                                              /\ body[q].configuration <= b.configuration
                                              /\ body[q].expected < version
        BY <1>10, <1>11
      <3>1. CASE q = o
        BY <3>1, <1>2, <1>3, <1>4, <1>5, <1>6, <1>11, <1>14 DEF OperationsInv, OperationsPast
      <3>2. CASE q # o
        BY <3>2, <1>3, <1>4, <1>5, <1>6, <1>9, <1>13 DEF OperationsInv, OperationsPast
      <3> QED BY <3>1, <3>2
    <2>2. \A p, q \in Accepted' : p # q => body'[p].expected # body'[q].expected
      <3> SUFFICES ASSUME NEW p \in HoneycombOps, NEW q \in HoneycombOps, Completed(p)',
                          Completed(q)', p # q
                   PROVE  body[p].expected # body[q].expected
        BY <1>11 DEF Accepted
      <3>1. CASE p # o /\ q # o
        BY <3>1, <1>9 DEF OperationsInv, OperationsPast, Accepted
      <3>2. CASE p = o \/ q = o
        BY <3>2, <1>3, <1>9, <1>11, <1>13
      <3> QED BY <3>1, <3>2
    <2> QED BY <1>9, <1>10, <1>11, <2>1, <2>2 DEF OperationsPast
  <1>16. CallsStand'
    <2>1. ~Calling(c)' /\ ~Reading(c)'
      BY <1>8 DEF Calling, Reading, NoHoneycombCall
    <2>2. \A d \in HoneycombCalls : d # c =>
              /\ request'[d] = request[d] /\ BodyOf(d)' = BodyOf(d)
              /\ Calling(d)' = Calling(d) /\ Reading(d)' = Reading(d)
      BY <1>8, <1>11 DEF Calling, Reading, BodyOf
    <2>3. \A d \in HoneycombCalls : d # c /\ Calling(d) =>
              request[d].op \in HoneycombOps /\ request[d].op # o
              /\ result'[request[d].op] = result[request[d].op]
      BY ZenonT(90), <1>2, <1>5, CallParts DEF OperationsInv, CallsStand
    <2>4. \A d \in HoneycombCalls : d # c /\ Reading(d) =>
              BodyOf(d).expected = 0 /\ Calling(d)
      BY <1>1 DEF OperationsInv, CallsStand, Reading, Calling
    <2>5. \A d \in HoneycombCalls : Calling(d)' =>
              /\ ~(result'[request'[d].op] > 0) /\ BodyOf(d)' # NoBody
              /\ Reading(d)' => BodyOf(d)'.expected = 0 /\ stored'.exists
      <3> SUFFICES ASSUME NEW d \in HoneycombCalls, Calling(d)'
                   PROVE  /\ ~(result'[request'[d].op] > 0) /\ BodyOf(d)' # NoBody
                          /\ Reading(d)' => BodyOf(d)'.expected = 0 /\ stored'.exists
        OBVIOUS
      <3>1. d # c /\ Calling(d) /\ request'[d].op = request[d].op
        BY <2>1, <2>2
      <3>2. ~Completed(request[d].op) /\ BodyOf(d) # NoBody
        BY <3>1 DEF OperationsInv, CallsStand
      <3>3. ~(result'[request'[d].op] > 0)
        BY <3>1, <3>2, <2>3 DEF Completed
      <3> QED BY <3>1, <3>2, <3>3, <2>2, <2>4, <1>10
    <2>6. \A d, e \in HoneycombCalls : d # e =>
              /\ Calling(d)' /\ Calling(e)' => request'[d].op # request'[e].op
              /\ Reading(d)' /\ Reading(e)' => BodyOf(d)'.expected = 0 /\ BodyOf(e)'.expected = 0
      BY <2>1, <2>2 DEF OperationsInv, CallsStand
    <2> QED BY <2>5, <2>6 DEF CallsStand, Completed
  <1>17. LettersStand'
    <2>1. \A p \in posts : p.op \in HoneycombOps /\ p.op # o
      BY <1>2 DEF OperationsInv, OperationsShape, LettersStand, Posts
    <2>2. ~QueuedLetter.delivered
      BY DEF QueuedLetter, NoLetter
    <2> QED BY <1>1, <1>7, <1>9, <2>1, <2>2 DEF OperationsInv, LettersStand
  <1> QED BY <1>12, <1>15, <1>16, <1>17 DEF OperationsInv

LEMMA OwnerKeeps ==
    ASSUME OperationsInv, NEW gone \in BOOLEAN, OwnerWrites(gone) PROVE OperationsInv'
  <1>1. /\ RowHolders = {}
        /\ stored' = [stored EXCEPT !.exists = TRUE, !.gone = gone, !.version = @ + 1,
                                    !.by = Owner]
        /\ UNCHANGED <<body, result, answers, request, letter, posts, received>>
    BY DEF OwnerWrites
  <1>a. stored' = [exists |-> TRUE, gone |-> gone, version |-> stored.version + 1,
                   configuration |-> stored.configuration, by |-> Owner]
    <2>1. stored \in [exists : BOOLEAN, gone : BOOLEAN, version : Nat, configuration : Nat,
                      by : HoneycombOps \cup {Owner, Nobody}]
      BY DEF OperationsInv, OperationsShape
    <2> QED BY <1>1, <2>1
  <1>2. /\ stored' \in [exists : BOOLEAN, gone : BOOLEAN, version : Nat, configuration : Nat,
                        by : HoneycombOps \cup {Owner, Nobody}]
        /\ stored'.exists /\ stored'.version = stored.version + 1 /\ stored'.by = Owner
        /\ stored'.configuration = stored.configuration /\ stored.version \in Nat
    BY <1>a DEF OperationsInv, OperationsShape
  <1>3. OperationsShape'
    BY <1>1, <1>2 DEF OperationsInv, OperationsShape
  <1>4. OperationsPast'
    <2>1. \A o \in HoneycombOps : body[o].expected \in Nat
      BY DEF OperationsInv, OperationsShape, Bodies
    <2> QED
      BY <1>1, <1>2, <2>1, HoneycombAssumption DEF OperationsInv, OperationsPast, Completed,
         Accepted
  <1>5. CallsStand'
    BY <1>1 DEF OperationsInv, CallsStand, Calling, Reading, BodyOf, Completed, RowHolders
  <1>6. LettersStand'
    BY <1>1 DEF OperationsInv, LettersStand, Completed
  <1> QED BY <1>3, <1>4, <1>5, <1>6 DEF OperationsInv

\* The letters of the operations change, and perhaps one post.
LEMMA ClaimLetterKeeps ==
    ASSUME OperationsInv, NEW o \in HoneycombOps, ClaimLetter(o) PROVE OperationsInv'
  <1> PICK n \in Nat : n = letter[o].attempt
    BY DEF OperationsInv, OperationsShape, Letters
  <1> DEFINE post == [op |-> o, attempt |-> n + 1, ok |-> FALSE]
  <1>1. /\ letter[o].on /\ ~letter[o].delivered
        /\ letter' = [letter EXCEPT ![o].attempt = @ + 1, ![o].due = FALSE]
        /\ posts' = posts \cup {post}
        /\ UNCHANGED <<body, stored, result, answers, request, received>>
    BY DEF ClaimLetter
  <1>2. letter[o] \in Letters
    BY DEF OperationsInv, OperationsShape
  <1> PICK turned \in Letters : turned = [letter[o] EXCEPT !.attempt = n + 1, !.due = FALSE]
    <2>1. n + 1 \in Nat
      OBVIOUS
    <2> QED BY <1>2, <2>1 DEF Letters
  <1>3. /\ letter' = [letter EXCEPT ![o] = turned]
        /\ turned.on = letter[o].on /\ turned.attempt = n + 1
        /\ turned.delivered = letter[o].delivered
    BY <1>1, <1>2 DEF Letters
  <1>4. /\ letter' \in [HoneycombOps -> Letters] /\ letter'[o] = turned
        /\ \A q \in HoneycombOps : q # o => letter'[q] = letter[q]
    BY <1>3 DEF OperationsInv, OperationsShape
  <1>a. post \in Posts
    BY DEF Posts
  <1>5. posts' \subseteq Posts
    BY <1>1, <1>a DEF OperationsInv, OperationsShape
  <1>6. \A p \in posts : p.op \in HoneycombOps /\ p.attempt \in Nat
                         /\ (p.op = o => p.attempt < n + 1)
    BY DEF OperationsInv, OperationsShape, LettersStand, Posts
  <1>7. post.op = o /\ post.attempt = n + 1 /\ ~post.ok
    OBVIOUS
  <1>8. posts' = posts \cup {post}
    BY <1>1
  <1> HIDE DEF post
  <1>9. \A p \in posts' :
            /\ letter'[p.op].on /\ p.attempt <= letter'[p.op].attempt
            /\ p.ok => p.op \in received
            /\ letter'[p.op].delivered => p.attempt < letter'[p.op].attempt \/ p.ok
    <2>1. \A p \in posts : p.op = o =>
              /\ letter'[p.op].on /\ p.attempt <= letter'[p.op].attempt
              /\ p.attempt < letter'[p.op].attempt
      BY <1>1, <1>3, <1>4, <1>6
    <2>2. \A p \in posts : p.op # o => letter'[p.op] = letter[p.op]
      BY <1>4, <1>6
    <2>3. /\ letter'[post.op].on /\ post.attempt <= letter'[post.op].attempt
          /\ ~letter'[post.op].delivered
      BY <1>1, <1>3, <1>4, <1>7
    <2> QED BY <1>7, <1>8, <2>1, <2>2, <2>3 DEF OperationsInv, LettersStand
  <1>10. LettersStand'
    BY SMTT(30), <1>1, <1>3, <1>4, <1>6, <1>7, <1>8, <1>9 DEF OperationsInv, LettersStand, Completed
  <1> QED BY <1>1, <1>4, <1>5, <1>10, LettersAlone

\* A letter is due again, or is to be sent again: no attempt counts as delivered.
LEMMA LetterEases ==
    ASSUME OperationsInv, NEW o \in HoneycombOps, NEW turned \in Letters,
           letter[o].on, turned.on, turned.attempt = letter[o].attempt,
           turned.delivered => letter[o].delivered,
           letter' = [letter EXCEPT ![o] = turned],
           UNCHANGED <<body, stored, result, answers, request, posts, received>>
    PROVE  OperationsInv'
  <1>1. /\ letter' \in [HoneycombOps -> Letters] /\ letter'[o] = turned
        /\ \A q \in HoneycombOps : q # o => letter'[q] = letter[q]
    BY DEF OperationsInv, OperationsShape
  <1>2. \A p \in posts : p.op \in HoneycombOps
    BY DEF OperationsInv, OperationsShape, Posts
  <1>3. LettersStand'
    BY <1>1, <1>2 DEF OperationsInv, LettersStand, Completed
  <1>4. posts' \subseteq Posts
    BY DEF OperationsInv, OperationsShape
  <1> QED BY <1>1, <1>3, <1>4, LettersAlone

LEMMA LetterTurns ==
    ASSUME OperationsInv, NEW o \in HoneycombOps, LetterDue(o) \/ ReplayLetter(o)
    PROVE  OperationsInv'
  <1>1. letter[o] \in Letters /\ letter \in [HoneycombOps -> Letters]
    BY DEF OperationsInv, OperationsShape
  <1>2. CASE LetterDue(o)
    <2>1. PICK turned \in Letters : turned = [letter[o] EXCEPT !.due = TRUE]
      BY <1>1 DEF Letters
    <2>2. /\ turned.on = letter[o].on /\ turned.attempt = letter[o].attempt
          /\ turned.delivered => letter[o].delivered
      BY <1>1, <2>1 DEF Letters
    <2>3. letter' = [letter EXCEPT ![o] = turned] /\ letter[o].on
          /\ UNCHANGED <<body, stored, result, answers, request, posts, received>>
      BY <1>2, <2>1 DEF LetterDue
    <2> QED BY <2>2, <2>3, LetterEases
  <1>3. CASE ReplayLetter(o)
    <2>1. PICK turned \in Letters : turned = [letter[o] EXCEPT !.delivered = FALSE, !.due = TRUE]
      BY <1>1 DEF Letters
    <2>2. /\ turned.on = letter[o].on /\ turned.attempt = letter[o].attempt
          /\ turned.delivered => letter[o].delivered
      BY <1>1, <2>1 DEF Letters
    <2>3. letter' = [letter EXCEPT ![o] = turned] /\ letter[o].on
          /\ UNCHANGED <<body, stored, result, answers, request, posts, received>>
      BY <1>3, <2>1 DEF ReplayLetter
    <2> QED BY <2>2, <2>3, LetterEases
  <1> QED BY <1>2, <1>3

\* A post arrives: it is received, whether or not its worker learns it.
LEMMA ArriveKeeps ==
    ASSUME OperationsInv, NEW p \in posts, Arrive(p) PROVE OperationsInv'
  <1>1. /\ received' = received \cup {p.op}
        /\ posts' \in {posts, (posts \ {p}) \cup {[p EXCEPT !.ok = TRUE]}}
        /\ UNCHANGED <<body, stored, result, answers, request, letter>>
    BY DEF Arrive
  <1>2. p \in Posts
    BY DEF OperationsInv, OperationsShape
  <1>3. PICK took \in Posts : took = [p EXCEPT !.ok = TRUE]
    BY <1>2 DEF Posts
  <1>4. took.op = p.op /\ took.attempt = p.attempt /\ took.ok /\ took.op \in received'
    BY <1>1, <1>2, <1>3 DEF Posts
  <1>5. posts' = posts \/ posts' = (posts \ {p}) \cup {took}
    BY <1>1, <1>3
  <1>6. posts' \subseteq Posts
    BY <1>5 DEF OperationsInv, OperationsShape
  <1>7. LettersStand'
    <2>1. \A o \in HoneycombOps : letter[o].delivered => o \in received'
      BY <1>1 DEF OperationsInv, LettersStand
    <2>2. \A q \in posts' : q \in posts \/ q = took
      BY <1>5
    <2>3. \A q \in posts' :
              /\ letter[q.op].on /\ q.attempt <= letter[q.op].attempt
              /\ q.ok => q.op \in received'
              /\ letter[q.op].delivered => q.attempt < letter[q.op].attempt \/ q.ok
      BY <1>1, <1>4, <2>2 DEF OperationsInv, LettersStand
    <2>4. \A q, r \in posts' : q.op = r.op /\ q.attempt = r.attempt => q = r
      BY <1>4, <1>5 DEF OperationsInv, LettersStand
    <2> QED BY <1>1, <2>1, <2>3, <2>4 DEF OperationsInv, LettersStand, Completed
  <1>8. letter' \in [HoneycombOps -> Letters]
    BY <1>1 DEF OperationsInv, OperationsShape
  <1> QED BY <1>1, <1>6, <1>7, <1>8, LettersAlone

\* A worker finishes its post or stops; only the attempt that stands is finished.
LEMMA FinishKeeps ==
    ASSUME OperationsInv, NEW p \in posts, FinishLetter(p) \/ DropPost(p) PROVE OperationsInv'
  <1>1. /\ posts' = posts \ {p}
        /\ \/ letter' = letter
           \/ /\ Current(p)
              /\ letter' = [letter EXCEPT ![p.op].delivered = p.ok, ![p.op].due = FALSE]
        /\ UNCHANGED <<body, stored, result, answers, request, received>>
    BY DEF FinishLetter, DropPost
  <1>2. posts' \subseteq Posts /\ p \in Posts
    BY <1>1 DEF OperationsInv, OperationsShape
  <1>3. CASE letter' = letter
    <2>1. LettersStand' /\ letter' \in [HoneycombOps -> Letters]
      BY <1>1, <1>3 DEF OperationsInv, OperationsShape, LettersStand, Completed
    <2> QED BY <1>1, <1>2, <2>1, LettersAlone
  <1>4. CASE /\ Current(p)
             /\ letter' = [letter EXCEPT ![p.op].delivered = p.ok, ![p.op].due = FALSE]
    <2>1. PICK o \in HoneycombOps : o = p.op
      BY <1>2 DEF Posts
    <2>2. letter[o] \in Letters /\ letter[o].attempt = p.attempt /\ p.ok \in BOOLEAN
      BY <1>2, <1>4, <2>1 DEF OperationsInv, OperationsShape, Current, Posts
    <2>3. letter'[o] = [on |-> letter[o].on, attempt |-> letter[o].attempt, due |-> FALSE,
                        delivered |-> p.ok]
      BY <1>4, <2>1, <2>2 DEF OperationsInv, OperationsShape, Letters
    <2>4. /\ letter' \in [HoneycombOps -> Letters]
          /\ \A q \in HoneycombOps : q # o => letter'[q] = letter[q]
      BY <1>4, <2>1, <2>2, <2>3 DEF OperationsInv, OperationsShape, Letters
    <2>5. \A q \in posts' :
              /\ q \in posts /\ q # p /\ q.op \in HoneycombOps /\ q.attempt \in Nat
              /\ q.op = o => q.attempt < letter[o].attempt
      BY <1>1, <1>2, <2>1, <2>2 DEF OperationsInv, LettersStand, Posts, Letters
    <2>6. \A q \in posts' :
              /\ letter'[q.op].on /\ q.attempt <= letter'[q.op].attempt
              /\ letter'[q.op].delivered => q.attempt < letter'[q.op].attempt \/ q.ok
      <3> SUFFICES ASSUME NEW q \in posts'
                   PROVE  /\ letter'[q.op].on /\ q.attempt <= letter'[q.op].attempt
                          /\ letter'[q.op].delivered
                               => q.attempt < letter'[q.op].attempt \/ q.ok
        OBVIOUS
      <3>1. CASE q.op = o
        BY <2>2, <2>3, <2>5, <3>1 DEF OperationsInv, LettersStand, Letters
      <3>2. CASE q.op # o
        BY <2>4, <2>5, <3>2 DEF OperationsInv, LettersStand
      <3> QED BY <3>1, <3>2
    <2>7. LettersStand'
      BY <1>1, <2>1, <2>2, <2>3, <2>4, <2>5, <2>6 DEF OperationsInv, LettersStand, Completed
    <2> QED BY <1>1, <1>2, <2>4, <2>7, LettersAlone
  <1> QED BY <1>1, <1>3, <1>4

LEMMA OperationsStep == OperationsInv /\ [OperationsNext]_operationsVars => OperationsInv'
  <1>1. ASSUME OperationsInv, UNCHANGED operationsVars PROVE OperationsInv'
    <2>1. letter' \in [HoneycombOps -> Letters] /\ posts' \subseteq Posts /\ LettersStand'
      BY <1>1 DEF operationsVars, OperationsInv, OperationsShape, LettersStand, Completed
    <2> QED BY <1>1, <2>1, LettersAlone DEF operationsVars
  <1> QED
    BY <1>1, ComposeKeeps, ClaimKeeps, ReadKeeps, AcceptKeeps, RejectKeeps, OwnerKeeps,
       ClaimLetterKeeps, LetterTurns, ArriveKeeps, FinishKeeps DEF OperationsNext

\* Honeycomb's operations take effect in the order of their numbers, each based on a
\* revision of its own, and a notification counts as delivered only when it was.
THEOREM HoneycombSoundHolds == OperationsSpec => []HoneycombSound
  <1>1. ASSUME OperationsInv PROVE HoneycombSound
    <2>1. ASSUME stored.by \in HoneycombOps
          PROVE  body[stored.by].configuration = Max({body[o].configuration : o \in Accepted})
      <3> DEFINE S == {body[o].configuration : o \in Accepted}
                 m == body[stored.by].configuration
      <3>1. m \in S /\ \A x \in S : m >= x
        BY <1>1, <2>1 DEF OperationsInv, OperationsShape, OperationsPast, Accepted, Bodies
      <3>2. S \subseteq Nat
        BY <1>1 DEF OperationsInv, OperationsShape, Accepted, Bodies
      <3> HIDE DEF S, m
      <3>3. \A x \in S : (\A y \in S : x >= y) => x = m
        BY <3>1, <3>2
      <3>4. Max(S) = m
        BY <3>1, <3>3 DEF Max
      <3> QED BY <3>4 DEF S, m
    <2> QED
      BY <1>1, <2>1 DEF OperationsInv, OperationsPast, LettersStand, HoneycombSound,
         ConfigurationOrdered, NotifiedOnce
  <1> QED BY OperationsStart, OperationsStep, <1>1, PTL DEF OperationsSpec

----------------------------------------------------------------------------
(* The webhook of a silicon (SiliconWebhook) *)

HookRows == [status : {"none", "active", "disabled"}, key : Nat, keys : Nat]
DispatchRows == [status : {"none", "pending", "processing", "delivered", "dead_letter", "cancelled"},
                 config : Nat, key : Nat]
FannedRows == [stage : {"waiting", "read", "locked", "chosen", "expanded"}, candidates : SUBSET Receivers,
               chosen : SUBSET (Receivers \X Nat \X Nat)]
RedirectRows == {NoRedirect} \cup [at : {"resolving"}, silicon : Receivers]

SiliconTyped ==
    /\ receiver \in [Receivers -> {"active", "removed"}]
    /\ hook \in [Receivers -> HookRows]
    /\ interest \in [Receivers -> SUBSET FanEvents]
    /\ config \in [Receivers -> Nat]
    /\ fanned \in [FanEvents -> FannedRows]
    /\ dispatch \in [FanEvents -> [Receivers -> DispatchRows]]
    /\ redirect \in [Redirects -> RedirectRows]

(* A silicon with an interest or a key has an active endpoint, and one with an active
   endpoint was not removed. *)
HookStands(s) ==
    /\ hook[s].status # "active" => hook[s].key = 0 /\ interest[s] = {}
    /\ receiver[s] = "removed" => hook[s].status # "active"

(* The target that an expansion has chosen is the silicon as it is set up now: its scope is
   locked. *)
TargetNow(e, s, version, key) ==
    /\ version = config[s] /\ key = hook[s].key
    /\ e \in interest[s] /\ TargetActive(s) /\ HookActive(s)
ChosenNow(e) ==
    fanned[e].stage = "chosen" =>
        \A c \in fanned[e].chosen : c[1] \in fanned[e].candidates /\ TargetNow(e, c[1], c[2], c[3])

(* What is queued is meant for the silicon as it is set up now. *)
QueuedNow(e, s) ==
    Queued(dispatch[e][s]) => TargetNow(e, s, dispatch[e][s].config, dispatch[e][s].key)

SiliconInv ==
    /\ SiliconTyped
    /\ \A s \in Receivers : HookStands(s)
    /\ \A e \in FanEvents : ChosenNow(e)
    /\ \A e \in FanEvents, s \in Receivers : QueuedNow(e, s)

\* A silicon whose scope is free, or that has no active endpoint, is in no choice.
LEMMA NotChosen ==
    ASSUME SiliconInv, NEW s \in Receivers, DeliveryScopeFree(s) \/ ~HookActive(s),
           NEW e \in FanEvents, fanned[e].stage = "chosen", NEW c \in fanned[e].chosen
    PROVE  c[1] \in Receivers \ {s}
<1>1. c \in Receivers \X Nat \X Nat
  BY DEF SiliconInv, SiliconTyped, FannedRows
<1>2. c[1] \in Receivers
  BY <1>1
<1>3. c[1] \in fanned[e].candidates /\ HookActive(c[1])
  BY DEF SiliconInv, ChosenNow, TargetNow
<1> QED  BY <1>2, <1>3 DEF DeliveryScopeFree

\* One silicon is set up anew: its own rows change, its queue is empty.
LEMMA Reconfigures ==
    ASSUME SiliconInv, SiliconTyped', NEW s \in Receivers, DeliveryScopeFree(s) \/ ~HookActive(s),
           \A q \in Receivers \ {s} : /\ receiver'[q] = receiver[q] /\ hook'[q] = hook[q]
                                      /\ interest'[q] = interest[q] /\ config'[q] = config[q],
           HookStands(s)', UNCHANGED fanned,
           \A e \in FanEvents, q \in Receivers \ {s} : dispatch'[e][q] = dispatch[e][q],
           \A e \in FanEvents : ~Queued(dispatch'[e][s])
    PROVE  SiliconInv'
<1>1. ASSUME NEW q \in Receivers
      PROVE  HookStands(q)'
  BY DEF SiliconInv, HookStands
<1>2. ASSUME NEW e \in FanEvents
      PROVE  ChosenNow(e)'
  <2>1. ASSUME fanned[e].stage = "chosen", NEW c \in fanned[e].chosen
        PROVE  c[1] \in fanned[e].candidates /\ TargetNow(e, c[1], c[2], c[3])'
    <3>1. c[1] \in Receivers \ {s}
      BY <2>1, NotChosen
    <3>2. c[1] \in fanned[e].candidates /\ TargetNow(e, c[1], c[2], c[3])
      BY <2>1 DEF SiliconInv, ChosenNow
    <3> QED  BY <3>1, <3>2 DEF TargetNow, TargetActive, HookActive
  <2> QED  BY <2>1 DEF ChosenNow
<1>3. ASSUME NEW e \in FanEvents, NEW q \in Receivers
      PROVE  QueuedNow(e, q)'
  <2>1. CASE q = s
    BY <2>1 DEF QueuedNow
  <2>2. CASE q # s
    <3>1. QueuedNow(e, q)
      BY DEF SiliconInv
    <3> QED  BY <2>2, <3>1 DEF QueuedNow, TargetNow, TargetActive, HookActive
  <2> QED  BY <2>1, <2>2
<1> QED  BY <1>1, <1>2, <1>3 DEF SiliconInv

\* A change of nothing but deliveries.
LEMMA Dispatches ==
    ASSUME SiliconInv, SiliconTyped', UNCHANGED <<receiver, hook, interest, config>>,
           \A e \in FanEvents : fanned'[e].stage = "chosen" => fanned'[e] = fanned[e],
           \A e \in FanEvents, s \in Receivers : Queued(dispatch'[e][s]) =>
               \/ Queued(dispatch[e][s]) /\ dispatch'[e][s].config = dispatch[e][s].config
                                         /\ dispatch'[e][s].key = dispatch[e][s].key
               \/ TargetNow(e, s, dispatch'[e][s].config, dispatch'[e][s].key)
    PROVE  SiliconInv'
<1>1. \A e, s, version, key : TargetNow(e, s, version, key) => TargetNow(e, s, version, key)'
  BY DEF TargetNow, TargetActive, HookActive
<1>2. \A s \in Receivers : HookStands(s)'
  BY DEF SiliconInv, HookStands
<1>3. ASSUME NEW e \in FanEvents
      PROVE  ChosenNow(e)'
  <2>1. ChosenNow(e)
    BY DEF SiliconInv
  <2> QED  BY <1>1, <2>1 DEF ChosenNow, TargetNow, TargetActive, HookActive
<1>4. ASSUME NEW e \in FanEvents, NEW s \in Receivers
      PROVE  QueuedNow(e, s)'
  <2>1. QueuedNow(e, s)
    BY DEF SiliconInv
  <2> QED  BY <2>1 DEF QueuedNow, TargetNow, TargetActive, HookActive
<1> QED  BY <1>2, <1>3, <1>4 DEF SiliconInv

LEMMA CancelledTyped ==
    ASSUME SiliconTyped, NEW s \in Receivers
    PROVE  /\ Cancelled(s) \in [FanEvents -> [Receivers -> DispatchRows]]
           /\ \A e \in FanEvents : ~Queued(Cancelled(s)[e][s])
           /\ \A e \in FanEvents, q \in Receivers \ {s} : Cancelled(s)[e][q] = dispatch[e][q]
<1>1. ASSUME NEW e \in FanEvents
      PROVE  /\ Cancelled(s)[e] \in [Receivers -> DispatchRows]
             /\ ~Queued(Cancelled(s)[e][s])
             /\ \A q \in Receivers \ {s} : Cancelled(s)[e][q] = dispatch[e][q]
  <2>1. dispatch[e] \in [Receivers -> DispatchRows] /\ dispatch[e][s] \in DispatchRows
    BY DEF SiliconTyped
  <2>2. PICK d : d = IF Queued(dispatch[e][s]) THEN [dispatch[e][s] EXCEPT !.status = "cancelled"] ELSE dispatch[e][s]
    OBVIOUS
  <2>3. d \in DispatchRows /\ ~Queued(d)
    <3>1. CASE Queued(dispatch[e][s])
      BY <2>1, <2>2, <3>1 DEF DispatchRows, Queued
    <3>2. CASE ~Queued(dispatch[e][s])
      BY <2>1, <2>2, <3>2
    <3> QED  BY <3>1, <3>2
  <2>4. Cancelled(s)[e] = [dispatch[e] EXCEPT ![s] = d]
    BY <2>2 DEF Cancelled
  <2> QED  BY <2>1, <2>3, <2>4
<1> QED  BY <1>1 DEF Cancelled

LEMMA FinishRedirectKeeps ==
    ASSUME SiliconInv, NEW r \in Redirects, FinishRedirect(r)
    PROVE  SiliconInv'
<1> USE DEF SiliconInv
<1>1. redirect[r] \in RedirectRows /\ redirect[r] # NoRedirect
  BY DEF SiliconTyped, FinishRedirect
<1>2. PICK s \in Receivers : s = redirect[r].silicon
  BY <1>1 DEF RedirectRows
<1>3. hook[s] \in HookRows /\ config[s] \in Nat
  BY DEF SiliconTyped
<1>4. PICK h : h = [hook[s] EXCEPT !.key = hook[s].keys + 1, !.keys = hook[s].keys + 1, !.status = "active"]
  OBVIOUS
<1>5. h \in HookRows /\ h.status = "active"
  <2>1. hook[s].keys \in Nat
    BY <1>3 DEF HookRows
  <2>2. hook[s].keys + 1 \in Nat
    BY <2>1
  <2> QED  BY <1>3, <1>4, <2>2 DEF HookRows
<1>6. hook' = [hook EXCEPT ![s] = h]
  <2>1. [NextKey(WithoutKey(hook[s])) EXCEPT !.status = "active"] = h
    BY <1>3, <1>4 DEF NextKey, WithoutKey, HookRows
  <2> QED  BY <1>2, <2>1 DEF FinishRedirect, SiliconTyped
<1>7. config' = [config EXCEPT ![s] = @ + 1] /\ config[s] + 1 \in Nat
  BY <1>2, <1>3 DEF FinishRedirect, Reconfigured
<1>8. /\ TargetActive(s) /\ UNCHANGED <<receiver, interest, fanned>>
      /\ hook[s].status # "none" => DeliveryScopeFree(s)
      /\ dispatch' = IF hook[s].status = "none" THEN dispatch ELSE Cancelled(s)
      /\ redirect' = [redirect EXCEPT ![r] = NoRedirect]
  BY <1>2 DEF FinishRedirect
<1>9. /\ dispatch' \in [FanEvents -> [Receivers -> DispatchRows]]
      /\ \A e \in FanEvents : ~Queued(dispatch'[e][s])
      /\ \A e \in FanEvents, q \in Receivers \ {s} : dispatch'[e][q] = dispatch[e][q]
  <2>1. CASE hook[s].status = "none"
    <3>1. dispatch' = dispatch
      BY <1>8, <2>1
    <3>2. \A e \in FanEvents : ~Queued(dispatch[e][s])
      BY <2>1 DEF QueuedNow, TargetNow, HookActive
    <3> QED  BY <3>1, <3>2 DEF SiliconTyped
  <2>2. CASE hook[s].status # "none"
    BY <1>8, <2>2, CancelledTyped
  <2> QED  BY <2>1, <2>2
<1>10. SiliconTyped'
  <2>1. hook' \in [Receivers -> HookRows] /\ config' \in [Receivers -> Nat]
    BY <1>5, <1>6, <1>7 DEF SiliconTyped
  <2>2. redirect' \in [Redirects -> RedirectRows]
    BY <1>8 DEF SiliconTyped, RedirectRows
  <2> QED  BY <1>8, <1>9, <2>1, <2>2 DEF SiliconTyped
<1>11. HookStands(s)'
  <2>1. hook'[s].status = "active" /\ receiver'[s] = "active"
    BY <1>5, <1>6, <1>8 DEF SiliconTyped, TargetActive
  <2> QED  BY <2>1 DEF HookStands
<1>12. DeliveryScopeFree(s) \/ ~HookActive(s)
  BY <1>8 DEF HookActive
<1>13. \A q \in Receivers \ {s} : /\ receiver'[q] = receiver[q] /\ hook'[q] = hook[q]
                                  /\ interest'[q] = interest[q] /\ config'[q] = config[q]
  BY <1>6, <1>7, <1>8 DEF SiliconTyped
<1> QED  BY <1>8, <1>9, <1>10, <1>11, <1>12, <1>13, Reconfigures

\* A disabled endpoint has no key.
LEMMA DisabledTyped ==
    ASSUME SiliconTyped, NEW s \in Receivers
    PROVE  \E h \in HookRows : /\ h = [WithoutKey(hook[s]) EXCEPT !.status = "disabled"]
                               /\ h.status = "disabled" /\ h.key = 0
<1>1. hook[s] \in HookRows
  BY DEF SiliconTyped
<1>2. PICK h : h = [hook[s] EXCEPT !.key = 0, !.status = "disabled"]
  OBVIOUS
<1>3. h \in HookRows /\ h.status = "disabled" /\ h.key = 0
  BY <1>1, <1>2 DEF HookRows
<1>4. h = [WithoutKey(hook[s]) EXCEPT !.status = "disabled"]
  BY <1>1, <1>2 DEF WithoutKey, HookRows
<1> QED  BY <1>3, <1>4

LEMMA DeleteWebhookKeeps ==
    ASSUME SiliconInv, NEW s \in Receivers, DeleteWebhook(s)
    PROVE  SiliconInv'
<1> USE DEF SiliconInv
<1>1. PICK h \in HookRows : /\ h = [WithoutKey(hook[s]) EXCEPT !.status = "disabled"]
                            /\ h.status = "disabled" /\ h.key = 0
  BY DisabledTyped
<1>2. /\ hook' = [hook EXCEPT ![s] = h] /\ interest' = [interest EXCEPT ![s] = {}]
      /\ dispatch' = Cancelled(s) /\ config' = [config EXCEPT ![s] = @ + 1]
      /\ UNCHANGED <<receiver, fanned, redirect>> /\ DeliveryScopeFree(s)
  BY <1>1 DEF DeleteWebhook, Reconfigured, SiliconTyped
<1>3. config' \in [Receivers -> Nat]
  <2>1. config[s] + 1 \in Nat
    BY DEF SiliconTyped
  <2> QED  BY <1>2, <2>1 DEF SiliconTyped
<1>4. SiliconTyped'
  BY <1>2, <1>3, CancelledTyped DEF SiliconTyped
<1>5. HookStands(s)'
  BY <1>1, <1>2 DEF HookStands, SiliconTyped
<1>6. \A q \in Receivers \ {s} : /\ receiver'[q] = receiver[q] /\ hook'[q] = hook[q]
                                 /\ interest'[q] = interest[q] /\ config'[q] = config[q]
  BY <1>2 DEF SiliconTyped
<1> QED  BY <1>2, <1>4, <1>5, <1>6, CancelledTyped, Reconfigures

LEMMA RemoveReceiverKeeps ==
    ASSUME SiliconInv, NEW s \in Receivers, RemoveReceiver(s)
    PROVE  SiliconInv'
<1> USE DEF SiliconInv
<1>1. PICK h \in HookRows : /\ h = [WithoutKey(hook[s]) EXCEPT !.status = "disabled"]
                            /\ h.status = "disabled" /\ h.key = 0
  BY DisabledTyped
<1>2. /\ receiver' = [receiver EXCEPT ![s] = "removed"] /\ config' = [config EXCEPT ![s] = @ + 1]
      /\ UNCHANGED <<fanned, redirect>>
  BY DEF RemoveReceiver, Reconfigured
<1>3. config' \in [Receivers -> Nat] /\ receiver' \in [Receivers -> {"active", "removed"}]
  <2>1. config[s] + 1 \in Nat
    BY DEF SiliconTyped
  <2> QED  BY <1>2, <2>1 DEF SiliconTyped
<1>4. CASE hook[s].status = "none"
  <2>1. UNCHANGED <<hook, interest, dispatch>>
    BY <1>4 DEF RemoveReceiver
  <2>2. SiliconTyped'
    BY <1>2, <1>3, <2>1 DEF SiliconTyped
  <2>3. HookStands(s)'
    BY <1>4, <2>1 DEF HookStands
  <2>4. \A e \in FanEvents : ~Queued(dispatch[e][s])
    BY <1>4 DEF QueuedNow, TargetNow, HookActive
  <2>5. ~HookActive(s)
    BY <1>4 DEF HookActive
  <2>6. \A q \in Receivers \ {s} : /\ receiver'[q] = receiver[q] /\ hook'[q] = hook[q]
                                   /\ interest'[q] = interest[q] /\ config'[q] = config[q]
    BY <1>2, <2>1 DEF SiliconTyped
  <2> QED  BY <1>2, <2>1, <2>2, <2>3, <2>4, <2>5, <2>6, Reconfigures
<1>5. CASE hook[s].status # "none"
  <2>1. /\ hook' = [hook EXCEPT ![s] = h] /\ interest' = [interest EXCEPT ![s] = {}]
        /\ dispatch' = Cancelled(s) /\ DeliveryScopeFree(s)
    BY <1>1, <1>5 DEF RemoveReceiver, SiliconTyped
  <2>2. SiliconTyped'
    BY <1>2, <1>3, <2>1, CancelledTyped DEF SiliconTyped
  <2>3. HookStands(s)'
    BY <1>1, <2>1 DEF HookStands, SiliconTyped
  <2>4. \A q \in Receivers \ {s} : /\ receiver'[q] = receiver[q] /\ hook'[q] = hook[q]
                                   /\ interest'[q] = interest[q] /\ config'[q] = config[q]
    BY <1>2, <2>1 DEF SiliconTyped
  <2> QED  BY <1>2, <2>1, <2>2, <2>3, <2>4, CancelledTyped, Reconfigures
<1> QED  BY <1>4, <1>5

LEMMA SubscriptionKeeps ==
    ASSUME SiliconInv, NEW s \in Receivers, NEW events \in SUBSET FanEvents,
           ReplaceSubscription(s, events) \/ (DeleteSubscription(s) /\ events = {})
    PROVE  SiliconInv'
<1> USE DEF SiliconInv
<1>1. /\ TargetActive(s) /\ HookActive(s) /\ DeliveryScopeFree(s)
      /\ interest' = [interest EXCEPT ![s] = events]
      /\ dispatch' = Cancelled(s) /\ config' = [config EXCEPT ![s] = @ + 1]
      /\ UNCHANGED <<receiver, hook, fanned, redirect>>
  BY DEF ReplaceSubscription, DeleteSubscription, Reconfigured
<1>2. config' \in [Receivers -> Nat]
  <2>1. config[s] + 1 \in Nat
    BY DEF SiliconTyped
  <2> QED  BY <1>1, <2>1 DEF SiliconTyped
<1>3. SiliconTyped'
  BY <1>1, <1>2, CancelledTyped DEF SiliconTyped
<1>4. HookStands(s)'
  BY <1>1 DEF HookStands, SiliconTyped, TargetActive, HookActive
<1>5. \A q \in Receivers \ {s} : /\ receiver'[q] = receiver[q] /\ hook'[q] = hook[q]
                                 /\ interest'[q] = interest[q] /\ config'[q] = config[q]
  BY <1>1 DEF SiliconTyped
<1> QED  BY <1>1, <1>3, <1>4, <1>5, CancelledTyped, Reconfigures

\* The stages of an expansion.
LEMMA ExpansionKeeps ==
    ASSUME SiliconInv, NEW e \in FanEvents, ReadCandidates(e) \/ LockScopes(e) \/ AbandonExpansion(e)
    PROVE  SiliconInv'
<1> USE DEF SiliconInv
<1>1. fanned[e] \in FannedRows
  BY DEF SiliconTyped
<1>2. PICK row \in FannedRows : row.stage # "chosen" /\ fanned' = [fanned EXCEPT ![e] = row]
  <2>1. CASE ReadCandidates(e)
    <3>1. SiliconRecipients(e) \subseteq Receivers
      BY DEF SiliconRecipients
    <3>2. PICK row : row = [stage |-> "read", candidates |-> SiliconRecipients(e), chosen |-> {}]
      OBVIOUS
    <3>3. row \in FannedRows /\ row.stage # "chosen"
      BY <3>1, <3>2 DEF FannedRows
    <3> QED  BY <2>1, <3>2, <3>3 DEF ReadCandidates
  <2>2. CASE LockScopes(e)
    <3>1. PICK row : row = [fanned[e] EXCEPT !.stage = "locked"]
      OBVIOUS
    <3>2. row \in FannedRows /\ row.stage # "chosen"
      BY <1>1, <3>1 DEF FannedRows
    <3> QED  BY <2>2, <3>1, <3>2 DEF LockScopes
  <2>3. CASE AbandonExpansion(e)
    <3>1. PICK row : row = [fanned[e] EXCEPT !.stage = "waiting"]
      OBVIOUS
    <3>2. row \in FannedRows /\ row.stage # "chosen"
      BY <1>1, <3>1 DEF FannedRows
    <3> QED  BY <2>3, <3>1, <3>2 DEF AbandonExpansion
  <2> QED  BY <2>1, <2>2, <2>3
<1>3. UNCHANGED <<receiver, hook, interest, config, dispatch, redirect>>
  BY DEF ReadCandidates, LockScopes, AbandonExpansion
<1>4. SiliconTyped'
  BY <1>2, <1>3 DEF SiliconTyped
<1>5. \A d \in FanEvents : fanned'[d].stage = "chosen" => fanned'[d] = fanned[d]
  BY <1>2 DEF SiliconTyped
<1> QED  BY <1>3, <1>4, <1>5, Dispatches

LEMMA ReadRecipientsKeeps ==
    ASSUME SiliconInv, NEW e \in FanEvents, ReadRecipients(e)
    PROVE  SiliconInv'
<1> USE DEF SiliconInv
<1>1. fanned[e] \in FannedRows
  BY DEF SiliconTyped
<1>2. PICK targets : targets = {<<s, config[s], hook[s].key>> : s \in Confirmed(e)}
  OBVIOUS
<1>3. Confirmed(e) \subseteq Receivers /\ Confirmed(e) \subseteq fanned[e].candidates
      /\ \A s \in Confirmed(e) : e \in interest[s] /\ TargetActive(s) /\ HookActive(s)
  BY DEF Confirmed, SiliconRecipients, TargetActive
<1>4. \A s \in Receivers : config[s] \in Nat /\ hook[s].key \in Nat
  BY DEF SiliconTyped, HookRows
<1>5. targets \in SUBSET (Receivers \X Nat \X Nat)
  BY <1>2, <1>3, <1>4
<1>6. PICK row : row = [fanned[e] EXCEPT !.stage = "chosen", !.chosen = targets]
  OBVIOUS
<1>7. row \in FannedRows /\ row.candidates = fanned[e].candidates /\ row.chosen = targets
  BY <1>1, <1>5, <1>6 DEF FannedRows
<1>8. fanned' = [fanned EXCEPT ![e] = row]
  BY <1>2, <1>6 DEF ReadRecipients, SiliconTyped
<1>9. UNCHANGED <<receiver, hook, interest, config, dispatch, redirect>>
  BY DEF ReadRecipients
<1>10. SiliconTyped'
  BY <1>7, <1>8, <1>9 DEF SiliconTyped
<1>11. \A c \in targets : c[1] \in row.candidates /\ TargetNow(e, c[1], c[2], c[3])
  BY <1>2, <1>3, <1>7 DEF TargetNow
<1>12. ASSUME NEW d \in FanEvents
       PROVE  ChosenNow(d)'
  <2>1. CASE d = e
    <3>1. fanned'[e] = row
      BY <1>8 DEF SiliconTyped
    <3> QED  BY <1>7, <1>9, <1>11, <2>1, <3>1 DEF ChosenNow, TargetNow, TargetActive, HookActive
  <2>2. CASE d # e
    <3>1. fanned'[d] = fanned[d] /\ ChosenNow(d)
      BY <1>8, <2>2 DEF SiliconTyped
    <3> QED  BY <1>9, <3>1 DEF ChosenNow, TargetNow, TargetActive, HookActive
  <2> QED  BY <2>1, <2>2
<1>13. \A s \in Receivers : HookStands(s)'
  BY <1>9 DEF HookStands
<1>14. \A d \in FanEvents, s \in Receivers : QueuedNow(d, s)'
  BY <1>9 DEF QueuedNow, TargetNow, TargetActive, HookActive
<1> QED  BY <1>10, <1>12, <1>13, <1>14

LEMMA InsertSiliconRecipientsKeeps ==
    ASSUME SiliconInv, NEW e \in FanEvents, InsertSiliconRecipients(e)
    PROVE  SiliconInv'
<1> USE DEF SiliconInv
<1>1. fanned[e] \in FannedRows /\ fanned[e].stage = "chosen"
  BY DEF SiliconTyped, InsertSiliconRecipients
<1>2. \A c \in fanned[e].chosen : c \in Receivers \X Nat \X Nat /\ TargetNow(e, c[1], c[2], c[3])
  BY <1>1 DEF FannedRows, ChosenNow
<1>3. PICK row : row = [fanned[e] EXCEPT !.stage = "expanded"]
  OBVIOUS
<1>4. row \in FannedRows /\ row.stage # "chosen" /\ fanned' = [fanned EXCEPT ![e] = row]
  BY <1>1, <1>3 DEF FannedRows, InsertSiliconRecipients, SiliconTyped
<1>5. UNCHANGED <<receiver, hook, interest, config, redirect>>
  BY DEF InsertSiliconRecipients
<1>6. dispatch'[e] = [s \in Receivers |->
         IF \E c \in fanned[e].chosen : c[1] = s
         THEN LET c == CHOOSE c \in fanned[e].chosen : c[1] = s
              IN [status |-> "pending", config |-> c[2], key |-> c[3]]
         ELSE dispatch[e][s]]
      /\ \A d \in FanEvents \ {e} : dispatch'[d] = dispatch[d]
  BY DEF InsertSiliconRecipients, SiliconTyped
<1>7. ASSUME NEW s \in Receivers
      PROVE  /\ dispatch'[e][s] \in DispatchRows
             /\ \/ dispatch'[e][s] = dispatch[e][s]
                \/ TargetNow(e, s, dispatch'[e][s].config, dispatch'[e][s].key)
  <2>1. CASE \E c \in fanned[e].chosen : c[1] = s
    <3>1. PICK c : c = CHOOSE d \in fanned[e].chosen : d[1] = s
      OBVIOUS
    <3>2. c \in fanned[e].chosen /\ c[1] = s
      BY <2>1, <3>1
    <3>3. c[2] \in Nat /\ c[3] \in Nat /\ TargetNow(e, s, c[2], c[3])
      BY <1>2, <3>2
    <3>4. PICK d : d = [status |-> "pending", config |-> c[2], key |-> c[3]]
      OBVIOUS
    <3>5. d \in DispatchRows /\ d.config = c[2] /\ d.key = c[3]
      BY <3>3, <3>4 DEF DispatchRows
    <3>6. dispatch'[e][s] = d
      BY <1>6, <2>1, <3>1, <3>4
    <3> QED  BY <3>3, <3>5, <3>6
  <2>2. CASE ~ \E c \in fanned[e].chosen : c[1] = s
    <3>1. dispatch'[e][s] = dispatch[e][s]
      BY <1>6, <2>2
    <3> QED  BY <3>1 DEF SiliconTyped
  <2> QED  BY <2>1, <2>2
<1>8. dispatch' \in [FanEvents -> [Receivers -> DispatchRows]]
  <2>1. dispatch'[e] \in [Receivers -> DispatchRows]
    BY <1>6, <1>7
  <2>2. \A d \in FanEvents : dispatch'[d] \in [Receivers -> DispatchRows]
    BY <1>6, <2>1 DEF SiliconTyped
  <2>3. dispatch' = [d \in FanEvents |-> dispatch'[d]]
    BY DEF InsertSiliconRecipients, SiliconTyped
  <2> QED  BY <2>2, <2>3
<1>9. SiliconTyped'
  BY <1>4, <1>5, <1>8 DEF SiliconTyped
<1>10. \A d \in FanEvents : fanned'[d].stage = "chosen" => fanned'[d] = fanned[d]
  BY <1>4 DEF SiliconTyped
<1>11. \A d \in FanEvents, s \in Receivers : Queued(dispatch'[d][s]) =>
          \/ Queued(dispatch[d][s]) /\ dispatch'[d][s].config = dispatch[d][s].config
                                    /\ dispatch'[d][s].key = dispatch[d][s].key
          \/ TargetNow(d, s, dispatch'[d][s].config, dispatch'[d][s].key)
  BY SMTT(90), <1>6, <1>7
<1> QED  BY <1>5, <1>9, <1>10, <1>11, Dispatches

\* A delivery moves on: it stays the one that was queued.
LEMMA DispatchKeeps ==
    ASSUME SiliconInv, NEW e \in FanEvents, NEW s \in Receivers,
           \/ ClaimDispatch(e, s)
           \/ \E outcome \in {"delivered", "pending", "dead_letter"} : RecordDispatch(e, s, outcome)
    PROVE  SiliconInv'
<1> USE DEF SiliconInv
<1>1. dispatch[e][s] \in DispatchRows
  BY DEF SiliconTyped
<1>2. PICK status \in {"processing", "delivered", "pending", "dead_letter"} :
        dispatch' = [dispatch EXCEPT ![e][s].status = status]
  BY DEF ClaimDispatch, RecordDispatch
<1>3. Queued(dispatch[e][s])
  BY DEF ClaimDispatch, RecordDispatch, Queued
<1>4. PICK d : d = [dispatch[e][s] EXCEPT !.status = status]
  OBVIOUS
<1>5. d \in DispatchRows /\ d.config = dispatch[e][s].config /\ d.key = dispatch[e][s].key
  BY <1>1, <1>4 DEF DispatchRows
<1>6. dispatch' = [dispatch EXCEPT ![e] = [dispatch[e] EXCEPT ![s] = d]]
  BY <1>2, <1>4 DEF SiliconTyped
<1>7. dispatch'[e][s] = d /\ \A f \in FanEvents, q \in Receivers : f # e \/ q # s => dispatch'[f][q] = dispatch[f][q]
  BY <1>6 DEF SiliconTyped
<1>8. UNCHANGED <<receiver, hook, interest, config, fanned, redirect>>
  BY DEF ClaimDispatch, RecordDispatch
<1>9. SiliconTyped'
  <2>1. dispatch' \in [FanEvents -> [Receivers -> DispatchRows]]
    BY <1>5, <1>6 DEF SiliconTyped
  <2> QED  BY <1>8, <2>1 DEF SiliconTyped
<1>10. \A f \in FanEvents, q \in Receivers : Queued(dispatch'[f][q]) =>
          Queued(dispatch[f][q]) /\ dispatch'[f][q].config = dispatch[f][q].config
                                 /\ dispatch'[f][q].key = dispatch[f][q].key
  BY <1>3, <1>5, <1>7
<1> QED  BY <1>8, <1>9, <1>10, Dispatches

LEMMA ReplayKeeps ==
    ASSUME SiliconInv, NEW s \in Receivers, NEW events \in SUBSET FanEvents, ReplaySiliconDeadLetters(s, events)
    PROVE  SiliconInv'
<1> USE DEF SiliconInv
<1>1. PICK d : d = [status |-> "pending", config |-> config[s], key |-> hook[s].key]
  OBVIOUS
<1>2. d \in DispatchRows /\ d.config = config[s] /\ d.key = hook[s].key
  BY <1>1 DEF DispatchRows, SiliconTyped, HookRows
<1>3. dispatch' = [e \in FanEvents |-> IF e \in events THEN [dispatch[e] EXCEPT ![s] = d] ELSE dispatch[e]]
  BY <1>1 DEF ReplaySiliconDeadLetters, Requeued
<1>4. dispatch' \in [FanEvents -> [Receivers -> DispatchRows]]
  BY <1>2, <1>3 DEF SiliconTyped
<1>5. UNCHANGED <<receiver, hook, interest, config, fanned, redirect>>
  BY DEF ReplaySiliconDeadLetters
<1>6. SiliconTyped'
  BY <1>4, <1>5 DEF SiliconTyped
<1>7. \A e \in events : TargetNow(e, s, d.config, d.key)
  BY <1>2 DEF ReplaySiliconDeadLetters, SiliconRecipients, TargetNow, TargetActive
<1>8. \A e \in FanEvents, q \in Receivers :
        \/ dispatch'[e][q] = dispatch[e][q]
        \/ e \in events /\ q = s /\ dispatch'[e][q] = d
  BY <1>3 DEF SiliconTyped
<1> QED  BY <1>5, <1>6, <1>7, <1>8, Dispatches

LEMMA PreflightKeeps ==
    ASSUME SiliconInv, NEW r \in Redirects,
           DropRedirect(r) \/ (\E s \in Receivers : PreflightRedirect(r, s))
    PROVE  SiliconInv'
<1> USE DEF SiliconInv
<1>1. redirect' \in [Redirects -> RedirectRows]
  BY DEF SiliconTyped, RedirectRows, DropRedirect, PreflightRedirect
<1>2. UNCHANGED <<receiver, hook, interest, config, fanned, dispatch>>
  BY DEF DropRedirect, PreflightRedirect
<1>3. SiliconTyped'
  BY <1>1, <1>2 DEF SiliconTyped
<1> QED  BY <1>2, <1>3, Dispatches

LEMMA SiliconInitHolds ==
    ASSUME SiliconWebhookInit
    PROVE  SiliconInv
<1>1. [status |-> "none", key |-> 0, keys |-> 0] \in HookRows
  BY DEF HookRows
<1>2. [stage |-> "waiting", candidates |-> {}, chosen |-> {}] \in FannedRows
  BY DEF FannedRows
<1>3. NoDelivery \in DispatchRows /\ ~Queued(NoDelivery)
  BY DEF NoDelivery, DispatchRows, Queued
<1>4. SiliconTyped
  BY <1>1, <1>2, <1>3 DEF SiliconTyped, SiliconWebhookInit, RedirectRows
<1>5. \A s \in Receivers : HookStands(s)
  BY DEF HookStands, SiliconWebhookInit
<1>6. \A e \in FanEvents : ChosenNow(e)
  BY DEF ChosenNow, SiliconWebhookInit
<1>7. \A e \in FanEvents, s \in Receivers : QueuedNow(e, s)
  BY <1>3 DEF QueuedNow, SiliconWebhookInit
<1> QED  BY <1>4, <1>5, <1>6, <1>7 DEF SiliconInv

LEMMA SiliconStep ==
    ASSUME SiliconInv, [SiliconWebhookNext]_siliconWebhookVars
    PROVE  SiliconInv'
<1>1. CASE UNCHANGED siliconWebhookVars
  BY <1>1 DEF siliconWebhookVars, SiliconInv, SiliconTyped, HookStands, ChosenNow, QueuedNow, TargetNow,
              TargetActive, HookActive
<1>2. ASSUME NEW r \in Redirects, NEW s \in Receivers, PreflightRedirect(r, s)
      PROVE  SiliconInv'
  BY <1>2, PreflightKeeps
<1>3. ASSUME NEW r \in Redirects, DropRedirect(r) \/ FinishRedirect(r)
      PROVE  SiliconInv'
  BY <1>3, PreflightKeeps, FinishRedirectKeeps
<1>4. ASSUME NEW s \in Receivers, DeleteWebhook(s) \/ RemoveReceiver(s) \/ DeleteSubscription(s)
      PROVE  SiliconInv'
  <2>1. {} \in SUBSET FanEvents
    OBVIOUS
  <2> QED  BY <1>4, <2>1, DeleteWebhookKeeps, RemoveReceiverKeeps, SubscriptionKeeps
<1>5. ASSUME NEW s \in Receivers, NEW events \in SUBSET FanEvents,
             ReplaceSubscription(s, events) \/ ReplaySiliconDeadLetters(s, events)
      PROVE  SiliconInv'
  BY <1>5, SubscriptionKeeps, ReplayKeeps
<1>6. ASSUME NEW e \in FanEvents, \/ ReadCandidates(e) \/ LockScopes(e) \/ ReadRecipients(e)
                                  \/ InsertSiliconRecipients(e) \/ AbandonExpansion(e)
      PROVE  SiliconInv'
  BY <1>6, ExpansionKeeps, ReadRecipientsKeeps, InsertSiliconRecipientsKeeps
<1>7. ASSUME NEW e \in FanEvents, NEW s \in Receivers,
             \/ ClaimDispatch(e, s)
             \/ \E outcome \in {"delivered", "pending", "dead_letter"} : RecordDispatch(e, s, outcome)
      PROVE  SiliconInv'
  BY <1>7, DispatchKeeps
<1> QED  BY <1>1, <1>2, <1>3, <1>4, <1>5, <1>6, <1>7 DEF SiliconWebhookNext

(* Whatever redirects, subscriptions, removals, expansions and replays overlap: a delivery is  *)
(* queued only for the configuration its silicon has now, and a removed silicon has no key     *)
(* and no subscription.                                                                        *)
THEOREM SiliconWebhookSoundHolds == SiliconWebhookSpec => []SiliconWebhookSound
<1>1. SiliconWebhookInit => SiliconInv
  BY SiliconInitHolds
<1>2. SiliconInv /\ [SiliconWebhookNext]_siliconWebhookVars => SiliconInv'
  BY SiliconStep
<1>3. SiliconInv => SiliconWebhookSound
  BY DEF SiliconInv, SiliconWebhookSound, QueuedAsConfigured, RemovedStaysSilent, HookStands, QueuedNow,
         TargetNow, Material
<1> QED  BY <1>1, <1>2, <1>3, PTL DEF SiliconWebhookSpec

----------------------------------------------------------------------------
GrantType == [active : BOOLEAN, at : Nat]

TxType ==
    [at : {"none", "open", "written", "captured", "over"},
     kind : {"none", "update", "remove", "revoke", "unapprove", "profile"},
     who : People \cup Scopes \cup {"none"}, began : Nat, snap : SUBSET Rows,
     locks : SUBSET Rows, known : BOOLEAN, shown : SUBSET (People \X Scopes)]

ProjectionType ==
    [kind : {"none", "update", "remove", "profile"}, who : People \cup Scopes \cup {"none"},
     created : Nat, known : BOOLEAN, was : BOOLEAN, sent : BOOLEAN]

ProjectionTyped ==
    /\ grant \in [Rows -> GrantType]
    /\ clock \in Nat /\ clock >= 1
    /\ tx \in [Changes -> TxType]
    /\ projection \in [Changes -> ProjectionType]

\* A transaction that has begun knows what it changes, and only one that has
\* captured holds locks.
TxFits(t) ==
    /\ t.at \in {"open", "written", "captured"} =>
         /\ \/ t.kind \in {"update", "remove", "revoke", "profile"} /\ t.who \in People
            \/ t.kind = "unapprove" /\ t.who \in Scopes
         /\ t.began >= 1
    /\ t.at = "captured" => t.kind \in {"update", "remove", "profile"}
    /\ t.at # "captured" => t.locks = {}

\* What a transaction has written stays active under its lock, what it shows rests on
\* rows it has locked while they were active, and a removal that found nobody to
\* tell is one of a person nobody could see.
TxSound(t, grants) ==
    /\ TxFits(t)
    /\ Writes(t) => grants[Target(t.kind, t.who)].active
    /\ t.at = "captured" =>
         \A a \in t.shown : \A id \in RestsOn(t.who, a) :
             \/ id[1] = "member" /\ t.kind = "profile"
             \/ t.kind # "remove" /\ id \in t.locks /\ grants[id].active
    /\ t.at = "captured" /\ t.kind = "remove" /\ Effective(grants, t.who) # {} => t.known

\* Nobody writes what another has written or locked.
Excluded(t, u) ==
    Writes(u) =>
        /\ Target(u.kind, u.who) \notin t.locks
        /\ Writes(t) => Target(t.kind, t.who) # Target(u.kind, u.who)

\* A reported removal has ended the membership, and whoever could see the person
\* then rests on rows that stand or were withdrawn by a transaction since.
Reported(e, grants) ==
    e.kind = "remove" =>
        /\ e.who \in People
        /\ ~grants[<<"member", e.who>>].active /\ grants[<<"member", e.who>>].at >= e.created
        /\ e.was =>
             /\ e.known
             /\ \E g \in People : \A id \in {<<"consent", g>>, <<"member", g>>} \ {<<"member", e.who>>} :
                  grants[id].active \/ grants[id].at >= 1

ProjectionInv ==
    /\ ProjectionTyped
    /\ \A c \in Changes : TxSound(tx[c], grant)
    /\ \A c \in Changes : \A d \in Changes \ {c} : Excluded(tx[c], tx[d])
    /\ \A c \in Changes : Reported(projection[c], grant)

LEMMA TargetRow ==
    ASSUME NEW t \in TxType, TxFits(t), Writes(t)
    PROVE  Target(t.kind, t.who) \in Rows /\ t.began >= 1 /\ t.began \in Nat
  <1>1. t.at \in {"written", "captured"} /\ t.kind # "profile" /\ t.began \in Nat
    BY DEF Writes, TxType
  <1>2. \/ t.kind \in {"update", "remove", "revoke"} /\ t.who \in People
        \/ t.kind = "unapprove" /\ t.who \in Scopes
    BY <1>1 DEF TxFits
  <1> QED BY <1>1, <1>2 DEF TxFits, Target, Rows

LEMMA RestsOnRows ==
    ASSUME NEW p \in People, NEW a \in People \X Scopes
    PROVE  RestsOn(p, a) \subseteq Rows
  BY DEF RestsOn, Rows

\* A step of one transaction that leaves the rows alone.
LEMMA TransactionKept ==
    ASSUME ProjectionInv, NEW c \in Changes, NEW t \in TxType,
           tx' = [tx EXCEPT ![c] = t], grant' = grant,
           clock' \in Nat, clock' >= 1,
           projection' \in [Changes -> ProjectionType],
           \A d \in Changes : Reported(projection'[d], grant),
           TxSound(t, grant),
           \A d \in Changes \ {c} : Excluded(t, tx[d]) /\ Excluded(tx[d], t)
    PROVE  ProjectionInv'
  <1>1. tx' \in [Changes -> TxType] /\ \A d \in Changes : tx'[d] = IF d = c THEN t ELSE tx[d]
    BY DEF ProjectionInv, ProjectionTyped
  <1>2. ProjectionTyped'
    BY <1>1 DEF ProjectionInv, ProjectionTyped
  <1>3. \A d \in Changes : TxSound(tx'[d], grant')
    BY <1>1 DEF ProjectionInv
  <1>4. \A d \in Changes : \A e \in Changes \ {d} : Excluded(tx'[d], tx'[e])
    BY <1>1 DEF ProjectionInv
  <1> QED BY <1>2, <1>3, <1>4 DEF ProjectionInv

LEMMA BeginKeeps ==
    ASSUME ProjectionInv, NEW c \in Changes,
           NEW kind, NEW who, Begin(c, kind, who),
           \/ kind \in {"update", "remove", "revoke", "profile"} /\ who \in People
           \/ kind = "unapprove" /\ who \in Scopes
    PROVE  ProjectionInv'
  <1> DEFINE t == [NoTx EXCEPT !.at = "open", !.kind = kind, !.who = who, !.began = clock,
                               !.snap = {id \in Rows : grant[id].active}]
  <1>1. clock \in Nat /\ clock >= 1
    BY DEF ProjectionInv, ProjectionTyped
  <1>2. t \in TxType /\ t.at = "open" /\ t.kind = kind /\ t.who = who /\ t.began = clock /\ t.locks = {}
    BY <1>1 DEF NoTx, TxType
  <1>3. tx' = [tx EXCEPT ![c] = t] /\ grant' = grant /\ clock' = clock + 1 /\ projection' = projection
    BY DEF Begin
  <1> HIDE DEF t
  <1>4. TxSound(t, grant)
    BY <1>1, <1>2 DEF TxSound, TxFits, Writes
  <1>5. \A d \in Changes \ {c} : Excluded(t, tx[d]) /\ Excluded(tx[d], t)
    BY <1>2 DEF Excluded, Writes
  <1>6. clock' \in Nat /\ clock' >= 1
    BY <1>1, <1>3
  <1> QED BY <1>2, <1>3, <1>4, <1>5, <1>6, TransactionKept DEF ProjectionInv, ProjectionTyped

LEMMA WriteKeeps ==
    ASSUME ProjectionInv, NEW c \in Changes, Write(c)
    PROVE  ProjectionInv'
  <1> DEFINE t == [tx[c] EXCEPT !.at = "written"]
  <1>1. tx[c] \in TxType /\ tx[c].at = "open" /\ TxFits(tx[c])
    BY DEF ProjectionInv, ProjectionTyped, Write, TxSound
  <1>2. /\ t \in TxType /\ t.at = "written" /\ t.kind = tx[c].kind /\ t.who = tx[c].who
        /\ t.began = tx[c].began /\ t.locks = tx[c].locks
    BY <1>1 DEF TxType
  <1>3. tx' = [tx EXCEPT ![c] = t] /\ grant' = grant /\ clock' = clock /\ projection' = projection
    BY DEF Write
  <1> HIDE DEF t
  <1>4. TxFits(t) /\ t.locks = {}
    BY <1>1, <1>2 DEF TxFits
  <1>5. TxSound(t, grant)
    BY <1>2, <1>4 DEF TxSound, Writes, Write
  <1>6. \A d \in Changes \ {c} : Excluded(t, tx[d]) /\ Excluded(tx[d], t)
    BY <1>2, <1>4 DEF Excluded, Write, WrittenByOther, SharedByOther
  <1> QED BY <1>2, <1>3, <1>5, <1>6, TransactionKept DEF ProjectionInv, ProjectionTyped

LEMMA AbortKeeps ==
    ASSUME ProjectionInv, NEW c \in Changes, Abort(c)
    PROVE  ProjectionInv'
  <1> DEFINE t == [NoTx EXCEPT !.at = "over"]
  <1>1. t \in TxType /\ t.at = "over" /\ t.locks = {}
    BY DEF NoTx, TxType
  <1>2. tx' = [tx EXCEPT ![c] = t] /\ grant' = grant /\ clock' = clock /\ projection' = projection
    BY DEF Abort
  <1> HIDE DEF t
  <1>3. TxSound(t, grant)
    BY <1>1 DEF TxSound, TxFits, Writes
  <1>4. \A d \in Changes \ {c} : Excluded(t, tx[d]) /\ Excluded(tx[d], t)
    BY <1>1 DEF Excluded, Writes
  <1> QED BY <1>1, <1>2, <1>3, <1>4, TransactionKept DEF ProjectionInv, ProjectionTyped

\* The authorizations that hold when a transaction captures are among those it loads,
\* a removal's own row counted as it was.
LEMMA LoadedCovers ==
    ASSUME ProjectionInv, NEW c \in Changes, tx[c].at = "written",
           tx[c].kind \in {"update", "remove"}
    PROVE  /\ Effective(Seen(tx[c]), tx[c].who) \subseteq Loaded(Seen(tx[c]), tx[c].who, tx[c].began)
           /\ Effective(grant, tx[c].who) \subseteq Loaded(Seen(tx[c]), tx[c].who, tx[c].began)
           /\ Loaded(Seen(tx[c]), tx[c].who, tx[c].began) \subseteq People \X Scopes
           /\ tx[c].kind = "remove" => Effective(Seen(tx[c]), tx[c].who) = {}
           /\ tx[c].kind # "remove" => Seen(tx[c]) = grant
  <1> DEFINE p == tx[c].who
             began == tx[c].began
             seen == Seen(tx[c])
  <1>1. p \in People /\ began \in Nat /\ tx[c] \in TxType
    BY DEF ProjectionInv, ProjectionTyped, TxSound, TxFits, TxType
  <1>2. grant \in [Rows -> GrantType]
    BY DEF ProjectionInv, ProjectionTyped
  <1>3. <<"member", p>> \in Rows
    BY <1>1 DEF Rows
  <1>4. /\ tx[c].kind = "remove" => seen = [grant EXCEPT ![<<"member", p>>] = [active |-> FALSE, at |-> began]]
        /\ tx[c].kind # "remove" => seen = grant
    BY DEF Seen
  <1>5. \A id \in Rows : seen[id] = grant[id] \/ seen[id] = [active |-> FALSE, at |-> began]
    BY <1>2, <1>4
  <1>6. \A id \in Rows : grant[id].active => seen[id].active \/ seen[id].at >= began
    BY <1>1, <1>5
  <1>7. Concerns(p) \subseteq People \X Scopes
    BY DEF Concerns
  <1>8. \A a \in Concerns(p) : RestsOn(p, a) \subseteq Rows
    BY <1>1, <1>7, RestsOnRows
  <1>9. Effective(seen, p) \subseteq Loaded(seen, p, began)
    BY DEF Effective, Loaded
  <1>10. Effective(grant, p) \subseteq Loaded(seen, p, began)
    BY <1>6, <1>8 DEF Effective, Loaded
  <1>11. ASSUME tx[c].kind = "remove" PROVE Effective(seen, p) = {}
    <2>1. seen[<<"member", p>>].active = FALSE
      <3>1. seen = [grant EXCEPT ![<<"member", p>>] = [active |-> FALSE, at |-> began]]
        BY <1>4, <1>11
      <3>2. seen[<<"member", p>>] = [active |-> FALSE, at |-> began]
        BY <1>2, <1>3, <3>1
      <3> QED BY <3>2
    <2>2. \A a \in Concerns(p) : <<"member", p>> \in RestsOn(p, a)
      BY DEF RestsOn
    <2> QED BY <2>1, <2>2 DEF Effective
  <1> QED BY <1>4, <1>7, <1>9, <1>10, <1>11 DEF Loaded

LEMMA CaptureKeeps ==
    ASSUME ProjectionInv, NEW c \in Changes, Capture(c)
    PROVE  ProjectionInv'
  <1> DEFINE loaded == Loaded(Seen(tx[c]), tx[c].who, tx[c].began)
             shown == Effective(Seen(tx[c]), tx[c].who)
             locks == Locked(tx[c].who, loaded)
             t == [tx[c] EXCEPT !.at = "captured", !.locks = locks, !.known = loaded # {}, !.shown = shown]
  <1>1. /\ tx[c] \in TxType /\ tx[c].at = "written" /\ tx[c].kind \in {"update", "remove"}
        /\ TxFits(tx[c]) /\ tx[c].who \in People
    BY DEF ProjectionInv, ProjectionTyped, Capture, TxSound, TxFits
  <1>2. /\ shown \subseteq loaded /\ loaded \subseteq People \X Scopes
        /\ Effective(grant, tx[c].who) \subseteq loaded
        /\ tx[c].kind = "remove" => shown = {}
        /\ tx[c].kind # "remove" => Seen(tx[c]) = grant
    BY <1>1, LoadedCovers
  <1>3. locks \subseteq Rows /\ \A a \in loaded : RestsOn(tx[c].who, a) \subseteq locks
    BY <1>1, <1>2, RestsOnRows DEF Locked
  <1>4. \A id \in locks : ~WrittenByOther(c, id)
    BY DEF Capture
  <1>5. tx' = [tx EXCEPT ![c] = t] /\ grant' = grant /\ clock' = clock /\ projection' = projection
    BY DEF Capture
  <1>6. tx[c].kind # "remove" => \A a \in shown : \A id \in RestsOn(tx[c].who, a) : grant[id].active
    BY <1>2 DEF Effective
  <1> HIDE DEF loaded, shown, locks
  <1>7. /\ t \in TxType /\ t.at = "captured" /\ t.kind = tx[c].kind /\ t.who = tx[c].who
        /\ t.began = tx[c].began /\ t.locks = locks /\ t.known = (loaded # {}) /\ t.shown = shown
    BY <1>1, <1>2, <1>3 DEF TxType
  <1> HIDE DEF t
  <1>8. TxFits(t)
    BY <1>1, <1>7 DEF TxFits
  <1>9. Writes(t) /\ Writes(tx[c])
    BY <1>1, <1>7 DEF Writes
  <1>10. grant[Target(t.kind, t.who)].active
    BY <1>7, <1>9 DEF ProjectionInv, TxSound
  <1>11. TxSound(t, grant)
    BY <1>2, <1>3, <1>6, <1>7, <1>8, <1>10 DEF TxSound
  <1>12. \A d \in Changes \ {c} : Excluded(t, tx[d]) /\ Excluded(tx[d], t)
    BY <1>4, <1>7, <1>9 DEF ProjectionInv, Excluded, WrittenByOther
  <1> QED BY <1>5, <1>7, <1>11, <1>12, TransactionKept DEF ProjectionInv, ProjectionTyped

LEMMA CaptureProfileKeeps ==
    ASSUME ProjectionInv, NEW c \in Changes, CaptureProfile(c)
    PROVE  ProjectionInv'
  <1> DEFINE shown == {a \in Concerns(tx[c].who) : RestsOn(tx[c].who, a) \subseteq tx[c].snap}
             locks == {id \in Locked(tx[c].who, shown) : id[1] # "member"}
             t == [tx[c] EXCEPT !.at = "captured", !.locks = locks, !.known = shown # {}, !.shown = shown]
  <1>1. /\ tx[c] \in TxType /\ tx[c].at = "written" /\ tx[c].kind = "profile"
        /\ TxFits(tx[c]) /\ tx[c].who \in People
    BY DEF ProjectionInv, ProjectionTyped, CaptureProfile, TxSound, TxFits
  <1>2. shown \subseteq People \X Scopes
    BY DEF Concerns
  <1>3. locks \subseteq Rows
    BY <1>1, <1>2, RestsOnRows DEF Locked
  <1>4. \A a \in shown : \A id \in RestsOn(tx[c].who, a) : id[1] = "member" \/ id \in locks
    BY DEF Locked
  <1>5. \A id \in locks : grant[id].active /\ ~WrittenByOther(c, id)
    BY DEF CaptureProfile
  <1>6. tx' = [tx EXCEPT ![c] = t] /\ grant' = grant /\ clock' = clock /\ projection' = projection
    BY DEF CaptureProfile
  <1> HIDE DEF shown, locks
  <1>7. /\ t \in TxType /\ t.at = "captured" /\ t.kind = "profile" /\ t.who = tx[c].who
        /\ t.began = tx[c].began /\ t.locks = locks /\ t.shown = shown
    BY <1>1, <1>2, <1>3 DEF TxType
  <1> HIDE DEF t
  <1>8. TxFits(t) /\ ~Writes(t)
    BY <1>1, <1>7 DEF TxFits, Writes
  <1>9. TxSound(t, grant)
    BY <1>4, <1>5, <1>7, <1>8 DEF TxSound
  <1>10. \A d \in Changes \ {c} : Excluded(t, tx[d]) /\ Excluded(tx[d], t)
    BY <1>5, <1>7, <1>8 DEF Excluded, WrittenByOther
  <1> QED BY <1>6, <1>7, <1>9, <1>10, TransactionKept DEF ProjectionInv, ProjectionTyped

LEMMA DeliverKeeps ==
    ASSUME ProjectionInv, NEW c \in Changes, Deliver(c)
    PROVE  ProjectionInv'
  <1> DEFINE e == [projection[c] EXCEPT !.sent = TRUE]
  <1>1. projection[c] \in ProjectionType
    BY DEF ProjectionInv, ProjectionTyped
  <1>2. /\ e \in ProjectionType /\ e.kind = projection[c].kind /\ e.who = projection[c].who
        /\ e.created = projection[c].created /\ e.known = projection[c].known
        /\ e.was = projection[c].was
    BY <1>1 DEF ProjectionType
  <1>3. projection' = [projection EXCEPT ![c] = e] /\ UNCHANGED <<grant, clock, tx>>
    BY DEF Deliver
  <1> HIDE DEF e
  <1>4. \A d \in Changes : projection'[d] = IF d = c THEN e ELSE projection[d]
    BY <1>3 DEF ProjectionInv, ProjectionTyped
  <1>5. Reported(e, grant)
    BY <1>2 DEF ProjectionInv, Reported
  <1>6. \A d \in Changes : Reported(projection'[d], grant)
    BY <1>4, <1>5 DEF ProjectionInv
  <1>7. projection' \in [Changes -> ProjectionType]
    BY <1>2, <1>3 DEF ProjectionInv, ProjectionTyped
  <1> QED BY <1>3, <1>6, <1>7 DEF ProjectionInv, ProjectionTyped

\* A commit ends at most the row its transaction wrote, which was active and which
\* nobody else has written or locked.
LEMMA CommitEnds ==
    ASSUME ProjectionInv, NEW c \in Changes, Commit(c)
    PROVE  /\ grant' \in [Rows -> GrantType]
           /\ \/ grant' = grant /\ tx[c].kind \notin {"remove", "revoke", "unapprove"}
              \/ /\ Writes(tx[c]) /\ tx[c].kind \in {"remove", "revoke", "unapprove"}
                 /\ Target(tx[c].kind, tx[c].who) \in Rows
                 /\ grant[Target(tx[c].kind, tx[c].who)].active
                 /\ tx[c].began >= 1 /\ tx[c].began \in Nat
                 /\ \A id \in Rows :
                      grant'[id] = IF id = Target(tx[c].kind, tx[c].who)
                                   THEN [active |-> FALSE, at |-> tx[c].began] ELSE grant[id]
           /\ \A id \in Rows : grant'[id].active => grant[id].active
           /\ \A id \in Rows : ~grant[id].active => grant'[id] = grant[id]
           /\ \A id \in Rows : grant[id].active => grant'[id].active \/ grant'[id].at >= 1
  <1> DEFINE t == tx[c]
             own == Target(t.kind, t.who)
  <1>1. t \in TxType /\ TxFits(t) /\ TxSound(t, grant) /\ grant \in [Rows -> GrantType]
    BY DEF ProjectionInv, ProjectionTyped, TxSound
  <1>2. CASE t.kind \notin {"remove", "revoke", "unapprove"}
    <2>1. grant' = grant
      BY <1>2 DEF Commit
    <2> QED BY <1>1, <1>2, <2>1
  <1>3. CASE t.kind \in {"remove", "revoke", "unapprove"}
    <2>1. t.at \in {"written", "captured"}
      BY DEF Commit
    <2>2. Writes(t)
      BY <1>3, <2>1 DEF Writes
    <2>3. own \in Rows /\ t.began >= 1 /\ t.began \in Nat /\ grant[own].active
      BY <1>1, <2>2, TargetRow DEF TxSound
    <2>4. grant' = [grant EXCEPT ![own] = [active |-> FALSE, at |-> t.began]]
      BY <1>3 DEF Commit
    <2> HIDE DEF own, t
    <2>5. [active |-> FALSE, at |-> t.began] \in GrantType
      BY <2>3 DEF GrantType
    <2>6. grant' \in [Rows -> GrantType]
      BY <1>1, <2>4, <2>5
    <2>7. \A id \in Rows : grant'[id] = IF id = own THEN [active |-> FALSE, at |-> t.began] ELSE grant[id]
      BY <1>1, <2>3, <2>4
    <2>8. \A id \in Rows :
            /\ grant'[id].active => grant[id].active
            /\ ~grant[id].active => grant'[id] = grant[id]
            /\ grant[id].active => grant'[id].active \/ grant'[id].at >= 1
      BY <2>3, <2>7
    <2> QED BY <1>3, <2>2, <2>3, <2>6, <2>7, <2>8 DEF own, t
  <1> QED BY <1>2, <1>3

\* The transactions of others keep what they rest on.
LEMMA OthersSound ==
    ASSUME ProjectionInv, NEW c \in Changes, Commit(c), NEW d \in Changes \ {c}
    PROVE  TxSound(tx[d], grant')
  <1> DEFINE u == tx[d]
             own == Target(tx[c].kind, tx[c].who)
  <1>1. u \in TxType /\ TxFits(u) /\ TxSound(u, grant)
    BY DEF ProjectionInv, ProjectionTyped, TxSound
  <1>2. Excluded(tx[c], u) /\ Excluded(u, tx[c])
    BY DEF ProjectionInv
  <1>3. \A id \in Rows : (Writes(tx[c]) => id # own) /\ grant[id].active => grant'[id].active
    BY CommitEnds
  <1>4. \A id \in Rows : grant'[id].active => grant[id].active
    BY CommitEnds
  <1>5. Writes(u) => grant'[Target(u.kind, u.who)].active
    BY <1>1, <1>2, <1>3, TargetRow DEF TxSound, Excluded
  <1>6. \A id \in u.locks : grant[id].active => grant'[id].active
    BY <1>1, <1>2, <1>3 DEF Excluded, TxType
  <1>7. ASSUME u.at = "captured" PROVE Effective(grant', u.who) \subseteq Effective(grant, u.who)
    <2>1. u.who \in People
      BY <1>1, <1>7 DEF TxFits
    <2>2. \A a \in Concerns(u.who) : RestsOn(u.who, a) \subseteq Rows
      BY <2>1, RestsOnRows DEF Concerns
    <2> QED BY <1>4, <2>2 DEF Effective
  <1> QED BY <1>1, <1>5, <1>6, <1>7 DEF TxSound

LEMMA CommitKeeps ==
    ASSUME ProjectionInv, NEW c \in Changes, Commit(c)
    PROVE  ProjectionInv'
  <1> DEFINE t == tx[c]
             over == [NoTx EXCEPT !.at = "over"]
             e == [kind |-> t.kind, who |-> t.who, created |-> t.began, known |-> t.known,
                   was |-> Effective(grant, t.who) # {}, sent |-> FALSE]
  <1>1. t \in TxType /\ TxFits(t) /\ TxSound(t, grant)
    BY DEF ProjectionInv, ProjectionTyped, TxSound
  <1>2. /\ tx' = [tx EXCEPT ![c] = over] /\ clock' = clock
        /\ projection' = IF t.kind \in {"revoke", "unapprove"} THEN projection ELSE [projection EXCEPT ![c] = e]
        /\ t.at = IF t.kind \in {"revoke", "unapprove"} THEN "written" ELSE "captured"
    BY DEF Commit
  <1>3. over \in TxType /\ over.at = "over" /\ over.locks = {}
    BY DEF NoTx, TxType
  <1>4. ~Writes(over) /\ TxSound(over, grant')
    BY <1>3 DEF Writes, TxSound, TxFits
  <1> HIDE DEF over
  <1>5. \A d \in Changes : tx'[d] = IF d = c THEN over ELSE tx[d]
    BY <1>2 DEF ProjectionInv, ProjectionTyped
  <1>6. tx' \in [Changes -> TxType]
    BY <1>2, <1>3 DEF ProjectionInv, ProjectionTyped
  <1>7. \A d \in Changes : TxSound(tx'[d], grant')
    BY <1>4, <1>5, OthersSound
  <1>8. \A d \in Changes : \A f \in Changes \ {d} : Excluded(tx'[d], tx'[f])
    BY <1>3, <1>4, <1>5 DEF ProjectionInv, Excluded
  <1>9. ASSUME t.kind \notin {"revoke", "unapprove"} PROVE e \in ProjectionType
    <2>1. t.at = "captured"
      BY <1>2, <1>9
    <2>2. t.kind \in {"update", "remove", "profile"}
      BY <1>1, <2>1 DEF TxFits
    <2> QED BY <1>1, <2>2 DEF ProjectionType, TxType
  <1>10. ASSUME t.kind \notin {"revoke", "unapprove"} PROVE Reported(e, grant')
    <2>1. SUFFICES ASSUME t.kind = "remove" PROVE Reported(e, grant')
      BY DEF Reported
    <2> DEFINE own == <<"member", t.who>>
    <2>2. t.at = "captured" /\ t.who \in People
      BY <1>1, <1>2, <2>1 DEF TxFits
    <2>3. Target(t.kind, t.who) = own
      BY <2>1 DEF Target
    <2>4. /\ own \in Rows /\ t.began \in Nat
          /\ \A id \in Rows : grant'[id] = IF id = own THEN [active |-> FALSE, at |-> t.began] ELSE grant[id]
      BY <2>1, <2>3, CommitEnds
    <2>5. ~grant'[own].active /\ grant'[own].at >= t.began
      BY <2>4
    <2>6. ASSUME Effective(grant, t.who) # {}
          PROVE  /\ t.known
                 /\ \E g \in People : \A id \in {<<"consent", g>>, <<"member", g>>} \ {own} :
                      grant'[id].active \/ grant'[id].at >= 1
      <3>1. t.known
        BY <1>1, <2>1, <2>2, <2>6 DEF TxSound
      <3>2. PICK a \in Effective(grant, t.who) : TRUE
        BY <2>6
      <3>3. a[1] \in People
        BY <3>2 DEF Effective, Concerns
      <3>4. \A id \in {<<"consent", a[1]>>, <<"member", a[1]>>} : id \in Rows /\ grant[id].active
        BY <3>2, <3>3 DEF Effective, RestsOn, Rows
      <3>5. \A id \in {<<"consent", a[1]>>, <<"member", a[1]>>} \ {own} : grant'[id].active
        BY <2>4, <3>4
      <3> QED BY <3>1, <3>3, <3>5
    <2> QED BY <2>1, <2>2, <2>5, <2>6 DEF Reported
  <1>11. \A d \in Changes : Reported(projection[d], grant')
    <2> TAKE d \in Changes
    <2> DEFINE f == projection[d]
    <2>1. SUFFICES ASSUME f.kind = "remove" PROVE Reported(f, grant')
      BY DEF Reported
    <2>2. Reported(f, grant)
      BY DEF ProjectionInv
    <2>3. f.who \in People /\ <<"member", f.who>> \in Rows
      BY <2>1, <2>2 DEF Reported, Rows
    <2>4. grant'[<<"member", f.who>>] = grant[<<"member", f.who>>]
      BY <2>1, <2>2, <2>3, CommitEnds DEF Reported
    <2>5. ASSUME f.was
          PROVE  \E g \in People : \A id \in {<<"consent", g>>, <<"member", g>>} \ {<<"member", f.who>>} :
                   grant'[id].active \/ grant'[id].at >= 1
      <3>1. PICK g \in People : \A id \in {<<"consent", g>>, <<"member", g>>} \ {<<"member", f.who>>} :
                   grant[id].active \/ grant[id].at >= 1
        BY <2>1, <2>2, <2>5 DEF Reported
      <3>2. {<<"consent", g>>, <<"member", g>>} \subseteq Rows
        BY DEF Rows
      <3>3. \A id \in Rows : grant[id].active \/ grant[id].at >= 1 => grant'[id].active \/ grant'[id].at >= 1
        BY CommitEnds
      <3> QED BY <3>1, <3>2, <3>3
    <2> QED BY <2>1, <2>2, <2>3, <2>4, <2>5 DEF Reported
  <1> HIDE DEF e
  <1>12. projection' \in [Changes -> ProjectionType] /\ \A d \in Changes : Reported(projection'[d], grant')
    <2>1. CASE t.kind \in {"revoke", "unapprove"}
      BY <1>2, <1>11, <2>1 DEF ProjectionInv, ProjectionTyped
    <2>2. CASE t.kind \notin {"revoke", "unapprove"}
      <3>1. projection' = [projection EXCEPT ![c] = e]
        BY <1>2, <2>2
      <3>2. projection' \in [Changes -> ProjectionType]
        BY <1>9, <2>2, <3>1 DEF ProjectionInv, ProjectionTyped
      <3>3. \A d \in Changes : projection'[d] = IF d = c THEN e ELSE projection[d]
        BY <3>1 DEF ProjectionInv, ProjectionTyped
      <3> QED BY <1>10, <1>11, <2>2, <3>2, <3>3
    <2> QED BY <2>1, <2>2
  <1>13. grant' \in [Rows -> GrantType]
    BY CommitEnds
  <1>14. ProjectionTyped'
    BY <1>2, <1>6, <1>12, <1>13 DEF ProjectionInv, ProjectionTyped
  <1> QED BY <1>7, <1>8, <1>12, <1>14 DEF ProjectionInv

LEMMA ProjectionStep ==
    ASSUME ProjectionInv, [ProjectionNext]_projectionVars
    PROVE  ProjectionInv'
  <1>1. CASE ProjectionNext
    <2>1. PICK c \in Changes :
        \/ \E kind \in {"update", "remove", "revoke", "profile"}, who \in People : Begin(c, kind, who)
        \/ \E who \in Scopes : Begin(c, "unapprove", who)
        \/ Write(c) \/ Capture(c) \/ CaptureProfile(c) \/ Commit(c) \/ Abort(c) \/ Deliver(c)
      BY <1>1 DEF ProjectionNext
    <2> QED BY <2>1, BeginKeeps, WriteKeeps, CaptureKeeps, CaptureProfileKeeps, CommitKeeps,
               AbortKeeps, DeliverKeeps
  <1>2. CASE UNCHANGED projectionVars
    BY <1>2 DEF projectionVars, ProjectionInv, ProjectionTyped
  <1> QED BY <1>1, <1>2

LEMMA ProjectionInitial ==
    ASSUME ProjectionInit
    PROVE  ProjectionInv
  <1>1. PICK r \in [Rows -> {Live, [active |-> FALSE, at |-> 0]}] : grant = r
    BY DEF ProjectionInit
  <1>2. Live \in GrantType /\ [active |-> FALSE, at |-> 0] \in GrantType
    BY DEF Live, GrantType
  <1>3. NoTx \in TxType /\ NoEvent \in ProjectionType
    BY DEF NoTx, TxType, NoEvent, ProjectionType
  <1>4. ProjectionTyped
    <2>1. grant \in [Rows -> GrantType]
      BY <1>1, <1>2
    <2>2. clock = 1 /\ tx = [c \in Changes |-> NoTx] /\ projection = [c \in Changes |-> NoEvent]
      BY DEF ProjectionInit
    <2> QED BY <1>3, <2>1, <2>2 DEF ProjectionTyped
  <1>5. NoTx.at = "none" /\ NoTx.locks = {} /\ NoEvent.kind = "none"
    BY DEF NoTx, NoEvent
  <1>6. TxSound(NoTx, grant) /\ ~Writes(NoTx) /\ Reported(NoEvent, grant)
    BY <1>5 DEF TxSound, TxFits, Writes, Reported
  <1>7. \A c \in Changes : tx[c] = NoTx /\ projection[c] = NoEvent
    BY DEF ProjectionInit
  <1> QED BY <1>4, <1>6, <1>7 DEF ProjectionInv, Excluded

\* When an event commits, nothing its transaction shows is being withdrawn.
LEMMA ShownGranted ==
    ASSUME ProjectionInv, [ProjectionNext]_projectionVars
    PROVE  DisclosedWhileGrantedStep
  <1>1. SUFFICES ASSUME NEW c \in Changes, tx[c].at = "captured", projection'[c] # projection[c],
                        NEW a \in tx[c].shown, NEW id \in RestsOn(tx[c].who, a),
                        ~ (id[1] = "member" /\ tx[c].kind = "profile")
                 PROVE  grant'[id].active
    BY DEF DisclosedWhileGrantedStep
  <1>2. tx[c].kind # "remove" /\ grant[id].active
    BY <1>1 DEF ProjectionInv, TxSound
  <1>3. grant' = grant
    <2>1. ASSUME NEW d \in Changes, Commit(d) PROVE grant' = grant
      <3>1. CASE d = c
        <4>1. tx[c].kind \in {"update", "profile"}
          BY <1>1, <1>2 DEF ProjectionInv, TxSound, TxFits
        <4> QED BY <2>1, <3>1, <4>1 DEF Commit
      <3>2. CASE d # c
        <4>1. projection'[c] = projection[c]
          BY <2>1, <3>2 DEF Commit, ProjectionInv, ProjectionTyped
        <4> QED BY <1>1, <4>1
      <3> QED BY <3>1, <3>2
    <2> QED BY ZenonT(30), <1>1, <2>1 DEF ProjectionNext, projectionVars, Begin, Write, Capture, CaptureProfile,
               Abort, Deliver
  <1> QED BY <1>2, <1>3

LEMMA RemovalSendable ==
    ASSUME ProjectionInv
    PROVE  RemovalReported
  <1>1. SUFFICES ASSUME NEW c \in Changes, projection[c].kind = "remove", projection[c].was
                 PROVE  /\ projection[c].known
                        /\ (\A id \in Rows \ {<<"member", projection[c].who>>} : grant[id].at = 0)
                             => Sendable(projection[c])
    BY DEF RemovalReported
  <1> DEFINE e == projection[c]
             own == <<"member", e.who>>
  <1>2. Reported(e, grant)
    BY DEF ProjectionInv
  <1>3. PICK g \in People : \A id \in {<<"consent", g>>, <<"member", g>>} \ {own} :
               grant[id].active \/ grant[id].at >= 1
    BY <1>1, <1>2 DEF Reported
  <1>4. grant[own].at >= e.created
    BY <1>1, <1>2 DEF Reported
  <1>5. {<<"consent", g>>, <<"member", g>>} \subseteq Rows
    BY DEF Rows
  <1>6. ASSUME \A id \in Rows \ {own} : grant[id].at = 0
        PROVE  \A id \in {<<"consent", g>>, <<"member", g>>} : grant[id].active \/ grant[id].at >= e.created
    BY <1>3, <1>4, <1>5, <1>6
  <1> QED BY <1>1, <1>2, <1>6 DEF Reported, Sendable

\* A projection shows a member only while every consent and approved scope it rests
\* on is in force when it commits, however withdrawals run beside it, and a removal
\* is captured for, and can be sent to, whoever could see the member until then.
THEOREM ProjectionSoundHolds == ProjectionSpec => ProjectionSound
  <1>1. ProjectionInit => ProjectionInv
    BY ProjectionInitial
  <1>2. ProjectionInv /\ [ProjectionNext]_projectionVars => ProjectionInv'
    BY ProjectionStep
  <1>3. ProjectionInv /\ [ProjectionNext]_projectionVars => [DisclosedWhileGrantedStep]_projectionVars
    BY ShownGranted
  <1>4. ProjectionInv => RemovalReported
    BY RemovalSendable
  <1> QED BY <1>1, <1>2, <1>3, <1>4, PTL DEF ProjectionSpec, ProjectionSound, DisclosedWhileGranted

----------------------------------------------------------------------------
LetterType ==
    [kind : Kinds \cup {"none"}, status : {"none", "dead_letter", "queued"},
     members : {"none", "empty", "shown", "removed"}, fields : SUBSET DOMAIN FieldScopes,
     resource : {"none", "shown", "removed"}]

\* A letter carries only the fields its kind is captured with, and fields of members
\* only if it shows one.  The table of replay does not know the epoch of a
\* membership: it is never captured without the status.
LetterFits(l) ==
    /\ l.fields \subseteq DOMAIN FieldScopes
    /\ "epoch" \in l.fields => "status" \in l.fields
    /\ l.kind = "profile" => l.fields \subseteq ProfileFields
    /\ l.kind = "organization" => l.fields \subseteq {"org_name"}
    /\ l.kind \in {"member", "tag", "trust"} => l.members = "shown" \/ l.fields = {}
    /\ l.kind \notin {"member", "tag", "trust", "profile", "organization"} => l.fields = {}
    /\ l.resource = "shown" => l.kind \in DOMAIN RawScope \cup DOMAIN AggregateScope

DisclosureInv == deadLetter \in LetterType /\ LetterFits(deadLetter)

LEMMA ProfileTables ==
    ASSUME NEW M, NEW F \in SUBSET ProfileFields, RequiredProfileScopes(F) \subseteq M,
           NEW f \in F
    PROVE  Authorized(f, M)
  <1>1. /\ "public_id" \in F => Self("identity") \in M
        /\ "display_name" \in F => Self("profile") \in M
        /\ "email" \in F => Self("email") \in M
        /\ "phone_number" \in F => Self("phone") \in M
    BY DEF RequiredProfileScopes
  <1>2. CASE f = "public_id"
    BY <1>1, <1>2 DEF Authorized, FieldScopes
  <1>3. CASE f = "display_name"
    BY <1>1, <1>3 DEF Authorized, FieldScopes
  <1>4. CASE f = "email"
    BY <1>1, <1>4 DEF Authorized, FieldScopes
  <1>5. CASE f = "phone_number"
    BY <1>1, <1>5 DEF Authorized, FieldScopes
  <1> QED BY <1>2, <1>3, <1>4, <1>5 DEF ProfileFields

\* The table of replay is as strong as the table of capture, field by field.
LEMMA MemberTables ==
    ASSUME NEW M, NEW F \in SUBSET DOMAIN FieldScopes, RequiredMemberScopes(F) \subseteq M,
           "epoch" \in F => "status" \in F, NEW f \in F \ {"version"}
    PROVE  Authorized(f, M)
  <1>1. CASE f \in ProfileFields
    <2>1. RequiredProfileScopes(F \cap ProfileFields) \subseteq M
      BY DEF RequiredMemberScopes, RequiredProfileScopes, ProfileFields
    <2> QED BY <1>1, <2>1, ProfileTables
  <1>2. CASE f \in {"principal_state", "status", "epoch", "org_role"}
    <2>1. F \cap {"principal_state", "status", "org_role"} # {}
      BY <1>2
    <2>2. Self("membership") \in M
      BY <2>1 DEF RequiredMemberScopes
    <2> QED BY <1>2, <2>2 DEF Authorized, FieldScopes
  <1>3. CASE f = "org_name"
    BY <1>3 DEF RequiredMemberScopes, Authorized, FieldScopes
  <1>4. CASE f = "tags"
    BY <1>4 DEF RequiredMemberScopes, Authorized, FieldScopes
  <1>5. CASE f = "first_silicon"
    BY <1>5 DEF RequiredMemberScopes, Authorized, FieldScopes
  <1>6. CASE f = "reports_to"
    BY <1>6 DEF RequiredMemberScopes, Authorized, FieldScopes
  <1>7. CASE f = "trust"
    BY <1>7 DEF RequiredMemberScopes, Authorized, FieldScopes
  <1>8. CASE f = "effective_trust"
    BY <1>8 DEF RequiredMemberScopes, Authorized, FieldScopes
  <1>9. CASE f = "job_description"
    BY <1>9 DEF RequiredMemberScopes, Authorized, FieldScopes
  <1>10. CASE f = "capabilities"
    BY <1>10 DEF RequiredMemberScopes, Authorized, FieldScopes
  <1> QED
    BY <1>1, <1>2, <1>3, <1>4, <1>5, <1>6, <1>7, <1>8, <1>9, <1>10 DEF FieldScopes, ProfileFields

LEMMA PublishedTyped ==
    ASSUME NEW kind \in Kinds, NEW ended \in BOOLEAN, PublishLetter(kind, ended)
    PROVE  deadLetter' \in LetterType
  <1>1. PICK members \in {"none", "empty", "shown", "removed"},
             fields \in SUBSET DOMAIN FieldScopes, resource \in {"none", "shown", "removed"} :
          deadLetter' = Letter(kind, members, fields, resource)
    <2>1. Reach(ended) \in {"shown", "removed"} /\ CapturedMembers(ended) \in {"none", "shown", "removed"}
      BY DEF Reach, CapturedMembers
    <2>2. /\ CapturedFields(ended) \in SUBSET DOMAIN FieldScopes
          /\ {} \in SUBSET DOMAIN FieldScopes /\ {"org_name"} \in SUBSET DOMAIN FieldScopes
          /\ ProfilePayload(PrincipalScopes) \in SUBSET DOMAIN FieldScopes
      BY DEF CapturedFields, ProjectMember, ProfilePayload, ProfileFields, FieldScopes
    <2>3. CASE kind \in {"member"} \cup DOMAIN AggregateScope /\ CaptureMembers(kind, ended)
      BY <2>1, <2>2, <2>3 DEF CaptureMembers, ProjectEventResource
    <2>4. CASE kind \in DOMAIN RawScope /\ CaptureRaw(kind, ended)
      BY <2>1, <2>2, <2>4 DEF CaptureRaw
    <2>5. CASE kind = "organization" /\ CaptureOrganization(ended)
      BY <2>1, <2>2, <2>5 DEF CaptureOrganization
    <2>6. CASE kind = "profile" /\ SnapshotProfile(ended)
      BY <2>1, <2>2, <2>6 DEF SnapshotProfile
    <2>7. CASE kind \in {"logout", "application"} /\ Direct(kind)
      BY <2>1, <2>2, <2>7 DEF Direct
    <2> QED BY <2>3, <2>4, <2>5, <2>6, <2>7 DEF PublishLetter
  <1> QED BY <1>1 DEF Letter, LetterType

LEMMA PublishedFits ==
    ASSUME NEW kind \in Kinds, NEW ended \in BOOLEAN, PublishLetter(kind, ended)
    PROVE  LetterFits(deadLetter')
  <1> DEFINE l == deadLetter'
  <1>1. CASE kind \in {"member"} \cup DOMAIN AggregateScope /\ CaptureMembers(kind, ended)
    <2>1. PICK resource \in {"none", Reach(ended)} :
            l = Letter(kind, IF CapturedMembers(ended) = "none" THEN "empty" ELSE CapturedMembers(ended),
                       CapturedFields(ended), resource)
      BY <1>1 DEF CaptureMembers, ProjectEventResource
    <2>2. /\ l.kind = kind /\ l.fields = CapturedFields(ended) /\ l.resource = resource
          /\ l.members = IF CapturedMembers(ended) = "none" THEN "empty" ELSE CapturedMembers(ended)
      BY <2>1 DEF Letter
    <2>3. kind \in {"member", "tag", "trust"} /\ kind \in {"member"} \cup DOMAIN AggregateScope
      BY <1>1 DEF AggregateScope
    <2>4. l.fields \subseteq DOMAIN FieldScopes /\ ("epoch" \in l.fields => "status" \in l.fields)
      BY <2>2 DEF CapturedFields, ProjectMember, Authorized, FieldScopes
    <2>5. l.members = "shown" \/ l.fields = {}
      <3>1. CASE ended
        BY <2>2, <3>1 DEF CapturedFields
      <3>2. CASE ~ended /\ MembershipScopes = {}
        BY <2>2, <3>2 DEF CapturedFields, ProjectMember, Authorized
      <3>3. CASE ~ended /\ MembershipScopes # {}
        BY <2>2, <3>3 DEF CapturedMembers, Reach
      <3> QED BY <3>1, <3>2, <3>3
    <2>6. l.resource = "shown" => l.kind \in DOMAIN RawScope \cup DOMAIN AggregateScope
      <3>1. CASE kind = "member"
        BY <1>1, <3>1 DEF CaptureMembers, Letter
      <3> QED BY <2>2, <2>3, <3>1
    <2> QED BY <2>2, <2>3, <2>4, <2>5, <2>6 DEF LetterFits
  <1>2. CASE kind \in DOMAIN RawScope /\ CaptureRaw(kind, ended)
    <2>1. l.kind = kind /\ l.fields = {} /\ kind \in DOMAIN RawScope
      BY <1>2 DEF CaptureRaw, Letter
    <2> QED BY <2>1 DEF LetterFits
  <1>3. CASE kind = "organization" /\ CaptureOrganization(ended)
    <2>1. l.kind = kind /\ l.fields \subseteq {"org_name"} /\ l.resource = "none"
      BY <1>3 DEF CaptureOrganization, Letter
    <2>2. {"org_name"} \subseteq DOMAIN FieldScopes
      BY DEF FieldScopes
    <2> QED BY <1>3, <2>1, <2>2 DEF LetterFits
  <1>4. CASE kind = "profile" /\ SnapshotProfile(ended)
    <2>1. l.kind = "profile" /\ l.fields \subseteq ProfileFields /\ l.resource = "none"
      BY <1>4 DEF SnapshotProfile, Letter, ProfilePayload
    <2>2. ProfileFields \subseteq DOMAIN FieldScopes /\ "epoch" \notin ProfileFields
      BY DEF FieldScopes, ProfileFields
    <2> QED BY <2>1, <2>2 DEF LetterFits
  <1>5. CASE kind \in {"logout", "application"} /\ Direct(kind)
    <2>1. l.kind = kind /\ l.fields = {} /\ l.resource = "none"
      BY <1>5 DEF Direct, Letter
    <2> QED BY <1>5, <2>1 DEF LetterFits
  <1> QED BY <1>1, <1>2, <1>3, <1>4, <1>5 DEF PublishLetter

LEMMA DisclosureStep ==
    ASSUME DisclosureInv, [DisclosureNext]_disclosureVars
    PROVE  DisclosureInv'
  <1>1. CASE \E kind \in Kinds, ended \in BOOLEAN : PublishLetter(kind, ended)
    BY <1>1, PublishedFits, PublishedTyped DEF DisclosureInv
  <1>2. CASE ReplayCaptured \/ FailAgain
    <2>1. \/ deadLetter' = [deadLetter EXCEPT !.status = "queued"]
          \/ deadLetter' = [deadLetter EXCEPT !.status = "dead_letter"]
      BY <1>2 DEF ReplayCaptured, RequeuedLetter, FailAgain
    <2>2. /\ deadLetter'.kind = deadLetter.kind /\ deadLetter'.fields = deadLetter.fields
          /\ deadLetter'.members = deadLetter.members /\ deadLetter'.resource = deadLetter.resource
          /\ deadLetter' \in LetterType
      BY <2>1 DEF DisclosureInv, LetterType
    <2> QED BY <2>2 DEF DisclosureInv, LetterFits
  <1>3. CASE Grant \/ Withdraw \/ ChangeMember \/ ChangeEndpoint \/ UNCHANGED disclosureVars
    <2>1. deadLetter' = deadLetter
      BY <1>3 DEF Grant, Withdraw, ChangeMember, ChangeEndpoint, disclosureVars
    <2> QED BY <2>1 DEF DisclosureInv
  <1> QED BY <1>1, <1>2, <1>3 DEF DisclosureNext

\* What a replay discloses today's scopes disclose.
LEMMA ReplayedGranted ==
    ASSUME LetterFits(deadLetter), ReplayCaptured
    PROVE  FieldsStillGrantedStep
  <1> DEFINE l == deadLetter
  <1>1. l.kind \in {"logout", "application"} \/ AuthorizeCaptured(l)
    BY DEF ReplayCaptured, ReplayIsAuthorized
  <1>2. {"member", "tag", "trust"} \cap DOMAIN RawScope = {} /\ DOMAIN AggregateScope = {"tag", "trust"}
    BY DEF RawScope, AggregateScope
  <1>3. ASSUME NEW f \in l.fields \ {"version"} PROVE Authorized(f, Mapped(ScopesFor(l)))
    <2>1. l.kind \in {"member", "tag", "trust", "profile", "organization"}
      BY <1>3 DEF LetterFits
    <2>2. CASE l.kind \in {"member", "tag", "trust"}
      <3>1. l.members = "shown" /\ AuthorizeMembers(l)
        BY <1>1, <1>2, <1>3, <2>2 DEF LetterFits, AuthorizeCaptured
      <3>2. RequiredMemberScopes(l.fields) \subseteq Mapped(MembershipScopes)
        BY <3>1 DEF AuthorizeMembers
      <3>3. ScopesFor(l) = MembershipScopes
        BY <2>2 DEF ScopesFor
      <3> QED BY <1>3, <3>2, <3>3, MemberTables DEF LetterFits
    <2>3. CASE l.kind = "profile"
      <3>1. RequiredProfileScopes(l.fields) \subseteq Mapped(PrincipalScopes)
        BY <1>1, <1>2, <2>3 DEF AuthorizeCaptured, RawScope
      <3>2. ScopesFor(l) = PrincipalScopes
        BY <2>3 DEF ScopesFor
      <3> QED BY <1>3, <2>3, <3>1, <3>2, ProfileTables DEF LetterFits
    <2>4. CASE l.kind = "organization"
      <3>1. Self("organizations") \in OrganizationScopes
        BY <1>1, <1>2, <2>4 DEF AuthorizeCaptured, RawScope
      <3>2. ScopesFor(l) = OrganizationScopes /\ f = "org_name"
        BY <1>3, <2>4 DEF ScopesFor, LetterFits
      <3>3. Self("organizations") \in Mapped(OrganizationScopes)
        BY <3>1 DEF Mapped
      <3> QED BY <3>2, <3>3 DEF Authorized, FieldScopes
    <2> QED BY <2>1, <2>2, <2>3, <2>4
  <1>4. ASSUME l.resource = "shown"
        PROVE  IF l.kind \in DOMAIN RawScope THEN RawScope[l.kind] \in OrganizationScopes
               ELSE AggregateScope[l.kind] \in OrganizationScopes
    <2>1. l.kind \in DOMAIN RawScope \cup DOMAIN AggregateScope
      BY <1>4 DEF LetterFits
    <2>2. CASE l.kind \in DOMAIN RawScope
      <3>1. l.kind \in {"created", "tag_created", "invitation", "governance"}
        BY <2>2 DEF RawScope
      <3> QED BY <1>1, <1>2, <2>2, <3>1 DEF AuthorizeCaptured
    <2>3. CASE l.kind \in DOMAIN AggregateScope /\ l.kind \notin DOMAIN RawScope
      <3>1. l.kind \in {"tag", "trust"}
        BY <1>2, <2>3
      <3>2. AuthorizeResource(l)
        BY <1>1, <2>3, <3>1 DEF AuthorizeCaptured
      <3> QED BY <1>4, <2>3, <3>2 DEF AuthorizeResource
    <2> QED BY <2>1, <2>2, <2>3
  <1> QED BY <1>3, <1>4 DEF FieldsStillGrantedStep

\* A replayed letter shows no private field that the application could not be told
\* today, whatever was granted, withdrawn or left since it was captured.
THEOREM DisclosureSoundHolds == DisclosureSpec => DisclosureSound
  <1>1. DisclosureInit => DisclosureInv
    BY DEF DisclosureInit, NoDeadLetter, DisclosureInv, LetterFits, LetterType
  <1>2. DisclosureInv /\ [DisclosureNext]_disclosureVars => DisclosureInv'
    BY DisclosureStep
  <1>3. DisclosureInv => [FieldsStillGrantedStep]_disclosureVars
    BY ReplayedGranted DEF DisclosureInv, FieldsStillGrantedStep
  <1> QED BY <1>1, <1>2, <1>3, PTL DEF DisclosureSpec, DisclosureSound

----------------------------------------------------------------------------
\* Only active tags are assigned, and only to active members.
RoutingInv ==
    /\ present \subseteq Members /\ current \subseteq Tags
    /\ tagsOf \in [Members -> SUBSET Tags]
    /\ \A m \in Members : tagsOf[m] \subseteq current
    /\ \A m \in Members \ present : tagsOf[m] = {}

LEMMA RoutingInitial ==
    ASSUME RoutingInit
    PROVE  RoutingInv
  BY DEF RoutingInit, RoutingInv

LEMMA RoutingKept ==
    ASSUME RoutingInv, [RoutingNext]_routingVars
    PROVE  RoutingInv'
  <1>1. ASSUME NEW m \in Members, UpdateMember(m) PROVE RoutingInv'
    BY <1>1 DEF UpdateMember, RoutingInv
  <1>2. ASSUME NEW m \in Members, RemoveMember(m) PROVE RoutingInv'
    BY <1>2 DEF RemoveMember, RoutingInv
  <1>3. ASSUME NEW m \in Members, AddMember(m) PROVE RoutingInv'
    BY <1>3 DEF AddMember, RoutingInv
  <1>4. ASSUME NEW m \in Members, ActivateMember(m) PROVE RoutingInv'
    BY <1>4 DEF ActivateMember, RoutingInv
  <1>5. ASSUME NEW t \in Tags, ArchiveTag(t) PROVE RoutingInv'
    BY <1>5 DEF ArchiveTag, RoutingInv
  <1>6. ASSUME UNCHANGED <<present, tagsOf, current>> PROVE RoutingInv'
    BY <1>6 DEF RoutingInv
  <1> QED
    BY <1>1, <1>2, <1>3, <1>4, <1>5, <1>6
       DEF RoutingNext, routingVars, UpdateProfile, RenameTag, ChangeRule, UpdateOrganization, ChangeSso

\* A subscriber with the tag filter alone, and one with a topic alone.
Filtered == [all |-> TRUE, topics |-> {}, filtered |-> TRUE, extra |-> {}]
Only(topic) == [all |-> FALSE, topics |-> {topic}, filtered |-> FALSE, extra |-> {}]

\* What a frozen routing means to a silicon that is present.
LEMMA FrozenHeard ==
    ASSUME NEW topics, NEW ms, NEW tags, NEW before, NEW wide \in BOOLEAN,
           routed' = Frozen(topics, ms, tags, before, wide),
           NEW s \in Silicons \cap present', tagsOf'[s] \subseteq current'
    PROVE  /\ routed'.members = ms /\ routed'.tags = tags
           /\ Receives(s, Filtered)' <=>
                ~wide /\ tags # {} /\ (s \in before \/ tagsOf'[s] \cap tags # {})
           /\ \A topic : Receives(s, Only(topic))' <=> topic \in topics
  <1>1. /\ routed'.members = ms /\ routed'.tags = tags /\ routed'.topics = topics
        /\ routed'.wide = wide /\ routed'.routable = TRUE
        /\ routed'.own = OwnTagAudience(tags, before)
    BY DEF Frozen
  <1>2. s \in routed'.own <=> tags # {} /\ (s \in before \/ tagsOf'[s] \cap tags # {})
    BY <1>1 DEF OwnTagAudience
  <1>3. Receives(s, Filtered)' <=> ~wide /\ s \in routed'.own
    BY <1>1 DEF Receives, Filtered
  <1>4. \A topic : Receives(s, Only(topic))' <=> topic \in topics
    BY <1>1 DEF Receives, Only
  <1> QED BY <1>1, <1>2, <1>3, <1>4

\* A change is routed as its properties demand: who hears of it, under which topics.
HeardExactly(ms, tags, before, wide) ==
    \A s \in Silicons \cap present' :
        ~wide /\ tags # {} /\ (s \in before \/ tagsOf'[s] \cap tags # {}) <=>
            \/ \E m \in ms : tagsOf[s] \cap tagsOf[m] # {} \/ tagsOf'[s] \cap tagsOf'[m] # {}
            \/ \E t \in tags \ TagsAround(ms) : t \in tagsOf[s] \cup tagsOf'[s]

ToldUnder(topics, ms) ==
    /\ present' # present <=> "membership" \in topics
    /\ trusted' # trusted \/ ruled' # ruled => "trust" \in topics
    /\ (\E m \in present \cap present' : tagsOf'[m] # tagsOf[m]) => "members" \in topics
    /\ Changed \subseteq ms

LEMMA FrozenExact ==
    ASSUME RoutingInv', NEW topics, NEW ms, NEW tags, NEW before, NEW wide \in BOOLEAN,
           routed' = Frozen(topics, ms, tags, before, wide),
           HeardExactly(ms, tags, before, wide), ToldUnder(topics, ms)
    PROVE  FilterExactStep /\ TopicsCoverStep
  <1>1. \A s \in Silicons \cap present' : tagsOf'[s] \subseteq current'
    BY SiliconAssumption DEF RoutingInv
  <1>2. FilterExactStep
    BY <1>1, FrozenHeard DEF FilterExactStep, HeardExactly, Filtered
  <1>3. TopicsCoverStep
    <2>1. SUFFICES ASSUME NEW s \in Silicons \cap present'
                   PROVE  /\ present' # present <=> Receives(s, Only("membership"))'
                          /\ trusted' # trusted \/ ruled' # ruled => Receives(s, Only("trust"))'
                          /\ (\E m \in present \cap present' : tagsOf'[m] # tagsOf[m])
                               => Receives(s, Only("members"))'
                          /\ Changed \subseteq routed'.members
      BY DEF TopicsCoverStep, Only
    <2>2. routed'.members = ms /\ \A topic : Receives(s, Only(topic))' <=> topic \in topics
      BY <1>1, FrozenHeard
    <2> QED BY <2>2 DEF ToldUnder
  <1> QED BY <1>2, <1>3

\* The parts of a routing, for the kinds of payloads the operations build.
LEMMA MembersAndTags ==
    ASSUME NEW p
    PROVE  Routing(p) = Frozen(SiliconTopics(p), CollectMembers(p), AffectedTags(p), BeforeTagged(p),
                               CollectMembers(p) = {} /\ AffectedTags(p) = {})
  BY DEF Routing

\* The directory edit, the removal and the arrival of a member name it, with the tags
\* it held and the tags it holds.
LEMMA OneMember ==
    ASSUME RoutingInv, RoutingInv', NEW m \in Members, NEW kind \in {"updated", "removed", "created"},
           NEW before, NEW after,
           routed' = Routing(Payload(kind, {m}, {}, {}, {}, before, after)),
           before.tags = tagsOf[m], after.tags = tagsOf'[m],
           \A n \in Members \ {m} : tagsOf'[n] = tagsOf[n],
           current' = current,
           ToldUnder(SiliconTopics(Payload(kind, {m}, {}, {}, {}, before, after)), {m})
    PROVE  FilterExactStep /\ TopicsCoverStep
  <1> DEFINE p == Payload(kind, {m}, {}, {}, {}, before, after)
             tags == tagsOf[m] \cup tagsOf'[m]
             was == IF tagsOf[m] # {} THEN {m} ELSE {}
  <1>1. CollectMembers(p) = {m} /\ AffectedTags(p) = tags /\ BeforeTagged(p) = was
    <2>1. {m} = {m} \cup {} \cup {} /\ CurrentTags({m}) = tagsOf'[m]
      BY DEF CurrentTags
    <2>2. /\ CollectMembers(p) = {m}
          /\ AffectedTags(p) = {} \cup before.tags \cup after.tags \cup CurrentTags({m})
          /\ BeforeTagged(p) = {} \cup (IF before.tags # {} THEN {m} ELSE {})
      BY <2>1 DEF Payload, CollectMembers, AffectedTags, CollectTags, BeforeTagged
    <2> QED BY <2>1, <2>2
  <1>2. routed' = Frozen(SiliconTopics(p), {m}, tags, was, FALSE)
    BY <1>1, MembersAndTags
  <1>3. HeardExactly({m}, tags, was, FALSE)
    <2>1. SUFFICES ASSUME NEW s \in Silicons \cap present'
                   PROVE  tags # {} /\ (s \in was \/ tagsOf'[s] \cap tags # {}) <=>
                            \/ tagsOf[s] \cap tagsOf[m] # {} \/ tagsOf'[s] \cap tagsOf'[m] # {}
                            \/ \E t \in tags \ TagsAround({m}) : t \in tagsOf[s] \cup tagsOf'[s]
      BY DEF HeardExactly
    <2>2. TagsAround({m}) = tags
      BY DEF TagsAround
    <2>3. s \in Members
      BY SiliconAssumption
    <2>4. CASE s = m
      BY <2>2, <2>4
    <2>5. CASE s # m
      <3>1. tagsOf'[s] = tagsOf[s]
        BY <2>3, <2>5
      <3> QED BY <2>2, <2>5, <3>1
    <2> QED BY <2>4, <2>5
  <1> QED BY <1>2, <1>3, FrozenExact

LEMMA UpdateRouted ==
    ASSUME RoutingInv, RoutingInv', NEW m \in Members, UpdateMember(m)
    PROVE  FilterExactStep /\ TopicsCoverStep
  <1> DEFINE p == Payload("updated", {m}, {}, {}, {}, Member(m), Member(m)')
  <1>1. PICK T \in SUBSET current, raise \in BOOLEAN :
          /\ tagsOf' = [tagsOf EXCEPT ![m] = T]
          /\ trusted' = IF raise THEN trusted \cup {m} ELSE trusted \ {m}
    BY DEF UpdateMember
  <1>2. routed' = Routing(p) /\ UNCHANGED <<present, current, ruled>> /\ m \in present
    BY DEF UpdateMember
  <1>3. \A n \in Members \ {m} : tagsOf'[n] = tagsOf[n] /\ Member(n)' = Member(n)
    <2> SUFFICES ASSUME NEW n \in Members \ {m}
                 PROVE  tagsOf'[n] = tagsOf[n] /\ Member(n)' = Member(n)
      OBVIOUS
    <2>1. ASSUME tagsOf'[n] = tagsOf[n], (n \in trusted') = (n \in trusted)
          PROVE  Member(n)' = Member(n)
      <3>1. Member(n)' = [tags |-> tagsOf'[n], trust |-> n \in trusted', ruled |-> FALSE]
        BY DEF Member
      <3>2. Member(n) = [tags |-> tagsOf[n], trust |-> n \in trusted, ruled |-> FALSE]
        BY DEF Member
      <3> QED BY <2>1, <3>1, <3>2, Zenon
    <2>2. tagsOf'[n] = tagsOf[n]
      BY <1>1 DEF RoutingInv
    <2>3. (n \in trusted') = (n \in trusted)
      BY <1>1
    <2> QED BY <2>1, <2>2, <2>3
  <1>4. Member(m).tags = tagsOf[m] /\ Member(m)'.tags = tagsOf'[m]
    BY DEF Member
  <1>5. p.kind = "updated" /\ p.before = Member(m) /\ p.after = Member(m)'
    BY DEF Payload
  <1>6. SiliconTopics(p) = IF (m \in trusted) = (m \in trusted') THEN {"members"}
                           ELSE {"trust"} \cup (IF tagsOf[m] # tagsOf'[m] THEN {"members"} ELSE {})
    <2>1. SiliconTopics(p) = MembershipUpdateTopics(p)
      BY <1>5 DEF SiliconTopics
    <2>2. p.before.trust = (m \in trusted) /\ p.after.trust = (m \in trusted')
      BY <1>5 DEF Member
    <2>3. p.before.tags = tagsOf[m] /\ p.after.tags = tagsOf'[m]
      BY <1>4, <1>5
    <2> QED BY <2>1, <2>2, <2>3 DEF MembershipUpdateTopics
  <1>7. ToldUnder(SiliconTopics(p), {m})
    <2>1. (trusted' # trusted) => (m \in trusted) # (m \in trusted')
      BY <1>1
    <2>2. Changed \subseteq {m}
      BY <1>2, <1>3 DEF Changed
    <2>3. "membership" \notin SiliconTopics(p) /\ (tagsOf[m] # tagsOf'[m] => "members" \in SiliconTopics(p))
      BY <1>6
    <2>4. \A n \in present : tagsOf'[n] # tagsOf[n] => n = m
      BY <1>3 DEF RoutingInv
    <2>5. (m \in trusted) # (m \in trusted') => "trust" \in SiliconTopics(p)
      BY <1>6
    <2> QED BY <1>2, <2>1, <2>2, <2>3, <2>4, <2>5 DEF ToldUnder
  <1> QED BY <1>2, <1>3, <1>4, <1>7, OneMember

LEMMA RemoveRouted ==
    ASSUME RoutingInv, RoutingInv', NEW m \in Members, RemoveMember(m)
    PROVE  FilterExactStep /\ TopicsCoverStep
  <1> DEFINE p == Payload("removed", {m}, {}, {}, {}, Member(m), Nothing)
  <1>1. /\ routed' = Routing(p) /\ UNCHANGED <<current, trusted, ruled>> /\ m \in present
        /\ present' = present \ {m} /\ tagsOf' = [tagsOf EXCEPT ![m] = {}]
    BY DEF RemoveMember
  <1>2. \A n \in Members \ {m} : tagsOf'[n] = tagsOf[n] /\ Member(n)' = Member(n)
    BY <1>1 DEF RoutingInv, Member
  <1>3. Member(m).tags = tagsOf[m] /\ Nothing.tags = tagsOf'[m]
    BY <1>1 DEF Member, Nothing, RoutingInv
  <1>4. SiliconTopics(p) = {"membership"}
    BY DEF Payload, SiliconTopics
  <1>5. ToldUnder(SiliconTopics(p), {m})
    <2>1. Changed \subseteq {m}
      BY <1>1, <1>2 DEF Changed
    <2>2. \A n \in present' : tagsOf'[n] = tagsOf[n]
      BY <1>1, <1>2 DEF RoutingInv
    <2> QED BY <1>1, <1>4, <2>1, <2>2 DEF ToldUnder
  <1> QED BY <1>1, <1>2, <1>3, <1>5, OneMember

LEMMA AddRouted ==
    ASSUME RoutingInv, RoutingInv', NEW m \in Members, AddMember(m)
    PROVE  FilterExactStep /\ TopicsCoverStep
  <1> DEFINE p == Payload("created", {m}, {}, {}, {}, Nothing, Member(m)')
  <1>1. /\ routed' = Routing(p) /\ UNCHANGED <<current, trusted, ruled>> /\ m \notin present
        /\ present' = present \cup {m}
    BY DEF AddMember
  <1>2. PICK T \in SUBSET current : tagsOf' = [tagsOf EXCEPT ![m] = T]
    BY DEF AddMember
  <1>3. \A n \in Members \ {m} : tagsOf'[n] = tagsOf[n] /\ Member(n)' = Member(n)
    BY <1>1, <1>2 DEF RoutingInv, Member
  <1>4. Nothing.tags = tagsOf[m] /\ Member(m)'.tags = tagsOf'[m]
    BY <1>1 DEF Member, Nothing, RoutingInv
  <1>5. SiliconTopics(p) = {"membership"}
    BY DEF Payload, SiliconTopics
  <1>6. ToldUnder(SiliconTopics(p), {m})
    <2>1. Changed \subseteq {m}
      BY <1>1, <1>3 DEF Changed
    <2>2. \A n \in present : tagsOf'[n] = tagsOf[n]
      BY <1>1, <1>3 DEF RoutingInv
    <2> QED BY <1>1, <1>5, <2>1, <2>2 DEF ToldUnder
  <1> QED BY <1>1, <1>3, <1>4, <1>6, OneMember

\* Whoever joins by signing in holds no tags yet.
LEMMA ActivateRouted ==
    ASSUME RoutingInv, RoutingInv', NEW m \in Members, ActivateMember(m)
    PROVE  FilterExactStep /\ TopicsCoverStep
  <1>1. /\ UNCHANGED <<tagsOf, current, trusted, ruled>> /\ m \notin present
        /\ present' = present \cup {m}
        /\ routed' = Frozen({"membership"}, {m}, tagsOf'[m], {}, FALSE)
    BY DEF ActivateMember, ActivationRouting
  <1>2. tagsOf'[m] = {} /\ tagsOf[m] = {}
    BY <1>1 DEF RoutingInv
  <1>3. HeardExactly({m}, tagsOf'[m], {}, FALSE)
    BY <1>2 DEF HeardExactly
  <1>4. ToldUnder({"membership"}, {m})
    BY <1>1 DEF ToldUnder, Changed, Member
  <1> QED BY <1>1, <1>3, <1>4, FrozenExact

LEMMA ProfileRouted ==
    ASSUME RoutingInv, RoutingInv', NEW m \in Members, UpdateProfile(m)
    PROVE  FilterExactStep /\ TopicsCoverStep
  <1>1. /\ UNCHANGED <<present, tagsOf, current, trusted, ruled>>
        /\ routed' = Frozen({"members"}, {m}, tagsOf[m], {}, FALSE)
    BY DEF UpdateProfile, ProfileRouting
  <1>2. HeardExactly({m}, tagsOf[m], {}, FALSE)
    BY <1>1 DEF HeardExactly, TagsAround
  <1>3. ToldUnder({"members"}, {m})
    BY <1>1 DEF ToldUnder, Changed, Member
  <1> QED BY <1>1, <1>2, <1>3, FrozenExact

\* Changes of the organization itself have no tags to filter by.
LEMMA WideRouted ==
    ASSUME RoutingInv, RoutingInv', UpdateOrganization \/ ChangeSso
    PROVE  FilterExactStep /\ TopicsCoverStep
  <1>1. UNCHANGED <<present, tagsOf, current, trusted, ruled>>
    BY DEF UpdateOrganization, ChangeSso
  <1>2. HeardExactly({}, {}, {}, TRUE)
    BY DEF HeardExactly
  <1>3. \A topics : "membership" \notin topics => ToldUnder(topics, {})
    BY <1>1 DEF ToldUnder, Changed, Member
  <1>4. CASE ChangeSso
    <2>1. routed' = Frozen({}, {}, {}, {}, TRUE)
      BY <1>4 DEF ChangeSso, SsoRouting
    <2> QED BY <1>2, <1>3, <2>1, FrozenExact
  <1>5. CASE UpdateOrganization
    <2>1. PICK kind \in {"organization", "default"} :
            routed' = Routing(Payload(kind, {}, {}, {}, {}, Nothing, Nothing))
      BY <1>5 DEF UpdateOrganization
    <2> DEFINE p == Payload(kind, {}, {}, {}, {}, Nothing, Nothing)
    <2>2. CollectMembers(p) = {} /\ AffectedTags(p) = {} /\ BeforeTagged(p) = {}
      <3>1. /\ CollectMembers(p) = {}
            /\ AffectedTags(p) = {} \cup Nothing.tags \cup Nothing.tags \cup CurrentTags({})
            /\ BeforeTagged(p) = {} \cup (IF Nothing.tags # {} THEN {} ELSE {})
        BY DEF Payload, CollectMembers, AffectedTags, CollectTags, BeforeTagged
      <3>2. CurrentTags({}) = {}
        BY DEF CurrentTags
      <3> QED BY <3>1, <3>2 DEF Nothing
    <2>3. "membership" \notin SiliconTopics(p)
      BY <2>1 DEF Payload, SiliconTopics
    <2>4. routed' = Frozen(SiliconTopics(p), {}, {}, {}, TRUE)
      BY <2>1, <2>2, MembersAndTags
    <2> QED BY <1>2, <1>3, <2>3, <2>4, FrozenExact
  <1> QED BY <1>4, <1>5

\* A change of a tag concerns its holders: whoever holds it is one of them.
LEMMA TagHeard ==
    ASSUME RoutingInv, NEW t \in current,
           present' = present, NEW U, U = {t} \cup CurrentTags(Holders(t)),
           NEW before \in {Holders(t), {}},
           \/ tagsOf' = tagsOf
           \/ before = Holders(t) /\ tagsOf' = [m \in Members |-> tagsOf[m] \ {t}]
    PROVE  HeardExactly(Holders(t), U, before, FALSE)
  <1>1. SUFFICES ASSUME NEW s \in Silicons \cap present
                 PROVE  (s \in before \/ tagsOf'[s] \cap U # {}) <=>
                          \/ \E m \in Holders(t) : tagsOf[s] \cap tagsOf[m] # {} \/ tagsOf'[s] \cap tagsOf'[m] # {}
                          \/ \E u \in U \ TagsAround(Holders(t)) : u \in tagsOf[s] \cup tagsOf'[s]
    BY DEF HeardExactly
  <1>2. s \in Members /\ (t \in tagsOf[s] <=> s \in Holders(t)) /\ Holders(t) \subseteq Members
    BY SiliconAssumption DEF Holders, RoutingInv
  <1>3. \A m \in Members : tagsOf'[m] \subseteq tagsOf[m] /\ tagsOf[m] \subseteq tagsOf'[m] \cup {t}
    BY DEF RoutingInv
  <1>4. ASSUME s \in before \/ tagsOf'[s] \cap U # {}
        PROVE  \E m \in Holders(t) : tagsOf[s] \cap tagsOf[m] # {} \/ tagsOf'[s] \cap tagsOf'[m] # {}
    <2>1. CASE s \in Holders(t)
      BY <1>2, <2>1
    <2>2. CASE s \notin Holders(t)
      <3>1. PICK u \in U : u \in tagsOf'[s]
        BY <1>4, <2>2
      <3>2. u # t
        BY <1>2, <1>3, <2>2, <3>1
      <3>3. PICK m \in Holders(t) : u \in tagsOf'[m]
        BY <3>1, <3>2 DEF CurrentTags
      <3> QED BY <3>1, <3>3
    <2> QED BY <2>1, <2>2
  <1>5. ASSUME NEW m \in Holders(t), tagsOf[s] \cap tagsOf[m] # {}
        PROVE  s \in before \/ tagsOf'[s] \cap U # {}
    <2>1. PICK u : u \in tagsOf[s] /\ u \in tagsOf[m]
      BY <1>5
    <2>2. CASE tagsOf' = tagsOf
      BY <1>5, <2>1, <2>2 DEF CurrentTags
    <2>3. CASE before = Holders(t) /\ u = t
      BY <1>2, <2>1, <2>3
    <2>4. CASE u # t
      <3>1. u \in tagsOf'[s] /\ u \in tagsOf'[m]
        BY <1>2, <1>3, <2>1, <2>4
      <3> QED BY <1>5, <3>1 DEF CurrentTags
    <2> QED BY <2>2, <2>3, <2>4
  <1>6. ASSUME NEW m \in Holders(t), tagsOf'[s] \cap tagsOf'[m] # {}
        PROVE  tagsOf'[s] \cap U # {}
    BY <1>6 DEF CurrentTags
  <1>7. ASSUME NEW u \in U \ TagsAround(Holders(t)), u \in tagsOf[s] \cup tagsOf'[s]
        PROVE  FALSE
    <2>1. u = t
      BY <1>7 DEF TagsAround, CurrentTags
    <2>2. s \in Holders(t)
      BY <1>2, <1>3, <1>7, <2>1
    <2>3. t \in TagsAround(Holders(t))
      BY <1>2, <2>2 DEF TagsAround
    <2> QED BY <1>7, <2>1, <2>3
  <1> QED BY <1>4, <1>5, <1>6, <1>7

LEMMA RenameRouted ==
    ASSUME RoutingInv, RoutingInv', NEW t \in Tags, RenameTag(t)
    PROVE  FilterExactStep /\ TopicsCoverStep
  <1> DEFINE p == Payload("renamed", {}, {}, Holders(t), {t}, Nothing, Nothing)
             U == {t} \cup CurrentTags(Holders(t))
  <1>1. t \in current /\ routed' = Routing(p) /\ UNCHANGED <<present, tagsOf, current, trusted, ruled>>
    BY DEF RenameTag
  <1>2. CollectMembers(p) = Holders(t) /\ AffectedTags(p) = U /\ BeforeTagged(p) = Holders(t)
    BY DEF Payload, CollectMembers, AffectedTags, CollectTags, BeforeTagged, Nothing
  <1>3. routed' = Frozen(SiliconTopics(p), Holders(t), U, Holders(t), FALSE)
    BY <1>1, <1>2, MembersAndTags
  <1>4. HeardExactly(Holders(t), U, Holders(t), FALSE)
    BY <1>1, TagHeard
  <1>5. "membership" \notin SiliconTopics(p)
    BY DEF Payload, SiliconTopics
  <1>6. ToldUnder(SiliconTopics(p), Holders(t))
    BY <1>1, <1>5 DEF ToldUnder, Changed, Member
  <1> QED BY <1>3, <1>4, <1>6, FrozenExact

LEMMA RuleRouted ==
    ASSUME RoutingInv, RoutingInv', NEW t \in Tags, ChangeRule(t)
    PROVE  FilterExactStep /\ TopicsCoverStep
  <1> DEFINE p == Payload("rule", {}, Holders(t), {}, {t}, Nothing, Nothing)
             U == {t} \cup CurrentTags(Holders(t))
  <1>1. t \in current /\ routed' = Routing(p) /\ UNCHANGED <<present, tagsOf, current, trusted>>
    BY DEF ChangeRule
  <1>2. CollectMembers(p) = Holders(t) /\ AffectedTags(p) = U /\ BeforeTagged(p) = {}
    BY DEF Payload, CollectMembers, AffectedTags, CollectTags, BeforeTagged, Nothing
  <1>3. routed' = Frozen(SiliconTopics(p), Holders(t), U, {}, FALSE)
    BY <1>1, <1>2, MembersAndTags
  <1>4. HeardExactly(Holders(t), U, {}, FALSE)
    BY <1>1, TagHeard
  <1>5. SiliconTopics(p) = {"trust"}
    BY DEF Payload, SiliconTopics
  <1>6. ToldUnder(SiliconTopics(p), Holders(t))
    BY <1>1, <1>5 DEF ToldUnder, Changed, Member
  <1> QED BY <1>3, <1>4, <1>6, FrozenExact

LEMMA ArchiveRouted ==
    ASSUME RoutingInv, RoutingInv', NEW t \in Tags, ArchiveTag(t)
    PROVE  FilterExactStep /\ TopicsCoverStep
  <1> DEFINE was == [Nothing EXCEPT !.ruled = t \in ruled]
             p == Payload("archived", {}, {}, Holders(t), {t}, was, Nothing)
             U == {t} \cup CurrentTags(Holders(t))
  <1>1. /\ t \in current /\ routed' = Routing(p) /\ UNCHANGED <<present, trusted>>
        /\ tagsOf' = [m \in Members |-> tagsOf[m] \ {t}] /\ ruled' = ruled \ {t}
    BY DEF ArchiveTag
  <1>2. was.tags = {} /\ was.ruled = (t \in ruled) /\ Nothing.tags = {}
    BY DEF Nothing
  <1>3. CollectMembers(p) = Holders(t) /\ AffectedTags(p) = U /\ BeforeTagged(p) = Holders(t)
    BY <1>2 DEF Payload, CollectMembers, AffectedTags, CollectTags, BeforeTagged, Nothing
  <1>4. routed' = Frozen(SiliconTopics(p), Holders(t), U, Holders(t), FALSE)
    BY <1>1, <1>3, MembersAndTags
  <1>5. HeardExactly(Holders(t), U, Holders(t), FALSE)
    BY <1>1, TagHeard
  <1>6. p.kind = "archived" /\ p.assigned = Holders(t) /\ p.before = was
    BY DEF Payload
  <1>7. SiliconTopics(p) = (IF Holders(t) # {} THEN {"members"} ELSE {})
                             \cup (IF t \in ruled THEN {"trust"} ELSE {})
    BY <1>2, <1>6 DEF SiliconTopics, ArchiveTopics
  <1>8. \A m \in Members \ Holders(t) : tagsOf'[m] = tagsOf[m] /\ Member(m)' = Member(m)
    BY <1>1 DEF Holders, RoutingInv, Member
  <1>9. ToldUnder(SiliconTopics(p), Holders(t))
    <2>1. Changed \subseteq Holders(t)
      BY <1>1, <1>8 DEF Changed
    <2>2. \A m \in present : tagsOf'[m] # tagsOf[m] => Holders(t) # {}
      BY <1>8 DEF RoutingInv
    <2>3. ruled' # ruled => t \in ruled
      BY <1>1
    <2> QED BY <1>1, <1>7, <2>1, <2>2, <2>3 DEF ToldUnder
  <1> QED BY <1>4, <1>5, <1>9, FrozenExact

LEMMA RoutingExact ==
    ASSUME RoutingInv, RoutingInv', RoutingNext
    PROVE  FilterExactStep /\ TopicsCoverStep
  BY UpdateRouted, RemoveRouted, AddRouted, ActivateRouted, ProfileRouted, WideRouted,
     RenameRouted, RuleRouted, ArchiveRouted DEF RoutingNext

\* A filtered subscriber hears of exactly the changes it shared a tag with before or
\* after, and every change is reported under the topics it belongs to, for every set
\* of members, silicons and tags.
THEOREM RoutingSoundHolds == RoutingSpec => RoutingSound
  <1>1. RoutingInit => RoutingInv
    BY RoutingInitial
  <1>2. RoutingInv /\ [RoutingNext]_routingVars => RoutingInv'
    BY RoutingKept
  <1>3. RoutingInv /\ RoutingInv' /\ [RoutingNext]_routingVars
          => [FilterExactStep]_routingVars /\ [TopicsCoverStep]_routingVars
    BY RoutingExact
  <1> QED BY <1>1, <1>2, <1>3, PTL DEF RoutingSpec, RoutingSound, FilterExact, TopicsCover
=============================================================================
