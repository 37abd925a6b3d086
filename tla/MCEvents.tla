------------------------------ MODULE MCEvents ------------------------------
(***************************************************************************)
(* Traffic: the events that leave the system, their routing, what they     *)
(* disclose and the endpoints they go to, and the calls exchanged with     *)
(* Honeycomb, each on a small instance of its own.  The first step chooses *)
(* one (focus), whose actions then are the only ones; the variables of the *)
(* others keep their initial values.  The properties are the components'   *)
(* own.                                                                    *)
(***************************************************************************)
EXTENDS WebhookPipeline, ApplicationEndpoint, HoneycombOperations, SiliconWebhook,
        WebhookProjection, ReplayDisclosure, EventRouting, TLC

CONSTANTS a1, a2, b1, b2

VARIABLE focus  \* the component that is checked

all == <<focus, vars, applicationEndpointVars, operationsVars, siliconWebhookVars,
         projectionVars, disclosureVars, routingVars>>

Symmetry == Permutations({a1, a2}) \cup Permutations({b1, b2})

\* Where a component starts makes no difference to the others.
EndpointIdle == ApplicationEndpointInit /\ endpoint["u1"].status = "pending_review"
OperationsIdle == OperationsInit /\ ~retired
ProjectionIdle == ProjectionInit /\ \A r \in Rows : grant[r].active
RoutingIdle == RoutingInit /\ \A m \in Members : tagsOf[m] = {}

EventsInit ==
    /\ focus \in {"delivery", "endpoint", "honeycomb", "silicon", "projection", "disclosure",
                 "routing"}
    /\ Init /\ SiliconWebhookInit /\ DisclosureInit
    /\ IF focus = "endpoint" THEN ApplicationEndpointInit ELSE EndpointIdle
    /\ IF focus = "honeycomb" THEN OperationsInit ELSE OperationsIdle
    /\ IF focus = "projection" THEN ProjectionInit ELSE ProjectionIdle
    /\ IF focus = "routing" THEN RoutingInit ELSE RoutingIdle

EventsNext ==
    /\ UNCHANGED focus
    /\ \/ focus = "delivery" /\ Next
            /\ UNCHANGED <<applicationEndpointVars, operationsVars, siliconWebhookVars, projectionVars, disclosureVars,
                           routingVars>>
       \/ focus = "endpoint" /\ ApplicationEndpointNext
            /\ UNCHANGED <<vars, operationsVars, siliconWebhookVars, projectionVars, disclosureVars,
                           routingVars>>
       \/ focus = "honeycomb" /\ OperationsNext
            /\ UNCHANGED <<vars, applicationEndpointVars, siliconWebhookVars, projectionVars, disclosureVars,
                           routingVars>>
       \/ focus = "silicon" /\ SiliconWebhookNext
            /\ UNCHANGED <<vars, applicationEndpointVars, operationsVars, projectionVars, disclosureVars,
                           routingVars>>
       \/ focus = "projection" /\ ProjectionNext
            /\ UNCHANGED <<vars, applicationEndpointVars, operationsVars, siliconWebhookVars, disclosureVars,
                           routingVars>>
       \/ focus = "disclosure" /\ DisclosureNext
            /\ UNCHANGED <<vars, applicationEndpointVars, operationsVars, siliconWebhookVars, projectionVars,
                           routingVars>>
       \/ focus = "routing" /\ RoutingNext
            /\ UNCHANGED <<vars, applicationEndpointVars, operationsVars, siliconWebhookVars, projectionVars,
                           disclosureVars>>

EventsSpec == EventsInit /\ [][EventsNext]_all
=============================================================================
