-------------------------- MODULE TestApplication --------------------------
(***************************************************************************)
(* The applications of one testing environment: imported from production,  *)
(* registered for tests, configured, given new secrets and retired by      *)
(* Honeycomb, which repeats a request until it has an answer.              *)
(*                                                                         *)
(* Sources: src/features/testing_environments/{graph,imports}.rs,          *)
(*          honeycomb/{testing_apps,imports,adoption_retention}.rs, and    *)
(*          migrations 0096, 0103, 0104, 0117, testing/9010 to 9012.       *)
(*                                                                         *)
(* Operation rows and the reservation of the environment are in the        *)
(* production database, applications and outcomes in the testing one.  A   *)
(* request may be delivered at any time and more than once; a handler may  *)
(* stop between any two commits.  Generation and key version are those of  *)
(* the environment throughout (TestingEnvironment has their fences).       *)
(***************************************************************************)
EXTENDS Naturals, FiniteSets

CONSTANTS
    Apps,          \* application ids
    DependsOn,     \* [Apps -> SUBSET Apps]: the closed dependency graph of each root
    TestRequests,  \* operation ids, each with one immutable body
    Deliveries,    \* handlers that may run at once
    MaxSource,     \* bound on production revisions
    MaxVersions,   \* bound on the versions of test applications
    MaxEnvRevision \* bound on the revision of the environment

NoTestRequest == "nobody"   \* no operation
Direct == "direct"          \* a secret minted by an import of the data plane

\* Operation ids are none of the names that stand for no operation.
ASSUME NamesApart == NoTestRequest \notin TestRequests /\ Direct \notin TestRequests

\* graph.rs loads the closed graph of a root, which contains the root.
ASSUME DependsAssumption ==
    /\ DependsOn \in [Apps -> SUBSET Apps]
    /\ \A a \in Apps : a \in DependsOn[a] /\ \A b \in DependsOn[a] : DependsOn[b] \subseteq DependsOn[a]

VARIABLES
    source,      \* production: the revision of each application, 0 = not registered
    app,         \* testing database: the application rows
    asked,       \* what each request asks for
    completed,   \* production: the completed operations
    graphOf,     \* production: the stored import graph of each operation
    holder,      \* production: the operation that reserves the environment
    envRevision, \* production: the revision of the environment
    outcomes,    \* testing database: operations with a stored outcome
    delivery,    \* the deliveries under way
    secretsOf,   \* history: secrets each operation gave each present application
    erasures,    \* history: how often each operation erased applications
    refuted      \* history: operations answered configuration_revision_conflict

testAppVars == <<source, app, asked, completed, graphOf, holder, envRevision, outcomes,
                 delivery, secretsOf, erasures, refuted>>

Absent == [live |-> FALSE, pin |-> 0, conf |-> 0, version |-> 0, secret |-> NoTestRequest]
NoBody == [kind |-> "none"]
NoGraph == [a \in {} |-> 0]
AtRest == [at |-> "idle", op |-> NoTestRequest, seen |-> 0]

TestAppInit ==
    /\ source \in [Apps -> {0, 1}]
    /\ app = [a \in Apps |-> Absent]
    /\ asked = [r \in TestRequests |-> NoBody]
    /\ completed = {}
    /\ graphOf = [r \in TestRequests |-> NoGraph]
    /\ holder = NoTestRequest
    /\ envRevision = 1
    /\ outcomes = {}
    /\ delivery = [d \in Deliveries |-> AtRest]
    /\ secretsOf = [r \in TestRequests |-> [a \in Apps |-> 0]]
    /\ erasures = [r \in TestRequests |-> 0]
    /\ refuted = {}

AppsKept == UNCHANGED <<app, secretsOf, erasures, outcomes>>
ControlKept == UNCHANGED <<completed, graphOf, holder, envRevision>>

\* An application is registered in production, or changed there.
Publish(a) ==
    /\ source[a] < MaxSource
    /\ source' = [source EXCEPT ![a] = @ + 1]
    /\ AppsKept /\ ControlKept /\ UNCHANGED <<asked, delivery, refuted>>

\* load_with_pins: a pinned application keeps its revision unless it is to be refreshed.
Loaded(root, refresh) ==
    [a \in DependsOn[root] |->
        IF app[a].live /\ app[a].pin > 0 /\ a \notin refresh THEN app[a].pin ELSE source[a]]

\* History: the erasures an application has behind it.
Erasures(a) ==
    {q \in TestRequests : asked[q].kind = "retire" /\ asked[q].app = a /\ erasures[q] > 0}

\* Honeycomb fixes a request, with the revisions it has seen.
Ask(r, kind, a, refresh) ==
    /\ asked[r] = NoBody
    /\ kind = "import" \/ refresh = {}
    /\ kind \in {"rotate", "retire"} => app[a].live
    /\ asked' = [asked EXCEPT ![r] =
           [kind |-> kind, app |-> a, refresh |-> refresh, rev |-> envRevision,
            conf |-> CASE kind = "configure" -> app[a].conf + 1
                       [] kind = "rotate" -> app[a].conf
                       [] OTHER -> 0,
            version |-> IF kind \in {"rotate", "configure"} THEN app[a].version ELSE 0,
            sources |-> IF kind = "import" THEN Loaded(a, refresh) ELSE NoGraph,
            after |-> Erasures(a)]]
    /\ AppsKept /\ ControlKept /\ UNCHANGED <<source, delivery, refuted>>

----------------------------------------------------------------------------
(* Secret rotation and configuration: one control transaction around one of *)
(* the testing database                                                     *)

\* honeycomb_testing_app_control_ready: no lifecycle operation is unfinished.
Ready == holder \in TestRequests => holder \in completed

\* The testing-runtime lock of the production database, held to the end of mutate.
RuntimeFree == \A d \in Deliveries : delivery[d].at \notin {"held", "stored"}

\* authorize and claim.  A completed operation is answered from its row.
Claim(d, r) ==
    /\ delivery[d] = AtRest /\ asked[r].kind \in {"rotate", "configure"} /\ r \notin completed
    /\ Ready /\ RuntimeFree
    /\ asked[r].kind = "configure" /\ asked[r].version = 0 => source[asked[r].app] = 0
    /\ delivery' = [delivery EXCEPT ![d] = [at |-> "held", op |-> r, seen |-> envRevision]]
    /\ AppsKept /\ ControlKept /\ UNCHANGED <<source, asked, refuted>>

\* The control connection is lost while the testing transaction goes on.
LoseControl(d) ==
    /\ delivery[d].at = "held"
    /\ delivery' = [delivery EXCEPT ![d].at = "orphan"]
    /\ AppsKept /\ ControlKept /\ UNCHANGED <<source, asked, refuted>>

\* The testing transaction is over: with an outcome, or refused.
Answered(d) ==
    delivery' = [delivery EXCEPT ![d] = IF @.at = "held" THEN [@ EXCEPT !.at = "stored"] ELSE AtRest]
Refused(d) == delivery' = [delivery EXCEPT ![d] = AtRest]

Stale(d) == delivery[d].seen # asked[delivery[d].op].rev

\* Mutant of ConfigurationDiffers: the revision is compared before the receipt is read.
ConfigurationDiffersFirst(r) ==
    app[asked[r].app].live /\ asked[r].kind = "rotate" /\ app[asked[r].app].conf # asked[r].conf

\* validate_rotation, reached only without a receipt.
ConfigurationDiffers(r) ==
    /\ r \notin outcomes
    /\ app[asked[r].app].live /\ asked[r].kind = "rotate" /\ app[asked[r].app].conf # asked[r].conf

\* A receipt answers a repeated request and nothing else happens.
Recall(d) ==
    /\ delivery[d].at \in {"held", "orphan"} /\ delivery[d].op \in outcomes
    /\ ~ConfigurationDiffers(delivery[d].op)
    /\ Answered(d)
    /\ AppsKept /\ ControlKept /\ UNCHANGED <<source, asked, refuted>>

\* The answer configuration_revision_conflict.
Refute(d) ==
    /\ delivery[d].at \in {"held", "orphan"} /\ ConfigurationDiffers(delivery[d].op)
    /\ refuted' = refuted \cup {delivery[d].op}
    /\ Refused(d)
    /\ AppsKept /\ ControlKept /\ UNCHANGED <<source, asked>>

\* Any other conflict: the environment or the application has moved on.
Conflict(d) ==
    LET r == delivery[d].op a == asked[r].app IN
    /\ delivery[d].at \in {"held", "orphan"} /\ r \notin outcomes /\ ~ConfigurationDiffers(r)
    /\ \/ Stale(d) \/ app[a].version # asked[r].version
       \/ asked[r].kind = "rotate" /\ ~app[a].live
       \/ asked[r].kind = "configure" /\ app[a].conf >= asked[r].conf
    /\ Refused(d)
    /\ AppsKept /\ ControlKept /\ UNCHANGED <<source, asked, refuted>>

\* Operation r gives application a a new secret.
Mint(r, a) == secretsOf' = [secretsOf EXCEPT ![r][a] = @ + 1]

RotateInTest(d) ==
    LET r == delivery[d].op a == asked[r].app IN
    /\ delivery[d].at \in {"held", "orphan"} /\ r \notin outcomes /\ asked[r].kind = "rotate"
    /\ app[a].live /\ ~ConfigurationDiffers(r) /\ ~Stale(d) /\ app[a].version = asked[r].version
    /\ app[a].version < MaxVersions
    /\ app' = [app EXCEPT ![a].version = @ + 1, ![a].secret = r]
    /\ Mint(r, a)
    /\ outcomes' = outcomes \cup {r}
    /\ Answered(d)
    /\ ControlKept /\ UNCHANGED <<source, asked, erasures, refuted>>

\* A new registration has revision zero and gets its first secret.
ConfigureInTest(d) ==
    LET r == delivery[d].op a == asked[r].app fresh == ~app[a].live IN
    /\ delivery[d].at \in {"held", "orphan"} /\ r \notin outcomes /\ asked[r].kind = "configure"
    /\ ~Stale(d) /\ app[a].version = asked[r].version /\ app[a].conf < asked[r].conf
    /\ app[a].version < MaxVersions
    /\ app' = [app EXCEPT ![a] =
           [live |-> TRUE, pin |-> app[a].pin, conf |-> asked[r].conf,
            version |-> @.version + 1, secret |-> IF fresh THEN r ELSE @.secret]]
    /\ IF fresh THEN Mint(r, a) ELSE UNCHANGED secretsOf
    /\ outcomes' = outcomes \cup {r}
    /\ Answered(d)
    /\ ControlKept /\ UNCHANGED <<source, asked, erasures, refuted>>

\* complete, and the commit of the control transaction.
Complete(d) ==
    /\ delivery[d].at = "stored"
    /\ completed' = completed \cup {delivery[d].op}
    /\ Refused(d)
    /\ AppsKept /\ UNCHANGED <<source, asked, graphOf, holder, envRevision, refuted>>

----------------------------------------------------------------------------
(* Import and retention: reservation, testing database, completion *)

\* Mutant of Graph: a retry loads the graph again.
GraphAnew(r) == Loaded(asked[r].app, asked[r].refresh)

\* imports::snapshot: the graph stored with the operation, if it has one.
Graph(r) == IF graphOf[r] # NoGraph THEN graphOf[r] ELSE Loaded(asked[r].app, asked[r].refresh)

\* Every dependency is available, at the exact revision the request names.
SourcesAgree(r) == Graph(r) = asked[r].sources /\ \A a \in DOMAIN Graph(r) : Graph(r)[a] > 0

\* honeycomb_testing_start and honeycomb_retention_start.  The first time they write the
\* environment, and the trigger on its table advances its revision.
Reserve(d, r) ==
    /\ delivery[d] = AtRest /\ asked[r].kind \in {"import", "retire"} /\ r \notin completed
    /\ RuntimeFree
    /\ holder = r \/ (Ready /\ asked[r].rev = envRevision /\ envRevision < MaxEnvRevision)
    /\ asked[r].kind = "import" => SourcesAgree(r)
    /\ asked[r].kind = "retire" /\ holder # r => app[asked[r].app].live
    /\ holder' = r
    /\ graphOf' = IF asked[r].kind = "import" THEN [graphOf EXCEPT ![r] = Graph(r)] ELSE graphOf
    /\ delivery' = [delivery EXCEPT ![d] = [at |-> "reserved", op |-> r, seen |-> 0]]
    /\ envRevision' = IF holder = r THEN envRevision ELSE envRevision + 1
    /\ AppsKept /\ UNCHANGED <<source, asked, completed, refuted>>

\* The second claim excludes other deliveries of the operation.
ClaimForEffect(d) ==
    /\ delivery[d].at = "reserved"
    /\ \A e \in Deliveries : delivery[e].op = delivery[d].op => delivery[e].at \notin {"claimed", "written"}
    /\ delivery' = [delivery EXCEPT ![d] =
           IF @.op \in completed THEN AtRest ELSE [@ EXCEPT !.at = "claimed"]]
    /\ AppsKept /\ ControlKept /\ UNCHANGED <<source, asked, refuted>>

\* Mutant of Refreshed: whatever is to be refreshed is created again.
RefreshedAlways(graph, refresh) == {a \in DOMAIN graph : ~app[a].live \/ a \in refresh}

\* import_graph: absent applications are created, and those to be refreshed that have
\* another revision; the others keep their secret.
Refreshed(graph, refresh) ==
    {a \in DOMAIN graph : ~app[a].live \/ (a \in refresh /\ app[a].pin # graph[a])}

\* create_one, for the applications of new.
Imported(graph, new, minter) ==
    [a \in Apps |->
        IF a \in new
        THEN [live |-> TRUE, pin |-> graph[a], conf |-> app[a].conf,
              version |-> IF app[a].live THEN app[a].version ELSE 1, secret |-> minter]
        ELSE app[a]]

ImportInTest(d) ==
    LET r == delivery[d].op
        new == Refreshed(graphOf[r], asked[r].refresh) IN
    /\ delivery[d].at = "claimed" /\ asked[r].kind = "import"
    /\ app' = Imported(graphOf[r], new, r)
    /\ secretsOf' = [secretsOf EXCEPT ![r] = [a \in Apps |-> @[a] + IF a \in new THEN 1 ELSE 0]]
    /\ delivery' = [delivery EXCEPT ![d].at = "written"]
    /\ ControlKept /\ UNCHANGED <<source, asked, outcomes, erasures, refuted>>

\* import_application, which the data plane serves without a reservation.
ImportDirect(a) ==
    LET graph == [b \in DependsOn[a] |-> source[b]]
        new == Refreshed(graph, {}) IN
    /\ \A b \in DependsOn[a] : source[b] > 0
    /\ new # {}
    /\ app' = Imported(graph, new, Direct)
    /\ ControlKept /\ UNCHANGED <<source, asked, outcomes, delivery, secretsOf, erasures, refuted>>

\* Mutant of Erasable: the erasure does not look for its own receipt.
ErasableAgain(r) == TRUE

Erasable(r) == r \notin outcomes

\* erase_testing_applications: the application goes with its outcomes, and a receipt
\* of the erasure stays.
EraseInTest(d) ==
    LET r == delivery[d].op a == asked[r].app IN
    /\ delivery[d].at = "claimed" /\ asked[r].kind = "retire"
    /\ IF Erasable(r)
       THEN /\ app' = [app EXCEPT ![a] = Absent]
            /\ outcomes' = {q \in outcomes : asked[q].kind = "retire" \/ asked[q].app # a} \cup {r}
            /\ secretsOf' = [q \in TestRequests |-> [secretsOf[q] EXCEPT ![a] = 0]]
            /\ erasures' = [erasures EXCEPT ![r] = @ + 1]
       ELSE AppsKept
    /\ delivery' = [delivery EXCEPT ![d].at = "written"]
    /\ ControlKept /\ UNCHANGED <<source, asked, refuted>>

\* The control plane links or retires the applications and completes the operation.
FinishOperation(d) ==
    LET r == delivery[d].op IN
    /\ delivery[d].at = "written" /\ holder = r
    /\ completed' = completed \cup {r}
    /\ envRevision' = IF asked[r].kind = "import" THEN envRevision + 1 ELSE envRevision
    /\ Refused(d)
    /\ AppsKept /\ UNCHANGED <<source, asked, graphOf, holder, refuted>>

\* Another write of the environment advances its revision: touch_testing_environment,
\* which takes no lock of these handlers, or a lifecycle instruction.
Advance ==
    /\ envRevision < MaxEnvRevision
    /\ envRevision' = envRevision + 1
    /\ AppsKept /\ UNCHANGED <<source, asked, completed, graphOf, holder, delivery, refuted>>

\* The process stops: open transactions roll back.
StopDelivery(d) ==
    /\ delivery[d] # AtRest
    /\ Refused(d)
    /\ AppsKept /\ ControlKept /\ UNCHANGED <<source, asked, refuted>>

TestAppNext ==
    \/ Advance
    \/ \E a \in Apps :
           \/ Publish(a) \/ ImportDirect(a)
           \/ \E r \in TestRequests, kind \in {"rotate", "configure", "import", "retire"} :
                  \E refresh \in SUBSET DependsOn[a] : Ask(r, kind, a, refresh)
    \/ \E d \in Deliveries :
           \/ \E r \in TestRequests : Claim(d, r) \/ Reserve(d, r)
           \/ LoseControl(d) \/ Recall(d) \/ Refute(d) \/ Conflict(d) \/ RotateInTest(d)
           \/ ConfigureInTest(d) \/ Complete(d) \/ ClaimForEffect(d) \/ ImportInTest(d)
           \/ EraseInTest(d) \/ FinishOperation(d) \/ StopDelivery(d)

TestAppSpec == TestAppInit /\ [][TestAppNext]_testAppVars

----------------------------------------------------------------------------
(* One request, one effect: however often it is delivered and wherever its   *)
(* handlers stop, a request gives an application at most one secret and      *)
(* erases applications at most once, so a retry never erases an application  *)
(* that was imported again in the meantime.                                  *)
EffectOnce ==
    /\ \A r \in TestRequests : erasures[r] <= 1
    /\ \A r \in TestRequests : \A a \in Apps : secretsOf[r][a] <= 1

(* "That rejection proves this request did not rotate": a request that was   *)
(* answered configuration_revision_conflict is not the origin of the         *)
(* application's secret, and does not become it by a delivery that comes     *)
(* late, unless the application was erased and registered anew meanwhile.    *)
RejectionProves ==
    \A r \in refuted :
        asked[r].after = Erasures(asked[r].app) => app[asked[r].app].secret # r

(* An interrupted import can be resumed: whatever production publishes       *)
(* meanwhile, the reserved operation's graph is the one its request names,   *)
(* so the environment is not reserved for ever by a request that every       *)
(* retry refuses.                                                            *)
ImportResumable ==
    holder \in TestRequests /\ holder \notin completed /\ asked[holder].kind = "import" =>
        SourcesAgree(holder)

(* What a request for a testing application does: its effect once, a refusal *)
(* that can be relied on, and no import that is stuck half-way.              *)
ImportSound == EffectOnce /\ RejectionProves /\ ImportResumable
=============================================================================
