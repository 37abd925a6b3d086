--------------------------- MODULE ReplayCutover ---------------------------
(***************************************************************************)
(* The offline cutover from UUID principals to canonical identities, and   *)
(* what a retry finds on the other side of it.                             *)
(*                                                                         *)
(* Sources: src/infrastructure/canonical_replay.rs, canonical_replay/      *)
(*          cutover.rs, crypto.rs, postgres/idempotency.rs, features/      *)
(*          {authentication,applications}/idempotency.rs, api/mod.rs,      *)
(*          worker/mod.rs, bin/iam_canonical_cutover.rs, migration 0114.   *)
(*                                                                         *)
(* An Idempotency-Key is found by a digest over its caller.  Migration     *)
(* 0111 changes what callers are called, so every digest written before is *)
(* lost unless the private map that `prepare` saved translates the caller  *)
(* of a retry back.  Retriers are callers that each repeat a request under *)
(* one key, in the production or in the testing plane; the request names a *)
(* principal of that plane.  The fleet is stopped, migrated and started as *)
(* one.                                                                    *)
(***************************************************************************)
EXTENDS Naturals, FiniteSets

CONSTANTS
    Principals,     \* carbons, silicons, applications
    Retriers,        \* principals with a key to retry
    Names,          \* Retriers -> principal named in an identity field of the request
    Planes,         \* databases: production and testing
    PlaneOf,        \* Principals -> Planes
    KeptFor,        \* lifetime of an idempotency record (24 h)
    MaxTime         \* bound on the clock

ASSUME PlaneAssumption ==
    /\ Retriers \subseteq Principals
    /\ PlaneOf \in [Principals -> Planes] /\ Names \in [Retriers -> Principals]
    /\ \A c \in Retriers : PlaneOf[Names[c]] = PlaneOf[c]
ASSUME KeptAssumption == KeptFor \in Nat \ {0} /\ MaxTime \in Nat

Forms == {"legacy", "canonical"}

\* The three implementations of the claim: organizations and the rest share one.
Families == {"shared", "application", "authentication"}

\* What the stored response holds: none while the reservation has no outcome,
\* nothing for 204, otherwise identities in the form of the writer.
ReplayBodies == {"none", "empty"} \cup Forms

NoReplay == [kept |-> FALSE, request |-> "none", body |-> "none", expires |-> 0]
NoCutover == [prepared |-> FALSE, converted |-> FALSE, expires |-> 0]
NoBridge == [ids |-> {}, expires |-> 0]

VARIABLES
    claim,     \* the claim the route of the clients uses
    schema,     \* Planes -> Forms: whether migration 0111 has run
    cutover,    \* Planes -> row of canonical_replay_cutover
    mapped,     \* Planes -> principals in canonical_replay_metadata
    known,      \* principals that exist
    retained,       \* Retriers -> Forms -> record whose caller digest has that form
    fleet,      \* image the APIs and workers run, or "down"
    bridge,     \* Planes -> map a running process loaded at startup
    lastAct,    \* Retriers -> expiry of the newest act's record, 0 for none
    repeated,   \* clients whose request was carried out twice
    refused,    \* clients whose exact retry was refused as another request
    served,     \* [form, image] of the identities replayed to a client
    time

cutoverVars == <<claim, schema, cutover, mapped, known, retained, fleet, bridge, lastAct, repeated, refused, served, time>>

CutoverInit ==
    /\ claim \in Families
    /\ schema = [p \in Planes |-> "legacy"]
    /\ cutover = [p \in Planes |-> NoCutover]
    /\ mapped = [p \in Planes |-> {}]
    /\ known \in SUBSET Principals
    /\ retained = [c \in Retriers |-> [f \in Forms |-> NoReplay]]
    /\ fleet = "old"
    /\ bridge = [p \in Planes |-> NoBridge]
    /\ lastAct = [c \in Retriers |-> 0]
    /\ repeated = {}
    /\ refused = {}
    /\ served = {}
    /\ time = 0

----------------------------------------------------------------------------
(* Serving *)

\* Bridge.active, legacy_identity: the entry of this plane, while in force.
LegacyIdentity(i) ==
    LET held == bridge[PlaneOf[i]] IN i \in held.ids /\ held.expires > time

\* Bridge.caller: the identity slots of the caller scope take their old name.
OldCaller(c) == IF LegacyIdentity(c) THEN "legacy" ELSE "canonical"

\* legacy_json: so do the identity fields of the request.
OldRequest(c) == IF LegacyIdentity(Names[c]) THEN "legacy" ELSE "canonical"

\* Mutant of Inputs: the request is not translated.
InputsCaller(c) == IF OldCaller(c) = "canonical" THEN {} ELSE {<<OldCaller(c), "canonical">>}

\* Bridge.inputs: nothing when no name changes; otherwise the old caller with
\* the request as it is and with its old names.
Inputs(c) ==
    IF OldCaller(c) = "canonical" /\ OldRequest(c) = "canonical" THEN {}
    ELSE {<<OldCaller(c), "canonical">>, <<OldCaller(c), OldRequest(c)>>}

\* request_candidates of the application routes, while any entry is active.
RequestCandidates(c) ==
    IF \E i \in Principals : PlaneOf[i] = PlaneOf[c] /\ LegacyIdentity(i)
    THEN {<<OldCaller(c), OldRequest(c)>>} ELSE {}

\* replay_inputs of the authentication routes, over the parts of the digest
\* that digest_parts_with_legacy translated.
ReplayInputs(c) ==
    IF OldCaller(c) = "canonical" /\ OldRequest(c) = "canonical" THEN {}
    ELSE {<<OldCaller(c), OldRequest(c)>>}

\* digest_candidates: pairs of caller and request form.
Candidates(c) ==
    IF fleet = "old" THEN {<<"legacy", "legacy">>}
    ELSE {<<"canonical", "canonical">>} \cup
         CASE claim = "shared"         -> Inputs(c)
           [] claim = "application"    -> RequestCandidates(c)
           [] claim = "authentication" -> ReplayInputs(c)

\* find_existing: the caller form of the first record found, canonical first.
Existing(c) ==
    LET hits == {f \in Forms : retained[c][f].kept /\ \E q \in Forms : <<f, q>> \in Candidates(c)}
    IN  IF "canonical" \in hits THEN {"canonical"} ELSE hits

\* matching_request: some candidate of the same caller has the stored digest.
MatchingRequest(c, f) == <<f, retained[c][f].request>> \in Candidates(c)

\* Both principals exist, and a process serves.
Askable(c) == fleet # "down" /\ {c, Names[c]} \subseteq known

\* classify_existing: a found record answers, or conflicts as another request,
\* as in progress or as expired; it is never acted on again.
ClassifyRetry(c) ==
    /\ Askable(c)
    /\ \E f \in Existing(c) :
         /\ served' = IF /\ MatchingRequest(c, f)
                        /\ retained[c][f].body \in Forms /\ retained[c][f].expires > time
                     THEN served \cup {[form |-> retained[c][f].body, image |-> fleet]}
                     ELSE served
         /\ refused' = IF ~MatchingRequest(c, f) /\ retained[c][f].expires > time
                      THEN refused \cup {c} ELSE refused
    /\ UNCHANGED <<claim, schema, cutover, mapped, known, retained, fleet, bridge, lastAct, repeated, time>>

\* A new reservation is always written under the digest of the present form.
PresentForm == IF fleet = "old" THEN "legacy" ELSE "canonical"

\* claim, mutation and complete; a process stopped before completing leaves "none".
Act(c, body) ==
    /\ Askable(c)
    /\ Existing(c) = {}
    /\ time < MaxTime
    /\ retained' = [retained EXCEPT ![c][PresentForm] =
                  [kept |-> TRUE, request |-> PresentForm, body |-> body, expires |-> time + KeptFor]]
    /\ repeated' = IF lastAct[c] > time THEN repeated \cup {c} ELSE repeated
    /\ lastAct' = [lastAct EXCEPT ![c] = time + KeptFor]
    /\ UNCHANGED <<claim, schema, cutover, mapped, known, fleet, bridge, refused, served, time>>

\* A principal signs up; after the migration it never had another name.
Register(i) ==
    /\ fleet # "down"
    /\ i \notin known
    /\ known' = known \cup {i}
    /\ UNCHANGED <<claim, schema, cutover, mapped, retained, fleet, bridge, lastAct, repeated, refused, served, time>>

\* run_worker_ephemeral_maintenance: expired records, then the map of a
\* finished cutover.
ErasePassed(p) ==
    /\ fleet # "down"
    /\ retained' = [c \in Retriers |-> [f \in Forms |->
                  IF PlaneOf[c] = p /\ retained[c][f].expires <= time THEN NoReplay ELSE retained[c][f]]]
    /\ mapped' = IF cutover[p].converted /\ cutover[p].expires <= time
                 THEN [mapped EXCEPT ![p] = {}] ELSE mapped
    /\ UNCHANGED <<claim, schema, cutover, known, fleet, bridge, lastAct, repeated, refused, served, time>>

----------------------------------------------------------------------------
(* The operator *)

\* Release procedure, step 2: all writers stop; the old image does not return.
Stop ==
    /\ fleet # "down"
    /\ fleet' = "down"
    /\ bridge' = [p \in Planes |-> NoBridge]
    /\ UNCHANGED <<claim, schema, cutover, mapped, known, retained, lastAct, repeated, refused, served, time>>

\* The records a plane holds.
RecordsOf(p) == {retained[c][f] : c \in {d \in Retriers : PlaneOf[d] = p}, f \in Forms}

\* Mutant of Deadline: the map lives as long as the preparation.
DeadlineNow(p) == time

\* GREATEST(clock_timestamp(), max(expires_at)) over the records at preparation.
Deadline(p) ==
    LET ends == {r.expires : r \in {s \in RecordsOf(p) : s.kept}} \cup {time}
    IN  CHOOSE e \in ends : \A d \in ends : d <= e

\* cutover::prepare; repeated, it keeps the first map and deadline, and it
\* refuses a schema that has already changed.
Prepare(p) ==
    /\ fleet = "down"
    /\ ~cutover[p].prepared
    /\ schema[p] = "legacy"
    /\ cutover' = [cutover EXCEPT ![p] = [prepared |-> TRUE, converted |-> FALSE, expires |-> Deadline(p)]]
    /\ mapped' = [mapped EXCEPT ![p] = {i \in known : PlaneOf[i] = p}]
    /\ UNCHANGED <<claim, schema, known, retained, fleet, bridge, lastAct, repeated, refused, served, time>>

\* iam-migrate, step 4 of the release procedure: after every plane is prepared.
Migrate(p) ==
    /\ fleet = "down"
    /\ \A q \in Planes : cutover[q].prepared
    /\ schema[p] = "legacy"
    /\ schema' = [schema EXCEPT ![p] = "canonical"]
    /\ UNCHANGED <<claim, cutover, mapped, known, retained, fleet, bridge, lastAct, repeated, refused, served, time>>

\* canonical_payload: identity fields of a mapped principal are renamed; an
\* empty body stays as it is and a reservation without one is not touched.
CanonicalPayload(p, body) == IF body = "legacy" THEN "canonical" ELSE body

\* convert_table over every stored response of the plane; the digests stay.
ConvertTables(p) ==
    [c \in Retriers |->
       IF PlaneOf[c] = p
       THEN [f \in Forms |-> [retained[c][f] EXCEPT !.body = CanonicalPayload(p, @)]]
       ELSE retained[c]]

\* cutover::convert: all tables of the plane in one transaction, or nothing;
\* repeated, it changes nothing.
Convert(p) ==
    /\ cutover[p].prepared /\ ~cutover[p].converted
    /\ schema[p] = "canonical"
    /\ retained' = ConvertTables(p)
    /\ cutover' = [cutover EXCEPT ![p].converted = TRUE]
    /\ UNCHANGED <<claim, schema, mapped, known, fleet, bridge, lastAct, repeated, refused, served, time>>

\* Mutant of SchemaReady: a process starts on any migrated schema.
SchemaMigrated(p) == schema[p] = "canonical"

\* canonical_replay_contexts raises while a prepared cutover is unconverted.
SchemaReady(p) == schema[p] = "canonical" /\ (cutover[p].prepared => cutover[p].converted)

\* Bridge.load: the map of a plane whose deadline has not passed.
LoadBridge(p) ==
    IF cutover[p].expires > time
    THEN [ids |-> mapped[p], expires |-> cutover[p].expires] ELSE NoBridge

\* serve_surface and the worker: both planes are loaded before anything is served.
StartFleet ==
    /\ fleet = "down"
    /\ \A p \in Planes : SchemaReady(p)
    /\ fleet' = "new"
    /\ bridge' = [p \in Planes |-> LoadBridge(p)]
    /\ UNCHANGED <<claim, schema, cutover, mapped, known, retained, lastAct, repeated, refused, served, time>>

HourPasses ==
    /\ time < MaxTime
    /\ time' = time + 1
    /\ UNCHANGED <<claim, schema, cutover, mapped, known, retained, fleet, bridge, lastAct, repeated, refused, served>>

CutoverNext ==
    \/ \E c \in Retriers : ClassifyRetry(c)
    \/ \E i \in Principals : Register(i)
    \/ \E c \in Retriers, body \in {"none", "empty", PresentForm} : Act(c, body)
    \/ \E p \in Planes : ErasePassed(p) \/ Prepare(p) \/ Migrate(p) \/ Convert(p)
    \/ Stop \/ StartFleet \/ HourPasses

CutoverSpec == CutoverInit /\ [][CutoverNext]_cutoverVars

----------------------------------------------------------------------------
(* Properties *)

\* While a record is in force, the exact retry of its request is found again on
\* the other side of the cutover: it is neither carried out a second time nor
\* refused as another request (deadline of prepare, legacy candidates of
\* digest_candidates), and what the new image replays names no principal by its
\* old identity (startup gate against an interrupted convert).
CutoverSound ==
    /\ repeated = {} /\ refused = {}
    /\ [form |-> "legacy", image |-> "new"] \notin served

=============================================================================
