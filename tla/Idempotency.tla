---------------------------- MODULE Idempotency ----------------------------
(***************************************************************************)
(* The record behind one Idempotency-Key, claimed by pods whose peppers    *)
(* are being rotated.                                                      *)
(*                                                                         *)
(* Sources: src/infrastructure/postgres/{idempotency,mod}.rs,              *)
(*          src/features/{applications,authentication}/idempotency.rs,     *)
(*          honeycomb/operations.rs (claim, complete), worker/maintenance  *)
(*          .rs, bin/iam_activate_key_version.rs, migrations/0009 and 0010.*)
(*                                                                         *)
(* A record is found by digests under a pepper version, so one key has one *)
(* row per version.  On a transactional route the claim, the mutation and  *)
(* the completion commit together; a reserving route commits the claim,    *)
(* calls its provider and completes or cancels later.  Honeycomb records   *)
(* are kept: plain digests, no expiry.  The lease an application's claim   *)
(* may take over is never committed by its callers and is left out.        *)
(***************************************************************************)
EXTENDS Naturals, Sequences

CONSTANTS
    Pods,           \* processes of the fleet
    Versions,       \* pepper versions
    Clients,        \* calls made with the key
    Payloads,       \* requests they carry
    ReplayWindow,   \* how long a one-time secret may be replayed (600 s)
    RecordLife      \* how long a record is kept (24 h)

ASSUME PepperAssumption == Versions \subseteq Nat \ {0} /\ 1 \in Versions
ASSUME ReplayAssumption == ReplayWindow \in Nat /\ RecordLife \in Nat \ {0} /\ ReplayWindow <= RecordLife

Kinds == {"transactional", "reserving", "kept"}

NoRecord == [status |-> "none", owner |-> "none", body |-> "none", age |-> 0]
NoOutcome == [asked |-> "none", given |-> {}]
NoCall == [pc |-> "idle", pod |-> "none", body |-> "none", version |-> 0, age |-> 0]

VARIABLES
    route,      \* [kind, secret]: how the route uses its record
    metadata,   \* iam.cryptographic_key_versions for token_hmac
    pod,        \* Pods -> [ring, current]: the keyring a running process has
    record,     \* Versions -> committed row of the key
    call,       \* Clients -> the call in progress
    outcome,    \* Clients -> [asked, given]: the request and whose response it got
    acts        \* the acts whose claim is younger than RecordLife, oldest first

idempotencyVars == <<route, metadata, pod, record, call, outcome, acts>>

IdempotencyInit ==
    /\ route \in [kind : Kinds, secret : BOOLEAN]
    /\ metadata = [v \in Versions |-> IF v = 1 THEN "active" ELSE "none"]
    /\ pod = [p \in Pods |-> [ring |-> {1}, current |-> 1]]
    /\ record = [v \in Versions |-> NoRecord]
    /\ call = [c \in Clients |-> NoCall]
    /\ outcome = [c \in Clients |-> NoOutcome]
    /\ acts = <<>>

----------------------------------------------------------------------------
(* The fleet and its keyrings *)

\* The calls of a process that stops: an open transaction is rolled back, a
\* committed reservation stays.
Stopped(p) == [c \in Clients |-> IF call[c].pod = p THEN NoCall ELSE call[c]]

\* Mutant of Reconciled: a process may start without a retained version.
ReconciledActive(ring, current) == metadata[current] = "active" /\ current \in ring

\* reconcile_runtime_keyring: configured current is the active version, and every
\* version the database knows is in the local keyring.
Reconciled(ring, current) ==
    /\ metadata[current] = "active" /\ current \in ring
    /\ {v \in Versions : metadata[v] # "none"} \subseteq ring

\* A process is deployed anew with a keyring; higher versions are preloaded.
Deploy(p, ring, current) ==
    /\ Reconciled(ring, current)
    /\ pod' = [pod EXCEPT ![p] = [ring |-> ring, current |-> current]]
    /\ metadata' = [v \in Versions |->
                      IF v \in ring /\ v > current /\ metadata[v] = "none"
                      THEN "decrypt_only" ELSE metadata[v]]
    /\ call' = Stopped(p)
    /\ outcome' = [c \in Clients |-> IF call[c].pod = p THEN NoOutcome ELSE outcome[c]]
    /\ UNCHANGED <<route, record, acts>>

\* README "Runtime-key rotation", step 1: the operator has seen the whole fleet
\* run with the new version before it is activated.
PreloadConfirmed(v) == \A p \in Pods : v \in pod[p].ring

\* activate_runtime_key_version
Activate(v) ==
    /\ metadata[v] = "decrypt_only"
    /\ \A w \in Versions : metadata[w] = "active" => v > w
    /\ PreloadConfirmed(v)
    /\ metadata' = [w \in Versions |->
                      IF w = v THEN "active"
                      ELSE IF metadata[w] = "active" THEN "decrypt_only" ELSE metadata[w]]
    /\ UNCHANGED <<route, pod, record, call, outcome, acts>>

----------------------------------------------------------------------------
(* Claiming *)

\* digest_candidates: the versions under which a process looks for the record.
DigestCandidates(p) == IF route.kind = "kept" THEN {1} ELSE pod[p].ring

\* The version a new record is written under.
WrittenUnder(p) == IF route.kind = "kept" THEN 1 ELSE pod[p].current

\* Mutant of LockIds: only the version that is written is locked.
LockCurrent(p) == {WrittenUnder(p)}

\* acquire_rotation_locks: one advisory lock per candidate.
LockIds(p) == DigestCandidates(p)

\* The transaction-scoped locks of an open mutation.
LocksFree(p) ==
    \A c \in Clients : call[c].pc = "mutating" => LockIds(call[c].pod) \cap LockIds(p) = {}

\* find_existing under every candidate, lowest version first.
Found(p) == {v \in DigestCandidates(p) : record[v].status # "none"}
FirstFound(p) == record[CHOOSE v \in Found(p) : \A w \in Found(p) : v <= w]

\* response_expires_at: ten minutes for one-time secrets, the record's life otherwise.
ResponseLive(r) == r.age < IF route.secret THEN ReplayWindow ELSE RecordLife

\* Mutant of Replayable: the request digest is not compared.
ReplayableAnyBody(r, b) == r.status = "completed" /\ ResponseLive(r)

\* classify_existing: same request, completed, response still there.  A kept
\* record answers for ever, without the secret once that has expired.
Replayable(r, b) ==
    /\ r.body = b
    /\ r.status = "completed"
    /\ route.kind = "kept" \/ ResponseLive(r)

\* claim finds a record: the call replays it or ends in a conflict.
Classify(c, p, b) ==
    /\ call[c].pc = "idle"
    /\ LocksFree(p)
    /\ Found(p) # {}
    /\ outcome' = [outcome EXCEPT ![c] =
                     [asked |-> b,
                      given |-> IF Replayable(FirstFound(p), b) THEN {FirstFound(p).body} ELSE {}]]
    /\ UNCHANGED <<route, metadata, pod, record, call, acts>>

\* claim inserts a record.  A reserving route commits it at once.
Acquire(c, p, b) ==
    /\ call[c].pc = "idle"
    /\ LocksFree(p)
    /\ Found(p) = {}
    /\ call' = [call EXCEPT ![c] =
                  [pc |-> IF route.kind = "reserving" THEN "calling" ELSE "mutating",
                   pod |-> p, body |-> b, version |-> WrittenUnder(p), age |-> 0]]
    /\ record' = IF route.kind = "reserving"
                 THEN [record EXCEPT ![WrittenUnder(p)] =
                         [status |-> "processing", owner |-> c, body |-> b, age |-> 0]]
                 ELSE record
    /\ outcome' = [outcome EXCEPT ![c] = [asked |-> b, given |-> {}]]
    /\ UNCHANGED <<route, metadata, pod, acts>>

----------------------------------------------------------------------------
(* Transactional routes *)

\* The act of a call, as old as its claim.
Done(c) == Append(acts, [body |-> call[c].body, age |-> call[c].age])

\* The caller gets the answer of the act.
Answered(c) == [outcome EXCEPT ![c] = [asked |-> call[c].body, given |-> {call[c].body}]]

\* complete and commit with the mutation.
CommitMutation(c) ==
    /\ call[c].pc = "mutating"
    /\ record' = [record EXCEPT ![call[c].version] =
                    [status |-> "completed", owner |-> c, body |-> call[c].body, age |-> call[c].age]]
    /\ acts' = Done(c)
    /\ outcome' = Answered(c)
    /\ call' = [call EXCEPT ![c] = NoCall]
    /\ UNCHANGED <<route, metadata, pod>>

\* An error or a lost connection rolls claim and mutation back.
Rollback(c) ==
    /\ call[c].pc = "mutating"
    /\ call' = [call EXCEPT ![c] = NoCall]
    /\ UNCHANGED <<route, metadata, pod, record, outcome, acts>>

----------------------------------------------------------------------------
(* Reserving routes *)

\* The provider takes the message; whether the process learns of it is open.
Provide(c) ==
    /\ call[c].pc = "calling"
    /\ acts' = Done(c)
    /\ \E pc \in {"sent", "unknown"} : call' = [call EXCEPT ![c].pc = pc]
    /\ UNCHANGED <<route, metadata, pod, record, outcome>>

\* The provider definitively rejects it, or no answer tells whether it did.
Refuse(c) ==
    /\ call[c].pc = "calling"
    /\ \E pc \in {"rejected", "unknown"} : call' = [call EXCEPT ![c].pc = pc]
    /\ UNCHANGED <<route, metadata, pod, record, outcome, acts>>

\* The row the lease names, still processing.
Leased(c) ==
    /\ record[call[c].version].status = "processing"
    /\ record[call[c].version].owner = c

\* The row with another status.
Marked(r, status) == [r EXCEPT !.status = status]

\* complete after the provider's answer; without the row the call fails.
CompleteReservation(c) ==
    /\ call[c].pc = "sent"
    /\ call' = [call EXCEPT ![c] = NoCall]
    /\ record' = IF Leased(c) THEN [record EXCEPT ![call[c].version] = Marked(@, "completed")] ELSE record
    /\ outcome' = IF Leased(c) THEN Answered(c) ELSE outcome
    /\ UNCHANGED <<route, metadata, pod, acts>>

\* Mutant of Cancellable: an unknown outcome is cancelled like a rejection.
CancellableUnknown(c) == call[c].pc \in {"rejected", "unknown"} /\ Leased(c)

\* cancel_for_retry is for definitive rejections only.
Cancellable(c) == call[c].pc = "rejected" /\ Leased(c)

\* cancel_for_retry, or the end of a call whose outcome is not known.
EndReservation(c) ==
    /\ call[c].pc \in {"rejected", "unknown"}
    /\ record' = IF Cancellable(c) THEN [record EXCEPT ![call[c].version] = NoRecord] ELSE record
    /\ call' = [call EXCEPT ![c] = NoCall]
    /\ UNCHANGED <<route, metadata, pod, outcome, acts>>

----------------------------------------------------------------------------
(* Time and the maintenance worker *)

\* Ages are told apart up to RecordLife.
Older(n) == IF n < RecordLife THEN n + 1 ELSE n
Aged(r) == [r EXCEPT !.age = Older(@)]
AgedActs == [i \in 1..Len(acts) |-> Aged(acts[i])]

\* One unit of time.  The request timeout ends every call long before its record
\* would expire.
IdempotencyTick ==
    /\ \A c \in Clients : call[c].pc # "idle" => call[c].age + 1 < RecordLife
    /\ record' = [v \in Versions |->
                    IF record[v].status = "none" THEN NoRecord ELSE Aged(record[v])]
    /\ call' = [c \in Clients |->
                  IF call[c].pc = "idle" THEN NoCall ELSE Aged(call[c])]
    /\ acts' = IF route.kind = "kept" THEN acts
               ELSE IF \A i \in 1..Len(acts) : AgedActs[i].age >= RecordLife THEN <<>>
               ELSE AgedActs
    /\ UNCHANGED <<route, metadata, pod, outcome>>

\* Mutant of Erasable: a row whose response has expired is deleted.
ErasableEarly(v) ==
    /\ route.kind # "kept"
    /\ record[v].status = "completed" /\ ~ResponseLive(record[v])

\* run_worker_ephemeral_maintenance deletes rows past expires_at.
Erasable(v) == route.kind # "kept" /\ record[v].status # "none" /\ record[v].age >= RecordLife

\* run_worker_ephemeral_maintenance: expired secret responses are erased, expired
\* rows deleted.
Maintain(v) ==
    /\ \/ /\ Erasable(v)
          /\ record' = [record EXCEPT ![v] = NoRecord]
       \/ /\ route.kind # "kept" /\ route.secret
          /\ record[v].status = "completed" /\ ~ResponseLive(record[v])
          /\ record' = [record EXCEPT ![v] = Marked(@, "expired")]
    /\ UNCHANGED <<route, metadata, pod, call, outcome, acts>>

IdempotencyNext ==
    \/ \E p \in Pods, ring \in SUBSET Versions, v \in Versions : Deploy(p, ring, v)
    \/ \E v \in Versions : Activate(v) \/ Maintain(v)
    \/ \E c \in Clients, p \in Pods, b \in Payloads : Classify(c, p, b) \/ Acquire(c, p, b)
    \/ \E c \in Clients :
        \/ CommitMutation(c)
        \/ Rollback(c)
        \/ Provide(c)
        \/ Refuse(c)
        \/ CompleteReservation(c)
        \/ EndReservation(c)
    \/ IdempotencyTick

IdempotencySpec == IdempotencyInit /\ [][IdempotencyNext]_idempotencyVars

----------------------------------------------------------------------------
(* Properties *)

\* The acts that are remembered, and the answers while the act lasts.
RememberedActs == {acts[i].body : i \in 1..Len(acts)}

Once == INSTANCE OnceOnly WITH acted <- RememberedActs, answer <- outcome

\* A key acts once: no two acts under it have claims younger than the life of its
\* record, whichever processes, keyrings and peppers the retries meet, whether a
\* process dies before or after its commit or its provider's answer, and however
\* the maintenance worker is timed.
ActsOnce == Len(acts) <= 1

\* The claim, the mutation and the replay implement the abstract once-only
\* request: an answer is always that of the act that is remembered.
ImplementsOnce == Once!OnceSpec

\* A retried mutation is carried out once, and answered as it was.
IdempotencySound == []ActsOnce /\ ImplementsOnce

============================================================================
