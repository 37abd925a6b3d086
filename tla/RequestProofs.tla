--------------------------- MODULE RequestProofs ---------------------------
(***************************************************************************)
(* What an Idempotency-Key and the envelope of a mutation promise, and what*)
(* a read answers, for every number of processes, pepper versions, calls,  *)
(* resources, sessions, applications, requests, rows of a list, families of*)
(* replay records, scopes and trust levels.                                *)
(*                                                                         *)
(* Idempotency: that a key acts once is not inductive, for it says nothing *)
(* of where a second claim looks.  The invariant says that every version a *)
(* row may lie under is in every keyring (RingInv), so that a claim meets  *)
(* the row or the lock whatever its process was deployed with; that at     *)
(* most one call is open and what its row then says (CallInv); and that an *)
(* act has a row until it is forgotten, and a completed row its act        *)
(* (RowInv).  The once-only request of OnceOnly follows step by step.      *)
(*                                                                         *)
(* GuardedMutation: a stored answer is confined because only admitted      *)
(* requests are stored and one name stands for one actor and resource      *)
(* (AdmittedInv); the history of a resource is complete because the row    *)
(* stays locked from the comparison of the version to the commit           *)
(* (LockInv) and every write extends it by one entry (History).            *)
(*                                                                         *)
(* BundleLogin: what an open handoff has issued rests on rows it locked,   *)
(* and all its applications are below those it still wants (BundleInv).    *)
(*                                                                         *)
(* Listing: a row that stayed has been given exactly when the cursor has   *)
(* passed it (Given), and a page keeps all that comes before a row it      *)
(* keeps, and everything when there is no more (PageKept); the order of a  *)
(* statement is strict and total, so that a page has a last row.           *)
(*                                                                         *)
(* ReplayCutover: the old image serves no prepared plane and the new one   *)
(* only converted planes (StagesFit); the map of a prepared plane translates*)
(* every record it may still meet (MapCovers), and a process of the new    *)
(* image works with it until its deadline (BridgeLoaded).                  *)
(*                                                                         *)
(* LogoutRequest: only shapes are needed (LogoutTyped); its properties are *)
(* of steps.                                                               *)
(*                                                                         *)
(* DirectoryReads: what the statements so far have put in the answer is    *)
(* within the terms the read was admitted on (ReadTerms), no older than its*)
(* first statement (ReadCurrent), and its trust is one that some           *)
(* configuration it lived through gives (ReadCredible).                    *)
(***************************************************************************)
EXTENDS BundleLogin, Idempotency, GuardedMutation, Listing, ReplayCutover, LogoutRequest,
        DirectoryReads, FiniteSetTheorems, SequenceTheorems, WellFoundedInduction, TLAPS

Record ==
    [status : {"none", "processing", "completed", "expired"},
     owner : Clients \cup {"none"}, body : Payloads \cup {"none"}, age : 0..RecordLife]

Call ==
    [pc : {"idle", "mutating", "calling", "sent", "unknown", "rejected"},
     pod : Pods \cup {"none"}, body : Payloads \cup {"none"},
     version : Versions \cup {0}, age : 0..RecordLife]

OneAct(b, n) == <<[body |-> b, age |-> n]>>

IdempotencyType ==
    /\ route \in [kind : Kinds, secret : BOOLEAN]
    /\ metadata \in [Versions -> {"none", "active", "decrypt_only"}]
    /\ pod \in [Pods -> [ring : SUBSET Versions, current : Versions]]
    /\ record \in [Versions -> Record]
    /\ call \in [Clients -> Call]
    /\ \A c \in Clients :
        IF call[c].pc = "idle" THEN call[c] = NoCall
        ELSE call[c].pod \in Pods /\ call[c].body \in Payloads /\ call[c].version \in Versions
    /\ outcome \in [Clients -> [asked : Payloads \cup {"none"}, given : SUBSET Payloads]]
    /\ acts = <<>> \/ \E b \in Payloads, n \in 0..RecordLife : acts = OneAct(b, n)

\* The versions under which a row lies or may yet be written.
InUse(v) ==
    \/ v = 1
    \/ metadata[v] = "active"
    \/ record[v].status # "none"
    \/ \E p \in Pods : pod[p].current = v
    \/ \E c \in Clients : call[c].pc # "idle" /\ call[c].version = v

\* A version in use is known to the database and to every running process.
RingInv ==
    \A v \in Versions :
        InUse(v) => metadata[v] # "none" /\ \A p \in Pods : v \in pod[p].ring

Exists(v) == record[v].status # "none"

\* The reservation of an open call stands as the call made it.
Holds(c) ==
    record[call[c].version] =
        [status |-> "processing", owner |-> c, body |-> call[c].body, age |-> call[c].age]

Mutating(c) ==
    /\ route.kind # "reserving"
    /\ route.kind = "kept" => call[c].version = 1
    /\ acts = <<>>
    /\ \A v \in Versions : ~Exists(v)

Reserving(c) ==
    /\ route.kind = "reserving"
    /\ Holds(c)
    /\ call[c].pc \in {"calling", "rejected"} => acts = <<>>
    /\ call[c].pc = "sent" => acts = OneAct(call[c].body, call[c].age)
    /\ call[c].pc = "unknown" => acts \in {<<>>, OneAct(call[c].body, call[c].age)}

CallInv ==
    /\ \A c, d \in Clients : call[c].pc # "idle" /\ call[d].pc # "idle" => c = d
    /\ \A c \in Clients : call[c].pc # "idle" =>
        /\ outcome[c].asked = call[c].body
        /\ call[c].age < RecordLife
        /\ IF call[c].pc = "mutating" THEN Mutating(c) ELSE Reserving(c)

Lasts(v) == route.kind = "kept" \/ record[v].age < RecordLife

RowInv ==
    /\ \A v, w \in Versions : Exists(v) /\ Exists(w) => v = w
    /\ route.kind = "kept" => \A v \in Versions : Exists(v) => v = 1
    /\ acts # <<>> =>
        \E v \in Versions :
            /\ Exists(v)
            /\ record[v].body = acts[1].body
            /\ route.kind # "kept" => record[v].age = acts[1].age /\ acts[1].age < RecordLife
    /\ \A v \in Versions :
        record[v].status = "completed" /\ Lasts(v) => acts # <<>> /\ acts[1].body = record[v].body

IdempotencyInv == IdempotencyType /\ RingInv /\ CallInv /\ RowInv

----------------------------------------------------------------------------
(* The invariant is inductive *)

\* Two processes always share a version they look under, or lock.
LEMMA KeyringsMeet ==
    ASSUME IdempotencyType, RingInv, PepperAssumption, NEW p \in Pods, NEW q \in Pods
    PROVE  LockIds(p) \cap LockIds(q) # {}
<1>1. CASE route.kind = "kept"
    BY <1>1 DEF LockIds, DigestCandidates
<1>2. CASE route.kind # "kept"
    <2>1. 1 \in pod[p].ring /\ 1 \in pod[q].ring
        BY PepperAssumption DEF RingInv, InUse
    <2>2. QED
        BY <1>2, <2>1 DEF LockIds, DigestCandidates
<1>3. QED
    BY <1>1, <1>2

\* A claim meets the row of its key wherever that lies.
LEMMA RowIsFound ==
    ASSUME IdempotencyInv, NEW p \in Pods, NEW v \in Versions, Exists(v)
    PROVE  Found(p) = {v} /\ FirstFound(p) = record[v]
<1>1. v \in DigestCandidates(p)
    BY DEF IdempotencyInv, RingInv, RowInv, InUse, Exists, DigestCandidates
<1>2. DigestCandidates(p) \subseteq Versions
    BY PepperAssumption DEF IdempotencyInv, IdempotencyType, DigestCandidates
<1>3. Found(p) = {v}
    BY <1>1, <1>2 DEF IdempotencyInv, RowInv, Exists, Found
<1>4. v <= v
    BY PepperAssumption
<1>5. FirstFound(p) = record[v]
    BY <1>3, <1>4 DEF FirstFound
<1>6. QED
    BY <1>3, <1>5

LEMMA InvInit == IdempotencyInit => IdempotencyInv
<1> SUFFICES ASSUME IdempotencyInit PROVE IdempotencyInv
    OBVIOUS
<1> USE PepperAssumption, ReplayAssumption DEF IdempotencyInit
<1>1. IdempotencyType
    BY DEF IdempotencyType, NoRecord, NoCall, NoOutcome, Record, Call
<1>2. RingInv
    BY DEF RingInv, InUse, NoRecord, NoCall
<1>3. CallInv
    BY DEF CallInv, NoCall
<1>4. RowInv
    BY DEF RowInv, Exists, NoRecord
<1>5. QED
    BY <1>1, <1>2, <1>3, <1>4 DEF IdempotencyInv

LEMMA DeployKeeps ==
    ASSUME IdempotencyInv, NEW p \in Pods, NEW ring \in SUBSET Versions,
           NEW v \in Versions, Deploy(p, ring, v)
    PROVE  IdempotencyInv'
<1> USE PepperAssumption, ReplayAssumption
<1>1. /\ route' = route /\ record' = record /\ acts' = acts
      /\ \A c \in Clients : call'[c] \in {call[c], NoCall}
      /\ \A c \in Clients : call'[c].pc # "idle" => call'[c] = call[c] /\ outcome'[c] = outcome[c]
    BY DEF Deploy, Stopped, NoCall
<1>2. IdempotencyType'
    BY DEF IdempotencyInv, IdempotencyType, Deploy, Stopped, NoCall, NoOutcome, Call
<1>3. RingInv'
    <2> SUFFICES ASSUME NEW w \in Versions, InUse(w)'
                 PROVE  metadata'[w] # "none" /\ \A q \in Pods : w \in pod'[q].ring
        BY DEF RingInv
    <2>1. metadata[v] = "active" /\ InUse(v)
        BY DEF Deploy, Reconciled, InUse
    <2>2. metadata'[w] = "active" => metadata[w] = "active"
        BY DEF Deploy
    <2>3. \A q \in Pods : pod'[q].current = w => pod[q].current = w \/ w = v
        BY DEF Deploy, IdempotencyInv, IdempotencyType
    <2>4. InUse(w)
        BY <1>1, <2>1, <2>2, <2>3 DEF InUse
    <2>5. metadata[w] # "none" /\ \A q \in Pods : w \in pod[q].ring
        BY <2>4 DEF IdempotencyInv, RingInv
    <2>6. w \in ring
        BY <2>5 DEF Deploy, Reconciled
    <2>7. QED
        BY <2>5, <2>6 DEF Deploy, IdempotencyInv, IdempotencyType
<1>4. CallInv'
    BY <1>1 DEF IdempotencyInv, CallInv, Mutating, Reserving, Holds, Exists
<1>5. RowInv'
    BY <1>1 DEF IdempotencyInv, RowInv, Exists, Lasts
<1>6. QED
    BY <1>2, <1>3, <1>4, <1>5 DEF IdempotencyInv

LEMMA ActivateKeeps ==
    ASSUME IdempotencyInv, NEW v \in Versions, Activate(v)
    PROVE  IdempotencyInv'
<1>1. IdempotencyType'
    BY DEF IdempotencyInv, IdempotencyType, Activate
<1>2. RingInv'
    <2> SUFFICES ASSUME NEW w \in Versions, InUse(w)'
                 PROVE  metadata'[w] # "none" /\ \A q \in Pods : w \in pod[q].ring
        BY DEF RingInv, Activate
    <2>1. CASE w = v
        BY <2>1 DEF Activate, PreloadConfirmed, IdempotencyInv, IdempotencyType
    <2>2. CASE w # v
        <3>1. InUse(w)
            BY <2>2 DEF InUse, Activate, IdempotencyInv, IdempotencyType
        <3>2. QED
            BY <2>2, <3>1 DEF Activate, IdempotencyInv, IdempotencyType, RingInv
    <2>3. QED
        BY <2>1, <2>2
<1>3. CallInv' /\ RowInv'
    BY DEF IdempotencyInv, Activate, CallInv, RowInv, Mutating, Reserving, Holds, Exists, Lasts
<1>4. QED
    BY <1>1, <1>2, <1>3 DEF IdempotencyInv

LEMMA ClassifyKeeps ==
    ASSUME IdempotencyInv, NEW c \in Clients, NEW p \in Pods, NEW b \in Payloads,
           Classify(c, p, b)
    PROVE  IdempotencyInv'
<1>1. PICK v \in Versions : Exists(v)
    BY PepperAssumption DEF Classify, Found, Exists, DigestCandidates, IdempotencyInv, IdempotencyType
<1>2. FirstFound(p) = record[v]
    BY <1>1, RowIsFound
<1>3. Replayable(record[v], b) => record[v].body \in Payloads
    BY DEF Replayable
<1>4. outcome' \in [Clients -> [asked : Payloads \cup {"none"}, given : SUBSET Payloads]]
    BY <1>2, <1>3 DEF Classify, IdempotencyInv, IdempotencyType
<1>5. IdempotencyType'
    BY <1>4 DEF Classify, IdempotencyInv, IdempotencyType
<1>6. RingInv'
    BY DEF Classify, IdempotencyInv, RingInv, InUse
<1>7. CallInv'
    <2>1. \A d \in Clients : call[d].pc # "idle" => outcome'[d] = outcome[d]
        BY DEF Classify, IdempotencyInv, IdempotencyType
    <2>2. QED
        BY <2>1 DEF Classify, IdempotencyInv, CallInv, Mutating, Reserving, Holds, Exists
<1>8. RowInv'
    BY DEF Classify, IdempotencyInv, RowInv, Exists, Lasts
<1>9. QED
    BY <1>5, <1>6, <1>7, <1>8 DEF IdempotencyInv

LEMMA AcquireKeeps ==
    ASSUME IdempotencyInv, NEW c \in Clients, NEW p \in Pods, NEW b \in Payloads,
           Acquire(c, p, b)
    PROVE  IdempotencyInv'
<1> DEFINE w == WrittenUnder(p)
           taken == [pc |-> IF route.kind = "reserving" THEN "calling" ELSE "mutating",
                     pod |-> p, body |-> b, version |-> w, age |-> 0]
           row == [status |-> "processing", owner |-> c, body |-> b, age |-> 0]
<1> USE PepperAssumption, ReplayAssumption
<1>1. \A v \in Versions : ~Exists(v)
    BY RowIsFound DEF Acquire
<1>2. acts = <<>>
    BY <1>1 DEF IdempotencyInv, RowInv
<1>3. w \in Versions /\ InUse(w) /\ (route.kind = "kept" => w = 1)
    BY DEF WrittenUnder, IdempotencyInv, IdempotencyType, InUse
<1>4. \A d \in Clients : call[d].pc = "idle"
    <2> SUFFICES ASSUME NEW d \in Clients, call[d].pc # "idle" PROVE FALSE
        OBVIOUS
    <2>1. call[d].pc = "mutating"
        <3>1. call[d].version \in Versions
            BY DEF IdempotencyInv, IdempotencyType
        <3>2. Holds(d) => record[call[d].version].status = "processing"
            BY DEF Holds
        <3>3. ~Holds(d)
            BY <1>1, <3>1, <3>2 DEF Exists
        <3>4. QED
            BY <3>3 DEF IdempotencyInv, CallInv, Reserving
    <2>2. call[d].pod \in Pods
        BY DEF IdempotencyInv, IdempotencyType
    <2>3. QED
        BY <2>1, <2>2, KeyringsMeet DEF Acquire, LocksFree, IdempotencyInv
<1>5. /\ call' = [call EXCEPT ![c] = taken]
      /\ outcome' = [outcome EXCEPT ![c] = [asked |-> b, given |-> {}]]
      /\ route' = route /\ metadata' = metadata /\ pod' = pod /\ acts' = acts
      /\ record' = IF route.kind = "reserving" THEN [record EXCEPT ![w] = row] ELSE record
    BY DEF Acquire
<1>6. taken \in Call /\ row \in Record /\ taken.pc # "idle"
    BY <1>3 DEF Call, Record
<1> HIDE DEF w
<1>7. IdempotencyType'
    <2>1. record' \in [Versions -> Record] /\ call' \in [Clients -> Call]
        BY <1>3, <1>5, <1>6 DEF IdempotencyInv, IdempotencyType
    <2>2. outcome' \in [Clients -> [asked : Payloads \cup {"none"}, given : SUBSET Payloads]]
        BY <1>5 DEF IdempotencyInv, IdempotencyType
    <2>3. \A d \in Clients :
            IF call'[d].pc = "idle" THEN call'[d] = NoCall
            ELSE call'[d].pod \in Pods /\ call'[d].body \in Payloads /\ call'[d].version \in Versions
        BY <1>3, <1>5 DEF IdempotencyInv, IdempotencyType
    <2>4. QED
        BY <1>5, <2>1, <2>2, <2>3 DEF IdempotencyInv, IdempotencyType
<1>8. RingInv'
    <2> SUFFICES ASSUME NEW v \in Versions, InUse(v)'
                 PROVE  metadata[v] # "none" /\ \A q \in Pods : v \in pod[q].ring
        BY <1>5 DEF RingInv
    <2>1. InUse(v)
        BY <1>3, <1>4, <1>5 DEF InUse, IdempotencyInv, IdempotencyType
    <2>2. QED
        BY <2>1 DEF IdempotencyInv, RingInv
<1>9. CallInv'
    <2>1. \A d \in Clients : call'[d].pc # "idle" => d = c
        BY <1>4, <1>5 DEF IdempotencyInv, IdempotencyType
    <2>2. call'[c] = taken /\ outcome'[c].asked = b
        BY <1>5 DEF IdempotencyInv, IdempotencyType
    <2>3. CASE route.kind = "reserving"
        <3>1. record'[w] = row
            BY <1>3, <1>5, <2>3 DEF IdempotencyInv, IdempotencyType
        <3>2. Reserving(c)'
            BY <1>2, <1>5, <2>2, <2>3, <3>1 DEF Reserving, Holds
        <3>3. QED
            BY <2>1, <2>2, <2>3, <3>2 DEF CallInv
    <2>4. CASE route.kind # "reserving"
        <3>1. Mutating(c)'
            BY <1>1, <1>2, <1>3, <1>5, <2>2, <2>4 DEF Mutating, Exists
        <3>2. QED
            BY <2>1, <2>2, <2>4, <3>1 DEF CallInv
    <2>5. QED
        BY <2>3, <2>4
<1>10. RowInv'
    <2>1. \A v \in Versions : Exists(v)' => v = w /\ route.kind = "reserving" /\ record'[v].status = "processing"
        BY <1>1, <1>3, <1>5 DEF Exists, IdempotencyInv, IdempotencyType
    <2>2. QED
        BY <1>2, <1>5, <2>1 DEF RowInv, Exists, Lasts
<1>11. QED
    BY <1>7, <1>8, <1>9, <1>10 DEF IdempotencyInv

LEMMA CommitKeeps ==
    ASSUME IdempotencyInv, NEW c \in Clients, CommitMutation(c)
    PROVE  IdempotencyInv'
<1> DEFINE w == call[c].version
           row == [status |-> "completed", owner |-> c, body |-> call[c].body, age |-> call[c].age]
<1> USE PepperAssumption, ReplayAssumption
<1>1. /\ call[c].pc = "mutating"
      /\ record' = [record EXCEPT ![w] = row]
      /\ acts' = Done(c)
      /\ outcome' = Answered(c)
      /\ call' = [call EXCEPT ![c] = NoCall]
      /\ route' = route /\ metadata' = metadata /\ pod' = pod
    BY DEF CommitMutation
<1>2. /\ w \in Versions /\ call[c].body \in Payloads /\ call[c].age \in 0..RecordLife
      /\ call[c].age < RecordLife
      /\ route.kind # "reserving" /\ (route.kind = "kept" => w = 1)
      /\ acts = <<>>
      /\ \A v \in Versions : ~Exists(v)
      /\ \A d \in Clients : d # c => call[d].pc = "idle"
    BY <1>1 DEF IdempotencyInv, IdempotencyType, CallInv, Mutating, Call
<1>3. acts' = OneAct(call[c].body, call[c].age) /\ acts' # <<>>
    BY <1>1, <1>2 DEF Done, OneAct
<1>4. /\ \A d \in Clients : call'[d].pc = "idle" /\ call'[d] = NoCall
      /\ record'[w] = row
      /\ \A v \in Versions : v # w => record'[v] = record[v] /\ ~Exists(v)
    BY <1>1, <1>2 DEF IdempotencyInv, IdempotencyType, NoCall
<1>5. InUse(w)
    BY <1>1, <1>2 DEF InUse
<1> HIDE DEF w
<1>6. IdempotencyType'
    <2>1. record' \in [Versions -> Record] /\ call' \in [Clients -> Call]
        BY <1>1, <1>2 DEF IdempotencyInv, IdempotencyType, Record, Call, NoCall
    <2>2. outcome' \in [Clients -> [asked : Payloads \cup {"none"}, given : SUBSET Payloads]]
        BY <1>1, <1>2 DEF IdempotencyInv, IdempotencyType, Answered
    <2>3. QED
        BY <1>1, <1>2, <1>3, <1>4, <2>1, <2>2 DEF IdempotencyInv, IdempotencyType
<1>7. RingInv'
    <2> SUFFICES ASSUME NEW v \in Versions, InUse(v)'
                 PROVE  metadata[v] # "none" /\ \A q \in Pods : v \in pod[q].ring
        BY <1>1 DEF RingInv
    <2>1. InUse(v)
        BY <1>1, <1>4, <1>5 DEF InUse
    <2>2. QED
        BY <2>1 DEF IdempotencyInv, RingInv
<1>8. CallInv'
    BY <1>4 DEF CallInv
<1>9. RowInv'
    <2>1. acts'[1].body = call[c].body /\ acts'[1].age = call[c].age
        BY <1>3 DEF OneAct
    <2>2. \A v \in Versions : Exists(v)' => v = w
        BY <1>4 DEF Exists
    <2>3. /\ record'[w].status = "completed"
          /\ record'[w].body = call[c].body /\ record'[w].age = call[c].age
        BY <1>4
    <2>4. PICK v \in Versions : v = w
        BY <1>2
    <2>5. Exists(v)'
        BY <2>3, <2>4 DEF Exists
    <2>6. \A u \in Versions : record'[u].status = "completed" => u = v
        BY <2>2, <2>4 DEF Exists
    <2>7. QED
        BY <1>1, <1>2, <1>3, <2>1, <2>2, <2>3, <2>4, <2>5, <2>6 DEF RowInv
<1>10. QED
    BY <1>6, <1>7, <1>8, <1>9 DEF IdempotencyInv

LEMMA RollbackKeeps ==
    ASSUME IdempotencyInv, NEW c \in Clients, Rollback(c)
    PROVE  IdempotencyInv'
<1> USE PepperAssumption, ReplayAssumption
<1>1. IdempotencyType'
    BY DEF Rollback, IdempotencyInv, IdempotencyType, NoCall, Call
<1>2. RingInv'
    BY DEF Rollback, IdempotencyInv, IdempotencyType, RingInv, InUse, NoCall
<1>3. CallInv'
    <2>1. \A d \in Clients : call'[d].pc # "idle" => call'[d] = call[d]
        BY DEF Rollback, IdempotencyInv, IdempotencyType, NoCall
    <2>2. QED
        BY <2>1 DEF Rollback, IdempotencyInv, CallInv, Mutating, Reserving, Holds, Exists
<1>4. RowInv'
    BY DEF Rollback, IdempotencyInv, RowInv, Exists, Lasts
<1>5. QED
    BY <1>1, <1>2, <1>3, <1>4 DEF IdempotencyInv

\* The provider has answered: only the open call moves, and its act is remembered.
LEMMA AnsweredKeeps ==
    ASSUME IdempotencyInv, NEW c \in Clients, call[c].pc = "calling",
           NEW pc \in {"sent", "unknown", "rejected"},
           call' = [call EXCEPT ![c].pc = pc],
           UNCHANGED <<route, metadata, pod, record, outcome>>,
           \/ pc \in {"sent", "unknown"} /\ acts' = Done(c)
           \/ pc \in {"rejected", "unknown"} /\ acts' = acts
    PROVE  IdempotencyInv'
<1> USE PepperAssumption, ReplayAssumption
<1>1. /\ call[c].version \in Versions /\ call[c].body \in Payloads /\ call[c].age \in 0..RecordLife
      /\ call[c].age < RecordLife
      /\ Reserving(c) /\ acts = <<>>
      /\ outcome[c].asked = call[c].body
      /\ \A d \in Clients : d # c => call[d].pc = "idle"
    BY DEF IdempotencyInv, IdempotencyType, CallInv, Reserving, Call
<1>2. Done(c) = OneAct(call[c].body, call[c].age)
    BY <1>1 DEF Done, OneAct
<1>3. /\ call'[c] = [call[c] EXCEPT !.pc = pc]
      /\ \A d \in Clients : d # c => call'[d] = call[d]
      /\ call[c] \in Call /\ call'[c].pc = pc /\ call'[c].version = call[c].version
      /\ call'[c].body = call[c].body /\ call'[c].age = call[c].age /\ call'[c].pod = call[c].pod
    BY DEF IdempotencyInv, IdempotencyType, Call
<1>4. IdempotencyType'
    <2>1. call' \in [Clients -> Call]
        BY <1>3 DEF IdempotencyInv, IdempotencyType, Call
    <2>2. acts' = <<>> \/ acts' = OneAct(call[c].body, call[c].age)
        BY <1>1, <1>2
    <2>3. \A d \in Clients :
            IF call'[d].pc = "idle" THEN call'[d] = NoCall
            ELSE call'[d].pod \in Pods /\ call'[d].body \in Payloads /\ call'[d].version \in Versions
        BY <1>3 DEF IdempotencyInv, IdempotencyType
    <2>4. QED
        BY <1>1, <2>1, <2>2, <2>3 DEF IdempotencyInv, IdempotencyType
<1>5. RingInv'
    <2> SUFFICES ASSUME NEW v \in Versions, InUse(v)'
                 PROVE  metadata[v] # "none" /\ \A q \in Pods : v \in pod[q].ring
        BY DEF RingInv
    <2>1. InUse(v)
        BY <1>3 DEF InUse
    <2>2. QED
        BY <2>1 DEF IdempotencyInv, RingInv
<1>6. CallInv'
    <2>1. \A d \in Clients : call'[d].pc # "idle" => d = c
        BY <1>1, <1>3
    <2>2. Reserving(c)'
        BY <1>1, <1>2, <1>3 DEF Reserving, Holds
    <2>3. QED
        BY <1>1, <1>3, <2>1, <2>2 DEF CallInv
<1>7. RowInv'
    <2>1. CASE acts' = acts
        BY <2>1 DEF IdempotencyInv, RowInv, Exists, Lasts
    <2>2. CASE acts' = OneAct(call[c].body, call[c].age)
        <3>1. acts' # <<>> /\ acts'[1].body = call[c].body /\ acts'[1].age = call[c].age
            BY <2>2 DEF OneAct
        <3>2. /\ record[call[c].version].status = "processing"
              /\ record[call[c].version].body = call[c].body
              /\ record[call[c].version].age = call[c].age
            BY <1>1 DEF Reserving, Holds
        <3>3. \A v \in Versions : record[v].status # "completed"
            BY <1>1, <3>2 DEF IdempotencyInv, RowInv, Exists
        <3>4. QED
            BY <1>1, <3>1, <3>2, <3>3 DEF IdempotencyInv, RowInv, Exists, Lasts
    <2>3. QED
        BY <1>2, <2>1, <2>2
<1>8. QED
    BY <1>4, <1>5, <1>6, <1>7 DEF IdempotencyInv

LEMMA ProvideKeeps ==
    ASSUME IdempotencyInv, NEW c \in Clients, Provide(c) \/ Refuse(c)
    PROVE  IdempotencyInv'
<1>1. CASE Provide(c)
    BY <1>1, AnsweredKeeps DEF Provide
<1>2. CASE Refuse(c)
    BY <1>2, AnsweredKeeps DEF Refuse
<1>3. QED
    BY <1>1, <1>2

LEMMA MarkedRow ==
    ASSUME NEW r \in Record, NEW mark \in {"completed", "expired"}
    PROVE  /\ Marked(r, mark) \in Record
           /\ Marked(r, mark).status = mark
           /\ Marked(r, mark).body = r.body /\ Marked(r, mark).age = r.age
BY DEF Marked, Record

LEMMA CompleteKeeps ==
    ASSUME IdempotencyInv, NEW c \in Clients, CompleteReservation(c)
    PROVE  IdempotencyInv'
<1> USE PepperAssumption, ReplayAssumption
<1>1. /\ call[c].version \in Versions /\ call[c].body \in Payloads
      /\ Reserving(c) /\ acts = OneAct(call[c].body, call[c].age)
      /\ call[c].age < RecordLife
      /\ \A d \in Clients : d # c => call[d].pc = "idle"
    BY DEF CompleteReservation, IdempotencyInv, IdempotencyType, CallInv, Reserving
<1>2. PICK w \in Versions : w = call[c].version
    BY <1>1
<1>3. /\ record[w].status = "processing" /\ record[w].owner = c
      /\ record[w].body = call[c].body /\ record[w].age = call[c].age
    BY <1>1, <1>2 DEF Reserving, Holds
<1>4. /\ call' = [call EXCEPT ![c] = NoCall]
      /\ record' = [record EXCEPT ![w] = Marked(@, "completed")]
      /\ outcome' = Answered(c)
      /\ route' = route /\ metadata' = metadata /\ pod' = pod /\ acts' = acts
    BY <1>2, <1>3 DEF CompleteReservation, Leased
<1>5. /\ \A d \in Clients : call'[d] = NoCall
      /\ record'[w] = Marked(record[w], "completed")
      /\ \A v \in Versions : v # w => record'[v] = record[v]
    BY <1>1, <1>4 DEF IdempotencyInv, IdempotencyType
<1>6. /\ record'[w] \in Record /\ record'[w].status = "completed"
      /\ record'[w].body = call[c].body /\ record'[w].age = call[c].age
    BY <1>3, <1>5, MarkedRow DEF IdempotencyInv, IdempotencyType
<1>7. IdempotencyType'
    <2>1. record' \in [Versions -> Record]
        BY <1>4, <1>5, <1>6 DEF IdempotencyInv, IdempotencyType
    <2>2. call' \in [Clients -> Call] /\ \A d \in Clients : call'[d] = NoCall
        BY <1>4, <1>5 DEF IdempotencyInv, IdempotencyType, Call, NoCall
    <2>3. outcome' \in [Clients -> [asked : Payloads \cup {"none"}, given : SUBSET Payloads]]
        BY <1>1, <1>4 DEF IdempotencyInv, IdempotencyType, Answered
    <2>4. QED
        BY <1>4, <2>1, <2>2, <2>3 DEF IdempotencyInv, IdempotencyType, NoCall
<1>8. RingInv'
    <2> SUFFICES ASSUME NEW v \in Versions, InUse(v)'
                 PROVE  metadata[v] # "none" /\ \A q \in Pods : v \in pod[q].ring
        BY <1>4 DEF RingInv
    <2>1. record'[v].status # "none" => record[v].status # "none"
        BY <1>3, <1>5
    <2>2. InUse(v)
        BY <1>4, <1>5, <2>1 DEF InUse, NoCall
    <2>3. QED
        BY <2>2 DEF IdempotencyInv, RingInv
<1>9. CallInv'
    BY <1>5 DEF CallInv, NoCall
<1>10. RowInv'
    <2>1. acts # <<>> /\ acts[1].body = call[c].body /\ acts[1].age = call[c].age
        BY <1>1 DEF OneAct
    <2>2. \A v \in Versions : Exists(v)' => v = w
        BY <1>3, <1>5 DEF IdempotencyInv, RowInv, Exists
    <2>3. Exists(w)' /\ \A v \in Versions : record'[v].status = "completed" => v = w
        BY <1>6, <2>2 DEF Exists
    <2>4. route.kind = "reserving"
        BY <1>1 DEF Reserving
    <2>5. QED
        BY <1>1, <1>4, <1>6, <2>1, <2>2, <2>3, <2>4 DEF RowInv
<1>11. QED
    BY <1>7, <1>8, <1>9, <1>10 DEF IdempotencyInv

LEMMA EndKeeps ==
    ASSUME IdempotencyInv, NEW c \in Clients, EndReservation(c)
    PROVE  IdempotencyInv'
<1> USE PepperAssumption, ReplayAssumption
<1>1. /\ call[c].version \in Versions
      /\ Reserving(c)
      /\ \A d \in Clients : d # c => call[d].pc = "idle"
    BY DEF EndReservation, IdempotencyInv, IdempotencyType, CallInv
<1>2. PICK w \in Versions : w = call[c].version
    BY <1>1
<1>3. /\ call' = [call EXCEPT ![c] = NoCall]
      /\ record' = IF Cancellable(c) THEN [record EXCEPT ![w] = NoRecord] ELSE record
      /\ route' = route /\ metadata' = metadata /\ pod' = pod /\ acts' = acts /\ outcome' = outcome
    BY <1>2 DEF EndReservation
<1>4. \A d \in Clients : call'[d] = NoCall
    BY <1>1, <1>3 DEF IdempotencyInv, IdempotencyType
<1>5. IdempotencyType'
    <2>1. record' \in [Versions -> Record]
        BY <1>3 DEF IdempotencyInv, IdempotencyType, Record, NoRecord
    <2>2. call' \in [Clients -> Call] /\ \A d \in Clients : call'[d] = NoCall
        BY <1>3, <1>4 DEF IdempotencyInv, IdempotencyType, Call, NoCall
    <2>3. QED
        BY <1>3, <2>1, <2>2 DEF IdempotencyInv, IdempotencyType, NoCall
<1>6. \A v \in Versions : record'[v] = record[v] \/ record'[v].status = "none"
    BY <1>3 DEF IdempotencyInv, IdempotencyType, NoRecord
<1>7. RingInv'
    <2> SUFFICES ASSUME NEW v \in Versions, InUse(v)'
                 PROVE  metadata[v] # "none" /\ \A q \in Pods : v \in pod[q].ring
        BY <1>3 DEF RingInv
    <2>1. InUse(v)
        BY <1>3, <1>4, <1>6 DEF InUse, NoCall
    <2>2. QED
        BY <2>1 DEF IdempotencyInv, RingInv
<1>8. CallInv'
    BY <1>4 DEF CallInv, NoCall
<1>9. RowInv'
    <2>1. CASE Cancellable(c)
        <3>1. acts = <<>>
            BY <1>1, <2>1 DEF Cancellable, Reserving
        <3>2. \A v \in Versions : ~Exists(v)'
            <4>1. record[w].status # "none"
                BY <1>1, <1>2 DEF Reserving, Holds
            <4>2. \A v \in Versions : v # w => ~Exists(v)
                BY <4>1 DEF IdempotencyInv, RowInv, Exists
            <4>3. \A v \in Versions : IF v = w THEN record'[v] = NoRecord ELSE record'[v] = record[v]
                BY <1>3, <2>1 DEF IdempotencyInv, IdempotencyType
            <4>4. NoRecord.status = "none"
                BY DEF NoRecord
            <4>5. ASSUME NEW v \in Versions PROVE record'[v].status = "none"
                <5>1. CASE v = w
                    BY <4>3, <4>4, <5>1
                <5>2. CASE v # w
                    BY <4>2, <4>3, <5>2 DEF Exists
                <5>3. QED
                    BY <5>1, <5>2
            <4>6. QED
                BY <4>5 DEF Exists
        <3>3. QED
            BY <1>3, <3>1, <3>2 DEF RowInv, Exists
    <2>2. CASE ~Cancellable(c)
        BY <1>3, <2>2 DEF IdempotencyInv, RowInv, Exists, Lasts
    <2>3. QED
        BY <2>1, <2>2
<1>10. QED
    BY <1>5, <1>7, <1>8, <1>9 DEF IdempotencyInv

LEMMA MaintainKeeps ==
    ASSUME IdempotencyInv, NEW v \in Versions, Maintain(v)
    PROVE  IdempotencyInv'
<1> USE PepperAssumption, ReplayAssumption
<1>1. /\ route.kind # "kept"
      /\ route' = route /\ metadata' = metadata /\ pod' = pod /\ call' = call
      /\ outcome' = outcome /\ acts' = acts
    BY DEF Maintain, Erasable
<1>2. \A c \in Clients : call[c].pc # "idle" /\ call[c].pc # "mutating" =>
         Holds(c) /\ call[c].version \in Versions /\ call[c].age < RecordLife /\ call[c].age \in Nat
    BY DEF IdempotencyInv, IdempotencyType, CallInv, Reserving, Call
<1>3. record[v] \in Record
    BY DEF IdempotencyInv, IdempotencyType
<1>4. CASE Erasable(v) /\ record' = [record EXCEPT ![v] = NoRecord]
    <2>1. \A u \in Versions : IF u = v THEN record'[u] = NoRecord ELSE record'[u] = record[u]
        BY <1>4 DEF IdempotencyInv, IdempotencyType
    <2>2. IdempotencyType'
        BY <1>1, <1>4 DEF IdempotencyInv, IdempotencyType, Record, NoRecord
    <2>3. RingInv'
        <3> SUFFICES ASSUME NEW w \in Versions, InUse(w)'
                     PROVE  metadata[w] # "none" /\ \A q \in Pods : w \in pod[q].ring
            BY <1>1 DEF RingInv
        <3>1. record'[w].status # "none" => record[w].status # "none"
            BY <2>1 DEF NoRecord
        <3>2. InUse(w)
            BY <1>1, <3>1 DEF InUse
        <3>3. QED
            BY <3>2 DEF IdempotencyInv, RingInv
    <2>4. acts = <<>> /\ \A u \in Versions : ~Exists(u)'
        <3>1. Exists(v) /\ record[v].age >= RecordLife
            BY <1>4 DEF Erasable, Exists
        <3>2. \A u \in Versions : Exists(u) => u = v
            BY <3>1 DEF IdempotencyInv, RowInv
        <3>3. \A u \in Versions : ~Exists(u)'
            BY <2>1, <3>2 DEF Exists, NoRecord
        <3>4. record[v].age \in Nat
            BY <1>3 DEF Record
        <3>5. acts = <<>>
            <4> SUFFICES ASSUME acts # <<>> PROVE FALSE
                OBVIOUS
            <4>1. PICK u \in Versions : Exists(u) /\ record[u].age = acts[1].age
                                                  /\ acts[1].age < RecordLife
                BY <1>1 DEF IdempotencyInv, RowInv
            <4>2. record[v].age < RecordLife
                BY <3>2, <4>1
            <4> QED
                BY <3>1, <3>4, <4>2
        <3>6. QED
            BY <3>3, <3>5
    <2>5. \A c \in Clients : call[c].pc # "idle" => call[c].pc = "mutating"
        <3> SUFFICES ASSUME NEW c \in Clients, call[c].pc # "idle", call[c].pc # "mutating" PROVE FALSE
            OBVIOUS
        <3> Holds(c)
            BY <1>2
        <3>1. /\ record[call[c].version].status = "processing"
              /\ record[call[c].version].age = call[c].age
            BY DEF Holds
        <3>2. call[c].version = v
            BY <1>2, <1>4, <3>1 DEF IdempotencyInv, RowInv, Exists, Erasable
        <3>3. QED
            BY <1>2, <1>4, <3>1, <3>2 DEF Erasable
    <2>6. CallInv'
        BY <1>1, <2>4, <2>5 DEF IdempotencyInv, CallInv, Mutating, Exists
    <2>7. RowInv'
        BY <1>1, <2>4 DEF RowInv, Exists
    <2>8. QED
        BY <2>2, <2>3, <2>6, <2>7 DEF IdempotencyInv
<1>5. CASE record[v].status = "completed" /\ record' = [record EXCEPT ![v] = Marked(@, "expired")]
    <2>1. /\ record'[v] = Marked(record[v], "expired")
          /\ \A u \in Versions : u # v => record'[u] = record[u]
        BY <1>5 DEF IdempotencyInv, IdempotencyType
    <2>2. /\ record'[v].status = "expired" /\ record'[v].body = record[v].body
          /\ record'[v].age = record[v].age
        BY <1>3, <2>1, MarkedRow
    <2>3. IdempotencyType'
        BY <1>1, <1>3, <1>5, MarkedRow DEF IdempotencyInv, IdempotencyType
    <2>4. \A u \in Versions : Exists(u)' <=> Exists(u)
        BY <1>5, <2>1, <2>2 DEF Exists
    <2>5. RingInv'
        BY <1>1, <2>4 DEF IdempotencyInv, RingInv, InUse, Exists
    <2>6. \A c \in Clients : call[c].pc # "idle" => call[c].pc = "mutating" \/ Holds(c)'
        <3> SUFFICES ASSUME NEW c \in Clients, call[c].pc # "idle", call[c].pc # "mutating"
                     PROVE  Holds(c)'
            OBVIOUS
        <3> Holds(c)
            BY <1>2
        <3>1. record[call[c].version].status = "processing"
            BY DEF Holds
        <3>2. call[c].version # v
            BY <1>5, <3>1
        <3>3. QED
            BY <1>1, <1>2, <2>1, <3>2 DEF Holds
    <2>7. CallInv'
        <3>1. \A c \in Clients : call[c].pc # "idle" =>
                 IF call[c].pc = "mutating" THEN Mutating(c)' ELSE Reserving(c)'
            BY <1>1, <2>4, <2>6 DEF IdempotencyInv, CallInv, Mutating, Reserving
        <3>2. QED
            BY <1>1, <3>1 DEF IdempotencyInv, CallInv
    <2>8. RowInv'
        <3>1. \A u \in Versions : record'[u].body = record[u].body /\ record'[u].age = record[u].age
            BY <2>1, <2>2
        <3>2. \A u \in Versions : record'[u].status = "completed" => record[u].status = "completed"
            BY <2>1, <2>2
        <3>3. QED
            BY <1>1, <2>4, <3>1, <3>2 DEF IdempotencyInv, RowInv, Lasts
    <2>9. QED
        BY <2>3, <2>5, <2>7, <2>8 DEF IdempotencyInv
<1>6. QED
    BY <1>4, <1>5 DEF Maintain

LEMMA AgedIsOlder ==
    /\ \A r \in Record : /\ Aged(r) \in Record
                         /\ Aged(r).status = r.status /\ Aged(r).body = r.body
                         /\ Aged(r).owner = r.owner /\ Aged(r).age = Older(r.age)
    /\ \A k \in Call : /\ Aged(k) \in Call
                       /\ Aged(k).pc = k.pc /\ Aged(k).body = k.body /\ Aged(k).pod = k.pod
                       /\ Aged(k).version = k.version /\ Aged(k).age = Older(k.age)
    /\ \A b \in Payloads, n \in 0..RecordLife :
          Aged([body |-> b, age |-> n]) = [body |-> b, age |-> Older(n)]
    /\ \A n \in 0..RecordLife : Older(n) \in 0..RecordLife /\ (n + 1 < RecordLife => Older(n) = n + 1)
<1>1. \A n \in 0..RecordLife : Older(n) \in 0..RecordLife /\ (n + 1 < RecordLife => Older(n) = n + 1)
    BY ReplayAssumption DEF Older
<1>2. \A r \in Record : /\ Aged(r) \in Record
                        /\ Aged(r).status = r.status /\ Aged(r).body = r.body
                        /\ Aged(r).owner = r.owner /\ Aged(r).age = Older(r.age)
    BY <1>1 DEF Aged, Record
<1>3. \A k \in Call : /\ Aged(k) \in Call
                      /\ Aged(k).pc = k.pc /\ Aged(k).body = k.body /\ Aged(k).pod = k.pod
                      /\ Aged(k).version = k.version /\ Aged(k).age = Older(k.age)
    BY <1>1 DEF Aged, Call
<1>4. \A b \in Payloads, n \in 0..RecordLife :
         Aged([body |-> b, age |-> n]) = [body |-> b, age |-> Older(n)]
    BY DEF Aged
<1>5. QED
    BY <1>1, <1>2, <1>3, <1>4

\* What time does to the one act that is remembered.
LEMMA ActAges ==
    ASSUME IdempotencyInv, IdempotencyTick, route.kind # "kept"
    PROVE  /\ acts = <<>> => acts' = <<>>
           /\ \A b \in Payloads, n \in 0..RecordLife : acts = OneAct(b, n) =>
                 acts' = IF Older(n) >= RecordLife THEN <<>> ELSE OneAct(b, Older(n))
<1>1. acts' = IF \A i \in 1..Len(acts) : AgedActs[i].age >= RecordLife THEN <<>> ELSE AgedActs
    BY DEF IdempotencyTick
<1>2. acts = <<>> => acts' = <<>>
    BY <1>1
<1>3. ASSUME NEW b \in Payloads, NEW n \in 0..RecordLife, acts = OneAct(b, n)
      PROVE  acts' = IF Older(n) >= RecordLife THEN <<>> ELSE OneAct(b, Older(n))
    <2>1. Len(acts) = 1 /\ acts[1] = [body |-> b, age |-> n]
        BY <1>3 DEF OneAct
    <2>2. Aged(acts[1]) = [body |-> b, age |-> Older(n)]
        BY <2>1, AgedIsOlder
    <2>3. AgedActs = [i \in 1..1 |-> Aged(acts[i])]
        BY <2>1 DEF AgedActs
    <2>4. AgedActs[1].age = Older(n)
        BY <2>2, <2>3
    <2>5. AgedActs = OneAct(b, Older(n))
        BY <2>2, <2>3 DEF OneAct
    <2>6. QED
        BY <1>1, <2>1, <2>4, <2>5
<1>4. QED
    BY <1>2, <1>3

LEMMA TickKeeps ==
    ASSUME IdempotencyInv, IdempotencyTick
    PROVE  IdempotencyInv'
<1> USE PepperAssumption, ReplayAssumption
<1>1. route' = route /\ metadata' = metadata /\ pod' = pod /\ outcome' = outcome
    BY DEF IdempotencyTick
<1>2. \A v \in Versions : /\ record[v] \in Record
                          /\ record'[v] = IF Exists(v) THEN Aged(record[v]) ELSE NoRecord
    BY DEF IdempotencyTick, Exists, IdempotencyInv, IdempotencyType
<1>3. \A c \in Clients : /\ call[c] \in Call
                         /\ call'[c] = IF call[c].pc = "idle" THEN NoCall ELSE Aged(call[c])
    BY DEF IdempotencyTick, IdempotencyInv, IdempotencyType
<1>4. \A c \in Clients : /\ call'[c].pc = call[c].pc
                         /\ call'[c] \in Call
                         /\ call[c].pc = "idle" => call'[c] = NoCall
                         /\ call[c].pc # "idle" =>
                              /\ call'[c].version = call[c].version /\ call'[c].body = call[c].body
                              /\ call'[c].pod = call[c].pod
                              /\ call'[c].age = call[c].age + 1 /\ call[c].age + 1 < RecordLife
    <2> SUFFICES ASSUME NEW c \in Clients
                 PROVE  /\ call'[c].pc = call[c].pc
                        /\ call'[c] \in Call
                        /\ call[c].pc = "idle" => call'[c] = NoCall
                        /\ call[c].pc # "idle" =>
                              /\ call'[c].version = call[c].version /\ call'[c].body = call[c].body
                              /\ call'[c].pod = call[c].pod
                              /\ call'[c].age = call[c].age + 1 /\ call[c].age + 1 < RecordLife
        OBVIOUS
    <2>1. NoCall \in Call /\ NoCall.pc = "idle"
        BY DEF NoCall, Call
    <2>2. call[c].pc # "idle" => call[c].age + 1 < RecordLife /\ call[c].age \in 0..RecordLife
        BY <1>3 DEF IdempotencyTick, Call
    <2>3. call[c].pc # "idle" => Older(call[c].age) = call[c].age + 1
        BY <2>2, AgedIsOlder
    <2>4. QED
        BY <1>3, <2>1, <2>2, <2>3, AgedIsOlder
<1>5. \A v \in Versions : /\ record'[v] \in Record
                          /\ record'[v].status = record[v].status
                          /\ Exists(v)' <=> Exists(v)
                          /\ Exists(v) => /\ record'[v].body = record[v].body
                                          /\ record'[v].owner = record[v].owner
                                          /\ record'[v].age = Older(record[v].age)
                                          /\ record[v].age \in 0..RecordLife
    <2>1. NoRecord \in Record /\ NoRecord.status = "none"
        BY DEF NoRecord, Record
    <2>2. \A r \in Record : r.age \in 0..RecordLife
        BY DEF Record
    <2>3. QED
        BY <1>2, <2>1, <2>2, AgedIsOlder DEF Exists
<1>6. acts = <<>> => acts' = <<>>
    BY ActAges DEF IdempotencyTick
<1>7. IdempotencyType'
    <2>1. record' \in [Versions -> Record] /\ call' \in [Clients -> Call]
        BY <1>4, <1>5 DEF IdempotencyTick
    <2>2. acts' = <<>> \/ \E b \in Payloads, n \in 0..RecordLife : acts' = OneAct(b, n)
        <3>1. CASE route.kind = "kept"
            BY <3>1 DEF IdempotencyTick, IdempotencyInv, IdempotencyType
        <3>2. CASE route.kind # "kept"
            <4>1. CASE acts = <<>>
                BY <1>6, <4>1
            <4>2. CASE \E b \in Payloads, n \in 0..RecordLife : acts = OneAct(b, n)
                BY <3>2, <4>2, ActAges, AgedIsOlder
            <4>3. QED
                BY <4>1, <4>2 DEF IdempotencyInv, IdempotencyType
        <3>3. QED
            BY <3>1, <3>2
    <2>3. QED
        BY <1>1, <1>4, <2>1, <2>2 DEF IdempotencyInv, IdempotencyType
<1>8. RingInv'
    <2> SUFFICES ASSUME NEW v \in Versions, InUse(v)'
                 PROVE  metadata[v] # "none" /\ \A q \in Pods : v \in pod[q].ring
        BY <1>1 DEF RingInv
    <2>1. InUse(v)
        BY <1>1, <1>4, <1>5 DEF InUse
    <2>2. QED
        BY <2>1 DEF IdempotencyInv, RingInv
<1>9. CallInv'
    <2> SUFFICES ASSUME NEW c \in Clients, call[c].pc # "idle"
                 PROVE  IF call[c].pc = "mutating" THEN Mutating(c)' ELSE Reserving(c)'
        BY <1>1, <1>4 DEF IdempotencyInv, CallInv
    <2>1. CASE call[c].pc = "mutating"
        <3>1. Mutating(c)
            BY <2>1 DEF IdempotencyInv, CallInv
        <3>2. QED
            BY <1>1, <1>4, <1>5, <1>6, <2>1, <3>1 DEF Mutating
    <2>2. CASE call[c].pc # "mutating"
        <3>1. Reserving(c) /\ call[c].version \in Versions /\ call[c].body \in Payloads
            BY <2>2 DEF IdempotencyInv, IdempotencyType, CallInv
        <3>2. PICK w \in Versions : w = call[c].version
            BY <3>1
        <3> Holds(c)
            BY <3>1 DEF Reserving
        <3>3. /\ record[w].status = "processing" /\ record[w].owner = c
              /\ record[w].body = call[c].body /\ record[w].age = call[c].age
            BY <3>2 DEF Holds
        <3>4. Older(call[c].age) = call[c].age + 1
            BY <1>3, <1>4, AgedIsOlder DEF Call
        <3>5. /\ record'[w].status = "processing" /\ record'[w].owner = c
              /\ record'[w].body = call[c].body /\ record'[w].age = call[c].age + 1
            BY <1>5, <3>3, <3>4 DEF Exists
        <3>6. record'[w] = [status |-> "processing", owner |-> c, body |-> call[c].body, age |-> call[c].age + 1]
            BY <1>5, <3>5 DEF Record
        <3>7. Holds(c)'
            BY <1>4, <3>2, <3>6 DEF Holds
        <3>8. acts = OneAct(call[c].body, call[c].age) => acts' = OneAct(call[c].body, call[c].age + 1)
            <4>1. route.kind # "kept" /\ call[c].age \in 0..RecordLife
                BY <1>3, <3>1 DEF Reserving, Call
            <4>2. ~(call[c].age + 1 >= RecordLife)
                BY <1>4, <4>1
            <4>3. QED
                BY <3>1, <3>4, <4>1, <4>2, ActAges
        <3>9. QED
            BY <1>1, <1>4, <1>6, <2>2, <3>1, <3>7, <3>8 DEF Reserving
    <2>3. QED
        BY <2>1, <2>2
<1>10. RowInv'
    <2>1. CASE route.kind = "kept"
        <3>1. acts' = acts
            BY <2>1 DEF IdempotencyTick
        <3>2. QED
            BY <1>1, <1>5, <2>1, <3>1 DEF IdempotencyInv, RowInv, Exists, Lasts
    <2>2. CASE route.kind # "kept"
        <3>1. CASE acts = <<>>
            <4>1. \A v \in Versions : record[v].status = "completed" => ~(record[v].age < RecordLife)
                BY <2>2, <3>1 DEF IdempotencyInv, RowInv, Lasts
            <4>2. \A n \in 0..RecordLife : ~(n < RecordLife) => ~(Older(n) < RecordLife)
                BY DEF Older
            <4>3. \A v \in Versions : record'[v].status = "completed" => ~(record'[v].age < RecordLife)
                BY <1>5, <4>1, <4>2 DEF Exists
            <4>4. QED
                BY <1>1, <1>5, <1>6, <2>2, <3>1, <4>3 DEF IdempotencyInv, RowInv, Lasts
        <3>2. CASE acts # <<>>
            <4>1. PICK b \in Payloads, n \in 0..RecordLife : acts = OneAct(b, n)
                BY <3>2 DEF IdempotencyInv, IdempotencyType
            <4>2. acts[1].body = b /\ acts[1].age = n
                BY <4>1 DEF OneAct
            <4>3. PICK w \in Versions : Exists(w) /\ record[w].body = b /\ record[w].age = n
                BY <2>2, <3>2, <4>2 DEF IdempotencyInv, RowInv
            <4>4. \A v \in Versions : Exists(v) => v = w
                BY <4>3 DEF IdempotencyInv, RowInv
            <4>5. acts' = IF Older(n) >= RecordLife THEN <<>> ELSE OneAct(b, Older(n))
                BY <2>2, <4>1, ActAges
            <4>6. record'[w].age = Older(n) /\ record'[w].body = b /\ Exists(w)'
                BY <1>5, <4>3
            <4>7. Older(n) \in 0..RecordLife
                BY AgedIsOlder
            <4>8. CASE Older(n) >= RecordLife
                <5>1. \A v \in Versions : record'[v].status = "completed" => ~(record'[v].age < RecordLife)
                    BY <1>5, <4>4, <4>6, <4>7, <4>8 DEF Exists
                <5>2. QED
                    BY <1>1, <1>5, <2>2, <4>4, <4>5, <4>8, <5>1 DEF RowInv, Lasts
            <4>9. CASE ~(Older(n) >= RecordLife)
                <5>1. acts' # <<>> /\ acts'[1].body = b /\ acts'[1].age = Older(n) /\ Older(n) < RecordLife
                    BY <4>5, <4>7, <4>9 DEF OneAct
                <5>2. \A v \in Versions : record'[v].status = "completed" => v = w
                    BY <1>5, <4>4 DEF Exists
                <5>3. QED
                    BY <1>1, <1>5, <2>2, <4>4, <4>6, <5>1, <5>2 DEF RowInv
            <4>10. QED
                BY <4>8, <4>9
        <3>3. QED
            BY <3>1, <3>2
    <2>3. QED
        BY <2>1, <2>2
<1>11. QED
    BY <1>7, <1>8, <1>9, <1>10 DEF IdempotencyInv

LEMMA StepKeeps == IdempotencyInv /\ [IdempotencyNext]_idempotencyVars => IdempotencyInv'
<1> SUFFICES ASSUME IdempotencyInv, [IdempotencyNext]_idempotencyVars PROVE IdempotencyInv'
    OBVIOUS
<1>1. CASE \E p \in Pods, ring \in SUBSET Versions, v \in Versions : Deploy(p, ring, v)
    BY <1>1, DeployKeeps
<1>2. CASE \E v \in Versions : Activate(v) \/ Maintain(v)
    BY <1>2, ActivateKeeps, MaintainKeeps
<1>3. CASE \E c \in Clients, p \in Pods, b \in Payloads : Classify(c, p, b) \/ Acquire(c, p, b)
    BY <1>3, ClassifyKeeps, AcquireKeeps
<1>4. CASE \E c \in Clients : CommitMutation(c) \/ Rollback(c) \/ Provide(c) \/ Refuse(c)
                                \/ CompleteReservation(c) \/ EndReservation(c)
    BY <1>4, CommitKeeps, RollbackKeeps, ProvideKeeps, CompleteKeeps, EndKeeps
<1>5. CASE IdempotencyTick
    BY <1>5, TickKeeps
<1>6. CASE UNCHANGED idempotencyVars
    BY SMTT(30), <1>6 DEF idempotencyVars, IdempotencyInv, IdempotencyType, RingInv, InUse, CallInv,
                Mutating, Reserving, Holds, RowInv, Exists, Lasts
<1>7. QED
    BY <1>1, <1>2, <1>3, <1>4, <1>5, <1>6 DEF IdempotencyNext

\* One inductive invariant for everything that is said of idempotency records.
THEOREM IdempotencyInvariant == IdempotencySpec => []IdempotencyInv
BY InvInit, StepKeeps, PTL DEF IdempotencySpec

\* A key acts once while its act is remembered: however processes are deployed with
\* other keyrings, peppers activated, calls interrupted and rows erased, no claim
\* (idempotency.rs, claim) overlooks the row of an act that still counts.
THEOREM ActsOnceHolds == IdempotencySpec => []ActsOnce
<1>1. IdempotencyInv => ActsOnce
    <2> SUFFICES ASSUME IdempotencyInv PROVE Len(acts) <= 1
        BY DEF ActsOnce
    <2>1. CASE acts = <<>>
        BY <2>1
    <2>2. ASSUME NEW b, NEW n, acts = OneAct(b, n) PROVE Len(acts) <= 1
        BY <2>2 DEF OneAct
    <2>3. QED
        BY <2>1, <2>2 DEF IdempotencyInv, IdempotencyType
<1>2. QED
    BY <1>1, IdempotencyInvariant, PTL

----------------------------------------------------------------------------
(* The record implements a once-only request *)

LEMMA RememberedBodies ==
    /\ acts = <<>> => RememberedActs = {}
    /\ \A b, n : acts = OneAct(b, n) => RememberedActs = {b}
<1>1. acts = <<>> => RememberedActs = {}
    BY DEF RememberedActs
<1>2. ASSUME NEW b, NEW n, acts = OneAct(b, n) PROVE RememberedActs = {b}
    <2>1. Len(acts) = 1 /\ acts[1].body = b
        BY <1>2 DEF OneAct
    <2>2. 1..Len(acts) = {1}
        BY <2>1
    <2>3. QED
        BY <2>1, <2>2 DEF RememberedActs
<1>3. QED
    BY <1>1, <1>2

LEMMA OnceInitially == IdempotencyInit => Once!OnceInit
BY RememberedBodies DEF IdempotencyInit, NoOutcome, Once!OnceInit, Once!Unanswered

\* A stopped process takes its unanswered calls with it.
LEMMA DeployIsInterruption ==
    ASSUME IdempotencyInv, NEW p \in Pods, NEW ring \in SUBSET Versions,
           NEW v \in Versions, Deploy(p, ring, v)
    PROVE  Once!Interrupted
<1> DEFINE gone == {c \in Clients : call[c].pod = p}
<1>1. gone \in SUBSET Clients
    OBVIOUS
<1>2. outcome' = [c \in Clients |-> IF c \in gone THEN Once!Unanswered ELSE outcome[c]]
    BY DEF Deploy, NoOutcome, Once!Unanswered
<1>3. RememberedActs' = RememberedActs
    BY DEF Deploy, RememberedActs
<1>4. QED
    BY <1>1, <1>2, <1>3 DEF Once!Interrupted

\* A claim that finds the row answers with the outcome of the act, or with none.
LEMMA ClassifyAnswers ==
    ASSUME IdempotencyInv, NEW c \in Clients, NEW p \in Pods, NEW b \in Payloads,
           Classify(c, p, b)
    PROVE  Once!Answer(c) /\ RememberedActs' = RememberedActs
<1>1. RememberedActs' = RememberedActs
    BY DEF Classify, RememberedActs
<1>2. PICK v \in Versions : Exists(v)
    BY PepperAssumption DEF Classify, Found, Exists, DigestCandidates, IdempotencyInv, IdempotencyType
<1>3. FirstFound(p) = record[v]
    BY <1>2, RowIsFound
<1>4. Replayable(record[v], b) => RememberedActs = {b} /\ record[v].body = b
    <2> SUFFICES ASSUME Replayable(record[v], b) PROVE RememberedActs = {b} /\ record[v].body = b
        OBVIOUS
    <2>1. record[v].status = "completed" /\ record[v].body = b
        BY DEF Replayable
    <2>2. Lasts(v)
        <3>1. record[v].age \in 0..RecordLife
            BY DEF IdempotencyInv, IdempotencyType, Record
        <3>2. QED
            BY <3>1, ReplayAssumption DEF Replayable, ResponseLive, Lasts
    <2>3. acts # <<>> /\ acts[1].body = b
        BY <2>1, <2>2 DEF IdempotencyInv, RowInv
    <2>4. PICK a \in Payloads, n \in 0..RecordLife : acts = OneAct(a, n)
        BY <2>3 DEF IdempotencyInv, IdempotencyType
    <2>5. a = b
        BY <2>3, <2>4 DEF OneAct
    <2>6. QED
        BY <2>1, <2>4, <2>5, RememberedBodies
<1> DEFINE given == IF Replayable(record[v], b) THEN {record[v].body} ELSE {}
<1>5. outcome' = [outcome EXCEPT ![c] = [asked |-> b, given |-> given]]
    BY <1>3 DEF Classify
<1>6. given \in {{}, RememberedActs'} /\ given \subseteq {b}
    BY <1>1, <1>4
<1> HIDE DEF given
<1>7. QED
    BY <1>1, <1>5, <1>6 DEF Once!Answer

LEMMA AcquireAnswers ==
    ASSUME NEW c \in Clients, NEW p \in Pods, NEW b \in Payloads, Acquire(c, p, b)
    PROVE  Once!Answer(c) /\ RememberedActs' = RememberedActs
<1>1. RememberedActs' = RememberedActs
    BY DEF Acquire, RememberedActs
<1>2. outcome' = [outcome EXCEPT ![c] = [asked |-> b, given |-> {}]]
    BY DEF Acquire
<1>3. {} \in {{}, RememberedActs'} /\ {} \subseteq {b}
    OBVIOUS
<1>4. QED
    BY <1>1, <1>2, <1>3 DEF Once!Answer

\* A call that gives the answer of its own act.
LEMMA AnsweredIsAnswer ==
    ASSUME NEW c \in Clients, call[c].body \in Payloads, outcome' = Answered(c),
           RememberedActs' = {call[c].body}
    PROVE  Once!Answer(c)
<1>1. {call[c].body} \in {{}, RememberedActs'} /\ {call[c].body} \subseteq {call[c].body}
    OBVIOUS
<1>2. outcome' = [outcome EXCEPT ![c] = [asked |-> call[c].body, given |-> {call[c].body}]]
    BY DEF Answered
<1>3. QED
    BY <1>1, <1>2 DEF Once!Answer

LEMMA CommitActs ==
    ASSUME IdempotencyInv, NEW c \in Clients, CommitMutation(c)
    PROVE  \E b \in Payloads : Once!Act(b) /\ Once!Answer(c)
<1>1. call[c].body \in Payloads /\ acts = <<>>
    BY DEF CommitMutation, IdempotencyInv, IdempotencyType, CallInv, Mutating
<1>2. acts' = OneAct(call[c].body, call[c].age)
    BY <1>1 DEF CommitMutation, Done, OneAct
<1>3. RememberedActs = {}
    BY <1>1, RememberedBodies
<1>4. RememberedActs' = {call[c].body}
    <2>1. Len(acts') = 1 /\ acts'[1].body = call[c].body
        BY <1>2 DEF OneAct
    <2>2. 1..Len(acts') = {1}
        BY <2>1
    <2>3. QED
        BY <2>1, <2>2 DEF RememberedActs
<1>5. Once!Answer(c)
    BY <1>1, <1>4, AnsweredIsAnswer DEF CommitMutation
<1>6. QED
    BY <1>1, <1>3, <1>4, <1>5 DEF Once!Act

LEMMA ProvideActs ==
    ASSUME IdempotencyInv, NEW c \in Clients, Provide(c)
    PROVE  \E b \in Payloads : Once!Act(b) /\ outcome' = outcome
<1>1. call[c].body \in Payloads /\ acts = <<>>
    BY DEF Provide, IdempotencyInv, IdempotencyType, CallInv, Reserving
<1>2. acts' = OneAct(call[c].body, call[c].age)
    BY <1>1 DEF Provide, Done, OneAct
<1>3. RememberedActs = {}
    BY <1>1, RememberedBodies
<1>4. RememberedActs' = {call[c].body}
    <2>1. Len(acts') = 1 /\ acts'[1].body = call[c].body
        BY <1>2 DEF OneAct
    <2>2. 1..Len(acts') = {1}
        BY <2>1
    <2>3. QED
        BY <2>1, <2>2 DEF RememberedActs
<1>5. QED
    BY <1>1, <1>3, <1>4 DEF Once!Act, Provide

LEMMA CompleteAnswers ==
    ASSUME IdempotencyInv, NEW c \in Clients, CompleteReservation(c)
    PROVE  RememberedActs' = RememberedActs /\ (Once!Answer(c) \/ outcome' = outcome)
<1>1. call[c].body \in Payloads /\ acts = OneAct(call[c].body, call[c].age)
    BY DEF CompleteReservation, IdempotencyInv, IdempotencyType, CallInv, Reserving
<1>2. RememberedActs = {call[c].body}
    BY <1>1, RememberedBodies
<1>3. RememberedActs' = RememberedActs
    BY DEF CompleteReservation, RememberedActs
<1>4. CASE outcome' = Answered(c)
    BY <1>1, <1>2, <1>3, <1>4, AnsweredIsAnswer
<1>5. QED
    BY <1>3, <1>4 DEF CompleteReservation

LEMMA TickForgets ==
    ASSUME IdempotencyInv, IdempotencyTick
    PROVE  Once!Forget \/ UNCHANGED <<RememberedActs, outcome>>
<1>1. outcome' = outcome
    BY DEF IdempotencyTick
<1>2. CASE route.kind = "kept" \/ acts = <<>>
    <2>1. acts' = acts
        BY <1>2, ActAges DEF IdempotencyTick
    <2>2. QED
        BY <1>1, <2>1 DEF RememberedActs
<1>3. CASE route.kind # "kept" /\ acts # <<>>
    <2>1. PICK b \in Payloads, n \in 0..RecordLife : acts = OneAct(b, n)
        BY <1>3 DEF IdempotencyInv, IdempotencyType
    <2>2. RememberedActs = {b}
        BY <2>1, RememberedBodies
    <2>3. acts' = <<>> \/ acts' = OneAct(b, Older(n))
        BY <1>3, <2>1, ActAges
    <2>4. CASE acts' = <<>>
        <3>1. RememberedActs' = {}
            BY <2>4 DEF RememberedActs
        <3>2. QED
            BY <1>1, <2>2, <3>1 DEF Once!Forget
    <2>5. CASE acts' = OneAct(b, Older(n))
        <3>1. Len(acts') = 1 /\ acts'[1].body = b
            BY <2>5 DEF OneAct
        <3>2. 1..Len(acts') = {1}
            BY <3>1
        <3>3. RememberedActs' = {b}
            BY <3>1, <3>2 DEF RememberedActs
        <3>4. QED
            BY <1>1, <2>2, <3>3
    <2>6. QED
        BY <2>3, <2>4, <2>5
<1>4. QED
    BY <1>2, <1>3

LEMMA OnceStep ==
    IdempotencyInv /\ [IdempotencyNext]_idempotencyVars => [Once!OnceNext]_Once!onceVars
<1> SUFFICES ASSUME IdempotencyInv, [IdempotencyNext]_idempotencyVars
             PROVE  Once!OnceNext \/ (RememberedActs' = RememberedActs /\ outcome' = outcome)
    BY DEF Once!onceVars
<1>1. CASE \E p \in Pods, ring \in SUBSET Versions, v \in Versions : Deploy(p, ring, v)
    BY <1>1, DeployIsInterruption DEF Once!OnceNext
<1>2. CASE \E v \in Versions : Activate(v) \/ Maintain(v)
    BY <1>2 DEF Activate, Maintain, RememberedActs
<1>3. CASE \E c \in Clients, p \in Pods, b \in Payloads : Classify(c, p, b) \/ Acquire(c, p, b)
    BY <1>3, ClassifyAnswers, AcquireAnswers DEF Once!OnceNext
<1>4. CASE \E c \in Clients : CommitMutation(c)
    BY <1>4, CommitActs DEF Once!OnceNext
<1>5. CASE \E c \in Clients : Provide(c)
    BY <1>5, ProvideActs DEF Once!OnceNext
<1>6. CASE \E c \in Clients : CompleteReservation(c)
    BY <1>6, CompleteAnswers DEF Once!OnceNext
<1>7. CASE \E c \in Clients : Rollback(c) \/ Refuse(c) \/ EndReservation(c)
    BY <1>7 DEF Rollback, Refuse, EndReservation, RememberedActs
<1>8. CASE IdempotencyTick
    BY <1>8, TickForgets DEF Once!OnceNext
<1>9. CASE UNCHANGED idempotencyVars
    BY <1>9 DEF idempotencyVars, RememberedActs
<1>10. QED
    BY <1>1, <1>2, <1>3, <1>4, <1>5, <1>6, <1>7, <1>8, <1>9 DEF IdempotencyNext

\* Claim, mutation and replay implement the abstract once-only request of OnceOnly:
\* every answer a retry gets (classify_existing) is that of the act that is remembered.
THEOREM ImplementsOnceHolds == IdempotencySpec => ImplementsOnce
BY OnceInitially, OnceStep, IdempotencyInvariant, PTL
   DEF IdempotencySpec, ImplementsOnce, Once!OnceSpec

\* A retried mutation (claim, complete) is carried out once, and answered as it was,
\* for every fleet, keyring history and interleaving of calls with maintenance.
THEOREM IdempotencySoundHolds == IdempotencySpec => IdempotencySound
BY ActsOnceHolds, ImplementsOnceHolds DEF IdempotencySound

----------------------------------------------------------------------------
(* The envelope of a mutation *)

Entry ==
    [version : Nat, over : Nat, by : {"carbon", "silicon", "application", "provider"}]

OpenRequest ==
    [phase : {"open", "claimed", "locked"}, token : Tokens, resource : Resources,
     key : Keys, expected : Nat \ {0}]

\* What admission leaves of a token, whatever happens to its authority later.
Eligible(t, r) ==
    /\ r[1] = "sso" => t.holder = "carbon"
    /\ r[1] = "environment" => t.via # "app"
    /\ r[1] = "profile" => t.holder = "carbon" /\ t.via = "iam"

MutationType ==
    /\ member \subseteq Orgs /\ selected \subseteq Orgs
    /\ version \in [Resources -> Nat \ {0}]
    /\ announced \in [Resources -> Seq(Nat)]
    /\ audited \in [Resources -> Seq(Entry)]
    /\ proof \in [Sessions -> [number : Nat, org : Orgs \cup {"none"}, fresh : BOOLEAN]]
    /\ request \in [Slots -> {Idle} \cup OpenRequest]
    /\ sanctioned \in [Sessions -> Nat]

\* Only what was admitted is claimed, and stored.
AdmittedInv ==
    /\ \A x \in Slots : request[x].phase # "idle" => Eligible(request[x].token, request[x].resource)
    /\ \A a \in stored : \E t \in Tokens, r \in Resources, k \in Keys :
         /\ Eligible(t, r)
         /\ a = [name |-> Name(t, r, k), by |-> t, resource |-> r]

\* A locked row keeps the version that was compared.
LockInv ==
    \A x \in Slots : request[x].phase = "locked" =>
        /\ request[x].expected = version[request[x].resource]
        /\ \A y \in Slots :
             request[y].phase = "locked" /\ request[y].resource = request[x].resource => y = x

\* What is written of one resource until it has version v.
History(r, v, a, s) ==
    /\ Len(a) = v - 1
    /\ \A i \in 1..(v - 1) : a[i].version = i + 1 /\ a[i].over = i
    /\ s = IF r[1] = "environment" THEN <<>> ELSE [i \in 1..(v - 1) |-> i + 1]

MutationInv ==
    /\ MutationType
    /\ AdmittedInv
    /\ LockInv
    /\ \A r \in Resources : History(r, version[r], audited[r], announced[r])
    /\ ProofSpentOnce

\* A token's shape, as far as the proofs ask for it.
LEMMA TokenShape ==
    ASSUME NEW t \in Tokens
    PROVE  /\ t.holder \in {"carbon", "silicon", "application"}
           /\ t.via \in {"iam", "app", "client"}
           /\ t.holder = "carbon" => t.session \in Sessions
           /\ t.via = "app" => t.holder = "carbon"
BY MutationAssumption DEF TokenType

LEMMA ResourceShape ==
    ASSUME NEW r \in Resources
    PROVE  /\ r[1] \in {"organization", "sso", "profile", "environment"}
           /\ r = <<r[1], r[2]>>
           /\ r[1] = "profile" => r[2] = "person"
BY MutationAssumption DEF ResourceType, Family

LEMMA AdmittedIsEligible ==
    ASSUME NEW t \in Tokens, NEW r \in Resources, Admitted(t, r)
    PROVE  Eligible(t, r)
<1>1. CASE r[1] = "sso"
    BY <1>1 DEF Admitted, AdmitSso, Eligible
<1>2. CASE r[1] = "environment"
    BY <1>2 DEF Admitted, Manages, DirectBinding, Eligible
<1>3. CASE r[1] = "profile"
    BY <1>3 DEF Admitted, AdmitProfile, Eligible
<1>4. CASE r[1] = "organization"
    BY <1>4 DEF Eligible
<1>5. QED
    BY <1>1, <1>2, <1>3, <1>4, ResourceShape

LEMMA SameApplicationPart ==
    ASSUME NEW t \in Tokens, NEW u \in Tokens, ApplicationPart(t) = ApplicationPart(u),
           "app" \in {t.via, u.via}
    PROVE  t.via = u.via /\ t.session = u.session /\ t.scopes = u.scopes
<1>1. \A w \in {t, u} : ApplicationPart(w).app = (w.via = "app")
    BY DEF ApplicationPart, Direct
<1>2. t.via = "app" /\ u.via = "app"
    BY <1>1
<1>3. [app |-> TRUE, session |-> t.session, scopes |-> t.scopes]
        = [app |-> TRUE, session |-> u.session, scopes |-> u.scopes]
    BY <1>2 DEF ApplicationPart
<1>4. QED
    BY <1>2, <1>3

\* One name is one resource, one holder, and one session and scope set of an application.
LEMMA NamesConfine ==
    ASSUME NEW t \in Tokens, NEW r \in Resources, NEW k \in Keys, Eligible(t, r),
           NEW u \in Tokens, NEW q \in Resources, NEW l \in Keys, Eligible(u, q),
           Name(t, r, k) = Name(u, q, l)
    PROVE  /\ r = q /\ t.holder = u.holder
           /\ "app" \in {t.via, u.via} =>
                t.via = u.via /\ t.session = u.session /\ t.scopes = u.scopes
<1>1. r[1] = q[1] /\ CallerScope(t, r) = CallerScope(u, q)
    BY DEF Name
<1>2. CASE r[1] = "organization"
    <2>1. OrganizationScope(t, r[2]) = OrganizationScope(u, q[2])
        BY <1>1, <1>2 DEF CallerScope
    <2>2. t.holder = u.holder /\ r[2] = q[2] /\ ApplicationPart(t) = ApplicationPart(u)
        BY <2>1 DEF OrganizationScope
    <2>3. QED
        BY <1>1, <2>2, ResourceShape, SameApplicationPart
<1>3. CASE r[1] = "sso"
    <2>1. SsoScope(t, r[2]) = SsoScope(u, q[2])
        BY <1>1, <1>3 DEF CallerScope
    <2>2. r[2] = q[2] /\ ApplicationPart(t) = ApplicationPart(u)
        BY <2>1 DEF SsoScope
    <2>3. t.holder = u.holder
        BY <1>1, <1>3 DEF Eligible
    <2>4. QED
        BY <1>1, <2>2, <2>3, ResourceShape, SameApplicationPart
<1>4. CASE r[1] = "environment"
    <2>1. EnvironmentScope(t, r[2]) = EnvironmentScope(u, q[2])
        BY <1>1, <1>4 DEF CallerScope
    <2>2. t.holder = u.holder /\ r[2] = q[2]
        BY <2>1 DEF EnvironmentScope
    <2>3. t.via # "app" /\ u.via # "app"
        BY <1>1, <1>4 DEF Eligible
    <2>4. QED
        BY <1>1, <2>2, <2>3, ResourceShape
<1>5. CASE r[1] = "profile"
    <2>1. r[2] = "person" /\ q[2] = "person"
        BY <1>1, <1>5, ResourceShape
    <2>2. t.holder = "carbon" /\ u.holder = "carbon" /\ t.via = "iam" /\ u.via = "iam"
        BY <1>1, <1>5 DEF Eligible
    <2>3. QED
        BY <1>1, <2>1, <2>2, ResourceShape
<1>6. QED
    BY <1>2, <1>3, <1>4, <1>5, ResourceShape

\* One more entry over the version that was last, and one more event.
LEMMA HistoryGrows ==
    ASSUME NEW r \in Resources, NEW v \in Nat \ {0}, NEW a \in Seq(Entry), NEW s \in Seq(Nat),
           History(r, v, a, s), NEW e \in Entry, e.version = v + 1, e.over = v
    PROVE  /\ History(r, v + 1, Append(a, e), IF r[1] = "environment" THEN s ELSE Append(s, v + 1))
           /\ Append(a, e) \in Seq(Entry) /\ Append(s, v + 1) \in Seq(Nat)
<1>1. /\ Append(a, e) \in Seq(Entry) /\ Len(Append(a, e)) = v
      /\ \A i \in 1..(v - 1) : Append(a, e)[i] = a[i]
      /\ Append(a, e)[v] = e
    <2>1. Len(a) = v - 1
        BY DEF History
    <2>2. QED
        BY <2>1, AppendProperties
<1>2. \A i \in 1..v : Append(a, e)[i].version = i + 1 /\ Append(a, e)[i].over = i
    <2>1. \A i \in 1..v : i = v \/ i \in 1..(v - 1)
        OBVIOUS
    <2>2. QED
        BY <1>1, <2>1 DEF History
<1>3. v + 1 \in Nat /\ Append(s, v + 1) \in Seq(Nat)
    BY AppendProperties
<1>4. CASE r[1] = "environment"
    BY <1>1, <1>2, <1>3, <1>4 DEF History
<1>5. CASE r[1] # "environment"
    <2> DEFINE before == [i \in 1..(v - 1) |-> i + 1]
               after == [i \in 1..v |-> i + 1]
    <2>1. s = before
        BY <1>5 DEF History
    <2>2. Len(s) = v - 1
        BY <2>1
    <2>3. /\ Len(Append(s, v + 1)) = v
          /\ \A i \in 1..(v - 1) : Append(s, v + 1)[i] = s[i]
          /\ Append(s, v + 1)[v] = v + 1
        BY <1>3, <2>2, AppendProperties
    <2>4. after \in Seq(Nat) /\ Len(after) = v
        BY SeqDef
    <2>5. \A i \in 1..v : Append(s, v + 1)[i] = after[i]
        <3>1. \A i \in 1..v : i = v \/ i \in 1..(v - 1)
            OBVIOUS
        <3>2. QED
            BY <2>1, <2>3, <3>1
    <2>6. Append(s, v + 1) = after
        BY <1>3, <2>3, <2>4, <2>5, SeqEqual
    <2>7. (v + 1) - 1 = v
        OBVIOUS
    <2>8. QED
        BY <1>1, <1>2, <1>3, <1>5, <2>6, <2>7 DEF History
<1>6. QED
    BY <1>4, <1>5

LEMMA MutationInvInit == MutationInit => MutationInv
<1> SUFFICES ASSUME MutationInit PROVE MutationInv
    OBVIOUS
<1> USE DEF MutationInit
<1>1. MutationType
    <2>1. <<>> \in Seq(Nat) /\ <<>> \in Seq(Entry)
        OBVIOUS
    <2>2. QED
        BY <2>1 DEF MutationType
<1>2. AdmittedInv /\ LockInv
    BY DEF AdmittedInv, LockInv, Idle
<1>3. \A r \in Resources : History(r, version[r], audited[r], announced[r])
    <2>1. [i \in 1..0 |-> i + 1] = <<>>
        BY SeqDef
    <2>2. QED
        BY <2>1 DEF History
<1>4. ProofSpentOnce
    BY DEF ProofSpentOnce
<1>5. QED
    BY <1>1, <1>2, <1>3, <1>4 DEF MutationInv

LEMMA RequestShape ==
    ASSUME MutationType, NEW x \in Slots, request[x].phase # "idle"
    PROVE  /\ request[x] \in OpenRequest
           /\ request[x].token \in Tokens /\ request[x].resource \in Resources
           /\ request[x].key \in Keys /\ request[x].expected \in Nat \ {0}
           /\ request[x].phase \in {"open", "claimed", "locked"}
<1>1. request[x] \in OpenRequest
    BY DEF MutationType, Idle
<1>2. QED
    BY <1>1 DEF OpenRequest

LEMMA PhaseOnly ==
    ASSUME NEW q \in OpenRequest, NEW phase \in {"open", "claimed", "locked"}
    PROVE  /\ InPhase(q, phase) \in OpenRequest /\ InPhase(q, phase).phase = phase
           /\ InPhase(q, phase).token = q.token /\ InPhase(q, phase).resource = q.resource
           /\ InPhase(q, phase).expected = q.expected
BY DEF InPhase, OpenRequest

\* A request that moves alone.  It is locked only over the version that is compared,
\* on a row nobody else has locked.
LEMMA RequestMoves ==
    ASSUME MutationInv, NEW x \in Slots, NEW q \in {Idle} \cup OpenRequest,
           request' = [request EXCEPT ![x] = q],
           q.phase # "idle" => Eligible(q.token, q.resource),
           q.phase = "locked" => /\ q.expected = version[q.resource]
                                 /\ RowFree(x, q.resource),
           UNCHANGED <<member, selected, version, announced, audited, proof, stored, sanctioned>>
    PROVE  MutationInv'
<1>1. MutationType'
    BY DEF MutationInv, MutationType
<1>2. \A y \in Slots : request'[y] = IF y = x THEN q ELSE request[y]
    BY DEF MutationInv, MutationType
<1>3. AdmittedInv'
    BY <1>2 DEF MutationInv, AdmittedInv
<1>4. LockInv'
    BY <1>2 DEF MutationInv, LockInv, RowFree
<1>5. (\A r \in Resources : History(r, version[r], audited[r], announced[r]))' /\ ProofSpentOnce'
    BY DEF MutationInv, ProofSpentOnce
<1>6. QED
    BY <1>1, <1>3, <1>4, <1>5 DEF MutationInv

LEMMA IdleShape == Idle.phase = "idle" /\ Idle \in {Idle} \cup OpenRequest
BY DEF Idle

LEMMA BeginKeeps ==
    ASSUME MutationInv, NEW x \in Slots, Begin(x)
    PROVE  MutationInv'
<1>a. PICK t \in Tokens, r \in Resources, k \in Keys :
        /\ Admitted(t, r)
        /\ \E e \in 1..version[r] : request' = [request EXCEPT ![x] =
             [phase |-> "open", token |-> t, resource |-> r, key |-> k, expected |-> e]]
    BY DEF Begin
<1>b. version[r] \in Nat
    BY DEF MutationInv, MutationType
<1>1. PICK e \in 1..version[r] : request' = [request EXCEPT ![x] =
             [phase |-> "open", token |-> t, resource |-> r, key |-> k, expected |-> e]]
    BY <1>a
<1>c. e \in Nat \ {0}
    BY <1>b
<1> DEFINE q == [phase |-> "open", token |-> t, resource |-> r, key |-> k, expected |-> e]
<1>2. q \in OpenRequest /\ q.phase = "open" /\ q.token = t /\ q.resource = r
    BY <1>c DEF OpenRequest
<1>3. Eligible(t, r)
    BY <1>a, AdmittedIsEligible
<1>4. request' = [request EXCEPT ![x] = q]
    BY <1>1
<1> HIDE DEF q
<1>5. UNCHANGED <<member, selected, version, announced, audited, proof, stored, sanctioned>>
    BY DEF Begin
<1>6. QED
    BY <1>2, <1>3, <1>4, <1>5, RequestMoves

LEMMA ClaimKeeps ==
    ASSUME MutationInv, NEW x \in Slots, Claim(x)
    PROVE  MutationInv'
<1>1. /\ request[x].phase = "open"
      /\ UNCHANGED <<member, selected, version, announced, audited, proof, stored, sanctioned>>
      /\ \/ request' = [request EXCEPT ![x] = Idle]
         \/ request' = [request EXCEPT ![x] = InPhase(request[x], "claimed")]
    BY DEF Claim
<1>2. request[x] \in OpenRequest /\ Eligible(request[x].token, request[x].resource)
    BY <1>1, RequestShape DEF MutationInv, AdmittedInv
<1>3. CASE request' = [request EXCEPT ![x] = Idle]
    BY <1>1, <1>3, IdleShape, RequestMoves
<1>4. CASE request' = [request EXCEPT ![x] = InPhase(request[x], "claimed")]
    BY <1>1, <1>2, <1>4, PhaseOnly, RequestMoves
<1>5. QED
    BY <1>1, <1>3, <1>4

LEMMA LockKeeps ==
    ASSUME MutationInv, NEW x \in Slots, Lock(x)
    PROVE  MutationInv'
<1>1. /\ request[x].phase = "claimed"
      /\ RowFree(x, request[x].resource)
      /\ request[x].expected = version[request[x].resource]
      /\ UNCHANGED <<member, selected, version, announced, audited, proof, stored, sanctioned>>
      /\ request' = [request EXCEPT ![x] = InPhase(request[x], "locked")]
    BY DEF Lock, VersionMatches
<1>2. request[x] \in OpenRequest /\ Eligible(request[x].token, request[x].resource)
    BY <1>1, RequestShape DEF MutationInv, AdmittedInv
<1> DEFINE q == InPhase(request[x], "locked")
<1>3. /\ q \in OpenRequest /\ Eligible(q.token, q.resource)
      /\ q.expected = version[q.resource] /\ RowFree(x, q.resource)
    BY <1>1, <1>2, PhaseOnly
<1>4. request' = [request EXCEPT ![x] = q]
    BY <1>1
<1> HIDE DEF q
<1>5. QED
    BY <1>1, <1>3, <1>4, RequestMoves

LEMMA GiveUpKeeps ==
    ASSUME MutationInv, NEW x \in Slots, GiveUpRequest(x)
    PROVE  MutationInv'
BY IdleShape, RequestMoves DEF GiveUpRequest

\* What a commit does to the history of one resource.
LEMMA HistoriesGrow ==
    ASSUME MutationInv, NEW r \in Resources, NEW by \in {"carbon", "silicon", "application", "provider"},
           version' = [version EXCEPT ![r] = @ + 1],
           audited' = [audited EXCEPT ![r] =
               Append(@, [version |-> version[r] + 1, over |-> version[r], by |-> by])],
           announced' = IF r[1] = "environment" THEN announced
                        ELSE [announced EXCEPT ![r] = Append(@, version[r] + 1)]
    PROVE  /\ version' \in [Resources -> Nat \ {0}]
           /\ announced' \in [Resources -> Seq(Nat)]
           /\ audited' \in [Resources -> Seq(Entry)]
           /\ \A q \in Resources : History(q, version'[q], audited'[q], announced'[q])
           /\ \A q \in Resources : q # r => version'[q] = version[q]
<1> DEFINE e == [version |-> version[r] + 1, over |-> version[r], by |-> by]
<1>1. version[r] \in Nat \ {0} /\ audited[r] \in Seq(Entry) /\ announced[r] \in Seq(Nat)
    BY DEF MutationInv, MutationType
<1>2. e \in Entry /\ e.version = version[r] + 1 /\ e.over = version[r]
    BY <1>1 DEF Entry
<1>3. History(r, version[r], audited[r], announced[r])
    BY DEF MutationInv
<1> HIDE DEF e
<1>4. /\ History(r, version[r] + 1, Append(audited[r], e),
               IF r[1] = "environment" THEN announced[r] ELSE Append(announced[r], version[r] + 1))
      /\ Append(audited[r], e) \in Seq(Entry) /\ Append(announced[r], version[r] + 1) \in Seq(Nat)
    BY <1>1, <1>2, <1>3, HistoryGrows
<1>5. audited' = [audited EXCEPT ![r] = Append(audited[r], e)]
    BY DEF e
<1>6. /\ version'[r] = version[r] + 1 /\ audited'[r] = Append(audited[r], e)
      /\ announced'[r] = IF r[1] = "environment" THEN announced[r] ELSE Append(announced[r], version[r] + 1)
    BY <1>5 DEF MutationInv, MutationType
<1>7. \A q \in Resources : q # r =>
        version'[q] = version[q] /\ audited'[q] = audited[q] /\ announced'[q] = announced[q]
    BY <1>5 DEF MutationInv, MutationType
<1>8. \A q \in Resources : History(q, version'[q], audited'[q], announced'[q])
    <2> SUFFICES ASSUME NEW q \in Resources
                 PROVE  History(q, version'[q], audited'[q], announced'[q])
        OBVIOUS
    <2>1. CASE q = r
        BY <1>4, <1>6, <2>1
    <2>2. CASE q # r
        BY <1>7, <2>2 DEF MutationInv
    <2>3. QED
        BY <2>1, <2>2
<1>9. version' \in [Resources -> Nat \ {0}]
    BY <1>1 DEF MutationInv, MutationType
<1>10. audited' \in [Resources -> Seq(Entry)]
    BY <1>4, <1>5 DEF MutationInv, MutationType
<1>11. announced' \in [Resources -> Seq(Nat)]
    BY <1>4 DEF MutationInv, MutationType
<1>12. QED
    BY <1>7, <1>8, <1>9, <1>10, <1>11

\* A spent proof is not fresh any more.
LEMMA SpentProof ==
    ASSUME NEW p \in [number : Nat, org : Orgs \cup {"none"}, fresh : BOOLEAN]
    PROVE  /\ Spent(p) \in [number : Nat, org : Orgs \cup {"none"}, fresh : BOOLEAN]
           /\ Spent(p).fresh = FALSE /\ Spent(p).number = p.number
BY DEF Spent

\* Only a fresh proof is consumed, and it is not fresh afterwards.
LEMMA ConsumptionCounted ==
    ASSUME MutationInv, NEW q \in OpenRequest, Eligible(q.token, q.resource), Consumable(q),
           proof' = Consumed(q), sanctioned' = Sanctioned(q)
    PROVE  /\ proof' \in [Sessions -> [number : Nat, org : Orgs \cup {"none"}, fresh : BOOLEAN]]
           /\ sanctioned' \in [Sessions -> Nat]
           /\ ProofSpentOnce'
<1>1. CASE q.resource[1] # "sso"
    <2>1. proof' = proof /\ sanctioned' = sanctioned
        BY <1>1 DEF Consumed, Sanctioned
    <2>2. QED
        BY <2>1 DEF MutationInv, MutationType, ProofSpentOnce
<1>2. CASE q.resource[1] = "sso"
    <2> DEFINE s == q.token.session
    <2>1. s \in Sessions
        <3>1. q.token \in Tokens /\ q.token.holder = "carbon"
            BY <1>2 DEF Eligible, OpenRequest
        <3>2. QED
            BY <3>1, TokenShape
    <2>2. proof[s].fresh = TRUE
        BY <1>2, <2>1 DEF Consumable, MutationInv, MutationType
    <2>3. /\ proof' = [proof EXCEPT ![s] = Spent(proof[s])]
          /\ sanctioned' = [sanctioned EXCEPT ![s] = @ + 1]
        BY <1>2 DEF Consumed, Sanctioned
    <2>4. /\ proof[s] \in [number : Nat, org : Orgs \cup {"none"}, fresh : BOOLEAN]
          /\ sanctioned[s] \in Nat /\ proof[s].number \in Nat
        BY <2>1 DEF MutationInv, MutationType
    <2>5. sanctioned[s] + 1 <= proof[s].number
        BY <2>1, <2>2, <2>4 DEF MutationInv, ProofSpentOnce
    <2> DEFINE p == Spent(proof[s])
    <2>a. /\ p \in [number : Nat, org : Orgs \cup {"none"}, fresh : BOOLEAN]
          /\ p.fresh = FALSE /\ p.number = proof[s].number
        BY <2>4, SpentProof
    <2>b. proof' = [proof EXCEPT ![s] = p]
        BY <2>3
    <2> HIDE DEF s, p
    <2>c. /\ proof' \in [Sessions -> [number : Nat, org : Orgs \cup {"none"}, fresh : BOOLEAN]]
          /\ proof'[s] = p
        BY <2>1, <2>a, <2>b DEF MutationInv, MutationType
    <2>6. /\ proof' \in [Sessions -> [number : Nat, org : Orgs \cup {"none"}, fresh : BOOLEAN]]
          /\ proof'[s].fresh = FALSE /\ proof'[s].number = proof[s].number
        BY <2>a, <2>c
    <2>7. sanctioned' \in [Sessions -> Nat] /\ sanctioned'[s] = sanctioned[s] + 1
        BY <2>1, <2>3, <2>4 DEF MutationInv, MutationType
    <2>8. \A w \in Sessions : w # s => proof'[w] = proof[w] /\ sanctioned'[w] = sanctioned[w]
        BY <2>3 DEF MutationInv, MutationType
    <2>9. ProofSpentOnce'
        <3> SUFFICES ASSUME NEW w \in Sessions
                     PROVE  sanctioned'[w] + (IF proof'[w].fresh THEN 1 ELSE 0) <= proof'[w].number
            BY DEF ProofSpentOnce
        <3>1. CASE w = s
            BY <2>4, <2>5, <2>6, <2>7, <3>1
        <3>2. CASE w # s
            BY <2>8, <3>2 DEF MutationInv, ProofSpentOnce
        <3>3. QED
            BY <3>1, <3>2
    <2>10. QED
        BY <2>6, <2>7, <2>9
<1>3. QED
    BY <1>1, <1>2

LEMMA FinishKeeps ==
    ASSUME MutationInv, NEW x \in Slots, Finish(x)
    PROVE  MutationInv'
<1> DEFINE q == request[x]
<1>1. /\ q.phase = "locked"
      /\ Consumable(q)
      /\ proof' = Consumed(q)
      /\ version' = [version EXCEPT ![q.resource] = @ + 1]
      /\ audited' = Audited(q)
      /\ announced' = Announced(q)
      /\ stored' = stored \cup {Answer(q)}
      /\ sanctioned' = Sanctioned(q)
      /\ request' = [request EXCEPT ![x] = Idle]
      /\ member' = member /\ selected' = selected
    BY DEF Finish
<1>2. /\ q \in OpenRequest
      /\ q.token \in Tokens /\ q.resource \in Resources /\ q.key \in Keys
      /\ Eligible(q.token, q.resource)
      /\ q.expected = version[q.resource]
      /\ \A y \in Slots : request[y].phase = "locked" /\ request[y].resource = q.resource => y = x
    BY <1>1, RequestShape DEF MutationInv, AdmittedInv, LockInv
<1>3. q.token.holder \in {"carbon", "silicon", "application", "provider"}
    BY <1>2, TokenShape
<1>4. PICK r \in Resources, by \in {"carbon", "silicon", "application", "provider"} :
        r = q.resource /\ by = q.token.holder
    BY <1>2, <1>3
<1>5. version'[r] = version[r] + 1
    BY <1>1, <1>4 DEF MutationInv, MutationType
<1>6. /\ version' = [version EXCEPT ![r] = @ + 1]
      /\ audited' = [audited EXCEPT ![r] =
            Append(@, [version |-> version[r] + 1, over |-> version[r], by |-> by])]
      /\ announced' = IF r[1] = "environment" THEN announced
                      ELSE [announced EXCEPT ![r] = Append(@, version[r] + 1)]
    <2>1. version' = [version EXCEPT ![r] = @ + 1]
        BY <1>1, <1>4
    <2>2. audited' = [audited EXCEPT ![r] = Append(@, [version |-> version'[r], over |-> q.expected, by |-> by])]
        BY <1>1, <1>4 DEF Audited
    <2>3. q.expected = version[r]
        BY <1>2, <1>4
    <2>4. audited' = [audited EXCEPT ![r] =
            Append(@, [version |-> version[r] + 1, over |-> version[r], by |-> by])]
        BY <1>5, <2>2, <2>3
    <2>5. announced' = IF r[1] = "environment" THEN announced
                       ELSE [announced EXCEPT ![r] = Append(@, version'[r])]
        BY <1>1, <1>4 DEF Announced
    <2>6. announced' = IF r[1] = "environment" THEN announced
                       ELSE [announced EXCEPT ![r] = Append(@, version[r] + 1)]
        <3>1. CASE r[1] = "environment"
            BY <2>5, <3>1
        <3>2. CASE r[1] # "environment"
            BY <1>5, <2>5, <3>2, Zenon
        <3>3. QED
            BY <3>1, <3>2
    <2>7. QED
        BY <2>1, <2>4, <2>6
<1>7. /\ version' \in [Resources -> Nat \ {0}]
      /\ announced' \in [Resources -> Seq(Nat)]
      /\ audited' \in [Resources -> Seq(Entry)]
      /\ \A p \in Resources : History(p, version'[p], audited'[p], announced'[p])
      /\ \A p \in Resources : p # r => version'[p] = version[p]
    BY <1>6, HistoriesGrow
<1>8. /\ proof' \in [Sessions -> [number : Nat, org : Orgs \cup {"none"}, fresh : BOOLEAN]]
      /\ sanctioned' \in [Sessions -> Nat]
      /\ ProofSpentOnce'
    BY <1>1, <1>2, ConsumptionCounted
<1>9. \A y \in Slots : request'[y] = IF y = x THEN Idle ELSE request[y]
    BY <1>1 DEF MutationInv, MutationType
<1>10. MutationType'
    BY <1>1, <1>7, <1>8, IdleShape DEF MutationInv, MutationType
<1>11. AdmittedInv'
    <2>1. \A y \in Slots : request'[y].phase # "idle" =>
             Eligible(request'[y].token, request'[y].resource)
        BY <1>9, IdleShape DEF MutationInv, AdmittedInv
    <2>2. Answer(q) = [name |-> Name(q.token, q.resource, q.key), by |-> q.token, resource |-> q.resource]
        BY DEF Answer
    <2>3. \A a \in stored' : \E t \in Tokens, p \in Resources, k \in Keys :
             Eligible(t, p) /\ a = [name |-> Name(t, p, k), by |-> t, resource |-> p]
        BY <1>1, <1>2, <2>2 DEF MutationInv, AdmittedInv
    <2>4. QED
        BY <2>1, <2>3 DEF AdmittedInv
<1>12. LockInv'
    <2> SUFFICES ASSUME NEW y \in Slots, request'[y].phase = "locked"
                 PROVE  /\ request'[y].expected = version'[request'[y].resource]
                        /\ \A z \in Slots :
                             request'[z].phase = "locked" /\ request'[z].resource = request'[y].resource
                                => z = y
        BY DEF LockInv
    <2>1. y # x /\ request'[y] = request[y] /\ request[y].phase = "locked"
        BY <1>9, IdleShape
    <2>2. request[y].resource \in Resources /\ request[y].resource # r
        BY <1>2, <1>4, <2>1, RequestShape DEF MutationInv
    <2>3. request[y].expected = version[request[y].resource]
        BY <2>1 DEF MutationInv, LockInv
    <2>4. \A z \in Slots : request'[z].phase = "locked" => request'[z] = request[z]
        BY <1>9, IdleShape
    <2>5. request'[y].expected = version'[request'[y].resource]
        BY <1>7, <2>1, <2>2, <2>3
    <2>6. ASSUME NEW z \in Slots, request'[z].phase = "locked",
                 request'[z].resource = request'[y].resource
          PROVE  z = y
        <3>1. request'[z] = request[z]
            BY <2>4, <2>6
        <3>2. request[z].phase = "locked" /\ request[z].resource = request[y].resource
            BY <2>1, <2>6, <3>1
        <3>3. QED
            BY <2>1, <3>2 DEF MutationInv, LockInv
    <2>7. QED
        BY <2>5, <2>6
<1>13. QED
    BY <1>7, <1>8, <1>10, <1>11, <1>12 DEF MutationInv

LEMMA UnrequestedKeeps ==
    ASSUME MutationInv, NEW r \in Resources, NEW by \in {"carbon", "provider"}, Unrequested(r, by)
    PROVE  MutationInv'
<1>1. /\ r[1] = "sso"
      /\ \A x \in Slots : request[x].phase = "locked" => request[x].resource # r
      /\ version' = [version EXCEPT ![r] = @ + 1]
      /\ UNCHANGED <<member, selected, proof, stored, request, sanctioned>>
    BY DEF Unrequested
<1>2. version'[r] = version[r] + 1
    BY <1>1 DEF MutationInv, MutationType
<1>3. /\ audited' = [audited EXCEPT ![r] =
            Append(@, [version |-> version[r] + 1, over |-> version[r], by |-> by])]
      /\ announced' = IF r[1] = "environment" THEN announced
                      ELSE [announced EXCEPT ![r] = Append(@, version[r] + 1)]
    BY <1>1, <1>2 DEF Unrequested
<1>4. by \in {"carbon", "silicon", "application", "provider"}
    OBVIOUS
<1>5. /\ version' \in [Resources -> Nat \ {0}]
      /\ announced' \in [Resources -> Seq(Nat)]
      /\ audited' \in [Resources -> Seq(Entry)]
      /\ \A p \in Resources : History(p, version'[p], audited'[p], announced'[p])
      /\ \A p \in Resources : p # r => version'[p] = version[p]
    BY <1>1, <1>3, <1>4, HistoriesGrow
<1>6. MutationType'
    BY <1>1, <1>5 DEF MutationInv, MutationType
<1>7. AdmittedInv' /\ ProofSpentOnce'
    BY <1>1 DEF MutationInv, AdmittedInv, ProofSpentOnce
<1>8. LockInv'
    <2> SUFFICES ASSUME NEW y \in Slots, request[y].phase = "locked"
                 PROVE  /\ request[y].expected = version'[request[y].resource]
                        /\ \A z \in Slots :
                             request[z].phase = "locked" /\ request[z].resource = request[y].resource
                                => z = y
        BY <1>1 DEF LockInv
    <2>1. request[y].resource \in Resources /\ request[y].resource # r
        BY <1>1, RequestShape DEF MutationInv
    <2>2. QED
        BY <1>5, <2>1 DEF MutationInv, LockInv
<1>9. QED
    BY <1>5, <1>6, <1>7, <1>8 DEF MutationInv

LEMMA ProveKeeps ==
    ASSUME MutationInv, NEW s \in Sessions, Prove(s)
    PROVE  MutationInv'
<1>1. PICK o \in Orgs :
        proof' = [proof EXCEPT ![s] = [number |-> @.number + 1, org |-> o, fresh |-> TRUE]]
    BY DEF Prove
<1>2. /\ ~proof[s].fresh
      /\ UNCHANGED <<member, selected, version, announced, audited, stored, request, sanctioned>>
    BY DEF Prove
<1>3. proof[s].number \in Nat /\ sanctioned[s] \in Nat
    BY DEF MutationInv, MutationType
<1> DEFINE p == [number |-> proof[s].number + 1, org |-> o, fresh |-> TRUE]
<1>4. /\ p \in [number : Nat, org : Orgs \cup {"none"}, fresh : BOOLEAN]
      /\ p.number = proof[s].number + 1
    BY <1>3
<1>5. proof' = [proof EXCEPT ![s] = p]
    BY <1>1
<1> HIDE DEF p
<1>6. /\ proof' \in [Sessions -> [number : Nat, org : Orgs \cup {"none"}, fresh : BOOLEAN]]
      /\ \A w \in Sessions : IF w = s THEN proof'[w] = p ELSE proof'[w] = proof[w]
    BY <1>4, <1>5 DEF MutationInv, MutationType
<1>7. MutationType'
    BY <1>2, <1>6 DEF MutationInv, MutationType
<1>8. AdmittedInv' /\ LockInv' /\ (\A r \in Resources : History(r, version[r], audited[r], announced[r]))'
    BY <1>2 DEF MutationInv, AdmittedInv, LockInv
<1>9. ProofSpentOnce'
    <2> SUFFICES ASSUME NEW w \in Sessions
                 PROVE  sanctioned[w] + (IF proof'[w].fresh THEN 1 ELSE 0) <= proof'[w].number
        BY <1>2 DEF ProofSpentOnce
    <2>1. CASE w = s
        <3>1. sanctioned[s] <= proof[s].number
            BY <1>2, <1>3 DEF MutationInv, ProofSpentOnce
        <3>2. (IF proof'[w].fresh THEN 1 ELSE 0) \in {0, 1}
            OBVIOUS
        <3>3. QED
            BY <1>3, <1>4, <1>6, <2>1, <3>1, <3>2
    <2>2. CASE w # s
        BY <1>6, <2>2 DEF MutationInv, ProofSpentOnce
    <2>3. QED
        BY <2>1, <2>2
<1>10. QED
    BY <1>7, <1>8, <1>9 DEF MutationInv

LEMMA EndAuthorityKeeps == MutationInv /\ EndAuthority => MutationInv'
<1> SUFFICES ASSUME MutationInv, EndAuthority PROVE MutationInv'
    OBVIOUS
<1>1. /\ UNCHANGED <<version, announced, audited, proof, stored, request, sanctioned>>
      /\ member' \subseteq Orgs /\ selected' \subseteq Orgs
    BY DEF EndAuthority, MutationInv, MutationType
<1>2. QED
    BY <1>1 DEF MutationInv, MutationType, AdmittedInv, LockInv, ProofSpentOnce

LEMMA MutationStep == MutationInv /\ [MutationNext]_mutationVars => MutationInv'
<1> SUFFICES ASSUME MutationInv, [MutationNext]_mutationVars PROVE MutationInv'
    OBVIOUS
<1>1. CASE \E x \in Slots : Begin(x) \/ Claim(x) \/ Lock(x) \/ Finish(x) \/ GiveUpRequest(x)
    BY <1>1, BeginKeeps, ClaimKeeps, LockKeeps, FinishKeeps, GiveUpKeeps
<1>2. CASE \E r \in Resources : ProviderChange(r) \/ BrowserChange(r)
    BY <1>2, UnrequestedKeeps DEF ProviderChange, BrowserChange
<1>3. CASE \E s \in Sessions : Prove(s)
    BY <1>3, ProveKeeps
<1>4. CASE EndAuthority
    BY <1>4, EndAuthorityKeeps
<1>5. CASE UNCHANGED mutationVars
    BY <1>5 DEF mutationVars, MutationInv, MutationType, AdmittedInv, LockInv, ProofSpentOnce
<1>6. QED
    BY <1>1, <1>2, <1>3, <1>4, <1>5 DEF MutationNext

THEOREM MutationInvariant == MutationSpec => []MutationInv
BY MutationInvInit, MutationStep, PTL DEF MutationSpec

\* A stored answer is confined to its actor and resource, every version has its audit
\* entry and event in order and over the version its author saw, and a step-up proof
\* sanctions one change: whatever requests, provider events and withdrawals interleave
\* between the steps of the handlers (organizations/support.rs, sso/support.rs).
THEOREM MutationSoundHolds == MutationSpec => []MutationSound
<1>1. MutationInv => ReplayConfined
    <2> SUFFICES ASSUME MutationInv, NEW x \in Slots, request[x].phase = "open",
                        NEW a \in StoredUnder(Name(request[x].token, request[x].resource, request[x].key))
                 PROVE  /\ a.resource = request[x].resource
                        /\ a.by.holder = request[x].token.holder
                        /\ "app" \in {a.by.via, request[x].token.via} =>
                             /\ a.by.via = request[x].token.via
                             /\ a.by.session = request[x].token.session
                             /\ a.by.scopes = request[x].token.scopes
        BY DEF ReplayConfined
    <2>1. /\ request[x].token \in Tokens /\ request[x].resource \in Resources
          /\ request[x].key \in Keys /\ Eligible(request[x].token, request[x].resource)
        BY RequestShape DEF MutationInv, AdmittedInv
    <2>2. PICK t \in Tokens, r \in Resources, k \in Keys :
            Eligible(t, r) /\ a = [name |-> Name(t, r, k), by |-> t, resource |-> r]
        BY DEF MutationInv, AdmittedInv, StoredUnder
    <2>3. Name(t, r, k) = Name(request[x].token, request[x].resource, request[x].key)
        BY <2>2 DEF StoredUnder
    <2>4. a.by = t /\ a.resource = r
        BY <2>2
    <2>5. QED
        BY <2>1, <2>2, <2>3, <2>4, NamesConfine
<1>2. MutationInv => HistoryComplete
    BY DEF MutationInv, HistoryComplete, History
<1>3. MutationInv => MutationSound
    BY <1>1, <1>2 DEF MutationInv, MutationSound
<1>4. QED
    BY <1>3, MutationInvariant, PTL

----------------------------------------------------------------------------
BundleType ==
        /\ scopeVersion \in [BundleApps -> Nat]
    /\ DOMAIN granted = BundleApps
    /\ DOMAIN handoff = Handoffs

\* An open handoff has issued for the least of its applications, each on the scopes,
\* the standing and the memberships that still hold, and for a bundle that has not
\* changed; its key is unanswered.
Sound(h) ==
    /\ h \in [body : Bodies, key : HandoffKeys, todo : SUBSET BundleApps, done : SUBSET BundleApps]
    /\ h.todo \cup h.done = ToSet(h.body.apps)
    /\ \A x \in h.done, y \in h.todo : x < y
    /\ h.done \subseteq verified
    /\ \A a \in h.done : h.body.versions[a] = scopeVersion[a]
    /\ h.done # {} => h.body.homes \subseteq homes
    /\ h.body.via = "bundle" =>
         bundle.exists /\ listed /\ ToSet(h.body.apps) = bundle.members
    /\ h.key \notin answered

\* Two open handoffs have different keys and hold different consents.
Apart(g, h) == g.key # h.key /\ g.done \cap h.done = {}

BundleInv ==
    /\ BundleType
    /\ \A r \in Open : Sound(handoff[r])
    /\ \A r, q \in Open : r # q => Apart(handoff[r], handoff[q])
    /\ \A t \in issued : t.key \in answered

----------------------------------------------------------------------------
LEMMA BodyFacts ==
    ASSUME NEW body \in Bodies
    PROVE  /\ ToSet(body.apps) \subseteq BundleApps
           /\ ToSet(body.apps) # {}
<1>1. PICK apps \in Selections : body \in BodiesOf(apps)
  BY DEF Bodies
<1>2. body.apps = apps
  BY <1>1 DEF BodiesOf, Body
<1>3. apps \in SeqOf(BundleApps, Cardinality(BundleApps)) /\ apps # <<>>
  BY DEF Selections, BoundedSeq
<1>4. PICK n \in 0 .. Cardinality(BundleApps) : apps \in [1 .. n -> BundleApps]
  BY <1>3 DEF SeqOf
<1>5. n # 0
  <2>1. SUFFICES ASSUME n = 0 PROVE FALSE
    OBVIOUS
  <2>2. apps = <<>>
    BY <1>4, <2>1
  <2> QED BY <2>2, <1>3
<1>6. 1 \in 1 .. n
  BY <1>5
<1> QED BY <1>2, <1>4, <1>6 DEF ToSet

LEMMA BundleInitial == BundleInit => BundleInv
<1> SUFFICES ASSUME BundleInit PROVE BundleInv
  OBVIOUS
<1>1. Open = {}
  BY DEF BundleInit, Open
<1>2. BundleType
  BY DEF BundleInit, BundleType
<1>3. issued = {}
  BY DEF BundleInit
<1> QED BY <1>1, <1>2, <1>3 DEF BundleInv

\* A step that leaves the handoffs alone keeps the invariant when it keeps the types,
\* and what every open handoff relies on.
LEMMA AroundHandoffs ==
    ASSUME BundleInv, BundleType', UNCHANGED <<issued, answered, handoff>>,
           \A r \in Open :
             /\ handoff[r].done \subseteq verified'
             /\ \A a \in handoff[r].done : scopeVersion'[a] = scopeVersion[a]
             /\ handoff[r].done # {} => handoff[r].body.homes \cap homes \subseteq homes'
             /\ handoff[r].body.via = "bundle" => UNCHANGED <<bundle, listed>>
    PROVE  BundleInv'
<1>1. Open' = Open /\ handoff' = handoff /\ issued' = issued /\ answered' = answered
  BY DEF Open
<1>2. ASSUME NEW r \in Open PROVE Sound(handoff[r])'
  <2>1. Sound(handoff[r])
    BY DEF BundleInv
  <2> QED BY <2>1, <1>1 DEF Sound
<1>3. \A r, q \in Open : r # q => Apart(handoff[r], handoff[q])
  BY DEF BundleInv
<1> QED BY <1>1, <1>2, <1>3 DEF BundleInv, Apart

LEMMA StartStep ==
    ASSUME BundleInv, NEW r \in Handoffs, NEW k \in HandoffKeys, NEW body \in Bodies,
           Start(r, k, body)
    PROVE  BundleInv'
<1> DEFINE new == [body |-> body, key |-> k, todo |-> ToSet(body.apps), done |-> {}]
<1>1. ToSet(body.apps) \subseteq BundleApps /\ ToSet(body.apps) # {}
  BY BodyFacts
<1>2. /\ r \notin Open
      /\ handoff' = [handoff EXCEPT ![r] = new]
      /\ UNCHANGED <<bundle, listed, verified, scopeVersion, homes, granted, issued, answered>>
      /\ body.via = "bundle" => bundle.exists /\ listed /\ ToSet(body.apps) = bundle.members
      /\ k \notin answered
      /\ \A q \in Open : handoff[q].key # k
  BY DEF Start, BundleOpen, MembersMatch, KeyFree
<1>3. DOMAIN handoff = Handoffs /\ BundleType'
  BY <1>2 DEF BundleInv, BundleType
<1>4. handoff'[r] = new /\ \A q \in Handoffs \ {r} : handoff'[q] = handoff[q]
  BY <1>2, <1>3
<1>5. Open' \subseteq Open \cup {r}
  BY <1>4 DEF Open
<1>6. Sound(new)'
  BY <1>1, <1>2 DEF Sound
<1>7. ASSUME NEW q \in Open' PROVE Sound(handoff[q])'
  <2>1. CASE q = r
    BY <2>1, <1>4, <1>6 DEF Sound
  <2>2. CASE q # r
    <3>1. q \in Open /\ handoff'[q] = handoff[q] /\ Sound(handoff[q])
      BY <2>2, <1>4, <1>5 DEF BundleInv, Open
    <3> QED BY <3>1, <1>2 DEF Sound
  <2> QED BY <2>1, <2>2
<1>8. ASSUME NEW p \in Open', NEW q \in Open', p # q PROVE Apart(handoff'[p], handoff'[q])
  <2>1. CASE p = r
    BY <2>1, <1>2, <1>4, <1>5, <1>8 DEF Apart, Open
  <2>2. CASE q = r
    BY <2>2, <1>2, <1>4, <1>5, <1>8 DEF Apart, Open
  <2>3. CASE p # r /\ q # r
    BY <2>3, <1>4, <1>5, <1>8 DEF BundleInv, Open
  <2> QED BY <2>1, <2>2, <2>3
<1>9. \A t \in issued' : t.key \in answered'
  BY <1>2 DEF BundleInv
<1> HIDE DEF new
<1> QED BY <1>3, <1>7, <1>8, <1>9 DEF BundleInv, Apart

LEMMA IssueNextStep ==
    ASSUME BundleInv, NEW r \in Handoffs, NEW a \in BundleApps, IssueNext(r, a)
    PROVE  BundleInv'
<1> DEFINE h == handoff[r]
           new == [h EXCEPT !.todo = @ \ {a}, !.done = @ \cup {a}]
<1>1. /\ r \in Open
      /\ a \in h.todo /\ \A b \in h.todo : a <= b
      /\ \A q \in Open \ {r} : a \notin handoff[q].done
      /\ a \in verified /\ h.body.versions[a] = scopeVersion[a] /\ h.body.homes \subseteq homes
      /\ UNCHANGED <<bundle, listed, verified, scopeVersion, homes, granted, issued, answered>>
  BY DEF IssueNext, IsNext, ConsentFree, Consentable
<1>2. Sound(h) /\ DOMAIN handoff = Handoffs
  BY <1>1 DEF BundleInv, BundleType
<1>3. handoff' = [handoff EXCEPT ![r] = new]
  BY <1>2 DEF IssueNext
<1>4. BundleType'
  BY <1>1, <1>2, <1>3 DEF BundleInv, BundleType
<1>5. handoff'[r] = new /\ \A q \in Handoffs \ {r} : handoff'[q] = handoff[q]
  BY <1>2, <1>3
<1>6. /\ handoff'[r].body = h.body /\ handoff'[r].key = h.key
      /\ handoff'[r].todo = h.todo \ {a} /\ handoff'[r].done = h.done \cup {a}
      /\ handoff'[r] \in [body : Bodies, key : HandoffKeys, todo : SUBSET BundleApps, done : SUBSET BundleApps]
  <2>1. h \in [body : Bodies, key : HandoffKeys, todo : SUBSET BundleApps, done : SUBSET BundleApps]
    BY <1>2 DEF Sound
  <2>2. handoff'[r] = [h EXCEPT !.todo = @ \ {a}, !.done = @ \cup {a}]
    BY <1>5
  <2> HIDE DEF h
  <2> QED BY <2>1, <2>2
<1>7. Open' \subseteq Open
  BY <1>1, <1>5 DEF Open
<1>8. Sound(handoff[r])'
  <2>1. \A x \in handoff'[r].done, y \in handoff'[r].todo : x < y
    <3>1. \A y \in h.todo : y \in Nat
      BY <1>2, BundleAssumption DEF Sound
    <3> QED BY <1>1, <1>2, <1>6, <3>1 DEF Sound
  <2>2. \A b \in handoff'[r].done : handoff'[r].body.versions[b] = scopeVersion[b]
    BY <1>1, <1>2, <1>6 DEF Sound
  <2>3. handoff'[r].todo \cup handoff'[r].done = ToSet(handoff'[r].body.apps)
    BY <1>1, <1>2, <1>6 DEF Sound
  <2> QED BY <1>1, <1>2, <1>6, <2>1, <2>2, <2>3 DEF Sound
<1>9. ASSUME NEW q \in Open' PROVE Sound(handoff[q])'
  <2>1. CASE q = r
    BY <2>1, <1>8 DEF Sound
  <2>2. CASE q # r
    <3>1. q \in Open /\ handoff'[q] = handoff[q] /\ Sound(handoff[q])
      BY <2>2, <1>5, <1>7 DEF BundleInv, Open
    <3> QED BY <3>1, <1>1 DEF Sound
  <2> QED BY <2>1, <2>2
<1>10. ASSUME NEW p \in Open', NEW q \in Open', p # q PROVE Apart(handoff'[p], handoff'[q])
  <2>1. Apart(handoff[p], handoff[q]) /\ p \in Open /\ q \in Open
    BY <1>7, <1>10 DEF BundleInv
  <2>2. CASE p = r
    BY <2>1, <2>2, <1>1, <1>5, <1>6, <1>10 DEF Apart, Open
  <2>3. CASE q = r
    BY <2>1, <2>3, <1>1, <1>5, <1>6, <1>10 DEF Apart, Open
  <2>4. CASE p # r /\ q # r
    BY <2>1, <2>4, <1>5 DEF Open
  <2> QED BY <2>2, <2>3, <2>4
<1>11. \A t \in issued' : t.key \in answered'
  BY <1>1 DEF BundleInv
<1> QED BY <1>4, <1>9, <1>10, <1>11 DEF BundleInv, Apart

\* A handoff that ends leaves the others as they are.
LEMMA EndStep ==
    ASSUME BundleInv, NEW r \in Open,
           handoff' = [handoff EXCEPT ![r] = NotOpen],
           UNCHANGED <<bundle, listed, verified, scopeVersion, homes>>,
           DOMAIN granted' = BundleApps,
           answered' \subseteq answered \cup {handoff[r].key},
           \A t \in issued' : t.key \in answered'
    PROVE  BundleInv'
<1>1. DOMAIN handoff = Handoffs /\ BundleType'
  BY DEF BundleInv, BundleType
<1>2. r \in Handoffs /\ handoff'[r] = NotOpen /\ \A q \in Handoffs \ {r} : handoff'[q] = handoff[q]
  BY <1>1 DEF Open
<1>3. Open' \subseteq Open \ {r}
  BY <1>2 DEF Open, NotOpen
<1>4. ASSUME NEW q \in Open' PROVE Sound(handoff[q])'
  <2>1. q \in Open /\ q # r /\ handoff'[q] = handoff[q] /\ Sound(handoff[q])
    BY <1>2, <1>3 DEF BundleInv, Open
  <2>2. Apart(handoff[q], handoff[r])
    BY <2>1 DEF BundleInv
  <2> QED BY <2>1, <2>2 DEF Sound, Apart
<1>5. ASSUME NEW p \in Open', NEW q \in Open', p # q PROVE Apart(handoff'[p], handoff'[q])
  BY <1>2, <1>3, <1>5 DEF BundleInv, Open
<1> QED BY <1>1, <1>4, <1>5 DEF BundleInv, Apart

LEMMA BundleStep == BundleInv /\ [BundleNext]_bundleVars => BundleInv'
<1> SUFFICES ASSUME BundleInv, [BundleNext]_bundleVars PROVE BundleInv'
  OBVIOUS
<1>1. ASSUME NEW r \in Handoffs, NEW k \in HandoffKeys, NEW body \in Bodies, Start(r, k, body)
      PROVE  BundleInv'
  BY <1>1, StartStep
<1>2. ASSUME NEW r \in Handoffs, NEW a \in BundleApps, IssueNext(r, a) PROVE BundleInv'
  BY <1>2, IssueNextStep
<1>3. ASSUME NEW r \in Handoffs, GiveUp(r) PROVE BundleInv'
  <2>1. DOMAIN granted' = BundleApps
    BY <1>3 DEF GiveUp, BundleInv, BundleType
  <2>2. \A t \in issued' : t.key \in answered'
    BY <1>3 DEF GiveUp, BundleInv
  <2> QED BY <1>3, <2>1, <2>2, EndStep DEF GiveUp
<1>4. ASSUME NEW r \in Handoffs, Commit(r) PROVE BundleInv'
  <2>1. /\ r \in Open /\ handoff' = [handoff EXCEPT ![r] = NotOpen]
        /\ UNCHANGED <<bundle, listed, verified, scopeVersion, homes>>
        /\ DOMAIN granted' = BundleApps
        /\ issued' = issued \cup {[key |-> handoff[r].key, app |-> a] : a \in handoff[r].done}
        /\ answered' = answered \cup {handoff[r].key}
    BY <1>4 DEF Commit
  <2>2. \A t \in issued' : t.key \in answered'
    BY <2>1 DEF BundleInv
  <2> QED BY <2>1, <2>2, EndStep
<1>5. ASSUME NEW a \in BundleApps, Reconfigure(a) PROVE BundleInv'
  <2>1. BundleType'
    BY <1>5 DEF Reconfigure, BundleInv, BundleType
  <2>2. \A b \in BundleApps \ {a} : scopeVersion'[b] = scopeVersion[b]
    BY <1>5 DEF Reconfigure, BundleInv, BundleType
  <2>3. ASSUME NEW r \in Open
        PROVE  handoff[r].done \subseteq verified /\ handoff[r].done \subseteq BundleApps \ {a}
    BY <1>5, <2>3 DEF Reconfigure, AppFree, BundleInv, Sound
  <2> QED BY <1>5, <2>1, <2>2, <2>3, AroundHandoffs DEF Reconfigure
<1>6. ASSUME NEW a \in BundleApps, SuspendMember(a) PROVE BundleInv'
  <2>1. BundleType'
    BY <1>6 DEF SuspendMember, BundleInv, BundleType
  <2>2. ASSUME NEW r \in Open PROVE handoff[r].done \subseteq verified'
    BY <1>6, <2>2 DEF SuspendMember, AppFree, BundleInv, Sound
  <2> QED BY <1>6, <2>1, <2>2, AroundHandoffs DEF SuspendMember
<1>7. ASSUME NEW o \in Homes, LoseHome(o) PROVE BundleInv'
  <2>1. BundleType'
    BY <1>7 DEF LoseHome, BundleInv, BundleType
  <2>2. ASSUME NEW r \in Open
        PROVE  /\ handoff[r].done \subseteq verified
               /\ handoff[r].done # {} => handoff[r].body.homes \cap homes \subseteq homes'
    BY <1>7, <2>2 DEF LoseHome, BundleInv, Sound
  <2> QED BY <1>7, <2>1, <2>2, AroundHandoffs DEF LoseHome
<1>8. CASE EditBundle \/ DeleteBundle \/ Unlist
  <2>1. BundleType'
    BY <1>8 DEF EditBundle, DeleteBundle, Unlist, BundleInv, BundleType
  <2>2. ASSUME NEW r \in Open
        PROVE  handoff[r].done \subseteq verified /\ handoff[r].body.via # "bundle"
    BY <1>8, <2>2 DEF EditBundle, DeleteBundle, Unlist, Editable, BundleFree, BundleInv, Sound
  <2> QED BY <1>8, <2>1, <2>2, AroundHandoffs DEF EditBundle, DeleteBundle, Unlist
<1>9. CASE UNCHANGED bundleVars
  <2>1. BundleType'
    BY <1>9 DEF bundleVars, BundleInv, BundleType
  <2>2. \A r \in Open : handoff[r].done \subseteq verified
    BY DEF BundleInv, Sound
  <2> QED BY <1>9, <2>1, <2>2, AroundHandoffs DEF bundleVars
<1> QED BY <1>1, <1>2, <1>3, <1>4, <1>5, <1>6, <1>7, <1>8, <1>9 DEF BundleNext

THEOREM BundleInvariant == BundleSpec => []BundleInv
BY BundleInitial, BundleStep, PTL DEF BundleSpec

\* What a commit issues is all new, for its key was unanswered.
LEMMA CommitWhole ==
    ASSUME BundleInv, NEW r \in Handoffs, Commit(r) PROVE HandoffWholeStep
<1> DEFINE h == handoff[r]
           fresh == {[key |-> h.key, app |-> a] : a \in h.done}
<1>1. /\ r \in Open /\ h.todo = {}
      /\ issued' = issued \cup fresh
      /\ handoff' = [handoff EXCEPT ![r] = NotOpen]
  BY DEF Commit
<1>2. Sound(h) /\ DOMAIN handoff = Handoffs
  BY <1>1 DEF BundleInv, BundleType
<1>3. h.done = ToSet(h.body.apps) /\ h.done # {}
  BY <1>1, <1>2, BodyFacts DEF Sound
<1>4. issued' \ issued = fresh
  <2>1. h.key \notin answered /\ \A t \in issued : t.key \in answered
    BY <1>2 DEF BundleInv, Sound
  <2>2. \A t \in fresh : t.key = h.key
    OBVIOUS
  <2>3. fresh \cap issued = {}
    BY <2>1, <2>2
  <2> QED BY <2>3, <1>1
<1>5. {t.app : t \in issued' \ issued} = h.done
  <2>1. \A a \in h.done : [key |-> h.key, app |-> a] \in fresh
    OBVIOUS
  <2>2. \A a \in h.done : a \in {t.app : t \in fresh}
    <3> SUFFICES ASSUME NEW a \in h.done PROVE \E t \in fresh : t.app = a
      OBVIOUS
    <3>1. [key |-> h.key, app |-> a].app = a
      OBVIOUS
    <3> QED BY <2>1, <3>1
  <2>3. \A t \in fresh : t.app \in h.done
    OBVIOUS
  <2>4. {t.app : t \in fresh} = h.done
    <3> HIDE DEF fresh, h
    <3> QED BY <2>2, <2>3
  <2> QED BY <2>4, <1>4
<1>6. ASSUME NEW q \in Open, handoff'[q] = NotOpen PROVE q = r
  BY <1>1, <1>2, <1>6 DEF Open
<1>7. /\ h.done = ToSet(h.body.apps)
      /\ h.body.via = "bundle" => h.done = bundle.members /\ bundle.exists /\ listed
      /\ h.done \subseteq verified
      /\ \A a \in h.done : h.body.versions[a] = scopeVersion[a]
      /\ h.body.homes \subseteq homes
  BY <1>2, <1>3 DEF Sound
<1> QED BY <1>5, <1>6, <1>7 DEF HandoffWholeStep

LEMMA HandoffWholeHolds == BundleInv /\ [BundleNext]_bundleVars => [HandoffWholeStep]_bundleVars
<1> SUFFICES ASSUME BundleInv, BundleNext PROVE HandoffWholeStep
  OBVIOUS
<1>1. ASSUME NEW r \in Handoffs, Commit(r) PROVE HandoffWholeStep
  BY <1>1, CommitWhole
<1>2. CASE issued' = issued
  BY <1>2 DEF HandoffWholeStep
<1> QED BY <1>1, <1>2 DEF BundleNext, Start, IssueNext, GiveUp, Reconfigure, SuspendMember,
                         LoseHome, EditBundle, DeleteBundle, Unlist

LEMMA GrantsKeptHolds == BundleInv /\ [BundleNext]_bundleVars => [GrantsKeptStep]_bundleVars
<1> SUFFICES ASSUME BundleInv, BundleNext, NEW a \in BundleApps, granted[a].on, a \in verified'
             PROVE  granted[a].homes \subseteq granted'[a].homes
  BY DEF GrantsKeptStep
<1>1. ASSUME NEW r \in Handoffs, Commit(r) PROVE granted[a].homes \subseteq granted'[a].homes
  BY <1>1 DEF Commit, Union
<1>2. ASSUME NEW b \in BundleApps, SuspendMember(b)
      PROVE  granted[a].homes \subseteq granted'[a].homes
  BY <1>2 DEF SuspendMember, BundleInv, BundleType
<1>3. CASE granted' = granted
  BY <1>3
<1> QED BY <1>1, <1>2, <1>3 DEF BundleNext, Start, IssueNext, GiveUp, Reconfigure, LoseHome,
                               EditBundle, DeleteBundle, Unlist

\* Whoever waits for another wants a later application than any it holds.
LEMMA NoReversedWaitHolds == BundleInv => NoReversedWait
<1> SUFFICES ASSUME BundleInv, NEW r \in Open, NEW q \in Open,
                    NEW a \in BundleApps, IsNext(r, a), a \in handoff[q].done,
                    NEW b \in BundleApps, IsNext(q, b), b \in handoff[r].done
             PROVE  FALSE
  BY DEF NoReversedWait, WaitsFor
<1>1. a < b /\ b < a
  BY DEF BundleInv, Sound, IsNext
<1> QED BY <1>1, BundleAssumption

\* BundleLogin: whatever the number of applications, homes and handoffs, a handoff
\* issues for the whole bundle of the moment it commits or for nothing, takes no
\* organization from a login beside it, and never waits in a circle.
THEOREM BundleSoundHolds == BundleSpec => BundleSound
BY BundleInvariant, HandoffWholeHolds, GrantsKeptHolds, NoReversedWaitHolds, PTL
   DEF BundleSound, HandoffWhole, GrantsKept, BundleSpec

----------------------------------------------------------------------------
(* Pages of a list *)

ListingRows == [status : {"absent", "active", "ended"}, at : Nat]

ListingShape ==
    /\ listing.order \in {"id", "time"}
    /\ listing.cursor \in {"id", "pair", "lookup"}
    /\ listing.order = "id" => listing.cursor = "id"
    /\ listing.order = "time" => listing.cursor # "id"
    /\ listing.stop \in {"short", "not full", "empty"}
    /\ listing.shows \subseteq {"active", "ended"}
    /\ listing.renews => listing.shows = {"active"}
    /\ table \in [Rows -> ListingRows]
    /\ now \in Nat
    /\ pager \in [at : {"idle", "reading", "done", "refused"},
                  cursor : [id : Rows \cup {0}, at : Nat],
                  count : [Rows -> Nat], kept : SUBSET Rows]

\* A row that stayed has been given when the cursor has passed it.
Given(i) ==
    LET passed == ~After(i, Resolved(pager.cursor)) IN
    /\ passed => pager.count[i] >= 1
    /\ listing.cursor # "lookup" => pager.count[i] = IF passed THEN 1 ELSE 0

ListingInv ==
    /\ ListingShape
    /\ \A i \in Rows : table[i].at <= now
    /\ pager.kept \subseteq Shown(table)
    /\ pager.at = "idle" => pager = NoPager
    /\ pager.cursor.id # 0 => table[pager.cursor.id].status # "absent"
    /\ pager.at = "reading" => \A i \in pager.kept : Given(i)
    /\ ListedOnce

LEMMA RowNumbers == \A i \in Rows : i \in Nat /\ i # 0
  BY ListingAssumption

\* The order of a statement is strict and total.
LEMMA OrderStrict ==
    ASSUME ListingShape, NEW i \in Rows, NEW j \in Rows, NEW k \in Rows
    PROVE  /\ ~Before(i, i)
           /\ Before(i, j) /\ Before(j, k) => Before(i, k)
           /\ i = j \/ Before(i, j) \/ Before(j, i)
  <1>1. i \in Nat /\ j \in Nat /\ k \in Nat
    BY ListingAssumption
  <1>2. table[i].at \in Nat /\ table[j].at \in Nat /\ table[k].at \in Nat
    BY DEF ListingShape, ListingRows
  <1> QED BY <1>1, <1>2 DEF Before

\* The cursor's condition selects what comes after the row it was made from.
LEMMA AfterCursor ==
    ASSUME ListingShape, NEW i \in Rows, NEW m \in Rows
    PROVE  After(i, CursorOf(m)) <=> Before(m, i)
  <1>1. i \in Nat /\ m \in Nat /\ m # 0
    BY ListingAssumption
  <1>2. table[i].at \in Nat /\ table[m].at \in Nat
    BY DEF ListingShape, ListingRows
  <1> QED BY <1>1, <1>2 DEF Before, After, CursorOf

\* What is not after a cursor is before everything that is.
LEMMA AfterApart ==
    ASSUME ListingShape, NEW c \in [id : Rows \cup {0}, at : Nat],
           NEW i \in Rows, NEW j \in Rows, ~After(i, c), After(j, c)
    PROVE  Before(i, j)
  <1>0. c.id \in Rows \cup {0} /\ c.at \in Nat
    OBVIOUS
  <1>1. i \in Nat /\ j \in Nat /\ c.id \in Nat /\ c.at \in Nat
    BY <1>0, RowNumbers
  <1>2. table[i].at \in Nat /\ table[j].at \in Nat
    BY DEF ListingShape, ListingRows
  <1> QED BY <1>1, <1>2 DEF Before, After

LEMMA RowsFinite ==
    ASSUME NEW S \in SUBSET Rows
    PROVE  IsFiniteSet(S) /\ Cardinality(S) \in Nat
  BY ListingAssumption, FS_Subset, FS_CardinalityType

LEMMA Fewer ==
    ASSUME NEW S \in SUBSET Rows, NEW T \in SUBSET S, T # S
    PROVE  Cardinality(T) < Cardinality(S)
  <1>1. IsFiniteSet(S) /\ T \in SUBSET Rows
    BY RowsFinite
  <1>2. Cardinality(T) <= Cardinality(S) /\ Cardinality(S) # Cardinality(T)
    BY <1>1, FS_Subset
  <1> QED BY <1>1, <1>2, RowsFinite

\* Of some rows, one has the fewest before it.
LEMMA LeastRow ==
    ASSUME ListingShape, NEW S \in SUBSET Rows, S # {}
    PROVE  \E m \in S : \A j \in S : ~Before(j, m)
  <1> DEFINE Rank(i) == Cardinality({j \in S : Before(j, i)})
             R == {Rank(i) : i \in S}
  <1>1. \A i \in S : Rank(i) \in Nat
    BY RowsFinite
  <1>2. R \subseteq Nat /\ R # {}
    BY <1>1
  <1> HIDE DEF R
  <1>3. PICK d \in R : \A e \in R : ~ (<<e, d>> \in OpToRel(<, Nat))
    BY <1>2, NatLessThanWellFounded, WFMin
  <1>4. \A e \in R : ~ (e < d)
    BY <1>2, <1>3 DEF OpToRel
  <1>5. PICK m \in S : d = Rank(m)
    BY <1>3 DEF R
  <1>6. ASSUME NEW j \in S, Before(j, m) PROVE FALSE
    <2>1. {k \in S : Before(k, j)} \subseteq {k \in S : Before(k, m)}
      BY <1>6, OrderStrict
    <2>2. j \in {k \in S : Before(k, m)} /\ j \notin {k \in S : Before(k, j)}
      BY <1>6, OrderStrict
    <2>3. Rank(j) < Rank(m)
      BY <2>1, <2>2, Fewer
    <2> QED BY <1>4, <1>5, <2>3 DEF R
  <1> QED BY <1>6

\* Of some rows, one has the fewest after it.
LEMMA GreatestRow ==
    ASSUME ListingShape, NEW S \in SUBSET Rows, S # {}
    PROVE  \E m \in S : \A j \in S : m = j \/ Before(j, m)
  <1> DEFINE Rank(i) == Cardinality({j \in S : Before(i, j)})
             R == {Rank(i) : i \in S}
  <1>1. \A i \in S : Rank(i) \in Nat
    BY RowsFinite
  <1>2. R \subseteq Nat /\ R # {}
    BY <1>1
  <1> HIDE DEF R
  <1>3. PICK d \in R : \A e \in R : ~ (<<e, d>> \in OpToRel(<, Nat))
    BY <1>2, NatLessThanWellFounded, WFMin
  <1>4. \A e \in R : ~ (e < d)
    BY <1>2, <1>3 DEF OpToRel
  <1>5. PICK m \in S : d = Rank(m)
    BY <1>3 DEF R
  <1>6. ASSUME NEW j \in S, Before(m, j) PROVE FALSE
    <2>1. {k \in S : Before(j, k)} \subseteq {k \in S : Before(m, k)}
      BY <1>6, OrderStrict
    <2>2. j \in {k \in S : Before(m, k)} /\ j \notin {k \in S : Before(j, k)}
      BY <1>6, OrderStrict
    <2>3. Rank(j) < Rank(m)
      BY <2>1, <2>2, Fewer
    <2> QED BY <1>4, <1>5, <2>3 DEF R
  <1> QED BY <1>6, OrderStrict

\* The first rows of some: nothing before them is left out; they are n at most, and
\* fewer only if there are no more.
LEMMA FirstRows ==
    ASSUME ListingShape, NEW S \in SUBSET Rows, NEW n \in Nat
    PROVE  /\ FirstOf(n, S) \in SUBSET S /\ FirstOf(n, S) \in SUBSET Rows
           /\ \A i \in FirstOf(n, S), j \in S : Before(j, i) => j \in FirstOf(n, S)
           /\ FirstOf(n, S) # S => Cardinality(FirstOf(n, S)) >= n
           /\ Cardinality(FirstOf(n, S)) <= n
  <1> DEFINE T == FirstOf(n, S)
             Earlier(i) == {j \in S : Before(j, i)}
  <1>1. T \in SUBSET S /\ T \in SUBSET Rows /\ \A i \in S : i \in T <=> Cardinality(Earlier(i)) < n
    BY DEF FirstOf
  <1>2. ASSUME NEW i \in T, NEW j \in S, Before(j, i) PROVE j \in T
    <2>1. Earlier(j) \subseteq Earlier(i) /\ j \in Earlier(i) /\ j \notin Earlier(j)
      BY <1>1, <1>2, OrderStrict
    <2>2. Cardinality(Earlier(j)) < Cardinality(Earlier(i))
      BY <2>1, Fewer
    <2>3. Cardinality(Earlier(j)) \in Nat /\ Cardinality(Earlier(i)) \in Nat
      BY RowsFinite
    <2> QED BY <1>1, <1>2, <2>2, <2>3
  <1>3. ASSUME T # S PROVE Cardinality(T) >= n
    <2>1. PICK m \in S \ T : \A j \in S \ T : ~Before(j, m)
      BY <1>1, <1>3, LeastRow
    <2>2. Earlier(m) \subseteq T
      BY <2>1
    <2>3. Cardinality(Earlier(m)) <= Cardinality(T)
      BY <1>1, <2>2, RowsFinite, FS_Subset
    <2>4. Cardinality(Earlier(m)) \in Nat /\ Cardinality(T) \in Nat /\ Cardinality(Earlier(m)) >= n
      BY <1>1, <2>1, RowsFinite
    <2> QED BY <2>3, <2>4
  <1>4. Cardinality(T) <= n
    <2>1. CASE T = {}
      BY <2>1, FS_EmptySet
    <2>2. CASE T # {}
      <3>1. PICK m \in T : \A j \in T : m = j \/ Before(j, m)
        BY <1>1, <2>2, GreatestRow
      <3>2. T \ {m} \subseteq Earlier(m)
        BY <1>1, <3>1
      <3>3. Cardinality(T \ {m}) <= Cardinality(Earlier(m))
        BY <3>2, RowsFinite, FS_Subset
      <3>4. IsFiniteSet(T) /\ Cardinality(T) \in Nat
        BY <1>1, RowsFinite
      <3>5. Cardinality(T \ {m}) = Cardinality(T) - 1
        BY <3>1, <3>4, FS_RemoveElement
      <3>6. Cardinality(Earlier(m)) \in Nat /\ Cardinality(Earlier(m)) < n
        BY <1>1, <3>1, RowsFinite
      <3> QED BY <3>3, <3>4, <3>5, <3>6
    <2> QED BY <2>1, <2>2
  <1> HIDE DEF T, Earlier
  <1>5. /\ T \in SUBSET S /\ T \in SUBSET Rows
        /\ \A i \in T, j \in S : Before(j, i) => j \in T
        /\ T # S => Cardinality(T) >= n
        /\ Cardinality(T) <= n
    BY <1>1, <1>2, <1>3, <1>4
  <1> QED BY <1>5 DEF T

\* What a page keeps of the rows after the cursor: all that is before a row it keeps, and
\* everything if there is no more.
LEMMA PageKept ==
    ASSUME ListingShape, NEW c
    PROVE  LET found == {i \in Shown(table) : After(i, c)}
               page == Taken(Fetched(c))
           IN /\ page \subseteq found /\ page \in SUBSET Rows
              /\ \A i \in page, j \in found : Before(j, i) => j \in page
              /\ ~HasMore(Fetched(c)) => page = found
              /\ HasMore(Fetched(c)) => page # {}
  <1> DEFINE found == {i \in Shown(table) : After(i, c)}
             most == IF listing.stop = "short" THEN PageSize + 1 ELSE PageSize
             P == Fetched(c)
             T == Taken(P)
  <1>0. PageSize \in Nat /\ PageSize > 0 /\ most \in Nat /\ most > 0
    BY ListingAssumption
  <1>1. found \in SUBSET Rows
    BY DEF Shown
  <1>m. most = IF listing.stop = "short" THEN PageSize + 1 ELSE PageSize
    OBVIOUS
  <1>2. P = FirstOf(most, found) /\ T = FirstOf(PageSize, P)
    BY DEF Fetched, Taken
  <1> HIDE DEF found, most, P, T
  <1>3. /\ P \in SUBSET found /\ P \in SUBSET Rows
        /\ \A i \in P, j \in found : Before(j, i) => j \in P
        /\ P # found => Cardinality(P) >= most
        /\ Cardinality(P) <= most
    BY <1>0, <1>1, <1>2, FirstRows
  <1>4. /\ T \in SUBSET P /\ T \in SUBSET Rows
        /\ \A i \in T, j \in P : Before(j, i) => j \in T
        /\ T # P => Cardinality(T) >= PageSize
    BY <1>0, <1>2, <1>3, FirstRows
  <1>5. /\ Cardinality(P) \in Nat /\ Cardinality(T) \in Nat
        /\ T # P => Cardinality(T) < Cardinality(P)
    BY <1>3, <1>4, RowsFinite, Fewer
  <1>6. \A S \in SUBSET Rows : Cardinality(S) = 0 <=> S = {}
    BY RowsFinite, FS_EmptySet
  <1>7. ASSUME ~HasMore(P) PROVE T = found
    <2>1. CASE listing.stop = "short"
      <3>1. Cardinality(P) <= PageSize
        BY <1>0, <1>5, <1>7, <2>1 DEF HasMore
      <3>2. P = found
        BY <1>0, <1>3, <1>5, <2>1, <3>1 DEF most
      <3> QED BY <1>0, <1>4, <1>5, <3>1, <3>2
    <2>2. CASE listing.stop = "not full"
      <3>1. Cardinality(P) < PageSize
        <4>1. Cardinality(P) # PageSize
          BY <1>7, <2>2 DEF HasMore
        <4>2. most = PageSize
          BY <1>m, <2>2
        <4> QED BY <1>0, <1>3, <1>5, <4>1, <4>2
      <3>a. most = PageSize
        BY <1>m, <2>2
      <3>2. P = found
        BY <1>0, <1>3, <1>5, <3>a, <3>1
      <3> QED BY <1>0, <1>4, <1>5, <3>1, <3>2
    <2>3. CASE listing.stop = "empty"
      <3>1. P = {}
        BY <1>7, <2>3 DEF HasMore
      <3>2. P = found
        BY <1>0, <1>3, <1>5, <1>6, <3>1
      <3> QED BY <1>4, <3>1, <3>2
    <2> QED BY <2>1, <2>2, <2>3 DEF ListingShape
  <1>8. ASSUME HasMore(P) PROVE T # {}
    <2>1. P # {}
      <3>1. CASE listing.stop = "short"
        BY <1>0, <1>3, <1>5, <1>6, <1>8, <3>1 DEF HasMore
      <3>2. CASE listing.stop = "not full"
        <4>1. Cardinality(P) = PageSize
          BY <1>8, <3>2 DEF HasMore
        <4> QED BY <1>0, <1>3, <1>6, <4>1
      <3>3. CASE listing.stop = "empty"
        BY <1>8, <3>3 DEF HasMore
      <3> QED BY <3>1, <3>2, <3>3 DEF ListingShape
    <2> QED BY <1>0, <1>4, <1>6, <2>1
  <1>9. T \subseteq found /\ \A i \in T, j \in found : Before(j, i) => j \in T
    BY <1>3, <1>4
  <1>10. /\ T \subseteq found /\ T \in SUBSET Rows
         /\ \A i \in T, j \in found : Before(j, i) => j \in T
         /\ ~HasMore(P) => T = found
         /\ HasMore(P) => T # {}
    BY <1>4, <1>7, <1>8, <1>9
  <1> QED BY <1>10 DEF T, P, found

\* What the endpoints order by and what their cursors carry fit one another.
LEMMA ListingKinds ==
    ASSUME NEW x \in Listings
    PROVE  /\ \/ x.order = "id" /\ x.cursor = "id"
              \/ x.order = "time" /\ x.cursor \in {"pair", "lookup"}
           /\ x.stop \in {"short", "not full", "empty"}
           /\ x.choices \in {OnlyActive, Either, Everything, Either \cup Everything}
           /\ x.name \in {"dead letters", "silicon dead letters"} => x.choices = OnlyActive
  <1>1. CASE x = ListOrganizations
    BY <1>1 DEF ListOrganizations, ById
  <1>2. CASE x = ListTags
    BY <1>2 DEF ListTags, ById
  <1>3. CASE x = ListTagMembers
    BY <1>3 DEF ListTagMembers, ById
  <1>4. CASE x = ListMembers
    BY <1>4 DEF ListMembers, ById
  <1>5. CASE x = ListDirectoryMembers
    BY <1>5 DEF ListDirectoryMembers, ById
  <1>6. CASE x = ListSilicons
    BY <1>6 DEF ListSilicons, ById
  <1>7. CASE x = ListInvitations
    BY <1>7 DEF ListInvitations, ById
  <1>8. CASE x = ListApprovalRequests
    BY <1>8 DEF ListApprovalRequests, ById
  <1>9. CASE x = ListJobRoleHistory
    BY <1>9 DEF ListJobRoleHistory, ById
  <1>10. CASE x = ListTagHistory
    BY <1>10 DEF ListTagHistory, ById
  <1>11. CASE x = ListTrustRules
    BY <1>11 DEF ListTrustRules, ById
  <1>12. CASE x = ListEnvironments
    BY <1>12 DEF ListEnvironments, ById
  <1>13. CASE x = PublicationRecipients
    BY <1>13 DEF PublicationRecipients, ById
  <1>14. CASE x = OrganizationRecipients
    BY <1>14 DEF OrganizationRecipients, ById
  <1>15. CASE x = Details
    BY <1>15 DEF Details, ById
  <1>16. CASE x = ManagementEvents
    BY <1>16 DEF ManagementEvents, ById
  <1>17. CASE x = Inventory
    BY <1>17 DEF Inventory, ById
  <1>18. CASE x = ListSessions
    BY <1>18 DEF ListSessions, ByTime
  <1>19. CASE x = ListLoginHistory
    BY <1>19 DEF ListLoginHistory, ByTime
  <1>20. CASE x = ListApplications
    BY <1>20 DEF ListApplications, ByTime
  <1>21. CASE x = AdminApplications
    BY <1>21 DEF AdminApplications, ByTime
  <1>22. CASE x = ApplicationLogins
    BY <1>22 DEF ApplicationLogins, ByTime
  <1>23. CASE x = ListBundles
    BY <1>23 DEF ListBundles, ByTime
  <1>24. CASE x = ScopeReviews
    BY <1>24 DEF ScopeReviews, ByTime
  <1>25. CASE x = DeadLetters
    BY <1>25 DEF DeadLetters, ByTime
  <1>26. CASE x = SiliconDeadLetters
    BY <1>26 DEF SiliconDeadLetters, DeadLetters, ByTime
  <1> QED
    BY <1>1, <1>2, <1>3, <1>4, <1>5, <1>6, <1>7, <1>8, <1>9, <1>10, <1>11, <1>12, <1>13,
       <1>14, <1>15, <1>16, <1>17, <1>18, <1>19, <1>20, <1>21, <1>22, <1>23, <1>24, <1>25,
       <1>26
       DEF Listings

LEMMA ListingChoices ==
    /\ OnlyActive \subseteq SUBSET {"active", "ended"}
    /\ Either \subseteq SUBSET {"active", "ended"}
    /\ Everything \subseteq SUBSET {"active", "ended"}
  BY DEF OnlyActive, Either, Everything

LEMMA ListingStarts == ListingInit => ListingInv
  <1> SUFFICES ASSUME ListingInit PROVE ListingInv
    OBVIOUS
  <1>0. PICK l \in {Shape(x) : x \in Listings} : \E shows \in l.choices :
            listing = [order |-> l.order, cursor |-> l.cursor, stop |-> l.stop,
                       renews |-> l.renews, shows |-> shows]
    BY DEF ListingInit
  <1>1. PICK shows \in l.choices :
            listing = [order |-> l.order, cursor |-> l.cursor, stop |-> l.stop,
                       renews |-> l.renews, shows |-> shows]
    BY <1>0
  <1>2. PICK x \in Listings : l = Shape(x)
    BY <1>1
  <1>3. /\ l.order = x.order /\ l.cursor = x.cursor /\ l.stop = x.stop
        /\ l.choices = x.choices
        /\ l.renews = (x.name \in {"dead letters", "silicon dead letters"})
    BY <1>2 DEF Shape
  <1>4. /\ x.order \in {"id", "time"}
        /\ x.cursor \in {"id", "pair", "lookup"}
        /\ x.order = "id" => x.cursor = "id"
        /\ x.order = "time" => x.cursor # "id"
        /\ x.stop \in {"short", "not full", "empty"}
        /\ x.choices \subseteq SUBSET {"active", "ended"}
        /\ x.name \in {"dead letters", "silicon dead letters"} => x.choices = OnlyActive
    BY ZenonT(90), ListingKinds, ListingChoices
  <1>5. table = [i \in Rows |-> Absent] /\ pager = NoPager /\ now = 0
    BY DEF ListingInit
  <1>6. ListingShape
    BY ZenonT(90), <1>1, <1>3, <1>4, <1>5 DEF ListingShape, NoPager, NoCursor, Absent, ListingRows,
       OnlyActive
  <1> QED BY <1>5, <1>6 DEF ListingInv, NoPager, NoCursor, Absent, ListedOnce

\* Rows change; those that stay in the list keep their place.
LEMMA TableKeeps ==
    ASSUME ListingInv, NEW t \in [Rows -> ListingRows], TableChanged(t),
           \A i \in Rows :
               /\ t[i].at <= now
               /\ table[i].status # "absent" =>
                     t[i].status # "absent" /\ table[i].at <= t[i].at
               /\ i \in pager.kept \cap Shown(t) => t[i].at = table[i].at
    PROVE  ListingInv'
  <1>1. /\ table' = t /\ UNCHANGED <<listing, now>>
        /\ pager' = [pager EXCEPT !.kept = @ \cap Shown(t)]
    BY DEF TableChanged
  <1>2. /\ pager'.at = pager.at /\ pager'.cursor = pager.cursor /\ pager'.count = pager.count
        /\ pager'.kept = pager.kept \cap Shown(t)
        /\ pager' \in [at : {"idle", "reading", "done", "refused"},
                       cursor : [id : Rows \cup {0}, at : Nat],
                       count : [Rows -> Nat], kept : SUBSET Rows]
    BY <1>1 DEF ListingInv, ListingShape
  <1>3. ListingShape'
    BY <1>1, <1>2 DEF ListingInv, ListingShape
  <1>4. Shown(table)' = Shown(t)
    BY <1>1 DEF Shown
  <1>5. pager'.at = "idle" => pager' = NoPager
    <2> SUFFICES ASSUME pager.at = "idle" PROVE pager' = NoPager
      BY <1>2
    <2>1. pager = NoPager /\ pager.kept = {}
      BY DEF ListingInv, NoPager
    <2>2. pager' = [NoPager EXCEPT !.kept = {}]
      BY <1>1, <2>1
    <2> QED BY <2>2 DEF NoPager
  <1>6. pager'.cursor.id # 0 => table'[pager'.cursor.id].status # "absent"
    BY <1>1, <1>2 DEF ListingInv, ListingShape
  <1> PICK c \in [id : Rows \cup {0}, at : Nat] : c = pager.cursor
    BY DEF ListingInv, ListingShape
  <1>7. ASSUME pager.at = "reading", NEW i \in pager.kept \cap Shown(t)
        PROVE  Given(i)'
    <2>1. Given(i)
      BY <1>7 DEF ListingInv
    <2>2. i \in Rows /\ table'[i].at = table[i].at /\ table[i].at \in Nat /\ i \in Nat
      BY <1>1, <1>7, ListingAssumption DEF ListingInv, ListingShape, ListingRows
    <2>3. CASE listing.cursor # "lookup"
      <3>1. Resolved(c) = c /\ Resolved(c)' = c
        BY <2>3, <1>1 DEF Resolved
      <3>2. After(i, c)' <=> After(i, c)
        BY <1>1, <2>2 DEF After
      <3> QED BY <1>1, <1>2, <2>1, <3>1, <3>2 DEF Given
    <2>4. CASE listing.cursor = "lookup"
      <3>1. CASE c.id = 0
        BY <3>1, <1>2, <2>1, <2>4, <1>1 DEF Given, Resolved, After
      <3>2. CASE c.id # 0
        <4>1. c.id \in Rows /\ table[c.id].at \in Nat /\ t[c.id].at \in Nat
              /\ table[c.id].at <= t[c.id].at /\ c.id \in Nat
          BY <3>2, ListingAssumption DEF ListingInv, ListingShape, ListingRows
        <4>2. /\ Resolved(c).id = c.id /\ Resolved(c).at = table[c.id].at
              /\ Resolved(c)'.id = c.id /\ Resolved(c)'.at = t[c.id].at
          BY <2>4, <3>2, <1>1 DEF Resolved
        <4>3. listing.order = "time"
          BY <2>4 DEF ListingInv, ListingShape
        <4>4. After(i, Resolved(c)) => After(i, Resolved(c))'
          BY <1>1, <2>2, <3>2, <4>1, <4>2, <4>3 DEF After
        <4> QED BY <1>1, <1>2, <2>1, <2>4, <4>4 DEF Given
      <3> QED BY <3>1, <3>2
    <2> QED BY <2>3, <2>4
  <1>8. ListedOnce'
    BY <1>1, <1>2 DEF ListingInv, ListedOnce
  <1> QED
    BY <1>1, <1>2, <1>3, <1>4, <1>5, <1>6, <1>7, <1>8 DEF ListingInv

LEMMA PagerKeeps ==
    ASSUME ListingInv, UNCHANGED <<listing, table, pager>>, now' \in Nat, now <= now'
    PROVE  ListingInv'
  <1>1. \A i \in Rows : table[i].at \in Nat /\ now \in Nat
    BY DEF ListingInv, ListingShape, ListingRows
  <1>2. ListingShape'
    BY DEF ListingInv, ListingShape
  <1>a. \A i \in Rows : table'[i].at <= now'
    BY <1>1 DEF ListingInv
  <1>3. \A i \in Rows : Given(i)' <=> Given(i)
    BY DEF Given, After, Resolved
  <1> QED
    BY <1>2, <1>3, <1>a DEF ListingInv, ListedOnce, Shown

LEMMA BeginListingKeeps == ASSUME ListingInv, BeginListing PROVE ListingInv'
  <1>1. /\ pager = NoPager
        /\ pager' = [pager EXCEPT !.at = "reading", !.kept = Shown(table)]
        /\ UNCHANGED <<listing, table, now>>
    BY DEF BeginListing, ListingInv
  <1>2. /\ pager'.at = "reading" /\ pager'.cursor = NoCursor
        /\ pager'.count = [i \in Rows |-> 0] /\ pager'.kept = Shown(table)
        /\ pager' \in [at : {"idle", "reading", "done", "refused"},
                       cursor : [id : Rows \cup {0}, at : Nat],
                       count : [Rows -> Nat], kept : SUBSET Rows]
    BY <1>1 DEF NoPager, NoCursor, Shown
  <1>3. ListingShape'
    BY <1>1, <1>2 DEF ListingInv, ListingShape
  <1>4. \A i \in Rows : Given(i)'
    BY <1>1, <1>2 DEF Given, After, Resolved, NoCursor
  <1> QED
    BY <1>1, <1>2, <1>3, <1>4 DEF ListingInv, Shown, ListedOnce, NoCursor

LEMMA RefuseKeeps == ASSUME ListingInv, RefusePage PROVE ListingInv'
  <1>1. pager' = [pager EXCEPT !.at = "refused"] /\ UNCHANGED <<listing, table, now>>
    BY DEF RefusePage
  <1>2. /\ pager'.at = "refused" /\ pager'.cursor = pager.cursor /\ pager'.kept = pager.kept
        /\ pager' \in [at : {"idle", "reading", "done", "refused"},
                       cursor : [id : Rows \cup {0}, at : Nat],
                       count : [Rows -> Nat], kept : SUBSET Rows]
    BY <1>1 DEF ListingInv, ListingShape
  <1> QED BY <1>1, <1>2 DEF ListingInv, ListingShape, ListedOnce, Shown

\* A page is given; the cursor passes exactly the rows that it has.
LEMMA PageKeeps == ASSUME ListingInv, ReadPage PROVE ListingInv'
  <1>0. ListingShape
    BY DEF ListingInv
  <1> PICK c \in [id : Rows \cup {0}, at : Nat] : c = Resolved(pager.cursor)
    BY DEF Resolved, ListingInv, ListingShape, ListingRows
  <1> PICK found \in SUBSET Rows : found = {i \in Shown(table) : After(i, c)}
    BY DEF Shown
  <1> PICK T \in SUBSET Rows : T = Taken(Fetched(c))
    BY <1>0, PageKept
  <1> PICK more \in BOOLEAN : more = HasMore(Fetched(c))
    <2>0. Cardinality(Fetched(c)) \in Nat
      BY RowsFinite DEF Fetched, FirstOf, Shown
    <2>1. CASE listing.stop = "short"
      <3>1. HasMore(Fetched(c)) = (Cardinality(Fetched(c)) > PageSize)
        BY <2>1 DEF HasMore
      <3>2. (Cardinality(Fetched(c)) > PageSize) \in BOOLEAN
        OBVIOUS
      <3> QED BY <3>1, <3>2
    <2>2. CASE listing.stop = "not full"
      BY <2>2 DEF HasMore
    <2>3. CASE listing.stop = "empty"
      BY <2>3 DEF HasMore
    <2> QED BY <1>0, <2>1, <2>2, <2>3 DEF ListingShape
  <1> PICK count \in [Rows -> Nat] : count = pager.count
    BY <1>0 DEF ListingShape
  <1> DEFINE m == LastOf(T)
             counted == [i \in Rows |-> IF i \in T /\ count[i] < 2 THEN count[i] + 1 ELSE count[i]]
  <1>1. /\ pager.at = "reading" /\ UNCHANGED <<listing, table, now>>
        /\ pager' = [pager EXCEPT
              !.at = IF more THEN "reading" ELSE "done",
              !.cursor = IF more THEN CursorOf(m) ELSE @,
              !.count = counted]
    BY DEF ReadPage, NextCursor
  <1>2. /\ T \subseteq found
        /\ \A i \in T, j \in found : Before(j, i) => j \in T
        /\ ~more => T = found
        /\ more => T # {}
    BY <1>0, PageKept
  <1>3. more => m \in T /\ \A j \in T : m = j \/ Before(j, m)
    BY <1>0, <1>2, GreatestRow DEF LastOf
  <1> HIDE DEF m
  <1>4. more => CursorOf(m) \in [id : Rows \cup {0}, at : Nat]
    BY <1>0, <1>3 DEF CursorOf, ListingShape, ListingRows
  <1>5. counted \in [Rows -> Nat]
    OBVIOUS
  <1>6. /\ pager'.at = (IF more THEN "reading" ELSE "done")
        /\ pager'.cursor = (IF more THEN CursorOf(m) ELSE pager.cursor)
        /\ pager'.count = counted /\ pager'.kept = pager.kept
        /\ pager' \in [at : {"idle", "reading", "done", "refused"},
                       cursor : [id : Rows \cup {0}, at : Nat],
                       count : [Rows -> Nat], kept : SUBSET Rows]
    <2> HIDE DEF counted
    <2>1. pager \in [at : {"idle", "reading", "done", "refused"},
                     cursor : [id : Rows \cup {0}, at : Nat],
                     count : [Rows -> Nat], kept : SUBSET Rows]
      BY <1>0 DEF ListingShape
    <2> QED BY <1>1, <1>4, <1>5, <2>1
  <1>7. ListingShape'
    BY <1>0, <1>1, <1>6 DEF ListingShape
  <1>8. pager'.cursor.id # 0 => table'[pager'.cursor.id].status # "absent"
    <2>1. CASE more
      <3>1. m \in Shown(table) /\ CursorOf(m).id = m
        BY <1>2, <1>3, <2>1 DEF CursorOf
      <3> QED BY <1>0, <1>1, <1>6, <2>1, <3>1 DEF Shown, ListingShape
    <2>2. CASE ~more
      BY <1>1, <1>6, <2>2 DEF ListingInv
    <2> QED BY <2>1, <2>2
  <1>9. \A i \in pager.kept :
            /\ i \in Rows /\ (i \in found <=> After(i, c)) /\ count[i] \in Nat
            /\ i \notin found => count[i] >= 1
            /\ listing.cursor # "lookup" => count[i] = IF i \in found THEN 0 ELSE 1
    BY <1>1 DEF ListingInv, Given, Shown
  <1>10. \A i \in pager.kept :
            /\ i \in T \/ i \notin found => counted[i] >= 1
            /\ listing.cursor # "lookup" => counted[i] = IF i \in T \/ i \notin found THEN 1 ELSE 0
    BY <1>2, <1>9
  <1> HIDE DEF counted
  <1>11. ASSUME more, NEW i \in pager.kept PROVE Given(i)'
    <2>1. After(i, CursorOf(m)) <=> Before(m, i)
      BY <1>0, <1>3, <1>9, <1>11, AfterCursor
    <2>2. /\ Resolved(CursorOf(m)).id = m /\ Resolved(CursorOf(m)).at = table[m].at
          /\ CursorOf(m).id = m /\ CursorOf(m).at = table[m].at
      BY DEF Resolved, CursorOf
    <2>3. After(i, Resolved(CursorOf(m))) <=> Before(m, i)
      BY <2>1, <2>2 DEF After
    <2>4. After(i, Resolved(pager.cursor))' <=> Before(m, i)
      BY <1>1, <1>6, <1>11, <2>3 DEF After, Resolved, CursorOf
    <2>5. Before(m, i) <=> i \in found /\ i \notin T
      <3>1. i \in Rows /\ m \in Rows /\ m \in found /\ After(m, c)
        BY <1>2, <1>3, <1>9, <1>11
      <3>2. CASE i \in T
        BY <1>0, <1>3, <1>11, <3>1, <3>2, OrderStrict
      <3>3. CASE i \in found /\ i \notin T
        BY <1>0, <1>2, <1>3, <1>11, <3>1, <3>3, OrderStrict
      <3>4. CASE i \notin found
        BY <1>0, <1>2, <1>9, <3>1, <3>4, AfterApart, OrderStrict
      <3> QED BY <3>2, <3>3, <3>4
    <2> QED BY <1>1, <1>6, <1>10, <2>4, <2>5, <1>2 DEF Given
  <1>12. ListedOnce'
    BY <1>1, <1>2, <1>6, <1>10 DEF ListedOnce
  <1>13. \A i \in Rows : table'[i].at <= now'
    BY <1>1 DEF ListingInv
  <1>14. pager'.kept \subseteq Shown(table)'
    BY <1>1, <1>6 DEF ListingInv, Shown
  <1>15. pager'.at = "reading" => more
    BY <1>6
  <1>16. pager'.at # "idle"
    BY <1>6
  <1> QED
    BY <1>6, <1>7, <1>8, <1>11, <1>12, <1>13, <1>14, <1>15, <1>16 DEF ListingInv

LEMMA ListingStep == ListingInv /\ [ListingNext]_listingVars => ListingInv'
  <1> SUFFICES ASSUME ListingInv, [ListingNext]_listingVars PROVE ListingInv'
    OBVIOUS
  <1>0. ListingShape
    BY DEF ListingInv
  <1>1. ASSUME NEW i \in Rows, NEW at \in 0 .. MaxAt, InsertRow(i, at) PROVE ListingInv'
    <2>1. PICK t \in [Rows -> ListingRows] :
              t = [table EXCEPT ![i] = [status |-> "active", at |-> at]]
      <3>1. at \in Nat
        BY ListingAssumption
      <3>2. [status |-> "active", at |-> at] \in ListingRows
        BY <3>1 DEF ListingRows
      <3> QED BY <1>0, <3>2 DEF ListingShape
    <2>2. TableChanged(t) /\ table[i].status = "absent" /\ at <= now
      BY <1>1, <2>1 DEF InsertRow, Absent
    <2>3. i \notin pager.kept
      BY <1>0, <2>2 DEF ListingInv, ListingShape, Shown
    <2>4. \A j \in Rows :
              /\ t[j].at <= now
              /\ table[j].status # "absent" => t[j].status # "absent" /\ table[j].at <= t[j].at
              /\ j \in pager.kept \cap Shown(t) => t[j].at = table[j].at
      <3> TAKE j \in Rows
      <3>1. CASE j = i
        BY <1>0, <2>1, <2>2, <2>3, <3>1 DEF ListingShape
      <3>2. CASE j # i
        <4>1. t[j] = table[j] /\ table[j].at \in Nat
          BY <1>0, <2>1, <3>2 DEF ListingShape, ListingRows
        <4> QED BY <4>1 DEF ListingInv
      <3> QED BY <3>1, <3>2
    <2> QED BY <2>2, <2>4, TableKeeps
  <1>2. ASSUME NEW i \in Rows, ChangeStatus(i) PROVE ListingInv'
    <2>1. /\ table[i].status \in {"absent", "active", "ended"} /\ table[i].at \in Nat
          /\ now \in Nat /\ table[i].at <= now
      BY <1>0 DEF ListingInv, ListingShape, ListingRows
    <2>2. PICK l \in ListingRows :
              l = IF table[i].status = "active" THEN [table[i] EXCEPT !.status = "ended"]
                  ELSE [status |-> "active", at |-> IF listing.renews THEN now ELSE table[i].at]
      BY <1>0, <2>1 DEF ListingShape, ListingRows
    <2>3. PICK t \in [Rows -> ListingRows] : t = [table EXCEPT ![i] = l]
      BY <1>0 DEF ListingShape
    <2>4. TableChanged(t)
      BY <1>2, <2>2, <2>3 DEF ChangeStatus
    <2>5. /\ l.status # "absent" /\ l.at <= now /\ table[i].at <= l.at
          /\ l.at # table[i].at => table[i].status # "active" /\ listing.renews
      <3>1. CASE table[i].status = "active"
        <4>1. table[i] \in ListingRows
          BY <1>0 DEF ListingShape
        <4>2. l = [table[i] EXCEPT !.status = "ended"]
          BY <2>2, <3>1
        <4>3. l.status = "ended" /\ l.at = table[i].at
          BY <4>1, <4>2 DEF ListingRows
        <4> QED BY <2>1, <4>3
      <3>2. CASE table[i].status # "active"
        BY <2>1, <2>2, <3>2
      <3> QED BY <3>1, <3>2
    <2>6. i \in pager.kept => l.at = table[i].at
      BY <1>0, <2>5 DEF ListingInv, ListingShape, Shown
    <2>7. \A j \in Rows :
              /\ t[j].at <= now
              /\ table[j].status # "absent" => t[j].status # "absent" /\ table[j].at <= t[j].at
              /\ j \in pager.kept \cap Shown(t) => t[j].at = table[j].at
      <3> TAKE j \in Rows
      <3>1. CASE j = i
        BY <1>0, <2>3, <2>5, <2>6, <3>1 DEF ListingShape
      <3>2. CASE j # i
        <4>1. t[j] = table[j] /\ table[j].at \in Nat
          BY <1>0, <2>3, <3>2 DEF ListingShape, ListingRows
        <4> QED BY <4>1 DEF ListingInv
      <3> QED BY <3>1, <3>2
    <2> QED BY <2>4, <2>7, TableKeeps
  <1>3. CASE Pass
    <2>1. now' \in Nat /\ now <= now' /\ UNCHANGED <<listing, table, pager>>
      <3>1. now \in Nat
        BY <1>0 DEF ListingShape
      <3> QED BY <1>3, <3>1 DEF Pass
    <2> QED BY <2>1, PagerKeeps
  <1>4. CASE UNCHANGED listingVars
    <2>1. now' \in Nat /\ now <= now' /\ UNCHANGED <<listing, table, pager>>
      <3>1. now \in Nat
        BY <1>0 DEF ListingShape
      <3> QED BY <1>4, <3>1 DEF listingVars
    <2> QED BY <2>1, PagerKeeps
  <1> QED
    BY <1>1, <1>2, <1>3, <1>4, BeginListingKeeps, PageKeeps, RefuseKeeps DEF ListingNext

\* A caller who follows the cursors to the end has been given every row that stayed,
\* and given it once, for every number of rows, every page size and every list.
THEOREM ListedOnceHolds == ListingSpec => []ListedOnce
  <1>1. ListingInv => ListedOnce
    BY DEF ListingInv
  <1> QED BY ListingStarts, ListingStep, <1>1, PTL DEF ListingSpec

----------------------------------------------------------------------------
\* Everything the model keeps has its type; no record outlives the clock by more
\* than its lifetime.
CutoverRecord ==
    [kept : BOOLEAN, request : {"none"} \cup Forms, body : ReplayBodies,
     expires : 0 .. MaxTime + KeptFor]

CutoverTyped ==
    /\ claim \in Families
    /\ schema \in [Planes -> Forms]
    /\ cutover \in [Planes -> [prepared : BOOLEAN, converted : BOOLEAN, expires : Nat]]
    /\ mapped \in [Planes -> SUBSET Principals]
    /\ known \in SUBSET Principals
    /\ retained \in [Retriers -> [Forms -> CutoverRecord]]
    /\ fleet \in {"old", "down", "new"}
    /\ bridge \in [Planes -> [ids : SUBSET Principals, expires : Nat]]
    /\ lastAct \in [Retriers -> Nat]
    /\ time \in 0 .. MaxTime

\* A record lies under the caller form its request was digested with, and whoever
\* it speaks of existed by then.
RecordsSigned ==
    \A c \in Retriers, f \in Forms :
        retained[c][f].kept => retained[c][f].request = f /\ c \in known /\ Names[c] \in known

\* What was carried out has a record for as long as it must be remembered.
ActsKept ==
    \A c \in Retriers :
        lastAct[c] > time =>
            \E f \in Forms : retained[c][f].kept /\ retained[c][f].expires >= lastAct[c]

\* The old image serves unprepared planes only and writes no canonical record; no
\* plane migrates before all are prepared; the new image serves converted planes.
StagesFit ==
    /\ fleet = "old" =>
         /\ \A p \in Planes : ~cutover[p].prepared /\ schema[p] = "legacy"
         /\ \A c \in Retriers : ~retained[c]["canonical"].kept
    /\ \A p \in Planes : schema[p] = "canonical" => \A q \in Planes : cutover[q].prepared
    /\ \A p \in Planes : cutover[p].converted => cutover[p].prepared
    /\ fleet = "new" => \A p \in Planes : cutover[p].converted

\* The deadline of a prepared plane is past every legacy record, and until then its
\* map translates those the record speaks of.
MapCovers ==
    \A c \in Retriers :
        cutover[PlaneOf[c]].prepared /\ retained[c]["legacy"].kept =>
            /\ retained[c]["legacy"].expires <= cutover[PlaneOf[c]].expires
            /\ cutover[PlaneOf[c]].expires > time =>
                 c \in mapped[PlaneOf[c]] /\ Names[c] \in mapped[PlaneOf[c]]

\* A process of the new image works with the map until its deadline.
BridgeLoaded ==
    fleet = "new" =>
        \A p \in Planes :
            cutover[p].expires > time =>
                bridge[p].ids = mapped[p] /\ bridge[p].expires = cutover[p].expires

\* A converted plane stores no answer in old names.
BodiesConverted ==
    \A c \in Retriers, f \in Forms :
        cutover[PlaneOf[c]].converted => retained[c][f].body # "legacy"

CutoverInv ==
    /\ CutoverTyped
    /\ RecordsSigned /\ ActsKept
    /\ StagesFit /\ MapCovers /\ BridgeLoaded /\ BodiesConverted
    /\ CutoverSound

\* The deadline of a plane is past all of its records.
LEMMA DeadlineLast ==
    ASSUME CutoverTyped, NEW p \in Planes
    PROVE  /\ Deadline(p) \in Nat
           /\ \A c \in Retriers, f \in Forms :
                PlaneOf[c] = p /\ retained[c][f].kept => retained[c][f].expires <= Deadline(p)
  <1> DEFINE ends == {r.expires : r \in {s \in RecordsOf(p) : s.kept}} \cup {time}
             N == MaxTime + KeptFor
             Gaps == {N - e : e \in ends}
  <1>1. N \in Nat /\ time \in 0 .. N
    BY KeptAssumption DEF CutoverTyped
  <1>2. \A c \in Retriers, f \in Forms : retained[c][f] \in CutoverRecord
    BY DEF CutoverTyped
  <1>3. ends \subseteq 0 .. N
    BY <1>1, <1>2 DEF RecordsOf, CutoverRecord
  <1>4. time \in ends
    OBVIOUS
  <1>5. \A c \in Retriers, f \in Forms : PlaneOf[c] = p /\ retained[c][f].kept => retained[c][f].expires \in ends
    BY DEF RecordsOf
  <1>6. Deadline(p) = CHOOSE e \in ends : \A d \in ends : d <= e
    BY DEF Deadline
  <1> HIDE DEF ends, N
  <1>7. Gaps \subseteq Nat /\ Gaps # {}
    <2>1. \A e \in ends : N - e \in Nat
      BY <1>1, <1>3
    <2>2. N - time \in Gaps
      BY <1>4
    <2> QED BY <2>1, <2>2
  <1>8. PICK g \in Gaps : \A h \in Gaps : ~ (<<h, g>> \in OpToRel(<, Nat))
    BY <1>7, NatLessThanWellFounded, WFMin
  <1>9. PICK e \in ends : g = N - e
    BY <1>8
  <1>10. \A d \in ends : d <= e
    <2> TAKE d \in ends
    <2>1. N - d \in Gaps
      OBVIOUS
    <2>2. ~ (N - d < g)
      BY <2>1, <1>7, <1>8 DEF OpToRel
    <2> QED BY <2>2, <1>9, <1>3, <1>1
  <1>11. Deadline(p) \in ends /\ \A d \in ends : d <= Deadline(p)
    BY <1>6, <1>10
  <1>12. Deadline(p) \in Nat
    <2>1. Deadline(p) \in 0 .. N
      BY <1>11, <1>3
    <2>2. 0 .. N \subseteq Nat
      BY <1>1
    <2> QED BY <2>1, <2>2
  <1> QED BY <1>11, <1>12, <1>5

\* A record in force is found again under its caller, and the retry of its request
\* matches it, whichever image serves and whichever claim the route uses.
LEMMA FoundAgain ==
    ASSUME CutoverInv, NEW c \in Retriers, NEW f \in Forms,
           fleet # "down", retained[c][f].kept, retained[c][f].expires > time
    PROVE  <<f, f>> \in Candidates(c) /\ MatchingRequest(c, f) /\ Existing(c) # {}
  <1>1. <<f, f>> \in Candidates(c)
    <2>1. CASE fleet = "old"
      <3>1. f = "legacy"
        BY <2>1 DEF CutoverInv, StagesFit, Forms
      <3> QED BY <2>1, <3>1 DEF Candidates
    <2>2. CASE fleet = "new" /\ f = "canonical"
      BY <2>2 DEF Candidates
    <2>3. CASE fleet = "new" /\ f = "legacy"
      <3> DEFINE p == PlaneOf[c]
      <3>1. p \in Planes /\ Names[c] \in Principals /\ c \in Principals /\ PlaneOf[Names[c]] = p
        BY PlaneAssumption
      <3>2. cutover[p].prepared /\ cutover[p].expires \in Nat
        BY <2>3, <3>1 DEF CutoverInv, CutoverTyped, StagesFit
      <3>3. retained[c]["legacy"].expires <= cutover[p].expires
        BY <2>3, <3>2 DEF CutoverInv, MapCovers
      <3>4. retained[c]["legacy"].expires \in Nat /\ time \in Nat
        <4>1. retained[c]["legacy"] \in CutoverRecord
          BY DEF CutoverInv, CutoverTyped, Forms
        <4> QED BY <4>1, KeptAssumption DEF CutoverRecord, CutoverInv, CutoverTyped
      <3>5. cutover[p].expires > time
        BY <2>3, <3>2, <3>3, <3>4
      <3>6. c \in mapped[p] /\ Names[c] \in mapped[p]
        BY <2>3, <3>2, <3>5 DEF CutoverInv, MapCovers
      <3>7. bridge[p].ids = mapped[p] /\ bridge[p].expires = cutover[p].expires
        BY <2>3, <3>1, <3>5 DEF CutoverInv, BridgeLoaded
      <3>8. LegacyIdentity(c) /\ LegacyIdentity(Names[c])
        BY <3>1, <3>5, <3>6, <3>7 DEF LegacyIdentity
      <3>9. OldCaller(c) = "legacy" /\ OldRequest(c) = "legacy"
        BY <3>8 DEF OldCaller, OldRequest
      <3>10. <<"legacy", "legacy">> \in Inputs(c)
        BY <3>9 DEF Inputs
      <3>11. <<"legacy", "legacy">> \in RequestCandidates(c)
        BY <3>1, <3>8, <3>9 DEF RequestCandidates
      <3>12. <<"legacy", "legacy">> \in ReplayInputs(c)
        BY <3>9 DEF ReplayInputs
      <3>13. claim \in {"shared", "application", "authentication"}
        BY DEF CutoverInv, CutoverTyped, Families
      <3> QED BY <2>3, <3>10, <3>11, <3>12, <3>13 DEF Candidates
    <2> QED BY <2>1, <2>2, <2>3 DEF CutoverInv, CutoverTyped, Forms
  <1>2. retained[c][f].request = f
    BY DEF CutoverInv, RecordsSigned
  <1> QED BY <1>1, <1>2 DEF MatchingRequest, Existing

LEMMA CutoverInitial ==
    ASSUME CutoverInit
    PROVE  CutoverInv
  <1>1. NoReplay \in CutoverRecord
    BY KeptAssumption DEF NoReplay, CutoverRecord, ReplayBodies
  <1>2. \A c \in Retriers, f \in Forms : retained[c][f] = NoReplay
    BY DEF CutoverInit
  <1>3. CutoverTyped
    BY <1>1, KeptAssumption DEF CutoverInit, CutoverTyped, NoCutover, NoBridge, Forms
  <1>4. RecordsSigned /\ ActsKept /\ StagesFit /\ MapCovers /\ BridgeLoaded /\ BodiesConverted
    BY <1>2, PlaneAssumption DEF CutoverInit, RecordsSigned, ActsKept, StagesFit, MapCovers, BridgeLoaded, BodiesConverted, NoReplay, NoCutover, Forms
  <1> QED BY <1>3, <1>4 DEF CutoverInv, CutoverInit, CutoverSound

\* A retry changes no record; what it is answered is found and matches.
LEMMA ClassifyRetryKeeps ==
    ASSUME CutoverInv, NEW c \in Retriers, ClassifyRetry(c)
    PROVE  CutoverInv'
  <1>1. PICK f \in Existing(c) :
          /\ served' = IF MatchingRequest(c, f) /\ retained[c][f].body \in Forms /\ retained[c][f].expires > time
                       THEN served \cup {[form |-> retained[c][f].body, image |-> fleet]} ELSE served
          /\ refused' = IF ~MatchingRequest(c, f) /\ retained[c][f].expires > time
                        THEN refused \cup {c} ELSE refused
    BY DEF ClassifyRetry
  <1>2. f \in Forms /\ retained[c][f].kept
    BY DEF Existing
  <1>3. refused' = refused
    BY <1>1, <1>2, FoundAgain DEF ClassifyRetry, Askable
  <1>4. ASSUME fleet = "new" PROVE retained[c][f].body # "legacy"
    BY <1>2, <1>4, PlaneAssumption DEF CutoverInv, StagesFit, BodiesConverted
  <1>5. [form |-> "legacy", image |-> "new"] \notin served'
    BY <1>1, <1>4 DEF CutoverInv, CutoverSound
  <1>6. CutoverSound'
    BY <1>3, <1>5 DEF CutoverInv, CutoverSound, ClassifyRetry
  <1> QED
    BY <1>6 DEF CutoverInv, ClassifyRetry, CutoverTyped, RecordsSigned, ActsKept, StagesFit,
       MapCovers, BridgeLoaded, BodiesConverted

\* A request is carried out only when nothing in force remembers it, and its record
\* has the form of the image.
LEMMA ActKeeps ==
    ASSUME CutoverInv, NEW c \in Retriers,
           NEW body \in {"none", "empty", PresentForm}, Act(c, body)
    PROVE  CutoverInv'
  <1> DEFINE new == [kept |-> TRUE, request |-> PresentForm, body |-> body, expires |-> time + KeptFor]
  <1>1. PresentForm \in Forms /\ (fleet = "new" => PresentForm = "canonical") /\ (fleet = "old" => PresentForm = "legacy")
    BY DEF PresentForm, Forms
  <1>2. fleet \in {"old", "new"} /\ time \in Nat /\ KeptFor \in Nat /\ MaxTime \in Nat /\ time < MaxTime
    BY KeptAssumption DEF CutoverInv, CutoverTyped, Act, Askable
  <1>3. new \in CutoverRecord
    BY <1>1, <1>2 DEF CutoverRecord, ReplayBodies
  <1>4. retained' = [retained EXCEPT ![c][PresentForm] = new]
    BY DEF Act
  <1>5. \A d \in Retriers, f \in Forms : retained[d][f] \in CutoverRecord
    BY DEF CutoverInv, CutoverTyped
  <1>6. \A d \in Retriers, f \in Forms :
          retained'[d][f] = IF d = c /\ f = PresentForm THEN new ELSE retained[d][f]
    BY <1>1, <1>4 DEF CutoverInv, CutoverTyped
  <1>7. retained' \in [Retriers -> [Forms -> CutoverRecord]]
    BY <1>1, <1>3, <1>4 DEF CutoverInv, CutoverTyped
  <1>8. ~ (lastAct[c] > time)
    <2>1. SUFFICES ASSUME lastAct[c] > time PROVE FALSE
      OBVIOUS
    <2>2. PICK f \in Forms : retained[c][f].kept /\ retained[c][f].expires >= lastAct[c]
      BY <2>1 DEF CutoverInv, ActsKept
    <2>3. retained[c][f].expires \in Nat /\ lastAct[c] \in Nat
      BY <1>2, <1>5 DEF CutoverRecord, CutoverInv, CutoverTyped
    <2>4. retained[c][f].expires > time
      BY <1>2, <2>1, <2>2, <2>3
    <2> QED BY <2>2, <2>4, FoundAgain DEF Act, Askable
  <1>9. CutoverTyped'
    BY <1>2, <1>7 DEF CutoverInv, CutoverTyped, Act
  <1>10. RecordsSigned'
    BY <1>6 DEF CutoverInv, RecordsSigned, Act, Askable
  <1>11. ActsKept'
    <2>1. SUFFICES ASSUME NEW d \in Retriers, lastAct'[d] > time'
                   PROVE  \E f \in Forms : retained'[d][f].kept /\ retained'[d][f].expires >= lastAct'[d]
      BY DEF ActsKept
    <2>2. CASE d = c
      <3>1. retained'[c][PresentForm] = new /\ lastAct'[c] = time + KeptFor
        BY <1>1, <1>6 DEF Act, CutoverInv, CutoverTyped
      <3> QED BY <1>1, <1>2, <2>2, <3>1
    <2>3. CASE d # c
      BY <1>6, <2>1, <2>3 DEF Act, CutoverInv, CutoverTyped, ActsKept
    <2> QED BY <2>2, <2>3
  <1>12. StagesFit'
    BY <1>1, <1>6 DEF CutoverInv, StagesFit, Act, Forms
  <1>13. MapCovers' /\ BridgeLoaded'
    <2>1. fleet = "new" => \A d \in Retriers : retained'[d]["legacy"] = retained[d]["legacy"]
      BY <1>1, <1>6 DEF Forms
    <2>2. fleet = "old" => \A p \in Planes : ~cutover'[p].prepared
      BY DEF CutoverInv, StagesFit, Act
    <2> QED BY <1>2, <2>1, <2>2, PlaneAssumption DEF CutoverInv, MapCovers, BridgeLoaded, Act
  <1>14. BodiesConverted'
    <2>1. fleet = "new" => body # "legacy"
      BY <1>1
    <2>2. fleet = "old" => \A p \in Planes : ~cutover'[p].converted
      BY DEF CutoverInv, CutoverTyped, StagesFit, Act
    <2> QED BY <1>2, <1>6, <2>1, <2>2, PlaneAssumption DEF CutoverInv, BodiesConverted, Act
  <1>15. CutoverSound'
    BY <1>8 DEF CutoverInv, CutoverSound, Act
  <1> QED BY <1>9, <1>10, <1>11, <1>12, <1>13, <1>14, <1>15 DEF CutoverInv

\* Somebody signs up: nobody is forgotten.
LEMMA RegisterKeeps ==
    ASSUME CutoverInv, NEW i \in Principals, Register(i)
    PROVE  CutoverInv'
  <1>1. known' = known \cup {i}
    BY DEF Register
  <1>2. CutoverTyped' /\ RecordsSigned'
    BY <1>1 DEF Register, CutoverInv, CutoverTyped, RecordsSigned
  <1> QED
    BY <1>2 DEF Register, CutoverInv, ActsKept, StagesFit, MapCovers, BridgeLoaded,
       BodiesConverted, CutoverSound

\* Maintenance erases what nobody needs any more: records out of force, and a map
\* past its deadline.
LEMMA ErasePassedKeeps ==
    ASSUME CutoverInv, NEW p \in Planes, ErasePassed(p)
    PROVE  CutoverInv'
  <1>1. \A c \in Retriers, f \in Forms : retained'[c][f] \in {retained[c][f], NoReplay}
    BY DEF ErasePassed
  <1>2. \A c \in Retriers, f \in Forms : retained[c][f].expires > time => retained'[c][f] = retained[c][f]
    <2>1. \A c \in Retriers, f \in Forms : retained[c][f].expires \in 0 .. MaxTime + KeptFor
      BY DEF CutoverInv, CutoverTyped, CutoverRecord
    <2>2. time \in Nat /\ MaxTime + KeptFor \in Nat
      BY KeptAssumption DEF CutoverInv, CutoverTyped
    <2> QED BY <2>1, <2>2 DEF ErasePassed
  <1>3. \A q \in Planes : cutover[q].expires > time => mapped'[q] = mapped[q]
    <2>1. cutover[p].expires \in Nat /\ time \in Nat
      BY KeptAssumption DEF CutoverInv, CutoverTyped
    <2> QED BY <2>1 DEF ErasePassed, CutoverInv, CutoverTyped
  <1>4. NoReplay \in CutoverRecord /\ ~NoReplay.kept /\ NoReplay.body # "legacy"
    BY KeptAssumption DEF NoReplay, CutoverRecord, ReplayBodies
  <1>5. CutoverTyped'
    <2>1. retained' \in [Retriers -> [Forms -> CutoverRecord]]
      BY <1>4 DEF ErasePassed, CutoverInv, CutoverTyped
    <2>2. mapped' \in [Planes -> SUBSET Principals]
      BY DEF ErasePassed, CutoverInv, CutoverTyped
    <2> QED BY <2>1, <2>2 DEF ErasePassed, CutoverInv, CutoverTyped
  <1>6. RecordsSigned' /\ StagesFit' /\ BodiesConverted'
    BY SMTT(30), <1>1, <1>4 DEF ErasePassed, CutoverInv, RecordsSigned, StagesFit, BodiesConverted, Forms
  <1>7. ActsKept'
    <2>1. SUFFICES ASSUME NEW c \in Retriers, lastAct[c] > time
                   PROVE  \E f \in Forms : retained'[c][f].kept /\ retained'[c][f].expires >= lastAct[c]
      BY DEF ActsKept, ErasePassed
    <2>2. PICK f \in Forms : retained[c][f].kept /\ retained[c][f].expires >= lastAct[c]
      BY <2>1 DEF CutoverInv, ActsKept
    <2>3. retained[c][f].expires \in Nat /\ lastAct[c] \in Nat /\ time \in Nat
      <3>1. retained[c][f] \in CutoverRecord
        BY DEF CutoverInv, CutoverTyped
      <3> QED BY <3>1, KeptAssumption DEF CutoverInv, CutoverTyped, CutoverRecord
    <2>4. retained'[c][f] = retained[c][f]
      BY <1>2, <2>1, <2>2, <2>3
    <2> QED BY <2>2, <2>4
  <1>8. MapCovers'
    BY <1>1, <1>3, <1>4, PlaneAssumption DEF ErasePassed, CutoverInv, MapCovers, Forms
  <1>9. BridgeLoaded'
    BY <1>3 DEF ErasePassed, CutoverInv, BridgeLoaded
  <1> QED BY <1>5, <1>6, <1>7, <1>8, <1>9 DEF CutoverInv, CutoverSound, ErasePassed

LEMMA StopKeeps ==
    ASSUME CutoverInv, Stop
    PROVE  CutoverInv'
  <1>1. fleet' = "down" /\ bridge' = [p \in Planes |-> NoBridge]
    BY DEF Stop
  <1>2. CutoverTyped'
    BY <1>1 DEF Stop, CutoverInv, CutoverTyped, NoBridge
  <1> QED
    BY <1>1, <1>2 DEF Stop, CutoverInv, RecordsSigned, ActsKept, StagesFit, MapCovers,
       BridgeLoaded, BodiesConverted, CutoverSound

\* The preparation of a plane sets a deadline past its records and maps whoever it
\* knows, so whoever a record speaks of.
LEMMA PrepareKeeps ==
    ASSUME CutoverInv, NEW p \in Planes, Prepare(p)
    PROVE  CutoverInv'
  <1> DEFINE new == [prepared |-> TRUE, converted |-> FALSE, expires |-> Deadline(p)]
  <1>1. fleet = "down" /\ fleet' = fleet /\ ~cutover[p].prepared /\ ~cutover[p].converted
    BY DEF Prepare, CutoverInv, StagesFit
  <1>2. /\ Deadline(p) \in Nat
        /\ \A c \in Retriers, f \in Forms :
             PlaneOf[c] = p /\ retained[c][f].kept => retained[c][f].expires <= Deadline(p)
    BY DeadlineLast DEF CutoverInv
  <1>3. \A q \in Planes : cutover'[q] = IF q = p THEN new ELSE cutover[q]
    BY DEF Prepare, CutoverInv, CutoverTyped
  <1>4. \A q \in Planes :
          mapped'[q] = IF q = p THEN {i \in known : PlaneOf[i] = p} ELSE mapped[q]
    BY DEF Prepare, CutoverInv, CutoverTyped
  <1>5. CutoverTyped'
    <2>1. cutover' \in [Planes -> [prepared : BOOLEAN, converted : BOOLEAN, expires : Nat]]
      BY <1>2 DEF Prepare, CutoverInv, CutoverTyped
    <2>2. mapped' \in [Planes -> SUBSET Principals]
      BY DEF Prepare, CutoverInv, CutoverTyped
    <2> QED BY <2>1, <2>2 DEF Prepare, CutoverInv, CutoverTyped
  <1>6. RecordsSigned' /\ ActsKept' /\ CutoverSound'
    BY DEF Prepare, CutoverInv, RecordsSigned, ActsKept, CutoverSound
  <1>7. StagesFit'
    BY <1>1, <1>3 DEF Prepare, CutoverInv, StagesFit
  <1>8. MapCovers'
    <2>1. SUFFICES ASSUME NEW c \in Retriers, cutover'[PlaneOf[c]].prepared, retained[c]["legacy"].kept
                   PROVE  /\ retained[c]["legacy"].expires <= cutover'[PlaneOf[c]].expires
                          /\ cutover'[PlaneOf[c]].expires > time =>
                               c \in mapped'[PlaneOf[c]] /\ Names[c] \in mapped'[PlaneOf[c]]
      BY DEF MapCovers, Prepare
    <2>2. CASE PlaneOf[c] = p
      <3>1. c \in known /\ Names[c] \in known /\ PlaneOf[Names[c]] = p
        BY <2>1, <2>2, PlaneAssumption DEF CutoverInv, RecordsSigned, Forms
      <3>2. cutover'[p] = new /\ mapped'[p] = {i \in known : PlaneOf[i] = p}
        BY <1>3, <1>4
      <3>3. c \in mapped'[p] /\ Names[c] \in mapped'[p]
        BY <2>2, <3>1, <3>2
      <3>4. retained[c]["legacy"].expires <= Deadline(p)
        BY <1>2, <2>1, <2>2 DEF Forms
      <3> QED BY <2>2, <3>2, <3>3, <3>4
    <2>3. CASE PlaneOf[c] # p
      <3>1. PlaneOf[c] \in Planes
        BY PlaneAssumption
      <3> QED BY <1>3, <1>4, <2>1, <2>3, <3>1 DEF CutoverInv, MapCovers
    <2> QED BY <2>2, <2>3
  <1>9. BridgeLoaded'
    BY <1>1 DEF BridgeLoaded
  <1>10. BodiesConverted'
    BY <1>3, PlaneAssumption DEF Prepare, CutoverInv, BodiesConverted
  <1> QED BY <1>5, <1>6, <1>7, <1>8, <1>9, <1>10 DEF CutoverInv

LEMMA MigrateKeeps ==
    ASSUME CutoverInv, NEW p \in Planes, Migrate(p)
    PROVE  CutoverInv'
  <1>1. CutoverTyped'
    BY DEF Migrate, CutoverInv, CutoverTyped, Forms
  <1>2. StagesFit'
    BY DEF Migrate, CutoverInv, StagesFit
  <1> QED
    BY <1>1, <1>2 DEF Migrate, CutoverInv, RecordsSigned, ActsKept, MapCovers, BridgeLoaded,
       BodiesConverted, CutoverSound

\* The conversion touches only the answers, and leaves none in old names.
LEMMA ConvertKeeps ==
    ASSUME CutoverInv, NEW p \in Planes, Convert(p)
    PROVE  CutoverInv'
  <1>1. \A c \in Retriers, f \in Forms : retained[c][f] \in CutoverRecord
    BY DEF CutoverInv, CutoverTyped
  <1>2. \A c \in Retriers, f \in Forms :
          retained'[c][f] = IF PlaneOf[c] = p
                          THEN [retained[c][f] EXCEPT !.body = CanonicalPayload(p, retained[c][f].body)]
                          ELSE retained[c][f]
    BY DEF Convert, ConvertTables
  <1>3. \A c \in Retriers, f \in Forms :
          /\ retained'[c][f] \in CutoverRecord
          /\ retained'[c][f].kept = retained[c][f].kept /\ retained'[c][f].request = retained[c][f].request
          /\ retained'[c][f].expires = retained[c][f].expires
          /\ retained'[c][f].body = IF PlaneOf[c] = p THEN CanonicalPayload(p, retained[c][f].body)
                                  ELSE retained[c][f].body
    <2> TAKE c \in Retriers, f \in Forms
    <2>1. PICK r \in CutoverRecord : r = retained[c][f]
      BY <1>1
    <2>2. CanonicalPayload(p, r.body) \in ReplayBodies
      BY <2>1 DEF CanonicalPayload, CutoverRecord, ReplayBodies, Forms
    <2>3. [r EXCEPT !.body = CanonicalPayload(p, r.body)] \in CutoverRecord
      BY <2>1, <2>2 DEF CutoverRecord
    <2>4. retained'[c][f] = IF PlaneOf[c] = p THEN [r EXCEPT !.body = CanonicalPayload(p, r.body)] ELSE r
      BY <1>2, <2>1
    <2> QED BY <2>1, <2>3, <2>4 DEF CutoverRecord
  <1>4. \A q \in Planes :
          /\ cutover'[q].prepared = cutover[q].prepared /\ cutover'[q].expires = cutover[q].expires
          /\ cutover'[q].converted = (q = p \/ cutover[q].converted)
    BY DEF Convert, CutoverInv, CutoverTyped
  <1>5. CutoverTyped'
    <2>1. retained' \in [Retriers -> [Forms -> CutoverRecord]]
      <3>1. retained' = ConvertTables(p)
        BY DEF Convert
      <3>2. \A c \in Retriers : retained'[c] \in [Forms -> CutoverRecord]
        <4>1. TAKE c \in Retriers
        <4>2. retained'[c] = IF PlaneOf[c] = p
                THEN [f \in Forms |-> [retained[c][f] EXCEPT !.body = CanonicalPayload(p, @)]]
                ELSE retained[c]
          BY <3>1 DEF ConvertTables
        <4>3. retained[c] \in [Forms -> CutoverRecord]
          BY DEF CutoverInv, CutoverTyped
        <4> QED BY <1>3, <4>2, <4>3
      <3> QED BY <3>1, <3>2 DEF ConvertTables
    <2>2. cutover' \in [Planes -> [prepared : BOOLEAN, converted : BOOLEAN, expires : Nat]]
      BY DEF Convert, CutoverInv, CutoverTyped
    <2> QED BY <2>1, <2>2 DEF Convert, CutoverInv, CutoverTyped
  <1>6. RecordsSigned' /\ ActsKept' /\ CutoverSound'
    BY <1>3 DEF Convert, CutoverInv, RecordsSigned, ActsKept, CutoverSound
  <1>7. StagesFit'
    BY <1>3, <1>4 DEF Convert, CutoverInv, StagesFit, Forms
  <1>8. MapCovers' /\ BridgeLoaded'
    BY <1>3, <1>4, PlaneAssumption DEF Convert, CutoverInv, MapCovers, BridgeLoaded, Forms
  <1>9. BodiesConverted'
    BY <1>3, <1>4, PlaneAssumption DEF Convert, CutoverInv, BodiesConverted, CanonicalPayload
  <1> QED BY <1>5, <1>6, <1>7, <1>8, <1>9 DEF CutoverInv

\* A process starts only on converted planes and takes each map with it.
LEMMA StartKeeps ==
    ASSUME CutoverInv, StartFleet
    PROVE  CutoverInv'
  <1>1. \A p \in Planes : cutover[p].converted
    BY DEF StartFleet, SchemaReady, CutoverInv, StagesFit
  <1>2. fleet' = "new" /\ bridge' = [p \in Planes |-> LoadBridge(p)]
    BY DEF StartFleet
  <1>3. CutoverTyped'
    BY <1>2 DEF StartFleet, LoadBridge, NoBridge, CutoverInv, CutoverTyped
  <1>4. BridgeLoaded'
    BY <1>2 DEF BridgeLoaded, LoadBridge, StartFleet
  <1> QED
    BY <1>1, <1>2, <1>3, <1>4 DEF StartFleet, CutoverInv, RecordsSigned, ActsKept, StagesFit,
       MapCovers, BodiesConverted, CutoverSound

\* Time only takes records and maps out of force.
LEMMA PassKeeps ==
    ASSUME CutoverInv, HourPasses
    PROVE  CutoverInv'
  <1>1. time \in Nat /\ MaxTime \in Nat /\ time < MaxTime /\ time' = time + 1
    BY KeptAssumption DEF HourPasses, CutoverInv, CutoverTyped
  <1>2. CutoverTyped'
    BY <1>1 DEF HourPasses, CutoverInv, CutoverTyped
  <1>3. \A c \in Retriers : lastAct[c] > time' => lastAct[c] > time
    BY <1>1 DEF CutoverInv, CutoverTyped
  <1>4. \A p \in Planes : cutover[p].expires > time' => cutover[p].expires > time
    BY <1>1 DEF CutoverInv, CutoverTyped
  <1>5. ActsKept'
    BY <1>3 DEF HourPasses, CutoverInv, ActsKept
  <1>6. MapCovers' /\ BridgeLoaded'
    BY <1>4, PlaneAssumption DEF HourPasses, CutoverInv, MapCovers, BridgeLoaded
  <1> QED
    BY <1>2, <1>5, <1>6 DEF HourPasses, CutoverInv, RecordsSigned, StagesFit, BodiesConverted,
       CutoverSound

LEMMA CutoverStep ==
    ASSUME CutoverInv, [CutoverNext]_cutoverVars
    PROVE  CutoverInv'
  <1>1. CASE CutoverNext
    BY <1>1, ClassifyRetryKeeps, ActKeeps, RegisterKeeps, ErasePassedKeeps, PrepareKeeps, MigrateKeeps,
       ConvertKeeps, StopKeeps, StartKeeps, PassKeeps DEF CutoverNext
  <1>2. CASE UNCHANGED cutoverVars
    BY <1>2 DEF cutoverVars, CutoverInv, CutoverTyped, RecordsSigned, ActsKept, StagesFit,
       MapCovers, BridgeLoaded, BodiesConverted, CutoverSound
  <1> QED BY <1>1, <1>2

\* A retry across the identity cutover is answered as if there had been none: the
\* deadline of prepare and the legacy candidates of digest_candidates find every
\* record in force, and the startup gate keeps an unconverted plane from being served.
THEOREM CutoverSoundHolds == CutoverSpec => []CutoverSound
  <1>1. CutoverInit => CutoverInv
    BY CutoverInitial
  <1>2. CutoverInv /\ [CutoverNext]_cutoverVars => CutoverInv'
    BY CutoverStep
  <1>3. CutoverInv => CutoverSound
    BY DEF CutoverInv
  <1> QED BY <1>1, <1>2, <1>3, PTL DEF CutoverSpec

----------------------------------------------------------------------------
\* Every session of the Carbon has a row, which only SignIn, Mature and the
\* transaction of a call change.
LogoutTyped == status \in [LoginSessions -> {"none", "young", "mature", "ended"}]

\* No session ends by signing in, maturing, or the ways of its tokens and proofs.
LEMMA OnlyCallsEnd ==
    ASSUME LogoutTyped, NEW s \in LoginSessions, Active(s), status'[s] = "ended",
           LogoutNext
    PROVE  \E c \in Calls : Execute(c)
  <1>1. ASSUME NEW t \in LoginSessions, SignIn(t) \/ Mature(t) PROVE FALSE
    BY <1>1 DEF LogoutTyped, Active, SignIn, Mature
  <1>2. ASSUME UNCHANGED status PROVE FALSE
    BY <1>2 DEF Active
  <1>3. ASSUME NEW c \in Calls,
               Send(c) \/ ProveLogout(c) \/ Authenticate(c) \/ Replay(c) \/ RefuseLogout(c)
        PROVE  UNCHANGED status
    BY <1>3 DEF Send, ProveLogout, Authenticate, Replay, RefuseLogout
  <1>4. ASSUME NEW t \in LoginSessions,
               TokenRenewed(t) \/ \E via \in DOMAIN bearer : TokenEnds(via, t)
        PROVE  UNCHANGED status
    BY <1>4 DEF TokenRenewed, TokenEnds
  <1> QED BY <1>1, <1>2, <1>3, <1>4 DEF LogoutNext

\* The transaction of a call: what it ends besides its own session, it ends by the
\* checks it repeats there.
LEMMA ExecutedByAuthority ==
    ASSUME NEW c \in Calls, Execute(c), NEW s \in LoginSessions, Active(s),
           status'[s] = "ended"
    PROVE  MayHaveEnded(c, s)
  <1> DEFINE mine == logoutCall[c].ask.session
             others == Ends(c) \ {mine}
  <1>1. c \notin done /\ c \in done' /\ logoutCall[c].phase = "active"
    BY DEF Execute, ReplayOnly
  <1>2. s \in Ends(c)
    BY DEF Execute, Active
  <1>3. Permitted(c)
    BY DEF Execute
  <1>4. ASSUME s # mine
        PROVE  /\ Active(mine) /\ status[s] = "mature"
               /\ c \in stepUp /\ c \notin stepUp'
    <2>1. s \in others
      BY <1>2, <1>4
    <2>2. MayEndOthers(mine, others)
      BY <1>3, <2>1 DEF Permitted
    <2>3. NeedsProof(c)
      BY <1>2, <1>4 DEF NeedsProof
    <2>4. stepUp' = stepUp \ {c}
      BY <2>3 DEF Execute
    <2>5. c \in stepUp
      BY <1>3, <2>3 DEF Permitted
    <2> QED BY <2>1, <2>2, <2>4, <2>5 DEF MayEndOthers, Active
  <1> QED BY <1>1, <1>4 DEF MayHaveEnded

\* LogoutSound, for any number of sessions, calls and times each is sent: only a call
\* with a live credential ends a session, and another one than its own only on a proof
\* it consumes with it.
THEOREM LogoutSoundHolds == LogoutSpec => LogoutSound
  <1>1. LogoutInit => LogoutTyped
    BY DEF LogoutInit, LogoutTyped
  <1>2. LogoutTyped /\ [LogoutNext]_logoutVars => LogoutTyped'
    <2> SUFFICES ASSUME LogoutTyped, [LogoutNext]_logoutVars PROVE LogoutTyped'
      OBVIOUS
    <2>1. ASSUME UNCHANGED status PROVE LogoutTyped'
      BY <2>1 DEF LogoutTyped
    <2>2. ASSUME NEW s \in LoginSessions, SignIn(s) \/ Mature(s) PROVE LogoutTyped'
      BY <2>2 DEF LogoutTyped, SignIn, Mature
    <2>3. ASSUME NEW c \in Calls, Execute(c) PROVE LogoutTyped'
      BY <2>3 DEF LogoutTyped, Execute
    <2>4. ASSUME NEW s \in LoginSessions, TokenRenewed(s) PROVE UNCHANGED status
      BY <2>4 DEF TokenRenewed
    <2>5. ASSUME NEW via, NEW s \in LoginSessions, TokenEnds(via, s) PROVE UNCHANGED status
      BY <2>5 DEF TokenEnds
    <2>6. ASSUME NEW c \in Calls,
                 Send(c) \/ ProveLogout(c) \/ Authenticate(c) \/ Replay(c) \/ RefuseLogout(c)
          PROVE  UNCHANGED status
      BY <2>6 DEF Send, ProveLogout, Authenticate, Replay, RefuseLogout
    <2>7. CASE UNCHANGED logoutVars
      BY <2>1, <2>7 DEF logoutVars
    <2> QED BY <2>1, <2>2, <2>3, <2>4, <2>5, <2>6, <2>7 DEF LogoutNext
  <1>3. LogoutTyped /\ [LogoutNext]_logoutVars => [EndedByAuthorityStep]_logoutVars
    <2> SUFFICES ASSUME LogoutTyped, LogoutNext PROVE EndedByAuthorityStep
      OBVIOUS
    <2> SUFFICES ASSUME NEW s \in LoginSessions, Active(s), status'[s] = "ended"
                 PROVE  \E c \in Calls : MayHaveEnded(c, s)
      BY DEF EndedByAuthorityStep
    <2>1. PICK c \in Calls : Execute(c)
      BY OnlyCallsEnd
    <2> QED BY <2>1, ExecutedByAuthority
  <1> QED BY <1>1, <1>2, <1>3, PTL DEF LogoutSpec, LogoutSound

----------------------------------------------------------------------------
VersionedAttributes == RowAttributes \cup ExtraAttributes
AttributeVersions == [VersionedAttributes -> Nat]

TrustSettings ==
    [default : Nat, own : Nat, rule : [RuleKinds -> Nat], tagged : SUBSET {"subject", "target"}]

\* A change of an attribute gives it the new version of the member.
DescribedMembers ==
    {m \in [kind : {"carbons", "silicons"}, version : Nat, active : BOOLEAN, at : AttributeVersions] :
        \A a \in VersionedAttributes : m.at[a] <= m.version}

ReadRecord ==
    [view : Views, kind : {"carbons", "silicons"}, self : BOOLEAN, app : BOOLEAN,
     scopes : ScopeSets \cup {{}},
     step : {"row", "default", "match", "members", "extras", "reply"},
     heard : SUBSET Nat, default : Nat, trust : Nat, used : SUBSET (RuleKinds \X Nat),
     version : Nat, asOf : AttributeVersions, reply : AttributeVersions]

\* What the gates saw stays as it was; only some views have some statements.
ReadTerms(r) ==
    /\ ReadAdmitted(r)
    /\ r.view = "details" => ~r.self
    /\ r.view \in {"silicon", "evaluate"} => r.kind = "silicons"
    /\ r.step \in {"default", "match"} => r.view \in ReadersView
    /\ r.step = "members" => r.view = "details"
    /\ r.step = "extras" => r.view \in {"member", "details"}

\* The attributes that are not older than the version noted, by the last statement.
Covered(r) ==
    CASE r.step \in {"default", "match"} /\ r.view # "details" -> VersionedAttributes
      [] r.step = "extras" -> RowAttributes \ (IF r.view = "details" THEN {"role", "job"} ELSE {})
      [] r.step = "reply" -> VersionedAttributes \ (IF r.view = "details" THEN {"role", "job"} ELSE {})
      [] OTHER -> {}

ReadCurrent(r, at) ==
    /\ \A a \in VersionedAttributes : r.asOf[a] <= at[a]
    /\ \A a \in Covered(r) : r.asOf[a] <= r.reply[a]

CredibleTrust(r) ==
    IF r.used = {} THEN r.trust \in r.heard
    ELSE \E u \in r.used :
           /\ u[2] = r.trust
           /\ \A v \in r.used : \/ Specificity(v[1]) < Specificity(u[1])
                                \/ Specificity(v[1]) = Specificity(u[1]) /\ v[2] >= u[2]

\* A default is taken among those heard; a rule, by what EvaluateMatches takes.
ReadCredible(r, o) ==
    /\ r.step \in {"row", "default"} => Default(o) \in r.heard
    /\ r.step = "match" => r.default \in r.heard
    /\ r.view \in ReadersView /\ r.step \in {"members", "extras", "reply"} => CredibleTrust(r)

ReadInv(r, o, at) ==
    r \in ReadRecord /\ ReadTerms(r) /\ ReadCurrent(r, at) /\ ReadCredible(r, o)

\* The inductive invariant: of a read under way, at every statement.
ReadsInv ==
    /\ org \in TrustSettings /\ described \in DescribedMembers /\ edits \in Nat
    /\ reading = NoRequest \/ ReadInv(reading, org, described.at)

----------------------------------------------------------------------------
(* What is read is permitted                                                 *)

LEMMA ScopeCovers ==
    ASSUME NEW r, r.app, NEW a, NEW s \in Catalogue(r, a), Has(r, s)
    PROVE  Catalogue(r, a) \cap r.scopes # {}
  BY DEF Has

\* The field lists of members, with the gate the identity of another one needs.
LEMMA MemberCovered ==
    ASSUME NEW r \in ReadRecord, r.app, ~r.self => Has(r, <<"directory", r.kind>>),
           NEW a \in MemberFields(r)
    PROVE  Catalogue(r, a) \cap r.scopes # {}
  <1>1. CASE a \in {"role", "job", "name"}
    <2>1. Shows(r, CASE a = "role" -> "membership" [] a = "job" -> "job_role" [] a = "name" -> "profile"
                   [] OTHER -> a)
      BY <1>1 DEF MemberFields
    <2>2. CASE a = "role"
      BY <2>1, <2>2, ScopeCovers DEF Catalogue, Shows
    <2>3. CASE a = "job"
      BY <2>1, <2>3, ScopeCovers DEF Catalogue, Shows
    <2>4. CASE a = "name"
      BY <2>1, <2>4, ScopeCovers DEF Catalogue, Shows
    <2> QED BY <1>1, <2>2, <2>3, <2>4
  <1>2. CASE a \in {"tags", "hierarchy", "access", "capabilities"}
    <2>1. Shows(r, a)
      BY <1>2 DEF MemberFields
    <2>2. Of(r, a) \in Catalogue(r, a)
      BY <1>2 DEF Catalogue
    <2> QED BY <2>1, <2>2, ScopeCovers DEF Shows
  <1>3. CASE a = "identity"
    <2>1. r.self => Has(r, <<"self", "identity">>)
      BY <1>3 DEF MemberFields
    <2> QED BY <1>3, <2>1, ScopeCovers DEF Catalogue
  <1>4. CASE a = "org"
    <2>1. Has(r, <<"self", "organizations">>)
      BY <1>4 DEF MemberFields
    <2> QED BY <1>4, <2>1, ScopeCovers DEF Catalogue
  <1>5. CASE a = "default"
    <2>1. Has(r, <<"organization", "trust">>)
      BY <1>5 DEF MemberFields
    <2> QED BY <1>5, <2>1, ScopeCovers DEF Catalogue
  <1> QED BY <1>1, <1>2, <1>3, <1>4, <1>5 DEF MemberFields

\* Those of profiles and Silicons.
LEMMA ProfileCovered ==
    ASSUME NEW r \in ReadRecord, r.app, ~r.self => Has(r, <<"directory", r.kind>>),
           NEW a \in ProfileFields(r)
    PROVE  Catalogue(r, a) \cap r.scopes # {}
  <1>1. CASE a = "identity"
    <2>1. r.self => Has(r, <<"self", "identity">>)
      BY <1>1 DEF ProfileFields
    <2> QED BY <1>1, <2>1, ScopeCovers DEF Catalogue
  <1>2. CASE a = "name"
    <2>1. Shows(r, "profile")
      BY <1>2 DEF ProfileFields
    <2> QED BY <1>2, <2>1, ScopeCovers DEF Catalogue, Shows
  <1> QED BY <1>1, <1>2 DEF ProfileFields

LEMMA SiliconCovered ==
    ASSUME NEW r \in ReadRecord, r.app, ~r.self => Has(r, <<"directory", r.kind>>),
           r.kind = "silicons", NEW a \in SiliconFields(r)
    PROVE  Catalogue(r, a) \cap r.scopes # {}
  <1>1. CASE a = "identity" /\ ~r.self
    BY <1>1, ScopeCovers DEF Catalogue
  <1> QED BY <1>1, MemberCovered, ProfileCovered DEF SiliconFields

\* Those of the directory views: what is selected, less what the reply drops.
LEMMA DirectoryCovered ==
    ASSUME NEW r \in ReadRecord, r.app, ~r.self => Has(r, <<"directory", r.kind>>),
           NEW a \in DirectoryFields(r)
    PROVE  Catalogue(r, a) \cap r.scopes # {}
  <1>1. a \in Restricted(r)
    BY DEF DirectoryFields
  <1>2. CASE a \in {"name", "tags"}
    <2>1. Shows(r, IF a = "name" THEN "profile" ELSE a)
      BY <1>1, <1>2 DEF Restricted
    <2>2. CASE a = "name"
      BY <2>1, <2>2, ScopeCovers DEF Catalogue, Shows
    <2>3. CASE a = "tags"
      BY <2>1, <2>3, ScopeCovers DEF Catalogue, Shows
    <2> QED BY <1>2, <2>2, <2>3
  <1>3. CASE a = "identity"
    <2>1. r.self => Has(r, <<"self", "identity">>)
      BY <1>1, <1>3 DEF Restricted
    <2> QED BY <1>3, <2>1, ScopeCovers DEF Catalogue
  <1>4. CASE a = "role"
    <2>1. Shows(r, "membership")
      BY <1>4 DEF DirectoryFields
    <2> QED BY <1>4, <2>1, ScopeCovers DEF Catalogue, Shows
  <1>5. CASE a = "job"
    <2>1. Shows(r, "job_role")
      BY <1>5 DEF DirectoryFields
    <2> QED BY <1>5, <2>1, ScopeCovers DEF Catalogue, Shows
  <1>6. CASE a = "org"
    <2>1. Has(r, <<"self", "organizations">>)
      BY <1>1, <1>6 DEF Restricted
    <2> QED BY <1>6, <2>1, ScopeCovers DEF Catalogue
  <1>7. CASE a = "trust"
    <2>1. Has(r, <<"self", "trust">>)
      BY <1>1, <1>7 DEF Restricted
    <2> QED BY <1>7, <2>1, ScopeCovers DEF Catalogue
  <1>8. CASE a = "rules"
    <2>1. Has(r, <<"organization", "trust">>)
      BY <1>8 DEF DirectoryFields
    <2> QED BY <1>8, <2>1, ScopeCovers DEF Catalogue
  <1> QED BY <1>1, <1>2, <1>3, <1>4, <1>5, <1>6, <1>7, <1>8 DEF Restricted

\* Each view has a gate that carries the identity it answers with.
LEMMA FieldsCatalogued ==
    ASSUME NEW r \in ReadRecord, ReadTerms(r), r.app, NEW a \in Fields(r)
    PROVE  Catalogue(r, a) \cap r.scopes # {}
  <1> DEFINE Named == ~r.self => Has(r, <<"directory", r.kind>>)
  <1>1. CASE r.view = "directory"
    <2>1. Named
      BY <1>1 DEF ReadTerms, ReadAdmitted, RequireActor
    <2> QED BY <1>1, <2>1, DirectoryCovered DEF Fields
  <1>2. CASE r.view = "details"
    <2>1. Named
      BY <1>2 DEF ReadTerms, ReadAdmitted, RequireActor
    <2>2. CASE a = "default"
      <3>1. Has(r, <<"organization", "trust">>)
        BY <1>2, <2>2 DEF Fields, DetailFields, DirectoryFields, Restricted
      <3> QED BY <2>2, <3>1, ScopeCovers DEF Catalogue
    <2> QED BY <1>2, <2>1, <2>2, DirectoryCovered, MemberCovered DEF Fields, DetailFields
  <1>3. CASE r.view = "evaluate"
    <2>1. CASE a = "trust"
      <3>1. Has(r, <<"organization", "trust">>) \/ Has(r, <<"self", "trust">>)
        BY <1>3 DEF ReadTerms, ReadAdmitted
      <3> QED BY <2>1, <3>1, ScopeCovers DEF Catalogue
    <2>2. CASE a = "rules"
      <3>1. Has(r, <<"organization", "trust">>)
        BY <1>3, <2>2 DEF Fields, EvaluationFields
      <3> QED BY <2>2, <3>1, ScopeCovers DEF Catalogue
    <2> QED BY <1>3, <2>1, <2>2 DEF Fields, EvaluationFields
  <1>4. CASE r.view = "snapshot"
    <2>1. a = "trust" /\ Has(r, <<"self", "trust">>)
      BY <1>4 DEF Fields, SnapshotFields, ReadTerms, ReadAdmitted, SnapshotReader
    <2> QED BY <2>1, ScopeCovers DEF Catalogue
  <1>5. CASE r.view = "member"
    <2>1. Named
      BY <1>5 DEF ReadTerms, ReadAdmitted, RequireActor
    <2> QED BY <1>5, <2>1, MemberCovered DEF Fields
  <1>6. CASE r.view = "profile"
    <2>1. Named
      BY <1>6 DEF ReadTerms, ReadAdmitted, ProfileReader
    <2> QED BY <1>6, <2>1, ProfileCovered DEF Fields
  <1>7. CASE r.view = "silicon"
    <2>1. Named /\ r.kind = "silicons"
      BY <1>7 DEF ReadTerms, ReadAdmitted, RequireActor
    <2> QED BY <1>7, <2>1, SiliconCovered DEF Fields
  <1>8. CASE r.view = "authorization"
    <2>1. a \in MemberFields(r) /\ a # "identity"
      BY <1>8 DEF Fields
    <2>2. CASE a = "role"
      <3>1. Shows(r, "membership")
        BY <2>1, <2>2 DEF MemberFields
      <3> QED BY <2>2, <3>1, ScopeCovers DEF Catalogue, Shows
    <2>3. CASE a = "capabilities"
      <3>1. Shows(r, "capabilities")
        BY <2>1, <2>3 DEF MemberFields
      <3> QED BY <2>3, <3>1, ScopeCovers DEF Catalogue, Shows
    <2> QED BY <1>8, <2>2, <2>3 DEF Fields
  <1>9. CASE r.view = "written"
    <2>1. /\ Has(r, IF r.self THEN <<"self", "identity">> ELSE <<"directory", r.kind>>)
          /\ a \in IF r.kind = "silicons" THEN SiliconFields(r) ELSE MemberFields(r)
      BY <1>9 DEF Fields, WrittenFields
    <2>2. Named
      BY <2>1
    <2>3. CASE r.kind = "silicons"
      BY <2>1, <2>2, <2>3, SiliconCovered
    <2>4. CASE r.kind # "silicons"
      BY <2>1, <2>2, <2>4, MemberCovered
    <2> QED BY <2>3, <2>4
  <1> QED BY <1>1, <1>2, <1>3, <1>4, <1>5, <1>6, <1>7, <1>8, <1>9 DEF ReadRecord, Views, ReadersView

----------------------------------------------------------------------------
(* The trust a read computes                                                 *)

LEMMA LeastOfNat ==
    ASSUME NEW S \in SUBSET Nat, S # {}
    PROVE  Min(S) \in S /\ \A y \in S : Min(S) <= y
  <1>1. PICK x \in S : \A y \in S : ~ (<<y, x>> \in OpToRel(<, Nat))
    BY NatLessThanWellFounded, WFMin
  <1>2. \A y \in S : ~ (y < x)
    BY <1>1 DEF OpToRel
  <1>3. \A y \in S : x <= y
    BY <1>2
  <1> QED BY <1>3 DEF Min

LEMMA SomeMostSpecific ==
    ASSUME NEW S \in SUBSET RuleKinds, S # {}
    PROVE  MostSpecific(S) # {}
  <1>1. \A k \in RuleKinds : Specificity(k) \in {0, 1, 2}
    BY DEF RuleKinds, Specificity
  <1>2. PICK k \in S : \A j \in S : Specificity(j) <= Specificity(k)
    <2>1. CASE \E k \in S : Specificity(k) = 2
      BY <1>1, <2>1
    <2>2. CASE ~ (\E k \in S : Specificity(k) = 2) /\ \E k \in S : Specificity(k) = 1
      BY <1>1, <2>2
    <2>3. CASE ~ (\E k \in S : Specificity(k) = 2) /\ ~ (\E k \in S : Specificity(k) = 1)
      BY <1>1, <2>3
    <2> QED BY <2>1, <2>2, <2>3
  <1> QED BY <1>2 DEF MostSpecific

\* What EvaluateMatches decides by is one of the rules that matched: no other is more
\* specific, and none as specific is stricter.
LEMMA MatchesDecide ==
    ASSUME NEW o \in TrustSettings, MatchingRules(o) # {}, NEW default
    PROVE  \E k \in MatchingRules(o) :
             /\ o.rule[k] = EvaluateMatches(default, o)
             /\ \A j \in MatchingRules(o) :
                  \/ Specificity(j) < Specificity(k)
                  \/ Specificity(j) = Specificity(k) /\ o.rule[j] >= o.rule[k]
  <1> DEFINE best == MostSpecific(MatchingRules(o))
             levels == {o.rule[k] : k \in best}
  <1>1. MatchingRules(o) \in SUBSET RuleKinds
    BY DEF MatchingRules
  <1>2. best # {} /\ best \in SUBSET MatchingRules(o)
    BY <1>1, SomeMostSpecific DEF MostSpecific
  <1>3. \A k \in RuleKinds : o.rule[k] \in Nat
    BY DEF TrustSettings
  <1>4. levels \in SUBSET Nat /\ levels # {}
    BY <1>1, <1>2, <1>3
  <1>5. Min(levels) \in levels /\ \A y \in levels : Min(levels) <= y
    BY <1>4, LeastOfNat
  <1>6. EvaluateMatches(default, o) = Min(levels)
    BY DEF EvaluateMatches
  <1>7. PICK k \in best : o.rule[k] = Min(levels)
    BY <1>5
  <1>8. \A j \in RuleKinds : Specificity(j) \in Nat
    BY DEF RuleKinds, Specificity
  <1>9. ASSUME NEW j \in MatchingRules(o)
        PROVE  \/ Specificity(j) < Specificity(k)
               \/ Specificity(j) = Specificity(k) /\ o.rule[j] >= o.rule[k]
    <2>1. Specificity(j) <= Specificity(k)
      BY <1>7, <1>9 DEF MostSpecific
    <2>2. CASE Specificity(j) = Specificity(k)
      <3>1. \A i \in MatchingRules(o) : Specificity(i) <= Specificity(j)
        BY <1>7, <2>2 DEF MostSpecific
      <3>2. j \in best
        BY <1>9, <3>1 DEF MostSpecific
      <3>3. Min(levels) <= o.rule[j]
        BY <1>5, <3>2
      <3>4. o.rule[j] \in Nat /\ o.rule[k] \in Nat
        BY <1>1, <1>2, <1>3, <1>7, <1>9
      <3> QED BY <1>7, <2>2, <3>3, <3>4
    <2>3. Specificity(j) \in Nat /\ Specificity(k) \in Nat
      BY <1>1, <1>2, <1>7, <1>8, <1>9
    <2> QED BY <2>1, <2>2, <2>3
  <1> QED BY <1>2, <1>6, <1>7, <1>9

LEMMA EvaluatesToNat ==
    ASSUME NEW o \in TrustSettings, NEW default \in Nat
    PROVE  EvaluateMatches(default, o) \in Nat
  <1>1. CASE MatchingRules(o) = {}
    BY <1>1 DEF EvaluateMatches
  <1>2. CASE MatchingRules(o) # {}
    <2>1. PICK k \in MatchingRules(o) : o.rule[k] = EvaluateMatches(default, o)
      BY <1>2, MatchesDecide
    <2>2. k \in RuleKinds
      BY DEF MatchingRules
    <2> QED BY <2>1, <2>2 DEF TrustSettings
  <1> QED BY <1>1, <1>2

----------------------------------------------------------------------------
(* The statements of a read                                                  *)

\* What a read is and the gates saw, its statements leave alone.
LEMMA SameTerms ==
    ASSUME NEW r \in ReadRecord, NEW q \in ReadRecord, ReadTerms(r),
           q.view = r.view, q.kind = r.kind, q.self = r.self, q.app = r.app, q.scopes = r.scopes,
           /\ q.step \in {"default", "match"} => q.view \in ReadersView
           /\ q.step = "members" => q.view = "details"
           /\ q.step = "extras" => q.view \in {"member", "details"}
    PROVE  ReadTerms(q)
  <1>1. ReadAdmitted(q) <=> ReadAdmitted(r)
    BY DEF ReadAdmitted, SnapshotReader, ProfileReader, RequireActor, Shows, Of, Has
  <1> QED BY <1>1 DEF ReadTerms

LEMMA KeptTyped ==
    ASSUME NEW r \in ReadRecord, described \in DescribedMembers, NEW read
    PROVE  /\ KeptAttributes(r, read) \in AttributeVersions
           /\ \A a \in VersionedAttributes :
                KeptAttributes(r, read)[a] = IF a \in read THEN described.at[a] ELSE r.reply[a]
  <1>1. DOMAIN r.reply = VersionedAttributes /\ r.reply \in AttributeVersions
    BY DEF ReadRecord, AttributeVersions
  <1>2. described.at \in AttributeVersions
    BY DEF DescribedMembers
  <1>3. KeptAttributes(r, read)
          = [a \in VersionedAttributes |-> IF a \in read THEN described.at[a] ELSE r.reply[a]]
    BY <1>1 DEF KeptAttributes
  <1> QED BY <1>1, <1>2, <1>3 DEF AttributeVersions

\* Between two statements an attribute only gains versions.
LEMMA MemberChangeKeeps ==
    ASSUME ReadsInv, described' \in DescribedMembers, edits' \in Nat, UNCHANGED <<org, reading>>,
           \A a \in VersionedAttributes : described.at[a] <= described'.at[a]
    PROVE  ReadsInv'
  <1>1. CASE reading = NoRequest
    BY <1>1 DEF ReadsInv
  <1>2. CASE ReadInv(reading, org, described.at)
    <2>1. \A a \in VersionedAttributes :
             reading.asOf[a] \in Nat /\ described.at[a] \in Nat /\ described'.at[a] \in Nat
      BY <1>2 DEF ReadInv, ReadRecord, AttributeVersions, DescribedMembers, ReadsInv
    <2>2. ReadCurrent(reading, described'.at)
      BY <1>2, <2>1 DEF ReadInv, ReadCurrent
    <2>3. ReadInv(reading, org, described'.at)
      BY <1>2, <2>2 DEF ReadInv
    <2> QED BY <2>3 DEF ReadsInv
  <1> QED BY <1>1, <1>2 DEF ReadsInv

LEMMA ChangeKeeps ==
    ASSUME ReadsInv, NEW a \in VersionedAttributes, Change(a)
    PROVE  ReadsInv'
  <1> DEFINE v == described.version + 1
  <1>1. described \in DescribedMembers /\ edits \in Nat
    BY DEF ReadsInv
  <1>2. /\ described.version \in Nat /\ described.at \in AttributeVersions
        /\ \A b \in VersionedAttributes :
             described.at[b] \in Nat /\ described.at[b] <= described.version
    BY <1>1 DEF DescribedMembers, AttributeVersions
  <1>3. v \in Nat /\ edits' \in Nat
    BY <1>1, <1>2 DEF Change, Edit
  <1>4. [described.at EXCEPT ![a] = v] \in AttributeVersions
    BY <1>2, <1>3 DEF AttributeVersions
  <1>5. \A b \in VersionedAttributes : [described.at EXCEPT ![a] = v][b]
            = IF b = a THEN v ELSE described.at[b]
    BY <1>2 DEF AttributeVersions
  <1>6. described' = [described EXCEPT !.version = v, !.at = [described.at EXCEPT ![a] = v]]
    BY <1>1 DEF Change, DescribedMembers
  <1>7. /\ described' \in [kind : {"carbons", "silicons"}, version : Nat, active : BOOLEAN,
                           at : AttributeVersions]
        /\ described'.version = v /\ described'.at = [described.at EXCEPT ![a] = v]
    BY <1>1, <1>3, <1>4, <1>6 DEF DescribedMembers
  <1>8. \A b \in VersionedAttributes :
            described'.at[b] <= described'.version /\ described.at[b] <= described'.at[b]
    BY <1>2, <1>3, <1>5, <1>7
  <1>9. described' \in DescribedMembers
    BY <1>7, <1>8 DEF DescribedMembers
  <1> QED BY <1>3, <1>8, <1>9, MemberChangeKeeps DEF Change

LEMMA RemoveKeeps ==
    ASSUME ReadsInv, RemoveDescribed
    PROVE  ReadsInv'
  <1>1. described \in DescribedMembers /\ edits \in Nat
    BY DEF ReadsInv
  <1>2. described.version \in Nat /\ described.version + 1 \in Nat /\ edits' \in Nat
    BY <1>1 DEF DescribedMembers, RemoveDescribed, Edit
  <1>3. /\ described' \in [kind : {"carbons", "silicons"}, version : Nat, active : BOOLEAN,
                           at : AttributeVersions]
        /\ described'.at = described.at /\ described'.version = described.version + 1
    BY <1>1, <1>2 DEF RemoveDescribed, DescribedMembers
  <1>4. \A a \in VersionedAttributes :
            described.at[a] \in Nat /\ described.at[a] <= described.version
    BY <1>1 DEF DescribedMembers, AttributeVersions
  <1>5. described' \in DescribedMembers
    BY <1>2, <1>3, <1>4 DEF DescribedMembers
  <1> QED BY <1>2, <1>3, <1>4, <1>5, MemberChangeKeeps DEF RemoveDescribed

\* The trust configuration: the new default is heard as long as none has been read.
LEMMA TrustKeeps ==
    ASSUME ReadsInv, ChangeTrust
    PROVE  ReadsInv'
  <1>1. org \in TrustSettings /\ edits' \in Nat /\ UNCHANGED described
    BY DEF ReadsInv, ChangeTrust, Edit
  <1>2. org' \in TrustSettings /\ reading' = Hearing(org')
    <2>1. ASSUME NEW k \in RuleKinds, NEW l \in Levels \cup {NoLevel}
          PROVE  [org EXCEPT !.rule[k] = l] \in TrustSettings
      <3>1. l \in Nat
        BY ReadsAssumption DEF NoLevel
      <3>2. [org.rule EXCEPT ![k] = l] \in [RuleKinds -> Nat]
        BY <1>1, <3>1 DEF TrustSettings
      <3> QED BY <1>1, <3>2 DEF TrustSettings
    <2>2. ASSUME NEW t \in SUBSET {"subject", "target"}
          PROVE  [org EXCEPT !.tagged = t] \in TrustSettings
      BY <1>1 DEF TrustSettings
    <2>3. PICK o \in {[org EXCEPT !.default = l] : l \in Levels}
                     \cup {[org EXCEPT !.own = l] : l \in Levels}
                     \cup {[org EXCEPT !.rule[k] = l] : k \in RuleKinds, l \in Levels \cup {NoLevel}}
                     \cup {[org EXCEPT !.tagged = t] : t \in SUBSET {"subject", "target"}} :
             org' = o /\ reading' = Hearing(o)
      BY DEF ChangeTrust
    <2>4. o \in TrustSettings
      <3>1. CASE \E l \in Levels : o = [org EXCEPT !.default = l] \/ o = [org EXCEPT !.own = l]
        <4>1. PICK l \in Levels : o = [org EXCEPT !.default = l] \/ o = [org EXCEPT !.own = l]
          BY <3>1
        <4>2. [org EXCEPT !.default = l] \in TrustSettings
          BY <1>1, ReadsAssumption DEF TrustSettings
        <4>3. [org EXCEPT !.own = l] \in TrustSettings
          BY <1>1, ReadsAssumption DEF TrustSettings
        <4> QED BY <4>1, <4>2, <4>3
      <3>2. CASE \E k \in RuleKinds, l \in Levels \cup {NoLevel} : o = [org EXCEPT !.rule[k] = l]
        <4>1. PICK k \in RuleKinds, l \in Levels \cup {NoLevel} : o = [org EXCEPT !.rule[k] = l]
          BY <3>2
        <4> QED BY <2>1, <4>1
      <3>3. CASE \E t \in SUBSET {"subject", "target"} : o = [org EXCEPT !.tagged = t]
        BY <2>2, <3>3
      <3> QED BY <2>3, <3>1, <3>2, <3>3
    <2> QED BY <2>3, <2>4
  <1>3. Default(org') \in Nat
    BY <1>2 DEF Default, TrustSettings
  <1>4. CASE reading = NoRequest
    BY <1>1, <1>2, <1>4 DEF ReadsInv, Hearing
  <1>5. CASE ReadInv(reading, org, described.at)
    <2>1. CASE reading.step \notin {"row", "default"}
      <3>1. reading' = reading
        BY <1>2, <2>1 DEF Hearing
      <3>2. ReadInv(reading, org', described.at)
        BY <1>5, <2>1 DEF ReadInv, ReadCredible
      <3> QED BY <1>1, <1>2, <3>1, <3>2 DEF ReadsInv
    <2>2. CASE reading.step \in {"row", "default"}
      <3>1. reading \in ReadRecord /\ reading.step \in {"row", "default"}
        BY <1>5, <2>2 DEF ReadInv
      <3>2. reading # NoRequest
        BY <3>1 DEF ReadRecord, NoRequest, Views, ReadersView
      <3>3. reading' = [reading EXCEPT !.heard = @ \cup {Default(org')}]
        BY <1>2, <2>2, <3>2 DEF Hearing
      <3>4. reading' \in ReadRecord
        BY <1>3, <3>1, <3>3 DEF ReadRecord
      <3>5. /\ reading'.view = reading.view /\ reading'.kind = reading.kind
            /\ reading'.self = reading.self /\ reading'.app = reading.app
            /\ reading'.scopes = reading.scopes /\ reading'.step = reading.step
            /\ reading'.asOf = reading.asOf /\ reading'.reply = reading.reply
            /\ Default(org') \in reading'.heard
        BY <3>1, <3>3 DEF ReadRecord
      <3>6. ReadTerms(reading')
        <4>1. ReadTerms(reading) /\ (reading.step = "default" => reading.view \in ReadersView)
          BY <1>5 DEF ReadInv, ReadTerms
        <4> QED BY <3>1, <3>4, <3>5, <4>1, SameTerms
      <3>7. ReadCurrent(reading', described.at)
        BY <1>5, <3>5 DEF ReadInv, ReadCurrent, Covered
      <3>8. ReadCredible(reading', org')
        BY <3>1, <3>5 DEF ReadCredible
      <3> QED BY <1>1, <1>2, <3>4, <3>6, <3>7, <3>8 DEF ReadsInv, ReadInv
    <2> QED BY <2>1, <2>2
  <1> QED BY <1>4, <1>5 DEF ReadsInv

----------------------------------------------------------------------------
LEMMA ReadStartKeeps ==
    ASSUME ReadsInv, NEW view \in Views, NEW self \in BOOLEAN, NEW app \in BOOLEAN,
           NEW scopes \in ScopeSets \cup {{}}, StartRead(view, self, app, scopes)
    PROVE  ReadsInv'
  <1> DEFINE r == [view |-> view, kind |-> described.kind, self |-> self, app |-> app,
                   scopes |-> scopes, step |-> "row", heard |-> {Default(org)},
                   default |-> NoLevel, trust |-> NoLevel, used |-> {}, version |-> 0,
                   asOf |-> described.at, reply |-> described.at]
  <1>1. described \in DescribedMembers /\ org \in TrustSettings /\ edits \in Nat
    BY DEF ReadsInv
  <1>2. Default(org) \in Nat
    BY <1>1 DEF Default, TrustSettings
  <1>3. r \in ReadRecord
    BY <1>1, <1>2 DEF ReadRecord, DescribedMembers, NoLevel
  <1>4. reading' = r /\ ReadAdmitted(r) /\ UNCHANGED <<org, described, edits>>
    BY DEF StartRead
  <1>5. ReadTerms(r)
    BY <1>4 DEF ReadTerms, StartRead
  <1>6. ReadCurrent(r, described.at)
    <2>1. \A a \in VersionedAttributes : described.at[a] \in Nat
      BY <1>1 DEF DescribedMembers, AttributeVersions
    <2>2. Covered(r) = {}
      BY DEF Covered
    <2>3. r.asOf = described.at
      OBVIOUS
    <2> HIDE DEF r
    <2>4. \A a \in VersionedAttributes : r.asOf[a] <= described.at[a]
      BY <2>1, <2>3
    <2> QED BY <2>2, <2>4 DEF ReadCurrent
  <1>7. ReadCredible(r, org)
    BY DEF ReadCredible
  <1> QED BY <1>1, <1>3, <1>4, <1>5, <1>6, <1>7 DEF ReadsInv, ReadInv

\* A statement of the read: what it leaves the read with.
LEMMA StatementKeeps ==
    ASSUME ReadsInv, UNCHANGED <<org, described, edits>>,
           reading' \in ReadRecord, ReadTerms(reading'),
           ReadCurrent(reading', described.at), ReadCredible(reading', org)
    PROVE  ReadsInv'
  BY DEF ReadsInv, ReadInv

LEMMA UnderWay ==
    ASSUME ReadsInv, reading # NoRequest
    PROVE  /\ reading \in ReadRecord /\ ReadTerms(reading)
           /\ ReadCurrent(reading, described.at) /\ ReadCredible(reading, org)
           /\ described \in DescribedMembers /\ org \in TrustSettings
           /\ described.at \in AttributeVersions
           /\ \A a \in VersionedAttributes :
                reading.asOf[a] \in Nat /\ reading.reply[a] \in Nat /\ described.at[a] \in Nat
  BY DEF ReadsInv, ReadInv, ReadRecord, DescribedMembers, AttributeVersions

LEMMA RowKeeps ==
    ASSUME ReadsInv, ReadRow
    PROVE  ReadsInv'
  <1> DEFINE read == RowReads(reading.view)
  <1>1. /\ reading # NoRequest /\ reading.step = "row"
        /\ reading' = [reading EXCEPT
             !.step = AfterRow(reading.view), !.version = described.version, !.asOf = described.at,
             !.reply = KeptAttributes(reading, read)]
        /\ UNCHANGED <<org, described, edits>>
    BY DEF ReadRow
  <1>2. /\ reading \in ReadRecord /\ ReadTerms(reading) /\ ReadCredible(reading, org)
        /\ described \in DescribedMembers /\ described.at \in AttributeVersions
        /\ \A a \in VersionedAttributes : described.at[a] \in Nat
    BY <1>1, UnderWay
  <1>3. /\ KeptAttributes(reading, read) \in AttributeVersions
        /\ \A a \in VersionedAttributes : KeptAttributes(reading, read)[a]
                = IF a \in read THEN described.at[a] ELSE reading.reply[a]
    BY <1>2, KeptTyped
  <1>4. /\ AfterRow(reading.view) \in {"default", "extras", "reply"}
        /\ AfterRow(reading.view) = "default" => reading.view \in ReadersView
        /\ AfterRow(reading.view) = "extras" => reading.view = "member"
        /\ AfterRow(reading.view) = "reply" => reading.view \notin ReadersView \cup {"member"}
    BY DEF AfterRow, ReadersView
  <1>5. described.version \in Nat
    BY <1>2 DEF DescribedMembers
  <1>6. reading' \in ReadRecord
    BY <1>1, <1>2, <1>3, <1>4, <1>5 DEF ReadRecord
  <1>7. /\ reading'.view = reading.view /\ reading'.kind = reading.kind
        /\ reading'.self = reading.self /\ reading'.app = reading.app
        /\ reading'.scopes = reading.scopes /\ reading'.step = AfterRow(reading.view)
        /\ reading'.heard = reading.heard /\ reading'.asOf = described.at
        /\ reading'.reply = KeptAttributes(reading, read)
    BY <1>1, <1>2 DEF ReadRecord
  <1>8. ReadTerms(reading')
    BY <1>2, <1>4, <1>6, <1>7, SameTerms
  <1>9. ReadCurrent(reading', described.at)
    <2>1. Covered(reading') \in SUBSET (read \cap VersionedAttributes)
      BY <1>4, <1>7 DEF Covered, RowReads, VersionedAttributes
    <2> QED BY <1>2, <1>3, <1>7, <2>1 DEF ReadCurrent
  <1>10. ReadCredible(reading', org)
    BY <1>1, <1>2, <1>4, <1>7 DEF ReadCredible, ReadersView
  <1> QED BY <1>1, <1>6, <1>8, <1>9, <1>10, StatementKeeps

LEMMA DefaultKeeps ==
    ASSUME ReadsInv, ReadDefault
    PROVE  ReadsInv'
  <1>1. /\ reading # NoRequest /\ reading.step = "default"
        /\ reading' = [reading EXCEPT !.step = "match", !.default = Default(org)]
        /\ UNCHANGED <<org, described, edits>>
    BY DEF ReadDefault
  <1>2. /\ reading \in ReadRecord /\ ReadTerms(reading) /\ ReadCredible(reading, org)
        /\ ReadCurrent(reading, described.at) /\ org \in TrustSettings
    BY <1>1, UnderWay
  <1>3. Default(org) \in Nat
    BY <1>2 DEF Default, TrustSettings
  <1>4. reading' \in ReadRecord
    BY <1>1, <1>2, <1>3 DEF ReadRecord
  <1>5. /\ reading'.view = reading.view /\ reading'.kind = reading.kind
        /\ reading'.self = reading.self /\ reading'.app = reading.app
        /\ reading'.scopes = reading.scopes /\ reading'.step = "match"
        /\ reading'.heard = reading.heard /\ reading'.asOf = reading.asOf
        /\ reading'.reply = reading.reply /\ reading'.default = Default(org)
    BY <1>1, <1>2 DEF ReadRecord
  <1>6. reading.view \in ReadersView
    BY <1>1, <1>2 DEF ReadTerms
  <1>7. ReadTerms(reading')
    BY <1>2, <1>4, <1>5, <1>6, SameTerms
  <1>8. ReadCurrent(reading', described.at)
    BY <1>1, <1>2, <1>5 DEF ReadCurrent, Covered
  <1>9. ReadCredible(reading', org)
    BY <1>1, <1>2, <1>5 DEF ReadCredible
  <1> QED BY <1>1, <1>4, <1>7, <1>8, <1>9, StatementKeeps

LEMMA MatchesKeep ==
    ASSUME ReadsInv, ReadMatches
    PROVE  ReadsInv'
  <1> DEFINE then == IF reading.view = "details" THEN "members" ELSE "reply"
             trust == EvaluateMatches(reading.default, org)
             used == {<<k, org.rule[k]>> : k \in MatchingRules(org)}
  <1>1. /\ reading # NoRequest /\ reading.step = "match"
        /\ reading' = [reading EXCEPT !.step = then, !.trust = trust, !.used = used]
        /\ UNCHANGED <<org, described, edits>>
    BY DEF ReadMatches
  <1>2. /\ reading \in ReadRecord /\ ReadTerms(reading) /\ ReadCredible(reading, org)
        /\ ReadCurrent(reading, described.at) /\ org \in TrustSettings
    BY <1>1, UnderWay
  <1>3. trust \in Nat
    <2>1. reading.default \in Nat
      BY <1>2 DEF ReadRecord
    <2> QED BY <1>2, <2>1, EvaluatesToNat
  <1>4. used \in SUBSET (RuleKinds \X Nat)
    BY <1>2 DEF TrustSettings, MatchingRules
  <1> HIDE DEF trust, used, then
  <1>5. then \in {"members", "reply"} /\ (then = "members" <=> reading.view = "details")
    BY DEF then
  <1>6. reading' \in ReadRecord
    BY <1>1, <1>2, <1>3, <1>4, <1>5 DEF ReadRecord
  <1>7. /\ reading'.view = reading.view /\ reading'.kind = reading.kind
        /\ reading'.self = reading.self /\ reading'.app = reading.app
        /\ reading'.scopes = reading.scopes /\ reading'.step = then
        /\ reading'.heard = reading.heard /\ reading'.asOf = reading.asOf
        /\ reading'.reply = reading.reply /\ reading'.trust = trust /\ reading'.used = used
    BY <1>1, <1>2 DEF ReadRecord
  <1>8. ReadTerms(reading')
    BY <1>2, <1>5, <1>6, <1>7, SameTerms
  <1>9. ReadCurrent(reading', described.at)
    <2>1. Covered(reading') \in SUBSET Covered(reading)
      BY <1>1, <1>5, <1>7 DEF Covered
    <2> QED BY <1>2, <1>7, <2>1 DEF ReadCurrent
  <1>10. CredibleTrust(reading')
    <2>1. CASE MatchingRules(org) = {}
      <3>1. used = {} /\ trust = reading.default
        BY <2>1 DEF used, trust, EvaluateMatches
      <3>2. reading.default \in reading.heard
        BY <1>1, <1>2 DEF ReadCredible
      <3> QED BY <1>7, <3>1, <3>2 DEF CredibleTrust
    <2>2. CASE MatchingRules(org) # {}
      <3>1. PICK k \in MatchingRules(org) :
              /\ org.rule[k] = trust
              /\ \A j \in MatchingRules(org) :
                   \/ Specificity(j) < Specificity(k)
                   \/ Specificity(j) = Specificity(k) /\ org.rule[j] >= org.rule[k]
        BY <1>2, <2>2, MatchesDecide DEF trust
      <3>2. <<k, org.rule[k]>> \in used
        BY DEF used
      <3>3. ASSUME NEW v \in used
            PROVE  \/ Specificity(v[1]) < Specificity(k)
                   \/ Specificity(v[1]) = Specificity(k) /\ v[2] >= org.rule[k]
        <4>1. PICK j \in MatchingRules(org) : v = <<j, org.rule[j]>>
          BY DEF used
        <4> QED BY <3>1, <4>1
      <3> DEFINE u == <<k, org.rule[k]>>
      <3>4. u \in reading'.used /\ u[1] = k /\ u[2] = org.rule[k] /\ u[2] = reading'.trust
        BY <1>7, <3>1, <3>2
      <3> HIDE DEF u
      <3>5. \A v \in reading'.used : \/ Specificity(v[1]) < Specificity(u[1])
                                     \/ Specificity(v[1]) = Specificity(u[1]) /\ v[2] >= u[2]
        BY <1>7, <3>3, <3>4
      <3> QED BY <3>4, <3>5 DEF CredibleTrust
    <2> QED BY <2>1, <2>2
  <1>11. ReadCredible(reading', org)
    BY <1>5, <1>7, <1>10 DEF ReadCredible
  <1> QED BY <1>1, <1>6, <1>8, <1>9, <1>11, StatementKeeps

LEMMA BatchKeeps ==
    ASSUME ReadsInv, ReadMembers
    PROVE  ReadsInv'
  <1>1. /\ reading # NoRequest /\ reading.step = "members"
        /\ reading' = [reading EXCEPT
             !.step = "extras", !.version = described.version, !.asOf = described.at,
             !.reply = KeptAttributes(reading, Later)]
        /\ UNCHANGED <<org, described, edits>>
    BY DEF ReadMembers
  <1>2. /\ reading \in ReadRecord /\ ReadTerms(reading) /\ ReadCredible(reading, org)
        /\ described \in DescribedMembers /\ described.at \in AttributeVersions
        /\ \A a \in VersionedAttributes : described.at[a] \in Nat
    BY <1>1, UnderWay
  <1>3. /\ KeptAttributes(reading, Later) \in AttributeVersions
        /\ \A a \in VersionedAttributes : KeptAttributes(reading, Later)[a]
                = IF a \in Later THEN described.at[a] ELSE reading.reply[a]
    BY <1>2, KeptTyped
  <1>4. described.version \in Nat
    BY <1>2 DEF DescribedMembers
  <1>5. reading' \in ReadRecord
    BY <1>1, <1>2, <1>3, <1>4 DEF ReadRecord
  <1>6. /\ reading'.view = reading.view /\ reading'.kind = reading.kind
        /\ reading'.self = reading.self /\ reading'.app = reading.app
        /\ reading'.scopes = reading.scopes /\ reading'.step = "extras"
        /\ reading'.heard = reading.heard /\ reading'.asOf = described.at
        /\ reading'.reply = KeptAttributes(reading, Later)
        /\ reading'.trust = reading.trust /\ reading'.used = reading.used
    BY <1>1, <1>2 DEF ReadRecord
  <1>7. reading.view = "details"
    BY <1>1, <1>2 DEF ReadTerms
  <1>8. ReadTerms(reading')
    BY <1>2, <1>5, <1>6, <1>7, SameTerms
  <1>9. ReadCurrent(reading', described.at)
    <2>1. Covered(reading') \in SUBSET (Later \cap VersionedAttributes)
      BY <1>6, <1>7 DEF Covered, Later, VersionedAttributes
    <2> QED BY <1>2, <1>3, <1>6, <2>1 DEF ReadCurrent
  <1>10. ReadCredible(reading', org)
    <2>1. CredibleTrust(reading)
      BY <1>1, <1>2, <1>7 DEF ReadCredible, ReadersView
    <2>2. CredibleTrust(reading')
      BY <1>6, <2>1 DEF CredibleTrust
    <2> QED BY <1>6, <2>2 DEF ReadCredible
  <1> QED BY <1>1, <1>5, <1>8, <1>9, <1>10, StatementKeeps

LEMMA ExtrasKeep ==
    ASSUME ReadsInv, ReadExtras
    PROVE  ReadsInv'
  <1>1. /\ reading # NoRequest /\ reading.step = "extras"
        /\ reading' = [reading EXCEPT
             !.step = "reply", !.reply = KeptAttributes(reading, ExtraAttributes)]
        /\ UNCHANGED <<org, described, edits>>
    BY DEF ReadExtras
  <1>2. /\ reading \in ReadRecord /\ ReadTerms(reading) /\ ReadCredible(reading, org)
        /\ ReadCurrent(reading, described.at)
        /\ described \in DescribedMembers
    BY <1>1, UnderWay
  <1>3. /\ KeptAttributes(reading, ExtraAttributes) \in AttributeVersions
        /\ \A a \in VersionedAttributes : KeptAttributes(reading, ExtraAttributes)[a]
                = IF a \in ExtraAttributes THEN described.at[a] ELSE reading.reply[a]
    BY <1>2, KeptTyped
  <1>4. reading' \in ReadRecord
    BY <1>1, <1>2, <1>3 DEF ReadRecord
  <1>5. /\ reading'.view = reading.view /\ reading'.kind = reading.kind
        /\ reading'.self = reading.self /\ reading'.app = reading.app
        /\ reading'.scopes = reading.scopes /\ reading'.step = "reply"
        /\ reading'.heard = reading.heard /\ reading'.asOf = reading.asOf
        /\ reading'.reply = KeptAttributes(reading, ExtraAttributes)
        /\ reading'.trust = reading.trust /\ reading'.used = reading.used
    BY <1>1, <1>2 DEF ReadRecord
  <1>6. ReadTerms(reading')
    BY <1>2, <1>4, <1>5, SameTerms
  <1>7. ReadCurrent(reading', described.at)
    <2>1. Covered(reading') \in SUBSET (ExtraAttributes \cup Covered(reading))
      BY <1>1, <1>5 DEF Covered, VersionedAttributes
    <2>2. Covered(reading') \in SUBSET VersionedAttributes
      BY <1>5 DEF Covered
    <2> QED BY <1>2, <1>3, <1>5, <2>1, <2>2 DEF ReadCurrent
  <1>8. ReadCredible(reading', org)
    <2>1. reading.view \in ReadersView => CredibleTrust(reading)
      BY <1>1, <1>2 DEF ReadCredible
    <2>2. reading.view \in ReadersView => CredibleTrust(reading')
      BY <1>5, <2>1 DEF CredibleTrust
    <2> QED BY <1>5, <2>2 DEF ReadCredible
  <1> QED BY <1>1, <1>4, <1>6, <1>7, <1>8, StatementKeeps

LEMMA ReadsKeep ==
    ASSUME ReadsInv, [ReadsNext]_readsVars
    PROVE  ReadsInv'
  <1>1. CASE UNCHANGED readsVars
    BY <1>1 DEF ReadsInv, readsVars
  <1>2. ASSUME NEW view \in Views, NEW self \in BOOLEAN,
               StartRead(view, self, FALSE, {}) \/ \E s \in ScopeSets : StartRead(view, self, TRUE, s)
        PROVE  ReadsInv'
    BY <1>2, ReadStartKeeps
  <1>3. CASE NotFound \/ AnswerRead
    BY <1>3 DEF ReadsInv, NotFound, AnswerRead
  <1>4. CASE ReadRow \/ ReadDefault \/ ReadMatches \/ ReadMembers \/ ReadExtras
    BY <1>4, RowKeeps, DefaultKeeps, MatchesKeep, BatchKeeps, ExtrasKeep
  <1>5. CASE ChangeTrust \/ RemoveDescribed
    BY <1>5, TrustKeeps, RemoveKeeps
  <1>6. CASE \/ ChangeAccess \/ UpdateSilicon \/ ReplaceJobRole \/ ReplaceTags
             \/ ChangeReadRole \/ ChangeReadCapabilities
    <2>1. PICK a \in VersionedAttributes : Change(a)
      BY <1>6 DEF ChangeAccess, UpdateSilicon, ReplaceJobRole, ReplaceTags, ChangeReadRole,
                  ChangeReadCapabilities, VersionedAttributes, RowAttributes, ExtraAttributes
    <2> QED BY <2>1, ChangeKeeps
  <1> QED BY <1>1, <1>2, <1>3, <1>4, <1>5, <1>6 DEF ReadsNext

\* What a directory read answers is covered by the scopes it was asked with, trust by
\* the rules it read, and no attribute is older than the version given with it, for
\* every set of scopes, every number of levels and of changes between the statements.
THEOREM ReadsSoundHolds == ReadsSpec => []ReadsSound
  <1>1. ReadsInit => ReadsInv
    <2> SUFFICES ASSUME ReadsInit PROVE ReadsInv
      OBVIOUS
    <2>1. org \in TrustSettings
      <3>1. \A f \in [RuleKinds -> {NoLevel}] : f \in [RuleKinds -> Nat]
        BY DEF NoLevel
      <3>2. NoLevel \in Nat /\ Levels \in SUBSET Nat
        BY ReadsAssumption DEF NoLevel
      <3> QED BY <3>1, <3>2 DEF ReadsInit, TrustSettings
    <2>2. described \in DescribedMembers
      <3>1. \A f \in [VersionedAttributes -> {1}] : f \in AttributeVersions
        BY DEF AttributeVersions
      <3>2. described \in [kind : {"carbons", "silicons"}, version : {1}, active : {TRUE},
                            at : [VersionedAttributes -> {1}]]
        BY DEF ReadsInit, VersionedAttributes
      <3>3. \A a \in VersionedAttributes : described.at[a] = 1
        BY <3>2
      <3>4. described \in [kind : {"carbons", "silicons"}, version : Nat, active : BOOLEAN,
                            at : AttributeVersions]
        <4>1. described.at \in AttributeVersions /\ 1 \in Nat /\ TRUE \in BOOLEAN
          BY <3>1, <3>2
        <4> QED BY <3>2, <4>1
      <3> QED BY <3>2, <3>3, <3>4 DEF DescribedMembers
    <2> QED BY <2>1, <2>2 DEF ReadsInit, ReadsInv
  <1>2. ReadsInv /\ [ReadsNext]_readsVars => ReadsInv'
    BY ReadsKeep
  <1>3. ReadsInv => ReadsSound
    <2> SUFFICES ASSUME ReadsInv, ReadAnswers PROVE ReadsSound
      BY DEF ReadsSound, DisclosedAsCatalogued, TrustCredible, VersionCovers
    <2>1. /\ reading \in ReadRecord /\ ReadTerms(reading) /\ ReadCredible(reading, org)
          /\ ReadCurrent(reading, described.at) /\ reading.step = "reply"
          /\ \A a \in VersionedAttributes : reading.asOf[a] \in Nat /\ reading.reply[a] \in Nat
      BY UnderWay DEF ReadAnswers
    <2>2. DisclosedAsCatalogued
      BY <2>1, FieldsCatalogued DEF DisclosedAsCatalogued
    <2>3. TrustCredible
      BY <2>1 DEF TrustCredible, ReadCredible, CredibleTrust
    <2>4. VersionCovers
      <3>1. DOMAIN reading.reply = VersionedAttributes
        BY <2>1 DEF ReadRecord, AttributeVersions
      <3>2. \A a \in VersionedAttributes
                     \ (IF reading.view = "details" THEN {"role", "job"} ELSE {}) :
                reading.asOf[a] <= reading.reply[a]
        BY <2>1 DEF ReadCurrent, Covered
      <3> QED BY <2>1, <3>1, <3>2 DEF VersionCovers
    <2> QED BY <2>2, <2>3, <2>4 DEF ReadsSound
  <1> QED BY <1>1, <1>2, <1>3, PTL DEF ReadsSpec
=============================================================================
