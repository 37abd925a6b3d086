------------------------ MODULE HoneycombOperations ------------------------
(***************************************************************************)
(* The operations Honeycomb sends to IAM, on one application bundle: each   *)
(* carries an id, the IAM revision it was made from and Honeycomb's own     *)
(* increasing configuration number; requests are repeated, overlap and      *)
(* arrive late, and owners still edit the bundle themselves.  What IAM      *)
(* accepts is reported back by signed notifications.                        *)
(*                                                                          *)
(* Sources: src/features/applications/honeycomb.rs, honeycomb/operations.rs *)
(*          (claim, complete), honeycomb/operations/bundles.rs, honeycomb/  *)
(*          events.rs, applications/bundles.rs (mutate), worker/honeycomb.rs*)
(*          and migrations 0079, 0097.                                      *)
(*                                                                          *)
(* A call is one transaction of three steps: it claims its operation, reads *)
(* the bundle under the row's lock, and writes.  Which applications may be  *)
(* members is the matter of BundleLogin.                                    *)
(***************************************************************************)
EXTENDS Naturals, FiniteSets, FiniteSetsExt

CONSTANTS
    HoneycombOps,     \* operation ids
    HoneycombCalls,   \* requests under way at once
    MaxIamRevision,   \* bound on the bundle's version
    MaxConfiguration, \* bound on configuration numbers
    MaxPosts          \* bound on the attempts to notify of one operation

Owner == "owner"
Nobody == "nobody"
NoBody == [expected |-> 0, configuration |-> 0, deleted |-> FALSE]
NoHoneycombCall == [at |-> "idle", op |-> "none"]
ASSUME HoneycombAssumption == Owner \notin HoneycombOps /\ Nobody \notin HoneycombOps

NoLetter == [on |-> FALSE, attempt |-> 0, due |-> FALSE, delivered |-> FALSE]

VARIABLES
    body,       \* what Honeycomb sends with each operation id, the same every time
    stored,     \* the bundle's row; by is who wrote it last
    result,     \* iam.honeycomb_operations: the revision a completed one answers with
    answers,    \* revisions Honeycomb was answered with, by operation
    request,    \* the calls
    letter,     \* iam.honeycomb_management_events
    posts,      \* notifications the workers are sending
    received,   \* operations Honeycomb has been notified of
    retired     \* retire_legacy_writers is set

operationsVars == <<body, stored, result, answers, request, letter, posts, received, retired>>

NoBundle == [exists |-> FALSE, gone |-> FALSE, version |-> 0, configuration |-> 0, by |-> Nobody]

OperationsInit ==
    /\ body = [o \in HoneycombOps |-> NoBody]
    /\ stored = NoBundle
    /\ result = [o \in HoneycombOps |-> 0]
    /\ answers = [o \in HoneycombOps |-> {}]
    /\ request = [c \in HoneycombCalls |-> NoHoneycombCall]
    /\ letter = [o \in HoneycombOps |-> NoLetter]
    /\ posts = {}
    /\ received = {}
    /\ retired \in BOOLEAN

Completed(o) == result[o] > 0

----------------------------------------------------------------------------
(* Calls of Honeycomb *)

\* Honeycomb makes an operation from a revision it once read.
Compose(o) ==
    /\ body[o] = NoBody
    /\ \E expected \in 0..stored.version, n \in 1..MaxConfiguration, d \in BOOLEAN :
           body' = [body EXCEPT ![o] = [expected |-> expected, configuration |-> n, deleted |-> d]]
    /\ UNCHANGED <<stored, result, answers, request, letter, posts, received, retired>>

\* claim: the advisory lock of the key and the record of the operation.
OperationFree(o) == \A c \in HoneycombCalls : request[c].op # o

\* A completed operation answers with its result, whatever happened since.
ClaimOperation(c, o) ==
    /\ request[c] = NoHoneycombCall /\ body[o] # NoBody /\ OperationFree(o)
    /\ IF Completed(o)
       THEN /\ answers' = [answers EXCEPT ![o] = @ \cup {result[o]}]
            /\ UNCHANGED request
       ELSE /\ request' = [request EXCEPT ![c] = [at |-> "claimed", op |-> o]]
            /\ UNCHANGED answers
    /\ UNCHANGED <<body, stored, result, letter, posts, received, retired>>

\* Mutant of Newer: the number is not compared.
NewerOrNot(b) == b.configuration > 0

\* Honeycomb's number only increases, in configure and in honeycomb_bundle_revision.
Newer(b) == b.configuration > stored.configuration

\* The operation was made from the revision that stands.
Based(b) == b.expected = stored.version

\* honeycomb_bundle_revision locks the row, also that of a deleted bundle.
RowHolders == {c \in HoneycombCalls : request[c].at = "read"}

ReadBundle(c) ==
    LET b == body[request[c].op] IN
    /\ request[c].at = "claimed"
    /\ stored.exists => RowHolders = {}
    /\ Based(b) /\ Newer(b)
    /\ request' = [request EXCEPT ![c].at = "read"]
    /\ UNCHANGED <<body, stored, result, answers, letter, posts, received, retired>>

\* mutate_application_bundle: a deleted bundle is not found, two creations of a bundle
\* exclude one another.  Its write and that of the number each count a version.
Mutable(b) ==
    IF b.expected = 0 THEN ~stored.exists /\ ~b.deleted ELSE stored.exists /\ ~stored.gone

\* complete queues one event with the result.
QueuedLetter == [NoLetter EXCEPT !.on = TRUE, !.due = TRUE]

\* The write, the result and the event commit together; the answer may be lost.
Accept(c) ==
    LET o == request[c].op
        b == body[o]
        version == stored.version + 2
    IN
    /\ request[c].at = "read"
    /\ Mutable(b) /\ Newer(b)
    /\ version <= MaxIamRevision
    /\ stored' = [exists |-> TRUE, gone |-> b.deleted, version |-> version,
                  configuration |-> b.configuration, by |-> o]
    /\ result' = [result EXCEPT ![o] = version]
    /\ answers' \in {answers, [answers EXCEPT ![o] = @ \cup {version}]}
    /\ letter' = [letter EXCEPT ![o] = QueuedLetter]
    /\ request' = [request EXCEPT ![c] = NoHoneycombCall]
    /\ UNCHANGED <<body, posts, received, retired>>

\* Any refusal or failure rolls the claim back too.
Reject(c) ==
    /\ request[c] # NoHoneycombCall
    /\ request' = [request EXCEPT ![c] = NoHoneycombCall]
    /\ UNCHANGED <<body, stored, result, answers, letter, posts, received, retired>>

----------------------------------------------------------------------------
(* Owners: mutate, unless legacy_writer_guard refuses the route *)

OwnerWrites(gone) ==
    /\ ~retired
    /\ ~stored.gone /\ RowHolders = {} /\ stored.version < MaxIamRevision
    /\ gone => stored.exists
    /\ stored' = [stored EXCEPT !.exists = TRUE, !.gone = gone, !.version = @ + 1, !.by = Owner]
    /\ UNCHANGED <<body, result, answers, request, letter, posts, received, retired>>

----------------------------------------------------------------------------
(* Notifications *)

\* claim_honeycomb_management_events: due again in two minutes.
ClaimLetter(o) ==
    /\ letter[o].on /\ letter[o].due /\ ~letter[o].delivered /\ letter[o].attempt < MaxPosts
    /\ letter' = [letter EXCEPT ![o].attempt = @ + 1, ![o].due = FALSE]
    /\ posts' = posts \cup {[op |-> o, attempt |-> letter[o].attempt + 1, ok |-> FALSE]}
    /\ UNCHANGED <<body, stored, result, answers, request, received, retired>>

LetterDue(o) ==
    /\ letter[o].on /\ ~letter[o].due
    /\ letter' = [letter EXCEPT ![o].due = TRUE]
    /\ UNCHANGED <<body, stored, result, answers, request, posts, received, retired>>

\* Honeycomb takes the notification; its answer may be lost.
Arrive(p) ==
    /\ p \in posts /\ ~p.ok
    /\ received' = received \cup {p.op}
    /\ posts' \in {posts, (posts \ {p}) \cup {[p EXCEPT !.ok = TRUE]}}
    /\ UNCHANGED <<body, stored, result, answers, request, letter, retired>>

\* Mutant of Current: a late acknowledgement ends a newer attempt.
CurrentOrNot(p) == ~letter[p.op].delivered

\* finish_honeycomb_management_event: only for the attempt that stands.
Current(p) == letter[p.op].attempt = p.attempt /\ ~letter[p.op].delivered

FinishLetter(p) ==
    /\ p \in posts
    /\ letter' = IF Current(p)
                 THEN [letter EXCEPT ![p.op].delivered = p.ok, ![p.op].due = FALSE] ELSE letter
    /\ posts' = posts \ {p}
    /\ UNCHANGED <<body, stored, result, answers, request, received, retired>>

\* The worker stops while it sends.
DropPost(p) ==
    /\ p \in posts
    /\ posts' = posts \ {p}
    /\ UNCHANGED <<body, stored, result, answers, request, letter, received, retired>>

\* replay: the same notification again.
ReplayLetter(o) ==
    /\ letter[o].on /\ (letter[o].delivered \/ ~letter[o].due)
    /\ letter' = [letter EXCEPT ![o].delivered = FALSE, ![o].due = TRUE]
    /\ UNCHANGED <<body, stored, result, answers, request, posts, received, retired>>

OperationsNext ==
    \/ \E o \in HoneycombOps : Compose(o) \/ ClaimLetter(o) \/ LetterDue(o) \/ ReplayLetter(o)
    \/ \E c \in HoneycombCalls :
           (\E o \in HoneycombOps : ClaimOperation(c, o)) \/ ReadBundle(c) \/ Accept(c) \/ Reject(c)
    \/ \E gone \in BOOLEAN : OwnerWrites(gone)
    \/ \E p \in posts : Arrive(p) \/ FinishLetter(p) \/ DropPost(p)

OperationsSpec == OperationsInit /\ [][OperationsNext]_operationsVars

----------------------------------------------------------------------------
(* Properties *)

Accepted == {o \in HoneycombOps : Completed(o)}

(* However requests overlap, repeat or arrive late: what Honeycomb wrote last *)
(* is what it numbered highest, unless an owner has written since; no two      *)
(* operations were made from the same revision; and an operation is answered   *)
(* with the one revision it produced.                                          *)
ConfigurationOrdered ==
    /\ stored.by \in HoneycombOps => body[stored.by].configuration = Max({body[o].configuration : o \in Accepted})
    /\ \A o, q \in Accepted : o # q => body[o].expected # body[q].expected
    /\ \A o \in HoneycombOps : answers[o] \subseteq {result[o]} \ {0}

(* A notification counts as delivered only when Honeycomb took it, and no      *)
(* other worker is then sending a newer attempt of it.                         *)
NotifiedOnce ==
    /\ \A o \in HoneycombOps : letter[o].delivered => o \in received
    /\ \A p \in posts : letter[p.op].delivered => p.attempt < letter[p.op].attempt \/ p.ok

\* Honeycomb's operations are applied in the order of their revisions, whatever is
\* repeated or late, and it is notified of each as delivered only if it was.
HoneycombSound == ConfigurationOrdered /\ NotifiedOnce
=============================================================================
