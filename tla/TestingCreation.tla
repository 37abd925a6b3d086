-------------------------- MODULE TestingCreation --------------------------
(***************************************************************************)
(* An application creates a testing environment, or moves into one it holds *)
(* the key of: a record in the production database and the application's    *)
(* imports in the testing database.                                         *)
(*                                                                          *)
(* Sources: src/features/testing_environments/{application_layer,graph,     *)
(*          support,handlers}.rs and migrations 0078, testing/9003.         *)
(*                                                                          *)
(* The production transaction stays open while the testing database commits *)
(* the imports, and commits last.  When it fails, the handler asks whether   *)
(* the record exists and erases the imports if it does not.  A commit may    *)
(* take effect after its caller has given it up, and the process may stop    *)
(* between any two steps; callers repeat a request with its key.             *)
(***************************************************************************)
EXTENDS Naturals, FiniteSets

CONSTANTS
    CreationKeys,   \* idempotency keys of the application
    CreationCalls,  \* handlers of create that may run at once
    FreshIds,       \* environment ids drawn by the handlers
    Quota           \* environments an organization may have

Shared == "shared"   \* the environment whose key the application was given
Ids == FreshIds \cup {Shared}
NoEnvironment == "none"

\* Ids are drawn at random, so a fresh one is neither that of the environment the
\* application was given nor the absent one; of the keys only finitely many are used.
ASSUME CreationAssumption ==
    /\ Shared \notin FreshIds
    /\ NoEnvironment \notin FreshIds
    /\ IsFiniteSet(CreationKeys)

VARIABLES
    record,     \* committed rows of iam.testing_environments
    linked,     \* committed rows of iam.application_testing_environments
    imports,    \* environments with imports in the testing database
    cleaned,    \* environments whose administrator erased the rows
    replies,    \* recorded responses: the environment each key was answered with
    creation    \* the handlers

creationVars == <<record, linked, imports, cleaned, replies, creation>>

NotCreating == [at |-> "idle", key |-> "none", env |-> NoEnvironment, own |-> FALSE]

CreationInit ==
    /\ record = [e \in Ids |-> IF e = Shared THEN "active" ELSE "absent"]
    /\ linked = {}
    /\ imports = {}
    /\ cleaned = {}
    /\ replies = [k \in CreationKeys |-> NoEnvironment]
    /\ creation = [c \in CreationCalls |-> NotCreating]

\* The production transaction is open, or its commit is still under way.
Writing(c) == creation[c].at \in {"claimed", "locked", "imported", "late"}

----------------------------------------------------------------------------

\* idempotency::claim: the first transaction with the key holds its record.
KeyUnclaimed(k) == \A c \in CreationCalls : creation[c].key = k => ~Writing(c)

\* Mutant of Unanswered: a repeated request acts again.
UnansweredOrNot(k) == TRUE

\* A key with a recorded response is answered with it.
Unanswered(k) == replies[k] = NoEnvironment

\* The organization's row, taken for update before the environments are counted.
OrganizationFree == ~\E c \in CreationCalls : Writing(c) /\ creation[c].own

Drawn == {creation[c].env : c \in CreationCalls}

\* create_application_testing_environment: a record of its own, not yet visible.
CreateRecord(c, k, e) ==
    /\ creation[c] = NotCreating /\ KeyUnclaimed(k) /\ Unanswered(k)
    /\ record[e] = "absent" /\ e \notin Drawn \cup imports
    /\ OrganizationFree
    /\ Cardinality({i \in Ids : record[i] = "active"}) < Quota
    /\ creation' = [creation EXCEPT ![c] = [at |-> "claimed", key |-> k, env |-> e, own |-> TRUE]]
    /\ UNCHANGED <<record, linked, imports, cleaned, replies>>

\* resolve_key: an existing environment, read without a lock.
PresentKey(c, k) ==
    /\ creation[c] = NotCreating /\ KeyUnclaimed(k) /\ Unanswered(k)
    /\ record[Shared] = "active"
    /\ creation' = [creation EXCEPT ![c] = [at |-> "claimed", key |-> k, env |-> Shared, own |-> FALSE]]
    /\ UNCHANGED <<record, linked, imports, cleaned, replies>>

\* lock_application_testing_environment: active, and shared from now on.
LockRecord(c) ==
    /\ creation[c].at = "claimed"
    /\ creation[c].own \/ record[creation[c].env] = "active"
    /\ creation' = [creation EXCEPT ![c].at = "locked"]
    /\ UNCHANGED <<record, linked, imports, cleaned, replies>>

\* The testing database commits the graph, of which it keeps what it has.
CommitImports(c) ==
    /\ creation[c].at = "locked"
    /\ imports' = imports \cup {creation[c].env}
    /\ creation' = [creation EXCEPT ![c].at = "imported"]
    /\ UNCHANGED <<record, linked, cleaned, replies>>

\* Mutant of Committable: production commits without waiting for the imports.
CommittableEarly(c) == creation[c].at \in {"locked", "imported", "late"}

\* The links and the response go with the record, after the imports.
Committable(c) == creation[c].at \in {"imported", "late"}

CommitRecord(c) ==
    /\ Committable(c)
    /\ LET call == creation[c] IN
         /\ record' = [record EXCEPT ![call.env] = "active"]
         /\ linked' = linked \cup {call.env}
         /\ replies' = [replies EXCEPT ![call.key] = call.env]
    /\ creation' = [creation EXCEPT ![c] = NotCreating]
    /\ UNCHANGED <<imports, cleaned>>

\* What a handler does whose transaction ended in an error: only a record of its own
\* is compensated for.  Errors before the imports' end return at once.
AfterError(c) ==
    IF creation[c].own /\ creation[c].at = "imported"
    THEN [creation[c] EXCEPT !.at = "failed", !.key = "none"]
    ELSE NotCreating

\* Rolled back, by an error or because the process stopped.
RollBack(c) ==
    /\ creation[c].at \in {"claimed", "locked", "imported"}
    /\ creation' \in {[creation EXCEPT ![c] = after] : after \in {AfterError(c), NotCreating}}
    /\ UNCHANGED <<record, linked, imports, cleaned, replies>>

\* The commit was sent, the connection broke: d goes on as its caller, which holds an
\* error, while the server may still be committing.
LoseReply(c, d) ==
    /\ creation[c].at = "imported" /\ creation[c].own
    /\ creation[d] = NotCreating
    /\ creation' = [creation EXCEPT ![c].at = "late", ![d] = AfterError(c)]
    /\ UNCHANGED <<record, linked, imports, cleaned, replies>>

\* The server drops the transaction after all.
DropLate(c) ==
    /\ creation[c].at = "late"
    /\ creation' = [creation EXCEPT ![c] = NotCreating]
    /\ UNCHANGED <<record, linked, imports, cleaned, replies>>

\* creation_rolled_back: the record is not visible; the check may fail too.
CheckRecord(c) ==
    /\ creation[c].at = "failed"
    /\ \/ /\ record[creation[c].env] = "absent"
          /\ creation' = [creation EXCEPT ![c].at = "erasing"]
       \/ creation' = [creation EXCEPT ![c] = NotCreating]
    /\ UNCHANGED <<record, linked, imports, cleaned, replies>>

\* Mutant of Erased: the transaction selects the environment, as erase does.
ErasedSelected(e) == imports \ {e}

\* erase_testing_environment for a login of the API that selected no environment: the
\* policy testing_environment_definer_required lets it see no row.
Erased(e) == imports

Compensate(c) ==
    /\ creation[c].at = "erasing"
    /\ imports' = Erased(creation[c].env)
    /\ creation' = [creation EXCEPT ![c] = NotCreating]
    /\ UNCHANGED <<record, linked, cleaned, replies>>

----------------------------------------------------------------------------
(* Administrators of the environment *)

\* clean_environment erases first, with the environment selected.
Clean(e) ==
    /\ record[e] = "active" /\ e \in imports
    /\ imports' = imports \ {e}
    /\ cleaned' = cleaned \cup {e}
    /\ UNCHANGED <<record, linked, replies, creation>>

\* delete_environment waits for the handlers that hold the record.
DeleteRecord(e) ==
    /\ record[e] = "active"
    /\ ~\E c \in CreationCalls : creation[c].env = e /\ creation[c].at \in {"locked", "imported"}
    /\ record' = [record EXCEPT ![e] = "deleted"]
    /\ UNCHANGED <<linked, imports, cleaned, replies, creation>>

CreationNext ==
    \/ \E c \in CreationCalls, k \in CreationKeys :
           PresentKey(c, k) \/ \E e \in FreshIds : CreateRecord(c, k, e)
    \/ \E c \in CreationCalls :
           \/ LockRecord(c) \/ CommitImports(c) \/ CommitRecord(c) \/ RollBack(c)
           \/ DropLate(c) \/ CheckRecord(c) \/ Compensate(c)
           \/ \E d \in CreationCalls \ {c} : LoseReply(c, d)
    \/ \E e \in Ids : Clean(e) \/ DeleteRecord(e)

CreationSpec == CreationInit /\ [][CreationNext]_creationVars

----------------------------------------------------------------------------
(* Properties *)

(* An environment the application was told it has, holds the application's  *)
(* imports until an administrator erases them, whatever failed in between;   *)
(* in particular the compensation never erases those of a record whose       *)
(* commit came after the check.                                              *)
LinkedHoldsImports == linked \subseteq imports \cup cleaned

(* A request that is repeated, even while its first commit is in doubt,      *)
(* never leaves the application with two environments for one key.           *)
OneEnvironmentPerKey ==
    Cardinality({e \in FreshIds : record[e] # "absent"}) <= Cardinality({k \in CreationKeys : ~Unanswered(k)})

\* An environment that is linked keeps what was imported for it, and a key creates one
\* environment.
CreationSound == LinkedHoldsImports /\ OneEnvironmentPerKey

(* "Compensate an unsuccessful control-plane commit after data was            *)
(* materialized": once the handler has seen that the record is absent, the    *)
(* imports do not outlive its compensation.                                   *)
CompensationErases ==
    [][\A c \in CreationCalls :
         creation[c].at = "erasing" /\ creation'[c].at # "erasing" => creation[c].env \notin imports']_creationVars

=============================================================================
