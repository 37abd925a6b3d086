------------------------- MODULE TestingEnvironment -------------------------
(***************************************************************************)
(* One testing environment: its record in the production database and its  *)
(* rows in the testing database, which cannot commit together.             *)
(*                                                                         *)
(* Sources: src/features/testing_environments/{handlers,key,support,       *)
(*          discovery,manager,honeycomb}.rs, honeycomb/{keys,authority,    *)
(*          adoption_retention}.rs, honeycomb/operations.rs (claim,        *)
(*          complete), check_testing_generation, and migrations 0098,      *)
(*          0101, 0103 and testing/9008.                                   *)
(*                                                                         *)
(* A lifecycle instruction takes three commits: the control plane records  *)
(* the new state, the testing database is switched and erased, the control *)
(* plane records the end.  The caller repeats an instruction with the same *)
(* operation id, at any time and more than once; the process may stop      *)
(* between any two commits.  Revisions are left out (the caller may always *)
(* hold the current one), and so is who may instruct.                      *)
(***************************************************************************)
EXTENDS Naturals, FiniteSets

CONSTANTS
    Lifecycles,     \* operation ids of lifecycle instructions
    Instructions,   \* HTTP calls of instruct, first deliveries and retries
    Visits,         \* data-plane requests that may be under way at once
    MaxGeneration,  \* bound on cleaning_generation
    MaxKey          \* bound on key_generation

NoOperation == "none"
Kinds == {"prepare", "rotate-key", "clean", "disable", "restore", "purge", "activate",
          "activate-apps", "import"}
Legacy == 0   \* the generation of a request to an environment Honeycomb does not manage

VARIABLES
    env,        \* iam.testing_environments
    operation,  \* iam.honeycomb_operations: kind and completed
    runtime,    \* iam_private.testing_runtime_state, in the testing database
    visit,      \* the version each data-plane request was resolved to
    rows,       \* the generations of the requests whose rows the testing database holds
    call        \* the handlers of instruct that are running

testingVars == <<env, operation, runtime, visit, rows, call>>

NoVisit == [on |-> FALSE, gen |-> 0, key |-> 0]
NoCall == [at |-> "idle", op |-> NoOperation, gen |-> 0, key |-> 0, active |-> FALSE]

TestingInit ==
    /\ env = [state |-> "absent", status |-> "deleted", gen |-> 1, key |-> 1,
              op |-> NoOperation, adopted |-> FALSE]
    /\ operation = [o \in Lifecycles |-> [kind |-> "none", done |-> FALSE]]
    /\ runtime = [gen |-> 0, key |-> 0, active |-> FALSE]
    /\ visit = [v \in Visits |-> NoVisit]
    /\ rows = {}
    /\ call = [c \in Instructions |-> NoCall]

Managed == env.state \notin {"absent", "legacy"}

----------------------------------------------------------------------------
(* Routes of the organization, which reach managed environments too *)

\* create_in_scope: the environment is active at once and not managed.
Create ==
    /\ env.state = "absent"
    /\ env' = [env EXCEPT !.state = "legacy", !.status = "active"]
    /\ UNCHANGED <<operation, runtime, visit, rows, call>>

DeleteEnvironment ==
    /\ env.status = "active"
    /\ env' = [env EXCEPT !.status = "deleted"]
    /\ UNCHANGED <<operation, runtime, visit, rows, call>>

\* A managed environment keeps purge_after = 'infinity', which lies ahead.
RestoreEnvironment ==
    /\ env.state # "absent" /\ env.status = "deleted"
    /\ env' = [env EXCEPT !.status = "active"]
    /\ UNCHANGED <<operation, runtime, visit, rows, call>>

\* The constraint testing_environment_purged_keys refuses a key after the purge.
RotateEnvironmentKey ==
    /\ env.status = "active" /\ env.state # "purged" /\ env.key < MaxKey
    /\ env' = [env EXCEPT !.key = @ + 1]
    /\ UNCHANGED <<operation, runtime, visit, rows, call>>

\* clean_environment and clean_current_environment erase in the testing database first.
CleanEnvironment ==
    /\ env.status = "active"
    /\ rows' = {}
    /\ UNCHANGED <<env, operation, runtime, visit, call>>

----------------------------------------------------------------------------
(* Data-plane requests *)

\* select_plane: the key, or the secret of a test application, names the version.
Resolve(v) ==
    /\ ~visit[v].on /\ env.status = "active" /\ env.state # "purged"
    /\ visit' = [visit EXCEPT ![v] =
           [on |-> TRUE, gen |-> IF Managed THEN env.gen ELSE Legacy, key |-> env.key]]
    /\ UNCHANGED <<env, operation, runtime, rows, call>>

\* Mutant of Admitted: the lock asks only whether the environment is in use.
AdmittedWhenActive(v) == visit[v].gen = Legacy \/ runtime.active

\* lock_testing_runtime_state, in every transaction of a versioned request.
Admitted(v) ==
    \/ visit[v].gen = Legacy
    \/ runtime = [gen |-> visit[v].gen, key |-> visit[v].key, active |-> TRUE]

WriteRow(v) ==
    /\ visit[v].on /\ Admitted(v)
    /\ rows' = rows \cup {visit[v].gen}
    /\ UNCHANGED <<env, operation, runtime, visit, call>>

Leave(v) ==
    /\ visit[v].on
    /\ visit' = [visit EXCEPT ![v] = NoVisit]
    /\ UNCHANGED <<env, operation, runtime, rows, call>>

----------------------------------------------------------------------------
(* Lifecycle instructions *)

\* honeycomb_testing_start: nobody else's operation is unfinished.
Unoccupied == env.op \in Lifecycles => operation[env.op].done

\* honeycomb_testing_start: the states each kind of instruction starts from.  Only a
\* new key needs a row that carries the service's id (adopted).
Startable(kind) ==
    /\ env.state \notin {"cleaning", "purging", "importing", "importing-active", "purged"}
    /\ CASE kind = "prepare" -> env.state \in {"absent", "legacy"}
         [] kind = "rotate-key" -> env.adopted /\ env.key < MaxKey
         [] kind = "disable" -> env.state # "absent"
         [] kind = "restore" -> env.state = "disabled"
         [] kind = "activate" -> env.state \in {"prepared", "cleaned"}
         [] kind = "activate-apps" -> env.state = "active"
         [] kind = "clean" -> env.state # "absent" /\ env.gen < MaxGeneration
         [] kind = "purge" -> env.state # "absent" /\ env.status = "deleted"
         [] kind = "import" -> env.state \in {"prepared", "cleaned", "active"}

\* What honeycomb_testing_start writes.
Started(kind, o) ==
    LET busy == kind = "import" /\ env.state = "active" IN
    [state  |-> CASE kind = "prepare" -> IF env.state = "absent" THEN "prepared"
                                         ELSE IF env.status = "active" THEN "active"
                                         ELSE "disabled"
                  [] kind = "rotate-key" -> IF env.state = "disabled" THEN "disabled" ELSE "prepared"
                  [] kind = "disable" -> "disabled"
                  [] kind = "restore" -> "prepared"
                  [] kind \in {"activate", "activate-apps"} -> "active"
                  [] kind = "clean" -> "cleaning"
                  [] kind = "purge" -> "purging"
                  [] kind = "import" -> IF busy THEN "importing-active" ELSE "importing",
     status |-> CASE kind \in {"prepare", "restore", "activate-apps"} -> env.status
                  [] kind = "activate" \/ busy -> "active"
                  [] OTHER -> "deleted",
     gen    |-> IF kind = "clean" THEN env.gen + 1 ELSE env.gen,
     key    |-> IF kind = "rotate-key" THEN env.key + 1 ELSE env.key,
     op     |-> o,
     adopted |-> env.adopted \/ kind = "prepare"]

\* The call goes on with the record as the first transaction left it.
Continue(c, o, record) ==
    call' = [call EXCEPT ![c] =
        [at |-> "started", op |-> o, gen |-> record.gen, key |-> record.key,
         active |-> record.state \in {"active", "importing-active"}]]

\* The first transaction of a new instruction.
Start(c, o, kind) ==
    /\ call[c] = NoCall /\ operation[o].kind = "none"
    /\ Unoccupied /\ Startable(kind)
    /\ env' = Started(kind, o)
    /\ operation' = [operation EXCEPT ![o].kind = kind]
    /\ Continue(c, o, Started(kind, o))
    /\ UNCHANGED <<runtime, visit, rows>>

\* The first transaction of a repeated one: the environment is still its own.
Repeat(c, o) ==
    /\ call[c] = NoCall /\ operation[o].kind # "none" /\ ~operation[o].done
    /\ env.op = o
    /\ Continue(c, o, env)
    /\ UNCHANGED <<env, operation, runtime, visit, rows>>

\* The second transaction claims the operation, which excludes other retries until
\* it ends; a completed operation answers with its stored result.
ClaimAgain(c) ==
    /\ call[c].at = "started"
    /\ \A d \in Instructions :
           call[d].op = call[c].op => call[d].at \notin {"claimed", "switched"}
    /\ call' = [call EXCEPT ![c] =
           IF operation[call[c].op].done THEN NoCall ELSE [@ EXCEPT !.at = "claimed"]]
    /\ UNCHANGED <<env, operation, runtime, visit, rows>>

\* Mutant of ErasedBy: disabling an environment empties it as purging does.
ErasedOnDisable(kind) == kind \in {"clean", "purge", "disable"}

\* The kinds of instruction that erase the environment's rows.
ErasedBy(kind) == kind \in {"clean", "purge"}

\* The testing database commits: the version it serves, the erasure, the import.
SwitchRuntime(c) ==
    LET kind == operation[call[c].op].kind IN
    /\ call[c].at = "claimed"
    /\ runtime' = [gen |-> call[c].gen, key |-> call[c].key, active |-> call[c].active]
    /\ rows' = IF ErasedBy(kind) THEN {}
               ELSE IF kind = "import" THEN rows \cup {call[c].gen} ELSE rows
    /\ call' = [call EXCEPT ![c].at = "switched"]
    /\ UNCHANGED <<env, operation, visit>>

\* honeycomb_testing_finish and complete, in the control plane: only a row that
\* carries the service's id and this operation is updated.
Finish(c) ==
    /\ call[c].at = "switched"
    /\ env.adopted /\ env.op = call[c].op
    /\ env' = [env EXCEPT !.state =
           CASE env.state = "cleaning" -> "cleaned"
             [] env.state = "importing" -> "prepared"
             [] env.state = "importing-active" -> "active"
             [] env.state = "purging" -> "purged"
             [] OTHER -> env.state]
    /\ operation' = [operation EXCEPT ![call[c].op].done = TRUE]
    /\ call' = [call EXCEPT ![c] = NoCall]
    /\ UNCHANGED <<runtime, visit, rows>>

\* The process stops, or a database fails: the open transaction rolls back.
Abort(c) ==
    /\ call[c] # NoCall
    /\ call' = [call EXCEPT ![c] = NoCall]
    /\ UNCHANGED <<env, operation, runtime, visit, rows>>

TestingNext ==
    \/ Create \/ DeleteEnvironment \/ RestoreEnvironment
    \/ RotateEnvironmentKey \/ CleanEnvironment
    \/ \E v \in Visits : Resolve(v) \/ WriteRow(v) \/ Leave(v)
    \/ \E c \in Instructions :
           \/ \E o \in Lifecycles : Repeat(c, o) \/ \E kind \in Kinds : Start(c, o, kind)
           \/ ClaimAgain(c) \/ SwitchRuntime(c) \/ Finish(c) \/ Abort(c)

TestingSpec == TestingInit /\ [][TestingNext]_testingVars

----------------------------------------------------------------------------
(* A managed environment holds rows of its current generation only, once    *)
(* its cleaning is recorded, and none at all after a purge: a request that   *)
(* was resolved before the cleaning and writes late is refused by the lock   *)
(* on the runtime state, whatever retries and crashes came between, and      *)
(* whatever the routes of the organization did meanwhile.  Requests from     *)
(* before the adoption carry no version and are not covered.                 *)
GenerationFenced ==
    /\ Managed /\ env.state \notin {"cleaning", "purging"} => rows \subseteq {Legacy, env.gen}
    /\ env.state = "purged" => rows \subseteq {Legacy}

(* A late retry never erases newly activated data: an instruction erases     *)
(* rows only while the environment is in that instruction's own cleaning or  *)
(* purging state.                                                            *)
NoLateErasureStep ==
    \A c \in Instructions :
        call[c].at = "claimed" /\ call'[c].at = "switched" /\ rows' = {} /\ rows # {}
            => env.op = call[c].op /\ env.state \in {"cleaning", "purging"}
NoLateErasure == [][NoLateErasureStep]_testingVars

(* No request admitted for one generation of an environment acts on the next, *)
(* and none erases but the operation that holds the environment.             *)
EnvironmentSound == []GenerationFenced /\ NoLateErasure

(* "Retry the exact pending operation after transport/process failure; a     *)
(* different operation conflicts until it completes": the operation that     *)
(* holds the environment can still be finished by a retry.                   *)
PendingCompletable ==
    env.op \in Lifecycles => operation[env.op].done \/ env.adopted
=============================================================================
