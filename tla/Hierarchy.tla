------------------------------ MODULE Hierarchy ------------------------------
(***************************************************************************)
(* Reporting lines of silicons, the first silicon of a carbon, and what a  *)
(* removal does to both.                                                   *)
(*                                                                         *)
(* Sources: src/features/organizations/{silicons,directory}.rs, the trigger*)
(* of migrations/0002 and remove_organization_membership of 0034.          *)
(*                                                                         *)
(* Whoever writes a reporting line holds the advisory lock of the          *)
(* organization's hierarchy to commit, but a request first looks at its    *)
(* references without any lock; so it looks, and later writes.             *)
(***************************************************************************)
EXTENDS Naturals

CONSTANTS
    Subordinates,  \* silicons that may be created
    Principals,    \* carbons with a first silicon
    Moves          \* requests that may be in flight at once

Top == "top"

ASSUME HierarchyAssumption == Top \notin Subordinates

NoMove == [kind |-> "idle"]

VARIABLES
    alive,   \* iam.silicons.provisioning_status with the membership's status
    boss,    \* iam.silicons.reports_to_membership_id
    first,   \* iam.carbon_membership_settings.first_silicon_membership_id
    move     \* requests that have looked at their references

hierarchyVars == <<alive, boss, first, move>>

HierarchyInit ==
    /\ alive = [s \in Subordinates |-> "absent"]
    /\ boss = [s \in Subordinates |-> Top]
    /\ first = [c \in Principals |-> Top]
    /\ move = [m \in Moves |-> NoMove]

Alive(s) == s \in Subordinates /\ alive[s] = "active"
Bosses == Subordinates \cup {Top}

\* The recursive query of the trigger, its least solution: r reports to s, through
\* one step or more, when s is in every set that holds whom r reports to and, with
\* a silicon, whom that one reports to.
Below(lines, r, s) ==
    \A up \in SUBSET Subordinates :
        (\A t \in up \cup {r} : lines[t] \in up \cup {Top}) => s \in up

\* validate_references, validate_active_silicon: looked at, not locked.
LookUp(m, kind, who, reference) ==
    /\ move[m] = NoMove
    /\ kind = "create" => alive[who] = "absent"
    /\ kind = "reparent" => Alive(who)
    /\ kind = "first" => Alive(reference)
    /\ reference # Top => Alive(reference)
    /\ move' = [move EXCEPT ![m] = [kind |-> kind, who |-> who, reference |-> reference]]
    /\ UNCHANGED <<alive, boss, first>>

\* The request is refused or its client goes away.
GiveUp(m) ==
    /\ move[m] # NoMove
    /\ move' = [move EXCEPT ![m] = NoMove]
    /\ UNCHANGED <<alive, boss, first>>

\* Mutant of SupervisorFits: what the request saw is not looked at again.
SupervisorTrusted(s, b) == b # s

\* prevent_silicon_reporting_cycle.
SupervisorFits(s, b) ==
    b # Top => Alive(b) /\ b # s /\ ~Below(boss, b, s)

\* create_silicon.
InsertSilicon(m) ==
    LET c == move[m] IN
    /\ c # NoMove /\ c.kind = "create"
    /\ alive[c.who] = "absent"
    /\ SupervisorFits(c.who, c.reference)
    /\ alive' = [alive EXCEPT ![c.who] = "active"]
    /\ boss' = [boss EXCEPT ![c.who] = c.reference]
    /\ move' = [move EXCEPT ![m] = NoMove]
    /\ UNCHANGED first

\* update_silicon and update_silicon_directory with reports_to_membership_id.
Reparent(m) ==
    LET c == move[m] IN
    /\ c # NoMove /\ c.kind = "reparent"
    /\ Alive(c.who) /\ boss[c.who] # c.reference
    /\ SupervisorFits(c.who, c.reference)
    /\ boss' = [boss EXCEPT ![c.who] = c.reference]
    /\ move' = [move EXCEPT ![m] = NoMove]
    /\ UNCHANGED <<alive, first>>

\* update_carbon_directory: the silicon is not looked at again.
SetFirstSilicon(m) ==
    LET c == move[m] IN
    /\ c # NoMove /\ c.kind = "first"
    /\ first' = [first EXCEPT ![c.who] = c.reference]
    /\ move' = [move EXCEPT ![m] = NoMove]
    /\ UNCHANGED <<alive, boss>>

Reports(s) == {r \in Subordinates : Alive(r) /\ boss[r] = s}

\* Mutant of SuccessorFits: the successor may be anybody who is there.
SuccessorAlive(s, successor) == Alive(successor) /\ successor # s

\* lock_membership_removal_event_scope: a successor is needed for reports, and is
\* neither the removed silicon nor below it.
SuccessorFits(s, successor) ==
    /\ Reports(s) # {} => successor # Top
    /\ successor # Top =>
         Alive(successor) /\ successor # s /\ ~Below(boss, successor, s)

\* remove_silicon: remove_organization_membership.
RemoveSubordinate(s, successor) ==
    /\ Alive(s)
    /\ SuccessorFits(s, successor)
    /\ alive' = [alive EXCEPT ![s] = "deleted"]
    /\ boss' = [r \in Subordinates |-> IF r \in Reports(s) THEN successor ELSE boss[r]]
    /\ first' = [c \in Principals |-> IF first[c] = s THEN Top ELSE first[c]]
    /\ UNCHANGED move

HierarchyNext ==
    \/ \E m \in Moves, who \in Subordinates, b \in Bosses :
         \/ LookUp(m, "create", who, b)
         \/ LookUp(m, "reparent", who, b)
    \/ \E m \in Moves, c \in Principals, s \in Subordinates : LookUp(m, "first", c, s)
    \/ \E m \in Moves : GiveUp(m)
    \/ \E m \in Moves : InsertSilicon(m)
    \/ \E m \in Moves : Reparent(m)
    \/ \E m \in Moves : SetFirstSilicon(m)
    \/ \E s \in Subordinates, successor \in Bosses : RemoveSubordinate(s, successor)

HierarchySpec == HierarchyInit /\ [][HierarchyNext]_hierarchyVars
----------------------------------------------------------------------------
(* Properties *)

\* Every silicon reports to nobody or to a silicon that is there, and never,
\* through whatever chain, to itself, although supervisors are removed and moved
\* while requests that looked at them are on their way.
HierarchySound ==
    \A s \in Subordinates : Alive(s) =>
        /\ boss[s] # Top => Alive(boss[s])
        /\ ~Below(boss, s, s)
=============================================================================
