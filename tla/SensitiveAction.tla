--------------------------- MODULE SensitiveAction ---------------------------
(***************************************************************************)
(* Sensitive actions of an organization: each write is classified by the   *)
(* actions it contains; a policy per action says who may do it and whose   *)
(* approval it needs; an approval is for exactly one request, under one    *)
(* version of the policy, and is consumed by the write.                    *)
(*                                                                         *)
(* Sources: src/features/organizations/action_policies.rs and              *)
(*          migrations/0112_sensitive_action_policies.sql.                 *)
(*                                                                         *)
(* authorize_sensitive_action holds the caller's membership FOR SHARE and  *)
(* the lock of every action of the request until the write commits, so a   *)
(* request is one action here.  Selectors of automatic approval (carbons,  *)
(* silicons, tags) are the set of members they select.  An administrator   *)
(* may lack action_policies.manage; that only refuses.                     *)
(***************************************************************************)
EXTENDS Naturals, Sequences

CONSTANTS
    Staff,          \* memberships
    SensitiveWrites,      \* bound: the requests that may be sent, again and again
    WriteBy,        \* the membership that sends each
    WriteRoute,     \* its route
    WriteFields,    \* the fields its body sets
    ApprovalLife,   \* 12 hours, in ticks
    RecordLife,     \* IDEMPOTENCY_TTL_HOURS, in ticks
    PolicyChoices,  \* bound: what a policy may be changed to
    MaxPolicy,      \* bound: version of a policy
    MaxApprovals    \* bound: approval requests that may be created

ASSUME SensitiveActionAssumption ==
    /\ WriteBy \in [SensitiveWrites -> Staff]
    /\ ApprovalLife \in Nat \ {0} /\ RecordLife \in Nat /\ RecordLife > ApprovalLife
    /\ MaxPolicy \in Nat /\ MaxApprovals \in Nat
    /\ PolicyChoices \subseteq [allowed : {"any_member", "only_admins", "only_owner"},
                                approval : {"none", "admin", "owner"}, auto : SUBSET Staff]

VARIABLES
    staffRole,  \* role of each membership, or "removed"
    policy,     \* iam_private.organization_action_policies
    approvals,  \* iam_private.organization_action_approvals, in creation order
    remembered, \* remaining life of the idempotency record of each request
    spent       \* history: writes that rested on each approval

actionVars == <<staffRole, policy, approvals, remembered, spent>>

----------------------------------------------------------------------------
(* Classification *)

\* initial_assignment_actions: the optional parts of a creation.
AssignmentActions ==
    {<<"job_description", "membership.job_description.update">>,
     <<"tag_ids", "membership.tags.update">>,
     <<"reports_to_membership_id", "silicon.hierarchy.update">>,
     <<"first_silicon_membership_id", "membership.directory.update">>,
     <<"extra_silicon_membership_ids", "membership.directory.update">>,
     <<"default_trust", "trust.default.update">>,
     <<"tag_trust_overrides", "trust.rule.create">>,
     <<"silicon_trust_overrides", "trust.rule.create">>}

\* The fields of PATCH /members/{membership_id}.
MemberPatchActions ==
    {<<"tag_ids", "membership.tags.update">>,
     <<"default_trust", "trust.default.update">>,
     <<"reports_to_membership_id", "silicon.hierarchy.update">>,
     <<"profile_photo", "silicon.profile.update">>,
     <<"first_silicon_membership_id", "membership.directory.update">>,
     <<"extra_silicon_membership_ids", "membership.directory.update">>}

\* Routes that are one action whatever their body says.
RouteActions ==
    [organization |-> "organization.profile.update",
     job_role |-> "membership.job_description.update",
     member_tags |-> "membership.tags.update",
     create_tag |-> "tag.create", update_tag |-> "tag.update", delete_tag |-> "tag.delete",
     trust_default |-> "trust.default.update", create_rule |-> "trust.rule.create",
     update_rule |-> "trust.rule.update", delete_rule |-> "trust.rule.delete"]

Selected(pairs, fields) == {p[2] : p \in {q \in pairs : q[1] \in fields}}

\* actions: a silicon that edits its own profile is a case of its own, its place in
\* the hierarchy is not.
ActionsOf(route, fields, self) ==
    CASE route \in {"create_silicon", "invite"} -> Selected(AssignmentActions, fields)
      [] route = "member" -> Selected(MemberPatchActions, fields)
      [] route = "silicon" ->
           (IF "reports_to_membership_id" \in fields THEN {"silicon.hierarchy.update"} ELSE {})
             \cup (IF fields \subseteq {"reports_to_membership_id"} THEN {}
                   ELSE {IF self THEN "silicon.self_profile.update" ELSE "silicon.profile.update"})
      [] OTHER -> {RouteActions[route]}

WriteActions(q) == ActionsOf(WriteRoute[q], WriteFields[q], "self" \in WriteFields[q])
ActionNames == UNION {WriteActions(q) : q \in SensitiveWrites}

\* The defaults of action_policy_catalog.
OpenToMembers == {"membership.job_description.update", "membership.tags.update",
                  "silicon.self_profile.update"}
ApprovedByAdmins == {"membership.tags.update", "silicon.hierarchy.update"}

DefaultPolicy(a) ==
    [allowed |-> IF a \in OpenToMembers THEN "any_member" ELSE "only_admins",
     approval |-> IF a \in ApprovedByAdmins THEN "admin" ELSE "none",
     auto |-> {}, version |-> 0]

SensitiveActionInit ==
    /\ \E owner \in Staff : staffRole = [s \in Staff |-> IF s = owner THEN "owner" ELSE "member"]
    /\ policy = [a \in ActionNames |-> DefaultPolicy(a)]
    /\ approvals = <<>>
    /\ remembered = [q \in SensitiveWrites |-> 0]
    /\ spent = <<>>

----------------------------------------------------------------------------
(* Authorization *)

MayAct(s, a) ==
    \/ staffRole[s] = "owner"
    \/ policy[a].allowed = "any_member" /\ staffRole[s] # "removed"
    \/ policy[a].allowed = "only_admins" /\ staffRole[s] = "admin"

\* v_immediate.
Immediate(s, a) ==
    \/ staffRole[s] = "owner"
    \/ policy[a].approval = "none"
    \/ staffRole[s] = "admin" /\ policy[a].approval = "admin"
    \/ s \in policy[a].auto

\* Who may decide, and who must still stand behind an approval when it is used.
MayReview(s, a) ==
    \/ staffRole[s] = "owner"
    \/ staffRole[s] = "admin" /\ policy[a].approval = "admin"

\* The approval rows of this very request under the policy in force.
Matching(q, a) ==
    {n \in DOMAIN approvals :
        /\ approvals[n].write = q /\ approvals[n].action = a
        /\ approvals[n].version = policy[a].version /\ approvals[n].life > 0}

Newest(q, a) == CHOOSE n \in Matching(q, a) : \A m \in Matching(q, a) : m <= n

\* Mutant of ReviewerStands: an approval outlives its reviewer's standing.
ReviewerOnce(n, a) == TRUE

\* The reviewer is active and still entitled when the approval is used.
ReviewerStands(n, a) == MayReview(approvals[n].by, a)

\* What authorize_sensitive_action answers for one action.
Verdict(q, a) ==
    IF ~MayAct(WriteBy[q], a) THEN "forbidden"
    ELSE IF Immediate(WriteBy[q], a) THEN "allowed"
    ELSE IF Matching(q, a) = {} THEN "create"
    ELSE IF approvals[Newest(q, a)].status \in {"pending", "rejected"}
         THEN approvals[Newest(q, a)].status
    ELSE IF ReviewerStands(Newest(q, a), a) THEN "spend" ELSE "forbidden"

Verdicts(q) == {Verdict(q, a) : a \in WriteActions(q)}
Spends(q) == {Newest(q, a) : a \in {b \in WriteActions(q) : Verdict(q, b) = "spend"}}

Consumed(rows, which) ==
    [n \in DOMAIN rows |-> IF n \in which THEN [rows[n] EXCEPT !.status = "consumed"] ELSE rows[n]]

NewApproval(q, a) ==
    [write |-> q, action |-> a, version |-> policy[a].version, status |-> "pending",
     by |-> WriteBy[q], life |-> ApprovalLife]

\* Mutant of Preflight: what is approved is consumed on the way.
PreflightConsumes(q) == Consumed(approvals, Spends(q))

\* The first pass of authorize_scope leaves the approvals it meets as they are.
Preflight(q) == approvals

\* authorize_scope when an approval is missing or undecided: the missing ones are
\* inserted one after the other, that is committed, and the caller is told to wait.
RequestApproval(q) ==
    LET missing == {a \in WriteActions(q) : Verdict(q, a) = "create"} IN
    /\ Verdicts(q) \cap {"forbidden", "rejected"} = {}
    /\ \E k \in 1 .. MaxApprovals - Len(approvals) : \E order \in [1 .. k -> missing] :
         /\ \A a \in missing : \E n \in 1 .. k : order[n] = a
         /\ \A m, n \in 1 .. k : order[m] = order[n] => m = n
         /\ approvals' = Preflight(q) \o [n \in 1 .. k |-> NewApproval(q, order[n])]
         /\ spent' = spent \o [n \in 1 .. k |-> 0]
    /\ UNCHANGED <<staffRole, policy, remembered>>

\* Mutant of Replayed: a repeated request is never recognized.
NeverReplayed(q) == FALSE

\* The idempotency record answers a repeated request.
Replayed(q) == remembered[q] > 0

\* authorize_scope when every action is allowed, and the write that follows in the
\* same transaction.  A consumed approval still admits its own request, which is
\* then answered from the idempotency record.
PerformWrite(q) ==
    /\ Verdicts(q) \subseteq {"allowed", "spend"}
    /\ ~Replayed(q)
    /\ approvals' = Consumed(approvals, Spends(q))
    /\ spent' = [n \in DOMAIN spent |-> IF n \in Spends(q) THEN spent[n] + 1 ELSE spent[n]]
    /\ remembered' = [remembered EXCEPT ![q] = RecordLife]
    /\ UNCHANGED <<staffRole, policy>>

----------------------------------------------------------------------------
(* Review and administration *)

\* decide_approval: decide_action_approval under the lock of the action.
DecideApproval(s, n, decision) ==
    LET a == approvals[n].action IN
    /\ MayReview(s, a)
    /\ approvals[n].status = "pending" /\ approvals[n].life > 0
    /\ approvals[n].version = policy[a].version
    /\ approvals' = [approvals EXCEPT ![n].status = decision, ![n].by = s]
    /\ UNCHANGED <<staffRole, policy, remembered, spent>>

\* update_policy: configure_action_policy.
UpdatePolicy(s, a, choice) ==
    /\ staffRole[s] \in {"owner", "admin"}
    /\ policy[a].version < MaxPolicy
    /\ policy' = [policy EXCEPT ![a] = [allowed |-> choice.allowed, approval |-> choice.approval,
                                        auto |-> choice.auto, version |-> @.version + 1]]
    /\ UNCHANGED <<staffRole, approvals, remembered, spent>>

\* A promotion, a demotion or a removal (Membership).
ChangeStanding(s, role) ==
    /\ staffRole[s] \notin {"owner", role}
    /\ staffRole' = [staffRole EXCEPT ![s] = role]
    /\ UNCHANGED <<policy, approvals, remembered, spent>>

\* A transfer of ownership (Membership).
HandOver(s, t) ==
    /\ staffRole[s] = "owner" /\ staffRole[t] \in {"admin", "member"}
    /\ staffRole' = [staffRole EXCEPT ![s] = "admin", ![t] = "owner"]
    /\ UNCHANGED <<policy, approvals, remembered, spent>>

SensitiveActionTick ==
    /\ (\E n \in DOMAIN approvals : approvals[n].life > 0) \/ \E q \in SensitiveWrites : remembered[q] > 0
    /\ approvals' = [n \in DOMAIN approvals |->
         [approvals[n] EXCEPT !.life = IF @ = 0 THEN 0 ELSE @ - 1]]
    /\ remembered' = [q \in SensitiveWrites |-> IF remembered[q] = 0 THEN 0 ELSE remembered[q] - 1]
    /\ UNCHANGED <<staffRole, policy, spent>>

SensitiveActionNext ==
    \/ \E q \in SensitiveWrites : RequestApproval(q)
    \/ \E q \in SensitiveWrites : PerformWrite(q)
    \/ \E s \in Staff, n \in DOMAIN approvals, decision \in {"approved", "rejected"} :
         DecideApproval(s, n, decision)
    \/ \E s \in Staff, a \in ActionNames, choice \in PolicyChoices : UpdatePolicy(s, a, choice)
    \/ \E s \in Staff, role \in {"admin", "member", "removed"} : ChangeStanding(s, role)
    \/ \E s, t \in Staff : HandOver(s, t)
    \/ SensitiveActionTick

SensitiveActionSpec == SensitiveActionInit /\ [][SensitiveActionNext]_actionVars
----------------------------------------------------------------------------
(* Properties *)

\* An approval admits one write: although a consumed row still matches its request,
\* the idempotency record outlives it.
ApprovalSpentOnce == \A n \in DOMAIN spent : spent[n] <= 1

\* A request that changes several sensitive fields waits for all of its approvals
\* without using up the ones it has ("without spending another approved action").
PartialSpendsNothingStep ==
    \A n \in DOMAIN approvals :
       approvals[n].status = "approved" /\ approvals'[n].status = "consumed" =>
          remembered'[approvals[n].write] = RecordLife
PartialSpendsNothing == [][PartialSpendsNothingStep]_actionVars

\* Whatever a patch touches, it is written only if for each field's action the
\* author may act by the policy in force and either needs no approval or has one,
\* given under that policy by somebody who still may give it.
WriteSanctionedStep ==
    \A q \in SensitiveWrites :
       remembered[q] = 0 /\ remembered'[q] > 0 =>
          \A field \in WriteFields[q], a \in ActionNames :
             WriteRoute[q] = "member" /\ <<field, a>> \in MemberPatchActions =>
                /\ MayAct(WriteBy[q], a)
                /\ \/ Immediate(WriteBy[q], a)
                   \/ \E n \in Matching(q, a) :
                        /\ approvals[n].status \in {"approved", "consumed"}
                        /\ MayReview(approvals[n].by, a)
WriteSanctioned == [][WriteSanctionedStep]_actionVars

\* An approval is spent once and only by a write that happens, and no sensitive write
\* happens without the policy's consent at that moment.
SensitiveActionSound == []ApprovalSpentOnce /\ PartialSpendsNothing /\ WriteSanctioned
=============================================================================
