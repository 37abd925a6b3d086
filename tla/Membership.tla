----------------------------- MODULE Membership -----------------------------
(***************************************************************************)
(* Who may do what in an organization: roles, capability grants, ownership *)
(* and removal, changed by several requests at once.                       *)
(*                                                                         *)
(* Sources: src/features/organizations/{handlers,directory,support}.rs,    *)
(*          src/infrastructure/postgres/authorization.rs and the functions *)
(*          and row policies they call in migrations/0006 and 0034.        *)
(*                                                                         *)
(* A request is one READ COMMITTED transaction in three steps: it resolves *)
(* the caller's access, reads its target, and writes under row locks.  The *)
(* access is not read again: what protects a write is what the statement   *)
(* itself checks (the version, a row policy, a function's own capability   *)
(* check, the unique index on active owners).  A client may send any       *)
(* If-Match version, so that check only fixes the version between the read *)
(* and the write.  Step-up assertions (StepUpChallenge) and idempotency    *)
(* records only refuse.                                                    *)
(***************************************************************************)
EXTENDS Naturals, FiniteSets, FiniteSetsExt

CONSTANTS
    Members,        \* carbons, each with at most one membership row
    Updates,        \* requests that may be in flight at once
    MaxWrites,      \* bound: versions of all rows together, transfers apart
    MaxOrgVersion,  \* bound: version of the organization
    GrantableSets   \* capability sets that a request may ask for

\* admins.create, admins.manage, members.remove and members.update_directory.
Capabilities == {"create", "manage", "remove", "directory"}
\* organization_capability_catalog.delegable
DelegableCapabilities == {"directory"}

ASSUME MembershipAssumption ==
    /\ IsFiniteSet(Members)
    /\ MaxWrites \in Nat /\ MaxOrgVersion \in Nat
    /\ GrantableSets \subseteq SUBSET Capabilities

VARIABLES
    row,         \* iam.organization_memberships with the active grants of each
    orgVersion,  \* iam.organizations.version; 0 before it is created
    change,      \* the requests in flight
    ownersGift   \* history: members an owner gave admins.create or admins.manage

membershipVars == <<row, orgVersion, change, ownersGift>>

NoRow == [status |-> "none", role |-> "member", caps |-> {}, epoch |-> 0, version |-> 0]
NoChange == [stage |-> "idle"]

MembershipInit ==
    /\ row = [m \in Members |-> NoRow]
    /\ orgVersion = 0
    /\ change = [r \in Updates |-> NoChange]
    /\ ownersGift = {}

Writes == MapThenSumSet(LAMBDA m : row[m].version, Members)
Bounded == Writes < MaxWrites

ActiveMember(m) == row[m].status = "active"

\* has_organization_capability: an owner has every one, others what was granted.
HasCapability(rows, m, cap) ==
    /\ rows[m].status = "active"
    /\ rows[m].role = "owner" \/ cap \in rows[m].caps

\* Authority::allows on the access that was resolved when the request began.
Allows(access, cap) == access.role = "owner" \/ cap \in access.caps

\* The row policy of UPDATEs of iam.organization_memberships.
CanTouch(rows, m) == \E cap \in {"directory", "remove", "manage"} : HasCapability(rows, m, cap)

Bumped(r) == [r EXCEPT !.epoch = @ + 1, !.version = @ + 1]

\* Mutant of DefaultCapabilities: a promoted administrator gets everything.
AllCapabilities == Capabilities

\* grant_default_administrator_capabilities.
DefaultCapabilities == Capabilities \ {"create", "manage"}

\* What each statement makes of a row it finds.
FoundersRow(old) == [Bumped(old) EXCEPT !.status = "active", !.role = "owner"]
JoinedRow(old) == [Bumped(old) EXCEPT !.status = "active", !.role = "member", !.caps = {}]
PromotedRow(old) == [Bumped(old) EXCEPT !.role = "admin", !.caps = @ \cup DefaultCapabilities]
ReducedRow(old) == [Bumped(old) EXCEPT !.role = "member", !.caps = {}]
GrantedRow(old, caps) == [Bumped(old) EXCEPT !.caps = caps]
RemovedRow(old) == [Bumped(old) EXCEPT !.status = "removed", !.role = "member", !.caps = {}]
OwnersRow(old) == [Bumped(old) EXCEPT !.role = "owner", !.caps = {}]

----------------------------------------------------------------------------
\* create_organization: its creator becomes the owner.
CreateOrganization(m) ==
    /\ orgVersion = 0
    /\ orgVersion' = 1
    /\ row' = [row EXCEPT ![m] = FoundersRow(@)]
    /\ UNCHANGED <<change, ownersGift>>

\* update_organization.
UpdateOrganization ==
    /\ orgVersion \in 1 .. (MaxOrgVersion - 1)
    /\ orgVersion' = orgVersion + 1
    /\ UNCHANGED <<row, change, ownersGift>>

\* complete_verified_organization_invitation: a new row, or an inactive one
\* reactivated as an ordinary member without what it was granted before.
JoinAsMember(m) ==
    /\ orgVersion > 0 /\ ~ActiveMember(m) /\ Bounded
    /\ row' = [row EXCEPT ![m] = JoinedRow(@)]
    /\ UNCHANGED <<orgVersion, change, ownersGift>>

----------------------------------------------------------------------------
(* Requests *)

\* What each operation demands of the access and what the request carries.
Demanded(op, access) ==
    CASE op = "promote" -> Allows(access, "create")
      [] op \in {"demote", "replace"} -> Allows(access, "manage")
      [] op = "remove" -> Allows(access, "remove")
      [] op = "directory" -> Allows(access, "directory")
      [] op = "transfer" -> access.role = "owner"

\* validate_delegation: an owner grants anything, others what they hold and only
\* what is delegable.
Delegated(access, caps) ==
    access.role # "owner" => \A cap \in caps : cap \in DelegableCapabilities /\ Allows(access, cap)

\* begin_scoped_organization and begin_organization: resolve_organization_access.
BeginChange(r, op, actor, target, caps) ==
    LET access == [role |-> row[actor].role, caps |-> row[actor].caps] IN
    /\ change[r] = NoChange
    /\ ActiveMember(actor)
    /\ Demanded(op, access)
    /\ op = "replace" => Delegated(access, caps)
    /\ op = "transfer" => actor # target
    /\ change' = [change EXCEPT ![r] =
         [stage |-> "begun", op |-> op, actor |-> actor, target |-> target,
          caps |-> caps, owner |-> op = "replace" /\ access.role = "owner", version |-> 0]]
    /\ UNCHANGED <<row, orgVersion, ownersGift>>

\* What the handler asks of the target when it reads it.
Eligible(op, m) ==
    /\ ActiveMember(m)
    /\ CASE op = "promote" -> row[m].role = "member"
         [] op = "demote" -> row[m].role = "admin"
         [] op \in {"replace", "remove", "transfer"} -> row[m].role # "owner"
         [] op = "directory" -> TRUE

ReadRequest(c, v) == [c EXCEPT !.stage = "read", !.version = v]

\* fetch_membership_identity and require_active_version; for a transfer
\* fetch_organization and the eligibility query.
ReadTarget(r) ==
    /\ change[r].stage = "begun"
    /\ Eligible(change[r].op, change[r].target)
    /\ change' = [change EXCEPT ![r] = ReadRequest(@,
         IF change[r].op = "transfer" THEN orgVersion ELSE row[change[r].target].version)]
    /\ UNCHANGED <<row, orgVersion, ownersGift>>

\* The request is refused, its client goes away or its transaction fails.
AbortChange(r) ==
    /\ change[r] # NoChange
    /\ change' = [change EXCEPT ![r] = NoChange]
    /\ UNCHANGED <<row, orgVersion, ownersGift>>

Unchanged(c) == ActiveMember(c.target) /\ row[c.target].version = c.version

Finished(r, rows) ==
    /\ row' = rows
    /\ change' = [change EXCEPT ![r] = NoChange]

\* change_admin_role: set_organization_admin_role checks the caller's capability,
\* the role and the version again with the row locked.
ChangeAdminRole(r) ==
    LET c == change[r]
        promote == c.op = "promote"
        capability == IF promote THEN "create" ELSE "manage" IN
    /\ c.stage = "read" /\ c.op \in {"promote", "demote"}
    /\ Unchanged(c) /\ Eligible(c.op, c.target)
    /\ HasCapability(row, c.actor, capability)
    /\ Finished(r, [row EXCEPT ![c.target] =
         IF promote THEN PromotedRow(@) ELSE ReducedRow(@)])
    /\ UNCHANGED orgVersion
    /\ ownersGift' = IF promote THEN ownersGift ELSE ownersGift \ {c.target}

\* replace_grants: the UPDATE that revokes is subject to a row policy on the
\* caller's current admins.manage and may find nothing, the INSERTs are not.
ReplacedGrants(c) ==
    (IF HasCapability(row, c.actor, "manage") THEN row[c.target].caps \cap c.caps
     ELSE row[c.target].caps) \cup c.caps

\* replace_capabilities: replace_grants, then bump_membership under its policy.
ReplaceCapabilities(r) ==
    LET c == change[r]
        granted == [row EXCEPT ![c.target].caps = ReplacedGrants(c)] IN
    /\ c.stage = "read" /\ c.op = "replace"
    /\ Unchanged(c)
    /\ CanTouch(granted, c.actor)
    /\ Finished(r, [row EXCEPT ![c.target] = GrantedRow(@, ReplacedGrants(c))])
    /\ UNCHANGED orgVersion
    /\ ownersGift' = IF c.owner /\ c.caps \cap {"create", "manage"} # {}
                     THEN ownersGift \cup {c.target} ELSE ownersGift

\* update_member_directory of a carbon: settings, then bump_membership.
UpdateMemberDirectory(r) ==
    LET c == change[r] IN
    /\ c.stage = "read" /\ c.op = "directory"
    /\ Unchanged(c)
    /\ CanTouch(row, c.actor)
    /\ Finished(r, [row EXCEPT ![c.target] = Bumped(@)])
    /\ UNCHANGED <<orgVersion, ownersGift>>

\* remove_member: the function checks capability, owner and version again.
RemoveMembership(r) ==
    LET c == change[r] IN
    /\ c.stage = "read" /\ c.op = "remove"
    /\ Unchanged(c) /\ Eligible(c.op, c.target)
    /\ HasCapability(row, c.actor, "remove")
    /\ Finished(r, [row EXCEPT ![c.target] = RemovedRow(@)])
    /\ UNCHANGED orgVersion
    /\ ownersGift' = ownersGift \ {c.target}

\* Mutant of OwnerSlotFree: there is no unique index on active owners.
OwnerSlotUnchecked(rows) == TRUE

\* organization_memberships_one_active_owner_idx.
OwnerSlotFree(rows) ==
    Cardinality({m \in Members : rows[m].status = "active" /\ rows[m].role = "owner"}) <= 1

\* Mutant of Demoted: the step down is not an authorization change.
DemotedSilently(old) ==
    IF old.role = "owner" THEN [old EXCEPT !.role = "admin", !.caps = DefaultCapabilities,
                                           !.version = @ + 1]
    ELSE [old EXCEPT !.caps = DefaultCapabilities]

\* What a transfer does to the row of the one who transfers: the UPDATE of the
\* role finds a row only if it is still the owner's, the grants are replaced anyway.
Demoted(old) ==
    IF old.role = "owner" THEN [Bumped(old) EXCEPT !.role = "admin",
                                                       !.caps = DefaultCapabilities]
    ELSE [old EXCEPT !.caps = DefaultCapabilities]

\* transfer_ownership: both rows are locked and active, the organization still has
\* the version that was read, the roles change hands and the grants of both go.
TransferOwnership(r) ==
    LET c == change[r]
        rows == [row EXCEPT
          ![c.actor] = Demoted(@),
          ![c.target] = OwnersRow(@)] IN
    /\ c.stage = "read" /\ c.op = "transfer"
    /\ ActiveMember(c.actor) /\ ActiveMember(c.target)
    /\ orgVersion = c.version
    /\ OwnerSlotFree(rows)
    /\ Finished(r, rows)
    /\ orgVersion' = orgVersion + 1
    /\ ownersGift' = ownersGift \ {c.actor, c.target}

MembershipNext ==
    \/ \E m \in Members : CreateOrganization(m)
    \/ UpdateOrganization
    \/ \E m \in Members : JoinAsMember(m)
    \/ \E r \in Updates, actor, target \in Members :
         \/ \E op \in {"promote", "demote", "remove", "directory", "transfer"} :
              BeginChange(r, op, actor, target, {})
         \/ \E caps \in GrantableSets : BeginChange(r, "replace", actor, target, caps)
    \/ \E r \in Updates : ReadTarget(r)
    \/ \E r \in Updates : AbortChange(r)
    \/ \E r \in Updates : Bounded /\ ChangeAdminRole(r)
    \/ \E r \in Updates : Bounded /\ ReplaceCapabilities(r)
    \/ \E r \in Updates : Bounded /\ UpdateMemberDirectory(r)
    \/ \E r \in Updates : Bounded /\ RemoveMembership(r)
    \/ \E r \in Updates : orgVersion < MaxOrgVersion /\ TransferOwnership(r)

MembershipSpec == MembershipInit /\ [][MembershipNext]_membershipVars
----------------------------------------------------------------------------
(* Properties *)

\* From its creation an organization has exactly one active owner, whatever
\* transfers, removals and role changes overlap.
ExactlyOneOwner ==
    orgVersion > 0 =>
        Cardinality({m \in Members : ActiveMember(m) /\ row[m].role = "owner"}) = 1

\* Only an owner's own request ever gives somebody else admins.create or
\* admins.manage: no promotion, transfer, delegation or reactivation does.
AdminRightsFromOwner ==
    \A m \in Members :
        row[m].role # "owner" /\ row[m].caps \cap {"create", "manage"} # {} => m \in ownersGift

\* Every change of what a member may do moves its authorization epoch, on which
\* proofs and tokens that were issued before rest.
EpochCoversChangesStep ==
    \A m \in Members :
       LET authority(r) == <<r.status, r.role, r.caps>>
       IN  authority(row'[m]) # authority(row[m]) => row'[m].epoch > row[m].epoch
EpochCoversChanges == [][EpochCoversChangesStep]_membershipVars

\* Whatever role changes, transfers and removals race: one owner, admins' rights
\* that come from an owner, and an epoch that moves with every change of authority.
MembershipSound ==
    /\ []ExactlyOneOwner
    /\ []AdminRightsFromOwner
    /\ EpochCoversChanges
=============================================================================
