--------------------------- MODULE MCOrganization ---------------------------
(***************************************************************************)
(* The components of an organization, each on a small instance of its own. *)
(* They share no state: the first step chooses one (focus), whose actions  *)
(* then are the only ones; the variables of the others keep their initial  *)
(* values.  What they share in the program (the locks of rows, the         *)
(* idempotency records) is part of each component's own model.  The        *)
(* properties are the components' own.                                     *)
(***************************************************************************)
EXTENDS Membership, SensitiveAction, Hierarchy, Invitation, Notification, Directory,
        DirectoryReads, TLC

CONSTANTS a1, a2, a3, b1, b2

VARIABLE focus   \* the component that is checked

all == <<focus, readsVars, membershipVars, actionVars, hierarchyVars, invitationVars,
         noticeVars, directoryVars>>

Symmetry == Permutations({a1, a2, a3}) \cup Permutations({b1, b2})

\* Requests of Membership ask for a capability that may be delegated, alone or
\* with one that may not.
Grantable == {{"directory"}, {"manage", "directory"}}

\* Approval by admins, by the owner, and by the owner except for one member.
Policies ==
    {[allowed |-> "any_member", approval |-> by, auto |-> {}] : by \in {"admin", "owner"}}
      \cup {[allowed |-> "any_member", approval |-> "owner", auto |-> {"s1"}]}

\* One request, of a member, that sets two sensitive fields.
OneAuthor == [q \in {"q1"} |-> "s1"]
OneRoute == [q \in {"q1"} |-> "member"]
TwoFields == [q \in {"q1"} |-> {"tag_ids", "default_trust"}]

\* Applications that read a directory: <<owner, family>> of the scopes held.
ScopesHeld ==
    LET silicons == <<"directory", "silicons">> IN
    {{silicons, <<"self", "trust">>, <<"directory", "membership">>},
     {silicons, <<"directory", "job_role">>, <<"directory", "profile">>},
     {<<"organization", "trust">>, <<"self", "identity">>, <<"directory", "carbons">>,
      <<"self", "job_role">>, <<"self", "capabilities">>},
     {silicons, <<"self", "organizations">>, <<"organization", "trust">>,
      <<"directory", "capabilities">>}}

\* The initial states that are not the only one of their component.
ReadsStart == ReadsInit /\ org.default = 1 /\ org.own = NoLevel
NoReads == ReadsStart /\ org.tagged = {} /\ described.kind = "carbons"
NoActions == SensitiveActionInit /\ staffRole["s1"] = "owner"
NobodySignedUp == InvitationInit /\ signedUp = {}

\* Bound: one writer of trust rules at a time, beside every other edit.
RulesBound ==
    Cardinality({e \in Edits : edit'[e] # NoEdit /\ edit'[e].kind = "rule"}) <= 1

Init ==
    /\ MembershipInit /\ HierarchyInit /\ NotificationInit /\ DirectoryInit
    /\ \/ focus = "sensitive" /\ SensitiveActionInit /\ NobodySignedUp /\ NoReads
       \/ focus = "invitation" /\ InvitationInit /\ NoActions /\ NoReads
       \/ focus = "reads" /\ ReadsStart /\ NoActions /\ NobodySignedUp
       \/ /\ focus \in {"membership", "notification", "directory", "hierarchy"}
          /\ NoActions /\ NobodySignedUp /\ NoReads

Next ==
    /\ UNCHANGED focus
    /\ \/ /\ focus = "membership" /\ MembershipNext
          /\ UNCHANGED <<readsVars, actionVars, hierarchyVars, invitationVars, noticeVars,
                         directoryVars>>
       \/ /\ focus = "sensitive" /\ SensitiveActionNext
          /\ UNCHANGED <<readsVars, membershipVars, hierarchyVars, invitationVars,
                         noticeVars, directoryVars>>
       \/ /\ focus = "hierarchy" /\ HierarchyNext
          /\ UNCHANGED <<readsVars, membershipVars, actionVars, invitationVars, noticeVars,
                         directoryVars>>
       \/ /\ focus = "invitation" /\ InvitationNext
          /\ UNCHANGED <<readsVars, membershipVars, actionVars, hierarchyVars, noticeVars,
                         directoryVars>>
       \/ /\ focus = "notification" /\ NotificationNext
          /\ UNCHANGED <<readsVars, membershipVars, actionVars, hierarchyVars,
                         invitationVars, directoryVars>>
       \/ /\ focus = "directory" /\ DirectoryNext /\ RulesBound
          /\ UNCHANGED <<readsVars, membershipVars, actionVars, hierarchyVars,
                         invitationVars, noticeVars>>
       \/ /\ focus = "reads" /\ ReadsNext
          /\ UNCHANGED <<membershipVars, actionVars, hierarchyVars, invitationVars,
                         noticeVars, directoryVars>>

Spec == Init /\ [][Next]_all

ASSUME OtpAssumption
=============================================================================
