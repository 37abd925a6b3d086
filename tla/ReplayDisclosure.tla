-------------------------- MODULE ReplayDisclosure --------------------------
(***************************************************************************)
(* What the manual replay of a dead letter discloses to an application.    *)
(*                                                                         *)
(* Sources: src/features/applications/webhooks.rs, webhook_replay.rs,      *)
(*          application_webhook_projections.rs, api/me.rs (profile         *)
(*          projections), postgres/events.rs, migrations 0077, 0081, 0096. *)
(*                                                                         *)
(* A snapshot is captured with the scopes of the day its event happened.   *)
(* Replaying it later re-checks today's scopes with a second table that    *)
(* recognises captured fields.  One member, one other member of the        *)
(* organization, one application and its newest dead letter; wire names of *)
(* fields with the same rule are represented by one of them.  A scope      *)
(* withdrawn while the replay transaction is open counts as later.         *)
(***************************************************************************)
EXTENDS Naturals, FiniteSets

CONSTANT MaxGranted     \* bound on the scopes granted at a time

\* Sections of a member snapshot that have a scope for oneself and one for directories.
Paired == {"identity", "profile", "membership", "tags", "silicon_access",
           "hierarchy", "job_role", "capabilities"}
OnlySelf == {"email", "phone", "organizations", "trust"}
OnlyOrganization == {"trust", "tags", "invitations", "governance"}

LetterScopes == [of : {"self"}, name : Paired \cup OnlySelf]
    \cup [of : {"directory"}, name : Paired]
    \cup [of : {"organization"}, name : OnlyOrganization]

\* Scopes that reach other members of the organization.
Wide == {s \in LetterScopes : s.of # "self"}

Self(name) == [of |-> "self", name |-> name]
Directory(name) == [of |-> "directory", name |-> name]
Organization(name) == [of |-> "organization", name |-> name]

\* raw_organization_scope
RawScope ==
    [created     |-> Self("organizations"),
     tag_created |-> Organization("tags"),
     invitation  |-> Organization("invitations"),
     governance  |-> Organization("governance")]

\* aggregate_scope of the events that carry a resource and members.
AggregateScope == [tag |-> Organization("tags"), trust |-> Organization("trust")]

Kinds == {"member", "organization", "profile", "logout", "application"}
    \cup DOMAIN RawScope \cup DOMAIN AggregateScope

NoDeadLetter == [kind |-> "none", status |-> "none", members |-> "none", fields |-> {}, resource |-> "none"]

VARIABLES
    ownScopes,     \* scopes the member consented to
    otherScopes,   \* scopes another member consented to
    joined,        \* the member's membership
    destination,   \* "accepts", "declines" (webhook_scope) or "inactive"
    deadLetter     \* newest delivery of the application

disclosureVars == <<ownScopes, otherScopes, joined, destination, deadLetter>>

DisclosureInit ==
    /\ ownScopes = {} /\ otherScopes = {}
    /\ joined = TRUE
    /\ destination = "accepts"
    /\ deadLetter = NoDeadLetter

----------------------------------------------------------------------------
(* Current authority: current_application_resource_scopes *)

\* Over one member, for an organization event.
MembershipScopes == IF joined THEN ownScopes \cup (otherScopes \cap Wide) ELSE {}

\* Over the organization.
OrganizationScopes == (IF joined THEN ownScopes ELSE {}) \cup otherScopes

\* Over one principal, whatever the organization.
PrincipalScopes == ownScopes \cup (IF joined THEN otherScopes \cap Wide ELSE {})

\* The directory permission stands for the same section of oneself.
Mapped(scopes) ==
    scopes \cup {Self(s.name) : s \in {t \in scopes : t.of = "directory"}}
           \cup {Self("trust") : s \in scopes \cap {Organization("trust")}}

----------------------------------------------------------------------------
(* Capture *)

\* field_is_authorized: scopes of which any discloses the field.
FieldScopes ==
    [public_id       |-> {Self("identity"), Directory("identity")},
     display_name    |-> {Self("profile"), Directory("profile")},
     principal_state |-> {Self("membership"), Directory("membership")},
     version         |-> LetterScopes,
     org_name        |-> {Self("organizations")},
     status          |-> {Self("membership"), Directory("membership")},
     epoch           |-> {Self("membership"), Directory("membership")},
     tags            |-> {Self("tags"), Directory("tags")},
     first_silicon   |-> {Self("silicon_access"), Directory("silicon_access")},
     reports_to      |-> {Self("hierarchy"), Directory("hierarchy")},
     trust           |-> {Organization("trust")},
     effective_trust |-> {Self("trust")},
     org_role        |-> {Self("membership"), Directory("membership")},
     job_description |-> {Self("job_role"), Directory("job_role")},
     capabilities    |-> {Self("capabilities"), Directory("capabilities")},
     email           |-> {Self("email")},
     phone_number    |-> {Self("phone")}]

ProfileFields == {"public_id", "display_name", "email", "phone_number"}

Authorized(field, scopes) == FieldScopes[field] \cap scopes # {}

\* project_member, profile_webhook_payload
ProjectMember(scopes) == {f \in DOMAIN FieldScopes : Authorized(f, scopes)}
ProfilePayload(scopes) == {f \in ProfileFields : Authorized(f, scopes)}

\* A letter of one kind; "removed" is the tombstone for authority that ended
\* with the event.
Letter(kind, members, fields, resource) ==
    [kind |-> kind, status |-> "dead_letter", members |-> members, fields |-> fields,
     resource |-> resource]

Reach(ended) == IF ended THEN "removed" ELSE "shown"

\* Members of a snapshot, when any scope reached the member.
CapturedMembers(ended) == IF MembershipScopes = {} THEN "none" ELSE Reach(ended)
CapturedFields(ended) == IF ended THEN {} ELSE ProjectMember(MembershipScopes)

\* project_event_resource
ProjectEventResource(kind, ended) ==
    IF AggregateScope[kind] \in OrganizationScopes THEN Reach(ended) ELSE "none"

\* capture_with_dependencies for members, with and without a resource.
CaptureMembers(kind, ended) ==
    LET resource == IF kind = "member" THEN "none" ELSE ProjectEventResource(kind, ended)
    IN  /\ CapturedMembers(ended) # "none" \/ resource # "none"
        /\ deadLetter' = Letter(kind, IF CapturedMembers(ended) = "none" THEN "empty"
                                   ELSE CapturedMembers(ended),
                             CapturedFields(ended), resource)

\* capture_raw_organization_event
CaptureRaw(kind, ended) ==
    /\ RawScope[kind] \in OrganizationScopes
    /\ deadLetter' = Letter(kind, "none", {}, Reach(ended))

\* capture_organization_update
CaptureOrganization(ended) ==
    /\ Self("organizations") \in OrganizationScopes
    /\ deadLetter' = Letter("organization", "none", IF ended THEN {} ELSE {"org_name"}, "none")

\* capture_profile_webhook_projections; without scopes left only the version goes out.
SnapshotProfile(ended) ==
    /\ PrincipalScopes # {}
    /\ deadLetter' = Letter("profile", "none", IF ended THEN {} ELSE ProfilePayload(PrincipalScopes), "none")

\* Events routed by their subject, without a captured snapshot.
Direct(kind) == deadLetter' = Letter(kind, "none", {}, "none")

\* An event happens and its delivery ends in the dead-letter queue.
PublishLetter(kind, ended) ==
    /\ \/ kind \in {"member"} \cup DOMAIN AggregateScope /\ CaptureMembers(kind, ended)
       \/ kind \in DOMAIN RawScope /\ CaptureRaw(kind, ended)
       \/ kind = "organization" /\ CaptureOrganization(ended)
       \/ kind = "profile" /\ SnapshotProfile(ended)
       \/ kind \in {"logout", "application"} /\ ~ended /\ Direct(kind)
    /\ UNCHANGED <<ownScopes, otherScopes, joined, destination>>

----------------------------------------------------------------------------
(* Replay *)

\* required_profile_scopes
RequiredProfileScopes(fields) ==
    {Self("identity") : f \in fields \cap {"public_id"}}
    \cup {Self("profile") : f \in fields \cap {"display_name"}}
    \cup {Self("email") : f \in fields \cap {"email"}}
    \cup {Self("phone") : f \in fields \cap {"phone_number"}}

\* Mutant of RequiredMemberScopes: only the profile fields are recognised.
RequiredAsProfile(fields) == RequiredProfileScopes(fields)

\* required_member_scopes: the scopes the captured fields of a member call for.
RequiredMemberScopes(fields) ==
    RequiredProfileScopes(fields)
    \cup {Self("membership") : f \in fields \cap {"principal_state", "status", "org_role"}}
    \cup {Self("organizations") : f \in fields \cap {"org_name"}}
    \cup {Self("tags") : f \in fields \cap {"tags"}}
    \cup {Self("silicon_access") : f \in fields \cap {"first_silicon"}}
    \cup {Self("hierarchy") : f \in fields \cap {"reports_to"}}
    \cup {Organization("trust") : f \in fields \cap {"trust"}}
    \cup {Self("trust") : f \in fields \cap {"effective_trust"}}
    \cup {Self("job_role") : f \in fields \cap {"job_description"}}
    \cup {Self("capabilities") : f \in fields \cap {"capabilities"}}

\* Mutant of AuthorizeMembers: the membership of the day of capture counts.
AuthorizeMembersThen(l) ==
    /\ l.members # "removed"
    /\ l.members = "shown" => RequiredMemberScopes(l.fields) \subseteq Mapped(ownScopes \cup (otherScopes \cap Wide))
    /\ l.members = "empty" => l.resource = "shown"

\* The members of a snapshot: none removed, each one still covered; a snapshot
\* without members needs its resource.
AuthorizeMembers(l) ==
    /\ l.members # "removed"
    /\ l.members = "shown" => RequiredMemberScopes(l.fields) \subseteq Mapped(MembershipScopes)
    /\ l.members = "empty" => l.resource = "shown"

\* The resource of a snapshot; a "null" resource calls for nothing.
AuthorizeResource(l) == l.resource # "none" => AggregateScope[l.kind] \in OrganizationScopes

\* authorize_captured_projection
AuthorizeCaptured(l) ==
    \/ /\ l.kind \in DOMAIN RawScope
       /\ l.resource = "shown" /\ RawScope[l.kind] \in OrganizationScopes
    \/ /\ l.kind \in DOMAIN AggregateScope
       /\ AuthorizeResource(l) /\ AuthorizeMembers(l)
    \/ l.kind = "member" /\ AuthorizeMembers(l)
    \/ l.kind = "organization" /\ Self("organizations") \in OrganizationScopes
    \/ /\ l.kind = "profile"
       /\ RequiredProfileScopes(l.fields) # {}
       /\ RequiredProfileScopes(l.fields) \subseteq Mapped(PrincipalScopes)

\* application_webhook_accepts_event: logout and application events need no
\* subscription.
Subscribed(l) == destination = "accepts" \/ l.kind \in {"logout", "application"}

\* application_replay_is_authorized
ReplayIsAuthorized(l) ==
    /\ Subscribed(l)
    /\ l.kind \in {"logout", "application"} \/ AuthorizeCaptured(l)

\* current_application_replay_target: the active endpoint and its newest key.
ReplayTarget == destination # "inactive"

\* lock_application_dead_letters, then replay_application_delivery
Replayable(l) == l.status = "dead_letter"
RequeuedLetter(l) == [l EXCEPT !.status = "queued"]

\* replay_dead_letters
ReplayCaptured ==
    /\ ReplayTarget
    /\ Replayable(deadLetter)
    /\ ReplayIsAuthorized(deadLetter)
    /\ deadLetter' = RequeuedLetter(deadLetter)
    /\ UNCHANGED <<ownScopes, otherScopes, joined, destination>>

\* The replayed pass fails as well.
FailAgain ==
    /\ deadLetter.status = "queued"
    /\ deadLetter' = [deadLetter EXCEPT !.status = "dead_letter"]
    /\ UNCHANGED <<ownScopes, otherScopes, joined, destination>>

----------------------------------------------------------------------------
(* Authority changes *)

Bounded == Cardinality(ownScopes) + Cardinality(otherScopes) < MaxGranted

Grant ==
    /\ Bounded
    /\ \/ \E s \in LetterScopes \ Wide : ownScopes' = ownScopes \cup {s} /\ UNCHANGED otherScopes
       \/ \E s \in Wide \cup {Self("organizations")} : otherScopes' = otherScopes \cup {s} /\ UNCHANGED ownScopes
    /\ UNCHANGED <<joined, destination, deadLetter>>

Withdraw ==
    /\ \/ \E s \in ownScopes : ownScopes' = ownScopes \ {s} /\ UNCHANGED otherScopes
       \/ \E s \in otherScopes : otherScopes' = otherScopes \ {s} /\ UNCHANGED ownScopes
    /\ UNCHANGED <<joined, destination, deadLetter>>

ChangeMember ==
    /\ joined' = ~joined
    /\ UNCHANGED <<ownScopes, otherScopes, destination, deadLetter>>

ChangeEndpoint ==
    /\ destination' \in {"accepts", "declines", "inactive"} \ {destination}
    /\ UNCHANGED <<ownScopes, otherScopes, joined, deadLetter>>

DisclosureNext ==
    \/ \E kind \in Kinds, ended \in BOOLEAN : PublishLetter(kind, ended)
    \/ ReplayCaptured \/ FailAgain
    \/ Grant \/ Withdraw \/ ChangeMember \/ ChangeEndpoint

DisclosureSpec == DisclosureInit /\ [][DisclosureNext]_disclosureVars

----------------------------------------------------------------------------
(* Properties *)

\* Over whom the fields of a letter are disclosed.
ScopesFor(l) ==
    CASE l.kind = "profile"      -> PrincipalScopes
      [] l.kind = "organization" -> OrganizationScopes
      [] OTHER                   -> MembershipScopes

\* A replay discloses no private field that the application could not be told
\* today: the table that recognises captured fields (required_member_scopes) is
\* never weaker than the one that captured them (field_is_authorized), whatever
\* was granted, withdrawn or left in between.  Versions are not private.
FieldsStillGrantedStep ==
    ReplayCaptured =>
      /\ \A f \in deadLetter.fields \ {"version"} : Authorized(f, Mapped(ScopesFor(deadLetter)))
      /\ deadLetter.resource = "shown" =>
           IF deadLetter.kind \in DOMAIN RawScope
           THEN RawScope[deadLetter.kind] \in OrganizationScopes
           ELSE AggregateScope[deadLetter.kind] \in OrganizationScopes
DisclosureSound == [][FieldsStillGrantedStep]_disclosureVars
=============================================================================
