---------------------------- MODULE EventRouting ----------------------------
(***************************************************************************)
(* Whom an organization event concerns: the topics, tags and own-tag       *)
(* audience frozen with it for Silicon webhook subscriptions.              *)
(*                                                                         *)
(* Sources: src/features/organizations/support.rs (routing and topics),    *)
(*          carbon_profile_events.rs, sso/authorization.rs and support.rs, *)
(*          infrastructure/postgres/events.rs, migrations 0032 and 0041.   *)
(*                                                                         *)
(* A mutation describes itself by a payload: its kind, the member it is    *)
(* about and the ids found in its metadata, before and after states.  The  *)
(* routing is computed from that payload and the rows after the write.     *)
(* What a subscriber selected is not state: Receives is asked for every    *)
(* possible subscription.                                                  *)
(***************************************************************************)
EXTENDS Naturals, FiniteSets

CONSTANTS Members, Silicons, Tags

ASSUME SiliconAssumption == Silicons \subseteq Members

Topics == {"membership", "members", "trust"}

\* Receiving modes: everything, or a set of topics; with a tag filter, own tags
\* and the extra ones.
Subscriptions == [all : BOOLEAN, topics : SUBSET Topics, filtered : BOOLEAN, extra : SUBSET Tags]

NoRouting == [topics |-> {}, members |-> {}, tags |-> {}, own |-> {}, wide |-> FALSE, routable |-> FALSE]

VARIABLES
    present,    \* active members
    tagsOf,     \* tags each member holds
    current,    \* tags not archived
    trusted,    \* members whose default trust was raised
    ruled,      \* tags a trust rule names
    routed      \* routing of the newest event

routingVars == <<present, tagsOf, current, trusted, ruled, routed>>

RoutingInit ==
    /\ present = Members
    /\ tagsOf \in [Members -> SUBSET Tags]
    /\ current = Tags
    /\ trusted = {} /\ ruled = {}
    /\ routed = NoRouting

----------------------------------------------------------------------------
(* Routing of a mutation *)

\* What a mutation says of itself.  "about" is the member it targets or none;
\* "named", "assigned" and "mentioned" are the members and tags its metadata lists.
Payload(kind, about, named, assigned, mentioned, before, after) ==
    [kind |-> kind, about |-> about, named |-> named, assigned |-> assigned,
     mentioned |-> mentioned, before |-> before, after |-> after]

\* collect_membership_ids
CollectMembers(p) == p.about \cup p.named \cup p.assigned

\* Mutant of CollectTags: the before state is not searched.
CollectTagsAfter(p) == p.mentioned \cup p.after.tags

\* collect_tag_ids, in the metadata and in both states.
CollectTags(p) == p.mentioned \cup p.before.tags \cup p.after.tags

\* Tags the members hold once the change is written.
CurrentTags(ms) == UNION {tagsOf'[m] : m \in ms}

AffectedTags(p) == CollectTags(p) \cup CurrentTags(CollectMembers(p))

\* Members to notify for a tag they held before: those listed, and the member
\* itself when its before state shows tags.
BeforeTagged(p) == p.assigned \cup (IF p.before.tags # {} THEN p.about ELSE {})

\* membership_update_topics: default trust apart from everything else.
MembershipUpdateTopics(p) ==
    IF p.before.trust = p.after.trust THEN {"members"}
    ELSE {"trust"} \cup (IF p.before.tags # p.after.tags THEN {"members"} ELSE {})

\* Topics of an archived tag follow what it was used for.
ArchiveTopics(p) ==
    (IF p.assigned # {} THEN {"members"} ELSE {}) \cup (IF p.before.ruled THEN {"trust"} ELSE {})

\* Mutant of SiliconTopics: an archived tag always concerns its holders only.
SiliconTopicsMembers(p) ==
    IF p.kind = "archived" THEN {"members"} ELSE
    CASE p.kind \in {"created", "removed"} -> {"membership"}
      [] p.kind \in {"rule", "default"}    -> {"trust"}
      [] p.kind = "updated"                -> MembershipUpdateTopics(p)
      [] p.kind = "renamed"                -> {"members"}
      [] OTHER                             -> {}

\* silicon_webhook_topics
SiliconTopics(p) ==
    CASE p.kind \in {"created", "removed"} -> {"membership"}
      [] p.kind \in {"rule", "default"}    -> {"trust"}
      [] p.kind = "updated"                -> MembershipUpdateTopics(p)
      [] p.kind = "renamed"                -> IF p.assigned # {} THEN {"members"} ELSE {}
      [] p.kind = "archived"               -> ArchiveTopics(p)
      [] OTHER                             -> {}

\* Mutant of OwnTagAudience: only tags held after the change.
OwnTagAfter(tags, before) == {s \in Silicons \cap present' : tagsOf'[s] \cap current' \cap tags # {}}

\* lock_silicon_webhook_own_tag_audience, asked only when some tag is affected.
OwnTagAudience(tags, before) ==
    {s \in Silicons \cap present' :
        tags # {} /\ (s \in before \/ tagsOf'[s] \cap current' \cap tags # {})}

\* What enqueue_outbox freezes.
Frozen(topics, ms, tags, before, wide) ==
    [topics |-> topics, members |-> ms, tags |-> tags, own |-> OwnTagAudience(tags, before),
     wide |-> wide, routable |-> TRUE]

\* silicon_webhook_routing
Routing(p) ==
    LET ms == CollectMembers(p)
        tags == AffectedTags(p)
    IN  Frozen(SiliconTopics(p), ms, tags, BeforeTagged(p), ms = {} /\ tags = {})

\* carbon_profile_events: the member's tags, locked before the profile is written.
ProfileRouting(m) == Frozen({"members"}, {m}, tagsOf[m], {}, FALSE)

\* enqueue_membership_activation
ActivationRouting(m) == Frozen({"membership"}, {m}, tagsOf'[m], {}, FALSE)

\* Single sign-on configuration concerns the organization.
SsoRouting == Frozen({}, {}, {}, {}, TRUE)

----------------------------------------------------------------------------
(* Mutations *)

Nothing == [tags |-> {}, trust |-> FALSE, ruled |-> FALSE]

\* The state of a member as its events show it.
Member(m) == [tags |-> tagsOf[m], trust |-> m \in trusted, ruled |-> FALSE]

Holders(t) == {m \in present : t \in tagsOf[m]}

\* Directory edit of a member: tags, default trust, or both.
UpdateMember(m) ==
    /\ m \in present
    /\ \E T \in SUBSET current, raise \in BOOLEAN :
        /\ tagsOf' = [tagsOf EXCEPT ![m] = T]
        /\ trusted' = IF raise THEN trusted \cup {m} ELSE trusted \ {m}
    /\ UNCHANGED <<present, current, ruled>>
    /\ routed' = Routing(Payload("updated", {m}, {}, {}, {}, Member(m), Member(m)'))

\* The member's tag assignments go with the membership.
RemoveMember(m) ==
    /\ m \in present
    /\ present' = present \ {m}
    /\ tagsOf' = [tagsOf EXCEPT ![m] = {}]
    /\ UNCHANGED <<current, trusted, ruled>>
    /\ routed' = Routing(Payload("removed", {m}, {}, {}, {}, Member(m), Nothing))

\* By invitation or as a new Silicon.
AddMember(m) ==
    /\ m \notin present
    /\ present' = present \cup {m}
    /\ \E T \in SUBSET current : tagsOf' = [tagsOf EXCEPT ![m] = T]
    /\ UNCHANGED <<current, trusted, ruled>>
    /\ routed' = Routing(Payload("created", {m}, {}, {}, {}, Nothing, Member(m)'))

\* By signing in through the organization's provider.
ActivateMember(m) ==
    /\ m \in Members \ (present \cup Silicons)
    /\ present' = present \cup {m}
    /\ UNCHANGED <<tagsOf, current, trusted, ruled>>
    /\ routed' = ActivationRouting(m)

RenameTag(t) ==
    /\ t \in current
    /\ UNCHANGED <<present, tagsOf, current, trusted, ruled>>
    /\ routed' = Routing(Payload("renamed", {}, {}, Holders(t), {t}, Nothing, Nothing))

\* Assignments and rules of the tag end with it.
ArchiveTag(t) ==
    /\ t \in current
    /\ current' = current \ {t}
    /\ tagsOf' = [m \in Members |-> tagsOf[m] \ {t}]
    /\ ruled' = ruled \ {t}
    /\ UNCHANGED <<present, trusted>>
    /\ routed' = Routing(Payload("archived", {}, {}, Holders(t), {t}, [Nothing EXCEPT !.ruled = t \in ruled], Nothing))

\* A trust rule whose subject is a tag, created or archived.
ChangeRule(t) ==
    /\ t \in current
    /\ ruled' = IF t \in ruled THEN ruled \ {t} ELSE ruled \cup {t}
    /\ UNCHANGED <<present, tagsOf, current, trusted>>
    /\ routed' = Routing(Payload("rule", {}, Holders(t), {}, {t}, Nothing, Nothing))

\* The organization itself, and its default trust.
UpdateOrganization ==
    /\ UNCHANGED <<present, tagsOf, current, trusted, ruled>>
    /\ \E kind \in {"organization", "default"} : routed' = Routing(Payload(kind, {}, {}, {}, {}, Nothing, Nothing))

\* A person edits the profile all organizations share.
UpdateProfile(m) ==
    /\ m \in present \ Silicons
    /\ UNCHANGED <<present, tagsOf, current, trusted, ruled>>
    /\ routed' = ProfileRouting(m)

ChangeSso ==
    /\ UNCHANGED <<present, tagsOf, current, trusted, ruled>>
    /\ routed' = SsoRouting

RoutingNext ==
    \/ \E m \in Members : UpdateMember(m) \/ RemoveMember(m) \/ AddMember(m) \/ ActivateMember(m) \/ UpdateProfile(m)
    \/ \E t \in Tags : RenameTag(t) \/ ArchiveTag(t) \/ ChangeRule(t)
    \/ UpdateOrganization \/ ChangeSso

RoutingSpec == RoutingInit /\ [][RoutingNext]_routingVars

----------------------------------------------------------------------------
(* Delivery *)

\* list_worker_silicon_webhook_recipients for one subscription.
Receives(s, sub) ==
    /\ s \in present
    /\ routed.routable
    /\ sub.all \/ sub.topics \cap routed.topics # {}
    /\ sub.filtered =>
         /\ ~routed.wide
         /\ s \in routed.own \/ sub.extra \cap routed.tags \cap current # {}

----------------------------------------------------------------------------
(* Properties *)

\* Members a step changed, and tags.
Changed == {m \in Members : (m \in present) # (m \in present') \/ Member(m) # Member(m)'}

\* Tags of the members an event names, before or after it.
TagsAround(ms) == UNION {tagsOf[m] \cup tagsOf'[m] : m \in ms}

\* The tag filter follows the change and not the row left behind: a filtered
\* subscriber hears of a change to a member exactly when they shared a tag before
\* or after it, or a tag of the subscriber's own was itself changed; losing the
\* tag is heard too.
FilterExactStep ==
    \A s \in Silicons \cap present' :
     Receives(s, [all |-> TRUE, topics |-> {}, filtered |-> TRUE, extra |-> {}])' <=>
         \/ \E m \in routed'.members :
              tagsOf[s] \cap tagsOf[m] # {} \/ tagsOf'[s] \cap tagsOf'[m] # {}
         \/ \E t \in routed'.tags \ TagsAround(routed'.members) : t \in tagsOf[s] \cup tagsOf'[s]
FilterExact == [][FilterExactStep]_routingVars

\* Whoever subscribed to what a step changes receives its event; a change of trust
\* or of a directory entry is never reported under the other topic alone.
TopicsCoverStep ==
    \A s \in Silicons \cap present' :
     LET Hears(topic) == Receives(s, [all |-> FALSE, topics |-> {topic}, filtered |-> FALSE, extra |-> {}])'
     IN  /\ present' # present <=> Hears("membership")
         /\ trusted' # trusted \/ ruled' # ruled => Hears("trust")
         /\ (\E m \in present \cap present' : tagsOf'[m] # tagsOf[m]) => Hears("members")
         /\ Changed \subseteq routed'.members
TopicsCover == [][TopicsCoverStep]_routingVars

RoutingSound == FilterExact /\ TopicsCover

=============================================================================
