---------------------------- MODULE BundleLogin ----------------------------
(***************************************************************************)
(* One handoff to several applications: batch login and bundle login.      *)
(*                                                                         *)
(* Sources: src/features/applications/{batch_login,bundles,oauth,scopes}.rs*)
(*          and migrations 0077, 0079, 0088, 0096.                         *)
(*                                                                         *)
(* A handoff is one transaction: it claims its key, then for every         *)
(* application, in the order of their ids, locks the application, compares *)
(* the scope version that was reviewed, and writes a consent and a short-  *)
(* lived token.  The steps between two applications interleave with other  *)
(* handoffs of the session, the owners of the applications, and the        *)
(* managers of the bundle.                                                 *)
(***************************************************************************)
EXTENDS Integers, Sequences, FiniteSets, FiniteSetsExt, SequencesExt

CONSTANTS
    BundleApps,     \* numbers, in the order of their ids
    Homes,          \* organizations of the signed-in subject
    Handoffs,       \* requests of its browser
    HandoffKeys,
    MaxScopeVersion

ASSUME BundleAssumption == BundleApps \subseteq Nat /\ IsFiniteSet(BundleApps)

VARIABLES
    bundle,         \* members, and whether it exists
    listed,         \* the organization is trusted with bundles
    verified,       \* applications in good standing
    scopeVersion,   \* version of each application's reviewed scopes
    homes,          \* active memberships of the subject
    granted,        \* consent of the session: organizations per application
    issued,         \* tokens committed
    answered,       \* keys with a recorded response
    handoff         \* open transaction or idle

bundleVars == <<bundle, listed, verified, scopeVersion, homes, granted, issued, answered, handoff>>

Unsent == [via |-> "none", apps |-> <<>>, versions |-> <<>>, homes |-> {}]
NotOpen == [body |-> Unsent, key |-> "none", todo |-> {}, done |-> {}]

Revoked == [on |-> FALSE, homes |-> {}]

BundleInit ==
    /\ bundle \in [members : (SUBSET BundleApps) \ {{}}, exists : {TRUE}]
    /\ listed = TRUE
    /\ verified = BundleApps
    /\ scopeVersion = [a \in BundleApps |-> 1]
    /\ homes = Homes
    /\ granted = [a \in BundleApps |-> Revoked]
    /\ issued = {}
    /\ answered = {}
    /\ handoff = [r \in Handoffs |-> NotOpen]

Open == {r \in Handoffs : handoff[r] # NotOpen}

----------------------------------------------------------------------------
(* Locks: each held from the step that takes it until the handoff ends *)

\* The bundle, shared, through a bundle's handoff.
BundleFree == ~\E r \in Open : handoff[r].body.via = "bundle"

\* An application row, shared, from the step that reads its scopes.
AppFree(a) == ~\E r \in Open : a \in handoff[r].done

\* The consent row of the session and an application, exclusively.
ConsentFree(r, a) == ~\E q \in Open \ {r} : a \in handoff[q].done

\* The key's record, by the transaction that inserts it.
KeyFree(k) == ~\E r \in Open : handoff[r].key = k

----------------------------------------------------------------------------
(* Handoffs *)

\* Versions are those the choices showed, possibly a while ago.
Body(via, apps, versions, picked) == [via |-> via, apps |-> apps, versions |-> versions, homes |-> picked]

\* Mutant of MembersMatch: applications may be left out.
MembersIncluded(body) == ToSet(body.apps) \subseteq bundle.members

\* selections
MembersMatch(body) == ToSet(body.apps) = bundle.members

\* application_bundle_view for a login, under the bundle's lock.
BundleOpen == bundle.exists /\ listed /\ bundle.members \subseteq verified

Start(r, k, body) ==
    /\ r \notin Open
    /\ body.via = "bundle" => BundleOpen /\ MembersMatch(body)
    /\ KeyFree(k)
    /\ k \notin answered
    /\ handoff' = [handoff EXCEPT ![r] = [body |-> body, key |-> k, todo |-> ToSet(body.apps), done |-> {}]]
    /\ UNCHANGED <<bundle, listed, verified, scopeVersion, homes, granted, issued, answered>>

\* Mutant of IsNext: the caller's order.
IsNextAsSent(r, a) ==
    /\ a \in handoff[r].todo
    /\ a = Head(SelectSeq(handoff[r].body.apps, LAMBDA b : b \in handoff[r].todo))

\* The applications are taken in a stable order, whatever order the caller listed.
IsNext(r, a) == a \in handoff[r].todo /\ \A b \in handoff[r].todo : a <= b

\* Mutant of Consentable: the version is not compared.
ConsentableAnyVersion(r, a) == a \in verified /\ handoff[r].body.homes \subseteq homes

\* policy, validate_consent and the selected memberships, under their locks.
Consentable(r, a) ==
    /\ a \in verified
    /\ handoff[r].body.versions[a] = scopeVersion[a]
    /\ handoff[r].body.homes \subseteq homes

\* issue_for_selection for the next application.
IssueNext(r, a) ==
    /\ r \in Open
    /\ IsNext(r, a)
    /\ ConsentFree(r, a)
    /\ Consentable(r, a)
    /\ handoff' = [handoff EXCEPT ![r].todo = @ \ {a}, ![r].done = @ \cup {a}]
    /\ UNCHANGED <<bundle, listed, verified, scopeVersion, homes, granted, issued, answered>>

\* Any refusal rolls everything back; so do a lost connection or a crash.
GiveUp(r) ==
    /\ r \in Open
    /\ handoff' = [handoff EXCEPT ![r] = NotOpen]
    /\ UNCHANGED <<bundle, listed, verified, scopeVersion, homes, granted, issued, answered>>

\* Mutant of Union: the newest selection replaces the earlier ones.
UnionNone(old, picked) == [on |-> TRUE, homes |-> picked]

\* The consent upsert: an active consent keeps what it had.
Union(old, picked) == [on |-> TRUE, homes |-> picked \cup (IF old.on THEN old.homes ELSE {})]

Commit(r) ==
    /\ r \in Open /\ handoff[r].todo = {}
    /\ LET h == handoff[r] IN
         /\ granted' = [a \in BundleApps |-> IF a \in h.done THEN Union(granted[a], h.body.homes) ELSE granted[a]]
         /\ issued' = issued \cup {[key |-> h.key, app |-> a] : a \in h.done}
         /\ answered' = answered \cup {h.key}
    /\ handoff' = [handoff EXCEPT ![r] = NotOpen]
    /\ UNCHANGED <<bundle, listed, verified, scopeVersion, homes>>

----------------------------------------------------------------------------
(* Owners, managers and reviewers *)

\* Mutant of Editable: the bundle is changed under a login.
EditableAnyTime == bundle.exists

\* mutate_application_bundle locks the row for update.
Editable == bundle.exists /\ BundleFree

EditBundle ==
    /\ Editable /\ listed
    /\ \E M \in (SUBSET verified) \ {{}} : M # bundle.members /\ bundle' = [bundle EXCEPT !.members = M]
    /\ UNCHANGED <<listed, verified, scopeVersion, homes, granted, issued, answered, handoff>>

DeleteBundle ==
    /\ Editable
    /\ bundle' = [bundle EXCEPT !.exists = FALSE]
    /\ UNCHANGED <<listed, verified, scopeVersion, homes, granted, issued, answered, handoff>>

\* New scopes of an application.
Reconfigure(a) ==
    /\ AppFree(a)
    /\ scopeVersion[a] < MaxScopeVersion
    /\ scopeVersion' = [scopeVersion EXCEPT ![a] = @ + 1]
    /\ UNCHANGED <<bundle, listed, verified, homes, granted, issued, answered, handoff>>

\* Suspension revokes the consents.
SuspendMember(a) ==
    /\ a \in verified /\ AppFree(a)
    /\ verified' = verified \ {a}
    /\ granted' = [granted EXCEPT ![a] = Revoked]
    /\ UNCHANGED <<bundle, listed, scopeVersion, homes, issued, answered, handoff>>

\* The organization loses the right to bundles; its row is locked too.
Unlist ==
    /\ listed /\ BundleFree
    /\ listed' = FALSE
    /\ UNCHANGED <<bundle, verified, scopeVersion, homes, granted, issued, answered, handoff>>

\* Memberships selected by a handoff are locked until it ends.
LoseHome(o) ==
    /\ o \in homes
    /\ ~\E r \in Open : handoff[r].done # {} /\ o \in handoff[r].body.homes
    /\ homes' = homes \ {o}
    /\ UNCHANGED <<bundle, listed, verified, scopeVersion, granted, issued, answered, handoff>>

Selections == {s \in BoundedSeq(BundleApps, Cardinality(BundleApps)) : s # <<>> /\ IsInjective(s)}

\* One organization is picked for all of them.
BodiesOf(apps) ==
    {Body(via, apps, versions, {o}) :
        via \in {"batch", "bundle"}, versions \in [ToSet(apps) -> 1..MaxScopeVersion], o \in Homes}

Bodies == UNION {BodiesOf(apps) : apps \in Selections}

BundleNext ==
    \/ \E r \in Handoffs, k \in HandoffKeys, body \in Bodies : Start(r, k, body)
    \/ \E r \in Handoffs, a \in BundleApps : IssueNext(r, a)
    \/ \E r \in Handoffs : GiveUp(r) \/ Commit(r)
    \/ \E a \in BundleApps : Reconfigure(a) \/ SuspendMember(a)
    \/ \E o \in Homes : LoseHome(o)
    \/ EditBundle \/ DeleteBundle \/ Unlist

BundleSpec == BundleInit /\ [][BundleNext]_bundleVars

----------------------------------------------------------------------------
(* Properties *)

\* A handoff that commits does so for exactly the applications its request lists,
\* which for a bundle are exactly the bundle's members at that moment, and each on
\* the scopes, standing and memberships of that moment.
HandoffWholeStep ==
    \A r \in Open : issued' # issued /\ handoff'[r] = NotOpen =>
      LET body == handoff[r].body
          apps == {t.app : t \in issued' \ issued}
      IN  /\ apps = ToSet(body.apps)
          /\ body.via = "bundle" => apps = bundle.members /\ bundle.exists /\ listed
          /\ apps \subseteq verified
          /\ \A a \in apps : body.versions[a] = scopeVersion[a]
          /\ body.homes \subseteq homes
HandoffWhole == [][HandoffWholeStep]_bundleVars

\* Concurrent handoffs of a session never lose an organization another one was
\* granted; only a suspension takes grants away.
GrantsKeptStep ==
    \A a \in BundleApps : granted[a].on /\ a \in verified' => granted[a].homes \subseteq granted'[a].homes
GrantsKept == [][GrantsKeptStep]_bundleVars

\* A handoff waits for an application's consent, held by another.
WaitsFor(r, q) == \E a \in BundleApps : IsNext(r, a) /\ a \in handoff[q].done

\* Handoffs that overlap never wait for one another in a circle, whatever order
\* their callers listed the applications in.
NoReversedWait == \A r, q \in Open : r # q => ~(WaitsFor(r, q) /\ WaitsFor(q, r))

\* A batch login issues for the whole bundle of that moment or for nothing, takes
\* no organization from a login beside it, and never waits for one that waits for it.
BundleSound == []NoReversedWait /\ HandoffWhole /\ GrantsKept

=============================================================================
