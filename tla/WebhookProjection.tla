------------------------- MODULE WebhookProjection -------------------------
(***************************************************************************)
(* What one application is told of the members of an organization: the     *)
(* projection of an event is captured in the transaction that makes the    *)
(* change, sent later, and never computed again.                           *)
(*                                                                         *)
(* Sources: src/features/application_webhook_projections.rs, src/api/me.rs *)
(*          (patch), list_organization_member_webhook_authorizations and   *)
(*          list_profile_webhook_authorization_scopes of migration 0096,   *)
(*          the worker's queries of migration 0072.                        *)
(*                                                                         *)
(* A field of a person is disclosed by a consent (of that person, or of    *)
(* another member for a directory scope), an approved scope and two        *)
(* memberships.  Each is a row some other transaction may withdraw at the  *)
(* same time.  A row carries the time its withdrawal began, which is what  *)
(* transaction_timestamp() gives; commits may come in another order.       *)
(***************************************************************************)
EXTENDS Naturals, FiniteSets

CONSTANTS
    People,   \* members of the organization
    Changes   \* transactions: changes of members and withdrawals

Scopes == {"self", "directory"}
Rows == ({"consent", "member"} \X People) \cup ({"approved"} \X Scopes)

VARIABLES
    grant,       \* committed rows: [active, at], at = when the withdrawal began
    clock,       \* number of transactions begun
    tx,          \* the transactions
    projection   \* committed events with their captured projection

projectionVars == <<grant, clock, tx, projection>>

Live == [active |-> TRUE, at |-> 0]
NoTx == [at |-> "none", kind |-> "none", who |-> "none", began |-> 0, snap |-> {},
         locks |-> {}, known |-> FALSE, shown |-> {}]
NoEvent == [kind |-> "none", who |-> "none", created |-> 0, known |-> FALSE, was |-> FALSE, sent |-> FALSE]

\* Every person is a member; any of them may have consented.
ProjectionInit ==
    /\ grant \in {r \in [Rows -> {Live, [active |-> FALSE, at |-> 0]}] :
                   \A id \in Rows : id[1] # "consent" => r[id].active}
    /\ clock = 1
    /\ tx = [c \in Changes |-> NoTx]
    /\ projection = [c \in Changes |-> NoEvent]

----------------------------------------------------------------------------
(* Authorization *)

\* A consent g with scope s says something about person p.
Concerns(p) == {a \in People \X Scopes : a[1] = p \/ a[2] = "directory"}

\* The rows the authorization <<g, s>> of person p rests on.
RestsOn(p, a) == {<<"consent", a[1]>>, <<"approved", a[2]>>, <<"member", p>>, <<"member", a[1]>>}

\* Authorizations that hold now.
Effective(rows, p) == {a \in Concerns(p) : \A id \in RestsOn(p, a) : rows[id].active}

\* Mutant of Loaded: authorizations that this change ends are left out.
LoadedAfter(rows, p, began) == Effective(rows, p)

\* Authorizations that hold now or held when the transaction began.
Loaded(rows, p, began) ==
    {a \in Concerns(p) : \A id \in RestsOn(p, a) : rows[id].active \/ rows[id].at >= began}

----------------------------------------------------------------------------
(* Transactions *)

\* The row a transaction writes.
Target(kind, who) ==
    CASE kind \in {"update", "remove"} -> <<"member", who>>
      [] kind = "revoke" -> <<"consent", who>>
      [] kind = "unapprove" -> <<"approved", who>>
      [] kind = "profile" -> <<"carbon", who>>

Writes(t) == t.at \in {"written", "captured"} /\ t.kind # "profile"

\* Another transaction wrote the row, or holds it FOR SHARE.
WrittenByOther(c, id) == \E d \in Changes \ {c} : Writes(tx[d]) /\ Target(tx[d].kind, tx[d].who) = id
SharedByOther(c, id) == \E d \in Changes \ {c} : id \in tx[d].locks

Begin(c, kind, who) ==
    /\ tx[c] = NoTx
    /\ kind \in {"update", "remove", "profile"} => grant[<<"member", who>>].active
    /\ kind \in {"revoke", "unapprove"} => grant[Target(kind, who)].active
    /\ tx' = [tx EXCEPT ![c] = [NoTx EXCEPT !.at = "open", !.kind = kind, !.who = who, !.began = clock,
                                            !.snap = {id \in Rows : grant[id].active}]]
    /\ clock' = clock + 1
    /\ UNCHANGED <<grant, projection>>

\* The change of the domain row; it waits for the locks of others.
Write(c) ==
    LET t == tx[c] id == Target(t.kind, t.who) IN
    /\ t.at = "open"
    /\ ~WrittenByOther(c, id) /\ ~SharedByOther(c, id)
    /\ t.kind # "profile" => grant[id].active
    /\ tx' = [tx EXCEPT ![c].at = "written"]
    /\ UNCHANGED <<grant, clock, projection>>

\* The rows as a transaction sees them, its own change included.
Seen(t) ==
    IF t.kind = "remove"
    THEN [grant EXCEPT ![<<"member", t.who>>] = [active |-> FALSE, at |-> t.began]]
    ELSE grant

\* Mutant of Locked: the authorizations are read without FOR SHARE.
LockedNone(p, loaded) == {}

Locked(p, loaded) == UNION {RestsOn(p, a) : a \in loaded}

\* capture_organization_application_projections: a person who can no longer be seen
\* becomes a tombstone.
Capture(c) ==
    LET t == tx[c] loaded == Loaded(Seen(t), t.who, t.began) IN
    /\ t.at = "written" /\ t.kind \in {"update", "remove"}
    /\ \A id \in Locked(t.who, loaded) : ~WrittenByOther(c, id)
    /\ tx' = [tx EXCEPT ![c].at = "captured", ![c].locks = Locked(t.who, loaded),
                        ![c].known = loaded # {}, ![c].shown = Effective(Seen(t), t.who)]
    /\ UNCHANGED <<grant, clock, projection>>

\* patch and capture_profile_webhook_projections: serializable, so the rows are those of
\* the snapshot, and a lock on a row changed since then fails.  Memberships are read
\* without a lock.
CaptureProfile(c) ==
    LET t == tx[c]
        shown == {a \in Concerns(t.who) : RestsOn(t.who, a) \subseteq t.snap}
        locks == {id \in Locked(t.who, shown) : id[1] # "member"} IN
    /\ t.at = "written" /\ t.kind = "profile"
    /\ \A id \in locks : grant[id].active /\ ~WrittenByOther(c, id)
    /\ tx' = [tx EXCEPT ![c].at = "captured", ![c].locks = locks,
                        ![c].known = shown # {}, ![c].shown = shown]
    /\ UNCHANGED <<grant, clock, projection>>

\* The withdrawal and the event become visible together.
Commit(c) ==
    LET t == tx[c] id == Target(t.kind, t.who) IN
    /\ t.at = IF t.kind \in {"revoke", "unapprove"} THEN "written" ELSE "captured"
    /\ grant' = IF t.kind \in {"remove", "revoke", "unapprove"}
              THEN [grant EXCEPT ![id] = [active |-> FALSE, at |-> t.began]] ELSE grant
    /\ projection' = IF t.kind \in {"revoke", "unapprove"} THEN projection
                ELSE [projection EXCEPT ![c] =
                    [kind |-> t.kind, who |-> t.who, created |-> t.began, known |-> t.known,
                     was |-> Effective(grant, t.who) # {}, sent |-> FALSE]]
    /\ tx' = [tx EXCEPT ![c] = [NoTx EXCEPT !.at = "over"]]
    /\ UNCHANGED clock

\* A failure, a deadlock or a serialization conflict.
Abort(c) ==
    /\ tx[c].at \in {"open", "written", "captured"}
    /\ tx' = [tx EXCEPT ![c] = [NoTx EXCEPT !.at = "over"]]
    /\ UNCHANGED <<grant, clock, projection>>

\* Mutant of Sendable: only a consent and a membership that still hold.
SendableNow(e) ==
    e.kind = "profile" \/ \E g \in People : grant[<<"consent", g>>].active /\ grant[<<"member", g>>].active

\* get_worker_application_webhook_event_projection.
Sendable(e) ==
    \/ e.kind = "profile"
    \/ \E g \in People : \A id \in {<<"consent", g>>, <<"member", g>>} :
           grant[id].active \/ grant[id].at >= e.created

\* The worker loads the captured projection and sends it.
Deliver(c) ==
    /\ projection[c].known /\ ~projection[c].sent /\ Sendable(projection[c])
    /\ projection' = [projection EXCEPT ![c].sent = TRUE]
    /\ UNCHANGED <<grant, clock, tx>>

ProjectionNext ==
    \E c \in Changes :
        \/ \E kind \in {"update", "remove", "revoke", "profile"}, who \in People : Begin(c, kind, who)
        \/ \E who \in Scopes : Begin(c, "unapprove", who)
        \/ Write(c) \/ Capture(c) \/ CaptureProfile(c) \/ Commit(c) \/ Abort(c) \/ Deliver(c)

ProjectionSpec == ProjectionInit /\ [][ProjectionNext]_projectionVars

----------------------------------------------------------------------------
(* Nothing is disclosed after its withdrawal: when the event of a change     *)
(* commits, every consent and approved scope its projection rests on is      *)
(* still in force, and for events of the organization both memberships too,  *)
(* whatever withdrawals ran meanwhile.  (A profile change reads the          *)
(* memberships of directory consents without a lock.)                        *)
DisclosedWhileGrantedStep ==
    \A c \in Changes :
        tx[c].at = "captured" /\ projection'[c] # projection[c] =>
            \A a \in tx[c].shown : \A id \in RestsOn(tx[c].who, a) :
                (id[1] = "member" /\ tx[c].kind = "profile") \/ grant'[id].active
DisclosedWhileGranted == [][DisclosedWhileGrantedStep]_projectionVars

(* A removal is reported: an application that could see a person until the   *)
(* removal committed has a projection for it (a tombstone), and the worker   *)
(* can still send it unless a withdrawal other than the removal itself took  *)
(* the last consent away: the removal does not silence its own event.        *)
RemovalReported ==
    \A c \in Changes :
        projection[c].kind = "remove" /\ projection[c].was =>
            /\ projection[c].known
            /\ (\A id \in Rows \ {<<"member", projection[c].who>>} : grant[id].at = 0) => Sendable(projection[c])

\* What is shown is still granted when its event commits, and a removal is
\* reported to whoever could see the member.
ProjectionSound == DisclosedWhileGranted /\ [][RemovalReported']_projectionVars
=============================================================================
