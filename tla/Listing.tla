------------------------------ MODULE Listing ------------------------------
(***************************************************************************)
(* Cursor pagination of the list endpoints, read page by page while rows   *)
(* are inserted, change status, leave and come back.                       *)
(*                                                                         *)
(* Every list handler reads limit + 1 rows after its cursor in one         *)
(* statement, drops the extra row and answers with the cursor of the last  *)
(* row it kept.  Handlers differ in what they order by, what the cursor    *)
(* carries and which statuses a caller may ask for.                        *)
(***************************************************************************)
EXTENDS Naturals, FiniteSets

CONSTANTS
    Rows,      \* row identifiers: numbers, in the order of the identifiers
    PageSize,  \* the limit of the caller
    MaxAt      \* bound on time

ASSUME ListingAssumption ==
    Rows \subseteq Nat \ {0} /\ IsFiniteSet(Rows) /\ PageSize \in Nat \ {0} /\ MaxAt \in Nat

VARIABLES
    listing,   \* the list endpoint, with the statuses asked for
    table,     \* its rows
    pager,     \* the caller who reads page after page
    now

listingVars == <<listing, table, pager, now>>

----------------------------------------------------------------------------
(* The endpoints: what they order by, what their cursor carries, and the     *)
(* statuses one request may select.  "ended" is removed, archived, deleted,  *)
(* accepted, revoked or expired.                                             *)

OnlyActive == {{"active"}}
Either == {{"active"}, {"ended"}}
Everything == {{"active", "ended"}}

ById(name, choices) == [name |-> name, order |-> "id", cursor |-> "id", stop |-> "short", choices |-> choices]
ByTime(name, choices) == [name |-> name, order |-> "time", cursor |-> "pair", stop |-> "short", choices |-> choices]

ListOrganizations == ById("organizations", Either)
ListTags == ById("tags", OnlyActive)
ListTagMembers == ById("tag members", OnlyActive)
ListMembers == ById("members", Either \cup Everything)
ListDirectoryMembers == ById("directory", OnlyActive)
ListSilicons == ById("silicons", OnlyActive)
ListInvitations == ById("invitations", Either \cup Everything)
ListApprovalRequests == ById("approvals", Either \cup Everything)
ListJobRoleHistory == ById("job roles", Everything)
ListTagHistory == ById("tag changes", Everything)
ListTrustRules == ById("trust rules", OnlyActive)
ListEnvironments == ById("environments", Either \cup Everything)
PublicationRecipients == ById("recipients", OnlyActive)
OrganizationRecipients == ById("organization recipients", OnlyActive)
ListSessions == ByTime("sessions", Everything)
ListLoginHistory == ByTime("logins", Everything)
ListApplications == ByTime("applications", Either \cup Everything)
AdminApplications == ByTime("review queue", Either \cup Everything)
ApplicationLogins == ByTime("application logins", Everything)
ListBundles == ByTime("bundles", OnlyActive)
ScopeReviews == ByTime("scope requests", Either \cup Everything)
\* The dictionary of a whole organization: batches until one is empty.
Details == [ById("details", OnlyActive) EXCEPT !.stop = "empty"]
\* History and inventory of a service: pages of a hundred, the last one empty or not full.
ManagementEvents == [ById("management events", Everything) EXCEPT !.stop = "empty"]
Inventory == [ById("inventory", Everything) EXCEPT !.stop = "not full"]
\* Ordered by dead_lettered_at, which a failed replay renews.
DeadLetters == ByTime("dead letters", OnlyActive)
\* The cursor is an identifier; its time is looked up among the present dead letters.
SiliconDeadLetters == [DeadLetters EXCEPT !.name = "silicon dead letters", !.cursor = "lookup"]

Listings == {ListOrganizations, ListTags, ListTagMembers, ListMembers, ListDirectoryMembers,
             ListSilicons, ListInvitations, ListApprovalRequests, ListJobRoleHistory,
             ListTagHistory, ListTrustRules, ListEnvironments, PublicationRecipients,
             OrganizationRecipients, ListSessions, ListLoginHistory, ListApplications,
             AdminApplications, ApplicationLogins, ListBundles, ScopeReviews, Details,
             ManagementEvents, Inventory,
             DeadLetters, SiliconDeadLetters}

\* The endpoints that page alike need no run of their own.
Shape(l) == [order |-> l.order, cursor |-> l.cursor, stop |-> l.stop, choices |-> l.choices,
             renews |-> l.name \in {"dead letters", "silicon dead letters"}]

Absent == [status |-> "absent", at |-> 0]
NoCursor == [id |-> 0, at |-> 0]
NoPager == [at |-> "idle", cursor |-> NoCursor, count |-> [i \in Rows |-> 0], kept |-> {}]

ListingInit ==
    /\ \E l \in {Shape(x) : x \in Listings} : \E shows \in l.choices :
          listing = [order |-> l.order, cursor |-> l.cursor, stop |-> l.stop, renews |-> l.renews, shows |-> shows]
    /\ table = [i \in Rows |-> Absent]
    /\ pager = NoPager
    /\ now = 0

----------------------------------------------------------------------------
(* The rows *)

Shown(t) == {i \in Rows : t[i].status \in listing.shows}
TableChanged(t) ==
    /\ table' = t
    /\ pager' = [pager EXCEPT !.kept = @ \cap Shown(t)]
    /\ UNCHANGED <<listing, now>>

\* A row carries the time its transaction began, and is seen once that commits.
InsertRow(i, at) ==
    /\ table[i] = Absent /\ at <= now
    /\ TableChanged([table EXCEPT ![i] = [status |-> "active", at |-> at]])

\* Only a renewed dead letter changes its place.
ChangeStatus(i) ==
    /\ table[i] # Absent
    /\ TableChanged([table EXCEPT ![i] =
          IF @.status = "active" THEN [@ EXCEPT !.status = "ended"]
          ELSE [status |-> "active", at |-> IF listing.renews THEN now ELSE @.at]])

Pass == now < MaxAt /\ now' = now + 1 /\ UNCHANGED <<listing, table, pager>>

----------------------------------------------------------------------------
(* Pages *)

Before(i, j) ==
    IF listing.order = "id" THEN i < j
    ELSE table[i].at > table[j].at \/ (table[i].at = table[j].at /\ i > j)

\* Mutant of After: the tie-breaking identifier is forgotten.
AfterTime(i, c) ==
    c.id # 0 => IF listing.order = "id" THEN i > c.id ELSE table[i].at < c.at

\* The cursor's condition in the statement.
After(i, c) ==
    c.id # 0 => IF listing.order = "id" THEN i > c.id
                ELSE table[i].at < c.at \/ (table[i].at = c.at /\ i < c.id)

\* load_cursor_timestamp: the time a Silicon's cursor stands for today.
Resolved(c) == IF listing.cursor = "lookup" /\ c.id # 0 THEN [c EXCEPT !.at = table[c.id].at] ELSE c
Refused(c) == listing.cursor = "lookup" /\ c.id # 0 /\ table[c.id].status \notin listing.shows

\* The first n rows of S, in the order of the statement.
FirstOf(n, S) == {i \in S : Cardinality({j \in S : Before(j, i)}) < n}

\* The statement reads one row more than asked for, where a short page is the last.
Fetched(c) ==
    FirstOf(IF listing.stop = "short" THEN PageSize + 1 ELSE PageSize,
            {i \in Shown(table) : After(i, c)})

\* take_page: the extra row only tells that there is more.
Taken(rows) == FirstOf(PageSize, rows)
HasMore(rows) ==
    CASE listing.stop = "short" -> Cardinality(rows) > PageSize
      [] listing.stop = "not full" -> Cardinality(rows) = PageSize
      [] listing.stop = "empty" -> rows # {}

LastOf(S) == CHOOSE i \in S : \A j \in S : i = j \/ Before(j, i)
CursorOf(i) == [id |-> i, at |-> table[i].at]

\* Mutant of NextCursor: the cursor names the row that was dropped.
NextCursorExtra(rows) == CursorOf(LastOf(rows))

\* encode_cursor of the last row kept.
NextCursor(rows) == CursorOf(LastOf(Taken(rows)))

BeginListing ==
    /\ pager.at = "idle"
    /\ pager' = [pager EXCEPT !.at = "reading", !.kept = Shown(table)]
    /\ UNCHANGED <<listing, table, now>>

ReadPage ==
    LET rows == Fetched(Resolved(pager.cursor)) IN
    /\ pager.at = "reading" /\ ~Refused(pager.cursor)
    /\ pager' = [pager EXCEPT
          !.at = IF HasMore(rows) THEN "reading" ELSE "done",
          !.cursor = IF HasMore(rows) THEN NextCursor(rows) ELSE @,
          !.count = [i \in Rows |-> IF i \in Taken(rows) /\ @[i] < 2 THEN @[i] + 1 ELSE @[i]]]
    /\ UNCHANGED <<listing, table, now>>

\* "does not identify a visible dead letter"
RefusePage ==
    /\ pager.at = "reading" /\ Refused(pager.cursor)
    /\ pager' = [pager EXCEPT !.at = "refused"]
    /\ UNCHANGED <<listing, table, now>>

ListingNext ==
    \/ \E i \in Rows : (\E at \in 0..MaxAt : InsertRow(i, at)) \/ ChangeStatus(i)
    \/ Pass \/ BeginListing \/ ReadPage \/ RefusePage

ListingSpec == ListingInit /\ [][ListingNext]_listingVars

----------------------------------------------------------------------------
(* A caller who follows the cursors to the end has been given every row that *)
(* was there all the time, and given it once, whatever was inserted, removed *)
(* or brought back in between.  A Silicon's dead letters may be given again: *)
(* their cursor moves when its own row is renewed.                           *)
ListedOnce ==
    pager.at = "done" => \A i \in pager.kept :
        IF listing.cursor = "lookup" THEN pager.count[i] >= 1 ELSE pager.count[i] = 1
=============================================================================
