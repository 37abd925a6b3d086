------------------------------ MODULE Directory ------------------------------
(***************************************************************************)
(* The directory of an organization: tags and who carries them, and trust  *)
(* rules that select members by tag.                                       *)
(*                                                                         *)
(* Sources: src/features/organizations/{handlers,trust,silicons,directory, *)
(*          governance,invitations}.rs and the functions they call in      *)
(*          migrations/0015, 0034, 0040, 0054 and 0056.                    *)
(*                                                                         *)
(* Transactions run at READ COMMITTED and hold row locks to their end.  An *)
(* edit is a sequence of statements.  A statement selects its rows in the  *)
(* snapshot in which it begins, and locks them one by one: after a wait it *)
(* reads again the row that it locks, and nothing else.  Rows are locked   *)
(* in the order of their identifiers, which the model leaves open.         *)
(* Versions, capabilities, unchanged values and idempotency records only   *)
(* refuse; silicon projections, histories and events follow the rows.      *)
(* Reporting lines are the module Hierarchy.                               *)
(***************************************************************************)
EXTENDS FiniteSets

CONSTANTS
    DirectoryCarbons,  \* carbon memberships
    DirectorySilicons, \* silicon memberships
    Tags,              \* tags that may be created
    TrustRules,        \* bound: trust rules that may be created
    Edits              \* transactions that may be in flight at once

People == DirectoryCarbons \cup DirectorySilicons
NoOne == "no one"

\* Rows of different tables, and no row, are told apart.
ASSUME DirectoryAssumption == People \cap Tags = {} /\ NoOne \notin People \cup Tags

NoEdit == [kind |-> "idle"]

VARIABLES
    standing,  \* status of each membership
    tag,       \* status of each iam.organization_tags row
    carries,   \* iam.membership_tags
    rule,      \* iam.trust_rules: live or not, subject and target selector
    edit       \* the transactions in flight, with the rows they have locked

directoryRows == <<standing, tag, carries, rule>>
directoryVars == <<standing, tag, carries, rule, edit>>

NoRule == [live |-> FALSE, subject |-> NoOne, target |-> NoOne]

DirectoryInit ==
    /\ standing = [p \in People |-> IF p \in DirectoryCarbons THEN "active" ELSE "absent"]
    /\ tag = [t \in Tags |-> "absent"]
    /\ carries = [p \in People |-> {}]
    /\ rule = [k \in TrustRules |-> NoRule]
    /\ edit = [e \in Edits |-> NoEdit]

Present(p) == standing[p] = "active"
Holders(t) == {p \in People : Present(p) /\ t \in carries[p]}

----------------------------------------------------------------------------
(* Row locks *)

Busy(e) == edit[e] # NoEdit

\* FOR UPDATE conflicts with every lock, FOR SHARE and the FOR KEY SHARE of a
\* foreign key with FOR UPDATE only.
Conflicts(e, mode, rows) ==
    {d \in Edits \ {e} : Busy(d) /\
        rows \cap (edit[d].updating \cup (IF mode = "update" THEN edit[d].sharing ELSE {})) # {}}
Free(e, mode, rows) == Conflicts(e, mode, rows) = {}

Locking(e, mode, rows) ==
    IF mode = "update" THEN [edit[e] EXCEPT !.updating = @ \cup rows]
    ELSE [edit[e] EXCEPT !.sharing = @ \cup rows]

\* A transaction that was admitted: the sensitive action holds its author's
\* membership FOR SHARE.
Begin(e, kind, author, details) ==
    /\ edit[e] = NoEdit /\ Present(author)
    /\ Free(e, "share", {author})
    /\ edit' = [edit EXCEPT ![e] =
         [kind |-> kind, stage |-> "begun", updating |-> {}, sharing |-> {author},
          details |-> details, wanted |-> {}, found |-> {}, earlier |-> {}]]
    /\ UNCHANGED directoryRows

\* The statement after which an edit writes; an arrival only writes.
LastStage(kind) ==
    CASE kind \in {"rule", "rename"} -> "second"
      [] kind = "archive" -> "counted"
      [] kind = "tags" -> "kept"
      [] kind = "arrival" -> "begun"

AllLocked(e) ==
    Busy(e) /\ edit[e].stage = LastStage(edit[e].kind) /\ edit[e].wanted = {}

Commit(e) == edit' = [edit EXCEPT ![e] = NoEdit]

\* A statement is refused, the client goes away, or the database resolves a
\* deadlock: nothing of the transaction remains.
Rollback(e) ==
    /\ Busy(e)
    /\ Commit(e)
    /\ UNCHANGED directoryRows

----------------------------------------------------------------------------
(* Tags *)

\* create_tag: a new row, also when the name was used by an archived tag.
CreateTag(t) ==
    /\ tag[t] = "absent"
    /\ tag' = [tag EXCEPT ![t] = "active"]
    /\ UNCHANGED <<standing, carries, rule, edit>>

\* update_tag and delete_tag up to lock_organization_tag_scope.
BeginTagEdit(e, kind, author, t) ==
    /\ tag[t] = "active"
    /\ Begin(e, kind, author, [tag |-> t])

\* archive_organization_tag and the UPDATE of update_tag: as many memberships are
\* archived as histories were prepared; assignments and rules go with the tag.
FinishTagEdit(e) ==
    LET t == edit[e].details.tag IN
    /\ AllLocked(e) /\ edit[e].kind \in {"rename", "archive"}
    /\ edit[e].kind = "archive" => Cardinality(edit[e].found) = Cardinality(edit[e].earlier)
    /\ IF edit[e].kind = "rename"
       THEN UNCHANGED <<tag, carries, rule>>
       ELSE /\ tag' = [tag EXCEPT ![t] = "archived"]
            /\ carries' = [p \in People |-> carries[p] \ {t}]
            /\ rule' = [k \in TrustRules |->
                 IF rule[k].live /\ t \in {rule[k].subject, rule[k].target}
                 THEN NoRule ELSE rule[k]]
    /\ Commit(e)
    /\ UNCHANGED <<standing>>

\* replace_member_tags up to lock_direct_target.
BeginTagChange(e, author, p, tags) ==
    /\ Present(p) /\ carries[p] # tags
    /\ author \in DirectoryCarbons
    /\ Begin(e, "tags", author, [member |-> p, tags |-> tags])

\* replace_membership_tags_direct: the tags are counted again under their locks.
FinishTagChange(e) ==
    LET d == edit[e].details IN
    /\ AllLocked(e) /\ edit[e].kind = "tags"
    /\ Present(d.member) /\ \A t \in d.tags : tag[t] = "active"
    /\ carries' = [carries EXCEPT ![d.member] = d.tags]
    /\ Commit(e)
    /\ UNCHANGED <<standing, tag, rule>>

----------------------------------------------------------------------------
(* Trust rules *)

SelectorValid(s) == IF s \in Tags THEN tag[s] = "active" ELSE Present(s)

\* Members that the selectors of a rule select: those named, those that carry the
\* subject's tag and the silicons that carry the target's.
SelectedBy(subjects, targets) ==
    {p \in People : Present(p) /\
        \/ p \in subjects \cup targets
        \/ carries[p] \cap subjects # {}
        \/ p \in DirectorySilicons /\ carries[p] \cap targets # {}}

Subjects(d) == {d.subject, d.oldSubject} \ {NoOne}
Targets(d) == {d.target, d.oldTarget} \ {NoOne}
RuleTags(d) == (Subjects(d) \cup Targets(d)) \cap Tags
Named(d) == (Subjects(d) \cup Targets(d)) \cap People

\* create_trust_rule, update_trust_rule and delete_trust_rule up to
\* validate_selectors.
BeginRule(e, author, k, subject, target) ==
    /\ SelectorValid(subject) /\ SelectorValid(target)
    /\ Begin(e, "rule", author,
         [rule |-> k, subject |-> subject, target |-> target,
          oldSubject |-> rule[k].subject, oldTarget |-> rule[k].target])

BeginRuleDeletion(e, author, k) ==
    /\ rule[k].live
    /\ Begin(e, "rule", author,
         [rule |-> k, subject |-> NoOne, target |-> NoOne,
          oldSubject |-> rule[k].subject, oldTarget |-> rule[k].target])

\* trust_rule_exists, and the version that was read.
RuleWritable(d) ==
    /\ rule[d.rule].subject = d.oldSubject /\ rule[d.rule].target = d.oldTarget
    /\ \A k \in TrustRules \ {d.rule} :
         ~(rule[k].live /\ rule[k].subject = d.subject /\ rule[k].target = d.target)

\* The write at the end of the three handlers, once the second pass found the
\* members that the rule names.
FinishRule(e) ==
    LET d == edit[e].details IN
    /\ AllLocked(e) /\ edit[e].kind = "rule"
    /\ Named(d) \subseteq edit[e].found
    /\ RuleWritable(d)
    /\ rule' = [rule EXCEPT ![d.rule] =
         IF d.subject = NoOne THEN NoRule
         ELSE [live |-> TRUE, subject |-> d.subject, target |-> d.target]]
    /\ Commit(e)
    /\ UNCHANGED <<standing, tag, carries>>

----------------------------------------------------------------------------
(* The statements that lock *)

\* Mutant of RuleRows: the tags of a rule are not locked.
RuleWithoutTagLock(d, stage) ==
    IF stage = "tag" THEN {} ELSE SelectedBy(Subjects(d), Targets(d))

\* lock_trust_rule_memberships: a first pass over the selected memberships, the
\* tags, and a second pass.
RuleRows(d, stage) ==
    IF stage = "tag" THEN RuleTags(d) ELSE SelectedBy(Subjects(d), Targets(d))

\* lock_organization_tag_scope and the first statement of archive_organization_tag.
TagRows(d, stage) == IF stage = "tag" THEN {d.tag} ELSE Holders(d.tag)

\* lock_direct_target, then the tags, shared, in replace_membership_tags_direct.
TagChangeRows(d, stage) == IF stage = "member" THEN {d.member} ELSE d.tags

RowsOf(e, stage) ==
    CASE edit[e].kind = "rule" -> RuleRows(edit[e].details, stage)
      [] edit[e].kind = "tags" -> TagChangeRows(edit[e].details, stage)
      [] OTHER -> TagRows(edit[e].details, stage)

LockMode(kind, stage) ==
    IF kind = "rule" \/ stage \in {"tag", "member", "counted"} THEN "update" ELSE "share"

\* The order of an edit's statements.
Follows(kind, stage, next) ==
    \/ /\ kind \in {"rule", "rename", "archive"}
       /\ <<stage, next>> \in
            {<<"begun", "first">>, <<"first", "tag">>, <<"tag", "second">>}
    \/ kind = "archive" /\ <<stage, next>> = <<"second", "counted">>
    \/ kind = "tags" /\ <<stage, next>> \in {<<"begun", "member">>, <<"member", "kept">>}

\* A statement takes its snapshot; a pass over memberships forgets what the one
\* before it found.
BeginStatement(e, next) ==
    /\ Busy(e) /\ edit[e].wanted = {}
    /\ Follows(edit[e].kind, edit[e].stage, next)
    /\ edit' = [edit EXCEPT ![e] =
         IF next \in {"first", "second", "counted"}
         THEN [@ EXCEPT !.stage = next, !.wanted = RowsOf(e, next),
                        !.earlier = edit[e].found, !.found = {}]
         ELSE [@ EXCEPT !.stage = next, !.wanted = RowsOf(e, next)]]
    /\ UNCHANGED directoryRows

\* Both passes of a scope lock the assignments that they join with the memberships.
ByAssignment(e) ==
    edit[e].kind \in {"rename", "archive"} /\ edit[e].stage \in {"first", "second"}

\* Mutant of StillMatches: the row is not read again once it is locked.
MatchesAsRead(e, r) == Busy(e) /\ r \in People \cup Tags

\* The condition of the statement on what it locks: the status of the membership,
\* and for a scope the assignment, but not the assignments of a rule's EXISTS.
StillMatches(e, r) ==
    IF r \in People
    THEN Present(r) /\ (ByAssignment(e) => edit[e].details.tag \in carries[r])
    ELSE edit[e].kind # "tags" => tag[r] = "active"

Obtainable(e, r) ==
    /\ Busy(e) /\ r \in edit[e].wanted
    /\ Free(e, LockMode(edit[e].kind, edit[e].stage), {r})

\* A row is locked and is still one that the statement selects.
LockRow(e, r) ==
    /\ Obtainable(e, r) /\ StillMatches(e, r)
    /\ edit' = [edit EXCEPT ![e] =
         [Locking(e, LockMode(edit[e].kind, edit[e].stage), {r}) EXCEPT
            !.wanted = @ \ {r}, !.found = @ \cup ({r} \cap People)]]
    /\ UNCHANGED directoryRows

\* A row that the statement selects no more: a rule keeps its lock.  The first pass
\* of a scope also passes over an assignment that was deleted and written again,
\* which the model does not tell from any other.  Whom or what the other statements
\* miss, they refuse.
PassOver(e, r) ==
    /\ Obtainable(e, r) /\ r \in People /\ edit[e].kind # "tags"
    /\ ~StillMatches(e, r) \/ (ByAssignment(e) /\ edit[e].stage = "first")
    /\ edit' = [edit EXCEPT ![e] =
         [(IF edit[e].kind = "rule" THEN Locking(e, "update", {r}) ELSE edit[e]) EXCEPT
            !.wanted = @ \ {r}]]
    /\ UNCHANGED directoryRows

----------------------------------------------------------------------------
(* Arrivals and departures *)

\* A carbon may come back, a silicon is created once.
Arrivable(p) == standing[p] = IF p \in DirectoryCarbons THEN "removed" ELSE "absent"

\* complete_verified_organization_invitation and create_silicon with
\* assign_initial_silicon_tags: the tags are counted without being locked.
BeginArrival(e, p, tags) ==
    /\ edit[e] = NoEdit
    /\ Arrivable(p) /\ \A t \in tags : tag[t] = "active"
    /\ edit' = [edit EXCEPT ![e] =
         [kind |-> "arrival", stage |-> "begun", updating |-> {}, sharing |-> {},
          details |-> [member |-> p, tags |-> tags],
          wanted |-> {}, found |-> {}, earlier |-> {}]]
    /\ UNCHANGED directoryRows

\* The membership is written over the one that was removed, and the assignments
\* refer to their tags with a foreign key, which waits for an archival in flight but
\* does not look at the status.
FinishArrival(e) ==
    LET d == edit[e].details IN
    /\ AllLocked(e) /\ edit[e].kind = "arrival"
    /\ Arrivable(d.member)
    /\ Free(e, "update", {d.member}) /\ Free(e, "share", d.tags)
    /\ standing' = [standing EXCEPT ![d.member] = "active"]
    /\ carries' = [carries EXCEPT ![d.member] = d.tags]
    /\ Commit(e)
    /\ UNCHANGED <<tag, rule>>

\* remove_member, remove_silicon: the assignments of the member are deleted, trust
\* rules that name it stay.
RemovePerson(p) ==
    /\ Present(p)
    /\ \A e \in Edits : Busy(e) => p \notin edit[e].updating \cup edit[e].sharing
    /\ standing' = [standing EXCEPT ![p] = "removed"]
    /\ carries' = [carries EXCEPT ![p] = {}]
    /\ UNCHANGED <<tag, rule, edit>>

DirectoryNext ==
    \/ \E t \in Tags : CreateTag(t)
    \/ \E e \in Edits, kind \in {"rename", "archive"}, a \in DirectoryCarbons, t \in Tags :
         BeginTagEdit(e, kind, a, t)
    \/ \E e \in Edits : FinishTagEdit(e)
    \/ \E e \in Edits, a \in DirectoryCarbons, p \in People, tags \in SUBSET Tags :
         BeginTagChange(e, a, p, tags)
    \/ \E e \in Edits : FinishTagChange(e)
    \/ \E e \in Edits, a \in DirectoryCarbons, k \in TrustRules,
          subject \in People \cup Tags, target \in DirectorySilicons \cup Tags :
         BeginRule(e, a, k, subject, target)
    \/ \E e \in Edits, a \in DirectoryCarbons, k \in TrustRules : BeginRuleDeletion(e, a, k)
    \/ \E e \in Edits : FinishRule(e)
    \/ \E e \in Edits, next \in {"first", "tag", "second", "counted", "member", "kept"} :
         BeginStatement(e, next)
    \/ \E e \in Edits, r \in People \cup Tags : LockRow(e, r) \/ PassOver(e, r)
    \/ \E e \in Edits : Rollback(e)
    \/ \E e \in Edits, p \in People, tags \in SUBSET Tags : BeginArrival(e, p, tags)
    \/ \E e \in Edits : FinishArrival(e)
    \/ \E p \in People : RemovePerson(p)

DirectorySpec == DirectoryInit /\ [][DirectoryNext]_directoryVars
----------------------------------------------------------------------------
(* Properties *)

\* Whom the event of a rule names: every member that its selectors select then, none
\* that has left, and of those that were selected when the request first looked only
\* such as still are.  A member that the first pass missed may have lost its tag
\* while the second pass waited for it, although the comment of
\* lock_trust_rule_memberships promises "the exact, stable active membership set".
RuleAudience(d, found, earlier) ==
    /\ SelectedBy(Subjects(d), Targets(d)) \subseteq found
    /\ \A p \in found : Present(p)
    /\ found \cap earlier \subseteq SelectedBy(Subjects(d), Targets(d))
    /\ \A t \in RuleTags(d) : tag[t] = "active"

\* Whatever tags were given, taken or archived since the request looked, an edit that
\* has all its locks knows its audience: a rule as above, a change of a tag exactly
\* the members that hold it (lock_organization_tag_scope, "the second pass catches an
\* assignment that committed before the tag lock was acquired").
DirectorySound ==
    \A e \in Edits : AllLocked(e) =>
        LET d == edit[e].details IN
        /\ edit[e].kind = "rule" /\ Named(d) \subseteq edit[e].found =>
             RuleAudience(d, edit[e].found, edit[e].earlier)
        /\ edit[e].kind \in {"rename", "archive"} => edit[e].found = Holders(d.tag)
=============================================================================
