--------------------------- MODULE DirectoryReads ---------------------------
(***************************************************************************)
(* What a directory read answers: which attributes of a member it shows to *)
(* an application, and the effective trust of the reader in a Silicon.     *)
(*                                                                         *)
(* A read is a transaction of several statements, each with a snapshot of  *)
(* its own, while members and the trust configuration change.  A direct    *)
(* read shows everything; an application sees what its scopes cover.       *)
(***************************************************************************)
EXTENDS Naturals, FiniteSets, FiniteSetsExt

CONSTANTS
    ScopeSets,   \* scopes an application may hold: sets of <<owner, family>>
    Levels,      \* trust values, the most restrictive first
    MaxEdits     \* bound on concurrent changes

ASSUME ReadsAssumption == MaxEdits \in Nat /\ Levels \subseteq Nat

VARIABLES
    org,      \* trust configuration: default, own default of the reader, rules, tags
    described,   \* the member read about: kind, version, the version of each attribute
    reading,  \* the read under way
    edits

readsVars == <<org, described, reading, edits>>

----------------------------------------------------------------------------
Attributes == {"identity", "name", "role", "job", "tags", "org", "hierarchy",
               "access", "capabilities", "trust", "rules", "default"}
\* Kept in the membership row, and in tables read by a later statement.
RowAttributes == {"role", "job", "tags"}
ExtraAttributes == {"name", "capabilities", "access"}

RuleKinds == {"membership", "tag"} \X {"silicon", "tag"}
NoLevel == 0
NoRequest == [view |-> "none"]
ReadersView == {"directory", "details", "evaluate", "snapshot"}
Views == ReadersView \cup {"member", "profile", "silicon", "authorization", "written"}

ReadsInit ==
    /\ org \in [default : Levels, own : {NoLevel} \cup Levels,
                rule : [RuleKinds -> {NoLevel}], tagged : SUBSET {"subject", "target"}]
    /\ described \in [kind : {"carbons", "silicons"}, version : {1}, active : {TRUE},
                   at : [RowAttributes \cup ExtraAttributes -> {1}]]
    /\ reading = NoRequest
    /\ edits = 0

----------------------------------------------------------------------------
(* Scopes and fields.  A request r holds r.scopes when r.app.                *)

Has(r, scope) == r.app => scope \in r.scopes
Of(r, family) == <<IF r.self THEN "self" ELSE "directory", family>>
Shows(r, family) == Has(r, Of(r, family))

RequireActor(r) == Has(r, <<"directory", r.kind>>)

\* ReadScopes::member
MemberFields(r) ==
    {a \in {"role", "job", "tags", "hierarchy", "access", "capabilities", "name"} :
        Shows(r, CASE a = "role" -> "membership" [] a = "job" -> "job_role" [] a = "name" -> "profile"
                   [] OTHER -> a)}
    \cup {a \in {"identity"} : r.self => Has(r, <<"self", "identity">>)}
    \cup {a \in {"org"} : Has(r, <<"self", "organizations">>)}
    \cup {a \in {"default"} : Has(r, <<"organization", "trust">>)}

\* ReadScopes::profile and ::silicon
ProfileFields(r) ==
    {a \in {"identity"} : Has(r, IF r.self THEN <<"self", "identity">> ELSE <<"directory", "carbons">>)}
    \cup {a \in {"name"} : Shows(r, "profile")}

SiliconFields(r) ==
    ProfileFields(r) \cup MemberFields(r)
        \cup {a \in {"identity"} : ~r.self /\ Has(r, <<"directory", "silicons">>)}

\* DirectoryFields::restricted: what is selected at all ...
Restricted(r) ==
    {a \in {"name", "tags"} : Shows(r, IF a = "name" THEN "profile" ELSE a)}
    \cup {a \in {"identity"} : ~r.self \/ Has(r, <<"self", "identity">>)}
    \cup {a \in {"role", "job"} : Shows(r, "membership") \/ Shows(r, "job_role")}
    \cup {a \in {"org"} : Has(r, <<"self", "organizations">>)}
    \cup {a \in {"trust", "rules"} : Has(r, <<"self", "trust">>)}

\* Mutant of DirectoryFields: the role object is not taken apart.
DirectoryFieldsWhole(r) ==
    Restricted(r) \ {a \in {"rules"} : ~Has(r, <<"organization", "trust">>)}

\* ... and ReadScopes::directory, which splits the role object and drops the
\* rule identifiers.
DirectoryFields(r) ==
    Restricted(r) \ ({a \in {"role"} : ~Shows(r, "membership")}
                     \cup {a \in {"job"} : ~Shows(r, "job_role")}
                     \cup {a \in {"rules"} : ~Has(r, <<"organization", "trust">>)})

\* The dictionary of details: the member fields, with role, organization and
\* trust taken from the directory row.
DetailFields(r) == (MemberFields(r) \ {"default"}) \cup DirectoryFields(r)
                   \cup {a \in {"default"} : Has(r, <<"organization", "trust">>)}

EvaluationFields(r) ==
    {"trust"} \cup {a \in {"rules"} : Has(r, <<"organization", "trust">>)}

\* enrich_effective_self_trust: whose event snapshots say what the member
\* trusts; effective_trust_for_subjects leaves the rules out of them.
SnapshotReader(r) == r.app /\ r.self /\ Has(r, <<"self", "trust">>)
SnapshotFields(r) == {"trust"}

\* mutation_projection: a member or Silicon the application may identify is
\* shown as a read would show it; else only identifiers and the version.
WrittenFields(r) ==
    IF Has(r, IF r.self THEN <<"self", "identity">> ELSE <<"directory", r.kind>>)
    THEN IF r.kind = "silicons" THEN SiliconFields(r) ELSE MemberFields(r)
    ELSE {}

Fields(r) ==
    CASE r.view = "directory" -> DirectoryFields(r)
      [] r.view = "details" -> DetailFields(r)
      [] r.view = "evaluate" -> EvaluationFields(r)
      [] r.view = "snapshot" -> SnapshotFields(r)
      [] r.view = "member" -> MemberFields(r)
      [] r.view = "profile" -> ProfileFields(r)
      [] r.view = "silicon" -> SiliconFields(r)
      [] r.view = "authorization" -> MemberFields(r) \cap {"role", "capabilities"}
      [] r.view = "written" -> WrittenFields(r)

\* GET /me of a carbon.
ProfileReader(r) ==
    r.self /\ r.kind = "carbons"
        /\ (Has(r, <<"self", "identity">>) \/ Has(r, <<"self", "profile">>))

\* The gates in front of the statements.
ReadAdmitted(r) ==
    CASE r.view = "evaluate" -> Has(r, <<"organization", "trust">>) \/ Has(r, <<"self", "trust">>)
      [] r.view = "snapshot" -> SnapshotReader(r)
      [] r.view = "profile" -> ProfileReader(r)
      [] r.view = "authorization" -> Shows(r, "membership") \/ Shows(r, "capabilities")
      [] r.view = "written" -> TRUE
      [] OTHER -> (r.self /\ r.view # "details") \/ RequireActor(r)

----------------------------------------------------------------------------
(* Effective trust                                                           *)

Default(o) == IF o.own # NoLevel THEN o.own ELSE o.default

MatchingRules(o) ==
    {k \in RuleKinds : /\ o.rule[k] # NoLevel
                       /\ k[1] = "tag" => "subject" \in o.tagged
                       /\ k[2] = "tag" => "target" \in o.tagged}

Specificity(k) == (IF k[1] = "membership" THEN 1 ELSE 0) + (IF k[2] = "silicon" THEN 1 ELSE 0)

\* Mutant of MostSpecific: every matching rule is a candidate.
MostSpecificAny(matches) == matches

MostSpecific(matches) ==
    {k \in matches : \A j \in matches : Specificity(j) <= Specificity(k)}

\* evaluate_matches: the most restrictive of the most specific rules.
EvaluateMatches(default, o) ==
    IF MatchingRules(o) = {} THEN default
    ELSE Min({o.rule[k] : k \in MostSpecific(MatchingRules(o))})

----------------------------------------------------------------------------
(* The read: its statements in order                                         *)

StartRead(view, self, app, scopes) ==
    LET r == [view |-> view, kind |-> described.kind, self |-> self, app |-> app,
              scopes |-> scopes, step |-> "row", heard |-> {Default(org)}, default |-> NoLevel,
              trust |-> NoLevel, used |-> {}, version |-> 0, asOf |-> described.at,
              reply |-> described.at]
    IN /\ reading = NoRequest
       /\ view = "details" => ~self
       /\ view \in {"silicon", "evaluate"} => described.kind = "silicons"
       /\ reading' = r
       /\ ReadAdmitted(r)
       /\ UNCHANGED <<org, described, edits>>

\* fetch_member, fetch_directory_member, fetch_by_silicon_id, fetch_authorization,
\* validate_active_membership: all but the member views are read at once.
RowReads(view) ==
    IF view \in {"member", "details"} THEN RowAttributes ELSE RowAttributes \cup ExtraAttributes

AfterRow(view) ==
    CASE view \in ReadersView -> "default"
      [] view = "member" -> "extras"
      [] OTHER -> "reply"

KeptAttributes(r, read) == [a \in DOMAIN r.reply |-> IF a \in read THEN described.at[a] ELSE r.reply[a]]

ReadRow ==
    /\ reading # NoRequest /\ reading.step = "row" /\ described.active
    /\ reading' = [reading EXCEPT
         !.step = AfterRow(reading.view), !.version = described.version, !.asOf = described.at,
         !.reply = KeptAttributes(reading, RowReads(reading.view))]
    /\ UNCHANGED <<org, described, edits>>

NotFound ==
    /\ reading # NoRequest /\ reading.step = "row" /\ ~described.active
    /\ reading' = NoRequest
    /\ UNCHANGED <<org, described, edits>>

\* TRUST_DEFAULT_FOR_SUBJECT_SQL, and then TRUST_MATCH_SQL.
ReadDefault ==
    /\ reading # NoRequest /\ reading.step = "default"
    /\ reading' = [reading EXCEPT !.step = "match", !.default = Default(org)]
    /\ UNCHANGED <<org, described, edits>>

ReadMatches ==
    /\ reading # NoRequest /\ reading.step = "match"
    /\ reading' = [reading EXCEPT
         !.step = IF reading.view = "details" THEN "members" ELSE "reply",
         !.trust = EvaluateMatches(reading.default, org),
         !.used = {<<k, org.rule[k]>> : k \in MatchingRules(org)}]
    /\ UNCHANGED <<org, described, edits>>

\* Mutant of Later: the members of the batch are read with their versions only.
LaterVersions == {}

\* fetch_members of the batch: everything but the role comes from this later
\* row, and so does the version.
Later == RowAttributes \ {"role", "job"}

ReadMembers ==
    /\ reading # NoRequest /\ reading.step = "members"
    /\ reading' = [reading EXCEPT
         !.step = "extras", !.version = described.version, !.asOf = described.at,
         !.reply = KeptAttributes(reading, Later)]
    /\ UNCHANGED <<org, described, edits>>

\* enrich_members
ReadExtras ==
    /\ reading # NoRequest /\ reading.step = "extras"
    /\ reading' = [reading EXCEPT !.step = "reply", !.reply = KeptAttributes(reading, ExtraAttributes)]
    /\ UNCHANGED <<org, described, edits>>

AnswerRead ==
    /\ reading # NoRequest /\ reading.step = "reply"
    /\ reading' = NoRequest
    /\ UNCHANGED <<org, described, edits>>

----------------------------------------------------------------------------
(* Changes by others between the statements                                  *)

Edit == edits < MaxEdits /\ edits' = edits + 1

Hearing(o) ==
    IF reading = NoRequest \/ reading.step \notin {"row", "default"} THEN reading
    ELSE [reading EXCEPT !.heard = @ \cup {Default(o)}]

ChangeTrust ==
    /\ Edit
    /\ \E o \in {[org EXCEPT !.default = l] : l \in Levels}
                \cup {[org EXCEPT !.own = l] : l \in Levels}
                \cup {[org EXCEPT !.rule[k] = l] : k \in RuleKinds, l \in Levels \cup {NoLevel}}
                \cup {[org EXCEPT !.tagged = t] : t \in SUBSET {"subject", "target"}} :
         /\ o # org
         /\ org' = o
         /\ reading' = Hearing(o)
    /\ UNCHANGED described

\* Every change of a member's attributes increments its version.
Change(a) ==
    /\ Edit /\ described.active
    /\ described' = [described EXCEPT !.version = @ + 1, !.at[a] = described.version + 1]
    /\ UNCHANGED <<org, reading>>

\* A carbon's first Silicon and extra Silicons; that of a Silicon moves it in
\* the hierarchy (module Hierarchy).
ChangeAccess == described.kind = "carbons" /\ Change("access")
UpdateSilicon == described.kind = "silicons" /\ Change("name")
ReplaceJobRole == Change("job")
ReplaceTags == Change("tags")
\* Promotion, demotion and grants are a carbon's.
ChangeReadRole == described.kind = "carbons" /\ Change("role")
ChangeReadCapabilities == described.kind = "carbons" /\ Change("capabilities")

RemoveDescribed ==
    /\ Edit /\ described.active
    /\ described' = [described EXCEPT !.active = FALSE, !.version = @ + 1]
    /\ UNCHANGED <<org, reading>>

ReadsNext ==
    \/ \E view \in Views, self \in BOOLEAN : \/ StartRead(view, self, FALSE, {})
                                             \/ \E s \in ScopeSets : StartRead(view, self, TRUE, s)
    \/ ReadRow \/ NotFound \/ ReadDefault \/ ReadMatches \/ ReadMembers \/ ReadExtras \/ AnswerRead
    \/ ChangeTrust \/ RemoveDescribed
    \/ ChangeAccess \/ UpdateSilicon \/ ReplaceJobRole \/ ReplaceTags
    \/ ChangeReadRole \/ ChangeReadCapabilities

ReadsSpec == ReadsInit /\ [][ReadsNext]_readsVars

----------------------------------------------------------------------------
(* Properties                                                                *)

ReadAnswers == reading # NoRequest /\ reading.step = "reply"

\* The scopes the application guide names for each attribute.
Catalogue(r, a) ==
    CASE a = "identity" -> IF r.self THEN {<<"self", "identity">>} ELSE {<<"directory", r.kind>>}
      [] a = "name" -> {Of(r, "profile")}
      [] a = "role" -> {Of(r, "membership")}
      [] a = "job" -> {Of(r, "job_role")}
      [] a = "org" -> {<<"self", "organizations">>}
      [] a = "trust" -> {<<"self", "trust">>, <<"organization", "trust">>}
      [] a \in {"rules", "default"} -> {<<"organization", "trust">>}
      [] OTHER -> {Of(r, a)}

\* application_reads.rs: "Application reads expose only fields authorized by
\* their current token scopes".  Two gates of the directory views, the field
\* lists of members, profiles and Silicons, and the projection of mutation
\* answers agree with one catalogue, attribute by attribute.
DisclosedAsCatalogued ==
    ReadAnswers /\ reading.app =>
        \A a \in Fields(reading) : Catalogue(reading, a) \cap reading.scopes # {}

\* Effective trust is an answer someone could defend: no rule overrules a more
\* specific one, of two equally specific rules the stricter one counts, and
\* the default decides only when no rule matched - a default that was in force
\* at some moment of the request, though perhaps not the one in force with
\* those rules.
TrustCredible ==
    ReadAnswers /\ reading.view \in ReadersView =>
        IF reading.used = {} THEN reading.trust \in reading.heard
        ELSE \E u \in reading.used :
               /\ u[2] = reading.trust
               /\ \A v \in reading.used : \/ Specificity(v[1]) < Specificity(u[1])
                                          \/ Specificity(v[1]) = Specificity(u[1]) /\ v[2] >= u[2]

\* No attribute of an answer is older than the version the answer carries: a
\* client that keeps the newest version it saw never keeps a stale attribute.
\* The role and job of a details entry are the exception: they come from an
\* earlier statement than its version.
VersionCovers ==
    ReadAnswers /\ reading.view # "evaluate" =>
        \A a \in (Fields(reading) \cap DOMAIN reading.reply)
                 \ (IF reading.view = "details" THEN {"role", "job"} ELSE {}) :
            reading.reply[a] >= reading.asOf[a]

\* The three together: what is read is permitted, credible and current.
ReadsSound == DisclosedAsCatalogued /\ TrustCredible /\ VersionCovers
=============================================================================
