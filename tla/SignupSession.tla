---------------------------- MODULE SignupSession ----------------------------
(***************************************************************************)
(* Signup: within a session a person proves an email address and a phone   *)
(* number with one-time codes, and completing the session creates the      *)
(* carbon that owns both.  Sessions compete for contacts: whether an       *)
(* address is taken is asked when its code is requested, and again when    *)
(* the session is completed, possibly a day later.                         *)
(*                                                                         *)
(* Sources: src/features/authentication/{signup,contacts,delivery}.rs,     *)
(*          iam_private.complete_verified_signup.                          *)
(*                                                                         *)
(* Every transaction is SERIALIZABLE and is one action; providers, crashes *)
(* and time interleave with them.  A candidate and its challenge are       *)
(* written together and are one entry.  Verification under a used key only *)
(* replays its answer; rate limits and taken handles only refuse.          *)
(***************************************************************************)
EXTENDS OtpAttempts, FiniteSets

CONSTANTS
    Signups,     \* signup sessions
    ContactKeys, \* idempotency keys of start_contact
    SignupOf,    \* the session a request names
    ContactOf,   \* the contact it asks a code for
    Emails,      \* the contacts that are email addresses; the others are phones
    MaxEntries,  \* bound: candidates in all sessions
    SignupTtl    \* SIGNUP_LIFETIME_HOURS, in ticks

ASSUME SignupAssumption ==
    /\ OtpAssumption
    /\ MaxEntries \in Nat
    /\ SignupTtl \in Nat \ {0}
    /\ SignupOf \in [ContactKeys -> Signups]

Entries == 1 .. MaxEntries
Contacts == {ContactOf[k] : k \in ContactKeys}
Kind(contact) == IF contact \in Emails THEN "email" ELSE "phone"

VARIABLES
    signup,        \* iam.signup_sessions: status and remaining life
    entry,         \* signup_contact_candidates and signup_otp_challenges
    askedBy,       \* the key whose request created the entry
    entryTtl,      \* remaining life of the code
    entryAttempts, \* failed_attempts and cooldown_until
    entryTask,     \* what the API process still has to do for the entry
    entryBatch,    \* what the provider did with its message
    contactKey,    \* iam.idempotency_records of the requests
    owned,         \* the contacts of the carbon a session created
    entryWrong     \* history: wrong codes per session and kind since a cooldown

signupVars == <<signup, entry, askedBy, entryTtl, entryAttempts, entryTask,
                entryBatch, contactKey, owned, entryWrong>>

NoEntry == [status |-> "absent", delivery |-> "pending"]
ContactKinds == {"email", "phone"}
Contact(e) == ContactOf[askedBy[e]]
EntriesOf(s, kind) ==
    {e \in Entries : /\ entry[e].status # "absent"
                     /\ SignupOf[askedBy[e]] = s
                     /\ Kind(Contact(e)) = kind}
Continuing(s) == signup[s].status = "pending" /\ signup[s].ttl > 0

SignupInit ==
    /\ signup = [s \in Signups |-> [status |-> "absent", ttl |-> 0]]
    /\ entry = [e \in Entries |-> NoEntry]
    /\ askedBy = [e \in Entries |-> "nobody"]
    /\ entryTtl = [e \in Entries |-> 0]
    /\ entryAttempts = [e \in Entries |-> NoAttempts]
    /\ entryTask = [e \in Entries |-> "idle"]
    /\ entryBatch = [e \in Entries |-> "none"]
    /\ contactKey = [k \in ContactKeys |-> "none"]
    /\ owned = [s \in Signups |-> {}]
    /\ entryWrong = [s \in Signups |-> [kind \in ContactKinds |-> 0]]

\* create_session.
CreateSession(s) ==
    /\ signup[s].status = "absent"
    /\ signup' = [signup EXCEPT ![s] = [status |-> "pending", ttl |-> SignupTtl]]
    /\ UNCHANGED <<entry, askedBy, entryTtl, entryAttempts, entryTask, entryBatch,
                   contactKey, owned, entryWrong>>

----------------------------------------------------------------------------
(* Requesting a code *)

\* contact_associated_with_non_deleted_carbon.
Taken(contact) == \E s \in Signups : contact \in owned[s]

\* start_contact up to the check of the contact.
ContactStartable(k) ==
    LET s == SignupOf[k] IN
    /\ contactKey[k] = "none"
    /\ Continuing(s)
    /\ \A e \in EntriesOf(s, Kind(ContactOf[k])) : entry[e].status # "verified"

\* start_contact for a contact somebody already has: nothing is sent.
StartTakenContact(k) ==
    /\ ContactStartable(k)
    /\ Taken(ContactOf[k])
    /\ contactKey' = [contactKey EXCEPT ![k] = "completed"]
    /\ UNCHANGED <<signup, entry, askedBy, entryTtl, entryAttempts, entryTask,
                   entryBatch, owned, entryWrong>>

\* Mutant of SupersededEntries: only delivered codes are replaced.
SupersededSent(s, kind) ==
    {e \in EntriesOf(s, kind) :
        entry[e] = [status |-> "open", delivery |-> "delivered"]}

\* supersede_signup_contact: the unverified current candidate and its challenge.
SupersededEntries(s, kind) ==
    {e \in EntriesOf(s, kind) : entry[e].status = "open"}

\* Mutant of EntryAttemptRows: superseded codes no longer count.
EntryAttemptRowsOpen(s, kind) ==
    {e \in SupersededEntries(s, kind) : entryTtl[e] > 0}

\* supersede_signup_contact reads every unexpired row of the session and kind.
EntryAttemptRows(s, kind) == {e \in EntriesOf(s, kind) : entryTtl[e] > 0}

Replaced(row) ==
    [status |-> "superseded",
     delivery |-> IF row.delivery = "pending" THEN "failed" ELSE row.delivery]

\* start_contact for a free contact, up to its first commit.
StartContact(e, k) ==
    LET s == SignupOf[k]
        kind == Kind(ContactOf[k]) IN
    /\ ContactStartable(k)
    /\ ~ Taken(ContactOf[k])
    /\ entry[e].status = "absent"
    /\ \A d \in 1 .. (e - 1) : entry[d].status # "absent"
    /\ entry' = [d \in Entries |->
         CASE d = e -> [status |-> "open", delivery |-> "pending"]
           [] d \in SupersededEntries(s, kind) -> Replaced(entry[d])
           [] OTHER -> entry[d]]
    /\ askedBy' = [askedBy EXCEPT ![e] = k]
    /\ entryTtl' = [entryTtl EXCEPT ![e] = Ttl]
    /\ entryAttempts' = [entryAttempts EXCEPT ![e] =
         InheritedAttemptState({entryAttempts[d] : d \in EntryAttemptRows(s, kind)})]
    /\ entryTask' = [entryTask EXCEPT ![e] = "sending"]
    /\ contactKey' = [contactKey EXCEPT ![k] = "processing"]
    /\ UNCHANGED <<signup, entryBatch, owned, entryWrong>>

\* send_required: with an unknown outcome the request ends here.
SendSignup(e) ==
    /\ entryTask[e] = "sending"
    /\ \E result \in ProviderResult :
         /\ entryBatch' = [entryBatch EXCEPT ![e] = result]
         /\ entryTask' = [entryTask EXCEPT ![e] =
              IF result = "ok" \/ Definitive(result) THEN "finalizing" ELSE "idle"]
    /\ UNCHANGED <<signup, entry, askedBy, entryTtl, entryAttempts, contactKey,
                   owned, entryWrong>>

\* The process stops, or the transaction that would finalize fails.
AbandonSignup(e) ==
    /\ entryTask[e] # "idle"
    /\ entryTask' = [entryTask EXCEPT ![e] = "idle"]
    /\ entryBatch' = [entryBatch EXCEPT ![e] =
         IF @ = "none" THEN "unavailable" ELSE @]
    /\ UNCHANGED <<signup, entry, askedBy, entryTtl, entryAttempts, contactKey,
                   owned, entryWrong>>

\* The WHERE clause of the activation in confirm_signup_delivery.
EntryActivatable(e) ==
    /\ entry[e] = [status |-> "open", delivery |-> "pending"]
    /\ entryTtl[e] > 0
    /\ Continuing(SignupOf[askedBy[e]])

\* confirm_signup_delivery: the code may be used, or it was superseded or expired
\* meanwhile and the key is released.
ConfirmSignupDelivery(e) ==
    /\ entryTask[e] = "finalizing" /\ entryBatch[e] = "ok"
    /\ entry' = IF EntryActivatable(e)
         THEN [entry EXCEPT ![e].delivery = "delivered"] ELSE entry
    /\ contactKey' = [contactKey EXCEPT ![askedBy[e]] =
         IF EntryActivatable(e) THEN "completed" ELSE "none"]
    /\ entryTask' = [entryTask EXCEPT ![e] = "idle"]
    /\ UNCHANGED <<signup, askedBy, entryTtl, entryAttempts, entryBatch, owned,
                   entryWrong>>

\* fail_signup_delivery.
FailSignupDelivery(e) ==
    /\ entryTask[e] = "finalizing" /\ Definitive(entryBatch[e])
    /\ entry' = [entry EXCEPT ![e] = Replaced(@)]
    /\ contactKey' = [contactKey EXCEPT ![askedBy[e]] = "none"]
    /\ entryTask' = [entryTask EXCEPT ![e] = "idle"]
    /\ UNCHANGED <<signup, askedBy, entryTtl, entryAttempts, entryBatch, owned,
                   entryWrong>>

----------------------------------------------------------------------------
(* Using the code, and completing the session *)

\* Mutant of EntryVerifiable: the delivery status is not part of "active".
EntryUndelivered(e) ==
    /\ Continuing(SignupOf[askedBy[e]])
    /\ entry[e].status = "open" /\ entryTtl[e] > 0 /\ entryAttempts[e].cooldown = 0

\* SIGNUP_CHALLENGE_LOCK_QUERY and the early returns of verify_contact.
EntryVerifiable(e) ==
    /\ Continuing(SignupOf[askedBy[e]])
    /\ entry[e] = [status |-> "open", delivery |-> "delivered"]
    /\ entryTtl[e] > 0
    /\ entryAttempts[e].cooldown = 0

\* verify_contact with the code of the current challenge.
VerifyContact(e) ==
    /\ entry[e].status # "absent"
    /\ EntryVerifiable(e)
    /\ entry' = [entry EXCEPT ![e].status = "verified"]
    /\ UNCHANGED <<signup, askedBy, entryTtl, entryAttempts, entryTask, entryBatch,
                   contactKey, owned, entryWrong>>

\* verify_contact with any other code.
VerifyContactWrong(e) ==
    LET s == SignupOf[askedBy[e]]
        kind == Kind(Contact(e)) IN
    /\ entry[e].status # "absent"
    /\ EntryVerifiable(e)
    /\ entryAttempts' = [entryAttempts EXCEPT ![e] = AfterFailure(@)]
    /\ entryWrong' = [entryWrong EXCEPT ![s][kind] =
         IF entryAttempts'[e].cooldown > 0 THEN 0 ELSE @ + 1]
    /\ UNCHANGED <<signup, entry, askedBy, entryTtl, entryTask, entryBatch,
                   contactKey, owned>>

\* verified_candidates.
VerifiedEntries(s) ==
    {e \in EntriesOf(s, "email") \cup EntriesOf(s, "phone") :
        entry[e].status = "verified"}

\* Mutant of Claimable: the check at the request of the code is relied on.
ClaimableUnchecked(contacts) == contacts # {}

\* complete_verified_signup: no active contact has an index of the candidates.
Claimable(contacts) == \A contact \in contacts : ~ Taken(contact)

\* complete_signup and complete_verified_signup.
CompleteSignup(s) ==
    LET contacts == {Contact(e) : e \in VerifiedEntries(s)} IN
    /\ Continuing(s)
    /\ Cardinality(VerifiedEntries(s)) = 2
    /\ {Kind(c) : c \in contacts} = ContactKinds
    /\ Claimable(contacts)
    /\ owned' = [owned EXCEPT ![s] = contacts]
    /\ signup' = [signup EXCEPT ![s].status = "completed"]
    /\ UNCHANGED <<entry, askedBy, entryTtl, entryAttempts, entryTask, entryBatch,
                   contactKey, entryWrong>>

\* Time passes; a count is gone when the last code that carries it expires.
SignupTick ==
    /\ signup' = [s \in Signups |-> [signup[s] EXCEPT !.ttl = Elapsed(@)]]
    /\ entryTtl' = [e \in Entries |-> Elapsed(entryTtl[e])]
    /\ entryAttempts' = [e \in Entries |->
         [entryAttempts[e] EXCEPT !.cooldown = Elapsed(@)]]
    /\ entryWrong' = [s \in Signups |-> [kind \in ContactKinds |->
         IF \E e \in EntriesOf(s, kind) : entryTtl'[e] > 0 THEN entryWrong[s][kind] ELSE 0]]
    /\ UNCHANGED <<entry, askedBy, entryTask, entryBatch, contactKey, owned>>

SignupNext ==
    \/ \E s \in Signups : CreateSession(s) \/ CompleteSignup(s)
    \/ \E k \in ContactKeys :
         \/ StartTakenContact(k)
         \/ \E e \in Entries : StartContact(e, k)
    \/ \E e \in Entries :
         \/ SendSignup(e)
         \/ AbandonSignup(e)
         \/ ConfirmSignupDelivery(e)
         \/ FailSignupDelivery(e)
         \/ VerifyContact(e)
         \/ VerifyContactWrong(e)
    \/ SignupTick

SignupSpec == SignupInit /\ [][SignupNext]_signupVars

----------------------------------------------------------------------------
(* Properties *)

\* Rows have their declared shape.
SignupTypeOK ==
    /\ signup \in [Signups ->
         [status : {"absent", "pending", "completed"}, ttl : 0 .. SignupTtl]]
    /\ entry \in [Entries ->
         [status : {"absent", "open", "verified", "superseded"},
          delivery : {"pending", "delivered", "failed"}]]
    /\ askedBy \in [Entries -> ContactKeys \cup {"nobody"}]
    /\ entryTtl \in [Entries -> 0 .. Ttl]
    /\ entryAttempts \in [Entries -> AttemptState]
    /\ entryTask \in [Entries -> {"idle", "sending", "finalizing"}]
    /\ entryBatch \in [Entries -> ProviderResult \cup {"none"}]
    /\ contactKey \in [ContactKeys -> {"none", "processing", "completed"}]
    /\ owned \in [Signups -> SUBSET Contacts]
    /\ entryWrong \in [Signups -> [ContactKinds -> 0 .. MaxAttempts]]

\* A session has one current candidate of each kind, however its requests and
\* their deliveries overlap (signup_contact_candidates_one_current_kind_idx
\* would otherwise fail the request).
OneCandidatePerKind ==
    \A s \in Signups, kind \in ContactKinds :
        Cardinality({e \in EntriesOf(s, kind) :
                       entry[e].status \in {"open", "verified"}}) <= 1

\* Two sessions that both proved a contact never both get it: the carbons that
\* complete_verified_signup creates share no email address and no phone number.
ContactsUnique ==
    \A s, t \in Signups : s # t => owned[s] \cap owned[t] = {}

\* A carbon's contacts are those its session verified, one of each kind, and the
\* provider confirmed the message that carried each code.
CarbonProvesContacts ==
    \A s \in Signups : signup[s].status = "completed" =>
        /\ {Kind(c) : c \in owned[s]} = ContactKinds
        /\ \A c \in owned[s] : \E e \in EntriesOf(s, Kind(c)) :
             Contact(e) = c /\ entry[e].status = "verified" /\ entryBatch[e] = "ok"

\* otp.rs: one failed-verification window is carried across replacement codes,
\* rejected and superseded ones included: there are never MaxAttempts wrong codes
\* for one kind without a cooldown, as long as one of its codes is unexpired.
SignupBudget ==
    \A s \in Signups, kind \in ContactKinds : entryWrong[s][kind] < MaxAttempts

\* A cooldown binds every later code of the session and kind while the code that
\* earned it is unexpired.
SignupCooldownCarried ==
    \A s \in Signups, kind \in ContactKinds : \A d, e \in EntriesOf(s, kind) :
        d < e /\ entryTtl[d] > 0 /\ entry[e].status = "open"
          => entryAttempts[e].cooldown >= entryAttempts[d].cooldown

(* Whatever sessions, requests, deliveries, guesses and expiries overlap: a    *)
(* carbon's contacts are those its session proved, no two carbons share one,   *)
(* and the codes of a session that is corrected share one budget of guesses.   *)
SignupSound ==
    /\ CarbonProvesContacts /\ ContactsUnique
    /\ OneCandidatePerKind /\ SignupBudget /\ SignupCooldownCarried
=============================================================================
