--------------------------- MODULE LoginChallenge ---------------------------
(***************************************************************************)
(* Login with a one-time code: a challenge is inserted together with the   *)
(* reservation of its idempotency key, the code is sent to one or both     *)
(* contacts of the carbon outside of any transaction, and the challenge    *)
(* becomes verifiable only when a second transaction has recorded that     *)
(* every provider confirmed.  A new request supersedes the pending one and *)
(* inherits its failed attempts.                                           *)
(*                                                                         *)
(* Sources: src/features/authentication/{login,contacts,delivery}.rs,      *)
(*          src/infrastructure/postgres/idempotency.rs.                    *)
(*                                                                         *)
(* Every transaction here is SERIALIZABLE, so each is one action; what     *)
(* interleaves are the transactions, the providers, crashes and time.  All *)
(* channel rows of a challenge are written together and hold the same      *)
(* attempts and expiry: they are one record.  Rate limits only refuse.     *)
(***************************************************************************)
EXTENDS OtpAttempts, FiniteSets

CONSTANTS
    LoginKeys,      \* idempotency keys of creation requests
    MailKeys,       \* keys whose request names the email address or the handle
    PhoneKeys,      \* keys whose request names the phone number or the handle
    Email, Phone,   \* the verified contacts of the carbon
    MaxChallenges,  \* bound: challenges of one carbon
    VerifyKeys      \* idempotency keys of verification requests

ASSUME LoginAssumption ==
    /\ OtpAssumption
    /\ MaxChallenges \in Nat
    /\ LoginKeys = MailKeys \cup PhoneKeys
    /\ "nobody" \notin LoginKeys
    /\ Email # Phone

Challenges == 1 .. MaxChallenges

\* The contacts that the identifier sent with a key resolves to: an address or a
\* number to itself, the handle to every verified contact.
ContactsOf(k) ==
    {ch \in {Email, Phone} :
        k \in (IF ch = Email THEN MailKeys ELSE PhoneKeys)}

VARIABLES
    challenge,    \* iam.login_challenges: status and delivery_status
    channel,      \* iam.login_challenge_channels of each challenge
    ttl,          \* remaining life of the challenge and its channels
    attempts,     \* failed_attempts and cooldown_until of the channels
    requestedBy,  \* the key whose request created the challenge
    delivering,   \* what the API process still has to do for the challenge
    batch,        \* what the provider of each channel did with its message
    reservation,  \* creation records of iam.idempotency_records
    answered,     \* verification records of iam.idempotency_records
    wrong         \* history: wrong codes evaluated since the last cooldown

created == <<requestedBy, delivering, batch>>
loginVars == <<challenge, channel, ttl, attempts, requestedBy, delivering, batch,
               reservation, answered, wrong>>

Absent == [status |-> "absent", delivery |-> "pending"]
NoMessages == <<>>
Status(c) == challenge[c].status
Pending == {c \in Challenges : Status(c) = "pending"}

LoginInit ==
    /\ challenge = [c \in Challenges |-> Absent]
    /\ channel = [c \in Challenges |-> "absent"]
    /\ ttl = [c \in Challenges |-> 0]
    /\ attempts = [c \in Challenges |-> NoAttempts]
    /\ requestedBy = [c \in Challenges |-> "nobody"]
    /\ delivering = [c \in Challenges |-> "idle"]
    /\ batch = [c \in Challenges |-> NoMessages]
    /\ reservation = [k \in LoginKeys |-> "none"]
    /\ answered = [c \in Challenges |-> [k \in VerifyKeys |-> "none"]]
    /\ wrong = 0

----------------------------------------------------------------------------
(* Creation and delivery *)

\* Mutant of Superseded: challenges still being delivered are left alone.
SupersededDelivered ==
    {c \in Pending : challenge[c].delivery = "delivered"}

\* supersede_login_attempt_scope: the challenges that a new one replaces.
Superseded == Pending

\* The channel rows whose attempts are inherited.
AttemptRows == {c \in Superseded : channel[c] = "open" /\ ttl[c] > 0}

CancelledRow(row) ==
    [status |-> "cancelled",
     delivery |-> IF row.delivery = "pending" THEN "failed" ELSE row.delivery]

\* create_challenge up to its commit: the key is reserved, the pending challenges
\* are superseded, and the new one starts with what they leave behind.
CreateChallenge(c, k) ==
    /\ reservation[k] = "none"
    /\ Status(c) = "absent"
    /\ \A d \in 1 .. (c - 1) : Status(d) # "absent"
    /\ challenge' = [d \in Challenges |->
         CASE d = c -> [status |-> "pending", delivery |-> "pending"]
           [] d \in Superseded -> CancelledRow(challenge[d])
           [] OTHER -> challenge[d]]
    /\ channel' = [d \in Challenges |->
         CASE d = c -> "open"
           [] d \in Superseded /\ channel[d] = "open" -> "superseded"
           [] OTHER -> channel[d]]
    /\ ttl' = [ttl EXCEPT ![c] = Ttl]
    /\ attempts' = [attempts EXCEPT ![c] =
         InheritedAttemptState({attempts[d] : d \in AttemptRows})]
    /\ requestedBy' = [requestedBy EXCEPT ![c] = k]
    /\ delivering' = [delivering EXCEPT ![c] = "sending"]
    /\ reservation' = [reservation EXCEPT ![k] = "processing"]
    /\ UNCHANGED <<batch, answered, wrong>>

\* send_all_required: with an unknown outcome the request ends here, and the
\* reservation stays.
SendAllRequired(c) ==
    /\ delivering[c] = "sending"
    /\ \E results \in [ContactsOf(requestedBy[c]) -> ProviderResult] :
         /\ batch' = [batch EXCEPT ![c] = results]
         /\ delivering' = [delivering EXCEPT ![c] =
              IF ClassifyBatch(results) = "unknown" THEN "idle" ELSE "finalizing"]
    /\ UNCHANGED <<challenge, channel, ttl, attempts, requestedBy, reservation,
                   answered, wrong>>

\* The process stops, or the transaction that would finalize fails.
Abandon(c) ==
    /\ delivering[c] # "idle"
    /\ delivering' = [delivering EXCEPT ![c] = "idle"]
    /\ batch' = [batch EXCEPT ![c] =
         IF delivering[c] = "sending"
         THEN [ch \in ContactsOf(requestedBy[c]) |-> "unavailable"] ELSE @]
    /\ UNCHANGED <<challenge, channel, ttl, attempts, requestedBy, reservation,
                   answered, wrong>>

\* persist_login_phone_receipts finds the phone channel it writes to.
ReceiptsPersist(c) ==
    Phone \in ContactsOf(requestedBy[c]) => channel[c] = "open"

\* The WHERE clause of the activation in confirm_login_delivery.
Activatable(c) ==
    /\ challenge[c] = [status |-> "pending", delivery |-> "pending"]
    /\ channel[c] = "open"
    /\ ttl[c] > 0

\* confirm_login_delivery: the challenge becomes verifiable and the key replays
\* it; a challenge superseded or expired meanwhile releases the key, unless the
\* phone receipt has already failed the transaction.
ConfirmLoginDelivery(c) ==
    /\ delivering[c] = "finalizing" /\ ClassifyBatch(batch[c]) = "delivered"
    /\ ReceiptsPersist(c)
    /\ challenge' = IF Activatable(c)
         THEN [challenge EXCEPT ![c].delivery = "delivered"]
         ELSE challenge
    /\ reservation' = [reservation EXCEPT ![requestedBy[c]] =
         IF Activatable(c) THEN "completed" ELSE "none"]
    /\ delivering' = [delivering EXCEPT ![c] = "idle"]
    /\ UNCHANGED <<channel, ttl, attempts, requestedBy, batch, answered, wrong>>

\* fail_login_delivery: every provider rejected; the key may be used again.
FailLoginDelivery(c) ==
    LET cancels == challenge[c] = [status |-> "pending", delivery |-> "pending"] IN
    /\ delivering[c] = "finalizing" /\ ClassifyBatch(batch[c]) = "rejected"
    /\ challenge' = IF cancels
         THEN [challenge EXCEPT ![c] = CancelledRow(@)] ELSE challenge
    /\ channel' = [channel EXCEPT ![c] = IF @ = "open" THEN "superseded" ELSE @]
    /\ reservation' = [reservation EXCEPT ![requestedBy[c]] = "none"]
    /\ delivering' = [delivering EXCEPT ![c] = "idle"]
    /\ wrong' = IF cancels THEN 0 ELSE wrong
    /\ UNCHANGED <<ttl, attempts, requestedBy, batch, answered>>

----------------------------------------------------------------------------
(* Verification *)

\* Mutant of Verifiable: the delivery status is not part of "active".
VerifiableUndelivered(c) ==
    /\ Status(c) = "pending" /\ ttl[c] > 0
    /\ channel[c] = "open" /\ attempts[c].cooldown = 0

\* LOGIN_CHALLENGE_LOCK_QUERY and lock_channels: a challenge that may be tried.
Verifiable(c) ==
    /\ challenge[c] = [status |-> "pending", delivery |-> "delivered"]
    /\ ttl[c] > 0
    /\ channel[c] = "open"
    /\ attempts[c].cooldown = 0

\* verify_challenge with a code that matches a channel of the challenge.
VerifyRight(c, k) ==
    /\ answered[c][k] = "none"
    /\ Verifiable(c)
    /\ channel' = [channel EXCEPT ![c] = "consumed"]
    /\ challenge' = [challenge EXCEPT ![c].status = "completed"]
    /\ answered' = [answered EXCEPT ![c][k] = "success"]
    /\ wrong' = 0
    /\ UNCHANGED <<ttl, attempts, created, reservation>>

\* verify_challenge with any other code, and record_login_failure.
VerifyWrong(c, k) ==
    /\ answered[c][k] = "none"
    /\ Verifiable(c)
    /\ attempts' = [attempts EXCEPT ![c] = AfterFailure(@)]
    /\ answered' = [answered EXCEPT ![c][k] = "invalid"]
    /\ wrong' = IF attempts'[c].cooldown > 0 THEN 0 ELSE wrong + 1
    /\ UNCHANGED <<challenge, channel, ttl, created, reservation>>

\* Time passes; with the last life of the pending code goes its counter.
LoginTick ==
    /\ ttl' = [c \in Challenges |-> Elapsed(ttl[c])]
    /\ attempts' = [c \in Challenges |->
         [attempts[c] EXCEPT !.cooldown = Elapsed(@)]]
    /\ wrong' = IF \E c \in Pending : ttl[c] = 1 THEN 0 ELSE wrong
    /\ UNCHANGED <<challenge, channel, created, reservation, answered>>

LoginNext ==
    \/ \E c \in Challenges, k \in LoginKeys : CreateChallenge(c, k)
    \/ \E c \in Challenges :
         \/ SendAllRequired(c)
         \/ Abandon(c)
         \/ ConfirmLoginDelivery(c)
         \/ FailLoginDelivery(c)
    \/ \E c \in Challenges, k \in VerifyKeys : VerifyRight(c, k) \/ VerifyWrong(c, k)
    \/ LoginTick

LoginSpec == LoginInit /\ [][LoginNext]_loginVars

----------------------------------------------------------------------------
(* Properties *)

\* Rows, requests and records have their declared shape; a counter that reached
\* the maximum has been turned into a cooldown.
LoginTypeOK ==
    /\ challenge \in [Challenges ->
         [status : {"absent", "pending", "completed", "cancelled"},
          delivery : {"pending", "delivered", "failed"}]]
    /\ channel \in [Challenges -> {"absent", "open", "consumed", "superseded"}]
    /\ ttl \in [Challenges -> 0 .. Ttl]
    /\ attempts \in [Challenges -> AttemptState]
    /\ requestedBy \in [Challenges -> LoginKeys \cup {"nobody"}]
    /\ delivering \in [Challenges -> {"idle", "sending", "finalizing"}]
    /\ batch = [c \in Challenges |-> batch[c]]
    /\ \A c \in Challenges :
         batch[c] = NoMessages \/ batch[c] \in [ContactsOf(requestedBy[c]) -> ProviderResult]
    /\ reservation \in [LoginKeys -> {"none", "processing", "completed"}]
    /\ answered \in
         [Challenges -> [VerifyKeys -> {"none", "success", "invalid"}]]
    /\ wrong \in 0 .. MaxAttempts

\* The providers of the batch of a challenge that gave an answer.
Answers(c, answer) == {ch \in DOMAIN batch[c] : batch[c][ch] = answer}
\* Every required provider gave this answer to its message.
Unanimous(messages, answer) ==
    /\ messages # NoMessages
    /\ \A ch \in DOMAIN messages : messages[ch] = answer

Sent(c) == batch[c] # NoMessages
Delivered(c) == Unanimous(batch[c], "ok")
Rejected(c) == Unanimous(batch[c], "rejected")

\* A carbon has one pending challenge, however its requests, deliveries and
\* crashes interleave: only the newest code can log it in.
OnePendingChallenge == Cardinality(Pending) <= 1

\* A login, however late, was only ever completed on a challenge whose messages
\* every required provider had confirmed.
LoginProvesDelivery ==
    \A c \in Challenges : Status(c) = "completed" => Delivered(c)

\* otp.rs: replacement codes carry "one failed-verification window": there are
\* never MaxAttempts wrong codes without a cooldown in between, unless the code
\* that carried the count expired or the providers rejected it.
AttemptBudget == wrong < MaxAttempts

\* A cooldown binds every replacement of the code that earned it, as long as that
\* code has not expired and no replacement was rejected in between.
CooldownCarried ==
    \A d \in Challenges : \A c \in Pending :
        d < c /\ ttl[d] > 0 /\ channel[d] = "superseded"
          /\ (\A e \in d .. c : ~ Rejected(e))
          => attempts[c].cooldown >= attempts[d].cooldown

\* delivery.rs: "every ambiguous or partially successful batch remains reserved
\* to prevent duplicate messages": no later batch is sent under its key.
AmbiguousStaysReserved ==
    \A c \in Challenges :
        Sent(c) /\ ~ Delivered(c) /\ ~ Rejected(c) =>
          /\ reservation[requestedBy[c]] = "processing"
          /\ \A d \in Challenges :
               d > c => requestedBy[d] # requestedBy[c]

\* idempotency.rs: a reservation is released "after an external provider
\* definitively rejected the request before producing a side effect", so one key
\* never has two batches that reached somebody.
NoDuplicateSend ==
    \A c, d \in Challenges :
        /\ c < d /\ requestedBy[c] = requestedBy[d]
        /\ Delivered(c)
        => Answers(d, "ok") = {}

\* A login rests on a code that was delivered for the challenge it completes, one
\* challenge waits at most, no code that is sent again gives more wrong guesses or
\* an earlier one, and a key whose messages may have gone out stays taken.
LoginSound ==
    /\ OnePendingChallenge /\ LoginProvesDelivery
    /\ AttemptBudget /\ CooldownCarried
    /\ AmbiguousStaysReserved
=============================================================================
