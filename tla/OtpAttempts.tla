----------------------------- MODULE OtpAttempts -----------------------------
(***************************************************************************)
(* What the login, signup and step-up flows share: the failed-attempt      *)
(* counter with its cooldown, the classification of a batch of required    *)
(* provider deliveries, and the idempotency reservation that is committed  *)
(* before the providers are called and resolved after they answered.       *)
(*                                                                         *)
(* Times are remaining ticks: an expiry or a cooldown that lies in the     *)
(* past is 0, as is a cooldown that was never set.                         *)
(*                                                                         *)
(* Sources: src/features/authentication/{otp,delivery,login}.rs.           *)
(***************************************************************************)
EXTENDS Naturals, FiniteSetsExt

CONSTANTS
    MaxAttempts,  \* otp_max_attempts
    Cooldown,     \* OTP_COOLDOWN_SECONDS, in ticks
    Ttl           \* otp_ttl, in ticks

OtpAssumption ==
    /\ MaxAttempts \in Nat \ {0}
    /\ Cooldown \in Nat \ {0}
    /\ Ttl \in Nat \ {0}

AttemptState == [failed : 0 .. (MaxAttempts - 1), cooldown : 0 .. Cooldown]
NoAttempts == [failed |-> 0, cooldown |-> 0]

\* Mutant of InheritedAttemptState: only a cooldown survives the replacement.
CooldownAttemptState(states) ==
    [failed |-> 0, cooldown |-> Max({a.cooldown : a \in states} \cup {0})]

\* Mutant of InheritedAttemptState: a counter wins over an active cooldown.
CounterAttemptState(states) ==
    [failed |-> Max({a.failed : a \in states} \cup {0}), cooldown |-> 0]

\* inherited_attempt_state: an active cooldown dominates every partial counter;
\* otherwise the greatest counter wins.
InheritedAttemptState(states) ==
    LET cooldown == Max({a.cooldown : a \in states} \cup {0}) IN
    IF cooldown > 0
    THEN [failed |-> 0, cooldown |-> cooldown]
    ELSE [failed |-> Max({a.failed : a \in states} \cup {0}), cooldown |-> 0]

\* The CASE expressions of record_login_failure.
AfterFailure(a) ==
    IF a.failed + 1 >= MaxAttempts
    THEN [failed |-> 0, cooldown |-> Cooldown]
    ELSE [failed |-> a.failed + 1, cooldown |-> 0]

Elapsed(n) == IF n > 0 THEN n - 1 ELSE 0

ProviderResult == {"ok", "rejected", "unavailable"}

\* classify_provider_error: the provider has certainly not sent the message.
Definitive(result) == result = "rejected"

\* Mutant of ClassifyBatch: anything but success is safe to retry.
ClassifyFailed(results) ==
    IF \A ch \in DOMAIN results : results[ch] = "ok"
    THEN "delivered" ELSE "rejected"

\* classify_batch: only a batch rejected as a whole is definitive; a partly
\* delivered or unanswered one has an unknown outcome.
ClassifyBatch(results) ==
    CASE \A ch \in DOMAIN results : results[ch] = "ok" -> "delivered"
      [] \A ch \in DOMAIN results : Definitive(results[ch]) -> "rejected"
      [] OTHER -> "unknown"
=============================================================================
