----------------------------- MODULE RateLimit -----------------------------
(***************************************************************************)
(* The shared abuse limits: counting rows in PostgreSQL, each consumed by   *)
(* one atomic upsert stamped with the time its own transaction began.       *)
(*                                                                         *)
(* A handler consumes each of its scopes in a transaction of its own and     *)
(* goes on only if it is let through; scopes do not interact, so the model   *)
(* has one, which every caller shares.  A fixed window has one row per       *)
(* window; a burst limit has one row whose interval starts with the first    *)
(* request.  Transactions may reach a row in another order than they began,  *)
(* and maintenance erases expired rows at any time.                          *)
(***************************************************************************)
EXTENDS Naturals, FiniteSetsExt

CONSTANTS
    Policies,  \* [kind, maximum, window, block] of the limits to check
    Callers,   \* handlers in flight at a time
    Grace,     \* how long a row outlives its use (one hour)
    LastTick   \* bound on time

MaxWindow == 86400   \* a day, in seconds

\* RateLimitPolicy::new: a whole number of seconds, at most a day, and no
\* block that outlives its window.
Valid(p) == p.maximum \in Nat \ {0} /\ p.window \in 1 .. MaxWindow /\ p.block \in 1 .. p.window

Burst(maximum, cooldown) ==
    [kind |-> "burst", maximum |-> maximum, window |-> cooldown, block |-> cooldown]
Fixed(maximum, window) ==
    [kind |-> "fixed", maximum |-> maximum, window |-> window, block |-> window]

\* The limits the handlers ask for, in seconds.
ContactSends == Burst(10, 600)         \* a contact, and a sign-up session
InvitationSends == Burst(10, 60)
LoginCreation == Fixed(5, 600)
StepUpCreation == Fixed(5, 600)
SignupCompletion == Fixed(10, 3600)
CarbonSearch == Fixed(60, 60)          \* an actor, and its query
CarbonResolution == Fixed(60, 60)      \* an actor, and a contact
SiliconLogin == Fixed(10, 600)         \* an identity, and a credential
OrganizationWrites == Fixed(30, 60)
ApplicationRequests == Fixed(120, 60)
ClientRequests == Fixed(120, 60)
BearerRequests == {Fixed(240, 60), Fixed(120, 60)}   \* a credential, then its subject
BrowserRequests == Fixed(60, 60)
SsoCallbacks == Fixed(5, 600)

InUse == {ContactSends, InvitationSends, LoginCreation, StepUpCreation, SignupCompletion,
          CarbonSearch, CarbonResolution, SiliconLogin, OrganizationWrites,
          ApplicationRequests, ClientRequests, BrowserRequests, SsoCallbacks} \cup BearerRequests

\* The grace is longer than a transaction can wait (the statement timeout).
\* The policies checked are scaled down, each a burst or a fixed window whose
\* block is the window, as all those in use are.
ASSUME RateAssumption ==
    /\ Grace \in Nat \ {0} /\ LastTick \in Nat
    /\ \A p \in Policies \cup InUse :
         Valid(p) /\ p.kind \in {"burst", "fixed"} /\ p.block = p.window

VARIABLES
    policy,    \* the limit in force
    buckets,   \* window start -> row, for the rows that exist
    flight,    \* caller -> start of its transaction, 0 for none
    passed,    \* time -> requests let through with that stamp
    blocks,    \* ends of the cooldowns that were started
    refusals,  \* stamps of the requests refused
    time

rateVars == <<policy, buckets, flight, passed, blocks, refusals, time>>

----------------------------------------------------------------------------
NoUntil == 0

RateInit ==
    /\ policy \in Policies
    /\ buckets = << >>
    /\ flight = [c \in Callers |-> 0]
    /\ passed = [t \in 1 .. LastTick |-> 0]
    /\ blocks = {}
    /\ refusals = {}
    /\ time = 1

----------------------------------------------------------------------------
(* The two statements.  A row's "until" is its blocked_until, "since" its    *)
(* updated_at, "expires" its expires_at.                                     *)

Later(a, b) == IF a >= b THEN a ELSE b

\* Fixed windows are aligned to the epoch; each has a row of its own.
WindowOf(at) == IF policy.kind = "fixed" THEN at - (at % policy.window) ELSE 0

FixedFirst(at) ==
    [count |-> 1, until |-> NoUntil, since |-> at,
     expires |-> WindowOf(at) + policy.window + Grace]

\* The count only matters up to the first refusal; it is capped there.
Capped(count) == IF count > policy.maximum THEN policy.maximum + 1 ELSE count

FixedAgain(row, at) ==
    [row EXCEPT
        !.count = Capped(@ + 1),
        !.until = IF row.until > at THEN @
                  ELSE IF row.count + 1 > policy.maximum
                    THEN Later(WindowOf(at) + policy.window, at + policy.block)
                    ELSE NoUntil,
        !.since = at]

\* The request that reaches the limit starts the cooldown.
Reached(count, at) == IF count >= policy.maximum THEN at + policy.block ELSE NoUntil

\* Mutant: a row may go once its cooldown is over, without the hour of grace.
BurstExpiresEarly(at) == at + policy.block

BurstExpires(at) == at + policy.window + policy.block + Grace

BurstFirst(at) ==
    [count |-> 1, until |-> Reached(1, at), since |-> at, expires |-> BurstExpires(at)]

\* Mutant: the interval restarts on time, cooldown or not.
CoolingInterval(row, at) == row.until > at /\ row.since + policy.window > at

Cooling(row, at) == row.until > at
ElapsedSince(row, at) == row.until # NoUntil \/ row.since + policy.window <= at

BurstAgain(row, at) ==
    IF Cooling(row, at)
    THEN [row EXCEPT !.count = policy.maximum + 1, !.since = at, !.expires = BurstExpires(at)]
    ELSE IF ElapsedSince(row, at) THEN BurstFirst(at)
    ELSE [row EXCEPT !.count = @ + 1, !.until = Reached(row.count + 1, at),
                     !.expires = BurstExpires(at)]

RowAfter(at) ==
    LET held == WindowOf(at) \in DOMAIN buckets
        row == buckets[WindowOf(at)]
    IN CASE policy.kind = "fixed" /\ ~held -> FixedFirst(at)
         [] policy.kind = "fixed" /\ held -> FixedAgain(row, at)
         [] policy.kind = "burst" /\ ~held -> BurstFirst(at)
         [] policy.kind = "burst" /\ held -> BurstAgain(row, at)

\* Mutant: the limit is compared with the count before this request.
AllowedByNext(row, at) ==
    row.count <= policy.maximum + 1 /\ (policy.kind = "fixed" => row.until <= at)

\* RETURNING: within the limit and, in a fixed window, not blocked.
AllowedBy(row, at) ==
    row.count <= policy.maximum /\ (policy.kind = "fixed" => row.until <= at)

----------------------------------------------------------------------------
(* The handlers and the maintenance pass                                     *)

\* enforce, enforce_burst_cooldown: begin_scoped, then the statement.
BeginRequest(c) ==
    /\ flight[c] = 0
    /\ flight' = [flight EXCEPT ![c] = time]
    /\ UNCHANGED <<policy, buckets, passed, blocks, refusals, time>>

Consume(c) ==
    LET at == flight[c]
        row == RowAfter(at)
    IN /\ at # 0
       /\ buckets' = [w \in DOMAIN buckets \cup {WindowOf(at)} |->
                         IF w = WindowOf(at) THEN row ELSE buckets[w]]
       /\ blocks' = IF policy.kind = "burst" /\ row.until > at THEN blocks \cup {row.until} ELSE blocks
       /\ IF AllowedBy(row, at)
            THEN passed' = [passed EXCEPT ![at] = @ + 1] /\ UNCHANGED refusals
            ELSE refusals' = refusals \cup {at} /\ UNCHANGED passed
       /\ flight' = [flight EXCEPT ![c] = 0]
       /\ UNCHANGED <<policy, time>>

\* run_worker_ephemeral_maintenance: rows whose expiry has passed, with SKIP LOCKED.
ErasableBucket(row) == row.expires <= time

EraseBucket ==
    \E w \in DOMAIN buckets :
      /\ ErasableBucket(buckets[w])
      /\ buckets' = [v \in DOMAIN buckets \ {w} |-> buckets[v]]
      /\ UNCHANGED <<policy, flight, passed, blocks, refusals, time>>

\* A transaction waits for a row for less than the grace period.
RateTick ==
    /\ time < LastTick
    /\ \A c \in Callers : flight[c] # 0 => time < flight[c] + Grace
    /\ time' = time + 1
    /\ UNCHANGED <<policy, buckets, flight, passed, blocks, refusals>>

RateNext ==
    \/ \E c \in Callers : BeginRequest(c) \/ Consume(c)
    \/ EraseBucket
    \/ RateTick

RateSpec == RateInit /\ [][RateNext]_rateVars

----------------------------------------------------------------------------
(* Properties                                                                *)

Between(from, to) ==
    MapThenSumSet(LAMBDA t : passed[t], {t \in 1 .. LastTick : from <= t /\ t < to})

\* rate_limit.rs, enforce_burst_cooldown: "every later request is rejected
\* until that complete cooldown elapses".  Whatever row maintenance erased and
\* however long a request waited for the row, none is let through before the
\* cooldown it met has ended.
CooldownHoldsStep ==
    passed' # passed => \A until \in blocks : until <= time
CooldownHolds == [][CooldownHoldsStep]_rateVars

\* No stretch of time shorter than the window lets through more than two
\* budgets (one less for a burst, whose last request starts the cooldown,
\* and for a stretch shorter by the wait for the row), in whatever order the
\* callers reach its rows.
SpanBounded ==
    \A from \in 1 .. LastTick :
        IF policy.kind = "fixed"
        THEN Between(from, from + policy.window) <= 2 * policy.maximum
        ELSE Between(from, from + policy.window - Grace) <= 2 * policy.maximum - 1

\* A refusal has its cause: a whole budget was spent within the
\* window and the cooldown before it (give or take the wait for the row).
RefusedForCause ==
    \A at \in refusals :
        LET reach == policy.window + policy.block + Grace
        IN Between(IF at > reach THEN at - reach ELSE 1, LastTick + 1) >= policy.maximum

\* What the limits promise, under every interleaving of handlers, delayed
\* transactions and maintenance.
LimitSound == CooldownHolds /\ [](SpanBounded /\ RefusedForCause)

=============================================================================
