----------------------------- MODULE CliSession -----------------------------
(***************************************************************************)
(* The sessions the command line keeps in its home directory, used by      *)
(* several iam processes at once.                                          *)
(*                                                                         *)
(* Sources: crates/cli/src/store.rs, context.rs, commands/auth.rs.         *)
(*                                                                         *)
(* A scope is a profile in production or in one testing environment; all   *)
(* scopes share one credentials document.  Every change of the document    *)
(* holds credentials.lock over its read, merge and atomic rename, so it is *)
(* one step here.  The transition lock of a scope is held over network     *)
(* calls.  A process may fail or be killed anywhere, which releases its    *)
(* locks but not its requests: those may still reach the service.          *)
(***************************************************************************)
EXTENDS Naturals, FiniteSets

CONSTANTS
    Scopes,      \* profile and environment pairs
    Processes,   \* iam invocations
    Life,        \* lifetime of an access token
    MaxClock,    \* bound on time
    MaxFamilies, \* bound on sign-ins
    MaxKeys      \* bound on idempotency keys

ASSUME CliAssumption == Life \in Nat \ {0} /\ IsFiniteSet(Scopes) /\ "none" \notin Processes

None == "none"

VARIABLES
    file,      \* credentials.json: the session of each scope
    locked,    \* holder of each scope's transition lock
    proc,      \* the processes
    clock, keys,
    families,    \* the service: refresh families issued
    record,    \* the service: requests it remembers, with their replies
    net,       \* requests on their way
    forgotten  \* history: families removed from or replaced in the file

cliVars == <<file, locked, proc, clock, keys, families, record, net, forgotten>>

Session(f, gen, expires) ==
    [family |-> f, gen |-> gen, expires |-> expires, key |-> 0, started |-> 0, logout |-> 0]
SignedOut == Session(0, 0, 0)
NoReply == [op |-> None, key |-> 0, family |-> 0, gen |-> 0, expires |-> 0]
NoCommand == [at |-> "idle", cmd |-> None, scope |-> None, seen |-> SignedOut,
         tries |-> 0, awaits |-> 0, reply |-> NoReply]

\* Somebody is signed in to every scope.
CliInit ==
    \E number \in [Scopes -> 1..Cardinality(Scopes)] :
        /\ \A s, t \in Scopes : number[s] = number[t] => s = t
        /\ file = [s \in Scopes |-> Session(number[s], 1, Life)]
        /\ families = [f \in 1..Cardinality(Scopes) |-> [live |-> TRUE, gen |-> 1, expires |-> Life, reused |-> FALSE]]
        /\ locked = [s \in Scopes |-> None]
        /\ proc = [p \in Processes |-> NoCommand]
        /\ clock = 0 /\ keys = 0
        /\ record = {} /\ net = {} /\ forgotten = {}

----------------------------------------------------------------------------
(* The store *)

\* remember, forget: the session is put into the latest document.
Merge(s, session) == [file EXCEPT ![s] = session]

\* The sessions the file no longer holds.
Lost(new) == {file[s].family : s \in {t \in Scopes : file[t] # SignedOut}}
             \ {new[s].family : s \in {t \in Scopes : new[t] # SignedOut}}

Store(s, session) ==
    /\ file' = Merge(s, session)
    /\ forgotten' = forgotten \cup Lost(Merge(s, session))

HoldsScope(p, at) == proc[p].at = at /\ locked[proc[p].scope] = p

----------------------------------------------------------------------------
(* Commands *)

NeedsRefresh(session) == session.key # 0 \/ session.expires <= clock

\* authenticated reads the file without a lock and goes on only to renew; the other
\* commands take the transition lock first.
Start(p, cmd, s) ==
    /\ proc[p] = NoCommand
    /\ cmd = "use" => file[s] # SignedOut /\ NeedsRefresh(file[s])
    /\ proc' = [proc EXCEPT ![p] = [NoCommand EXCEPT !.at = IF cmd = "login" THEN "signing" ELSE "waiting",
                                                !.cmd = cmd, !.scope = s, !.seen = IF cmd = "use" THEN file[s] ELSE SignedOut]]
    /\ UNCHANGED <<file, locked, clock, keys, families, record, net, forgotten>>

LockSession(p) ==
    /\ proc[p].at = "waiting" /\ locked[proc[p].scope] = None
    /\ locked' = [locked EXCEPT ![proc[p].scope] = p]
    /\ proc' = [proc EXCEPT ![p].at = "locked"]
    /\ UNCHANGED <<file, clock, keys, families, record, net, forgotten>>

Release(p) == locked' = [s \in Scopes |-> IF locked[s] = p THEN None ELSE locked[s]]

\* login, silicon_login: the service opens a family; the reply may be lost (Exit).
SignIn(p) ==
    LET f == Cardinality(DOMAIN families) + 1 IN
    /\ proc[p].at = "signing" /\ f <= MaxFamilies
    /\ families' = [g \in 1..f |-> IF g = f THEN [live |-> TRUE, gen |-> 1, expires |-> clock + Life, reused |-> FALSE]
                                 ELSE families[g]]
    /\ proc' = [proc EXCEPT ![p].at = "waiting", ![p].reply = [NoReply EXCEPT !.op = "login", !.family = f, !.expires = clock + Life]]
    /\ UNCHANGED <<file, locked, clock, keys, record, net, forgotten>>

RememberLogin(p) ==
    /\ HoldsScope(p, "locked") /\ proc[p].cmd = "login"
    /\ Store(proc[p].scope, Session(proc[p].reply.family, 1, proc[p].reply.expires))
    /\ proc' = [proc EXCEPT ![p] = NoCommand]
    /\ Release(p)
    /\ UNCHANGED <<clock, keys, families, record, net>>

\* logout --local-only, and every logout of a Silicon.
Forget(p) ==
    /\ HoldsScope(p, "locked") /\ proc[p].cmd = "forget"
    /\ Store(proc[p].scope, SignedOut)
    /\ proc' = [proc EXCEPT ![p] = NoCommand]
    /\ Release(p)
    /\ UNCHANGED <<clock, keys, families, record, net>>

\* Mutant of Current: the session read before the lock is used.
CurrentSeen(p) == IF proc[p].cmd = "use" /\ proc[p].tries = 0 THEN proc[p].seen ELSE file[proc[p].scope]

\* The session is read again under the transition lock.
Current(p) == file[proc[p].scope]

\* Mutant of Reserved: the key is not in the file before the request is sent.
ReservedLater(p, session) == Current(p)

\* The key of a rotation is in the file before the request is sent, with its time.
Reserved(p, session) == session

\* renew_locked: at most two rounds; a pending logout blocks it.
Renew(p) ==
    LET s == proc[p].scope
        session == Current(p)
        fresh == session.key = 0
        new == IF fresh THEN [session EXCEPT !.key = keys + 1, !.started = clock] ELSE session IN
    /\ HoldsScope(p, "locked") /\ proc[p].cmd \in {"use", "logout"}
    /\ session # SignedOut /\ NeedsRefresh(session) /\ session.logout = 0 /\ proc[p].tries < 2
    /\ fresh => keys < MaxKeys
    /\ keys' = IF fresh THEN keys + 1 ELSE keys
    /\ Store(s, Reserved(p, new))
    /\ net' = net \cup {[op |-> "refresh", from |-> p, family |-> new.family, gen |-> new.gen, key |-> new.key]}
    /\ proc' = [proc EXCEPT ![p].at = "sent", ![p].awaits = new.key, ![p].tries = @ + 1]
    /\ UNCHANGED <<locked, clock, families, record>>

\* Mutant of ExpiresFrom: the lifetime starts when the reply arrives.
ExpiresFromReply(session) == clock + Life

\* renewed_session: the lifetime starts when the rotation was first asked for.
ExpiresFrom(session) == session.started + Life

FinishRenewal(p) ==
    LET reply == proc[p].reply session == file[proc[p].scope] IN
    /\ HoldsScope(p, "sent") /\ reply # NoReply /\ reply.op = "refresh"
    /\ session # SignedOut
    /\ Store(proc[p].scope, Session(reply.family, reply.gen, ExpiresFrom(session)))
    /\ proc' = [proc EXCEPT ![p].at = "locked", ![p].awaits = 0, ![p].reply = NoReply]
    /\ UNCHANGED <<locked, clock, keys, families, record, net>>

\* logout: the key is reserved once; from then on the bearer must not change.
Logout(p) ==
    LET session == Current(p)
        fresh == session.logout = 0
        new == IF fresh THEN [session EXCEPT !.logout = keys + 1] ELSE session IN
    /\ HoldsScope(p, "locked") /\ proc[p].cmd = "logout"
    /\ session # SignedOut /\ (session.logout # 0 \/ ~NeedsRefresh(session) \/ proc[p].tries = 2)
    /\ fresh => keys < MaxKeys
    /\ keys' = IF fresh THEN keys + 1 ELSE keys
    /\ Store(proc[p].scope, new)
    /\ net' = net \cup {[op |-> "logout", from |-> p, family |-> new.family, gen |-> new.gen, key |-> new.logout]}
    /\ proc' = [proc EXCEPT ![p].at = "sent", ![p].awaits = new.logout]
    /\ UNCHANGED <<locked, clock, families, record>>

FinishCliLogout(p) ==
    /\ HoldsScope(p, "sent") /\ proc[p].reply # NoReply /\ proc[p].reply.op = "logout"
    /\ Store(proc[p].scope, SignedOut)
    /\ proc' = [proc EXCEPT ![p] = NoCommand]
    /\ Release(p)
    /\ UNCHANGED <<clock, keys, families, record, net>>

\* The command ends: its result is printed, an error or a refusal is reported, it times out
\* or it is killed.
Exit(p) ==
    /\ proc[p] # NoCommand
    /\ proc' = [proc EXCEPT ![p] = NoCommand]
    /\ Release(p)
    /\ UNCHANGED <<file, clock, keys, families, record, net, forgotten>>

----------------------------------------------------------------------------
(* The service, as the command line sees it *)

Remembered(r) == {k \in record : k.key = r.key}
Answer(r, reply) ==
    proc' = [proc EXCEPT ![r.from] =
        IF @.at = "sent" /\ @.awaits = r.key /\ @.reply = NoReply THEN [@ EXCEPT !.reply = reply] ELSE @]

\* Rotation: once per generation; the same key gets the same reply; a spent token under
\* another key ends the family.
ServeRefresh(r) ==
    LET f == r.family
        known == Remembered(r)
        new == [op |-> "refresh", key |-> r.key, family |-> f, gen |-> r.gen + 1, expires |-> clock + Life] IN
    /\ r \in net /\ r.op = "refresh"
    /\ net' = net \ {r}
    /\ \/ /\ known # {}
          /\ \E k \in known : Answer(r, k)
          /\ UNCHANGED <<families, record>>
       \/ /\ known = {} /\ families[f].live /\ families[f].gen = r.gen
          /\ families' = [families EXCEPT ![f].gen = r.gen + 1, ![f].expires = clock + Life]
          /\ record' = record \cup {new}
          /\ Answer(r, new)
       \/ /\ known = {} /\ families[f].gen > r.gen
          /\ families' = [families EXCEPT ![f].live = FALSE, ![f].reused = TRUE]
          /\ UNCHANGED <<proc, record>>
       \/ /\ known = {} /\ families[f].gen = r.gen /\ ~families[f].live
          /\ UNCHANGED <<families, proc, record>>
    /\ UNCHANGED <<file, locked, clock, keys, forgotten>>

\* Logout with the bearer of the current generation, or its exact repetition.
ServeLogout(r) ==
    LET f == r.family
        known == Remembered(r)
        new == [op |-> "logout", key |-> r.key, family |-> f, gen |-> r.gen, expires |-> 0] IN
    /\ r \in net /\ r.op = "logout"
    /\ net' = net \ {r}
    /\ IF known # {} THEN Answer(r, new) /\ UNCHANGED <<families, record>>
       ELSE IF families[f].live /\ families[f].gen = r.gen /\ clock < families[f].expires
       THEN /\ families' = [families EXCEPT ![f].live = FALSE]
            /\ record' = record \cup {new}
            /\ Answer(r, new)
       ELSE UNCHANGED <<families, record, proc>>
    /\ UNCHANGED <<file, locked, clock, keys, forgotten>>

CliTick ==
    /\ clock < MaxClock
    /\ clock' = clock + 1
    /\ UNCHANGED <<file, locked, proc, keys, families, record, net, forgotten>>

CliNext ==
    \/ \E p \in Processes :
          \/ \E s \in Scopes, cmd \in {"use", "login", "logout", "forget"} : Start(p, cmd, s)
          \/ LockSession(p) \/ SignIn(p) \/ RememberLogin(p) \/ Forget(p)
          \/ Renew(p) \/ FinishRenewal(p) \/ Logout(p) \/ FinishCliLogout(p) \/ Exit(p)
    \/ \E r \in net : ServeRefresh(r) \/ ServeLogout(r)
    \/ CliTick

CliSpec == CliInit /\ [][CliNext]_cliVars

----------------------------------------------------------------------------
(* Honest processes never spend a refresh token twice under different keys,  *)
(* whatever is lost, delayed, killed or run at the same time: the service    *)
(* never takes the command line for a thief.                                 *)
NeverTakenForThief == \A f \in DOMAIN families : ~families[f].reused

(* A session that was logged out or replaced by a later sign-in never comes  *)
(* back into the credentials file: no refresh in flight and no writer of     *)
(* another scope restores it.                                                *)
StaysForgotten == \A s \in Scopes : file[s] # SignedOut => file[s].family \notin forgotten

(* The file never claims that a renewed access token lives longer than the   *)
(* service lets it live, even when its reply was replayed much later.        *)
ExpiryHonest ==
    \A s \in Scopes : file[s] # SignedOut =>
        \A k \in record : k.op = "refresh" /\ k.family = file[s].family /\ k.gen = file[s].gen
                              => file[s].expires <= k.expires

(* Concurrent invocations of the command line never present a token the       *)
(* service takes for stolen, never bring back a forgotten session, and know   *)
(* how long a token lasts.                                                    *)
CliSound == NeverTakenForThief /\ StaysForgotten /\ ExpiryHonest
=============================================================================
