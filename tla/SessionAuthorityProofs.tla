----------------------- MODULE SessionAuthorityProofs -----------------------
(***************************************************************************)
(* Proofs about the sessions of carbons: SessionAuthority for every set of *)
(* sessions, applications, idempotency keys and serializable transactions, *)
(* and every number of codes, tokens per family, suspensions and erasures; *)
(* LoginChallenge, which opens a session, StepUpChallenge, which proves    *)
(* its holder again, SignupSession, which creates the carbon, and          *)
(* CliSession, the sessions a command line keeps, for every number of      *)
(* challenges, requests, processes, wrong guesses and ticks; and RateLimit,*)
(* which limits how often each of these is asked for, for every policy and *)
(* number of handlers.                                                     *)
(*                                                                         *)
(* The inductive invariant of SessionAuthority has four parts. TypeInv     *)
(* gives rows, records and transactions their shape. LedgerInv relates the *)
(* rows to each other: which family exists, which token is the last one,   *)
(* what a consumed token's records say. FlightInv is what a transaction    *)
(* may still believe when it writes: every token that its snapshot misses  *)
(* was issued from a token that it sees, whose row was updated since and   *)
(* so conflicts with its sweep. DeadInv is what the properties say of the  *)
(* tokens themselves.                                                      *)
(*                                                                         *)
(* LoginInv, of LoginChallenge, says in which order rows are inserted and  *)
(* replaced, what their two statuses say of what the providers did, which  *)
(* requests still hold their keys, and where wrong guesses and cooldowns   *)
(* are kept when one code replaces another.                                *)
(*                                                                         *)
(* StepUpInv, of StepUpChallenge, says what a row's status proves of its   *)
(* message, its assertion and the acts that the assertion admitted, that a *)
(* session has one verifiable row per target, and where wrong guesses are  *)
(* kept. What a logout freezes is a property of steps, proved of each      *)
(* action from StepUpInv.                                                  *)
(*                                                                         *)
(* SignupInv, of SignupSession, says in which order the codes of all       *)
(* sessions are inserted and expire, that every code but the last of its   *)
(* session and kind is superseded, and that the last one carries every     *)
(* cooldown and the wrong guesses that still count.                        *)
(*                                                                         *)
(* CliInv, of CliSession, reads the file, the network and the service's    *)
(* memory as one set of claims: which generation of which family is        *)
(* presented under which key. A key stands for one claim, no claim is      *)
(* ahead of the file, and a claim behind the service was answered.         *)
(*                                                                         *)
(* LimitInv, of RateLimit, says that the row of a burst stands for every   *)
(* cooldown that has not ended and outlives it, and that no request waits  *)
(* longer than the grace: so a row that is erased had nothing to refuse.   *)
(***************************************************************************)
EXTENDS SessionAuthority, LoginChallenge, SignupSession, StepUpChallenge, CliSession, RateLimit,
        Integers, FiniteSetTheorems, SequenceTheorems, WellFoundedInduction, TLAPS

----------------------------------------------------------------------------
(* Names of rows *)

\* First-party families are not application families.
LEMMA FamilyKinds ==
    /\ IamFamilies \cap Codes = {}
    /\ \A f \in Families : SessionOf(f) \in Sessions
    /\ \A f \in Codes : ClientOf(f) \in Applications /\ ConsentOf(f) \in Consents
    /\ \A f \in Codes : ConsentOf(f)[1] = SessionOf(f) /\ ConsentOf(f)[2] = ClientOf(f)
    /\ \A s \in Sessions : <<s, Iam, 1>> \in Families
  BY AuthorityAssumption
     DEF Families, IamFamilies, Codes, SessionOf, ClientOf, ConsentOf, Consents

\* A token is its family and its number.
LEMMA TokenParts ==
    /\ \A x \in Tokens : x[1] \in Families /\ x[2] \in 1 .. MaxTokens /\ x = <<x[1], x[2]>>
    /\ \A f \in Families, n \in 1 .. MaxTokens : <<f, n>> \in Tokens
  BY DEF Tokens

\* Two rows of one table are the same only for the same key, and the tables that
\* matter here do not overlap.
LEMMA RowNames ==
    /\ \A x, y : RefreshRow(x) = RefreshRow(y) => x = y
    /\ \A x, y : AccessRow(x) = AccessRow(y) => x = y
    /\ \A f, h : FamilyRow(f) = FamilyRow(h) => f = h
    /\ \A x, y : RefreshRow(x) # AccessRow(y)
    /\ \A x, f : RefreshRow(x) # FamilyRow(f) /\ AccessRow(x) # FamilyRow(f)
    /\ \A x, s : RefreshRow(x) # SessionRow(s) /\ AccessRow(x) # SessionRow(s)
    /\ \A f, s : FamilyRow(f) # SessionRow(s)
    /\ \A x, c : RefreshRow(x) # CodeRow(c) /\ AccessRow(x) # CodeRow(c)
    /\ \A f, c : FamilyRow(f) # CodeRow(c)
    /\ \A x, g : RefreshRow(x) # ConsentRow(g) /\ AccessRow(x) # ConsentRow(g)
    /\ \A f, g : FamilyRow(f) # ConsentRow(g)
    /\ \A x, y, k : RefreshRow(x) # RecordRow(y, k) /\ AccessRow(x) # RecordRow(y, k)
    /\ \A f, y, k : FamilyRow(f) # RecordRow(y, k)
  BY DEF RefreshRow, AccessRow, FamilyRow, SessionRow, CodeRow, ConsentRow, RecordRow

----------------------------------------------------------------------------
(* Shape *)

\* A transaction in flight is its operation and the rows written since.
OpenShape ==
    /\ open = [t \in Transactions |-> open[t]]
    /\ \A t \in Transactions :
         open[t] \in [op : {open[t].op}, inserted : {open[t].inserted},
                      updated : {open[t].updated}]

TypeInv == TypeOK /\ OpenShape

\* What a commit does to the others in flight.
LEMMA CommitFacts ==
    ASSUME TypeInv, NEW ended, NEW ins, NEW upd, Commit(ended, ins, upd)
    PROVE  /\ OpenShape'
           /\ DOMAIN open' = Transactions
           /\ \A t \in Transactions :
                \/ open'[t].op = Idle
                \/ /\ open'[t].op = open[t].op /\ open[t].op # Idle
                   /\ open'[t].inserted = open[t].inserted \cup ins
                   /\ open'[t].updated = open[t].updated \cup upd
<1>1. open' = [t \in Transactions |->
         IF t \in ended \/ open[t].op = Idle THEN Started(Idle)
         ELSE [open[t] EXCEPT !.inserted = @ \cup ins, !.updated = @ \cup upd]]
  BY DEF Commit
<1>2. ASSUME NEW t \in Transactions
      PROVE  \/ open'[t] \in [op : {Idle}, inserted : {{}}, updated : {{}}]
             \/ /\ open[t].op # Idle
                /\ open'[t] \in [op : {open[t].op}, inserted : {open[t].inserted \cup ins},
                                 updated : {open[t].updated \cup upd}]
  <2>1. open[t] \in [op : {open[t].op}, inserted : {open[t].inserted},
                     updated : {open[t].updated}]
    BY DEF TypeInv, OpenShape
  <2>2. [open[t] EXCEPT !.inserted = @ \cup ins, !.updated = @ \cup upd]
          \in [op : {open[t].op}, inserted : {open[t].inserted \cup ins},
              updated : {open[t].updated \cup upd}]
    BY <2>1
  <2>3. Started(Idle) \in [op : {Idle}, inserted : {{}}, updated : {{}}]
    BY DEF Started
  <2> QED BY <1>1, <2>2, <2>3
<1>3. DOMAIN open' = Transactions /\ open' = [t \in Transactions |-> open'[t]]
  BY <1>1
<1> QED BY <1>2, <1>3 DEF OpenShape

\* The start of a transaction and its rollback.
LEMMA StartFacts ==
    ASSUME TypeInv, NEW t \in Transactions, NEW op,
           open' = [open EXCEPT ![t] = Started(op)]
    PROVE  /\ OpenShape'
           /\ DOMAIN open' = Transactions
           /\ open'[t].op = op /\ open'[t].inserted = {} /\ open'[t].updated = {}
           /\ \A r \in Transactions : r # t => open'[r] = open[r]
<1>1. /\ open'[t] \in [op : {op}, inserted : {{}}, updated : {{}}]
      /\ \A r \in Transactions : r # t => open'[r] = open[r]
      /\ DOMAIN open' = Transactions /\ open' = [r \in Transactions |-> open'[r]]
  BY DEF TypeInv, OpenShape, Started
<1> QED BY <1>1 DEF TypeInv, OpenShape

\* The operations of a commit and of a start are typed when the others are.
Ops == {Idle} \cup RotateOp \cup LogoutOp
OpsTyped == DOMAIN open = Transactions /\ \A t \in Transactions : open[t].op \in Ops

LEMMA CommitOps ==
    ASSUME TypeInv, NEW ended, NEW ins, NEW upd, Commit(ended, ins, upd)
    PROVE  OpsTyped' /\ OpenShape'
  BY CommitFacts DEF TypeInv, TypeOK, OpsTyped, Ops

\* The next pair of a family with room for one.
LEMMA NextTokenType ==
    ASSUME TypeInv, NEW f \in Families, issued[f] < MaxTokens
    PROVE  /\ NextToken(f) \in Tokens /\ NextToken(f) \notin IssuedTokens
           /\ issued[f] + 1 \in 0 .. MaxTokens
           /\ NextToken(f)[1] = f /\ NextToken(f)[2] = issued[f] + 1
<1>1. issued[f] \in 0 .. MaxTokens /\ MaxTokens \in Nat
  BY AuthorityAssumption DEF TypeInv, TypeOK
<1>2. issued[f] + 1 \in 1 .. MaxTokens
  BY <1>1
<1> QED BY <1>1, <1>2, TokenParts DEF NextToken, IssuedTokens

\* Each step keeps rows and records in shape.
LEMMA TypeStep == TypeInv /\ [Next]_vars => TypeInv'
<1> SUFFICES ASSUME TypeInv, [Next]_vars PROVE TypeInv'
  OBVIOUS
<1>0. TypeOK /\ OpenShape
  BY DEF TypeInv
<1>a. \A f : TokensOf(f) \subseteq Tokens
  BY DEF TokensOf, IssuedTokens
<1>1. ASSUME NEW s \in Sessions, Login(s) PROVE TypeInv'
  <2>1. OpsTyped' /\ OpenShape'
    BY <1>1, CommitOps DEF Login
  <2>2. 1 \in 0 .. MaxTokens
    BY AuthorityAssumption
  <2> QED BY <1>0, <1>1, <2>1, <2>2 DEF Login, lifecycle, TypeInv, TypeOK, OpsTyped, Ops
<1>2. ASSUME NEW t \in Transactions, SerializableStep(t) PROVE TypeInv'
  <2>1. ASSUME NEW op \in Ops, open' = [open EXCEPT ![t] = Started(op)],
               UNCHANGED <<session, credentials, consent, code, lifecycle, outcome>>
        PROVE  TypeInv'
    <3>0. /\ OpenShape' /\ DOMAIN open' = Transactions /\ open'[t].op = op
          /\ \A r \in Transactions : r # t => open'[r] = open[r]
      BY <2>1, StartFacts
    <3>1. OpsTyped' /\ OpenShape'
      BY <1>0, <2>1, <3>0 DEF OpsTyped, Ops, TypeOK
    <3> QED
      BY <1>0, <2>1, <3>1 DEF TypeInv, TypeOK, credentials, lifecycle, OpsTyped, Ops
  <2>2. ASSUME NEW x \in Tokens, NEW k \in Keys, x[1] \in IamFamilies,
               BeginRotate(t, x, k)
        PROVE  TypeInv'
    <3>1. [kind |-> "rotate", token |-> x, key |-> k] \in Ops
      BY <2>2, TokenParts DEF Ops, RotateOp
    <3> QED BY <2>1, <2>2, <3>1 DEF BeginRotate, Begin
  <2>3. CASE BeginLogout(t)
    <3>1. PICK targets \in SUBSET {s \in Sessions : session[s] = "active"} :
            Begin(t, [kind |-> "logout", targets |-> targets,
              codes |-> {c \in Codes : c[1] \in targets /\ code[c] = "approved"},
              consents |-> {g \in Consents : g[1] \in targets /\ consent[g] = "active"}])
      BY <2>3 DEF BeginLogout
    <3>2. [kind |-> "logout", targets |-> targets,
              codes |-> {c \in Codes : c[1] \in targets /\ code[c] = "approved"},
              consents |-> {g \in Consents : g[1] \in targets /\ consent[g] = "active"}]
            \in Ops
      BY DEF Ops, LogoutOp
    <3> QED BY <2>1, <3>1, <3>2 DEF Begin
  <2>4. CASE Rollback(t)
    BY <2>1, <2>4 DEF Rollback, Ops
  <2>5. ASSUME open[t].op.kind = "rotate"
        PROVE  /\ open[t].op.token \in Tokens /\ open[t].op.token[1] \in IamFamilies
               /\ open[t].op.key \in Keys
    <3>1. open[t].op \in RotateOp
      BY <1>0, <2>5 DEF TypeOK, Idle, LogoutOp
    <3> QED BY <3>1, TokenParts DEF RotateOp, Tokens, Families
  <2>6. CASE FinishRotate(t)
    <3>1. OpsTyped' /\ OpenShape'
      BY <2>6, CommitOps DEF FinishRotate
    <3>2. issued[open[t].op.token[1]] + 1 \in 0 .. MaxTokens
      BY <2>5, <2>6, NextTokenType, TokenParts DEF FinishRotate, IssueNext
    <3> QED
      BY <1>0, <2>5, <2>6, <3>1, <3>2
         DEF FinishRotate, IssueNext, Record, lifecycle, TypeInv, TypeOK, OpsTyped, Ops
  <2>7. CASE FinishReuse(t)
    <3>1. OpsTyped' /\ OpenShape'
      BY <2>7, CommitOps DEF FinishReuse
    <3>2. revokedRefresh' \in SUBSET Tokens /\ revokedAccess' \in SUBSET Tokens
      BY <1>0, <1>a, <2>7 DEF FinishReuse, TypeOK
    <3>3. UNCHANGED <<issued, consumed, accessEpoch, consent, code, standing, epoch>>
      BY <2>7 DEF FinishReuse, lifecycle
    <3>4. /\ session' \in [Sessions -> {"absent", "active", "revoked"}]
          /\ family' \in [Families -> {"absent", "active", "revoked", "compromised"}]
          /\ outcome' \in [Tokens -> [Keys -> {"none", "rotated", "reuse", "erased"}]]
      BY <1>0, <2>5, <2>7 DEF FinishReuse, Record, TypeOK
    <3> QED BY <1>0, <3>1, <3>2, <3>3, <3>4 DEF TypeInv, TypeOK, OpsTyped, Ops
  <2>8. CASE FinishLogout(t)
    <3>1. OpsTyped' /\ OpenShape'
      BY <2>8, CommitOps DEF FinishLogout
    <3>2. revokedRefresh' \in SUBSET Tokens /\ revokedAccess' \in SUBSET Tokens
      BY <1>0, <1>a, <2>8 DEF FinishLogout, TypeOK
    <3>3. UNCHANGED <<issued, consumed, accessEpoch, standing, epoch, outcome>>
      BY <2>8 DEF FinishLogout, lifecycle
    <3>4. /\ session' \in [Sessions -> {"absent", "active", "revoked"}]
          /\ family' \in [Families -> {"absent", "active", "revoked", "compromised"}]
          /\ code' \in [Codes -> {"absent", "approved", "consumed"}]
          /\ consent' \in [Consents -> {"absent", "active", "revoked"}]
      BY <1>0, <2>8 DEF FinishLogout, Revoked, TypeOK
    <3> QED BY <1>0, <3>1, <3>2, <3>3, <3>4 DEF TypeInv, TypeOK, OpsTyped, Ops
  <2> QED
    BY <1>2, <2>2, <2>3, <2>4, <2>6, <2>7, <2>8 DEF SerializableStep
<1>3. ASSUME NEW c \in Codes, MintCode(c) PROVE TypeInv'
  <2>1. OpsTyped' /\ OpenShape'
    BY <1>3, CommitOps DEF MintCode
  <2> QED
    BY <1>0, <1>3, <2>1, FamilyKinds
       DEF MintCode, credentials, lifecycle, TypeInv, TypeOK, OpsTyped, Ops
<1>4. ASSUME NEW c \in Codes, ExchangeCode(c) PROVE TypeInv'
  <2>1. OpsTyped' /\ OpenShape'
    BY <1>4, CommitOps DEF ExchangeCode
  <2>2. 1 \in 0 .. MaxTokens /\ epoch[ClientOf(c)] \in 0 .. MaxSuspensions
    BY <1>0, AuthorityAssumption, FamilyKinds DEF TypeOK
  <2> QED
    BY <1>0, <1>4, <2>1, <2>2 DEF ExchangeCode, lifecycle, TypeInv, TypeOK, OpsTyped, Ops
<1>5. ASSUME NEW x \in Tokens, NEW k \in Keys, ExchangeRefresh(x, k) PROVE TypeInv'
  <2>1. OpsTyped' /\ OpenShape'
    BY <1>5, CommitOps DEF ExchangeRefresh
  <2>2. /\ issued[x[1]] + 1 \in 0 .. MaxTokens
        /\ epoch[ClientOf(x[1])] \in 0 .. MaxSuspensions
    BY <1>0, <1>5, FamilyKinds, NextTokenType, TokenParts
       DEF ExchangeRefresh, IssueNext, TypeOK
  <2> QED
    BY <1>0, <1>5, <2>1, <2>2
       DEF ExchangeRefresh, IssueNext, Record, lifecycle, TypeInv, TypeOK, OpsTyped, Ops
<1>6. ASSUME NEW x \in Tokens, NEW k \in Keys, RefreshReuse(x, k) PROVE TypeInv'
  <2>1. OpsTyped' /\ OpenShape'
    BY <1>6, CommitOps DEF RefreshReuse
  <2> QED
    BY <1>0, <1>a, <1>6, <2>1
       DEF RefreshReuse, RevokeFamilies, FamilyAccess, Record, lifecycle, TypeInv, TypeOK,
           OpsTyped, Ops
<1>7. ASSUME NEW x \in Tokens, RevokeAccessToken(x) PROVE TypeInv'
  <2>1. OpsTyped' /\ OpenShape'
    BY <1>7, CommitOps DEF RevokeAccessToken
  <2> QED
    BY <1>0, <1>7, <2>1 DEF RevokeAccessToken, lifecycle, TypeInv, TypeOK, OpsTyped, Ops
<1>8. ASSUME NEW c \in Codes, RevokeRefreshFamily(c) PROVE TypeInv'
  <2>1. OpsTyped' /\ OpenShape'
    BY <1>8, CommitOps DEF RevokeRefreshFamily
  <2> QED
    BY <1>0, <1>a, <1>8, <2>1
       DEF RevokeRefreshFamily, RevokeFamilies, FamilyAccess, lifecycle, TypeInv, TypeOK,
           OpsTyped, Ops
<1>9. ASSUME NEW a \in Applications, SuspendApplication(a) PROVE TypeInv'
  <2>1. OpsTyped' /\ OpenShape'
    BY <1>9, CommitOps DEF SuspendApplication
  <2>2. epoch[a] + 1 \in 0 .. MaxSuspensions
    BY <1>0, <1>9, AuthorityAssumption DEF SuspendApplication, TypeOK
  <2> QED
    BY <1>0, <1>a, <1>9, <2>1, <2>2
       DEF SuspendApplication, Revoked, TypeInv, TypeOK, OpsTyped, Ops
<1>10. ASSUME NEW a \in Applications, ReactivateApplication(a) PROVE TypeInv'
  <2>1. OpsTyped' /\ OpenShape'
    BY <1>10, CommitOps DEF ReactivateApplication
  <2> QED
    BY <1>0, <1>10, <2>1
       DEF ReactivateApplication, credentials, TypeInv, TypeOK, OpsTyped, Ops
<1>11. ASSUME NEW x \in Tokens, NEW k \in Keys, EraseRecord(x, k) PROVE TypeInv'
  <2>1. OpsTyped' /\ OpenShape'
    BY <1>11, CommitOps DEF EraseRecord
  <2>2. outcome' \in [Tokens -> [Keys -> {"none", "rotated", "reuse", "erased"}]]
    BY <1>0, <1>11 DEF EraseRecord, Record, TypeOK
  <2> QED
    BY <1>0, <1>11, <2>1, <2>2
       DEF EraseRecord, credentials, lifecycle, TypeInv, TypeOK, OpsTyped, Ops
<1>12. CASE UNCHANGED vars
  BY <1>0, <1>12 DEF vars, TypeInv, TypeOK, OpenShape
<1> QED
  BY <1>1, <1>2, <1>3, <1>4, <1>5, <1>6, <1>7, <1>8, <1>9, <1>10, <1>11, <1>12
     DEF Next, ApplicationStep

----------------------------------------------------------------------------
(* The rows together *)

\* A family exists when its first token does.
FamilyKnown == \A f \in Families : family[f] = "absent" <=> issued[f] = 0

\* Only a consumed code has opened its family.
CodesUnused == \A c \in Codes : code[c] # "consumed" => family[c] = "absent"

SessionsKnown ==
    \A f \in Families : family[f] # "absent" => session[SessionOf(f)] # "absent"

\* Every token but the last one of its family is spent.
LastLive ==
    \A x \in IssuedTokens : x \in consumed \cup revokedRefresh \/ x[2] = issued[x[1]]

\* A family that the reuse of a token would compromise: an active one, or any other of
\* a login that is not compromised yet.
Intact(f) == family[f] = "active" \/ (f \in IamFamilies /\ family[f] # "compromised")

\* The records of a consumption: that of the rotation, or what its erasure left.
Spent == {"rotated", "erased"}

\* Who consumed a token left a record of it, which is there or erased: the record of a
\* reuse takes its place only when the family is compromised.
ConsumedRecorded ==
    \A x \in consumed :
        x \in IssuedTokens /\ (Intact(x[1]) => \E k \in Keys : outcome[x][k] \in Spent)

LedgerInv ==
    FamilyKnown /\ CodesUnused /\ SessionsKnown /\ LastLive /\ ConsumedRecorded

\* Steps that issue nothing and revoke what they like.
LEMMA LedgerRevoke ==
    ASSUME TypeInv, TypeInv', LedgerInv, UNCHANGED <<issued, consumed>>,
           revokedRefresh \subseteq revokedRefresh',
           \A f \in Families : family'[f] = "absent" <=> family[f] = "absent",
           \A c \in Codes : code'[c] \in {"consumed", code[c]} \/ code[c] = "absent",
           \A s \in Sessions : session[s] # "absent" => session'[s] # "absent",
           \A f \in Families : Intact(f)' => Intact(f),
           \A x \in consumed, k \in Keys :
             Intact(x[1])' /\ outcome[x][k] \in Spent => outcome'[x][k] \in Spent
    PROVE  LedgerInv'
<1>0. IssuedTokens' = IssuedTokens /\ \A fs : TokensOf(fs)' = TokensOf(fs)
  BY DEF IssuedTokens, TokensOf
<1>1. FamilyKnown'
  BY DEF LedgerInv, FamilyKnown
<1>2. CodesUnused'
  BY DEF LedgerInv, CodesUnused, Families
<1>3. SessionsKnown'
  BY FamilyKinds DEF LedgerInv, SessionsKnown
<1>4. LastLive'
  BY <1>0 DEF LedgerInv, LastLive
<1>5. ConsumedRecorded'
  <2> SUFFICES ASSUME NEW x \in consumed
               PROVE  /\ x \in IssuedTokens'
                      /\ Intact(x[1])' => \E k \in Keys : outcome'[x][k] \in Spent
    BY DEF ConsumedRecorded, Intact
  <2>1. x \in IssuedTokens /\ (Intact(x[1]) => \E k \in Keys : outcome[x][k] \in Spent)
    BY DEF LedgerInv, ConsumedRecorded
  <2>2. x[1] \in Families
    BY <2>1, TokenParts DEF IssuedTokens
  <2> QED BY <1>0, <2>1, <2>2
<1> QED BY <1>1, <1>2, <1>3, <1>4, <1>5 DEF LedgerInv

\* What a rotation issues and consumes.
LEMMA IssueFacts ==
    ASSUME TypeInv, NEW x \in IssuedTokens, IssueNext(x)
    PROVE  /\ x \in Tokens /\ x[1] \in Families
           /\ issued'[x[1]] = issued[x[1]] + 1
           /\ \A f \in Families : f # x[1] => issued'[f] = issued[f]
           /\ consumed' = consumed \cup {x}
           /\ IssuedTokens' = IssuedTokens \cup {NextToken(x[1])}
           /\ NextToken(x[1]) \notin IssuedTokens
           /\ NextToken(x[1]) \in Tokens
           /\ NextToken(x[1])[1] = x[1] /\ NextToken(x[1])[2] = issued[x[1]] + 1
<1>1. x \in Tokens /\ x[1] \in Families
  BY TokenParts DEF IssuedTokens
<1>2. /\ issued'[x[1]] = issued[x[1]] + 1
      /\ \A f \in Families : f # x[1] => issued'[f] = issued[f]
      /\ consumed' = consumed \cup {x}
      /\ issued[x[1]] < MaxTokens
  BY <1>1 DEF IssueNext, TypeInv, TypeOK
<1>3. /\ NextToken(x[1]) \in Tokens /\ NextToken(x[1]) \notin IssuedTokens
      /\ NextToken(x[1])[1] = x[1] /\ NextToken(x[1])[2] = issued[x[1]] + 1
  BY <1>1, <1>2, NextTokenType
<1>4. ASSUME NEW y \in Tokens
      PROVE  y \in IssuedTokens' <=> y \in IssuedTokens \/ y = NextToken(x[1])
  <2>1. y[1] \in Families /\ y[2] \in 1 .. MaxTokens /\ y = <<y[1], y[2]>>
    BY TokenParts
  <2>2. issued[y[1]] \in Nat /\ MaxTokens \in Nat
    BY <2>1, AuthorityAssumption DEF TypeInv, TypeOK
  <2>3. CASE y[1] = x[1]
    BY <1>2, <2>1, <2>2, <2>3 DEF IssuedTokens, NextToken
  <2>4. CASE y[1] # x[1]
    BY <1>2, <1>3, <2>1, <2>4 DEF IssuedTokens
  <2> QED BY <2>3, <2>4
<1>5. IssuedTokens' = IssuedTokens \cup {NextToken(x[1])}
  BY <1>3, <1>4 DEF IssuedTokens
<1> QED BY <1>1, <1>2, <1>3, <1>5

\* A rotation: the parent is spent, its child is the last one, and the record says so.
LEMMA LedgerIssue ==
    ASSUME TypeInv, TypeInv', LedgerInv, NEW x \in IssuedTokens, NEW k \in Keys,
           IssueNext(x), x \notin consumed, x \notin revokedRefresh,
           ~Recorded(x, k), Record(x, k, "rotated"),
           UNCHANGED <<session, family, revokedRefresh, code>>, family[x[1]] = "active"
    PROVE  LedgerInv'
<1>0. /\ x \in Tokens /\ x[1] \in Families
      /\ issued'[x[1]] = issued[x[1]] + 1
      /\ \A f \in Families : f # x[1] => issued'[f] = issued[f]
      /\ consumed' = consumed \cup {x}
      /\ IssuedTokens' = IssuedTokens \cup {NextToken(x[1])}
      /\ NextToken(x[1]) \notin IssuedTokens
      /\ NextToken(x[1])[1] = x[1] /\ NextToken(x[1])[2] = issued[x[1]] + 1
  BY IssueFacts
<1>1. /\ \A y \in Tokens : y # x => outcome'[y] = outcome[y]
      /\ outcome'[x][k] = "rotated"
  BY <1>0 DEF Record, TypeInv, TypeOK
<1>2. FamilyKnown'
  <2>1. issued[x[1]] \in Nat
    BY <1>0 DEF TypeInv, TypeOK
  <2> QED BY <1>0, <2>1 DEF LedgerInv, FamilyKnown
<1>3. CodesUnused' /\ SessionsKnown'
  BY DEF LedgerInv, CodesUnused, SessionsKnown
<1>4. LastLive'
  <2> SUFFICES ASSUME NEW y \in IssuedTokens'
               PROVE  y \in consumed' \cup revokedRefresh \/ y[2] = issued'[y[1]]
    BY DEF LastLive
  <2>1. CASE y = NextToken(x[1])
    BY <1>0, <2>1
  <2>2. CASE y \in IssuedTokens /\ y[1] # x[1]
    <3>1. y \in Tokens /\ y[1] \in Families
      BY <2>2, TokenParts DEF IssuedTokens
    <3> QED BY <1>0, <2>2, <3>1 DEF LedgerInv, LastLive
  <2>3. CASE y \in IssuedTokens /\ y[1] = x[1]
    <3>1. y = <<y[1], y[2]>> /\ x = <<x[1], x[2]>>
      BY <1>0, <2>3, TokenParts DEF IssuedTokens
    <3>2. x[2] = issued[x[1]]
      BY DEF LedgerInv, LastLive
    <3>3. y \in consumed \cup revokedRefresh \/ y = x
      BY <2>3, <3>1, <3>2 DEF LedgerInv, LastLive
    <3> QED BY <1>0, <3>3
  <2> QED BY <1>0, <2>1, <2>2, <2>3
<1>5. ConsumedRecorded'
  <2> SUFFICES ASSUME NEW y \in consumed'
               PROVE  /\ y \in IssuedTokens'
                      /\ Intact(y[1]) => \E j \in Keys : outcome'[y][j] \in Spent
    BY DEF ConsumedRecorded, Intact
  <2>1. CASE y = x BY <1>0, <1>1, <2>1 DEF Spent
  <2>2. CASE y \in consumed
    <3>1. /\ y \in IssuedTokens /\ y \in Tokens /\ y # x
          /\ Intact(y[1]) => \E j \in Keys : outcome[y][j] \in Spent
      BY <2>2 DEF LedgerInv, ConsumedRecorded, IssuedTokens
    <3>2. outcome'[y] = outcome[y]
      BY <1>1, <3>1
    <3> QED BY <1>0, <3>1, <3>2
  <2> QED BY <1>0, <2>1, <2>2
<1> QED BY <1>2, <1>3, <1>4, <1>5 DEF LedgerInv

\* The first pair of a new family.
LEMMA OpenFacts ==
    ASSUME TypeInv, LedgerInv, NEW f \in Families, family[f] = "absent",
           issued' = [issued EXCEPT ![f] = 1]
    PROVE  /\ <<f, 1>> \in Tokens /\ <<f, 1>> \notin IssuedTokens
           /\ IssuedTokens' = IssuedTokens \cup {<<f, 1>>}
           /\ issued'[f] = 1 /\ \A h \in Families : h # f => issued'[h] = issued[h]
           /\ issued[f] = 0
<1>1. 1 \in 1 .. MaxTokens /\ MaxTokens \in Nat
  BY AuthorityAssumption
<1>2. issued[f] = 0
  BY DEF LedgerInv, FamilyKnown
<1>3. issued'[f] = 1 /\ \A h \in Families : h # f => issued'[h] = issued[h]
  BY DEF TypeInv, TypeOK
<1>4. <<f, 1>> \in Tokens /\ <<f, 1>> \notin IssuedTokens
  BY <1>1, <1>2, TokenParts DEF IssuedTokens
<1>5. ASSUME NEW y \in Tokens
      PROVE  y \in IssuedTokens' <=> y \in IssuedTokens \/ y = <<f, 1>>
  <2>1. y[1] \in Families /\ y[2] \in 1 .. MaxTokens /\ y = <<y[1], y[2]>>
    BY TokenParts
  <2>2. y[2] \in Nat /\ y[2] >= 1
    BY <1>1, <2>1
  <2>3. CASE y[1] = f
    BY <1>2, <1>3, <2>1, <2>2, <2>3 DEF IssuedTokens
  <2>4. CASE y[1] # f
    BY <1>3, <2>1, <2>4 DEF IssuedTokens
  <2> QED BY <2>3, <2>4
<1> QED BY <1>2, <1>3, <1>4, <1>5 DEF IssuedTokens

\* A login or the exchange of a code: a new family with one live token.
LEMMA LedgerOpen ==
    ASSUME TypeInv, TypeInv', LedgerInv, NEW f \in Families, family[f] = "absent",
           family' = [family EXCEPT ![f] = "active"],
           issued' = [issued EXCEPT ![f] = 1],
           UNCHANGED <<consumed, revokedRefresh, outcome>>,
           \A s \in Sessions : session[s] # "absent" => session'[s] # "absent",
           session'[SessionOf(f)] # "absent",
           \A c \in Codes : code'[c] = "consumed" \/ (code'[c] = code[c] /\ c # f)
    PROVE  LedgerInv'
<1>0. /\ IssuedTokens' = IssuedTokens \cup {<<f, 1>>}
      /\ issued'[f] = 1 /\ \A h \in Families : h # f => issued'[h] = issued[h]
      /\ issued[f] = 0
  BY OpenFacts
<1>1. /\ family'[f] = "active" /\ \A h \in Families : h # f => family'[h] = family[h]
      /\ \A h \in Families : family'[h] = "absent" => family[h] = "absent" /\ h # f
  BY DEF TypeInv, TypeOK
<1>2. FamilyKnown'
  BY <1>0, <1>1 DEF LedgerInv, FamilyKnown
<1>3. CodesUnused'
  BY <1>1 DEF LedgerInv, CodesUnused, Families
<1>4. SessionsKnown'
  BY <1>1, FamilyKinds DEF LedgerInv, SessionsKnown
<1>5. LastLive'
  <2> SUFFICES ASSUME NEW y \in IssuedTokens'
               PROVE  y \in consumed \cup revokedRefresh \/ y[2] = issued'[y[1]]
    BY DEF LastLive
  <2>1. CASE y = <<f, 1>> BY <1>0, <2>1
  <2>2. CASE y \in IssuedTokens
    <3>1. y[1] \in Families /\ y[2] \in 1 .. MaxTokens
      BY <2>2, TokenParts DEF IssuedTokens
    <3>2. y[1] # f
      BY <1>0, <2>2, <3>1 DEF IssuedTokens
    <3> QED BY <1>0, <2>2, <3>1, <3>2 DEF LedgerInv, LastLive
  <2> QED BY <1>0, <2>1, <2>2
<1>6. ConsumedRecorded'
  <2> SUFFICES ASSUME NEW y \in consumed
               PROVE  /\ y \in IssuedTokens'
                      /\ Intact(y[1])' => \E j \in Keys : outcome[y][j] \in Spent
    BY DEF ConsumedRecorded, Intact
  <2>1. y \in IssuedTokens /\ (Intact(y[1]) => \E j \in Keys : outcome[y][j] \in Spent)
    BY DEF LedgerInv, ConsumedRecorded
  <2>2. y[1] \in Families /\ y[2] \in 1 .. MaxTokens
    BY <2>1, TokenParts DEF IssuedTokens
  <2>3. y[1] # f
    BY <1>0, <2>1, <2>2 DEF IssuedTokens
  <2>4. Intact(y[1])' => Intact(y[1])
    BY <1>1, <2>2, <2>3 DEF Intact
  <2> QED BY <1>0, <2>1, <2>4
<1> QED BY <1>2, <1>3, <1>4, <1>5, <1>6 DEF LedgerInv

----------------------------------------------------------------------------
(* What a transaction in flight may believe *)

\* The token to rotate was there when the transaction began, and a logout ends the
\* sessions whose consents it ends.
OpenSound(t) ==
    LET op == open[t].op IN
    /\ op.kind = "rotate" =>
         op.token \in IssuedTokens /\ FamilyRow(op.token[1]) \notin open[t].inserted
    /\ op.kind = "logout" => \A g \in op.consents : g[1] \in op.targets

\* A token the snapshot misses, in a family it sees, descends from one it sees,
\* whose row was written since.
SnapshotSound(t) ==
    \A x \in IssuedTokens :
        (RefreshRow(x) \in open[t].inserted \/ AccessRow(x) \in open[t].inserted)
          /\ FamilyRow(x[1]) \notin open[t].inserted
          => \E y \in IssuedTokens :
               /\ y[1] = x[1]
               /\ RefreshRow(y) \notin open[t].inserted /\ RefreshRow(y) \in open[t].updated

FlightInv ==
    \A t \in Transactions : open[t].op # Idle => OpenSound(t) /\ SnapshotSound(t)

\* A commit that names every token it issues, inserts its family with it or writes
\* its parent, and inserts no family that has tokens.
LEMMA FlightCommit ==
    ASSUME TypeInv, FlightInv, NEW ended, NEW ins, NEW upd, Commit(ended, ins, upd),
           IssuedTokens \subseteq IssuedTokens',
           \A x \in IssuedTokens :
             RefreshRow(x) \notin ins /\ AccessRow(x) \notin ins /\ FamilyRow(x[1]) \notin ins,
           \A x \in IssuedTokens' \ IssuedTokens :
             \/ FamilyRow(x[1]) \in ins
             \/ \E y \in TokensOf({x[1]}) : RefreshRow(y) \in upd
    PROVE  FlightInv'
<1> SUFFICES ASSUME NEW t \in Transactions, open'[t].op # Idle
             PROVE  OpenSound(t)' /\ SnapshotSound(t)'
  BY DEF FlightInv
<1>1. /\ open'[t].op = open[t].op /\ open[t].op # Idle
      /\ open'[t].inserted = open[t].inserted \cup ins
      /\ open'[t].updated = open[t].updated \cup upd
  BY CommitFacts
<1>2. OpenSound(t) /\ SnapshotSound(t)
  BY <1>1 DEF FlightInv
<1>3. OpenSound(t)'
  BY <1>1, <1>2 DEF OpenSound
<1>4. ASSUME NEW x \in IssuedTokens,
             RefreshRow(x) \in open[t].inserted \/ AccessRow(x) \in open[t].inserted,
             FamilyRow(x[1]) \notin open[t].inserted
      PROVE  \E y \in IssuedTokens' :
               /\ y[1] = x[1]
               /\ RefreshRow(y) \notin open'[t].inserted /\ RefreshRow(y) \in open'[t].updated
  <2>1. PICK y \in IssuedTokens :
          /\ y[1] = x[1]
          /\ RefreshRow(y) \notin open[t].inserted /\ RefreshRow(y) \in open[t].updated
    BY <1>2, <1>4 DEF SnapshotSound
  <2>2. y \in IssuedTokens'
    OBVIOUS
  <2> QED BY <1>1, <2>1, <2>2
<1>5. ASSUME NEW x \in IssuedTokens',
             RefreshRow(x) \in open'[t].inserted \/ AccessRow(x) \in open'[t].inserted,
             FamilyRow(x[1]) \notin open'[t].inserted
      PROVE  \E y \in IssuedTokens' :
               /\ y[1] = x[1]
               /\ RefreshRow(y) \notin open'[t].inserted /\ RefreshRow(y) \in open'[t].updated
  <2>1. CASE x \in IssuedTokens
    BY <1>1, <1>4, <1>5, <2>1
  <2>2. CASE x \notin IssuedTokens
    <3>1. PICK y \in TokensOf({x[1]}) : RefreshRow(y) \in upd
      BY <1>1, <1>5, <2>2
    <3>2. y \in IssuedTokens /\ y[1] = x[1] /\ y \in IssuedTokens'
      BY DEF TokensOf
    <3>3. CASE RefreshRow(y) \in open[t].inserted
      BY <1>1, <1>4, <1>5, <3>2, <3>3
    <3>4. CASE RefreshRow(y) \notin open[t].inserted
      BY <1>1, <3>1, <3>2, <3>4
    <3> QED BY <3>3, <3>4
  <2> QED BY <2>1, <2>2
<1>6. SnapshotSound(t)'
  BY <1>5 DEF SnapshotSound, RefreshRow, AccessRow, FamilyRow
<1> QED BY <1>3, <1>6

\* A commit that issues nothing.
LEMMA FlightQuiet ==
    ASSUME TypeInv, FlightInv, NEW ended, NEW ins, NEW upd, Commit(ended, ins, upd),
           UNCHANGED issued,
           \A x, f : RefreshRow(x) \notin ins /\ AccessRow(x) \notin ins /\ FamilyRow(f) \notin ins
    PROVE  FlightInv'
<1>1. IssuedTokens' = IssuedTokens
  BY DEF IssuedTokens
<1> QED BY <1>1, FlightCommit

\* A start: the new snapshot misses nothing.
LEMMA FlightStart ==
    ASSUME TypeInv, FlightInv, NEW t \in Transactions, NEW op,
           open' = [open EXCEPT ![t] = Started(op)], UNCHANGED issued,
           op.kind = "rotate" => op.token \in IssuedTokens,
           op.kind = "logout" => \A g \in op.consents : g[1] \in op.targets
    PROVE  FlightInv'
<1>0. /\ open'[t].op = op /\ open'[t].inserted = {} /\ open'[t].updated = {}
      /\ \A r \in Transactions : r # t => open'[r] = open[r]
  BY StartFacts
<1>1. IssuedTokens' = IssuedTokens /\ \A fs : TokensOf(fs)' = TokensOf(fs)
  BY DEF IssuedTokens, TokensOf
<1> SUFFICES ASSUME NEW r \in Transactions, open'[r].op # Idle
             PROVE  OpenSound(r)' /\ SnapshotSound(r)'
  BY DEF FlightInv
<1>2. CASE r = t
  <2>1. open'[r].op = op /\ open'[r].inserted = {}
    BY <1>0, <1>2
  <2>2. OpenSound(r)'
    BY <1>1, <2>1 DEF OpenSound
  <2>3. SnapshotSound(r)'
    BY <2>1 DEF SnapshotSound
  <2> QED BY <2>2, <2>3
<1>3. CASE r # t
  <2>1. open'[r] = open[r] /\ OpenSound(r) /\ SnapshotSound(r)
    BY <1>0, <1>3 DEF FlightInv
  <2>2. OpenSound(r)'
    BY <1>1, <2>1 DEF OpenSound, FamilyRow
  <2>3. SnapshotSound(r)'
    BY <1>1, <2>1 DEF SnapshotSound, RefreshRow, AccessRow, FamilyRow
  <2> QED BY <2>2, <2>3
<1> QED BY <1>2, <1>3

\* What a transaction that rotates holds.
LEMMA RotateFacts ==
    ASSUME TypeInv, FlightInv, NEW t \in Transactions, open[t].op.kind = "rotate"
    PROVE  /\ open[t].op.token \in IssuedTokens /\ open[t].op.token \in Tokens
           /\ open[t].op.token[1] \in IamFamilies /\ open[t].op.token[1] \in Families
           /\ open[t].op.key \in Keys
           /\ FamilyRow(open[t].op.token[1]) \notin open[t].inserted
           /\ SnapshotSound(t)
<1>1. open[t].op \in RotateOp
  BY DEF TypeInv, TypeOK, Idle, LogoutOp
<1>2. open[t].op # Idle
  BY DEF Idle
<1>3. OpenSound(t) /\ SnapshotSound(t)
  BY <1>2 DEF FlightInv
<1> QED BY <1>1, <1>3, TokenParts DEF RotateOp, OpenSound, Families, IssuedTokens

\* What a transaction that logs out holds.
LEMMA LogoutFacts ==
    ASSUME TypeInv, FlightInv, NEW t \in Transactions, open[t].op.kind = "logout"
    PROVE  /\ open[t].op.targets \subseteq Sessions /\ open[t].op.codes \subseteq Codes
           /\ \A g \in open[t].op.consents : g[1] \in open[t].op.targets
           /\ SnapshotSound(t)
<1>1. open[t].op \in LogoutOp
  BY DEF TypeInv, TypeOK, Idle, RotateOp
<1>2. open[t].op # Idle
  BY DEF Idle
<1>3. OpenSound(t) /\ SnapshotSound(t)
  BY <1>2 DEF FlightInv
<1> QED BY <1>1, <1>3 DEF LogoutOp, OpenSound

\* Each step keeps what the transactions in flight rest on.
LEMMA FlightStep ==
    ASSUME TypeInv, LedgerInv, FlightInv, [Next]_vars
    PROVE  FlightInv'
<1>1. ASSUME NEW f \in Families, NEW upd, family[f] = "absent", NEW s, NEW ended,
             issued' = [issued EXCEPT ![f] = 1],
             Commit(ended, {SessionRow(s), FamilyRow(f)} \cup PairRows(<<f, 1>>), upd)
                \/ Commit(ended, {FamilyRow(f)} \cup PairRows(<<f, 1>>), upd)
      PROVE  FlightInv'
  <2>1. /\ <<f, 1>> \notin IssuedTokens /\ issued[f] = 0
        /\ IssuedTokens' = IssuedTokens \cup {<<f, 1>>}
    BY <1>1, OpenFacts
  <2>2. \A x \in IssuedTokens : x[1] # f
    BY <2>1, AuthorityAssumption, TokenParts DEF IssuedTokens
  <2>3. ASSUME NEW ins, Commit(ended, ins, upd), FamilyRow(f) \in ins,
               \A x : RefreshRow(x) \in ins => x = <<f, 1>>,
               \A x : AccessRow(x) \in ins => x = <<f, 1>>,
               \A h : FamilyRow(h) \in ins => h = f
        PROVE  FlightInv'
    <3>1. IssuedTokens \subseteq IssuedTokens'
      BY <2>1
    <3>2. ASSUME NEW x \in IssuedTokens
          PROVE  RefreshRow(x) \notin ins /\ AccessRow(x) \notin ins /\ FamilyRow(x[1]) \notin ins
      <4>1. x # <<f, 1>> /\ x[1] # f
        BY <2>1, <2>2
      <4> QED BY <2>3, <4>1
    <3>3. ASSUME NEW x \in IssuedTokens' \ IssuedTokens
          PROVE  FamilyRow(x[1]) \in ins
      BY <2>1, <2>3
    <3>4. \A x \in IssuedTokens' \ IssuedTokens :
             \/ FamilyRow(x[1]) \in ins
             \/ \E y \in TokensOf({x[1]}) : RefreshRow(y) \in upd
      BY <3>3
    <3>5. \A x \in IssuedTokens :
             RefreshRow(x) \notin ins /\ AccessRow(x) \notin ins /\ FamilyRow(x[1]) \notin ins
      BY <3>2
    <3>6. Commit(ended, ins, upd)
      BY <2>3
    <3> QED BY <3>1, <3>4, <3>5, <3>6, FlightCommit
  <2>4. CASE Commit(ended, {SessionRow(s), FamilyRow(f)} \cup PairRows(<<f, 1>>), upd)
    <3> DEFINE ins == {SessionRow(s), FamilyRow(f)} \cup PairRows(<<f, 1>>)
    <3>1. /\ FamilyRow(f) \in ins
          /\ \A x : RefreshRow(x) \in ins => x = <<f, 1>>
          /\ \A x : AccessRow(x) \in ins => x = <<f, 1>>
          /\ \A h : FamilyRow(h) \in ins => h = f
      BY RowNames DEF PairRows
    <3>2. Commit(ended, ins, upd)
      BY <2>4
    <3> HIDE DEF ins
    <3> QED BY <2>3, <3>1, <3>2
  <2>5. CASE Commit(ended, {FamilyRow(f)} \cup PairRows(<<f, 1>>), upd)
    <3> DEFINE ins == {FamilyRow(f)} \cup PairRows(<<f, 1>>)
    <3>1. /\ FamilyRow(f) \in ins
          /\ \A x : RefreshRow(x) \in ins => x = <<f, 1>>
          /\ \A x : AccessRow(x) \in ins => x = <<f, 1>>
          /\ \A h : FamilyRow(h) \in ins => h = f
      BY RowNames DEF PairRows
    <3>2. Commit(ended, ins, upd)
      BY <2>5
    <3> HIDE DEF ins
    <3> QED BY <2>3, <3>1, <3>2
  <2> QED BY <1>1, <2>4, <2>5
<1>2. ASSUME NEW x \in IssuedTokens, IssueNext(x), NEW k, NEW upd, NEW ended,
             RefreshRow(x) \in upd,
             Commit(ended, PairRows(NextToken(x[1])) \cup {RecordRow(x, k)}, upd)
      PROVE  FlightInv'
  <2>1. /\ NextToken(x[1]) \notin IssuedTokens /\ NextToken(x[1])[1] = x[1]
        /\ IssuedTokens' = IssuedTokens \cup {NextToken(x[1])}
    BY <1>2, IssueFacts
  <2>2. x \in TokensOf({x[1]})
    BY DEF TokensOf
  <2> DEFINE ins == PairRows(NextToken(x[1])) \cup {RecordRow(x, k)}
  <2>3. /\ \A y : RefreshRow(y) \in ins => y = NextToken(x[1])
        /\ \A y : AccessRow(y) \in ins => y = NextToken(x[1])
        /\ \A h : FamilyRow(h) \notin ins
    BY RowNames DEF PairRows
  <2>4. Commit(ended, ins, upd)
    BY <1>2
  <2> HIDE DEF ins
  <2> QED BY <1>2, <2>1, <2>2, <2>3, <2>4, FlightCommit
<1>3. ASSUME NEW s \in Sessions, Login(s) PROVE FlightInv'
  <2>1. <<s, Iam, 1>> \in Families /\ SessionOf(<<s, Iam, 1>>) = s
    BY FamilyKinds DEF SessionOf
  <2>2. family[<<s, Iam, 1>>] = "absent"
    BY <1>3, <2>1 DEF Login, LedgerInv, SessionsKnown
  <2> QED BY <1>1, <1>3, <2>1, <2>2 DEF Login
<1>4. ASSUME NEW c \in Codes, ExchangeCode(c) PROVE FlightInv'
  <2>1. c \in Families /\ family[c] = "absent"
    BY <1>4 DEF ExchangeCode, LedgerInv, CodesUnused, Families
  <2> QED BY <1>1, <1>4, <2>1 DEF ExchangeCode
<1>5. ASSUME NEW x \in Tokens, NEW k \in Keys, ExchangeRefresh(x, k) PROVE FlightInv'
  BY <1>2, <1>5 DEF ExchangeRefresh
<1>6. ASSUME NEW t \in Transactions, FinishRotate(t) PROVE FlightInv'
  <2>1. open[t].op.token \in IssuedTokens
    BY <1>6, RotateFacts DEF FinishRotate
  <2> QED BY <1>2, <1>6, <2>1 DEF FinishRotate
<1>7. ASSUME NEW t \in Transactions, FinishReuse(t) \/ FinishLogout(t) PROVE FlightInv'
  BY SMTT(90), <1>7, FlightQuiet, RowNames DEF FinishReuse, FinishLogout
<1>8. ASSUME NEW c \in Codes, MintCode(c) PROVE FlightInv'
  BY <1>8, FlightQuiet, RowNames DEF MintCode, credentials
<1>9. ASSUME NEW x \in Tokens, NEW k \in Keys, RefreshReuse(x, k) PROVE FlightInv'
  BY <1>9, FlightQuiet, RowNames DEF RefreshReuse
<1>10. ASSUME NEW x \in Tokens, RevokeAccessToken(x) PROVE FlightInv'
  BY <1>10, FlightQuiet DEF RevokeAccessToken
<1>11. ASSUME NEW c \in Codes, RevokeRefreshFamily(c) PROVE FlightInv'
  BY <1>11, FlightQuiet DEF RevokeRefreshFamily
<1>12. ASSUME NEW a \in Applications, SuspendApplication(a) \/ ReactivateApplication(a)
       PROVE  FlightInv'
  BY <1>12, FlightQuiet DEF SuspendApplication, ReactivateApplication, credentials
<1>13. ASSUME NEW t \in Transactions, NEW x \in Tokens, NEW k \in Keys, BeginRotate(t, x, k)
       PROVE  FlightInv'
  BY <1>13, FlightStart DEF BeginRotate, Begin, credentials
<1>14. ASSUME NEW t \in Transactions, BeginLogout(t) PROVE FlightInv'
  <2>1. PICK op : /\ Begin(t, op) /\ op.kind = "logout"
                  /\ \A g \in op.consents : g[1] \in op.targets
    BY <1>14 DEF BeginLogout
  <2> QED BY <2>1, FlightStart DEF Begin, credentials
<1>15. ASSUME NEW t \in Transactions, Rollback(t) PROVE FlightInv'
  BY <1>15, FlightStart DEF Rollback, Idle, credentials
<1>16. ASSUME NEW x \in Tokens, NEW k \in Keys, EraseRecord(x, k) PROVE FlightInv'
  BY <1>16, FlightQuiet DEF EraseRecord, credentials
<1>17. CASE UNCHANGED vars
  BY <1>17 DEF vars, FlightInv, OpenSound, SnapshotSound, IssuedTokens, TokensOf
<1> QED
  BY <1>3, <1>4, <1>5, <1>6, <1>7, <1>8, <1>9, <1>10, <1>11, <1>12, <1>13, <1>14, <1>15,
     <1>16, <1>17 DEF Next, SerializableStep, ApplicationStep

\* The token was consumed under another key than this one, or its record was erased.
ConsumedBefore(x, k) ==
    \E j \in Keys : /\ outcome[x][j] \in {"rotated", "erased"}
                    /\ outcome[x][j] = "rotated" => j # k

\* A consumed token presented with no record for its key: if its family is intact, it
\* was consumed under a key whose record is there, or erased.
LEMMA ReuseFacts ==
    ASSUME TypeInv, LedgerInv, NEW x \in IssuedTokens, NEW k \in Keys, x \in consumed,
           ~Recorded(x, k), Record(x, k, "reuse")
    PROVE  /\ x \in Tokens /\ x[1] \in Families /\ family[x[1]] # "absent"
           /\ x \in TokensOf({x[1]})
           /\ outcome[x][k] # "reuse" /\ outcome'[x][k] = "reuse"
           /\ Intact(x[1]) => ConsumedBefore(x, k)
           /\ \A y \in Tokens : y # x => outcome'[y] = outcome[y]
<1>1. x \in Tokens /\ x[1] \in Families /\ x[2] \in 1 .. MaxTokens /\ x[2] <= issued[x[1]]
  BY TokenParts DEF IssuedTokens
<1>2. issued[x[1]] # 0
  BY <1>1, AuthorityAssumption DEF TypeInv, TypeOK
<1>3. /\ \A y \in Tokens : y # x => outcome'[y] = outcome[y]
      /\ outcome'[x][k] = "reuse"
  BY <1>1 DEF Record, TypeInv, TypeOK
<1>4. Intact(x[1]) => ConsumedBefore(x, k)
  BY DEF LedgerInv, ConsumedRecorded, Spent, Recorded, ConsumedBefore
<1>5. /\ x \in TokensOf({x[1]}) /\ outcome[x][k] # "reuse"
      /\ family[x[1]] # "absent"
  BY <1>1, <1>2 DEF LedgerInv, FamilyKnown, TokensOf, Recorded
<1> QED BY <1>1, <1>3, <1>4, <1>5

\* Each step keeps the rows consistent with each other.
LEMMA LedgerStep ==
    ASSUME TypeInv, TypeInv', LedgerInv, FlightInv, [Next]_vars
    PROVE  LedgerInv'
<1>1. ASSUME UNCHANGED <<issued, consumed, revokedRefresh, family, session, outcome>>,
             \A c \in Codes : code'[c] \in {"consumed", code[c]} \/ code[c] = "absent"
      PROVE  LedgerInv'
  <2>1. \A f \in Families : Intact(f)' => Intact(f)
    BY <1>1 DEF Intact
  <2> QED BY <1>1, <2>1, LedgerRevoke
<1>2. ASSUME NEW s \in Sessions, Login(s) PROVE LedgerInv'
  <2>1. <<s, Iam, 1>> \in Families /\ SessionOf(<<s, Iam, 1>>) = s /\ <<s, Iam, 1>> \notin Codes
    BY FamilyKinds DEF SessionOf, IamFamilies
  <2>2. family[<<s, Iam, 1>>] = "absent"
    BY <1>2, <2>1 DEF Login, LedgerInv, SessionsKnown
  <2>3. /\ session'[s] # "absent"
        /\ \A r \in Sessions : session[r] # "absent" => session'[r] # "absent"
        /\ \A c \in Codes : code'[c] = code[c] /\ c # <<s, Iam, 1>>
    BY <1>2, <2>1 DEF Login, TypeInv, TypeOK
  <2>4. /\ family' = [family EXCEPT ![<<s, Iam, 1>>] = "active"]
        /\ issued' = [issued EXCEPT ![<<s, Iam, 1>>] = 1]
        /\ UNCHANGED <<consumed, revokedRefresh, outcome>>
    BY <1>2 DEF Login
  <2> QED BY <2>1, <2>2, <2>3, <2>4, LedgerOpen
<1>3. ASSUME NEW t \in Transactions, FinishRotate(t) PROVE LedgerInv'
  <2>1. open[t].op.token \in IssuedTokens /\ open[t].op.key \in Keys
    BY <1>3, RotateFacts DEF FinishRotate
  <2> QED BY <1>3, <2>1, LedgerIssue DEF FinishRotate, Rotatable
<1>4. ASSUME NEW t \in Transactions, FinishReuse(t) PROVE LedgerInv'
  <2> DEFINE x == open[t].op.token
             k == open[t].op.key
  <2>1. x \in IssuedTokens /\ k \in Keys
    BY <1>4, RotateFacts DEF FinishReuse
  <2>2. /\ x \in consumed /\ ~Recorded(x, k) /\ Record(x, k, "reuse")
        /\ family' = [family EXCEPT ![x[1]] = "compromised"]
        /\ session' = [session EXCEPT ![SessionOf(x[1])] = "revoked"]
        /\ revokedRefresh \subseteq revokedRefresh'
        /\ UNCHANGED <<issued, consumed, code>>
    BY <1>4 DEF FinishReuse
  <2> HIDE DEF x, k
  <2>3. /\ x \in Tokens /\ x[1] \in Families /\ family[x[1]] # "absent"
        /\ \A y \in Tokens : y # x => outcome'[y] = outcome[y]
    BY <2>1, <2>2, ReuseFacts
  <2>4. /\ family'[x[1]] = "compromised" /\ \A f \in Families : f # x[1] => family'[f] = family[f]
        /\ \A s \in Sessions : session[s] # "absent" => session'[s] # "absent"
    BY <2>2, <2>3 DEF TypeInv, TypeOK
  <2>5. \A f \in Families : Intact(f)' => Intact(f) /\ f # x[1]
    BY <2>4 DEF Intact
  <2>6. \A y \in consumed, j \in Keys :
          Intact(y[1])' /\ outcome[y][j] \in Spent => outcome'[y][j] \in Spent
    <3> SUFFICES ASSUME NEW y \in consumed, Intact(y[1])' PROVE outcome'[y] = outcome[y]
      OBVIOUS
    <3>1. y \in Tokens /\ y[1] \in Families
      BY TokenParts DEF LedgerInv, ConsumedRecorded, IssuedTokens
    <3> QED BY <2>3, <2>5, <3>1
  <2> QED BY <2>2, <2>3, <2>4, <2>5, <2>6, LedgerRevoke
<1>5. ASSUME NEW t \in Transactions, FinishLogout(t) PROVE LedgerInv'
  <2>1. /\ revokedRefresh \subseteq revokedRefresh'
        /\ UNCHANGED <<issued, consumed, outcome>>
    BY <1>5 DEF FinishLogout
  <2>2. \A f \in Families : family'[f] \in {family[f], Revoked(family[f])}
    BY <1>5 DEF FinishLogout
  <2>3. /\ \A f \in Families : family'[f] = "absent" <=> family[f] = "absent"
        /\ \A f \in Families : Intact(f)' => Intact(f)
    BY <2>2 DEF Revoked, Intact
  <2>4. \A s \in Sessions : session'[s] \in {"revoked", session[s]}
    BY <1>5 DEF FinishLogout
  <2>5. \A c \in Codes : code'[c] \in {"consumed", code[c]}
    BY <1>5 DEF FinishLogout
  <2>6. \A s \in Sessions : session[s] # "absent" => session'[s] # "absent"
    BY <2>4
  <2> QED BY <2>1, <2>3, <2>5, <2>6, LedgerRevoke
<1>6. ASSUME NEW c \in Codes, MintCode(c) PROVE LedgerInv'
  <2>1. \A d \in Codes : code'[d] \in {"consumed", code[d]} \/ code[d] = "absent"
    BY <1>6 DEF MintCode, TypeInv, TypeOK
  <2> QED BY <1>1, <1>6, <2>1 DEF MintCode, credentials
<1>7. ASSUME NEW c \in Codes, ExchangeCode(c) PROVE LedgerInv'
  <2>1. c \in Families /\ family[c] = "absent" /\ SessionOf(c) \in Sessions
    BY <1>7, FamilyKinds DEF ExchangeCode, LedgerInv, CodesUnused, Families
  <2>2. /\ \A d \in Codes : code'[d] = "consumed" \/ (code'[d] = code[d] /\ d # c)
        /\ session'[SessionOf(c)] # "absent"
        /\ \A s \in Sessions : session[s] # "absent" => session'[s] # "absent"
    BY <1>7, <2>1 DEF ExchangeCode, SubjectAuthority, TypeInv, TypeOK
  <2> QED BY <1>7, <2>1, <2>2, LedgerOpen DEF ExchangeCode
<1>8. ASSUME NEW x \in Tokens, NEW k \in Keys, ExchangeRefresh(x, k) PROVE LedgerInv'
  BY <1>8, LedgerIssue DEF ExchangeRefresh
<1>9. ASSUME NEW x \in Tokens, NEW k \in Keys, RefreshReuse(x, k) PROVE LedgerInv'
  <2>1. /\ x[1] \in Families /\ x[1] \notin IamFamilies /\ family[x[1]] # "absent"
        /\ \A y \in Tokens : y # x => outcome'[y] = outcome[y]
    BY <1>9, ReuseFacts, FamilyKinds DEF RefreshReuse
  <2>2. /\ revokedRefresh \subseteq revokedRefresh'
        /\ UNCHANGED <<issued, consumed, code, session>>
        /\ family'[x[1]] # "active"
        /\ \A f \in Families : family'[f] = family[f]
                               \/ (f = x[1] /\ family'[f] = "compromised")
    BY <1>9, <2>1 DEF RefreshReuse, RevokeFamilies, ReuseScope
  <2>3. /\ \A f \in Families : family'[f] = "absent" <=> family[f] = "absent"
        /\ \A f \in Families : Intact(f)' => Intact(f) /\ f # x[1]
    BY <2>1, <2>2 DEF Intact
  <2>4. \A y \in consumed, j \in Keys :
          Intact(y[1])' /\ outcome[y][j] \in Spent => outcome'[y][j] \in Spent
    <3> SUFFICES ASSUME NEW y \in consumed, Intact(y[1])' PROVE outcome'[y] = outcome[y]
      OBVIOUS
    <3>1. y \in Tokens /\ y[1] \in Families
      BY TokenParts DEF LedgerInv, ConsumedRecorded, IssuedTokens
    <3> QED BY <2>1, <2>3, <3>1
  <2> QED BY <2>2, <2>3, <2>4, LedgerRevoke
<1>10. ASSUME NEW x \in Tokens, RevokeAccessToken(x) PROVE LedgerInv'
  BY <1>1, <1>10 DEF RevokeAccessToken
<1>11. ASSUME NEW c \in Codes, RevokeRefreshFamily(c) PROVE LedgerInv'
  <2>1. /\ revokedRefresh \subseteq revokedRefresh'
        /\ UNCHANGED <<issued, consumed, code, session, outcome>>
        /\ \A f \in Families : family'[f] = family[f]
                               \/ (f = c /\ family[f] = "active" /\ family'[f] = "revoked")
    BY <1>11 DEF RevokeRefreshFamily, RevokeFamilies
  <2>2. /\ \A f \in Families : family'[f] = "absent" <=> family[f] = "absent"
        /\ \A f \in Families : Intact(f)' => Intact(f)
    BY <2>1 DEF Intact
  <2> QED BY <2>1, <2>2, LedgerRevoke
<1>12. ASSUME NEW a \in Applications, SuspendApplication(a) PROVE LedgerInv'
  <2>1. /\ revokedRefresh \subseteq revokedRefresh'
        /\ UNCHANGED <<issued, consumed, code, session, outcome>>
        /\ \A f \in Families : family'[f] \in {family[f], Revoked(family[f])}
    BY <1>12 DEF SuspendApplication
  <2>2. /\ \A f \in Families : family'[f] = "absent" <=> family[f] = "absent"
        /\ \A f \in Families : Intact(f)' => Intact(f)
    BY <2>1 DEF Revoked, Intact
  <2> QED BY <2>1, <2>2, LedgerRevoke
<1>13. ASSUME NEW a \in Applications, ReactivateApplication(a) PROVE LedgerInv'
  BY <1>1, <1>13 DEF ReactivateApplication, credentials
<1>14. ASSUME NEW t \in Transactions, NEW x \in Tokens, NEW k \in Keys, BeginRotate(t, x, k)
       PROVE  LedgerInv'
  BY <1>1, <1>14 DEF BeginRotate, Begin, credentials
<1>15. ASSUME NEW t \in Transactions, BeginLogout(t) PROVE LedgerInv'
  BY <1>1, <1>15 DEF BeginLogout, Begin, credentials
<1>16. ASSUME NEW t \in Transactions, Rollback(t) PROVE LedgerInv'
  BY <1>1, <1>16 DEF Rollback, credentials
<1>17. ASSUME NEW x \in Tokens, NEW k \in Keys, EraseRecord(x, k) PROVE LedgerInv'
  <2>1. \A y \in Tokens, j \in Keys : outcome[y][j] \in Spent => outcome'[y][j] \in Spent
    BY <1>17 DEF EraseRecord, Record, Spent, TypeInv, TypeOK
  <2>2. consumed \subseteq Tokens
    BY DEF TypeInv, TypeOK
  <2>3. UNCHANGED <<issued, consumed, revokedRefresh, family, session, code>>
    BY <1>17 DEF EraseRecord, credentials
  <2>4. \A f \in Families : Intact(f)' => Intact(f)
    BY <2>3 DEF Intact
  <2> QED BY <2>1, <2>2, <2>3, <2>4, LedgerRevoke
<1>18. CASE UNCHANGED vars
  BY <1>1, <1>18 DEF vars
<1> QED
  BY <1>2, <1>3, <1>4, <1>5, <1>6, <1>7, <1>8, <1>9, <1>10, <1>11, <1>12, <1>13, <1>14,
     <1>15, <1>16, <1>17, <1>18 DEF Next, SerializableStep, ApplicationStep

----------------------------------------------------------------------------
(* What has ended *)

\* An issued access token works, or is revoked, or its session is.
UnusableForGood ==
    \A x \in IssuedTokens :
        Usable(x) \/ x \in revokedAccess \/ session[SessionOf(x[1])] = "revoked"

DeadInv == InactiveFamilyIsDead /\ UnusableForGood

Inactive == {"revoked", "compromised"}

\* A step that takes nothing back, revokes what it stops, and issues only in families
\* that are active and stay so.
LEMMA DeadFrom ==
    ASSUME TypeInv, DeadInv,
           IssuedTokens \subseteq IssuedTokens',
           revokedRefresh \subseteq revokedRefresh', revokedAccess \subseteq revokedAccess',
           \A s \in Sessions : session[s] = "revoked" => session'[s] = "revoked",
           \A x \in IssuedTokens : Usable(x) =>
             Usable(x)' \/ x \in revokedAccess' \/ session'[SessionOf(x[1])] = "revoked",
           \A x \in IssuedTokens' \ IssuedTokens : Usable(x)' \/ x \in revokedAccess',
           \A x \in IssuedTokens' \ IssuedTokens : family'[x[1]] = "active",
           \A f \in Families :
             family'[f] \in Inactive => family[f] \in Inactive \/
               \A x \in IssuedTokens' : x[1] = f => x \in revokedRefresh' /\ x \in revokedAccess'
    PROVE  DeadInv' /\ NoResurrectionStep
<1>1. ASSUME NEW x \in IssuedTokens
      PROVE  x[1] \in Families /\ SessionOf(x[1]) \in Sessions
  BY TokenParts, FamilyKinds DEF IssuedTokens
<1>2. ASSUME NEW x \in IssuedTokens, x \in revokedAccess \/ session[SessionOf(x[1])] = "revoked"
      PROVE  x \in revokedAccess' \/ session'[SessionOf(x[1])] = "revoked"
  BY <1>1, <1>2
<1>3. UnusableForGood'
  <2> SUFFICES ASSUME NEW x \in IssuedTokens'
               PROVE  Usable(x)' \/ x \in revokedAccess' \/ session'[SessionOf(x[1])] = "revoked"
    BY DEF UnusableForGood, SessionOf
  <2>1. CASE x \in IssuedTokens
    <3>1. Usable(x) \/ x \in revokedAccess \/ session[SessionOf(x[1])] = "revoked"
      BY <2>1 DEF DeadInv, UnusableForGood
    <3> QED BY <1>2, <2>1, <3>1
  <2>2. CASE x \notin IssuedTokens
    BY <2>2
  <2> QED BY <2>1, <2>2
<1>4. InactiveFamilyIsDead'
  <2> SUFFICES ASSUME NEW f \in Families, family'[f] \in Inactive,
                      NEW x \in IssuedTokens', x[1] = f
               PROVE  x \in revokedRefresh' /\ x \in revokedAccess'
    BY DEF InactiveFamilyIsDead, Inactive, TokensOf
  <2>1. CASE family[f] \in Inactive
    <3>1. x \in IssuedTokens
      BY DEF Inactive
    <3> QED BY <2>1, <3>1 DEF DeadInv, InactiveFamilyIsDead, Inactive, TokensOf
  <2>2. CASE family[f] \notin Inactive
    BY <2>2
  <2> QED BY <2>1, <2>2
<1>5. NoResurrectionStep
  <2> SUFFICES ASSUME NEW x \in IssuedTokens, ~Usable(x) PROVE ~Usable(x)'
    BY DEF NoResurrectionStep
  <2>1. x \in revokedAccess' \/ session'[SessionOf(x[1])] = "revoked"
    BY <1>2 DEF DeadInv, UnusableForGood
  <2> QED BY <2>1 DEF Usable, SessionOf
<1> QED BY <1>3, <1>4, <1>5 DEF DeadInv

\* A step that issues the token n in the family f.
LEMMA DeadIssue ==
    ASSUME TypeInv, DeadInv, NEW f \in Families, NEW n,
           IssuedTokens' = IssuedTokens \cup {n}, n[1] = f,
           session'[SessionOf(f)] = "active", session[SessionOf(f)] # "revoked",
           \A s \in Sessions : s # SessionOf(f) => session'[s] = session[s],
           family'[f] = "active", \A h \in Families : h # f => family'[h] = family[h],
           UNCHANGED <<revokedRefresh, revokedAccess, consent, standing, epoch>>,
           \A x \in IssuedTokens : x[1] \in Codes => accessEpoch'[x] = accessEpoch[x],
           f \in Codes => /\ standing[ClientOf(f)] = "verified"
                          /\ epoch[ClientOf(f)] = accessEpoch'[n]
                          /\ consent[ConsentOf(f)] = "active"
    PROVE  DeadInv' /\ NoResurrectionStep
<1>1. ASSUME NEW x \in IssuedTokens, Usable(x) PROVE Usable(x)'
  <2>1. SessionOf(x[1]) \in Sessions
    BY TokenParts, FamilyKinds DEF IssuedTokens
  <2>2. session'[SessionOf(x[1])] = "active"
    BY <1>1, <2>1 DEF Usable
  <2> QED BY <1>1, <2>2 DEF Usable, SessionOf, ClientOf, ConsentOf
<1>2. n \in IssuedTokens' => Usable(n)' \/ n \in revokedAccess'
  BY DEF Usable, SessionOf, ClientOf, ConsentOf
<1>3. \A s \in Sessions : session[s] = "revoked" => session'[s] = "revoked"
  OBVIOUS
<1>4. \A h \in Families : family'[h] \in Inactive => family[h] \in Inactive
  BY DEF Inactive
<1>5. \A x \in IssuedTokens' \ IssuedTokens :
        (Usable(x)' \/ x \in revokedAccess') /\ family'[x[1]] = "active"
  BY <1>2
<1> QED BY <1>1, <1>3, <1>4, <1>5, DeadFrom

\* A step that issues nothing and leaves the applications alone.
LEMMA DeadRevoke ==
    ASSUME TypeInv, DeadInv, UNCHANGED <<issued, accessEpoch, standing, epoch>>,
           revokedRefresh \subseteq revokedRefresh', revokedAccess \subseteq revokedAccess',
           \A s \in Sessions : session'[s] \in {"revoked", session[s]},
           \A g \in Consents : consent'[g] = consent[g] \/ consent'[g] = "active"
                                 \/ session'[g[1]] = "revoked",
           \A f \in Families :
             family'[f] \in Inactive => family[f] \in Inactive \/
               \A x \in IssuedTokens : x[1] = f => x \in revokedRefresh' /\ x \in revokedAccess'
    PROVE  DeadInv' /\ NoResurrectionStep
<1>1. IssuedTokens' = IssuedTokens
  BY DEF IssuedTokens
<1>2. ASSUME NEW x \in IssuedTokens, Usable(x), x \notin revokedAccess',
             session'[SessionOf(x[1])] # "revoked"
      PROVE  Usable(x)'
  <2>1. x[1] \in Families /\ SessionOf(x[1]) \in Sessions
    BY TokenParts, FamilyKinds DEF IssuedTokens
  <2>2. session'[SessionOf(x[1])] = "active"
    BY <1>2, <2>1 DEF Usable
  <2>3. ASSUME x[1] \in Codes PROVE consent'[ConsentOf(x[1])] = "active"
    <3>1. ConsentOf(x[1]) \in Consents /\ ConsentOf(x[1])[1] = SessionOf(x[1])
      BY <2>3, FamilyKinds
    <3>2. consent[ConsentOf(x[1])] = "active"
      BY <1>2, <2>3 DEF Usable
    <3> QED BY <1>2, <3>1, <3>2
  <2> QED BY <1>1, <1>2, <2>2, <2>3 DEF Usable, SessionOf, ClientOf, ConsentOf
<1>3. \A s \in Sessions : session[s] = "revoked" => session'[s] = "revoked"
  OBVIOUS
<1> QED BY <1>1, <1>2, <1>3, DeadFrom

\* What the snapshot of a sweep misses conflicts with it.
LEMMA NothingMissed ==
    ASSUME NEW t \in Transactions, SnapshotSound(t), NEW written, Unconflicted(t, written),
           NEW f, FamilyRow(f) \notin open[t].inserted,
           \A y \in IssuedTokens :
             y[1] = f /\ RefreshRow(y) \notin open[t].inserted => RefreshRow(y) \in written
    PROVE  \A x \in IssuedTokens : x[1] = f =>
             RefreshRow(x) \notin open[t].inserted /\ AccessRow(x) \notin open[t].inserted
<1> SUFFICES ASSUME NEW x \in IssuedTokens, x[1] = f,
                    RefreshRow(x) \in open[t].inserted \/ AccessRow(x) \in open[t].inserted
             PROVE  FALSE
  OBVIOUS
<1>1. PICK y \in IssuedTokens :
        y[1] = f /\ RefreshRow(y) \notin open[t].inserted /\ RefreshRow(y) \in open[t].updated
  BY DEF SnapshotSound
<1>2. RefreshRow(y) \in written
  BY <1>1
<1> QED BY <1>1, <1>2 DEF Unconflicted

\* A family whose tokens are counted has some row.
LEMMA IssuedFamilies ==
    ASSUME TypeInv, LedgerInv
    PROVE  \A x \in IssuedTokens : /\ x \in Tokens /\ x[1] \in Families
                                   /\ family[x[1]] # "absent"
                                   /\ SessionOf(x[1]) \in Sessions
<1> SUFFICES ASSUME NEW x \in IssuedTokens
             PROVE  /\ x \in Tokens /\ x[1] \in Families /\ family[x[1]] # "absent"
                    /\ SessionOf(x[1]) \in Sessions
  OBVIOUS
<1>1. /\ x \in Tokens /\ x[1] \in Families /\ x[2] \in 1 .. MaxTokens /\ x[2] <= issued[x[1]]
      /\ SessionOf(x[1]) \in Sessions
  BY TokenParts, FamilyKinds DEF IssuedTokens
<1>2. issued[x[1]] # 0
  BY <1>1, AuthorityAssumption DEF TypeInv, TypeOK
<1> QED BY <1>1, <1>2 DEF LedgerInv, FamilyKnown

\* Each step leaves nothing alive in a family it ends, and revives nothing.
LEMMA DeadStep ==
    ASSUME TypeInv, TypeInv', LedgerInv, FlightInv, DeadInv, [Next]_vars
    PROVE  DeadInv' /\ NoResurrectionStep
<1>a. \A x \in IssuedTokens : /\ x \in Tokens /\ x[1] \in Families
                                /\ family[x[1]] # "absent" /\ SessionOf(x[1]) \in Sessions
  BY IssuedFamilies
<1>1. ASSUME UNCHANGED <<issued, accessEpoch, standing, epoch, revokedRefresh, family, session>>,
             revokedAccess \subseteq revokedAccess',
             \A g \in Consents : consent'[g] \in {"active", consent[g]}
      PROVE  DeadInv' /\ NoResurrectionStep
  BY <1>1, DeadRevoke
<1>2. ASSUME NEW s \in Sessions, Login(s) PROVE DeadInv' /\ NoResurrectionStep
  <2> DEFINE f == <<s, Iam, 1>>
  <2>1. f \in Families /\ SessionOf(f) = s /\ f \notin Codes
    BY FamilyKinds DEF SessionOf, IamFamilies
  <2>2. /\ session[s] = "absent" /\ session' = [session EXCEPT ![s] = "active"]
        /\ family' = [family EXCEPT ![f] = "active"] /\ issued' = [issued EXCEPT ![f] = 1]
        /\ UNCHANGED <<revokedRefresh, revokedAccess, accessEpoch, consent, standing, epoch>>
    BY <1>2 DEF Login, lifecycle
  <2> HIDE DEF f
  <2>3. family[f] = "absent"
    BY <2>1, <2>2 DEF LedgerInv, SessionsKnown
  <2>4. IssuedTokens' = IssuedTokens \cup {<<f, 1>>}
    BY <2>1, <2>2, <2>3, OpenFacts
  <2>5. /\ session'[s] = "active" /\ \A r \in Sessions : r # s => session'[r] = session[r]
        /\ family'[f] = "active" /\ \A h \in Families : h # f => family'[h] = family[h]
    BY <2>1, <2>2 DEF TypeInv, TypeOK
  <2>6. <<f, 1>>[1] = f
    OBVIOUS
  <2> QED BY <2>1, <2>2, <2>4, <2>5, <2>6, DeadIssue
<1>3. ASSUME NEW t \in Transactions, FinishRotate(t) PROVE DeadInv' /\ NoResurrectionStep
  <2> DEFINE x == open[t].op.token
  <2>1. x \in IssuedTokens /\ x[1] \in IamFamilies
    BY <1>3, RotateFacts DEF FinishRotate
  <2>2. /\ IssueNext(x) /\ family[x[1]] = "active" /\ session[SessionOf(x[1])] = "active"
        /\ UNCHANGED <<session, family, revokedRefresh, revokedAccess, accessEpoch, consent,
                       standing, epoch>>
    BY <1>3 DEF FinishRotate, Rotatable, lifecycle
  <2> HIDE DEF x
  <2>3. IssuedTokens' = IssuedTokens \cup {NextToken(x[1])} /\ NextToken(x[1])[1] = x[1]
    BY <2>1, <2>2, IssueFacts
  <2>4. x[1] \in Families /\ x[1] \notin Codes
    BY <1>a, <2>1, FamilyKinds
  <2> QED BY <2>2, <2>3, <2>4, DeadIssue
<1>4. ASSUME NEW t \in Transactions, FinishReuse(t) PROVE DeadInv' /\ NoResurrectionStep
  <2> DEFINE x == open[t].op.token
             k == open[t].op.key
             s == SessionOf(x[1])
             refresh == {y \in TokensOf({x[1]}) : RefreshRow(y) \notin open[t].inserted}
             access == {y \in TokensOf(FamiliesOf({s})) : AccessRow(y) \notin open[t].inserted}
             written == {RefreshRow(y) : y \in refresh} \cup {AccessRow(y) : y \in access}
                          \cup {FamilyRow(x[1]), SessionRow(s)}
  <2>1. /\ x \in IssuedTokens /\ SnapshotSound(t) /\ FamilyRow(x[1]) \notin open[t].inserted
    BY <1>4, RotateFacts DEF FinishReuse
  <2>2. /\ Unconflicted(t, RotateLocks(x, k) \cup written)
        /\ family' = [family EXCEPT ![x[1]] = "compromised"]
        /\ session' = [session EXCEPT ![s] = "revoked"]
        /\ revokedRefresh' = revokedRefresh \cup refresh
        /\ revokedAccess' = revokedAccess \cup access
        /\ UNCHANGED <<issued, accessEpoch, consent, standing, epoch>>
    BY <1>4 DEF FinishReuse, lifecycle
  <2>3. \A y \in IssuedTokens : y[1] = x[1] /\ RefreshRow(y) \notin open[t].inserted =>
          RefreshRow(y) \in RotateLocks(x, k) \cup written
    BY DEF TokensOf
  <2>4. \A y \in IssuedTokens : y[1] = x[1] =>
          RefreshRow(y) \notin open[t].inserted /\ AccessRow(y) \notin open[t].inserted
    <3> HIDE DEF written, x, k
    <3> QED BY <2>1, <2>2, <2>3, NothingMissed
  <2>5. \A y \in IssuedTokens : y[1] = x[1] => y \in refresh /\ y \in access
    BY <1>a, <2>4 DEF TokensOf, FamiliesOf
  <2> HIDE DEF written, refresh, access, x, k, s
  <2>6. /\ \A r \in Sessions : session'[r] \in {"revoked", session[r]}
        /\ \A f \in Families : f # x[1] => family'[f] = family[f]
    BY <2>2 DEF TypeInv, TypeOK
  <2> QED BY <2>2, <2>5, <2>6, DeadRevoke
<1>5. ASSUME NEW t \in Transactions, FinishLogout(t) PROVE DeadInv' /\ NoResurrectionStep
  <2> DEFINE op == open[t].op
             fs == {f \in FamiliesOf(op.targets) : FamilyRow(f) \notin open[t].inserted}
             refresh == {x \in TokensOf(fs) : RefreshRow(x) \notin open[t].inserted}
             access == {x \in TokensOf(FamiliesOf(op.targets)) :
                          AccessRow(x) \notin open[t].inserted}
             written == {SessionRow(s) : s \in op.targets}
                     \cup {FamilyRow(f) : f \in fs}
                     \cup {RefreshRow(x) : x \in refresh}
                     \cup {AccessRow(x) : x \in access}
                     \cup {CodeRow(c) : c \in op.codes}
                     \cup {ConsentRow(g) : g \in op.consents}
  <2>1. /\ op.targets \subseteq Sessions /\ SnapshotSound(t)
        /\ \A g \in op.consents : g[1] \in op.targets
    BY <1>5, LogoutFacts DEF FinishLogout
  <2>2. /\ Unconflicted(t, written)
        /\ session' = [s \in Sessions |-> IF s \in op.targets THEN "revoked" ELSE session[s]]
        /\ family' = [f \in Families |-> IF f \in fs THEN Revoked(family[f]) ELSE family[f]]
        /\ revokedRefresh' = revokedRefresh \cup refresh
        /\ revokedAccess' = revokedAccess \cup access
        /\ consent' = [g \in Consents |-> IF g \in op.consents THEN "revoked" ELSE consent[g]]
        /\ UNCHANGED <<issued, accessEpoch, standing, epoch>>
    BY <1>5 DEF FinishLogout, lifecycle
  <2>3. ASSUME NEW f \in fs, NEW x \in IssuedTokens, x[1] = f
        PROVE  x \in refresh /\ x \in access
    <3>1. FamilyRow(f) \notin open[t].inserted /\ f \in FamiliesOf(op.targets)
      OBVIOUS
    <3>2. \A y \in IssuedTokens :
            y[1] = f /\ RefreshRow(y) \notin open[t].inserted => RefreshRow(y) \in written
      BY DEF TokensOf
    <3>3. RefreshRow(x) \notin open[t].inserted /\ AccessRow(x) \notin open[t].inserted
      <4> HIDE DEF written, fs, refresh, access
      <4> QED BY <2>1, <2>2, <2>3, <3>1, <3>2, NothingMissed
    <3> QED BY <2>3, <3>1, <3>3 DEF TokensOf
  <2>4. /\ \A s \in Sessions : session'[s] \in {"revoked", session[s]}
        /\ \A g \in Consents : consent'[g] = consent[g] \/ session'[g[1]] = "revoked"
        /\ \A f \in Families : f \notin fs => family'[f] = family[f]
    <3> HIDE DEF written, fs, refresh, access
    <3> QED BY <2>1, <2>2
  <2>5. /\ revokedRefresh \subseteq revokedRefresh' /\ revokedAccess \subseteq revokedAccess'
        /\ UNCHANGED <<issued, accessEpoch, standing, epoch>>
    BY <2>2
  <2>6. \A f \in Families : family'[f] \in Inactive => family[f] \in Inactive \/
          \A x \in IssuedTokens : x[1] = f => x \in revokedRefresh' /\ x \in revokedAccess'
    <3> HIDE DEF written, fs, refresh, access
    <3> QED BY <2>2, <2>3, <2>4
  <2> HIDE DEF op, fs, refresh, access, written
  <2> QED BY <2>4, <2>5, <2>6, DeadRevoke
<1>6. ASSUME NEW c \in Codes, MintCode(c) PROVE DeadInv' /\ NoResurrectionStep
  <2>1. \A g \in Consents : consent'[g] \in {"active", consent[g]}
    BY <1>6 DEF MintCode, TypeInv, TypeOK
  <2> QED BY <1>1, <1>6, <2>1 DEF MintCode, credentials, lifecycle
<1>7. ASSUME NEW c \in Codes, ExchangeCode(c) PROVE DeadInv' /\ NoResurrectionStep
  <2>1. c \in Families /\ family[c] = "absent"
    BY <1>7 DEF ExchangeCode, LedgerInv, CodesUnused, Families
  <2>2. IssuedTokens' = IssuedTokens \cup {<<c, 1>>} /\ <<c, 1>> \in Tokens /\ <<c, 1>> \notin IssuedTokens
    BY <1>7, <2>1, OpenFacts DEF ExchangeCode
  <2>3. /\ session[SessionOf(c)] = "active" /\ standing[ClientOf(c)] = "verified"
        /\ consent[ConsentOf(c)] = "active"
        /\ family' = [family EXCEPT ![c] = "active"]
        /\ accessEpoch' = [accessEpoch EXCEPT ![<<c, 1>>] = epoch[ClientOf(c)]]
        /\ UNCHANGED <<session, revokedRefresh, revokedAccess, consent, standing, epoch>>
    BY <1>7 DEF ExchangeCode, SubjectAuthority, ClientCurrent, lifecycle
  <2>4. /\ family'[c] = "active" /\ \A h \in Families : h # c => family'[h] = family[h]
        /\ accessEpoch'[<<c, 1>>] = epoch[ClientOf(c)]
        /\ \A x \in IssuedTokens : accessEpoch'[x] = accessEpoch[x]
    BY <1>a, <2>1, <2>2, <2>3 DEF TypeInv, TypeOK
  <2>5. <<c, 1>>[1] = c
    OBVIOUS
  <2> QED BY <2>1, <2>2, <2>3, <2>4, <2>5, DeadIssue
<1>8. ASSUME NEW x \in Tokens, NEW k \in Keys, ExchangeRefresh(x, k)
      PROVE  DeadInv' /\ NoResurrectionStep
  <2> DEFINE f == x[1]
             n == NextToken(x[1])
  <2>1. /\ x \in IssuedTokens /\ IssueNext(x) /\ f \in Codes /\ family[f] = "active"
        /\ session[SessionOf(f)] = "active" /\ standing[ClientOf(f)] = "verified"
        /\ consent[ConsentOf(f)] = "active"
        /\ accessEpoch' = [accessEpoch EXCEPT ![n] = epoch[ClientOf(f)]]
        /\ UNCHANGED <<session, family, revokedRefresh, revokedAccess, consent, standing, epoch>>
    BY <1>8 DEF ExchangeRefresh, SubjectAuthority, ClientCurrent, lifecycle
  <2>2. /\ IssuedTokens' = IssuedTokens \cup {n} /\ n[1] = f /\ n \in Tokens
        /\ n \notin IssuedTokens /\ f \in Families
    BY <2>1, IssueFacts
  <2> HIDE DEF n, f
  <2>3. /\ accessEpoch'[n] = epoch[ClientOf(f)]
        /\ \A y \in IssuedTokens : accessEpoch'[y] = accessEpoch[y]
    BY <1>a, <2>1, <2>2 DEF TypeInv, TypeOK
  <2> QED BY <2>1, <2>2, <2>3, DeadIssue
<1>9. ASSUME NEW fs, NEW status, RevokeFamilies(fs, status),
             UNCHANGED <<issued, accessEpoch, standing, epoch, session, consent>>
      PROVE  DeadInv' /\ NoResurrectionStep
  <2>1. \A f \in Families : f \notin fs => family'[f] = family[f]
    BY <1>9 DEF RevokeFamilies
  <2>2. \A x \in IssuedTokens : x[1] \in fs => x \in revokedRefresh' /\ x \in revokedAccess'
    BY <1>9 DEF RevokeFamilies, FamilyAccess, TokensOf
  <2>3. revokedRefresh \subseteq revokedRefresh' /\ revokedAccess \subseteq revokedAccess'
    BY <1>9 DEF RevokeFamilies
  <2> QED BY <1>9, <2>1, <2>2, <2>3, DeadRevoke
<1>10. ASSUME NEW x \in Tokens, NEW k \in Keys, RefreshReuse(x, k)
       PROVE  DeadInv' /\ NoResurrectionStep
  BY <1>9, <1>10 DEF RefreshReuse, lifecycle
<1>11. ASSUME NEW x \in Tokens, RevokeAccessToken(x) PROVE DeadInv' /\ NoResurrectionStep
  BY <1>1, <1>11 DEF RevokeAccessToken, lifecycle
<1>12. ASSUME NEW c \in Codes, RevokeRefreshFamily(c) PROVE DeadInv' /\ NoResurrectionStep
  BY <1>9, <1>12 DEF RevokeRefreshFamily, lifecycle
<1>13. ASSUME NEW a \in Applications, SuspendApplication(a) PROVE DeadInv' /\ NoResurrectionStep
  <2> DEFINE fs == {f \in Codes : ClientOf(f) = a /\ family[f] # "absent"}
             gs == {g \in Consents : g[2] = a /\ consent[g] = "active"}
  <2>1. /\ standing' = [standing EXCEPT ![a] = "suspended"]
        /\ epoch' = [epoch EXCEPT ![a] = @ + 1]
        /\ family' = [f \in Families |-> IF f \in fs THEN Revoked(family[f]) ELSE family[f]]
        /\ revokedRefresh' = revokedRefresh \cup TokensOf(fs)
        /\ revokedAccess' = revokedAccess \cup TokensOf(fs)
        /\ consent' = [g \in Consents |-> IF g \in gs THEN "revoked" ELSE consent[g]]
        /\ UNCHANGED <<session, issued, accessEpoch>>
    BY <1>13 DEF SuspendApplication
  <2>2. \A x \in IssuedTokens : x[1] \in fs => x \in TokensOf(fs)
    BY DEF TokensOf
  <2>3. ASSUME NEW x \in IssuedTokens, Usable(x), x \notin revokedAccess'
        PROVE  Usable(x)'
    <3>1. x[1] \in Codes => ClientOf(x[1]) # a
      BY <1>a, <2>1, <2>2, <2>3
    <3>2. x[1] \in Codes =>
            ClientOf(x[1]) \in Applications /\ ConsentOf(x[1]) \in Consents
              /\ ConsentOf(x[1])[2] = ClientOf(x[1])
      BY FamilyKinds
    <3>3. x[1] \in Codes =>
            /\ standing'[ClientOf(x[1])] = standing[ClientOf(x[1])]
            /\ epoch'[ClientOf(x[1])] = epoch[ClientOf(x[1])]
            /\ consent'[ConsentOf(x[1])] = consent[ConsentOf(x[1])]
      BY <2>1, <3>1, <3>2 DEF TypeInv, TypeOK
    <3>4. x \in IssuedTokens'
      BY <2>1 DEF IssuedTokens
    <3> QED BY <2>1, <2>3, <3>3, <3>4 DEF Usable, SessionOf, ClientOf, ConsentOf
  <2>4. IssuedTokens' = IssuedTokens
    BY <2>1 DEF IssuedTokens
  <2>5. \A f \in Families : f \notin fs => family'[f] = family[f]
    BY <2>1
  <2> HIDE DEF fs, gs
  <2>6. \A f \in Families : family'[f] \in Inactive => family[f] \in Inactive \/
          \A x \in IssuedTokens' : x[1] = f => x \in revokedRefresh' /\ x \in revokedAccess'
    BY <2>1, <2>2, <2>4, <2>5
  <2>7. /\ revokedRefresh \subseteq revokedRefresh' /\ revokedAccess \subseteq revokedAccess'
        /\ \A s \in Sessions : session[s] = "revoked" => session'[s] = "revoked"
    BY <2>1
  <2>8. /\ \A x \in IssuedTokens : Usable(x) =>
             Usable(x)' \/ x \in revokedAccess' \/ session'[SessionOf(x[1])] = "revoked"
        /\ IssuedTokens \subseteq IssuedTokens'
        /\ \A x \in IssuedTokens' \ IssuedTokens :
             (Usable(x)' \/ x \in revokedAccess') /\ family'[x[1]] = "active"
    BY <2>3, <2>4
  <2> QED BY <2>6, <2>7, <2>8, DeadFrom
<1>14. ASSUME NEW a \in Applications, ReactivateApplication(a)
       PROVE  DeadInv' /\ NoResurrectionStep
  <2>1. /\ standing[a] = "suspended" /\ standing' = [standing EXCEPT ![a] = "verified"]
        /\ UNCHANGED <<session, family, issued, revokedRefresh, revokedAccess, accessEpoch,
                       consent, epoch>>
    BY <1>14 DEF ReactivateApplication, credentials
  <2>2. IssuedTokens' = IssuedTokens
    BY <2>1 DEF IssuedTokens
  <2>3. ASSUME NEW x \in IssuedTokens, Usable(x) PROVE Usable(x)'
    <3>1. x[1] \in Codes => standing'[ClientOf(x[1])] = "verified"
      BY <2>1, <2>3, FamilyKinds DEF Usable, TypeInv, TypeOK
    <3> QED BY <2>1, <2>2, <2>3, <3>1 DEF Usable, SessionOf, ClientOf, ConsentOf
  <2> QED BY <2>1, <2>2, <2>3, DeadFrom
<1>15. ASSUME NEW t \in Transactions, NEW x \in Tokens, NEW k \in Keys, BeginRotate(t, x, k)
       PROVE  DeadInv' /\ NoResurrectionStep
  BY <1>1, <1>15 DEF BeginRotate, Begin, credentials, lifecycle
<1>16. ASSUME NEW t \in Transactions, BeginLogout(t) PROVE DeadInv' /\ NoResurrectionStep
  BY <1>1, <1>16 DEF BeginLogout, Begin, credentials, lifecycle
<1>17. ASSUME NEW t \in Transactions, Rollback(t) PROVE DeadInv' /\ NoResurrectionStep
  BY <1>1, <1>17 DEF Rollback, credentials, lifecycle
<1>18. ASSUME NEW x \in Tokens, NEW k \in Keys, EraseRecord(x, k)
       PROVE  DeadInv' /\ NoResurrectionStep
  BY <1>1, <1>18 DEF EraseRecord, credentials, lifecycle
<1>19. CASE UNCHANGED vars
  BY <1>1, <1>19 DEF vars, lifecycle
<1> QED
  BY <1>2, <1>3, <1>4, <1>5, <1>6, <1>7, <1>8, <1>10, <1>11, <1>12, <1>13, <1>14,
     <1>15, <1>16, <1>17, <1>18, <1>19 DEF Next, SerializableStep, ApplicationStep

----------------------------------------------------------------------------
(* The properties *)

AuthorityInv == TypeInv /\ LedgerInv /\ FlightInv /\ DeadInv

LEMMA AuthorityInit == Init => AuthorityInv
<1> SUFFICES ASSUME Init PROVE AuthorityInv
  OBVIOUS
<1>1. TypeOK
  <2>1. 0 \in 0 .. MaxTokens /\ 0 \in 0 .. MaxSuspensions
    BY AuthorityAssumption
  <2> QED BY <2>1 DEF Init, TypeOK, Started, Idle
<1>2. OpenShape
  BY DEF Init, OpenShape, Started
<1>3. IssuedTokens = {}
  BY TokenParts, AuthorityAssumption DEF Init, IssuedTokens
<1>4. LedgerInv
  BY <1>3, FamilyKinds
     DEF Init, LedgerInv, FamilyKnown, CodesUnused, SessionsKnown, LastLive, ConsumedRecorded,
         Families
<1>5. FlightInv
  BY DEF Init, FlightInv, Started
<1>6. DeadInv
  BY <1>3 DEF DeadInv, InactiveFamilyIsDead, UnusableForGood, TokensOf
<1> QED BY <1>1, <1>2, <1>4, <1>5, <1>6 DEF AuthorityInv, TypeInv

LEMMA AuthorityStep ==
    AuthorityInv /\ [Next]_vars => AuthorityInv' /\ NoResurrectionStep
  BY TypeStep, LedgerStep, FlightStep, DeadStep DEF AuthorityInv

\* Only the last token of a family can be presented.
LEMMA OneLive == TypeInv /\ LedgerInv => OneLiveRefresh
<1> SUFFICES ASSUME TypeInv, LedgerInv, NEW f \in Families
             PROVE  Cardinality(TokensOf({f}) \ (consumed \cup revokedRefresh)) <= 1
  BY DEF OneLiveRefresh
<1> DEFINE live == TokensOf({f}) \ (consumed \cup revokedRefresh)
<1>1. ASSUME NEW x \in live PROVE x = <<f, issued[f]>>
  <2>1. x \in IssuedTokens /\ x[1] = f /\ x \notin consumed \cup revokedRefresh
    BY DEF TokensOf
  <2>2. x = <<x[1], x[2]>>
    BY <2>1, TokenParts DEF IssuedTokens
  <2>3. x[2] = issued[f]
    BY <2>1 DEF LedgerInv, LastLive
  <2> QED BY <2>1, <2>2, <2>3
<1>2. live \subseteq {<<f, issued[f]>>}
  BY <1>1
<1> HIDE DEF live
<1>3. IsFiniteSet({<<f, issued[f]>>}) /\ Cardinality({<<f, issued[f]>>}) = 1
  BY FS_Singleton
<1>4. Cardinality(live) <= 1
  BY <1>2, <1>3, FS_Subset
<1> QED BY <1>4 DEF live

\* Whoever issues a pair holds the session.
LEMMA NoIssueStep ==
    TypeInv /\ LedgerInv /\ FlightInv /\ [Next]_vars => NoIssueAfterRevocationStep
<1> SUFFICES ASSUME TypeInv, LedgerInv, FlightInv, [Next]_vars,
                    NEW f \in Families, issued'[f] > issued[f]
             PROVE  session[SessionOf(f)] # "revoked"
  BY DEF NoIssueAfterRevocationStep
<1>0. issued[f] \in Nat
  BY DEF TypeInv, TypeOK
<1>1. UNCHANGED issued => FALSE
  BY <1>0
<1>2. ASSUME NEW s \in Sessions, Login(s) PROVE session[SessionOf(f)] # "revoked"
  <2>1. f = <<s, Iam, 1>>
    BY <1>0, <1>2 DEF Login, TypeInv, TypeOK
  <2> QED BY <1>2, <2>1 DEF Login, SessionOf
<1>3. ASSUME NEW t \in Transactions, FinishRotate(t) PROVE session[SessionOf(f)] # "revoked"
  <2>1. open[t].op.token \in IssuedTokens
    BY <1>3, RotateFacts DEF FinishRotate
  <2>2. f = open[t].op.token[1]
    BY SMTT(30), <1>0, <1>3, <2>1, IssueFacts DEF FinishRotate
  <2> QED BY <1>3, <2>2 DEF FinishRotate, Rotatable
<1>4. ASSUME NEW c \in Codes, ExchangeCode(c) PROVE session[SessionOf(f)] # "revoked"
  <2>1. f = c
    BY <1>0, <1>4 DEF ExchangeCode, TypeInv, TypeOK
  <2> QED BY <1>4, <2>1 DEF ExchangeCode, SubjectAuthority
<1>5. ASSUME NEW x \in Tokens, NEW k \in Keys, ExchangeRefresh(x, k)
      PROVE  session[SessionOf(f)] # "revoked"
  <2>1. f = x[1]
    BY <1>0, <1>5, IssueFacts DEF ExchangeRefresh
  <2> QED BY <1>5, <2>1 DEF ExchangeRefresh, SubjectAuthority
<1> QED
  BY <1>1, <1>2, <1>3, <1>4, <1>5
     DEF Next, SerializableStep, ApplicationStep, BeginRotate, BeginLogout, Begin, FinishReuse,
         FinishLogout, Rollback, MintCode, RevokeRefreshFamily, RefreshReuse, RevokeAccessToken,
         SuspendApplication, ReactivateApplication, EraseRecord, credentials, vars

\* Only the reuse of its own token compromises a family of an application.
LEMMA ReuseStep ==
    TypeInv /\ LedgerInv /\ FlightInv /\ [Next]_vars => ReuseContainedStep
<1> SUFFICES ASSUME TypeInv, LedgerInv, FlightInv, [Next]_vars, NEW f \in Codes,
                    family[f] = "active", family'[f] = "compromised"
             PROVE  /\ session' = session /\ consent' = consent
                    /\ \A x \in IssuedTokens : x[1] # f /\ Usable(x) => Usable(x)'
                    /\ \A h \in Families \ {f} : family'[h] = family[h]
  BY DEF ReuseContainedStep
<1>0. f \in Families
  BY DEF Families
<1>1. UNCHANGED family => FALSE
  OBVIOUS
<1>2. ASSUME NEW x \in Tokens, NEW k \in Keys, RefreshReuse(x, k)
      PROVE  /\ session' = session /\ consent' = consent
             /\ \A y \in IssuedTokens : y[1] # f /\ Usable(y) => Usable(y)'
             /\ \A h \in Families \ {f} : family'[h] = family[h]
  <2> DEFINE fs == ReuseScope(x[1])
  <2>1. /\ family' = [h \in Families |-> IF h \in fs THEN "compromised" ELSE family[h]]
        /\ revokedAccess' = revokedAccess \cup TokensOf(fs)
        /\ UNCHANGED <<session, issued, accessEpoch, consent, standing, epoch>>
    BY <1>2 DEF RefreshReuse, RevokeFamilies, FamilyAccess, lifecycle
  <2>2. fs \subseteq {f}
    BY <1>0, <2>1 DEF ReuseScope
  <2>3. \A y \in IssuedTokens : y[1] # f => y \notin TokensOf(fs)
    BY <2>2 DEF TokensOf
  <2>4. IssuedTokens' = IssuedTokens
    BY <2>1 DEF IssuedTokens
  <2> HIDE DEF fs
  <2> QED BY <2>1, <2>2, <2>3, <2>4 DEF Usable, SessionOf, ClientOf, ConsentOf
<1>3. ASSUME NEW t \in Transactions, FinishReuse(t) PROVE FALSE
  <2>1. open[t].op.token[1] \in IamFamilies
    BY <1>3, RotateFacts DEF FinishReuse
  <2>2. f # open[t].op.token[1]
    BY <2>1, FamilyKinds
  <2> QED BY <1>0, <1>3, <2>2 DEF FinishReuse, TypeInv, TypeOK
<1>4. ASSUME NEW s \in Sessions, Login(s) PROVE FALSE
  BY <1>0, <1>4 DEF Login, TypeInv, TypeOK
<1>5. ASSUME NEW t \in Transactions, FinishLogout(t) PROVE FALSE
  <2>1. family'[f] \in {family[f], Revoked(family[f])}
    BY <1>0, <1>5 DEF FinishLogout
  <2> QED BY <2>1 DEF Revoked
<1>6. ASSUME NEW c \in Codes, ExchangeCode(c) PROVE FALSE
  BY <1>0, <1>6 DEF ExchangeCode, TypeInv, TypeOK
<1>7. ASSUME NEW c \in Codes, RevokeRefreshFamily(c) PROVE FALSE
  BY <1>0, <1>7 DEF RevokeRefreshFamily, RevokeFamilies
<1>8. ASSUME NEW a \in Applications, SuspendApplication(a) PROVE FALSE
  <2>1. family'[f] \in {family[f], Revoked(family[f])}
    BY <1>0, <1>8 DEF SuspendApplication
  <2> QED BY <2>1 DEF Revoked
<1> QED
  BY <1>1, <1>2, <1>3, <1>4, <1>5, <1>6, <1>7, <1>8
     DEF Next, SerializableStep, ApplicationStep, BeginRotate, BeginLogout, Begin, FinishRotate,
         Rollback, MintCode, ExchangeRefresh, RevokeAccessToken, ReactivateApplication,
         EraseRecord, credentials, vars

\* Who compromises a family presents a consumed token of it that has no record for the
\* key: it was consumed under another key, or the record was erased.
LEMMA HonestStep ==
    TypeInv /\ LedgerInv /\ FlightInv /\ [Next]_vars => HonestRetryStep
<1> DEFINE Blame(f) == \E x \in TokensOf({f}), k \in Keys :
                         /\ ConsumedBefore(x, k)
                         /\ outcome[x][k] # "reuse" /\ outcome'[x][k] = "reuse"
<1> SUFFICES ASSUME TypeInv, LedgerInv, FlightInv, [Next]_vars, NEW f \in Families,
                    family[f] # "compromised", family'[f] = "compromised"
             PROVE  Blame(f)
  BY DEF HonestRetryStep, ConsumedBefore
<1>1. UNCHANGED family => FALSE
  OBVIOUS
<1>2. ASSUME NEW x \in IssuedTokens, NEW k \in Keys, x \in consumed, ~Recorded(x, k),
             Record(x, k, "reuse"), f = x[1], Intact(f)
      PROVE  Blame(f)
  BY <1>2, ReuseFacts
<1> HIDE DEF Blame
<1>3. ASSUME NEW t \in Transactions, FinishReuse(t) PROVE Blame(f)
  <2> DEFINE x == open[t].op.token
             k == open[t].op.key
  <2>1. x \in IssuedTokens /\ k \in Keys /\ x[1] \in IamFamilies
    BY <1>3, RotateFacts DEF FinishReuse
  <2>2. /\ x \in consumed /\ ~Recorded(x, k) /\ Record(x, k, "reuse")
        /\ family' = [family EXCEPT ![x[1]] = "compromised"]
    BY <1>3 DEF FinishReuse
  <2> HIDE DEF x, k
  <2>3. f = x[1]
    BY <2>2 DEF TypeInv, TypeOK
  <2>4. Intact(f)
    BY <2>1, <2>3 DEF Intact
  <2> QED BY <1>2, <2>1, <2>2, <2>3, <2>4
<1>4. ASSUME NEW x \in Tokens, NEW k \in Keys, RefreshReuse(x, k) PROVE Blame(f)
  <2>1. /\ x \in IssuedTokens /\ x \in consumed /\ ~Recorded(x, k) /\ Record(x, k, "reuse")
        /\ f = x[1] /\ family[f] = "active"
    BY <1>4 DEF RefreshReuse, RevokeFamilies, ReuseScope
  <2>2. Intact(f)
    BY <2>1 DEF Intact
  <2> QED BY <1>2, <2>1, <2>2
<1>5. ASSUME NEW s \in Sessions, Login(s) PROVE FALSE
  BY <1>5 DEF Login, TypeInv, TypeOK
<1>6. ASSUME NEW t \in Transactions, FinishLogout(t) PROVE FALSE
  <2>1. family'[f] \in {family[f], Revoked(family[f])}
    BY <1>6 DEF FinishLogout
  <2> QED BY <2>1 DEF Revoked
<1>7. ASSUME NEW c \in Codes, ExchangeCode(c) PROVE FALSE
  BY <1>7 DEF ExchangeCode, TypeInv, TypeOK
<1>8. ASSUME NEW c \in Codes, RevokeRefreshFamily(c) PROVE FALSE
  BY <1>8 DEF RevokeRefreshFamily, RevokeFamilies
<1>9. ASSUME NEW a \in Applications, SuspendApplication(a) PROVE FALSE
  <2>1. family'[f] \in {family[f], Revoked(family[f])}
    BY <1>9 DEF SuspendApplication
  <2> QED BY <2>1 DEF Revoked
<1> QED
  BY <1>1, <1>3, <1>4, <1>5, <1>6, <1>7, <1>8, <1>9
     DEF Next, SerializableStep, ApplicationStep, BeginRotate, BeginLogout, Begin, FinishRotate,
         Rollback, MintCode, ExchangeRefresh, RevokeAccessToken, ReactivateApplication,
         EraseRecord, credentials, vars

LEMMA AuthorityInvariant == Spec => []AuthorityInv
<1>1. AuthorityInv /\ [Next]_vars => AuthorityInv'
  BY AuthorityStep
<1> QED BY <1>1, AuthorityInit, PTL DEF Spec

\* Rotation keeps one presentable token per family, an ended family keeps none, and
\* none is compromised by a retry whose record lives, whatever rotations, logouts,
\* revocations and erasures overlap.
THEOREM FamilySoundHolds == Spec => FamilySound
<1>1. AuthorityInv => OneLiveRefresh /\ InactiveFamilyIsDead
  BY OneLive DEF AuthorityInv, DeadInv
<1>2. AuthorityInv /\ [Next]_vars => HonestRetryStep
  BY HonestStep DEF AuthorityInv
<1>3. Spec => [](OneLiveRefresh /\ InactiveFamilyIsDead)
  BY <1>1, AuthorityInvariant, PTL
<1>4. Spec => HonestRetrySafe
  BY <1>2, AuthorityInvariant, PTL DEF Spec, HonestRetrySafe
<1> QED BY <1>3, <1>4 DEF FamilySound

\* What an application holds ends as a whole, by nothing else, and for good.
THEOREM AuthoritySoundHolds == Spec => AuthoritySound
<1>1. AuthorityInv => InactiveFamilyIsDead
  BY DEF AuthorityInv, DeadInv
<1>2. AuthorityInv /\ [Next]_vars => ReuseContainedStep
  BY ReuseStep DEF AuthorityInv
<1>3. AuthorityInv /\ [Next]_vars => NoIssueAfterRevocationStep
  BY NoIssueStep DEF AuthorityInv
<1>4. AuthorityInv /\ [Next]_vars => NoResurrectionStep
  BY AuthorityStep
<1>5. Spec => []InactiveFamilyIsDead
  BY <1>1, AuthorityInvariant, PTL
<1>6. Spec => ReuseContained
  BY <1>2, AuthorityInvariant, PTL DEF Spec, ReuseContained
<1>7. Spec => NoIssueAfterRevocation
  BY <1>3, AuthorityInvariant, PTL DEF Spec, NoIssueAfterRevocation
<1>8. Spec => NoResurrection
  BY <1>4, AuthorityInvariant, PTL DEF Spec, NoResurrection
<1> QED BY <1>5, <1>6, <1>7, <1>8 DEF AuthoritySound

----------------------------------------------------------------------------
(* Login challenges *)

\* A row that was never inserted has nothing beside it, and rows are inserted in
\* order.
NeverInserted(c) ==
    /\ challenge[c] = Absent /\ channel[c] = "absent"
    /\ requestedBy[c] = "nobody"
    /\ batch[c] = NoMessages
    /\ delivering[c] = "idle"

\* What the two statuses of an inserted row say of its channels and its messages.
RowCoherent(c) ==
    /\ requestedBy[c] \in LoginKeys
    /\ Status(c) = "pending" => channel[c] = "open" /\ challenge[c].delivery # "failed"
    /\ Status(c) = "completed" =>
         /\ channel[c] = "consumed" /\ challenge[c].delivery = "delivered"
         /\ attempts[c].cooldown = 0
    /\ Status(c) = "cancelled" => channel[c] = "superseded"
    /\ challenge[c] = [status |-> "pending", delivery |-> "delivered"] =>
         delivering[c] = "idle"
    /\ challenge[c].delivery = "delivered" => Delivered(c)
    /\ delivering[c] = "sending" => batch[c] = NoMessages
    /\ delivering[c] = "finalizing" => Delivered(c) \/ Rejected(c)

\* An active cooldown has taken the counter's place.
CooldownDominates(c) == attempts[c].cooldown > 0 => attempts[c].failed = 0

LoginRows ==
    \A c \in Challenges :
        /\ Status(c) = "absent" => NeverInserted(c)
        /\ Status(c) # "absent" => RowCoherent(c)
        /\ CooldownDominates(c)

\* A request that may have reached somebody, or still may, holds its key.
Held(c) ==
    \/ delivering[c] # "idle"
    \/ Sent(c) /\ ~ Delivered(c) /\ ~ Rejected(c)

KeysHeld ==
    \A c \in Challenges : Held(c) =>
        /\ reservation[requestedBy[c]] = "processing"
        /\ \A d \in Challenges : d > c => requestedBy[d] # requestedBy[c]

\* Rows are inserted one after the other: a row before another was inserted with
\* it, expires no later, and has made room for it.
LoginOrder ==
    \A d, c \in Challenges : d < c /\ Status(c) # "absent" =>
        /\ Status(d) \notin {"absent", "pending"}
        /\ ttl[d] <= ttl[c]

\* A row is cancelled when its providers rejected it or a later one replaced it.
CancelledFor ==
    \A c \in Challenges : Status(c) = "cancelled" =>
        \/ Rejected(c)
        \/ \E d \in Challenges : d > c /\ Status(d) # "absent"

\* CooldownCarried for every replacement, whatever became of it.
CarriedAlong ==
    \A d, c \in Challenges :
        d < c /\ Status(c) # "absent" /\ ttl[d] > 0 /\ channel[d] = "superseded"
          /\ (\A e \in d .. c : ~ Rejected(e))
          => attempts[c].cooldown >= attempts[d].cooldown

\* The wrong codes since the last cooldown are counted on the pending challenge.
WrongCounted ==
    wrong > 0 => \E c \in Pending : ttl[c] > 0 /\ wrong <= attempts[c].failed

LoginInv ==
    /\ LoginTypeOK
    /\ LoginRows /\ KeysHeld /\ LoginOrder /\ CancelledFor
    /\ CarriedAlong /\ WrongCounted

----------------------------------------------------------------------------
LEMMA MaxOne == ASSUME NEW n \in Nat PROVE Max({n} \cup {0}) = n
<1>1. /\ n \in {n} \cup {0}
      /\ \A y \in {n} \cup {0} : n >= y
  OBVIOUS
<1>2. \A x \in {n} \cup {0} : (\A y \in {n} \cup {0} : x >= y) => x = n
  OBVIOUS
<1> QED BY <1>1, <1>2 DEF Max

LEMMA MaxNone == Max({} \cup {0}) = 0
<1>1. {} \cup {0} = {0} \cup {0}
  OBVIOUS
<1> QED BY <1>1, MaxOne

\* What one challenge leaves behind is inherited as it is.
LEMMA InheritOne ==
    ASSUME OtpAssumption, NEW a \in AttemptState, a.cooldown > 0 => a.failed = 0
    PROVE  InheritedAttemptState({a}) = a
<1>1. {x.cooldown : x \in {a}} = {a.cooldown} /\ {x.failed : x \in {a}} = {a.failed}
  OBVIOUS
<1>2. a.cooldown \in Nat /\ a.failed \in Nat
  BY DEF AttemptState, OtpAssumption
<1>3. Max({x.cooldown : x \in {a}} \cup {0}) = a.cooldown
  BY <1>1, <1>2, MaxOne
<1>4. Max({x.failed : x \in {a}} \cup {0}) = a.failed
  BY <1>1, <1>2, MaxOne
<1>5. a = [failed |-> a.failed, cooldown |-> a.cooldown]
  BY DEF AttemptState
<1> QED BY <1>2, <1>3, <1>4, <1>5 DEF InheritedAttemptState

LEMMA InheritNone == InheritedAttemptState({}) = NoAttempts
<1>1. {x.cooldown : x \in {}} = {} /\ {x.failed : x \in {}} = {}
  OBVIOUS
<1> QED BY <1>1, MaxNone DEF InheritedAttemptState, NoAttempts

LEMMA NoMessagesEmpty == DOMAIN NoMessages = {}
<1>1. NoMessages \in Seq({}) /\ Len(NoMessages) = 0
  BY EmptySeq DEF NoMessages
<1>2. DOMAIN NoMessages = 1 .. 0
  BY <1>1, LenProperties
<1> QED BY <1>2

\* Every key resolves to a contact.
LEMMA ContactsExist ==
    ASSUME LoginAssumption, NEW k \in LoginKeys
    PROVE  ContactsOf(k) # {}
BY DEF LoginAssumption, ContactsOf

\* What the providers of a batch answered, as the three outcomes.
LEMMA Classified ==
    ASSUME LoginAssumption, NEW k \in LoginKeys,
           NEW r \in [ContactsOf(k) -> ProviderResult]
    PROVE  /\ r # NoMessages
           /\ ClassifyBatch(r) = "delivered" <=> Unanimous(r, "ok")
           /\ ClassifyBatch(r) = "rejected" <=> Unanimous(r, "rejected")
           /\ ClassifyBatch(r) \in {"delivered", "rejected", "unknown"}
           /\ ~ (Unanimous(r, "ok") /\ Unanimous(r, "rejected"))
<1>1. PICK ch \in DOMAIN r : TRUE
  BY ContactsExist
<1>2. r # NoMessages
  BY <1>1, NoMessagesEmpty
<1>3. ~ ((\A x \in DOMAIN r : r[x] = "ok") /\ (\A x \in DOMAIN r : r[x] = "rejected"))
  BY <1>1
<1>4. CASE \A x \in DOMAIN r : r[x] = "ok"
  BY <1>2, <1>3, <1>4 DEF ClassifyBatch, Definitive, Unanimous
<1>5. CASE (\A x \in DOMAIN r : r[x] = "rejected") /\ ~ (\A x \in DOMAIN r : r[x] = "ok")
  BY <1>2, <1>3, <1>5 DEF ClassifyBatch, Definitive, Unanimous
<1>6. CASE ~ (\A x \in DOMAIN r : r[x] = "rejected") /\ ~ (\A x \in DOMAIN r : r[x] = "ok")
  BY <1>2, <1>3, <1>6 DEF ClassifyBatch, Definitive, Unanimous
<1> QED BY <1>4, <1>5, <1>6

\* What LoginInv says of a column, for every use below.
LEMMA LoginShape ==
    ASSUME LoginAssumption, LoginInv, NEW c \in Challenges
    PROVE  /\ challenge[c] = [status |-> Status(c), delivery |-> challenge[c].delivery]
           /\ Status(c) \in {"absent", "pending", "completed", "cancelled"}
           /\ challenge[c].delivery \in {"pending", "delivered", "failed"}
           /\ ttl[c] \in 0 .. Ttl /\ ttl[c] \in Nat /\ ttl[c] <= Ttl
           /\ attempts[c] \in AttemptState
           /\ attempts[c].failed \in Nat /\ attempts[c].cooldown \in Nat
           /\ attempts[c].failed < MaxAttempts
           /\ c \in Nat
BY DEF LoginInv, LoginTypeOK, Status, AttemptState, LoginAssumption, OtpAssumption, Challenges

\* What the insertion of a challenge leaves in the rows before and after it.
Created(c, k) ==
        /\ \A d \in Challenges : d < c => Status(d) # "absent"
        /\ \A d \in Challenges : d >= c => NeverInserted(d)
        /\ challenge' \in [Challenges -> [status : {"absent", "pending", "completed", "cancelled"},
                                          delivery : {"pending", "delivered", "failed"}]]
        /\ channel' \in [Challenges -> {"absent", "open", "consumed", "superseded"}]
        /\ challenge'[c] = [status |-> "pending", delivery |-> "pending"]
        /\ channel'[c] = "open" /\ ttl'[c] = Ttl /\ requestedBy'[c] = k
        /\ delivering'[c] = "sending" /\ batch'[c] = NoMessages
        /\ attempts'[c] = InheritedAttemptState({attempts[d] : d \in AttemptRows})
        /\ \A d \in Challenges \ {c} :
             /\ Status(d) # "pending" => challenge'[d] = challenge[d]
             /\ Status(d) = "pending" =>
                  /\ challenge'[d] = CancelledRow(challenge[d])
                  /\ challenge'[d].status = "cancelled"
                  /\ challenge'[d].delivery = "delivered" => challenge[d].delivery = "delivered"
             /\ channel'[d] = (IF Status(d) = "pending" THEN "superseded" ELSE channel[d])
             /\ ttl'[d] = ttl[d] /\ attempts'[d] = attempts[d]
             /\ requestedBy'[d] = requestedBy[d] /\ delivering'[d] = delivering[d]
             /\ batch'[d] = batch[d]

LEMMA CreateRows ==
    ASSUME LoginAssumption, LoginInv, NEW c \in Challenges, NEW k \in LoginKeys,
           CreateChallenge(c, k)
    PROVE  Created(c, k)
<1>1. /\ Status(c) = "absent" /\ \A d \in 1 .. (c - 1) : Status(d) # "absent"
  BY DEF CreateChallenge
<1>2. ASSUME NEW d \in Challenges, d < c PROVE Status(d) # "absent"
  BY <1>1, <1>2 DEF Challenges, LoginAssumption
<1>3. ASSUME NEW d \in Challenges, d >= c PROVE NeverInserted(d)
  <2>1. Status(d) = "absent"
    BY <1>1, <1>3 DEF LoginInv, LoginOrder, Challenges, LoginAssumption
  <2> QED BY <2>1 DEF LoginInv, LoginRows
<1>4. ASSUME NEW d \in Challenges, Status(d) = "pending" PROVE channel[d] = "open"
  BY <1>4 DEF LoginInv, LoginRows, RowCoherent
<1>5. challenge' = [d \in Challenges |->
         IF d = c THEN [status |-> "pending", delivery |-> "pending"]
         ELSE IF Status(d) = "pending" THEN CancelledRow(challenge[d])
         ELSE challenge[d]]
  BY <1>1 DEF CreateChallenge, Superseded, Pending
<1>6. channel' = [d \in Challenges |->
         IF d = c THEN "open"
         ELSE IF Status(d) = "pending" THEN "superseded" ELSE channel[d]]
  BY <1>1, <1>4 DEF CreateChallenge, Superseded, Pending
<1>7. ASSUME NEW d \in Challenges
      PROVE  /\ CancelledRow(challenge[d]) \in [status : {"absent", "pending", "completed", "cancelled"},
                                                delivery : {"pending", "delivered", "failed"}]
             /\ CancelledRow(challenge[d]).status = "cancelled"
             /\ CancelledRow(challenge[d]).delivery = "delivered" => challenge[d].delivery = "delivered"
  BY LoginShape DEF CancelledRow
<1>8. challenge \in [Challenges -> [status : {"absent", "pending", "completed", "cancelled"},
                                    delivery : {"pending", "delivered", "failed"}]]
      /\ channel \in [Challenges -> {"absent", "open", "consumed", "superseded"}]
  BY DEF LoginInv, LoginTypeOK
<1>9. challenge' \in [Challenges -> [status : {"absent", "pending", "completed", "cancelled"},
                                     delivery : {"pending", "delivered", "failed"}]]
  BY <1>5, <1>7, <1>8
<1>10. channel' \in [Challenges -> {"absent", "open", "consumed", "superseded"}]
  BY <1>6, <1>8
<1>11. /\ ttl' = [ttl EXCEPT ![c] = Ttl]
       /\ attempts' = [attempts EXCEPT ![c] = InheritedAttemptState({attempts[d] : d \in AttemptRows})]
       /\ requestedBy' = [requestedBy EXCEPT ![c] = k]
       /\ delivering' = [delivering EXCEPT ![c] = "sending"]
       /\ batch' = batch
  BY DEF CreateChallenge
<1>12. /\ DOMAIN ttl = Challenges /\ DOMAIN attempts = Challenges
       /\ DOMAIN requestedBy = Challenges /\ DOMAIN delivering = Challenges
  BY DEF LoginInv, LoginTypeOK
<1>13. batch'[c] = NoMessages
  BY <1>3, <1>11 DEF NeverInserted, Challenges, LoginAssumption
<1>14. ASSUME NEW d \in Challenges \ {c}
       PROVE  /\ Status(d) # "pending" => challenge'[d] = challenge[d]
              /\ Status(d) = "pending" =>
                   /\ challenge'[d] = CancelledRow(challenge[d])
                   /\ challenge'[d].status = "cancelled"
                   /\ challenge'[d].delivery = "delivered" => challenge[d].delivery = "delivered"
              /\ channel'[d] = (IF Status(d) = "pending" THEN "superseded" ELSE channel[d])
              /\ ttl'[d] = ttl[d] /\ attempts'[d] = attempts[d]
              /\ requestedBy'[d] = requestedBy[d] /\ delivering'[d] = delivering[d]
              /\ batch'[d] = batch[d]
  BY <1>5, <1>6, <1>7, <1>11, <1>12
<1>15. challenge'[c] = [status |-> "pending", delivery |-> "pending"] /\ channel'[c] = "open"
  BY <1>5, <1>6
<1>16. ttl'[c] = Ttl /\ requestedBy'[c] = k /\ delivering'[c] = "sending"
       /\ attempts'[c] = InheritedAttemptState({attempts[d] : d \in AttemptRows})
  BY <1>11, <1>12
<1> QED BY <1>2, <1>3, <1>9, <1>10, <1>13, <1>14, <1>15, <1>16 DEF Created

\* A replacement inherits the state of the challenge it replaces, if that still
\* lives.
LEMMA CreateInherits ==
    ASSUME LoginAssumption, LoginInv, NEW c \in Challenges, NEW k \in LoginKeys,
           CreateChallenge(c, k)
    PROVE  /\ attempts'[c] \in AttemptState
           /\ attempts'[c].cooldown > 0 => attempts'[c].failed = 0
           /\ \A d \in Challenges : Status(d) = "pending" /\ ttl[d] > 0 => attempts'[c] = attempts[d]
<1>1. attempts'[c] = InheritedAttemptState({attempts[d] : d \in AttemptRows})
  BY CreateRows DEF Created
<1>2. ASSUME NEW d \in Challenges, NEW e \in Challenges, Status(d) = "pending", Status(e) = "pending"
      PROVE  d = e
  <2>1. d < e \/ e < d \/ d = e
    BY DEF Challenges, LoginAssumption
  <2> QED BY <1>2, <2>1 DEF LoginInv, LoginOrder
<1>3. ASSUME NEW d \in Challenges, Status(d) = "pending", ttl[d] > 0
      PROVE  attempts'[c] = attempts[d] /\ (attempts[d].cooldown > 0 => attempts[d].failed = 0)
  <2>1. channel[d] = "open"
    BY <1>3 DEF LoginInv, LoginRows, RowCoherent
  <2>2. AttemptRows = {d}
    BY <1>2, <1>3, <2>1 DEF AttemptRows, Superseded, Pending
  <2>3. {attempts[e] : e \in AttemptRows} = {attempts[d]}
    BY <2>2
  <2>4. attempts[d].cooldown > 0 => attempts[d].failed = 0
    BY DEF LoginInv, LoginRows, CooldownDominates
  <2>5. attempts[d] \in AttemptState /\ OtpAssumption
    BY LoginShape DEF LoginAssumption
  <2>6. InheritedAttemptState({attempts[d]}) = attempts[d]
    BY <2>4, <2>5, InheritOne
  <2> QED BY <1>1, <2>3, <2>4, <2>6
<1>4. CASE \E d \in Challenges : Status(d) = "pending" /\ ttl[d] > 0
  BY <1>3, <1>4, LoginShape
<1>5. CASE ~ \E d \in Challenges : Status(d) = "pending" /\ ttl[d] > 0
  <2>1. AttemptRows = {}
    BY <1>5 DEF AttemptRows, Superseded, Pending
  <2>2. {attempts[e] : e \in AttemptRows} = {}
    BY <2>1
  <2>3. attempts'[c] = NoAttempts
    BY <1>1, <2>2, InheritNone
  <2>4. NoAttempts \in AttemptState /\ NoAttempts.cooldown = 0
    BY DEF NoAttempts, AttemptState, LoginAssumption, OtpAssumption
  <2> QED BY <1>5, <2>3, <2>4
<1> QED BY <1>4, <1>5

LEMMA OutcomeStays ==
    ASSUME NEW c, batch'[c] = batch[c]
    PROVE  (Sent(c)' <=> Sent(c)) /\ (Delivered(c)' <=> Delivered(c)) /\ (Rejected(c)' <=> Rejected(c))
BY DEF Sent, Delivered, Rejected

THEOREM CreateKeepsLogin ==
    ASSUME LoginAssumption, LoginInv, NEW c \in Challenges, NEW k \in LoginKeys,
           CreateChallenge(c, k)
    PROVE  LoginInv'
<1>0. Created(c, k)
  BY CreateRows
<1>n. \A x \in Challenges :
        x \in Nat /\ ttl[x] \in Nat /\ ttl[x] <= Ttl /\ attempts[x].cooldown \in Nat
  <2> TAKE x \in Challenges
  <2> QED BY LoginShape
<1>1. LoginTypeOK'
  <2>1. /\ ttl' \in [Challenges -> 0 .. Ttl]
        /\ requestedBy' \in [Challenges -> LoginKeys \cup {"nobody"}]
        /\ delivering' \in [Challenges -> {"idle", "sending", "finalizing"}]
        /\ reservation' \in [LoginKeys -> {"none", "processing", "completed"}]
    BY DEF CreateChallenge, LoginInv, LoginTypeOK, LoginAssumption, OtpAssumption
  <2>2. attempts' \in [Challenges -> AttemptState]
    <3>1. attempts' = [attempts EXCEPT ![c] = attempts'[c]] /\ attempts \in [Challenges -> AttemptState]
      BY DEF CreateChallenge, LoginInv, LoginTypeOK
    <3> QED BY <3>1, CreateInherits
  <2>3. batch' = batch /\ answered' = answered /\ wrong' = wrong
    BY DEF CreateChallenge
  <2>4. ASSUME NEW d \in Challenges
        PROVE  batch'[d] = NoMessages \/ batch'[d] \in [ContactsOf(requestedBy'[d]) -> ProviderResult]
    <3>1. CASE d = c BY <3>1, <1>0 DEF Created
    <3>2. CASE d # c BY <3>2, <1>0 DEF Created, LoginInv, LoginTypeOK
    <3> QED BY <3>1, <3>2
  <2>5. batch' = [d \in Challenges |-> batch'[d]]
    BY <2>3 DEF LoginInv, LoginTypeOK
  <2> QED BY <2>1, <2>2, <2>3, <2>4, <2>5, <1>0 DEF Created, LoginInv, LoginTypeOK
<1>2. LoginRows'
  <2> SUFFICES ASSUME NEW d \in Challenges
               PROVE  /\ Status(d)' = "absent" => NeverInserted(d)'
                      /\ Status(d)' # "absent" => RowCoherent(d)'
                      /\ CooldownDominates(d)'
    BY DEF LoginRows
  <2>1. CASE d = c
    <3>1. Status(d)' = "pending" /\ RowCoherent(d)'
      BY <2>1, <1>0 DEF Created, Status, RowCoherent
    <3> QED BY <2>1, <3>1, CreateInherits DEF CooldownDominates
  <2>2. CASE d # c
    <3> DEFINE same == /\ ttl'[d] = ttl[d] /\ attempts'[d] = attempts[d]
                       /\ requestedBy'[d] = requestedBy[d] /\ delivering'[d] = delivering[d]
                       /\ batch'[d] = batch[d]
    <3>1. same
      BY <2>2, <1>0 DEF Created
    <3>2. CooldownDominates(d)'
      BY <3>1 DEF CooldownDominates, LoginInv, LoginRows
    <3>3. CASE Status(d) = "pending"
      <4>1. /\ challenge'[d].status = "cancelled" /\ channel'[d] = "superseded"
            /\ challenge'[d].delivery = "delivered" => challenge[d].delivery = "delivered"
        BY <2>2, <3>3, <1>0 DEF Created
      <4>2. RowCoherent(d)
        BY <3>3 DEF LoginInv, LoginRows
      <4>3. challenge'[d] # [status |-> "pending", delivery |-> "delivered"]
        BY <4>1
      <4> QED BY <3>1, <3>2, <4>1, <4>2, <4>3, OutcomeStays DEF RowCoherent, Status
    <3>4. CASE Status(d) # "pending"
      <4>1. challenge'[d] = challenge[d] /\ channel'[d] = channel[d]
        BY <2>2, <3>4, <1>0 DEF Created
      <4> QED BY <3>1, <3>2, <4>1, OutcomeStays DEF LoginInv, LoginRows, RowCoherent, NeverInserted, Status
    <3> QED BY <3>3, <3>4
  <2> QED BY <2>1, <2>2
<1>3. KeysHeld'
  <2>1. reservation[k] = "none" /\ reservation' = [reservation EXCEPT ![k] = "processing"]
        /\ reservation \in [LoginKeys -> {"none", "processing", "completed"}]
    BY DEF CreateChallenge, LoginInv, LoginTypeOK
  <2> SUFFICES ASSUME NEW d \in Challenges, Held(d)'
               PROVE  /\ reservation'[requestedBy'[d]] = "processing"
                      /\ \A e \in Challenges : e > d => requestedBy'[e] # requestedBy'[d]
    BY DEF KeysHeld
  <2>2. CASE d = c
    <3>1. ASSUME NEW e \in Challenges, e > d PROVE requestedBy'[e] = "nobody"
      <4>1. NeverInserted(e) /\ e # c
        BY <2>2, <3>1, <1>0, <1>n DEF Created
      <4> QED BY <4>1, <1>0 DEF Created, NeverInserted
    <3> QED BY <2>1, <2>2, <3>1, <1>0 DEF Created, LoginAssumption
  <2>3. CASE d # c
    <3>1. Held(d)
      <4>1. delivering'[d] = delivering[d] /\ batch'[d] = batch[d]
        BY <2>3, <1>0 DEF Created
      <4> QED BY <4>1, OutcomeStays DEF Held
    <3>2. reservation[requestedBy[d]] = "processing" /\ requestedBy[d] # k
          /\ \A e \in Challenges : e > d => requestedBy[e] # requestedBy[d]
      BY <2>1, <3>1 DEF LoginInv, KeysHeld
    <3>3. requestedBy'[d] = requestedBy[d] /\ requestedBy'[c] = k
      BY <2>3, <1>0 DEF Created
    <3>4. reservation'[requestedBy'[d]] = "processing"
      BY <2>1, <3>2, <3>3
    <3> QED BY <3>2, <3>3, <3>4, <1>0 DEF Created
  <2> QED BY <2>2, <2>3
<1>4. LoginOrder'
  <2> SUFFICES ASSUME NEW d \in Challenges, NEW e \in Challenges, d < e, Status(e)' # "absent"
               PROVE  Status(d)' \notin {"absent", "pending"} /\ ttl'[d] <= ttl'[e]
    BY DEF LoginOrder
  <2>1. e <= c
    <3>1. ASSUME e > c PROVE FALSE
      <4>1. NeverInserted(e) /\ Status(e) # "pending" /\ e # c
        BY <3>1, <1>0 DEF Created, NeverInserted, Absent, Status, Challenges, LoginAssumption
      <4>2. challenge'[e] = challenge[e]
        BY <4>1, <1>0 DEF Created
      <4> QED BY <4>1, <4>2 DEF NeverInserted, Absent, Status
    <3> QED BY <3>1 DEF Challenges, LoginAssumption
  <2>2. d < c /\ d # c
    BY <2>1 DEF Challenges, LoginAssumption
  <2>3. Status(d) # "absent"
    BY <2>2, <1>0 DEF Created
  <2>4. Status(d)' \notin {"absent", "pending"}
    BY <2>2, <2>3, <1>0 DEF Created, Status
  <2>5. CASE e = c
    BY <2>2, <2>4, <2>5, <1>0, <1>n DEF Created
  <2>6. CASE e # c
    <3>1. Status(e) # "absent"
      BY <2>1, <2>6, <1>0 DEF Created, Challenges, LoginAssumption
    <3> QED BY <2>2, <2>4, <2>6, <3>1, <1>0 DEF Created, LoginInv, LoginOrder
  <2> QED BY <2>5, <2>6
<1>5. CancelledFor'
  <2> SUFFICES ASSUME NEW d \in Challenges, Status(d)' = "cancelled"
               PROVE  Rejected(d)' \/ \E e \in Challenges : e > d /\ Status(e)' # "absent"
    BY DEF CancelledFor
  <2>1. d # c
    BY <1>0 DEF Created, Status
  <2>2. d < c
    <3>1. ASSUME d > c PROVE FALSE
      <4>1. NeverInserted(d)
        BY <3>1, <1>0 DEF Created, Challenges, LoginAssumption
      <4>2. challenge'[d] = challenge[d]
        BY <2>1, <4>1, <1>0 DEF Created, NeverInserted, Absent, Status
      <4> QED BY <4>1, <4>2 DEF NeverInserted, Absent, Status
    <3> QED BY <2>1, <3>1 DEF Challenges, LoginAssumption
  <2>3. Status(c)' # "absent" /\ c > d
    BY <2>2, <1>0 DEF Created, Status, Challenges, LoginAssumption
  <2> QED BY <2>3
<1>6. CarriedAlong'
  <2> SUFFICES ASSUME NEW d \in Challenges, NEW e \in Challenges, d < e, Status(e)' # "absent",
                      ttl'[d] > 0, channel'[d] = "superseded",
                      \A f \in d .. e : ~ Rejected(f)'
               PROVE  attempts'[e].cooldown >= attempts'[d].cooldown
    BY DEF CarriedAlong
  <2>1. e <= c
    <3>1. ASSUME e > c PROVE FALSE
      <4>1. NeverInserted(e) /\ e # c
        BY <3>1, <1>0 DEF Created, Challenges, LoginAssumption
      <4>2. challenge'[e] = challenge[e]
        BY <4>1, <1>0 DEF Created, NeverInserted, Absent, Status
      <4> QED BY <4>1, <4>2 DEF NeverInserted, Absent, Status
    <3> QED BY <3>1 DEF Challenges, LoginAssumption
  <2>2. d < c /\ d # c /\ ttl[d] > 0 /\ attempts'[d] = attempts[d]
    BY <2>1, <1>0 DEF Created, Challenges, LoginAssumption
  <2>3. ASSUME NEW f \in Challenges, f >= d, f < c, f <= e PROVE ~ Rejected(f) /\ Status(f) # "absent"
    <3>1. f # c /\ f \in d .. e
      BY <2>3 DEF Challenges, LoginAssumption
    <3>2. batch'[f] = batch[f] /\ ~ Rejected(f)'
      BY <3>1, <1>0 DEF Created
    <3> QED BY <2>3, <3>2, OutcomeStays, <1>0 DEF Created
  <2>4. ASSUME NEW x \in Challenges, d < x, x < c, x <= e, channel[d] = "superseded"
        PROVE  attempts[x].cooldown >= attempts[d].cooldown
    <3>1. \A f \in d .. x : f \in Challenges /\ f >= d /\ f < c /\ f <= e
      BY <2>4 DEF Challenges, LoginAssumption
    <3>2. \A f \in d .. x : ~ Rejected(f)
      BY <2>3, <3>1
    <3>3. Status(x) # "absent"
      BY <2>3, <2>4 DEF Challenges, LoginAssumption
    <3> QED BY <2>2, <2>4, <3>2, <3>3 DEF LoginInv, CarriedAlong
  <2>5. CASE e # c
    <3>1. e < c /\ attempts'[e] = attempts[e]
      BY <2>1, <2>5, <1>0 DEF Created, Challenges, LoginAssumption
    <3>2. Status(d) # "pending"
      BY <2>3, <3>1 DEF LoginInv, LoginOrder, Challenges, LoginAssumption
    <3>3. channel[d] = "superseded"
      BY <2>2, <3>2, <1>0 DEF Created
    <3> QED BY <2>2, <2>4, <3>1, <3>3 DEF Challenges, LoginAssumption
  <2>6. CASE e = c
    <3> DEFINE p == c - 1
    <3>1. p \in Challenges /\ d <= p /\ p < c /\ p <= e
      BY <2>2, <2>6 DEF Challenges, LoginAssumption
    <3> HIDE DEF p
    <3>2. ~ Rejected(p) /\ Status(p) # "absent"
      BY <2>3, <3>1 DEF Challenges, LoginAssumption
    <3>3. ttl[p] > 0
      <4>1. CASE p = d BY <2>2, <4>1
      <4>2. CASE p # d
        <5>1. d < p
          BY <3>1, <4>2 DEF Challenges, LoginAssumption
        <5>2. ttl[d] <= ttl[p]
          BY <3>1, <3>2, <5>1 DEF LoginInv, LoginOrder
        <5> QED BY <2>2, <3>1, <5>2, <1>n
      <4> QED BY <4>1, <4>2
    <3>4. Status(p) # "cancelled"
      <4>1. ASSUME NEW x \in Challenges, x > p PROVE Status(x) = "absent"
        <5>1. x >= c
          BY <4>1 DEF p, Challenges, LoginAssumption
        <5> QED BY <5>1, <1>0 DEF Created, NeverInserted, Absent, Status
      <4> QED BY <3>1, <3>2, <4>1 DEF LoginInv, CancelledFor
    <3>5. p # d => channel[d] = "superseded"
      <4>1. ASSUME p # d PROVE Status(d) # "pending"
        BY <3>1, <3>2, <4>1 DEF LoginInv, LoginOrder, Challenges, LoginAssumption
      <4> QED BY <2>2, <4>1, <1>0 DEF Created
    <3>6. attempts[p].cooldown >= attempts[d].cooldown
      <4>1. CASE p = d BY <3>1, <4>1, <1>n
      <4>2. CASE p # d
        BY <2>4, <3>1, <3>5, <4>2 DEF Challenges, LoginAssumption
      <4> QED BY <4>1, <4>2
    <3>7. CASE Status(p) = "pending"
      <4>1. attempts'[c] = attempts[p]
        BY <3>1, <3>3, <3>7, CreateInherits
      <4> QED BY <2>2, <2>6, <3>6, <4>1
    <3>8. CASE Status(p) = "completed"
      <4>1. channel[p] = "consumed" /\ attempts[p].cooldown = 0
        BY <3>1, <3>8 DEF LoginInv, LoginRows, RowCoherent
      <4>2. attempts[d].cooldown = 0
        BY <3>1, <3>6, <4>1, <1>n
      <4>3. attempts'[c].cooldown >= 0
        BY CreateInherits DEF AttemptState
      <4> QED BY <2>2, <2>6, <4>2, <4>3
    <3> QED BY <3>1, <3>2, <3>4, <3>7, <3>8, LoginShape
  <2> QED BY <2>5, <2>6
<1>7. WrongCounted'
  <2>1. wrong' = wrong
    BY DEF CreateChallenge
  <2> SUFFICES ASSUME wrong > 0
               PROVE  \E e \in Pending' : ttl'[e] > 0 /\ wrong <= attempts'[e].failed
    BY <2>1 DEF WrongCounted
  <2>2. PICK e \in Pending : ttl[e] > 0 /\ wrong <= attempts[e].failed
    BY DEF LoginInv, WrongCounted
  <2>3. attempts'[c] = attempts[e]
    BY <2>2, CreateInherits DEF Pending
  <2>4. c \in Pending' /\ ttl'[c] > 0
    BY <1>0 DEF Created, Pending, Status, LoginAssumption, OtpAssumption
  <2> QED BY <2>2, <2>3, <2>4
<1> QED BY <1>1, <1>2, <1>3, <1>4, <1>5, <1>6, <1>7 DEF LoginInv


\* The two steps that only write what the providers did, and leave the request
\* with less to do.
LEMMA AnswersKeepLogin ==
    ASSUME LoginAssumption, LoginInv, NEW c \in Challenges, NEW b, NEW t \in {"idle", "finalizing"},
           delivering[c] # "idle",
           b \in [ContactsOf(requestedBy[c]) -> ProviderResult],
           b = batch[c] \/ batch[c] = NoMessages,
           t = "finalizing" => Unanimous(b, "ok") \/ Unanimous(b, "rejected"),
           batch' = [batch EXCEPT ![c] = b],
           delivering' = [delivering EXCEPT ![c] = t],
           UNCHANGED <<challenge, channel, ttl, attempts, requestedBy, reservation, answered, wrong>>
    PROVE  LoginInv'
<1>0. LoginTypeOK
  BY DEF LoginInv
<1>1. batch'[c] = b /\ delivering'[c] = t
      /\ \A d \in Challenges \ {c} : batch'[d] = batch[d] /\ delivering'[d] = delivering[d]
  BY <1>0 DEF LoginTypeOK
<1>2. /\ challenge' = challenge /\ channel' = channel /\ ttl' = ttl /\ attempts' = attempts
      /\ requestedBy' = requestedBy /\ reservation' = reservation /\ wrong' = wrong
      /\ answered' = answered
  OBVIOUS
<1>3. Status(c) # "absent" /\ RowCoherent(c)
  BY DEF LoginInv, LoginRows, NeverInserted
<1>4. \A d \in Challenges : Rejected(d) => Rejected(d)'
  <2> TAKE d \in Challenges
  <2>1. CASE d = c
    BY <1>1, <2>1 DEF Rejected, Unanimous
  <2>2. CASE d # c
    BY <1>1, <2>2, OutcomeStays
  <2> QED BY <2>1, <2>2
<1>5. LoginTypeOK'
  <2>1. delivering' \in [Challenges -> {"idle", "sending", "finalizing"}]
    BY <1>0 DEF LoginTypeOK
  <2>2. batch' = [d \in Challenges |-> batch'[d]]
    BY <1>0 DEF LoginTypeOK
  <2>3. ASSUME NEW d \in Challenges
        PROVE  batch'[d] = NoMessages \/ batch'[d] \in [ContactsOf(requestedBy[d]) -> ProviderResult]
    <3>1. CASE d = c
      BY <1>1, <3>1
    <3>2. CASE d # c
      BY <1>0, <1>1, <3>2 DEF LoginTypeOK
    <3> QED BY <3>1, <3>2
  <2> QED BY <1>0, <1>2, <2>1, <2>2, <2>3 DEF LoginTypeOK
<1>6. LoginRows'
  <2> SUFFICES ASSUME NEW d \in Challenges
               PROVE  /\ Status(d)' = "absent" => NeverInserted(d)'
                      /\ Status(d)' # "absent" => RowCoherent(d)'
                      /\ CooldownDominates(d)'
    BY DEF LoginRows
  <2>1. CASE d = c
    <3>1. challenge[c] # [status |-> "pending", delivery |-> "delivered"]
      BY <1>3 DEF RowCoherent
    <3>2. challenge[c].delivery = "delivered" => b = batch[c]
      BY <1>3 DEF RowCoherent, Delivered, Unanimous
    <3>3. challenge[c].delivery = "delivered" => Delivered(c)'
      BY <1>1, <1>3, <3>2 DEF RowCoherent, Delivered
    <3>4. t = "finalizing" => Delivered(c)' \/ Rejected(c)'
      BY <1>1 DEF Delivered, Rejected
    <3>5. RowCoherent(c)'
      BY <1>1, <1>2, <1>3, <3>1, <3>3, <3>4 DEF RowCoherent, Status
    <3> QED BY <1>2, <1>3, <2>1, <3>5 DEF Status, CooldownDominates, LoginInv, LoginRows
  <2>2. CASE d # c
    <3>1. batch'[d] = batch[d] /\ delivering'[d] = delivering[d]
      BY <1>1, <2>2
    <3> QED BY <1>2, <3>1, OutcomeStays
          DEF LoginInv, LoginRows, NeverInserted, RowCoherent, CooldownDominates, Status
  <2> QED BY <2>1, <2>2
<1>7. KeysHeld'
  <2>1. ASSUME NEW d \in Challenges, Held(d)' PROVE Held(d)
    <3>1. CASE d = c
      BY <3>1 DEF Held
    <3>2. CASE d # c
      <4>1. batch'[d] = batch[d] /\ delivering'[d] = delivering[d]
        BY <1>1, <3>2
      <4> QED BY <2>1, <4>1, OutcomeStays DEF Held
    <3> QED BY <3>1, <3>2
  <2> QED BY <1>2, <2>1 DEF LoginInv, KeysHeld
<1>8. LoginOrder'
  BY <1>2 DEF LoginInv, LoginOrder, Status
<1>9. CancelledFor'
  BY <1>2, <1>4 DEF LoginInv, CancelledFor, Status
<1>10. CarriedAlong'
  <2> SUFFICES ASSUME NEW d \in Challenges, NEW e \in Challenges, d < e, Status(e)' # "absent",
                      ttl'[d] > 0, channel'[d] = "superseded",
                      \A f \in d .. e : ~ Rejected(f)'
               PROVE  attempts'[e].cooldown >= attempts'[d].cooldown
    BY DEF CarriedAlong
  <2>1. \A f \in d .. e : f \in Challenges
    BY DEF Challenges, LoginAssumption
  <2>2. \A f \in d .. e : ~ Rejected(f)
    BY <1>4, <2>1
  <2> QED BY <1>2, <2>2 DEF LoginInv, CarriedAlong, Status
<1>11. WrongCounted'
  BY <1>2 DEF LoginInv, WrongCounted, Pending, Status
<1> QED BY <1>5, <1>6, <1>7, <1>8, <1>9, <1>10, <1>11 DEF LoginInv

LEMMA SendKeepsLogin ==
    ASSUME LoginAssumption, LoginInv, NEW c \in Challenges, SendAllRequired(c)
    PROVE  LoginInv'
<1>1. PICK r \in [ContactsOf(requestedBy[c]) -> ProviderResult] :
         /\ batch' = [batch EXCEPT ![c] = r]
         /\ delivering' = [delivering EXCEPT ![c] =
              IF ClassifyBatch(r) = "unknown" THEN "idle" ELSE "finalizing"]
  BY DEF SendAllRequired
<1>2. delivering[c] = "sending"
      /\ UNCHANGED <<challenge, channel, ttl, attempts, requestedBy, reservation, answered, wrong>>
  BY DEF SendAllRequired
<1>3. LoginTypeOK
  BY DEF LoginInv
<1>4. Status(c) # "absent" /\ requestedBy[c] \in LoginKeys /\ batch[c] = NoMessages
  BY <1>2 DEF LoginInv, LoginRows, NeverInserted, RowCoherent
<1>5. /\ r # NoMessages
      /\ ClassifyBatch(r) = "delivered" <=> Unanimous(r, "ok")
      /\ ClassifyBatch(r) = "rejected" <=> Unanimous(r, "rejected")
      /\ ClassifyBatch(r) \in {"delivered", "rejected", "unknown"}
      /\ ~ (Unanimous(r, "ok") /\ Unanimous(r, "rejected"))
  BY <1>4, Classified
<1>6. CASE ClassifyBatch(r) = "unknown"
  BY <1>1, <1>2, <1>4, <1>6, AnswersKeepLogin
<1>7. CASE ClassifyBatch(r) # "unknown"
  <2>1. Unanimous(r, "ok") \/ Unanimous(r, "rejected")
    BY <1>5, <1>7
  <2> QED BY <1>1, <1>2, <1>4, <1>7, <2>1, AnswersKeepLogin
<1> QED BY <1>6, <1>7

LEMMA AbandonKeepsLogin ==
    ASSUME LoginAssumption, LoginInv, NEW c \in Challenges, Abandon(c)
    PROVE  LoginInv'
<1> DEFINE b == IF delivering[c] = "sending"
                THEN [ch \in ContactsOf(requestedBy[c]) |-> "unavailable"] ELSE batch[c]
<1>1. delivering[c] # "idle" /\ delivering' = [delivering EXCEPT ![c] = "idle"]
      /\ batch' = [batch EXCEPT ![c] = b]
      /\ UNCHANGED <<challenge, channel, ttl, attempts, requestedBy, reservation, answered, wrong>>
  BY DEF Abandon
<1>2. b \in [ContactsOf(requestedBy[c]) -> ProviderResult] /\ (b = batch[c] \/ batch[c] = NoMessages)
  <2>1. RowCoherent(c) /\ delivering[c] \in {"idle", "sending", "finalizing"}
    BY <1>1 DEF LoginInv, LoginTypeOK, LoginRows, NeverInserted
  <2>2. CASE delivering[c] = "sending"
    BY <2>1, <2>2 DEF RowCoherent, ProviderResult
  <2>3. CASE delivering[c] = "finalizing"
    <3>1. batch[c] # NoMessages
      BY <2>1, <2>3 DEF RowCoherent, Delivered, Rejected, Unanimous
    <3> QED BY <2>3, <3>1 DEF LoginInv, LoginTypeOK
  <2> QED BY <1>1, <2>1, <2>2, <2>3
<1> HIDE DEF b
<1> QED BY <1>1, <1>2, AnswersKeepLogin

RowStatuses == [status : {"absent", "pending", "completed", "cancelled"},
                delivery : {"pending", "delivered", "failed"}]

\* A step that resolves one challenge: its delivery is settled or it is completed,
\* and the key of its request may be answered or released.
LEMMA ResolveKeepsLogin ==
    ASSUME LoginAssumption, LoginInv, NEW c \in Challenges, NEW h \in RowStatuses,
           NEW g \in {"open", "consumed", "superseded"},
           Status(c) # "absent",
           challenge' = [challenge EXCEPT ![c] = h],
           channel' = [channel EXCEPT ![c] = g],
           delivering' = [delivering EXCEPT ![c] = "idle"],
           UNCHANGED <<ttl, attempts, requestedBy, batch>>,
           reservation' \in [LoginKeys -> {"none", "processing", "completed"}],
           \A k \in LoginKeys \ {requestedBy[c]} : reservation'[k] = reservation[k],
           \/ reservation' = reservation
           \/ delivering[c] # "idle" /\ (Delivered(c) \/ Rejected(c)),
           answered' \in [Challenges -> [VerifyKeys -> {"none", "success", "invalid"}]],
           h.status # "absent",
           h.status = "pending" => Status(c) = "pending" /\ g = "open" /\ h.delivery # "failed",
           h.status = "completed" =>
               g = "consumed" /\ h.delivery = "delivered" /\ attempts[c].cooldown = 0,
           h.status = "cancelled" => g = "superseded" /\ (Status(c) = "cancelled" \/ Rejected(c)),
           h.delivery = "delivered" => Delivered(c),
           g = "superseded" => channel[c] = "superseded" \/ Rejected(c),
           wrong' = 0 \/ (wrong' = wrong /\ (Status(c) = "pending" => h.status = "pending"))
    PROVE  LoginInv'
<1>0. LoginTypeOK
  BY DEF LoginInv
<1>1. /\ challenge'[c] = h /\ channel'[c] = g /\ delivering'[c] = "idle"
      /\ \A d \in Challenges \ {c} :
           challenge'[d] = challenge[d] /\ channel'[d] = channel[d] /\ delivering'[d] = delivering[d]
  BY <1>0 DEF LoginTypeOK
<1>2. ttl' = ttl /\ attempts' = attempts /\ requestedBy' = requestedBy /\ batch' = batch
  OBVIOUS
<1>3. RowCoherent(c)
  BY DEF LoginInv, LoginRows
<1>4. \A d \in Challenges :
        (Sent(d)' <=> Sent(d)) /\ (Delivered(d)' <=> Delivered(d)) /\ (Rejected(d)' <=> Rejected(d))
  BY <1>2, OutcomeStays
<1>5. LoginTypeOK'
  <2>1. challenge' \in [Challenges -> RowStatuses]
    BY <1>0 DEF LoginTypeOK, RowStatuses
  <2>2. channel' \in [Challenges -> {"absent", "open", "consumed", "superseded"}]
    BY <1>0 DEF LoginTypeOK
  <2>3. delivering' \in [Challenges -> {"idle", "sending", "finalizing"}]
    BY <1>0 DEF LoginTypeOK
  <2>4. wrong' \in 0 .. MaxAttempts
    BY <1>0 DEF LoginTypeOK, LoginAssumption, OtpAssumption
  <2> QED BY <1>0, <1>2, <2>1, <2>2, <2>3, <2>4 DEF LoginTypeOK, RowStatuses
<1>6. LoginRows'
  <2> SUFFICES ASSUME NEW d \in Challenges
               PROVE  /\ Status(d)' = "absent" => NeverInserted(d)'
                      /\ Status(d)' # "absent" => RowCoherent(d)'
                      /\ CooldownDominates(d)'
    BY DEF LoginRows
  <2>1. CooldownDominates(d)'
    BY <1>2 DEF LoginInv, LoginRows, CooldownDominates
  <2>2. CASE d = c
    <3>1. RowCoherent(c)'
      BY <1>1, <1>2, <1>3, <1>4 DEF RowCoherent, Status
    <3> QED BY <1>1, <2>1, <2>2, <3>1 DEF Status
  <2>3. CASE d # c
    BY <1>1, <1>2, <1>4, <2>1, <2>3 DEF LoginInv, LoginRows, NeverInserted, RowCoherent, Status
  <2> QED BY <2>2, <2>3
<1>7. KeysHeld'
  <2> SUFFICES ASSUME NEW d \in Challenges, Held(d)'
               PROVE  /\ reservation'[requestedBy[d]] = "processing"
                      /\ \A e \in Challenges : e > d => requestedBy[e] # requestedBy[d]
    BY <1>2 DEF KeysHeld
  <2>1. Held(d)
    <3>1. CASE d = c
      BY <1>1, <1>4, <3>1 DEF Held
    <3>2. CASE d # c
      BY <1>1, <1>4, <3>2 DEF Held
    <3> QED BY <3>1, <3>2
  <2>2. /\ reservation[requestedBy[d]] = "processing"
        /\ \A e \in Challenges : e > d => requestedBy[e] # requestedBy[d]
    BY <2>1 DEF LoginInv, KeysHeld
  <2>3. requestedBy[d] \in LoginKeys
    BY <2>1 DEF Held, LoginInv, LoginRows, RowCoherent, NeverInserted, Sent
  <2>4. CASE reservation' = reservation
    BY <2>2, <2>4
  <2>5. CASE delivering[c] # "idle" /\ (Delivered(c) \/ Rejected(c))
    <3>1. d # c
      BY <1>1, <1>4, <2>5 DEF Held
    <3>2. Held(c)
      BY <2>5 DEF Held
    <3>3. \A e \in Challenges : e > c => requestedBy[e] # requestedBy[c]
      BY <3>2 DEF LoginInv, KeysHeld
    <3>4. d < c \/ d > c
      BY <3>1 DEF Challenges, LoginAssumption
    <3>5. requestedBy[d] # requestedBy[c]
      BY <2>2, <3>3, <3>4 DEF Challenges, LoginAssumption
    <3> QED BY <2>2, <2>3, <3>5
  <2> QED BY <2>4, <2>5
<1>8. LoginOrder'
  <2> SUFFICES ASSUME NEW d \in Challenges, NEW e \in Challenges, d < e, Status(e)' # "absent"
               PROVE  Status(d)' \notin {"absent", "pending"} /\ ttl[d] <= ttl[e]
    BY <1>2 DEF LoginOrder
  <2>1. Status(e) # "absent"
    BY <1>1 DEF Status
  <2>2. Status(d) \notin {"absent", "pending"} /\ ttl[d] <= ttl[e]
    BY <2>1 DEF LoginInv, LoginOrder
  <2> QED BY <1>1, <2>2 DEF Status
<1>9. CancelledFor'
  <2> SUFFICES ASSUME NEW d \in Challenges, Status(d)' = "cancelled"
               PROVE  Rejected(d) \/ \E e \in Challenges : e > d /\ Status(e)' # "absent"
    BY <1>4 DEF CancelledFor
  <2>1. Status(d) = "cancelled" \/ Rejected(d)
    BY <1>1 DEF Status
  <2>2. ASSUME NEW e \in Challenges, Status(e) # "absent" PROVE Status(e)' # "absent"
    BY <1>1, <2>2 DEF Status
  <2> QED BY <2>1, <2>2 DEF LoginInv, CancelledFor
<1>10. CarriedAlong'
  <2> SUFFICES ASSUME NEW d \in Challenges, NEW e \in Challenges, d < e, Status(e)' # "absent",
                      ttl[d] > 0, channel'[d] = "superseded",
                      \A f \in d .. e : ~ Rejected(f)'
               PROVE  attempts[e].cooldown >= attempts[d].cooldown
    BY <1>2 DEF CarriedAlong
  <2>1. \A f \in d .. e : f \in Challenges
    BY DEF Challenges, LoginAssumption
  <2>2. \A f \in d .. e : ~ Rejected(f)
    BY <1>4, <2>1
  <2>3. d \in d .. e
    BY DEF Challenges, LoginAssumption
  <2>4. channel[d] = "superseded"
    BY <1>1, <2>2, <2>3
  <2>5. Status(e) # "absent"
    BY <1>1 DEF Status
  <2> QED BY <2>2, <2>4, <2>5 DEF LoginInv, CarriedAlong
<1>11. WrongCounted'
  <2> SUFFICES ASSUME wrong' > 0
               PROVE  \E e \in Pending' : ttl[e] > 0 /\ wrong' <= attempts[e].failed
    BY <1>2 DEF WrongCounted
  <2>1. wrong' = wrong /\ (Status(c) = "pending" => h.status = "pending")
    BY <1>0 DEF LoginTypeOK
  <2>2. PICK e \in Pending : ttl[e] > 0 /\ wrong <= attempts[e].failed
    BY <2>1 DEF LoginInv, WrongCounted
  <2>3. e \in Pending'
    BY <1>1, <2>1, <2>2 DEF Pending, Status
  <2> QED BY <2>1, <2>2, <2>3
<1> QED BY <1>5, <1>6, <1>7, <1>8, <1>9, <1>10, <1>11 DEF LoginInv

LEMMA FinalizingRow ==
    ASSUME LoginAssumption, LoginInv, NEW c \in Challenges, delivering[c] = "finalizing"
    PROVE  /\ Status(c) # "absent" /\ RowCoherent(c) /\ requestedBy[c] \in LoginKeys
           /\ ClassifyBatch(batch[c]) = "delivered" => Delivered(c)
           /\ ClassifyBatch(batch[c]) = "rejected" => Rejected(c) /\ ~ Delivered(c)
<1>1. Status(c) # "absent" /\ RowCoherent(c)
  BY DEF LoginInv, LoginRows, NeverInserted
<1>2. requestedBy[c] \in LoginKeys /\ batch[c] # NoMessages
  BY <1>1 DEF RowCoherent, Delivered, Rejected, Unanimous
<1>3. batch[c] \in [ContactsOf(requestedBy[c]) -> ProviderResult]
  BY <1>2 DEF LoginInv, LoginTypeOK
<1> QED BY <1>1, <1>2, <1>3, Classified DEF Delivered, Rejected

LEMMA ConfirmKeepsLogin ==
    ASSUME LoginAssumption, LoginInv, NEW c \in Challenges, ConfirmLoginDelivery(c)
    PROVE  LoginInv'
<1> DEFINE h == IF Activatable(c) THEN [status |-> "pending", delivery |-> "delivered"] ELSE challenge[c]
           g == channel[c]
<1>0. LoginTypeOK
  BY DEF LoginInv
<1>1. /\ delivering[c] = "finalizing" /\ ClassifyBatch(batch[c]) = "delivered"
      /\ delivering' = [delivering EXCEPT ![c] = "idle"]
      /\ reservation' = [reservation EXCEPT ![requestedBy[c]] =
           IF Activatable(c) THEN "completed" ELSE "none"]
      /\ UNCHANGED <<channel, ttl, attempts, requestedBy, batch, answered, wrong>>
  BY DEF ConfirmLoginDelivery
<1>2. Status(c) # "absent" /\ RowCoherent(c) /\ Delivered(c) /\ requestedBy[c] \in LoginKeys
  BY <1>1, FinalizingRow
<1>3. challenge' = [challenge EXCEPT ![c] = h]
  <2>1. CASE Activatable(c)
    <3>1. challenge' = [challenge EXCEPT ![c].delivery = "delivered"]
      BY <2>1 DEF ConfirmLoginDelivery
    <3>2. [challenge[c] EXCEPT !.delivery = "delivered"] = h
      BY <2>1 DEF Activatable
    <3> QED BY <3>1, <3>2
  <2>2. CASE ~ Activatable(c)
    BY <1>0, <2>2 DEF ConfirmLoginDelivery, LoginTypeOK
  <2> QED BY <2>1, <2>2
<1>4. /\ h \in RowStatuses
      /\ h.status = Status(c)
      /\ h.status = "pending" => g = "open" /\ h.delivery # "failed"
      /\ h.status = "completed" => g = "consumed" /\ h.delivery = "delivered" /\ attempts[c].cooldown = 0
      /\ h.status = "cancelled" => g = "superseded"
      /\ g \in {"open", "consumed", "superseded"}
  <2>1. CASE Activatable(c)
    BY <2>1 DEF Activatable, RowStatuses, Status
  <2>2. CASE ~ Activatable(c)
    BY <1>0, <1>2, <2>2 DEF RowCoherent, RowStatuses, Status, LoginTypeOK
  <2> QED BY <2>1, <2>2
<1>5. channel' = [channel EXCEPT ![c] = g]
  BY <1>0, <1>1 DEF LoginTypeOK
<1>6. /\ reservation' \in [LoginKeys -> {"none", "processing", "completed"}]
      /\ \A k \in LoginKeys \ {requestedBy[c]} : reservation'[k] = reservation[k]
      /\ answered' \in [Challenges -> [VerifyKeys -> {"none", "success", "invalid"}]]
  BY <1>0, <1>1 DEF LoginTypeOK
<1>7. g = "superseded" => channel[c] = "superseded"
  OBVIOUS
<1>8. wrong' = wrong /\ delivering[c] # "idle" /\ UNCHANGED <<ttl, attempts, requestedBy, batch>>
  BY <1>1
<1> HIDE DEF h, g
<1>9. /\ h.status # "absent" /\ (h.status = "pending" => Status(c) = "pending")
      /\ h.status = "cancelled" => Status(c) = "cancelled" \/ Rejected(c)
      /\ wrong' = 0 \/ (wrong' = wrong /\ (Status(c) = "pending" => h.status = "pending"))
      /\ delivering[c] # "idle" /\ (Delivered(c) \/ Rejected(c))
  BY <1>2, <1>4, <1>8
<1>10. /\ Status(c) # "absent"
       /\ delivering' = [delivering EXCEPT ![c] = "idle"]
       /\ h.status = "pending" => Status(c) = "pending" /\ g = "open" /\ h.delivery # "failed"
       /\ h.status = "completed" => g = "consumed" /\ h.delivery = "delivered" /\ attempts[c].cooldown = 0
       /\ h.status = "cancelled" => g = "superseded" /\ (Status(c) = "cancelled" \/ Rejected(c))
       /\ h.delivery = "delivered" => Delivered(c)
       /\ g = "superseded" => channel[c] = "superseded" \/ Rejected(c)
       /\ h \in RowStatuses /\ g \in {"open", "consumed", "superseded"}
  BY <1>1, <1>2, <1>4, <1>7, <1>9
<1> QED BY <1>3, <1>5, <1>6, <1>8, <1>9, <1>10, ResolveKeepsLogin

LEMMA FailKeepsLogin ==
    ASSUME LoginAssumption, LoginInv, NEW c \in Challenges, FailLoginDelivery(c)
    PROVE  LoginInv'
<1> DEFINE cancels == challenge[c] = [status |-> "pending", delivery |-> "pending"]
           h == IF cancels THEN [status |-> "cancelled", delivery |-> "failed"] ELSE challenge[c]
           g == IF channel[c] = "open" THEN "superseded" ELSE channel[c]
<1>0. LoginTypeOK
  BY DEF LoginInv
<1>1. /\ delivering[c] = "finalizing" /\ ClassifyBatch(batch[c]) = "rejected"
      /\ delivering' = [delivering EXCEPT ![c] = "idle"]
      /\ reservation' = [reservation EXCEPT ![requestedBy[c]] = "none"]
      /\ channel' = [channel EXCEPT ![c] = g]
      /\ wrong' = IF cancels THEN 0 ELSE wrong
      /\ UNCHANGED <<ttl, attempts, requestedBy, batch, answered>>
  BY DEF FailLoginDelivery
<1>2. Status(c) # "absent" /\ RowCoherent(c) /\ Rejected(c) /\ ~ Delivered(c) /\ requestedBy[c] \in LoginKeys
  BY <1>1, FinalizingRow
<1>3. challenge' = [challenge EXCEPT ![c] = h]
  <2>1. CASE cancels
    <3>1. CancelledRow(challenge[c]) = h
      BY <2>1 DEF CancelledRow
    <3> QED BY <2>1, <3>1 DEF FailLoginDelivery
  <2>2. CASE ~ cancels
    BY <1>0, <2>2 DEF FailLoginDelivery, LoginTypeOK
  <2> QED BY <2>1, <2>2
<1>4. /\ h \in RowStatuses
      /\ h.status # "absent" /\ h.status # "pending"
      /\ h.status = "completed" => g = "consumed" /\ h.delivery = "delivered" /\ attempts[c].cooldown = 0
      /\ h.status = "cancelled" => g = "superseded"
      /\ g \in {"open", "consumed", "superseded"}
      /\ h.delivery # "delivered"
      /\ ~ cancels => Status(c) # "pending"
  <2>1. CASE cancels
    BY <1>2, <2>1 DEF RowStatuses, Status, RowCoherent
  <2>2. CASE ~ cancels
    <3>1. challenge[c].delivery # "delivered"
      BY <1>2 DEF RowCoherent
    <3>2. Status(c) # "pending"
      BY <1>0, <1>2, <2>2, <3>1 DEF RowCoherent, Status, LoginTypeOK
    <3> QED BY <1>0, <1>2, <2>2, <3>1, <3>2 DEF RowCoherent, RowStatuses, Status, LoginTypeOK
  <2> QED BY <2>1, <2>2
<1>5. /\ reservation' \in [LoginKeys -> {"none", "processing", "completed"}]
      /\ \A k \in LoginKeys \ {requestedBy[c]} : reservation'[k] = reservation[k]
      /\ answered' \in [Challenges -> [VerifyKeys -> {"none", "success", "invalid"}]]
  BY <1>0, <1>1 DEF LoginTypeOK
<1>6. wrong' = 0 \/ (wrong' = wrong /\ Status(c) # "pending")
  BY <1>1, <1>4
<1>7. delivering[c] # "idle" /\ UNCHANGED <<ttl, attempts, requestedBy, batch>>
  BY <1>1
<1> HIDE DEF h, g, cancels
<1> QED BY <1>1, <1>2, <1>3, <1>4, <1>5, <1>6, <1>7, ResolveKeepsLogin

LEMMA VerifyRightKeepsLogin ==
    ASSUME LoginAssumption, LoginInv, NEW c \in Challenges, NEW k \in VerifyKeys, VerifyRight(c, k)
    PROVE  LoginInv'
<1> DEFINE h == [status |-> "completed", delivery |-> "delivered"]
           g == "consumed"
<1>0. LoginTypeOK
  BY DEF LoginInv
<1>1. /\ challenge[c] = [status |-> "pending", delivery |-> "delivered"] /\ channel[c] = "open"
      /\ attempts[c].cooldown = 0
      /\ channel' = [channel EXCEPT ![c] = "consumed"]
      /\ answered' = [answered EXCEPT ![c][k] = "success"]
      /\ wrong' = 0
      /\ UNCHANGED <<ttl, attempts, requestedBy, delivering, batch, reservation>>
  BY DEF VerifyRight, Verifiable, created
<1>2. Status(c) = "pending" /\ RowCoherent(c)
  BY <1>1 DEF LoginInv, LoginRows, Status
<1>3. Delivered(c) /\ delivering[c] = "idle"
  BY <1>1, <1>2 DEF RowCoherent
<1>4. challenge' = [challenge EXCEPT ![c] = h]
  <2>1. challenge' = [challenge EXCEPT ![c].status = "completed"]
    BY DEF VerifyRight
  <2>2. [challenge[c] EXCEPT !.status = "completed"] = h
    BY <1>1
  <2> QED BY <2>1, <2>2
<1>5. delivering' = [delivering EXCEPT ![c] = "idle"]
  BY <1>0, <1>1, <1>3 DEF LoginTypeOK
<1>6. /\ reservation' \in [LoginKeys -> {"none", "processing", "completed"}]
      /\ reservation' = reservation
      /\ answered' \in [Challenges -> [VerifyKeys -> {"none", "success", "invalid"}]]
  BY <1>0, <1>1 DEF LoginTypeOK
<1>7. h \in RowStatuses /\ h.status = "completed" /\ h.delivery = "delivered"
  BY DEF RowStatuses
<1>8. UNCHANGED <<ttl, attempts, requestedBy, batch>>
  BY <1>1
<1>9. /\ h.status # "absent"
      /\ h.status = "pending" => Status(c) = "pending" /\ g = "open" /\ h.delivery # "failed"
      /\ h.status = "completed" => g = "consumed" /\ h.delivery = "delivered" /\ attempts[c].cooldown = 0
      /\ h.status = "cancelled" => g = "superseded" /\ (Status(c) = "cancelled" \/ Rejected(c))
      /\ h.delivery = "delivered" => Delivered(c)
      /\ g = "superseded" => channel[c] = "superseded" \/ Rejected(c)
      /\ g \in {"open", "consumed", "superseded"}
      /\ channel' = [channel EXCEPT ![c] = g]
  BY <1>1, <1>3
<1>10. Status(c) # "absent"
  BY <1>2
<1> HIDE DEF h, g
<1> QED BY <1>9, <1>10, <1>1, <1>2, <1>3, <1>4, <1>5, <1>6, <1>7, <1>8, ResolveKeepsLogin


LEMMA VerifyWrongKeepsLogin ==
    ASSUME LoginAssumption, LoginInv, NEW c \in Challenges, NEW k \in VerifyKeys, VerifyWrong(c, k)
    PROVE  LoginInv'
<1> DEFINE a == AfterFailure(attempts[c])
<1>0. LoginTypeOK /\ MaxAttempts \in Nat \ {0} /\ Cooldown \in Nat \ {0}
  BY DEF LoginInv, LoginAssumption, OtpAssumption
<1>1. /\ challenge[c] = [status |-> "pending", delivery |-> "delivered"] /\ channel[c] = "open"
      /\ attempts[c].cooldown = 0 /\ ttl[c] > 0
      /\ attempts' = [attempts EXCEPT ![c] = a]
      /\ answered' = [answered EXCEPT ![c][k] = "invalid"]
      /\ wrong' = (IF attempts'[c].cooldown > 0 THEN 0 ELSE wrong + 1)
      /\ UNCHANGED <<challenge, channel, ttl, requestedBy, delivering, batch, reservation>>
  BY DEF VerifyWrong, Verifiable, created
<1>2. Status(c) = "pending" /\ RowCoherent(c)
  BY <1>1 DEF LoginInv, LoginRows, Status
<1>3. attempts[c].failed \in 0 .. (MaxAttempts - 1)
  BY <1>0 DEF LoginTypeOK, AttemptState
<1>4. /\ a \in AttemptState
      /\ a.cooldown \in Nat
      /\ a.cooldown > 0 => a.failed = 0
      /\ a.cooldown = 0 => a.failed = attempts[c].failed + 1
      /\ a.failed \in Nat /\ a.failed < MaxAttempts
  <2>1. CASE attempts[c].failed + 1 >= MaxAttempts
    BY <1>0, <1>3, <2>1 DEF AfterFailure, AttemptState
  <2>2. CASE ~ (attempts[c].failed + 1 >= MaxAttempts)
    BY <1>0, <1>3, <2>2 DEF AfterFailure, AttemptState
  <2> QED BY <2>1, <2>2
<1> HIDE DEF a
<1>5. attempts'[c] = a /\ \A d \in Challenges \ {c} : attempts'[d] = attempts[d]
  BY <1>0, <1>1 DEF LoginTypeOK
<1>6. \A d \in Challenges :
        (Sent(d)' <=> Sent(d)) /\ (Delivered(d)' <=> Delivered(d)) /\ (Rejected(d)' <=> Rejected(d))
  BY <1>1, OutcomeStays
<1>7. ASSUME NEW e \in Pending PROVE e = c
  <2>1. e \in Challenges /\ Status(e) = "pending" /\ (e < c \/ c < e \/ e = c)
    BY DEF Pending, Challenges, LoginAssumption
  <2> QED BY <1>2, <2>1 DEF LoginInv, LoginOrder
<1>8. a.cooldown = 0 => wrong' = wrong + 1 /\ wrong' <= a.failed
  <2>1. wrong \in Nat
    BY <1>0 DEF LoginTypeOK
  <2>2. wrong > 0 => wrong <= attempts[c].failed
    BY <1>7 DEF LoginInv, WrongCounted
  <2> QED BY <1>1, <1>3, <1>4, <1>5, <2>1, <2>2
<1>9. a.cooldown > 0 => wrong' = 0
  BY <1>1, <1>5
<1>10. LoginTypeOK'
  <2>1. attempts' \in [Challenges -> AttemptState]
    BY <1>0, <1>1, <1>4 DEF LoginTypeOK
  <2>2. answered' \in [Challenges -> [VerifyKeys -> {"none", "success", "invalid"}]]
    BY <1>0, <1>1 DEF LoginTypeOK
  <2>3. wrong' \in 0 .. MaxAttempts
    BY <1>0, <1>4, <1>8, <1>9 DEF LoginTypeOK
  <2> QED BY <1>0, <1>1, <2>1, <2>2, <2>3 DEF LoginTypeOK
<1>11. LoginRows'
  <2> SUFFICES ASSUME NEW d \in Challenges
               PROVE  /\ Status(d)' = "absent" => NeverInserted(d)'
                      /\ Status(d)' # "absent" => RowCoherent(d)'
                      /\ CooldownDominates(d)'
    BY DEF LoginRows
  <2>1. CASE d = c
    BY <1>1, <1>2, <1>4, <1>5, <1>6, <2>1 DEF RowCoherent, CooldownDominates, Status
  <2>2. CASE d # c
    BY <1>1, <1>5, <1>6, <2>2 DEF LoginInv, LoginRows, RowCoherent, NeverInserted, CooldownDominates, Status
  <2> QED BY <2>1, <2>2
<1>12. KeysHeld'
  BY <1>1, <1>6 DEF LoginInv, KeysHeld, Held
<1>13. LoginOrder' /\ CancelledFor'
  BY <1>1, <1>6 DEF LoginInv, LoginOrder, CancelledFor, Status
<1>14. CarriedAlong'
  <2> SUFFICES ASSUME NEW d \in Challenges, NEW e \in Challenges, d < e, Status(e) # "absent",
                      ttl[d] > 0, channel[d] = "superseded",
                      \A f \in d .. e : ~ Rejected(f)'
               PROVE  attempts'[e].cooldown >= attempts'[d].cooldown
    BY <1>1 DEF CarriedAlong, Status
  <2>1. \A f \in d .. e : ~ Rejected(f)
    BY <1>6 DEF Challenges, LoginAssumption
  <2>2. attempts[e].cooldown >= attempts[d].cooldown
    BY <2>1 DEF LoginInv, CarriedAlong
  <2>3. d # c /\ attempts'[d] = attempts[d] /\ attempts[d].cooldown \in Nat
    BY <1>1, <1>5, LoginShape
  <2>4. CASE e = c
    BY <1>1, <1>4, <1>5, <2>2, <2>3, <2>4
  <2>5. CASE e # c
    BY <1>5, <2>2, <2>3, <2>5
  <2> QED BY <2>4, <2>5
<1>15. WrongCounted'
  <2> SUFFICES ASSUME wrong' > 0
               PROVE  \E e \in Pending : ttl[e] > 0 /\ wrong' <= attempts'[e].failed
    BY <1>1 DEF WrongCounted, Pending, Status
  <2>1. a.cooldown = 0
    BY <1>4, <1>9
  <2>2. c \in Pending
    BY <1>2 DEF Pending
  <2> QED BY <1>1, <1>5, <1>8, <2>1, <2>2
<1> QED BY <1>10, <1>11, <1>12, <1>13, <1>14, <1>15 DEF LoginInv

LEMMA TickKeepsLogin ==
    ASSUME LoginAssumption, LoginInv, LoginTick
    PROVE  LoginInv'
<1>0. LoginTypeOK
  BY DEF LoginInv
<1>1. /\ ttl' = [c \in Challenges |-> Elapsed(ttl[c])]
      /\ attempts' = [c \in Challenges |-> [attempts[c] EXCEPT !.cooldown = Elapsed(@)]]
      /\ wrong' = (IF \E c \in Pending : ttl[c] = 1 THEN 0 ELSE wrong)
      /\ UNCHANGED <<challenge, channel, requestedBy, delivering, batch, reservation, answered>>
  BY DEF LoginTick, created
<1>2. ASSUME NEW c \in Challenges
      PROVE  /\ attempts'[c] \in AttemptState
             /\ attempts'[c].failed = attempts[c].failed
             /\ attempts'[c].cooldown = Elapsed(attempts[c].cooldown)
             /\ ttl'[c] = Elapsed(ttl[c]) /\ ttl'[c] \in 0 .. Ttl
             /\ attempts[c].cooldown \in Nat /\ ttl[c] \in Nat
  <2>1. attempts[c] \in [failed : 0 .. (MaxAttempts - 1), cooldown : 0 .. Cooldown] /\ ttl[c] \in 0 .. Ttl
    BY <1>0 DEF LoginTypeOK, AttemptState
  <2>2. Elapsed(attempts[c].cooldown) \in 0 .. Cooldown /\ Elapsed(ttl[c]) \in 0 .. Ttl
    BY <2>1 DEF Elapsed, LoginAssumption, OtpAssumption
  <2>3. [attempts[c] EXCEPT !.cooldown = Elapsed(@)] \in AttemptState
    BY <2>1, <2>2 DEF AttemptState
  <2>4. attempts'[c] = [attempts[c] EXCEPT !.cooldown = Elapsed(@)]
    BY <1>1
  <2> QED BY <1>1, <2>1, <2>2, <2>3, <2>4, LoginShape
<1>3. \A d \in Challenges :
        (Sent(d)' <=> Sent(d)) /\ (Delivered(d)' <=> Delivered(d)) /\ (Rejected(d)' <=> Rejected(d))
  BY <1>1, OutcomeStays
<1>4. LoginTypeOK'
  <2>1. attempts' \in [Challenges -> AttemptState] /\ ttl' \in [Challenges -> 0 .. Ttl]
    BY <1>1, <1>2
  <2>2. wrong' \in 0 .. MaxAttempts
    BY <1>0, <1>1 DEF LoginTypeOK, LoginAssumption, OtpAssumption
  <2> QED BY <1>0, <1>1, <2>1, <2>2 DEF LoginTypeOK
<1>5. LoginRows'
  <2> SUFFICES ASSUME NEW d \in Challenges
               PROVE  /\ Status(d)' = "absent" => NeverInserted(d)'
                      /\ Status(d)' # "absent" => RowCoherent(d)'
                      /\ CooldownDominates(d)'
    BY DEF LoginRows
  <2>1. CooldownDominates(d)'
    BY <1>2 DEF LoginInv, LoginRows, CooldownDominates, Elapsed
  <2>2. attempts[d].cooldown = 0 => attempts'[d].cooldown = 0
    BY <1>2 DEF Elapsed
  <2> QED BY <1>1, <1>3, <2>1, <2>2 DEF LoginInv, LoginRows, RowCoherent, NeverInserted, Status
<1>6. KeysHeld'
  BY <1>1, <1>3 DEF LoginInv, KeysHeld, Held
<1>7. LoginOrder'
  <2> SUFFICES ASSUME NEW d \in Challenges, NEW e \in Challenges, d < e, Status(e) # "absent"
               PROVE  Status(d) \notin {"absent", "pending"} /\ ttl'[d] <= ttl'[e]
    BY <1>1 DEF LoginOrder, Status
  <2>1. Status(d) \notin {"absent", "pending"} /\ ttl[d] <= ttl[e]
    BY DEF LoginInv, LoginOrder
  <2> QED BY <1>2, <2>1 DEF Elapsed
<1>8. CancelledFor'
  BY <1>1, <1>3 DEF LoginInv, CancelledFor, Status
<1>9. CarriedAlong'
  <2> SUFFICES ASSUME NEW d \in Challenges, NEW e \in Challenges, d < e, Status(e) # "absent",
                      ttl'[d] > 0, channel[d] = "superseded",
                      \A f \in d .. e : ~ Rejected(f)'
               PROVE  attempts'[e].cooldown >= attempts'[d].cooldown
    BY <1>1 DEF CarriedAlong, Status
  <2>1. \A f \in d .. e : ~ Rejected(f)
    BY <1>3 DEF Challenges, LoginAssumption
  <2>2. ttl[d] > 0
    BY <1>2 DEF Elapsed
  <2>3. attempts[e].cooldown >= attempts[d].cooldown
    BY <2>1, <2>2 DEF LoginInv, CarriedAlong
  <2> QED BY <1>2, <2>3 DEF Elapsed
<1>10. WrongCounted'
  <2> SUFFICES ASSUME wrong' > 0
               PROVE  \E e \in Pending : ttl'[e] > 0 /\ wrong' <= attempts'[e].failed
    BY <1>1 DEF WrongCounted, Pending, Status
  <2>1. wrong' = wrong /\ \A c \in Pending : ttl[c] # 1
    BY <1>1
  <2>2. PICK e \in Pending : ttl[e] > 0 /\ wrong <= attempts[e].failed
    BY <2>1 DEF LoginInv, WrongCounted
  <2>3. ttl'[e] > 0
    BY <1>2, <2>1, <2>2 DEF Elapsed, Pending
  <2> QED BY <1>2, <2>1, <2>2, <2>3 DEF Pending
<1> QED BY <1>4, <1>5, <1>6, <1>7, <1>8, <1>9, <1>10 DEF LoginInv

LEMMA LoginInitInv == ASSUME LoginAssumption, LoginInit PROVE LoginInv
<1>1. \A c \in Challenges : NeverInserted(c) /\ Status(c) = "absent" /\ attempts[c] = NoAttempts
        /\ channel[c] = "absent"
  BY DEF LoginInit, NeverInserted, Status, Absent
<1>2. LoginTypeOK
  <2>1. NoAttempts \in AttemptState
    BY DEF NoAttempts, AttemptState, LoginAssumption, OtpAssumption
  <2> QED BY <2>1 DEF LoginInit, LoginTypeOK, Absent, LoginAssumption, OtpAssumption
<1>3. LoginRows
  BY <1>1 DEF LoginRows, CooldownDominates, NoAttempts
<1>4. KeysHeld
  BY <1>1 DEF KeysHeld, Held, NeverInserted, Sent
<1>5. LoginOrder /\ CancelledFor /\ CarriedAlong
  BY <1>1 DEF LoginOrder, CancelledFor, CarriedAlong
<1>6. WrongCounted
  BY DEF WrongCounted, LoginInit
<1> QED BY <1>2, <1>3, <1>4, <1>5, <1>6 DEF LoginInv

LEMMA LoginStep == ASSUME LoginAssumption, LoginInv, [LoginNext]_loginVars PROVE LoginInv'
<1>1. CASE \E c \in Challenges, k \in LoginKeys : CreateChallenge(c, k)
  BY <1>1, CreateKeepsLogin
<1>2. CASE \E c \in Challenges : SendAllRequired(c)
  BY <1>2, SendKeepsLogin
<1>3. CASE \E c \in Challenges : Abandon(c)
  BY <1>3, AbandonKeepsLogin
<1>4. CASE \E c \in Challenges : ConfirmLoginDelivery(c)
  BY <1>4, ConfirmKeepsLogin
<1>5. CASE \E c \in Challenges : FailLoginDelivery(c)
  BY <1>5, FailKeepsLogin
<1>6. CASE \E c \in Challenges, k \in VerifyKeys : VerifyRight(c, k)
  BY <1>6, VerifyRightKeepsLogin
<1>7. CASE \E c \in Challenges, k \in VerifyKeys : VerifyWrong(c, k)
  BY <1>7, VerifyWrongKeepsLogin
<1>8. CASE LoginTick
  BY <1>8, TickKeepsLogin
<1>9. CASE UNCHANGED loginVars
  <2>1. \A d \in Challenges :
          (Sent(d)' <=> Sent(d)) /\ (Delivered(d)' <=> Delivered(d)) /\ (Rejected(d)' <=> Rejected(d))
    BY <1>9, OutcomeStays DEF loginVars
  <2>2. LoginTypeOK'
    BY <1>9 DEF loginVars, LoginInv, LoginTypeOK
  <2>3. LoginRows'
    BY <1>9, <2>1 DEF loginVars, LoginInv, LoginRows, RowCoherent, NeverInserted, CooldownDominates, Status
  <2>4. KeysHeld' /\ LoginOrder' /\ CancelledFor'
    BY <1>9, <2>1 DEF loginVars, LoginInv, KeysHeld, Held, LoginOrder, CancelledFor, Status
  <2>5. \A d, e \in Challenges : \A f \in d .. e : f \in Challenges
    BY DEF Challenges, LoginAssumption
  <2>6. CarriedAlong' /\ WrongCounted'
    BY <1>9, <2>1, <2>5 DEF loginVars, LoginInv, CarriedAlong, WrongCounted, Pending, Status
  <2> QED BY <2>2, <2>3, <2>4, <2>6 DEF LoginInv
<1> QED BY <1>1, <1>2, <1>3, <1>4, <1>5, <1>6, <1>7, <1>8, <1>9 DEF LoginNext

LEMMA LoginInvSound == ASSUME LoginAssumption, LoginInv PROVE LoginSound
<1>1. \A c, d \in Pending : c = d
  <2> SUFFICES ASSUME NEW c \in Pending, NEW d \in Pending PROVE c = d
    OBVIOUS
  <2>1. /\ c \in Challenges /\ d \in Challenges /\ Status(c) = "pending" /\ Status(d) = "pending"
        /\ (c < d \/ d < c \/ c = d)
    BY DEF Pending, Challenges, LoginAssumption
  <2> QED BY <2>1 DEF LoginInv, LoginOrder
<1>2. OnePendingChallenge
  <2>1. CASE Pending = {}
    BY <2>1, FS_EmptySet DEF OnePendingChallenge
  <2>2. CASE Pending # {}
    <3>1. PICK c \in Pending : TRUE
      BY <2>2
    <3>2. Pending = {c}
      BY <1>1, <3>1
    <3>3. Cardinality({c}) = 1
      BY FS_Singleton
    <3> QED BY <3>2, <3>3 DEF OnePendingChallenge
  <2> QED BY <2>1, <2>2
<1>3. LoginProvesDelivery
  BY DEF LoginProvesDelivery, LoginInv, LoginRows, RowCoherent
<1>4. AttemptBudget
  <2>1. wrong \in Nat /\ MaxAttempts \in Nat \ {0}
    BY DEF LoginInv, LoginTypeOK, LoginAssumption, OtpAssumption
  <2>2. CASE wrong > 0
    <3>1. PICK c \in Pending : wrong <= attempts[c].failed
      BY <2>2 DEF LoginInv, WrongCounted
    <3>2. c \in Challenges
      BY DEF Pending
    <3>3. attempts[c].failed \in Nat /\ attempts[c].failed < MaxAttempts
      BY <3>2, LoginShape
    <3> QED BY <2>1, <3>1, <3>3 DEF AttemptBudget
  <2>3. CASE wrong = 0
    BY <2>1, <2>3 DEF AttemptBudget
  <2> QED BY <2>1, <2>2, <2>3
<1>5. CooldownCarried
  BY DEF CooldownCarried, LoginInv, CarriedAlong, Pending
<1>6. AmbiguousStaysReserved
  BY DEF AmbiguousStaysReserved, LoginInv, KeysHeld, Held
<1> QED BY <1>2, <1>3, <1>4, <1>5, <1>6 DEF LoginSound

\* Every reachable state of the login with a code satisfies LoginSound: for every
\* number of challenges, keys, attempts and ticks, and whatever requests,
\* providers, crashes and time do in between (login.rs, otp.rs, delivery.rs).
THEOREM LoginSoundHolds == LoginSpec => []LoginSound
<1>1. LoginInit => LoginInv
  BY LoginAssumption, LoginInitInv
<1>2. LoginInv /\ [LoginNext]_loginVars => LoginInv'
  BY LoginAssumption, LoginStep
<1>3. LoginInv => LoginSound
  BY LoginAssumption, LoginInvSound
<1> QED BY <1>1, <1>2, <1>3, PTL DEF LoginSpec

----------------------------------------------------------------------------
(* Step-up challenges *)

\* A row that was never inserted has nothing beside it.
NoStepUpYet(c) ==
    /\ stepUp[c].status = "absent" /\ stepUp[c].delivery = "pending"
    /\ sending[c] = "idle" /\ message[c] = "none"
    /\ assertion[c].status = "none" /\ acts[c] = <<>>

\* What an inserted row says of its message, its assertion and what it admitted.
StepUpRow(c) ==
    /\ askedWith[c] \in StepUpRequests
    /\ sending[c] = "sending" => message[c] = "none"
    /\ stepUp[c].delivery = "delivered" => message[c] = "ok"
    /\ stepUp[c].status = "completed" => stepUp[c].delivery = "delivered"
    /\ assertion[c].status # "none" => stepUp[c].status = "completed"
    /\ IF assertion[c].status = "consumed"
       THEN acts[c] = <<(<<StepUpSession(c), StepUpTarget(c)>>)>>
       ELSE acts[c] = <<>>

StepUpRows ==
    \A c \in StepUps :
        /\ stepUp[c].status = "absent" => NoStepUpYet(c)
        /\ stepUp[c].status # "absent" => StepUpRow(c)
        /\ codeAttempts[c].cooldown > 0 => codeAttempts[c].failed = 0

\* One code waits for a session and a target.
OneStepUp ==
    \A c, d \in StepUps :
        /\ stepUp[c].status = "pending" /\ stepUp[d].status = "pending"
        /\ StepUpSession(c) = StepUpSession(d) /\ StepUpTarget(c) = StepUpTarget(d)
        => c = d

\* The wrong codes since the last cooldown are counted on the code that waits.
StepUpCounted ==
    \A s \in LoginSessions, t \in Targets : wrongCodes[s][t] > 0 =>
        \E c \in StepUps :
            /\ stepUp[c].status = "pending"
            /\ StepUpSession(c) = s /\ StepUpTarget(c) = t
            /\ wrongCodes[s][t] <= codeAttempts[c].failed

StepUpShape ==
    /\ loginSession \in [LoginSessions -> {"active", "revoked"}]
    /\ stepUp \in [StepUps -> RowStatuses]
    /\ DOMAIN askedWith = StepUps
    /\ codeAttempts \in [StepUps -> AttemptState]
    /\ sending \in [StepUps -> {"idle", "sending", "finalizing"}]
    /\ message \in [StepUps -> ProviderResult \cup {"none"}]
    /\ assertion \in [StepUps ->
         [status : {"none", "issued", "consumed"}, ttl : 0 .. AssertionTtl]]
    /\ DOMAIN acts = StepUps
    /\ wrongCodes \in [LoginSessions -> [Targets -> 0 .. MaxAttempts]]

StepUpInv == StepUpShape /\ StepUpRows /\ OneStepUp /\ StepUpCounted

\* What a step may do to a challenge that exists, which is all RevocationFreezes
\* asks of it.
StepUpFrozen ==
    \A c \in StepUps :
        stepUp[c].status # "absent" /\ loginSession[StepUpSession(c)] = "revoked" =>
          /\ acts'[c] = acts[c]
          /\ assertion'[c].status = assertion[c].status
          /\ stepUp'[c].delivery = "delivered" => stepUp[c].delivery = "delivered"

LEMMA StepUpInitInv == ASSUME StepUpAssumption, StepUpInit PROVE StepUpInv
<1>1. \A c \in StepUps : NoStepUpYet(c) /\ stepUp[c].status = "absent" /\ codeAttempts[c] = NoAttempts
  BY DEF StepUpInit, NoStepUpYet, NoStepUp, NoAssertion
<1>2. StepUpShape
  <2>1. NoAttempts \in AttemptState /\ NoStepUp \in RowStatuses
        /\ NoAssertion \in [status : {"none", "issued", "consumed"}, ttl : 0 .. AssertionTtl]
        /\ 0 \in 0 .. MaxAttempts
    BY DEF NoAttempts, AttemptState, StepUpAssumption, OtpAssumption, NoStepUp, RowStatuses, NoAssertion
  <2> QED BY <2>1 DEF StepUpInit, StepUpShape
<1>3. StepUpRows /\ OneStepUp
  BY <1>1 DEF StepUpRows, OneStepUp, NoAttempts
<1>4. StepUpCounted
  BY DEF StepUpInit, StepUpCounted
<1> QED BY <1>2, <1>3, <1>4 DEF StepUpInv

LEMMA StepUpCreated ==
    ASSUME StepUpAssumption, StepUpInv, NEW c \in StepUps, NEW k \in StepUpRequests,
           CreateStepUp(c, k)
    PROVE  /\ NoStepUpYet(c) /\ stepUp[c].status = "absent"
           /\ stepUp' \in [StepUps -> RowStatuses]
           /\ stepUp'[c] = [status |-> "pending", delivery |-> "pending"]
           /\ askedWith'[c] = k /\ DOMAIN askedWith' = StepUps
           /\ sending'[c] = "sending" /\ sending' \in [StepUps -> {"idle", "sending", "finalizing"}]
           /\ codeAttempts' \in [StepUps -> AttemptState]
           /\ codeAttempts'[c].cooldown > 0 => codeAttempts'[c].failed = 0
           /\ \A d \in StepUps : stepUp[d].status = "pending"
                /\ StepUpSession(d) = SessionAsking[k] /\ StepUpTarget(d) = TargetAsked[k]
                => codeAttempts'[c] = codeAttempts[d]
           /\ \A d \in StepUps \ {c} :
                /\ askedWith'[d] = askedWith[d] /\ sending'[d] = sending[d]
                /\ codeAttempts'[d] = codeAttempts[d]
                /\ IF stepUp[d].status = "pending" /\ StepUpSession(d) = SessionAsking[k]
                       /\ StepUpTarget(d) = TargetAsked[k]
                   THEN stepUp'[d].status = "cancelled"
                   ELSE stepUp'[d] = stepUp[d]
                /\ stepUp'[d].delivery = "delivered" => stepUp[d].delivery = "delivered"
           /\ UNCHANGED <<loginSession, message, assertion, acts, wrongCodes>>
<1> DEFINE s == SessionAsking[k]
           t == TargetAsked[k]
           S == StepUpsSuperseded(s, t)
<1>0. StepUpShape
  BY DEF StepUpInv
<1>1. stepUp[c].status = "absent"
  BY DEF CreateStepUp
<1>2. NoStepUpYet(c)
  BY <1>1 DEF StepUpInv, StepUpRows
<1>3. \A d \in StepUps : d \in S <=>
        stepUp[d].status = "pending" /\ StepUpSession(d) = s /\ StepUpTarget(d) = t
  BY DEF StepUpsSuperseded, StepUpScope, StepUpSession, StepUpTarget
<1>4. stepUp' = [d \in StepUps |->
         IF d = c THEN [status |-> "pending", delivery |-> "pending"]
         ELSE IF d \in S THEN CancelledStepUp(stepUp[d]) ELSE stepUp[d]]
  <2>1. c \notin S
    BY <1>1, <1>3
  <2> QED BY <2>1 DEF CreateStepUp
<1>5. \A d \in StepUps :
        /\ CancelledStepUp(stepUp[d]) \in RowStatuses
        /\ CancelledStepUp(stepUp[d]).status = "cancelled"
        /\ CancelledStepUp(stepUp[d]).delivery = "delivered" => stepUp[d].delivery = "delivered"
  BY <1>0 DEF StepUpShape, RowStatuses, CancelledStepUp
<1>6. /\ askedWith' = [askedWith EXCEPT ![c] = k]
      /\ codeAttempts' = [codeAttempts EXCEPT ![c] =
           InheritedAttemptState({codeAttempts[d] : d \in S})]
      /\ sending' = [sending EXCEPT ![c] = "sending"]
      /\ UNCHANGED <<loginSession, message, assertion, acts, wrongCodes>>
  BY DEF CreateStepUp
<1>7. ASSUME NEW d \in S PROVE S = {d} /\ d \in StepUps
  BY <1>3 DEF StepUpsSuperseded, StepUpScope, StepUpInv, OneStepUp
<1> DEFINE a == InheritedAttemptState({codeAttempts[d] : d \in S})
<1>8. /\ a \in AttemptState
      /\ a.cooldown > 0 => a.failed = 0
      /\ \A d \in S : a = codeAttempts[d]
  <2>1. CASE S = {}
    <3>1. {codeAttempts[d] : d \in S} = {}
      BY <2>1
    <3>2. a = NoAttempts
      BY <3>1, InheritNone
    <3>3. NoAttempts \in AttemptState /\ NoAttempts.cooldown = 0
      BY DEF NoAttempts, AttemptState, StepUpAssumption, OtpAssumption
    <3> QED BY <2>1, <3>2, <3>3
  <2>2. CASE S # {}
    <3>1. PICK d \in S : TRUE
      BY <2>2
    <3>2. S = {d} /\ d \in StepUps
      BY <1>7
    <3>3. {codeAttempts[e] : e \in S} = {codeAttempts[d]}
      BY <3>2
    <3>4. codeAttempts[d] \in AttemptState /\ (codeAttempts[d].cooldown > 0 => codeAttempts[d].failed = 0)
      BY <1>0, <3>2 DEF StepUpShape, StepUpInv, StepUpRows
    <3>5. InheritedAttemptState({codeAttempts[d]}) = codeAttempts[d]
      BY <3>4, InheritOne DEF StepUpAssumption
    <3>6. a = codeAttempts[d]
      BY <3>3, <3>5
    <3> QED BY <3>2, <3>4, <3>6
  <2> QED BY <2>1, <2>2
<1> HIDE DEF a, S
<1>9. /\ codeAttempts' = [codeAttempts EXCEPT ![c] = a]
  BY <1>6 DEF a
<1>10. stepUp' \in [StepUps -> RowStatuses]
  BY <1>0, <1>4, <1>5 DEF StepUpShape, RowStatuses
<1>11. stepUp'[c] = [status |-> "pending", delivery |-> "pending"]
  BY <1>4
<1>12. /\ askedWith'[c] = k /\ DOMAIN askedWith' = StepUps
       /\ sending'[c] = "sending" /\ sending' \in [StepUps -> {"idle", "sending", "finalizing"}]
       /\ codeAttempts' \in [StepUps -> AttemptState] /\ codeAttempts'[c] = a
  BY <1>0, <1>6, <1>8, <1>9 DEF StepUpShape
<1>13. ASSUME NEW d \in StepUps \ {c}
       PROVE  /\ askedWith'[d] = askedWith[d] /\ sending'[d] = sending[d]
              /\ codeAttempts'[d] = codeAttempts[d]
              /\ IF stepUp[d].status = "pending" /\ StepUpSession(d) = s /\ StepUpTarget(d) = t
                 THEN stepUp'[d].status = "cancelled"
                 ELSE stepUp'[d] = stepUp[d]
              /\ stepUp'[d].delivery = "delivered" => stepUp[d].delivery = "delivered"
  <2>1. askedWith'[d] = askedWith[d] /\ sending'[d] = sending[d] /\ codeAttempts'[d] = codeAttempts[d]
    BY <1>0, <1>6, <1>9 DEF StepUpShape
  <2>2. stepUp'[d] = IF d \in S THEN CancelledStepUp(stepUp[d]) ELSE stepUp[d]
    BY <1>4
  <2> QED BY <1>3, <1>5, <2>1, <2>2
<1>14. \A d \in StepUps : stepUp[d].status = "pending" /\ StepUpSession(d) = s /\ StepUpTarget(d) = t
         => codeAttempts'[c] = codeAttempts[d]
  BY <1>3, <1>8, <1>12
<1>15. codeAttempts'[c].cooldown > 0 => codeAttempts'[c].failed = 0
  BY <1>8, <1>12
<1> QED BY <1>1, <1>2, <1>6, <1>10, <1>11, <1>12, <1>13, <1>14, <1>15

LEMMA StepUpCreateKeeps ==
    ASSUME StepUpAssumption, StepUpInv, NEW c \in StepUps, NEW k \in StepUpRequests,
           CreateStepUp(c, k)
    PROVE  StepUpInv' /\ StepUpFrozen
<1> DEFINE scoped(d) == stepUp[d].status = "pending" /\ StepUpSession(d) = SessionAsking[k]
                          /\ StepUpTarget(d) = TargetAsked[k]
<1>0. StepUpShape
  BY DEF StepUpInv
<1>1. /\ NoStepUpYet(c) /\ stepUp[c].status = "absent"
      /\ stepUp' \in [StepUps -> RowStatuses]
      /\ stepUp'[c] = [status |-> "pending", delivery |-> "pending"]
      /\ askedWith'[c] = k /\ DOMAIN askedWith' = StepUps
      /\ sending'[c] = "sending" /\ sending' \in [StepUps -> {"idle", "sending", "finalizing"}]
      /\ codeAttempts' \in [StepUps -> AttemptState]
      /\ codeAttempts'[c].cooldown > 0 => codeAttempts'[c].failed = 0
  BY StepUpCreated
<1>2. \A d \in StepUps : scoped(d) => codeAttempts'[c] = codeAttempts[d]
  BY StepUpCreated
<1>3. ASSUME NEW d \in StepUps \ {c}
      PROVE  /\ askedWith'[d] = askedWith[d] /\ sending'[d] = sending[d]
             /\ codeAttempts'[d] = codeAttempts[d]
             /\ scoped(d) => stepUp'[d].status = "cancelled"
             /\ ~ scoped(d) => stepUp'[d] = stepUp[d]
             /\ stepUp'[d].delivery = "delivered" => stepUp[d].delivery = "delivered"
  BY <1>3, StepUpCreated
<1>4. /\ loginSession' = loginSession /\ message' = message /\ assertion' = assertion
      /\ acts' = acts /\ wrongCodes' = wrongCodes
  BY StepUpCreated
<1>5. SessionAsking[k] \in LoginSessions /\ TargetAsked[k] \in Targets
  BY DEF StepUpAssumption
<1>6. StepUpShape'
  BY <1>0, <1>1, <1>4 DEF StepUpShape
<1>7. StepUpRows'
  <2> SUFFICES ASSUME NEW d \in StepUps
               PROVE  /\ stepUp'[d].status = "absent" => NoStepUpYet(d)'
                      /\ stepUp'[d].status # "absent" => StepUpRow(d)'
                      /\ codeAttempts'[d].cooldown > 0 => codeAttempts'[d].failed = 0
    BY DEF StepUpRows
  <2>1. CASE d = c
    BY <1>1, <1>4, <2>1 DEF NoStepUpYet, StepUpRow
  <2>2. CASE d # c
    <3>1. /\ stepUp[d].status = "absent" => NoStepUpYet(d)
          /\ stepUp[d].status # "absent" => StepUpRow(d)
          /\ codeAttempts[d].cooldown > 0 => codeAttempts[d].failed = 0
      BY DEF StepUpInv, StepUpRows
    <3>2. CASE scoped(d)
      BY <1>3, <1>4, <2>2, <3>1, <3>2 DEF StepUpRow, StepUpSession, StepUpTarget
    <3>3. CASE ~ scoped(d)
      BY <1>3, <1>4, <2>2, <3>1, <3>3 DEF StepUpRow, NoStepUpYet, StepUpSession, StepUpTarget
    <3> QED BY <3>2, <3>3
  <2> QED BY <2>1, <2>2
<1>8. OneStepUp'
  <2> SUFFICES ASSUME NEW d \in StepUps, NEW e \in StepUps,
                      stepUp'[d].status = "pending", stepUp'[e].status = "pending",
                      SessionAsking[askedWith'[d]] = SessionAsking[askedWith'[e]],
                      TargetAsked[askedWith'[d]] = TargetAsked[askedWith'[e]]
               PROVE  d = e
    BY DEF OneStepUp, StepUpSession, StepUpTarget
  <2>1. ASSUME NEW x \in StepUps \ {c}, stepUp'[x].status = "pending"
        PROVE  /\ stepUp[x].status = "pending" /\ ~ scoped(x)
               /\ StepUpSession(x) = SessionAsking[askedWith'[x]]
               /\ StepUpTarget(x) = TargetAsked[askedWith'[x]]
    BY <1>3, <2>1 DEF StepUpSession, StepUpTarget
  <2>2. CASE d = c /\ e # c
    BY <1>1, <2>1, <2>2
  <2>3. CASE e = c /\ d # c
    BY <1>1, <2>1, <2>3
  <2>4. CASE d # c /\ e # c
    BY <2>1, <2>4 DEF StepUpInv, OneStepUp
  <2> QED BY <2>2, <2>3, <2>4
<1>9. StepUpCounted'
  <2> SUFFICES ASSUME NEW s \in LoginSessions, NEW t \in Targets, wrongCodes[s][t] > 0
               PROVE  \E d \in StepUps :
                        /\ stepUp'[d].status = "pending"
                        /\ SessionAsking[askedWith'[d]] = s /\ TargetAsked[askedWith'[d]] = t
                        /\ wrongCodes[s][t] <= codeAttempts'[d].failed
    BY <1>4 DEF StepUpCounted, StepUpSession, StepUpTarget
  <2>1. PICK d \in StepUps : /\ stepUp[d].status = "pending"
                             /\ StepUpSession(d) = s /\ StepUpTarget(d) = t
                             /\ wrongCodes[s][t] <= codeAttempts[d].failed
    BY DEF StepUpInv, StepUpCounted
  <2>2. CASE scoped(d)
    BY <1>1, <1>2, <2>1, <2>2
  <2>3. CASE ~ scoped(d)
    BY <1>1, <1>3, <2>1, <2>3 DEF StepUpSession, StepUpTarget
  <2> QED BY <2>2, <2>3
<1>10. StepUpFrozen
  BY <1>1, <1>3, <1>4 DEF StepUpFrozen
<1> QED BY <1>6, <1>7, <1>8, <1>9, <1>10 DEF StepUpInv

\* A step after which every challenge is where it was, except c, whose rows are
\* coherent again.
LEMMA StepUpOneRow ==
    ASSUME StepUpAssumption, StepUpInv, NEW c \in StepUps,
           StepUpShape', stepUp[c].status # "absent", stepUp'[c].status # "absent",
           StepUpRow(c)',
           askedWith' = askedWith, loginSession' = loginSession,
           \A d \in StepUps \ {c} :
             /\ stepUp'[d] = stepUp[d] /\ sending'[d] = sending[d]
             /\ message'[d] = message[d] /\ assertion'[d].status = assertion[d].status
             /\ acts'[d] = acts[d] /\ codeAttempts'[d] = codeAttempts[d],
           stepUp'[c].status = "pending" => stepUp[c].status = "pending",
           codeAttempts'[c].cooldown > 0 => codeAttempts'[c].failed = 0,
           \A s \in LoginSessions, t \in Targets :
             \/ wrongCodes'[s][t] = wrongCodes[s][t]
                  /\ ((s = StepUpSession(c) /\ t = StepUpTarget(c) /\ stepUp[c].status = "pending")
                        => stepUp'[c].status = "pending" /\ codeAttempts'[c] = codeAttempts[c])
             \/ s = StepUpSession(c) /\ t = StepUpTarget(c)
                  /\ (wrongCodes'[s][t] = 0
                        \/ (stepUp'[c].status = "pending" /\ wrongCodes'[s][t] <= codeAttempts'[c].failed)),
           loginSession[StepUpSession(c)] = "revoked" =>
             /\ acts'[c] = acts[c] /\ assertion'[c].status = assertion[c].status
             /\ stepUp'[c].delivery = "delivered" => stepUp[c].delivery = "delivered"
    PROVE  StepUpInv' /\ StepUpFrozen
<1>1. StepUpRows'
  <2> SUFFICES ASSUME NEW d \in StepUps
               PROVE  /\ stepUp'[d].status = "absent" => NoStepUpYet(d)'
                      /\ stepUp'[d].status # "absent" => StepUpRow(d)'
                      /\ codeAttempts'[d].cooldown > 0 => codeAttempts'[d].failed = 0
    BY DEF StepUpRows
  <2>1. CASE d = c
    BY <2>1
  <2>2. CASE d # c
    <3>1. /\ stepUp[d].status = "absent" => NoStepUpYet(d)
          /\ stepUp[d].status # "absent" => StepUpRow(d)
          /\ codeAttempts[d].cooldown > 0 => codeAttempts[d].failed = 0
      BY DEF StepUpInv, StepUpRows
    <3> QED BY <2>2, <3>1 DEF StepUpRow, NoStepUpYet, StepUpSession, StepUpTarget
  <2> QED BY <2>1, <2>2
<1>2. OneStepUp'
  <2> SUFFICES ASSUME NEW d \in StepUps, NEW e \in StepUps,
                      stepUp'[d].status = "pending", stepUp'[e].status = "pending",
                      StepUpSession(d) = StepUpSession(e), StepUpTarget(d) = StepUpTarget(e)
               PROVE  d = e
    BY DEF OneStepUp, StepUpSession, StepUpTarget
  <2>1. stepUp[d].status = "pending" /\ stepUp[e].status = "pending"
    OBVIOUS
  <2> QED BY <2>1 DEF StepUpInv, OneStepUp
<1>3. StepUpCounted'
  <2> SUFFICES ASSUME NEW s \in LoginSessions, NEW t \in Targets, wrongCodes'[s][t] > 0
               PROVE  \E d \in StepUps :
                        /\ stepUp'[d].status = "pending"
                        /\ StepUpSession(d) = s /\ StepUpTarget(d) = t
                        /\ wrongCodes'[s][t] <= codeAttempts'[d].failed
    BY DEF StepUpCounted, StepUpSession, StepUpTarget
  <2>1. CASE s = StepUpSession(c) /\ t = StepUpTarget(c) /\ stepUp'[c].status = "pending"
               /\ wrongCodes'[s][t] <= codeAttempts'[c].failed
    BY <2>1
  <2>2. CASE wrongCodes'[s][t] = wrongCodes[s][t]
               /\ ((s = StepUpSession(c) /\ t = StepUpTarget(c) /\ stepUp[c].status = "pending")
                     => stepUp'[c].status = "pending" /\ codeAttempts'[c] = codeAttempts[c])
    <3>1. PICK d \in StepUps : /\ stepUp[d].status = "pending"
                               /\ StepUpSession(d) = s /\ StepUpTarget(d) = t
                               /\ wrongCodes[s][t] <= codeAttempts[d].failed
      BY <2>2 DEF StepUpInv, StepUpCounted
    <3>2. stepUp'[d].status = "pending" /\ codeAttempts'[d] = codeAttempts[d]
      BY <2>2, <3>1
    <3> QED BY <2>2, <3>1, <3>2
  <2> QED BY <2>1, <2>2
<1>4. StepUpFrozen
  BY DEF StepUpFrozen
<1> QED BY <1>1, <1>2, <1>3, <1>4 DEF StepUpInv

LEMMA StepUpSendKeeps ==
    ASSUME StepUpAssumption, StepUpInv, NEW c \in StepUps, SendRequired(c) \/ AbandonStepUp(c)
    PROVE  StepUpInv' /\ StepUpFrozen
<1>0. StepUpShape
  BY DEF StepUpInv
<1>1. stepUp[c].status # "absent" /\ StepUpRow(c)
      /\ (codeAttempts[c].cooldown > 0 => codeAttempts[c].failed = 0)
  BY DEF SendRequired, AbandonStepUp, StepUpInv, StepUpRows, NoStepUpYet
<1>2. PICK m \in ProviderResult, w \in {"idle", "finalizing"} :
        /\ message' = [message EXCEPT ![c] = m] /\ sending' = [sending EXCEPT ![c] = w]
        /\ message[c] # "none" => m = message[c]
  <2>1. CASE SendRequired(c)
    <3>1. message[c] = "none"
      BY <1>1, <2>1 DEF SendRequired, StepUpRow
    <3> QED BY <2>1, <3>1 DEF SendRequired
  <2>2. CASE AbandonStepUp(c)
    <3> DEFINE m == IF message[c] = "none" THEN "unavailable" ELSE message[c]
    <3>1. m \in ProviderResult /\ message' = [message EXCEPT ![c] = m]
          /\ sending' = [sending EXCEPT ![c] = "idle"]
      BY <1>0, <2>2 DEF AbandonStepUp, StepUpShape, ProviderResult
    <3> QED BY <3>1
  <2> QED BY <2>1, <2>2
<1>3. /\ loginSession' = loginSession /\ stepUp' = stepUp /\ askedWith' = askedWith
      /\ codeAttempts' = codeAttempts /\ assertion' = assertion /\ acts' = acts
      /\ wrongCodes' = wrongCodes
  BY DEF SendRequired, AbandonStepUp
<1>4. message'[c] = m /\ sending'[c] = w
      /\ \A d \in StepUps \ {c} : message'[d] = message[d] /\ sending'[d] = sending[d]
  BY <1>0, <1>2 DEF StepUpShape
<1>5. StepUpShape'
  BY <1>0, <1>2, <1>3 DEF StepUpShape
<1>6. StepUpRow(c)'
  BY <1>1, <1>2, <1>3, <1>4 DEF StepUpRow, StepUpSession, StepUpTarget
<1> QED BY <1>1, <1>3, <1>4, <1>5, <1>6, StepUpOneRow

LEMMA StepUpConfirmKeeps ==
    ASSUME StepUpAssumption, StepUpInv, NEW c \in StepUps,
           ConfirmStepUpDelivery(c) \/ FailStepUpDelivery(c)
    PROVE  StepUpInv' /\ StepUpFrozen
<1> DEFINE cancels == stepUp[c] = [status |-> "pending", delivery |-> "pending"]
           h == IF ConfirmStepUpDelivery(c)
                THEN IF StepUpActivatable(c) THEN [status |-> "pending", delivery |-> "delivered"]
                     ELSE stepUp[c]
                ELSE IF cancels THEN [status |-> "cancelled", delivery |-> "failed"] ELSE stepUp[c]
<1>0. StepUpShape
  BY DEF StepUpInv
<1>1. sending[c] = "finalizing" /\ sending' = [sending EXCEPT ![c] = "idle"]
      /\ UNCHANGED <<loginSession, askedWith, codeAttempts, message, assertion, acts>>
  BY DEF ConfirmStepUpDelivery, FailStepUpDelivery
<1>2. stepUp[c].status # "absent" /\ StepUpRow(c)
      /\ (codeAttempts[c].cooldown > 0 => codeAttempts[c].failed = 0)
  BY <1>1 DEF StepUpInv, StepUpRows, NoStepUpYet
<1>3. stepUp' = [stepUp EXCEPT ![c] = h]
  <2>1. CASE ConfirmStepUpDelivery(c) /\ StepUpActivatable(c)
    <3>1. stepUp' = [stepUp EXCEPT ![c].delivery = "delivered"]
      BY <2>1 DEF ConfirmStepUpDelivery
    <3>2. [stepUp[c] EXCEPT !.delivery = "delivered"] = h
      BY <2>1 DEF StepUpActivatable
    <3> QED BY <3>1, <3>2
  <2>2. CASE ~ ConfirmStepUpDelivery(c) /\ cancels
    <3>1. CancelledStepUp(stepUp[c]) = h
      BY <2>2 DEF CancelledStepUp
    <3> QED BY <2>2, <3>1 DEF FailStepUpDelivery
  <2>3. CASE (ConfirmStepUpDelivery(c) /\ ~ StepUpActivatable(c))
             \/ (~ ConfirmStepUpDelivery(c) /\ ~ cancels)
    <3>1. h = stepUp[c] /\ stepUp' = stepUp
      BY <2>3 DEF ConfirmStepUpDelivery, FailStepUpDelivery
    <3> QED BY <1>0, <3>1 DEF StepUpShape
  <2> QED BY <2>1, <2>2, <2>3
<1>4. /\ h \in RowStatuses /\ h.status # "absent"
      /\ h.status = "pending" => stepUp[c].status = "pending"
      /\ h.status = "completed" => h.delivery = "delivered" /\ stepUp[c].status = "completed"
      /\ stepUp[c].status = "completed" => h.status = "completed"
      /\ h.delivery = "delivered" => message[c] = "ok"
      /\ loginSession[StepUpSession(c)] = "revoked" /\ h.delivery = "delivered" =>
           stepUp[c].delivery = "delivered"
      /\ stepUp[c].status = "pending" => h.status = "pending" \/ (~ ConfirmStepUpDelivery(c) /\ cancels)
  <2>1. CASE ConfirmStepUpDelivery(c) /\ StepUpActivatable(c)
    <3>1. message[c] = "ok"
      BY <2>1 DEF ConfirmStepUpDelivery
    <3> QED BY <2>1, <3>1 DEF StepUpActivatable, RowStatuses
  <2>2. CASE ~ ConfirmStepUpDelivery(c) /\ cancels
    BY <2>2 DEF RowStatuses
  <2>3. CASE (ConfirmStepUpDelivery(c) /\ ~ StepUpActivatable(c))
             \/ (~ ConfirmStepUpDelivery(c) /\ ~ cancels)
    <3>1. h = stepUp[c]
      BY <2>3
    <3> QED BY <1>0, <1>2, <3>1 DEF StepUpShape, StepUpRow
  <2> QED BY <2>1, <2>2, <2>3
<1>5. wrongCodes' = (IF ~ ConfirmStepUpDelivery(c) /\ cancels
                     THEN [wrongCodes EXCEPT ![StepUpSession(c)][StepUpTarget(c)] = 0]
                     ELSE wrongCodes)
  <2>1. CASE ConfirmStepUpDelivery(c)
    BY <2>1 DEF ConfirmStepUpDelivery
  <2>2. CASE ~ ConfirmStepUpDelivery(c)
    BY <2>2 DEF FailStepUpDelivery
  <2> QED BY <2>1, <2>2
<1>c. StepUpSession(c) \in LoginSessions /\ StepUpTarget(c) \in Targets
  BY <1>2 DEF StepUpRow, StepUpSession, StepUpTarget, StepUpAssumption
<1> DEFINE resets == ~ ConfirmStepUpDelivery(c) /\ cancels
<1> HIDE DEF h
<1>6. stepUp'[c] = h /\ \A d \in StepUps \ {c} : stepUp'[d] = stepUp[d] /\ sending'[d] = sending[d]
  BY <1>0, <1>1, <1>3 DEF StepUpShape
<1>7. /\ wrongCodes' \in [LoginSessions -> [Targets -> 0 .. MaxAttempts]]
      /\ \A s \in LoginSessions, t \in Targets :
           IF resets /\ s = StepUpSession(c) /\ t = StepUpTarget(c)
           THEN wrongCodes'[s][t] = 0 ELSE wrongCodes'[s][t] = wrongCodes[s][t]
  BY <1>0, <1>5, <1>c DEF StepUpShape, StepUpAssumption, OtpAssumption
<1>8. StepUpShape'
  BY <1>0, <1>1, <1>3, <1>4, <1>7 DEF StepUpShape
<1>9. /\ loginSession' = loginSession /\ askedWith' = askedWith /\ codeAttempts' = codeAttempts
      /\ message' = message /\ assertion' = assertion /\ acts' = acts /\ sending'[c] = "idle"
  BY <1>0, <1>1 DEF StepUpShape
<1>10. StepUpRow(c)'
  BY <1>2, <1>4, <1>6, <1>9 DEF StepUpRow, StepUpSession, StepUpTarget
<1>11. \A s \in LoginSessions, t \in Targets :
             \/ wrongCodes'[s][t] = wrongCodes[s][t]
                  /\ ((s = StepUpSession(c) /\ t = StepUpTarget(c) /\ stepUp[c].status = "pending")
                        => stepUp'[c].status = "pending" /\ codeAttempts'[c] = codeAttempts[c])
             \/ s = StepUpSession(c) /\ t = StepUpTarget(c)
                  /\ (wrongCodes'[s][t] = 0
                        \/ (stepUp'[c].status = "pending" /\ wrongCodes'[s][t] <= codeAttempts'[c].failed))
  BY <1>4, <1>6, <1>7, <1>9
<1> HIDE DEF cancels, resets
<1> QED BY <1>2, <1>4, <1>6, <1>8, <1>9, <1>10, <1>11, StepUpOneRow

LEMMA StepUpVerifyKeeps ==
    ASSUME StepUpAssumption, StepUpInv, NEW c \in StepUps, VerifyStepUp(c)
    PROVE  StepUpInv' /\ StepUpFrozen
<1> DEFINE h == [status |-> "completed", delivery |-> "delivered"]
           a == [status |-> "issued", ttl |-> AssertionTtl]
<1>0. StepUpShape
  BY DEF StepUpInv
<1>1. /\ stepUp[c] = [status |-> "pending", delivery |-> "delivered"]
      /\ loginSession[StepUpSession(c)] = "active"
      /\ assertion' = [assertion EXCEPT ![c] = a]
      /\ wrongCodes' = [wrongCodes EXCEPT ![StepUpSession(c)][StepUpTarget(c)] = 0]
      /\ UNCHANGED <<loginSession, askedWith, codeTtl, sending, message, requestRecord, codeAttempts, acts>>
  BY DEF VerifyStepUp, StepUpVerifiable, CurrentSession, codes
<1>2. stepUp[c].status # "absent" /\ StepUpRow(c)
      /\ (codeAttempts[c].cooldown > 0 => codeAttempts[c].failed = 0)
  BY <1>1 DEF StepUpInv, StepUpRows
<1>3. stepUp' = [stepUp EXCEPT ![c] = h]
  <2>1. stepUp' = [stepUp EXCEPT ![c].status = "completed"]
    BY DEF VerifyStepUp
  <2>2. [stepUp[c] EXCEPT !.status = "completed"] = h
    BY <1>1
  <2> QED BY <2>1, <2>2
<1>4. h \in RowStatuses /\ a \in [status : {"none", "issued", "consumed"}, ttl : 0 .. AssertionTtl]
  BY DEF RowStatuses, StepUpAssumption
<1>5. stepUp'[c] = h /\ assertion'[c] = a
      /\ \A d \in StepUps \ {c} : stepUp'[d] = stepUp[d] /\ assertion'[d] = assertion[d]
  BY <1>0, <1>1, <1>3 DEF StepUpShape
<1>c. StepUpSession(c) \in LoginSessions /\ StepUpTarget(c) \in Targets
  BY <1>2 DEF StepUpRow, StepUpSession, StepUpTarget, StepUpAssumption
<1>6. /\ wrongCodes' \in [LoginSessions -> [Targets -> 0 .. MaxAttempts]]
      /\ \A s \in LoginSessions, t \in Targets :
           IF s = StepUpSession(c) /\ t = StepUpTarget(c)
           THEN wrongCodes'[s][t] = 0 ELSE wrongCodes'[s][t] = wrongCodes[s][t]
  BY <1>0, <1>1, <1>c DEF StepUpShape, StepUpAssumption, OtpAssumption
<1>7. /\ loginSession' = loginSession /\ askedWith' = askedWith /\ codeAttempts' = codeAttempts
      /\ message' = message /\ acts' = acts /\ sending' = sending
  BY <1>1
<1>8. StepUpShape'
  BY <1>0, <1>1, <1>3, <1>4, <1>6, <1>7 DEF StepUpShape
<1>9. assertion[c].status = "none" /\ acts[c] = <<>> /\ message[c] = "ok"
  BY <1>1, <1>2 DEF StepUpRow
<1>10. StepUpRow(c)'
  BY <1>2, <1>5, <1>7, <1>9 DEF StepUpRow
<1>11. stepUp'[c].status = "completed" /\ loginSession[StepUpSession(c)] # "revoked"
  BY <1>1, <1>5
<1> HIDE DEF h, a
<1> QED BY <1>2, <1>5, <1>6, <1>7, <1>8, <1>10, <1>11, StepUpOneRow

LEMMA StepUpFailKeeps ==
    ASSUME StepUpAssumption, StepUpInv, NEW c \in StepUps, FailStepUp(c)
    PROVE  StepUpInv' /\ StepUpFrozen
<1> DEFINE a == AfterFailure(codeAttempts[c])
           s0 == StepUpSession(c)
           t0 == StepUpTarget(c)
<1>0. StepUpShape /\ MaxAttempts \in Nat \ {0} /\ Cooldown \in Nat \ {0}
  BY DEF StepUpInv, StepUpAssumption, OtpAssumption
<1>1. /\ stepUp[c] = [status |-> "pending", delivery |-> "delivered"]
      /\ codeAttempts' = [codeAttempts EXCEPT ![c] = a]
      /\ wrongCodes' = [wrongCodes EXCEPT ![s0][t0] =
           IF codeAttempts'[c].cooldown > 0 THEN 0 ELSE @ + 1]
      /\ UNCHANGED <<loginSession, stepUp, askedWith, codeTtl, sending, message, requestRecord, assertion, acts>>
  BY DEF FailStepUp, StepUpVerifiable, CurrentSession, codes
<1>2. stepUp[c].status = "pending" /\ StepUpRow(c)
  BY <1>1 DEF StepUpInv, StepUpRows
<1>3. codeAttempts[c].failed \in 0 .. (MaxAttempts - 1)
  BY <1>0 DEF StepUpShape, AttemptState
<1>4. /\ a \in AttemptState
      /\ a.cooldown \in Nat
      /\ a.cooldown > 0 => a.failed = 0
      /\ a.cooldown = 0 => a.failed = codeAttempts[c].failed + 1
      /\ a.failed \in Nat /\ a.failed < MaxAttempts
  <2>1. CASE codeAttempts[c].failed + 1 >= MaxAttempts
    BY <1>0, <1>3, <2>1 DEF AfterFailure, AttemptState
  <2>2. CASE ~ (codeAttempts[c].failed + 1 >= MaxAttempts)
    BY <1>0, <1>3, <2>2 DEF AfterFailure, AttemptState
  <2> QED BY <2>1, <2>2
<1> HIDE DEF a
<1>5. codeAttempts'[c] = a /\ \A d \in StepUps \ {c} : codeAttempts'[d] = codeAttempts[d]
  BY <1>0, <1>1 DEF StepUpShape
<1>6. s0 \in LoginSessions /\ t0 \in Targets
  BY <1>2 DEF StepUpRow, StepUpSession, StepUpTarget, StepUpAssumption
<1>7. wrongCodes[s0][t0] \in Nat /\ wrongCodes[s0][t0] <= codeAttempts[c].failed
  <2>1. wrongCodes[s0][t0] \in Nat
    BY <1>0, <1>6 DEF StepUpShape
  <2>2. CASE wrongCodes[s0][t0] > 0
    <3>1. PICK d \in StepUps : /\ stepUp[d].status = "pending"
                               /\ StepUpSession(d) = s0 /\ StepUpTarget(d) = t0
                               /\ wrongCodes[s0][t0] <= codeAttempts[d].failed
      BY <1>6, <2>2 DEF StepUpInv, StepUpCounted
    <3>2. d = c
      BY <1>2, <3>1 DEF StepUpInv, OneStepUp
    <3> QED BY <2>1, <3>1, <3>2
  <2>3. CASE wrongCodes[s0][t0] = 0
    BY <1>3, <2>3
  <2> QED BY <2>1, <2>2, <2>3
<1>8. /\ wrongCodes'[s0][t0] = (IF a.cooldown > 0 THEN 0 ELSE wrongCodes[s0][t0] + 1)
      /\ wrongCodes'[s0][t0] \in 0 .. MaxAttempts
      /\ wrongCodes'[s0][t0] <= a.failed \/ (wrongCodes'[s0][t0] = 0 /\ a.cooldown > 0)
  <2>1. wrongCodes'[s0][t0] = (IF a.cooldown > 0 THEN 0 ELSE wrongCodes[s0][t0] + 1)
    BY <1>0, <1>1, <1>5, <1>6 DEF StepUpShape
  <2> QED BY <1>0, <1>3, <1>4, <1>7, <2>1
<1> HIDE DEF s0, t0
<1>9. /\ wrongCodes' \in [LoginSessions -> [Targets -> 0 .. MaxAttempts]]
      /\ \A s \in LoginSessions, t \in Targets :
           ~ (s = s0 /\ t = t0) => wrongCodes'[s][t] = wrongCodes[s][t]
  <2> DEFINE n == wrongCodes'[s0][t0]
  <2>1. n \in 0 .. MaxAttempts
    BY <1>0, <1>8
  <2>2. n = IF codeAttempts'[c].cooldown > 0 THEN 0 ELSE wrongCodes[s0][t0] + 1
    BY <1>0, <1>1, <1>6 DEF StepUpShape
  <2>3. wrongCodes' = [wrongCodes EXCEPT ![s0] = [wrongCodes[s0] EXCEPT ![t0] = n]]
    BY <1>1, <2>2
  <2> HIDE DEF n
  <2> QED BY <1>0, <1>6, <2>1, <2>3 DEF StepUpShape
<1>10. /\ loginSession' = loginSession /\ stepUp' = stepUp /\ askedWith' = askedWith
       /\ sending' = sending /\ message' = message /\ assertion' = assertion /\ acts' = acts
  BY <1>1
<1>11. StepUpShape'
  BY <1>0, <1>1, <1>4, <1>9, <1>10 DEF StepUpShape
<1>12. StepUpRow(c)'
  BY <1>2, <1>10 DEF StepUpRow, StepUpSession, StepUpTarget
<1>13. \A s \in LoginSessions, t \in Targets :
         \/ wrongCodes'[s][t] = wrongCodes[s][t] /\ ~ (s = s0 /\ t = t0)
         \/ s = s0 /\ t = t0
              /\ (wrongCodes'[s][t] = 0 \/ wrongCodes'[s][t] <= codeAttempts'[c].failed)
  BY <1>5, <1>8, <1>9
<1> QED BY <1>2, <1>4, <1>5, <1>10, <1>11, <1>12, <1>13, StepUpOneRow DEF s0, t0

LEMMA StepUpPerformKeeps ==
    ASSUME StepUpAssumption, StepUpInv, NEW c \in StepUps, NEW s \in LoginSessions,
           NEW t \in Targets, Perform(c, s, t)
    PROVE  StepUpInv' /\ StepUpFrozen
<1>0. StepUpShape
  BY DEF StepUpInv
<1>1. /\ loginSession[s] = "active" /\ StepUpSession(c) = s /\ StepUpTarget(c) = t
      /\ assertion[c].status = "issued" /\ stepUp[c].status = "completed"
      /\ assertion' = [assertion EXCEPT ![c].status = "consumed"]
      /\ acts' = [acts EXCEPT ![c] = Append(@, <<s, t>>)]
      /\ UNCHANGED <<loginSession, stepUp, askedWith, codeTtl, sending, message, requestRecord,
                     codeAttempts, wrongCodes>>
  BY DEF Perform, Consumable, AuthorityActive, codes
<1>2. StepUpRow(c) /\ stepUp[c].status # "absent"
      /\ (codeAttempts[c].cooldown > 0 => codeAttempts[c].failed = 0)
  BY <1>1 DEF StepUpInv, StepUpRows
<1>3. acts[c] = <<>>
  BY <1>1, <1>2 DEF StepUpRow
<1>4. acts'[c] = <<(<<s, t>>)>> /\ DOMAIN acts' = StepUps
      /\ \A d \in StepUps \ {c} : acts'[d] = acts[d]
  <2>1. acts'[c] = Append(<<>>, <<s, t>>)
    BY <1>0, <1>1, <1>3 DEF StepUpShape
  <2>2. Append(<<>>, <<s, t>>) = <<(<<s, t>>)>>
    OBVIOUS
  <2> QED BY <1>0, <1>1, <2>1, <2>2 DEF StepUpShape
<1>5. assertion'[c] = [assertion[c] EXCEPT !.status = "consumed"]
      /\ \A d \in StepUps \ {c} : assertion'[d] = assertion[d]
  BY <1>0, <1>1 DEF StepUpShape
<1>6. assertion'[c] \in [status : {"none", "issued", "consumed"}, ttl : 0 .. AssertionTtl]
      /\ assertion'[c].status = "consumed"
  BY <1>0, <1>5 DEF StepUpShape
<1>7. assertion' \in [StepUps -> [status : {"none", "issued", "consumed"}, ttl : 0 .. AssertionTtl]]
  BY <1>0, <1>1, <1>5, <1>6 DEF StepUpShape
<1>8. /\ loginSession' = loginSession /\ stepUp' = stepUp /\ askedWith' = askedWith
      /\ sending' = sending /\ message' = message /\ codeAttempts' = codeAttempts
      /\ wrongCodes' = wrongCodes
  BY <1>1
<1>9. StepUpShape'
  BY <1>0, <1>4, <1>7, <1>8 DEF StepUpShape
<1>10. StepUpRow(c)'
  BY <1>1, <1>2, <1>4, <1>6, <1>8 DEF StepUpRow, StepUpSession, StepUpTarget
<1>11. loginSession[StepUpSession(c)] # "revoked" /\ stepUp'[c].status # "pending"
  BY <1>1
<1> QED BY <1>2, <1>4, <1>5, <1>8, <1>9, <1>10, <1>11, StepUpOneRow

\* The steps that leave every challenge alone but for the clock.
LEMMA StepUpClockKeeps ==
    ASSUME StepUpAssumption, StepUpInv,
           (\E s \in LoginSessions : RevokeSession(s)) \/ StepUpTick \/ UNCHANGED stepUpVars
    PROVE  StepUpInv' /\ StepUpFrozen
<1>0. StepUpShape
  BY DEF StepUpInv
<1>1. /\ stepUp' = stepUp /\ askedWith' = askedWith /\ sending' = sending /\ message' = message
      /\ acts' = acts /\ wrongCodes' = wrongCodes
  BY DEF RevokeSession, StepUpTick, stepUpVars, codes
<1>2. loginSession' \in [LoginSessions -> {"active", "revoked"}]
  BY <1>0 DEF StepUpShape, RevokeSession, StepUpTick, stepUpVars
<1>3. /\ codeAttempts' \in [StepUps -> AttemptState]
      /\ \A c \in StepUps : codeAttempts'[c].failed = codeAttempts[c].failed
           /\ (codeAttempts'[c].cooldown > 0 => codeAttempts[c].cooldown > 0)
  <2>1. CASE StepUpTick
    <3>1. \A c \in StepUps :
            /\ [codeAttempts[c] EXCEPT !.cooldown = Elapsed(@)] \in AttemptState
            /\ [codeAttempts[c] EXCEPT !.cooldown = Elapsed(@)].failed = codeAttempts[c].failed
            /\ [codeAttempts[c] EXCEPT !.cooldown = Elapsed(@)].cooldown > 0 => codeAttempts[c].cooldown > 0
      <4> TAKE c \in StepUps
      <4>1. codeAttempts[c] \in [failed : 0 .. (MaxAttempts - 1), cooldown : 0 .. Cooldown]
        BY <1>0 DEF StepUpShape, AttemptState
      <4>2. Elapsed(codeAttempts[c].cooldown) \in 0 .. Cooldown
            /\ (Elapsed(codeAttempts[c].cooldown) > 0 => codeAttempts[c].cooldown > 0)
        BY <4>1 DEF Elapsed, StepUpAssumption, OtpAssumption
      <4> QED BY <4>1, <4>2 DEF AttemptState
    <3>2. codeAttempts' = [c \in StepUps |-> [codeAttempts[c] EXCEPT !.cooldown = Elapsed(@)]]
      BY <2>1 DEF StepUpTick
    <3> QED BY <3>1, <3>2
  <2>2. CASE ~ StepUpTick
    BY <1>0, <2>2 DEF StepUpShape, RevokeSession, stepUpVars
  <2> QED BY <2>1, <2>2
<1>4. /\ assertion' \in [StepUps -> [status : {"none", "issued", "consumed"}, ttl : 0 .. AssertionTtl]]
      /\ \A c \in StepUps : assertion'[c].status = assertion[c].status
  <2>1. CASE StepUpTick
    <3>1. \A c \in StepUps :
            /\ [assertion[c] EXCEPT !.ttl = Elapsed(@)]
                 \in [status : {"none", "issued", "consumed"}, ttl : 0 .. AssertionTtl]
            /\ [assertion[c] EXCEPT !.ttl = Elapsed(@)].status = assertion[c].status
      <4> TAKE c \in StepUps
      <4>1. assertion[c] \in [status : {"none", "issued", "consumed"}, ttl : 0 .. AssertionTtl]
        BY <1>0 DEF StepUpShape
      <4>2. Elapsed(assertion[c].ttl) \in 0 .. AssertionTtl
        BY <4>1 DEF Elapsed, StepUpAssumption
      <4> QED BY <4>1, <4>2
    <3>2. assertion' = [c \in StepUps |-> [assertion[c] EXCEPT !.ttl = Elapsed(@)]]
      BY <2>1 DEF StepUpTick
    <3> QED BY <3>1, <3>2
  <2>2. CASE ~ StepUpTick
    BY <1>0, <2>2 DEF StepUpShape, RevokeSession, stepUpVars
  <2> QED BY <2>1, <2>2
<1>5. StepUpShape'
  BY <1>0, <1>1, <1>2, <1>3, <1>4 DEF StepUpShape
<1>6. StepUpRows'
  <2> SUFFICES ASSUME NEW d \in StepUps
               PROVE  /\ stepUp[d].status = "absent" => NoStepUpYet(d)'
                      /\ stepUp[d].status # "absent" => StepUpRow(d)'
                      /\ codeAttempts'[d].cooldown > 0 => codeAttempts'[d].failed = 0
    BY <1>1 DEF StepUpRows
  <2>1. /\ stepUp[d].status = "absent" => NoStepUpYet(d)
        /\ stepUp[d].status # "absent" => StepUpRow(d)
        /\ codeAttempts[d].cooldown > 0 => codeAttempts[d].failed = 0
    BY DEF StepUpInv, StepUpRows
  <2> QED BY <1>1, <1>3, <1>4, <2>1 DEF NoStepUpYet, StepUpRow, StepUpSession, StepUpTarget
<1>7. OneStepUp'
  BY <1>1 DEF StepUpInv, OneStepUp, StepUpSession, StepUpTarget
<1>8. StepUpCounted'
  BY <1>1, <1>3 DEF StepUpInv, StepUpCounted, StepUpSession, StepUpTarget
<1>9. StepUpFrozen
  BY <1>1, <1>4 DEF StepUpFrozen
<1> QED BY <1>5, <1>6, <1>7, <1>8, <1>9 DEF StepUpInv

LEMMA StepUpStep ==
    ASSUME StepUpAssumption, StepUpInv, [StepUpNext]_stepUpVars
    PROVE  StepUpInv' /\ StepUpFrozen
<1>1. CASE \E c \in StepUps, k \in StepUpRequests : CreateStepUp(c, k)
  BY <1>1, StepUpCreateKeeps
<1>2. CASE \E c \in StepUps : SendRequired(c) \/ AbandonStepUp(c)
  BY <1>2, StepUpSendKeeps
<1>3. CASE \E c \in StepUps : ConfirmStepUpDelivery(c) \/ FailStepUpDelivery(c)
  BY <1>3, StepUpConfirmKeeps
<1>4. CASE \E c \in StepUps : VerifyStepUp(c)
  BY <1>4, StepUpVerifyKeeps
<1>5. CASE \E c \in StepUps : FailStepUp(c)
  BY <1>5, StepUpFailKeeps
<1>6. CASE \E c \in StepUps, s \in LoginSessions, t \in Targets : Perform(c, s, t)
  BY <1>6, StepUpPerformKeeps
<1>7. CASE (\E s \in LoginSessions : RevokeSession(s)) \/ StepUpTick \/ UNCHANGED stepUpVars
  BY <1>7, StepUpClockKeeps
<1> QED BY <1>1, <1>2, <1>3, <1>4, <1>5, <1>6, <1>7 DEF StepUpNext

LEMMA StepUpInvSound == ASSUME StepUpAssumption, StepUpInv PROVE ActsProven /\ StepUpBudget
<1>1. ActsProven
  <2> SUFFICES ASSUME NEW c \in StepUps
               PROVE  /\ Len(acts[c]) <= 1
                      /\ \A i \in DOMAIN acts[c] :
                           acts[c][i] = <<StepUpSession(c), StepUpTarget(c)>> /\ message[c] = "ok"
    BY DEF ActsProven
  <2>1. CASE acts[c] = <<>>
    BY <2>1
  <2>2. CASE acts[c] # <<>>
    <3>1. stepUp[c].status # "absent" /\ StepUpRow(c)
      BY <2>2 DEF StepUpInv, StepUpRows, NoStepUpYet
    <3>2. acts[c] = <<(<<StepUpSession(c), StepUpTarget(c)>>)>> /\ message[c] = "ok"
      BY <2>2, <3>1 DEF StepUpRow
    <3> QED BY <3>2
  <2> QED BY <2>1, <2>2
<1>2. StepUpBudget
  <2> SUFFICES ASSUME NEW s \in LoginSessions, NEW t \in Targets
               PROVE  wrongCodes[s][t] < MaxAttempts
    BY DEF StepUpBudget
  <2>1. wrongCodes[s][t] \in Nat /\ MaxAttempts \in Nat \ {0}
    BY DEF StepUpInv, StepUpShape, StepUpAssumption, OtpAssumption
  <2>2. CASE wrongCodes[s][t] > 0
    <3>1. PICK c \in StepUps : wrongCodes[s][t] <= codeAttempts[c].failed
      BY <2>2 DEF StepUpInv, StepUpCounted
    <3>2. codeAttempts[c].failed \in 0 .. (MaxAttempts - 1)
      BY DEF StepUpInv, StepUpShape, AttemptState
    <3> QED BY <2>1, <3>1, <3>2
  <2> QED BY <2>1, <2>2
<1> QED BY <1>1, <1>2

\* An assertion admits one call, of its session and on its target; a logout ends
\* every code and assertion of its session; and the codes of one target share one
\* budget of wrong guesses: for every number of sessions, targets and challenges
\* (step_up.rs: create_challenge, verify_challenge, consume).
THEOREM StepUpSoundHolds == StepUpSpec => StepUpSound
<1>1. StepUpInit => StepUpInv
  BY StepUpAssumption, StepUpInitInv
<1>2. StepUpInv /\ [StepUpNext]_stepUpVars => StepUpInv'
  BY StepUpAssumption, StepUpStep
<1>3. StepUpInv => ActsProven /\ StepUpBudget
  BY StepUpAssumption, StepUpInvSound
<1>4. StepUpInv /\ [StepUpNext]_stepUpVars => [StepUpFrozen]_stepUpVars
  BY StepUpAssumption, StepUpStep
<1>5. StepUpSpec => [][StepUpFrozen]_stepUpVars
  BY <1>1, <1>2, <1>4, PTL DEF StepUpSpec
<1>6. [][StepUpFrozen]_stepUpVars => RevocationFreezes
  BY PTL DEF StepUpFrozen, RevocationFreezes
<1> QED BY <1>1, <1>2, <1>3, <1>5, <1>6, PTL DEF StepUpSpec, StepUpSound

----------------------------------------------------------------------------
(* Signup *)

\* Two codes of one session and one kind of contact.
Alike(d, e) ==
    /\ entry[d].status # "absent" /\ entry[e].status # "absent"
    /\ SignupOf[askedBy[d]] = SignupOf[askedBy[e]]
    /\ Kind(Contact(d)) = Kind(Contact(e))

\* What the status of a row proves of its request and its message.
EntryCoherent(e) ==
    /\ entry[e].status = "absent" =>
         entryTask[e] = "idle" /\ entryBatch[e] = "none" /\ entry[e].delivery = "pending"
    /\ entry[e].status # "absent" => askedBy[e] \in ContactKeys
    /\ entry[e].delivery = "delivered" => entryBatch[e] = "ok"
    /\ entry[e].status = "verified" => entry[e].delivery = "delivered"
    /\ entryTask[e] = "sending" => entryBatch[e] = "none"

\* Rows are inserted in order, expire in order, and replace their predecessors.
EntryOrder ==
    \A d, e \in Entries : d < e /\ entry[e].status # "absent" =>
        /\ entry[d].status # "absent"
        /\ entryTtl[d] <= entryTtl[e]
        /\ Alike(d, e) => entry[d].status = "superseded"

\* A later code is bound by every cooldown of an earlier one that has not expired.
CooldownsCarried ==
    \A d, e \in Entries : d < e /\ Alike(d, e) /\ entryTtl[d] > 0
        => entryAttempts[d].cooldown <= entryAttempts[e].cooldown

\* Wrong codes are counted on the last code of their session and kind.
GuessesCounted ==
    \A s \in Signups, kind \in ContactKinds : entryWrong[s][kind] > 0 =>
        \E e \in EntriesOf(s, kind) :
            /\ \A d \in EntriesOf(s, kind) : d <= e
            /\ entryTtl[e] > 0 /\ entryAttempts[e].cooldown = 0
            /\ entryWrong[s][kind] <= entryAttempts[e].failed

SignupInv ==
    /\ SignupTypeOK
    /\ \A e \in Entries : EntryCoherent(e)
    /\ EntryOrder /\ CooldownsCarried /\ GuessesCounted
    /\ CarbonProvesContacts /\ ContactsUnique

----------------------------------------------------------------------------
\* The greatest of finitely many numbers, and 0.
LEMMA MaxBounded ==
    ASSUME NEW N \in Nat, NEW S \in SUBSET (0 .. N)
    PROVE  /\ Max(S \cup {0}) \in S \cup {0}
           /\ \A x \in S : x <= Max(S \cup {0})
<1> DEFINE T == S \cup {0}
           R == {n \in Nat : N - n \in T}
<1>1. T \subseteq 0 .. N /\ 0 \in T
  OBVIOUS
<1>2. N \in R
  BY <1>1
<1>3. PICK n \in R : \A m \in R : <<m, n>> \notin OpToRel(<, Nat)
  <2>1. R # {} /\ R \subseteq Nat
    BY <1>2
  <2>2. IsWellFoundedOn(OpToRel(<, Nat), Nat)
    BY NatLessThanWellFounded
  <2> HIDE DEF R, T
  <2> QED BY <2>1, <2>2, WFMin
<1>4. ASSUME NEW y \in T PROVE N - n >= y
  <2>1. y \in 0 .. N /\ N - y \in R
    BY <1>1
  <2>2. ~ (N - y < n)
    BY <1>3, <2>1 DEF OpToRel
  <2> QED BY <2>1, <2>2
<1>5. N - n \in T
  OBVIOUS
<1>6. \E x \in T : \A y \in T : x >= y
  BY <1>4, <1>5
<1>7. Max(T) \in T /\ \A y \in T : Max(T) >= y
  BY <1>6 DEF Max
<1> QED BY <1>1, <1>7

\* A new code inherits the longest cooldown, or else the most wrong guesses.
LEMMA Inherits ==
    ASSUME OtpAssumption, NEW S \in SUBSET AttemptState
    PROVE  /\ InheritedAttemptState(S) \in AttemptState
           /\ \A a \in S : a.cooldown <= InheritedAttemptState(S).cooldown
           /\ (\A a \in S : a.cooldown = 0) =>
                /\ InheritedAttemptState(S).cooldown = 0
                /\ \A a \in S : a.failed <= InheritedAttemptState(S).failed
<1> DEFINE C == {a.cooldown : a \in S}
           F == {a.failed : a \in S}
           c == Max(C \cup {0})
           f == Max(F \cup {0})
<1>0. MaxAttempts \in Nat \ {0} /\ Cooldown \in Nat
  BY DEF OtpAssumption
<1>1. C \in SUBSET (0 .. Cooldown) /\ F \in SUBSET (0 .. (MaxAttempts - 1))
  BY DEF AttemptState
<1>2. c \in C \cup {0} /\ \A x \in C : x <= c
  BY <1>0, <1>1, MaxBounded
<1>3. f \in F \cup {0} /\ \A x \in F : x <= f
  <2>1. MaxAttempts - 1 \in Nat
    BY <1>0
  <2> QED BY <1>1, <2>1, MaxBounded
<1>4. c \in 0 .. Cooldown /\ f \in 0 .. (MaxAttempts - 1)
  BY <1>0, <1>1, <1>2, <1>3
<1>5. InheritedAttemptState(S) =
        IF c > 0 THEN [failed |-> 0, cooldown |-> c] ELSE [failed |-> f, cooldown |-> 0]
  BY DEF InheritedAttemptState
<1>6. \A a \in S : a.cooldown <= c /\ a.failed <= f
  BY <1>2, <1>3
<1>7. (\A a \in S : a.cooldown = 0) => c = 0
  BY <1>2
<1> HIDE DEF c, f, C, F
<1>8. CASE c > 0
  BY <1>0, <1>4, <1>5, <1>6, <1>7, <1>8 DEF AttemptState
<1>9. CASE c = 0
  BY <1>0, <1>4, <1>5, <1>6, <1>7, <1>9 DEF AttemptState
<1> QED BY <1>4, <1>8, <1>9

\* What the invariant says of a column, for every use below.
LEMMA SignupColumn ==
    ASSUME SignupTypeOK, NEW e \in Entries
    PROVE  /\ e \in Nat
           /\ entry[e].status \in {"absent", "open", "verified", "superseded"}
           /\ entry[e].delivery \in {"pending", "delivered", "failed"}
           /\ entryTtl[e] \in 0 .. Ttl /\ entryTtl[e] \in Nat
           /\ entryAttempts[e] \in AttemptState
           /\ entryAttempts[e].failed \in 0 .. (MaxAttempts - 1)
           /\ entryAttempts[e].cooldown \in 0 .. Cooldown
           /\ entryAttempts[e].failed \in Nat /\ entryAttempts[e].cooldown \in Nat
BY SignupAssumption DEF SignupTypeOK, AttemptState, OtpAssumption, Entries

LEMMA SignupNumbers ==
    /\ MaxAttempts \in Nat \ {0} /\ Cooldown \in Nat \ {0} /\ Ttl \in Nat \ {0}
    /\ SignupTtl \in Nat \ {0} /\ Entries \subseteq Nat
    /\ NoAttempts \in AttemptState
BY SignupAssumption DEF OtpAssumption, Entries, NoAttempts, AttemptState

LEMMA SignupInitInv == SignupInit => SignupInv
<1> SUFFICES ASSUME SignupInit PROVE SignupInv
  OBVIOUS
<1>1. \A e \in Entries : entry[e] = NoEntry /\ entry[e].status = "absent" /\ entry[e].delivery = "pending"
  BY DEF SignupInit, NoEntry
<1>2. SignupTypeOK
  <2>1. \A s \in Signups : [status |-> "absent", ttl |-> 0] \in
          [status : {"absent", "pending", "completed"}, ttl : 0 .. SignupTtl]
    BY SignupNumbers
  <2>2. NoEntry \in [status : {"absent", "open", "verified", "superseded"},
                     delivery : {"pending", "delivered", "failed"}]
    BY DEF NoEntry
  <2>3. \A s \in Signups : [kind \in ContactKinds |-> 0] \in [ContactKinds -> 0 .. MaxAttempts]
    BY SignupNumbers
  <2> QED BY <2>1, <2>2, <2>3, SignupNumbers DEF SignupInit, SignupTypeOK
<1>3. \A e \in Entries : EntryCoherent(e)
  BY <1>1 DEF EntryCoherent, SignupInit
<1>4. EntryOrder /\ CooldownsCarried
  BY <1>1 DEF EntryOrder, CooldownsCarried, Alike
<1>5. GuessesCounted
  BY DEF GuessesCounted, SignupInit
<1>6. CarbonProvesContacts /\ ContactsUnique
  BY DEF CarbonProvesContacts, ContactsUnique, SignupInit
<1> QED BY <1>2, <1>3, <1>4, <1>5, <1>6 DEF SignupInv

----------------------------------------------------------------------------
(* Steps that insert no row and count no guess *)

\* The column of a row may move on, but what was superseded or verified stays so.
RowMoves(e) ==
    /\ entry'[e].status = "absent" <=> entry[e].status = "absent"
    /\ entry[e].status = "superseded" => entry'[e].status = "superseded"
    /\ entry[e].status = "verified" => entry'[e].status = "verified"
    /\ entryBatch[e] = "ok" => entryBatch'[e] = "ok"

RowsMove ==
    /\ SignupTypeOK' /\ (\A e \in Entries : EntryCoherent(e)' /\ RowMoves(e))
    /\ UNCHANGED <<askedBy, entryTtl, entryAttempts, entryWrong>>

LEMMA EntriesStay ==
    ASSUME UNCHANGED askedBy, \A e \in Entries : entry'[e].status = "absent" <=> entry[e].status = "absent"
    PROVE  /\ \A s, kind : EntriesOf(s, kind)' = EntriesOf(s, kind)
           /\ \A d, e \in Entries : Alike(d, e)' <=> Alike(d, e)
           /\ \A e \in Entries : Contact(e)' = Contact(e)
<1>1. \A e : Contact(e)' = Contact(e)
  BY DEF Contact
<1>2. \A e : Kind(Contact(e))' = Kind(Contact(e))
  BY <1>1 DEF Kind
<1> QED BY <1>1, <1>2 DEF EntriesOf, Alike

LEMMA OrderMoves ==
    ASSUME SignupInv, RowsMove
    PROVE  EntryOrder' /\ CooldownsCarried' /\ GuessesCounted'
<1>1. /\ \A s, kind : EntriesOf(s, kind)' = EntriesOf(s, kind)
      /\ \A d, e \in Entries : Alike(d, e)' <=> Alike(d, e)
  BY EntriesStay DEF RowsMove, RowMoves
<1>2. EntryOrder'
  BY <1>1 DEF SignupInv, EntryOrder, RowsMove, RowMoves
<1>3. CooldownsCarried'
  BY <1>1 DEF SignupInv, CooldownsCarried, RowsMove
<1>4. GuessesCounted'
  BY <1>1 DEF SignupInv, GuessesCounted, RowsMove
<1> QED BY <1>2, <1>3, <1>4

LEMMA ProofMoves ==
    ASSUME SignupInv, \A e \in Entries : RowMoves(e), UNCHANGED askedBy,
           NEW s \in Signups, UNCHANGED owned, signup[s].status = "completed"
    PROVE  /\ {Kind(c) : c \in owned'[s]} = ContactKinds
           /\ \A c \in owned'[s] : \E e \in EntriesOf(s, Kind(c))' :
                Contact(e)' = c /\ entry'[e].status = "verified" /\ entryBatch'[e] = "ok"
<1>1. /\ \A kind : EntriesOf(s, kind)' = EntriesOf(s, kind)
      /\ \A e \in Entries : Contact(e)' = Contact(e)
  BY EntriesStay DEF RowMoves
<1>2. {Kind(c) : c \in owned[s]} = ContactKinds
  BY DEF SignupInv, CarbonProvesContacts
<1>3. ASSUME NEW c \in owned[s]
      PROVE  \E e \in EntriesOf(s, Kind(c))' :
                Contact(e)' = c /\ entry'[e].status = "verified" /\ entryBatch'[e] = "ok"
  <2>1. PICK e \in EntriesOf(s, Kind(c)) :
          Contact(e) = c /\ entry[e].status = "verified" /\ entryBatch[e] = "ok"
    BY DEF SignupInv, CarbonProvesContacts
  <2>2. e \in Entries
    BY DEF EntriesOf
  <2> QED BY <1>1, <2>1, <2>2 DEF RowMoves
<1> QED BY <1>2, <1>3

\* Nothing but a completion gives a carbon its contacts.
LEMMA MovesKeep ==
    ASSUME SignupInv, RowsMove, UNCHANGED owned,
           \A s \in Signups : signup'[s].status = "completed" => signup[s].status = "completed"
    PROVE  SignupInv'
<1>1. EntryOrder' /\ CooldownsCarried' /\ GuessesCounted'
  BY OrderMoves
<1>2. CarbonProvesContacts'
  BY ProofMoves DEF CarbonProvesContacts, RowsMove
<1>3. ContactsUnique'
  BY DEF SignupInv, ContactsUnique
<1> QED BY <1>1, <1>2, <1>3 DEF SignupInv, RowsMove

LEMMA CreateSignupKeeps ==
    ASSUME SignupInv, NEW s \in Signups, CreateSession(s)
    PROVE  SignupInv'
<1>1. /\ signup' = [signup EXCEPT ![s] = [status |-> "pending", ttl |-> SignupTtl]]
      /\ signup \in [Signups -> [status : {"absent", "pending", "completed"}, ttl : 0 .. SignupTtl]]
      /\ UNCHANGED <<entry, askedBy, entryTtl, entryAttempts, entryTask, entryBatch, contactKey,
                     owned, entryWrong>>
  BY DEF CreateSession, SignupInv, SignupTypeOK
<1>2. SignupTypeOK'
  <2>1. [status |-> "pending", ttl |-> SignupTtl] \in
          [status : {"absent", "pending", "completed"}, ttl : 0 .. SignupTtl]
    BY SignupNumbers
  <2>2. signup' \in [Signups -> [status : {"absent", "pending", "completed"}, ttl : 0 .. SignupTtl]]
    BY <1>1, <2>1
  <2> QED BY <1>1, <2>2 DEF SignupInv, SignupTypeOK
<1>3. RowsMove
  BY <1>1, <1>2 DEF RowsMove, RowMoves, SignupInv, EntryCoherent
<1>4. \A t \in Signups : signup'[t].status = "completed" => signup[t].status = "completed"
  BY <1>1
<1> QED BY <1>1, <1>3, <1>4, MovesKeep

LEMMA StartTakenKeeps ==
    ASSUME SignupInv, NEW k \in ContactKeys, StartTakenContact(k)
    PROVE  SignupInv'
<1>1. /\ contactKey' = [contactKey EXCEPT ![k] = "completed"]
      /\ UNCHANGED <<signup, entry, askedBy, entryTtl, entryAttempts, entryTask, entryBatch, owned,
                     entryWrong>>
  BY DEF StartTakenContact
<1>2. SignupTypeOK'
  BY <1>1 DEF SignupInv, SignupTypeOK
<1>3. RowsMove
  BY <1>1, <1>2 DEF RowsMove, RowMoves, SignupInv, EntryCoherent
<1> QED BY <1>1, <1>3, MovesKeep

LEMMA SendSignupKeeps ==
    ASSUME SignupInv, NEW e \in Entries, SendSignup(e)
    PROVE  SignupInv'
<1>1. PICK result \in ProviderResult :
        /\ entryBatch' = [entryBatch EXCEPT ![e] = result]
        /\ entryTask' = [entryTask EXCEPT ![e] =
             IF result = "ok" \/ Definitive(result) THEN "finalizing" ELSE "idle"]
  BY DEF SendSignup
<1>2. /\ entryTask[e] = "sending"
      /\ UNCHANGED <<signup, entry, askedBy, entryTtl, entryAttempts, contactKey, owned, entryWrong>>
  BY DEF SendSignup
<1>3. SignupTypeOK /\ EntryCoherent(e)
  BY DEF SignupInv
<1>4. SignupTypeOK'
  BY <1>1, <1>2, <1>3 DEF SignupTypeOK
<1>5. /\ entryBatch'[e] = result /\ entryTask'[e] # "sending"
      /\ \A d \in Entries \ {e} : entryBatch'[d] = entryBatch[d] /\ entryTask'[d] = entryTask[d]
  BY <1>1, <1>3 DEF SignupTypeOK
<1>6. ASSUME NEW d \in Entries PROVE EntryCoherent(d)' /\ RowMoves(d)
  <2>1. CASE d = e
    BY <1>2, <1>3, <1>5, <2>1 DEF EntryCoherent, RowMoves
  <2>2. CASE d # e
    BY <1>2, <1>5, <2>2 DEF SignupInv, EntryCoherent, RowMoves
  <2> QED BY <2>1, <2>2
<1> QED BY <1>2, <1>4, <1>6, MovesKeep DEF RowsMove

LEMMA AbandonSignupKeeps ==
    ASSUME SignupInv, NEW e \in Entries, AbandonSignup(e)
    PROVE  SignupInv'
<1>1. /\ entryTask[e] # "idle"
      /\ entryTask' = [entryTask EXCEPT ![e] = "idle"]
      /\ entryBatch' = [entryBatch EXCEPT ![e] = IF @ = "none" THEN "unavailable" ELSE @]
      /\ UNCHANGED <<signup, entry, askedBy, entryTtl, entryAttempts, contactKey, owned, entryWrong>>
  BY DEF AbandonSignup
<1>2. SignupTypeOK /\ EntryCoherent(e)
  BY DEF SignupInv
<1>3. SignupTypeOK'
  BY <1>1, <1>2 DEF SignupTypeOK, ProviderResult
<1>4. /\ entryTask'[e] = "idle" /\ (entryBatch[e] # "none" => entryBatch'[e] = entryBatch[e])
      /\ \A d \in Entries \ {e} : entryBatch'[d] = entryBatch[d] /\ entryTask'[d] = entryTask[d]
  BY <1>1, <1>2 DEF SignupTypeOK
<1>5. ASSUME NEW d \in Entries PROVE EntryCoherent(d)' /\ RowMoves(d)
  <2>1. CASE d = e
    BY <1>1, <1>2, <1>4, <2>1 DEF EntryCoherent, RowMoves
  <2>2. CASE d # e
    BY <1>1, <1>4, <2>2 DEF SignupInv, EntryCoherent, RowMoves
  <2> QED BY <2>1, <2>2
<1> QED BY <1>1, <1>3, <1>5, MovesKeep DEF RowsMove

LEMMA ConfirmSignupKeeps ==
    ASSUME SignupInv, NEW e \in Entries, ConfirmSignupDelivery(e)
    PROVE  SignupInv'
<1>1. /\ entryTask[e] = "finalizing" /\ entryBatch[e] = "ok"
      /\ entry' = IF EntryActivatable(e) THEN [entry EXCEPT ![e].delivery = "delivered"] ELSE entry
      /\ contactKey' = [contactKey EXCEPT ![askedBy[e]] =
           IF EntryActivatable(e) THEN "completed" ELSE "none"]
      /\ entryTask' = [entryTask EXCEPT ![e] = "idle"]
      /\ UNCHANGED <<signup, askedBy, entryTtl, entryAttempts, entryBatch, owned, entryWrong>>
  BY DEF ConfirmSignupDelivery
<1>2. SignupTypeOK /\ EntryCoherent(e)
  BY DEF SignupInv
<1>3. PICK row \in [status : {"absent", "open", "verified", "superseded"},
                    delivery : {"pending", "delivered", "failed"}] :
        row = IF EntryActivatable(e) THEN [entry[e] EXCEPT !.delivery = "delivered"] ELSE entry[e]
  <2>1. entry[e] \in [status : {"absent", "open", "verified", "superseded"},
                     delivery : {"pending", "delivered", "failed"}]
    BY <1>2 DEF SignupTypeOK
  <2>2. [entry[e] EXCEPT !.delivery = "delivered"] \in
          [status : {"absent", "open", "verified", "superseded"},
           delivery : {"pending", "delivered", "failed"}]
    BY <2>1
  <2> QED BY <2>1, <2>2
<1>4. /\ row.status = entry[e].status
      /\ row.delivery = entry[e].delivery \/ row.delivery = "delivered"
      /\ entry' = [entry EXCEPT ![e] = row]
  <2>1. CASE EntryActivatable(e)
    BY <1>1, <1>2, <1>3, <2>1 DEF SignupTypeOK
  <2>2. CASE ~ EntryActivatable(e)
    BY <1>1, <1>2, <1>3, <2>2 DEF SignupTypeOK
  <2> QED BY <2>1, <2>2
<1>5. SignupTypeOK'
  <2>1. contactKey' \in [ContactKeys -> {"none", "processing", "completed"}]
    BY <1>1, <1>2 DEF SignupTypeOK
  <2>2. entry' \in [Entries -> [status : {"absent", "open", "verified", "superseded"},
                                delivery : {"pending", "delivered", "failed"}]]
    BY <1>2, <1>4 DEF SignupTypeOK
  <2>3. entryTask' \in [Entries -> {"idle", "sending", "finalizing"}]
    BY <1>1, <1>2 DEF SignupTypeOK
  <2> QED BY <1>1, <1>2, <2>1, <2>2, <2>3 DEF SignupTypeOK
<1>6. /\ entry'[e] = row /\ entryTask'[e] = "idle"
      /\ \A d \in Entries \ {e} : entry'[d] = entry[d] /\ entryTask'[d] = entryTask[d]
  BY <1>1, <1>2, <1>4 DEF SignupTypeOK
<1>7. ASSUME NEW d \in Entries PROVE EntryCoherent(d)' /\ RowMoves(d)
  <2>1. CASE d = e
    BY <1>1, <1>2, <1>4, <1>6, <2>1 DEF EntryCoherent, RowMoves
  <2>2. CASE d # e
    BY <1>1, <1>6, <2>2 DEF SignupInv, EntryCoherent, RowMoves
  <2> QED BY <2>1, <2>2
<1> QED BY <1>1, <1>5, <1>7, MovesKeep DEF RowsMove

LEMMA FailSignupKeeps ==
    ASSUME SignupInv, NEW e \in Entries, FailSignupDelivery(e)
    PROVE  SignupInv'
<1>1. /\ entryTask[e] = "finalizing" /\ entryBatch[e] = "rejected"
      /\ entry' = [entry EXCEPT ![e] = Replaced(entry[e])]
      /\ contactKey' = [contactKey EXCEPT ![askedBy[e]] = "none"]
      /\ entryTask' = [entryTask EXCEPT ![e] = "idle"]
      /\ UNCHANGED <<signup, askedBy, entryTtl, entryAttempts, entryBatch, owned, entryWrong>>
  BY DEF FailSignupDelivery, Definitive
<1>2. SignupTypeOK /\ EntryCoherent(e)
  BY DEF SignupInv
<1>3. /\ Replaced(entry[e]) \in [status : {"absent", "open", "verified", "superseded"},
                                 delivery : {"pending", "delivered", "failed"}]
      /\ Replaced(entry[e]).status = "superseded"
      /\ Replaced(entry[e]).delivery = "delivered" => entry[e].delivery = "delivered"
  BY <1>2, SignupColumn DEF Replaced
<1>4. SignupTypeOK'
  <2>1. contactKey' \in [ContactKeys -> {"none", "processing", "completed"}]
    BY <1>1, <1>2 DEF SignupTypeOK
  <2>2. entry' \in [Entries -> [status : {"absent", "open", "verified", "superseded"},
                                delivery : {"pending", "delivered", "failed"}]]
    BY <1>1, <1>2, <1>3 DEF SignupTypeOK
  <2>3. entryTask' \in [Entries -> {"idle", "sending", "finalizing"}]
    BY <1>1, <1>2 DEF SignupTypeOK
  <2> QED BY <1>1, <1>2, <2>1, <2>2, <2>3 DEF SignupTypeOK
<1>5. /\ entry'[e] = Replaced(entry[e]) /\ entryTask'[e] = "idle"
      /\ \A d \in Entries \ {e} : entry'[d] = entry[d] /\ entryTask'[d] = entryTask[d]
  BY <1>1, <1>2 DEF SignupTypeOK
<1>6. ASSUME NEW d \in Entries PROVE EntryCoherent(d)' /\ RowMoves(d)
  <2>1. CASE d = e
    BY <1>1, <1>2, <1>3, <1>5, <2>1 DEF EntryCoherent, RowMoves
  <2>2. CASE d # e
    BY <1>1, <1>5, <2>2 DEF SignupInv, EntryCoherent, RowMoves
  <2> QED BY <2>1, <2>2
<1> QED BY <1>1, <1>4, <1>6, MovesKeep DEF RowsMove

LEMMA VerifyContactKeeps ==
    ASSUME SignupInv, NEW e \in Entries, VerifyContact(e)
    PROVE  SignupInv'
<1>1. /\ entry[e] = [status |-> "open", delivery |-> "delivered"]
      /\ entry' = [entry EXCEPT ![e].status = "verified"]
      /\ UNCHANGED <<signup, askedBy, entryTtl, entryAttempts, entryTask, entryBatch, contactKey,
                     owned, entryWrong>>
  BY DEF VerifyContact, EntryVerifiable
<1>2. SignupTypeOK /\ EntryCoherent(e)
  BY DEF SignupInv
<1>3. /\ entry'[e].status = "verified" /\ entry'[e].delivery = "delivered"
      /\ \A d \in Entries \ {e} : entry'[d] = entry[d]
  BY <1>1, <1>2 DEF SignupTypeOK
<1>4. SignupTypeOK'
  BY <1>1, <1>2 DEF SignupTypeOK
<1>5. ASSUME NEW d \in Entries PROVE EntryCoherent(d)' /\ RowMoves(d)
  <2>1. CASE d = e
    BY <1>1, <1>2, <1>3, <2>1 DEF EntryCoherent, RowMoves
  <2>2. CASE d # e
    BY <1>1, <1>3, <2>2 DEF SignupInv, EntryCoherent, RowMoves
  <2> QED BY <2>1, <2>2
<1> QED BY <1>1, <1>4, <1>5, MovesKeep DEF RowsMove

\* A completion gives the session the contacts it verified, if nobody has them.
LEMMA CompleteSignupKeeps ==
    ASSUME SignupInv, NEW s \in Signups, CompleteSignup(s)
    PROVE  SignupInv'
<1>1. PICK contacts : contacts = {Contact(e) : e \in VerifiedEntries(s)}
  OBVIOUS
<1>2. /\ {Kind(c) : c \in contacts} = ContactKinds
      /\ \A c \in contacts : \A t \in Signups : c \notin owned[t]
      /\ owned' = [owned EXCEPT ![s] = contacts]
      /\ signup' = [signup EXCEPT ![s].status = "completed"]
      /\ UNCHANGED <<entry, askedBy, entryTtl, entryAttempts, entryTask, entryBatch, contactKey, entryWrong>>
  BY <1>1 DEF CompleteSignup, Claimable, Taken
<1>3. SignupTypeOK
  BY DEF SignupInv
<1>4. \A e \in VerifiedEntries(s) :
        e \in Entries /\ entry[e].status = "verified" /\ e \in EntriesOf(s, Kind(Contact(e)))
  BY DEF VerifiedEntries, EntriesOf
<1>5. \A e \in VerifiedEntries(s) : entryBatch[e] = "ok" /\ Contact(e) \in Contacts
  BY <1>4 DEF SignupInv, EntryCoherent, Contact, Contacts
<1>6. SignupTypeOK'
  <2>1. contacts \in SUBSET Contacts
    BY <1>1, <1>5
  <2>2. owned' \in [Signups -> SUBSET Contacts]
    BY <1>2, <1>3, <2>1 DEF SignupTypeOK
  <2>3. signup' \in [Signups -> [status : {"absent", "pending", "completed"}, ttl : 0 .. SignupTtl]]
    BY SMTT(30), <1>2, <1>3 DEF SignupTypeOK
  <2> QED BY <1>2, <1>3, <2>2, <2>3 DEF SignupTypeOK
<1>7. \A e \in Entries : EntryCoherent(e)' /\ RowMoves(e)
  BY <1>2 DEF SignupInv, EntryCoherent, RowMoves
<1>8. EntryOrder' /\ CooldownsCarried' /\ GuessesCounted'
  BY <1>2, <1>6, <1>7, OrderMoves DEF RowsMove
<1>9. /\ \A t, kind : EntriesOf(t, kind)' = EntriesOf(t, kind)
      /\ \A e \in Entries : Contact(e)' = Contact(e)
  BY <1>2, EntriesStay
<1>10. owned'[s] = contacts /\ \A t \in Signups \ {s} : owned'[t] = owned[t] /\ signup'[t] = signup[t]
  BY <1>2, <1>3 DEF SignupTypeOK
<1>11. CarbonProvesContacts'
  <2> SUFFICES ASSUME NEW t \in Signups, signup'[t].status = "completed"
               PROVE  /\ {Kind(c) : c \in owned'[t]} = ContactKinds
                      /\ \A c \in owned'[t] : \E e \in EntriesOf(t, Kind(c)) :
                           Contact(e) = c /\ entry[e].status = "verified" /\ entryBatch[e] = "ok"
    BY <1>2, <1>9 DEF CarbonProvesContacts, EntriesOf
  <2>1. CASE t = s
    BY <1>1, <1>2, <1>4, <1>5, <1>10, <2>1
  <2>2. CASE t # s
    BY <1>10, <2>2 DEF SignupInv, CarbonProvesContacts
  <2> QED BY <2>1, <2>2
<1>12. ContactsUnique'
  <2> SUFFICES ASSUME NEW t \in Signups, NEW u \in Signups, t # u, NEW c, c \in owned'[t], c \in owned'[u]
               PROVE  FALSE
    BY DEF ContactsUnique
  <2>1. CASE t = s
    BY <1>2, <1>10, <2>1
  <2>2. CASE u = s
    BY <1>2, <1>10, <2>2
  <2>3. CASE t # s /\ u # s
    BY <1>10, <2>3 DEF SignupInv, ContactsUnique
  <2> QED BY <2>1, <2>2, <2>3
<1> QED BY <1>6, <1>7, <1>8, <1>11, <1>12 DEF SignupInv

----------------------------------------------------------------------------
(* A new code *)

EntryRow == [status : {"absent", "open", "verified", "superseded"},
             delivery : {"pending", "delivered", "failed"}]

\* What the insertion of a code leaves in the rows before and after it.
Inserted(n, k) ==
    LET s == SignupOf[k]
        kind == Kind(ContactOf[k]) IN
    /\ k \in ContactKeys /\ s \in Signups /\ kind \in ContactKinds
    /\ \A d \in Entries : entry[d].status # "absent" <=> d < n
    /\ entry' \in [Entries -> EntryRow]
    /\ entry'[n] = [status |-> "open", delivery |-> "pending"] /\ askedBy'[n] = k
    /\ entryTtl'[n] = Ttl /\ entryTask'[n] = "sending"
    /\ entryAttempts'[n] = InheritedAttemptState({entryAttempts[d] : d \in EntryAttemptRows(s, kind)})
    /\ \A d \in Entries \ {n} :
         /\ askedBy'[d] = askedBy[d] /\ entryTtl'[d] = entryTtl[d] /\ entryTask'[d] = entryTask[d]
         /\ entryAttempts'[d] = entryAttempts[d]
         /\ d \in EntriesOf(s, kind) => entry'[d].status = "superseded"
         /\ entry'[d].delivery = "delivered" => entry[d].delivery = "delivered"
         /\ entry[d].status # "open" => entry'[d] = entry[d]
         /\ entry[d].status = "open" => entry'[d].status \in {"open", "superseded"}
    /\ EntriesOf(s, kind)' = EntriesOf(s, kind) \cup {n}
    /\ \A t, other : ~ (t = s /\ other = kind) => EntriesOf(t, other)' = EntriesOf(t, other)
    /\ UNCHANGED <<signup, entryBatch, owned, entryWrong>>

LEMMA InsertedRows ==
    ASSUME SignupInv, NEW n \in Entries, NEW k \in ContactKeys, StartContact(n, k)
    PROVE  Inserted(n, k)
<1> DEFINE s == SignupOf[k]
           kind == Kind(ContactOf[k])
<1>0. SignupTypeOK /\ n \in Nat
  BY SignupNumbers DEF SignupInv
<1>1. /\ \A e \in EntriesOf(s, kind) : entry[e].status # "verified"
      /\ entry[n].status = "absent"
      /\ \A d \in 1 .. (n - 1) : entry[d].status # "absent"
      /\ entry' = [d \in Entries |->
           CASE d = n -> [status |-> "open", delivery |-> "pending"]
             [] d \in SupersededEntries(s, kind) -> Replaced(entry[d])
             [] OTHER -> entry[d]]
      /\ askedBy' = [askedBy EXCEPT ![n] = k]
      /\ entryTtl' = [entryTtl EXCEPT ![n] = Ttl]
      /\ entryAttempts' = [entryAttempts EXCEPT ![n] =
           InheritedAttemptState({entryAttempts[d] : d \in EntryAttemptRows(s, kind)})]
      /\ entryTask' = [entryTask EXCEPT ![n] = "sending"]
      /\ UNCHANGED <<signup, entryBatch, owned, entryWrong>>
  BY DEF StartContact, ContactStartable
<1>2. s \in Signups /\ kind \in ContactKinds
  BY SignupAssumption DEF Kind, ContactKinds
<1>3. ASSUME NEW d \in Entries PROVE entry[d].status # "absent" <=> d < n
  <2>1. d \in Nat /\ d >= 1
    BY SignupAssumption DEF Entries
  <2>2. d < n => d \in 1 .. (n - 1)
    BY <1>0, <2>1
  <2>3. n < d => entry[d].status = "absent"
    BY <1>1 DEF SignupInv, EntryOrder
  <2> QED BY <1>0, <1>1, <2>1, <2>2, <2>3
<1>4. n \notin SupersededEntries(s, kind)
  BY <1>1 DEF SupersededEntries, EntriesOf
<1>5. ASSUME NEW d \in Entries
      PROVE  /\ Replaced(entry[d]) \in EntryRow /\ entry[d] \in EntryRow
             /\ Replaced(entry[d]).status = "superseded"
             /\ Replaced(entry[d]).delivery = "delivered" => entry[d].delivery = "delivered"
  BY <1>0, SignupColumn DEF Replaced, EntryRow, SignupTypeOK
<1>6. /\ entry'[n] = [status |-> "open", delivery |-> "pending"]
      /\ \A d \in Entries \ {n} :
           /\ d \in SupersededEntries(s, kind) => entry'[d] = Replaced(entry[d])
           /\ d \notin SupersededEntries(s, kind) => entry'[d] = entry[d]
  BY <1>1, <1>4
<1>7. entry' \in [Entries -> EntryRow]
  <2>1. \A d \in Entries : entry'[d] \in EntryRow
    BY <1>5, <1>6 DEF EntryRow
  <2>2. DOMAIN entry' = Entries /\ entry' = [d \in Entries |-> entry'[d]]
    BY <1>1
  <2> QED BY <2>1, <2>2
<1>8. /\ askedBy'[n] = k /\ entryTtl'[n] = Ttl /\ entryTask'[n] = "sending"
      /\ entryAttempts'[n] = InheritedAttemptState({entryAttempts[d] : d \in EntryAttemptRows(s, kind)})
      /\ \A d \in Entries \ {n} :
           /\ askedBy'[d] = askedBy[d] /\ entryTtl'[d] = entryTtl[d] /\ entryTask'[d] = entryTask[d]
           /\ entryAttempts'[d] = entryAttempts[d]
  BY <1>0, <1>1 DEF SignupTypeOK
<1>9. ASSUME NEW d \in Entries \ {n}
      PROVE  /\ d \in EntriesOf(s, kind) => entry'[d].status = "superseded"
             /\ entry'[d].delivery = "delivered" => entry[d].delivery = "delivered"
             /\ entry[d].status # "open" => entry'[d] = entry[d]
             /\ entry[d].status = "open" => entry'[d].status \in {"open", "superseded"}
             /\ entry'[d].status = "absent" <=> entry[d].status = "absent"
  <2>1. CASE d \in SupersededEntries(s, kind)
    BY <1>5, <1>6, <2>1 DEF SupersededEntries
  <2>2. CASE d \notin SupersededEntries(s, kind)
    BY <1>0, <1>1, <1>6, <2>2, SignupColumn DEF SupersededEntries, EntriesOf
  <2> QED BY <2>1, <2>2
<1>10. /\ Contact(n)' = ContactOf[k] /\ \A d \in Entries \ {n} : Contact(d)' = Contact(d)
       /\ SignupOf[askedBy'[n]] = s /\ \A d \in Entries \ {n} : SignupOf[askedBy'[d]] = SignupOf[askedBy[d]]
  BY <1>8 DEF Contact
<1>11. Kind(Contact(n))' = kind /\ \A d \in Entries \ {n} : Kind(Contact(d))' = Kind(Contact(d))
  BY <1>10 DEF Kind
<1>12. ASSUME NEW t, NEW other, NEW d \in Entries \ {n}
       PROVE  d \in EntriesOf(t, other)' <=> d \in EntriesOf(t, other)
  BY <1>9, <1>10, <1>11 DEF EntriesOf
<1>13. ASSUME NEW t, NEW other
       PROVE  /\ n \in EntriesOf(t, other)' <=> (t = s /\ other = kind)
              /\ n \notin EntriesOf(t, other)
  BY <1>1, <1>6, <1>10, <1>11 DEF EntriesOf
<1>14. \A t, other : EntriesOf(t, other) \subseteq Entries /\ EntriesOf(t, other)' \subseteq Entries
  BY DEF EntriesOf
<1>15. EntriesOf(s, kind)' = EntriesOf(s, kind) \cup {n}
  BY <1>12, <1>13, <1>14
<1>16. ASSUME NEW t, NEW other, ~ (t = s /\ other = kind)
       PROVE  EntriesOf(t, other)' = EntriesOf(t, other)
  BY <1>12, <1>13, <1>14, <1>16
<1> QED BY <1>1, <1>2, <1>3, <1>6, <1>7, <1>8, <1>9, <1>15, <1>16 DEF Inserted

LEMMA AlikeEntries ==
    ASSUME NEW d \in Entries, NEW e \in Entries
    PROVE  Alike(d, e) <=>
             entry[e].status # "absent" /\ d \in EntriesOf(SignupOf[askedBy[e]], Kind(Contact(e)))
BY DEF Alike, EntriesOf

LEMMA StartContactKeeps ==
    ASSUME SignupInv, NEW n \in Entries, NEW k \in ContactKeys, StartContact(n, k)
    PROVE  SignupInv'
<1>0. Inserted(n, k) /\ SignupTypeOK /\ n \in Nat
  BY InsertedRows, SignupNumbers DEF SignupInv
<1>1. PICK s \in Signups, kind \in ContactKinds : s = SignupOf[k] /\ kind = Kind(ContactOf[k])
  BY <1>0 DEF Inserted
<1>2. PICK S \in SUBSET AttemptState : S = {entryAttempts[d] : d \in EntryAttemptRows(s, kind)}
  BY <1>0, SignupColumn DEF EntryAttemptRows, EntriesOf
<1>3. /\ entryAttempts'[n] = InheritedAttemptState(S)
      /\ EntriesOf(s, kind)' = EntriesOf(s, kind) \cup {n}
      /\ \A t, other : ~ (t = s /\ other = kind) => EntriesOf(t, other)' = EntriesOf(t, other)
      /\ \A d \in EntriesOf(s, kind) : d \in Entries /\ d < n
  <2>1. ASSUME NEW d \in EntriesOf(s, kind) PROVE d \in Entries /\ d < n
    <3>1. d \in Entries /\ entry[d].status # "absent"
      BY DEF EntriesOf
    <3> QED BY <1>0, <3>1 DEF Inserted
  <2>2. /\ entryAttempts'[n] = InheritedAttemptState(S)
        /\ EntriesOf(s, kind)' = EntriesOf(s, kind) \cup {n}
    BY <1>0, <1>1, <1>2 DEF Inserted
  <2>3. \A t, other : ~ (t = s /\ other = kind) => EntriesOf(t, other)' = EntriesOf(t, other)
    BY <1>0, <1>1 DEF Inserted
  <2> QED BY <2>1, <2>2, <2>3
<1>4. /\ entryAttempts'[n] \in AttemptState
      /\ \A a \in S : a.cooldown <= entryAttempts'[n].cooldown
      /\ (\A a \in S : a.cooldown = 0) =>
           /\ entryAttempts'[n].cooldown = 0
           /\ \A a \in S : a.failed <= entryAttempts'[n].failed
  BY <1>3, SignupAssumption, Inherits
<1>5. \A d \in EntriesOf(s, kind) : entryTtl[d] > 0 => entryAttempts[d] \in S
  BY <1>2 DEF EntryAttemptRows
<1>6. SignupTypeOK'
  <2>1. entryAttempts' \in [Entries -> AttemptState] /\ askedBy' \in [Entries -> ContactKeys \cup {"nobody"}]
        /\ entryTtl' \in [Entries -> 0 .. Ttl] /\ entryTask' \in [Entries -> {"idle", "sending", "finalizing"}]
        /\ contactKey' \in [ContactKeys -> {"none", "processing", "completed"}]
    <3>1. entryAttempts' = [entryAttempts EXCEPT ![n] = entryAttempts'[n]]
      BY <1>0 DEF StartContact, SignupTypeOK
    <3>2. Ttl \in 0 .. Ttl
      BY SignupNumbers
    <3>3. entryAttempts' \in [Entries -> AttemptState]
      BY <1>0, <1>4, <3>1 DEF SignupTypeOK
    <3> QED BY <1>0, <3>2, <3>3 DEF StartContact, SignupTypeOK
  <2>2. entry' \in [Entries -> [status : {"absent", "open", "verified", "superseded"},
                                delivery : {"pending", "delivered", "failed"}]]
    BY <1>0 DEF Inserted, EntryRow
  <2> QED BY <1>0, <2>1, <2>2 DEF Inserted, SignupTypeOK
<1>7. ASSUME NEW e \in Entries PROVE EntryCoherent(e)'
  <2>1. CASE e = n
    <3>1. entry[n].status = "absent" /\ EntryCoherent(n)
      BY <1>0 DEF Inserted, SignupInv
    <3> QED BY <1>0, <2>1, <3>1 DEF Inserted, EntryCoherent
  <2>2. CASE e # n
    <3>1. EntryCoherent(e)
      BY DEF SignupInv
    <3>2. CASE entry[e].status = "open"
      BY <1>0, <2>2, <3>1, <3>2 DEF Inserted, EntryCoherent
    <3>3. CASE entry[e].status # "open"
      BY <1>0, <2>2, <3>1, <3>3 DEF Inserted, EntryCoherent
    <3> QED BY <3>2, <3>3
  <2> QED BY <2>1, <2>2
<1>8. \A e \in Entries : entry'[e].status # "absent" <=> e <= n
  BY <1>0, SignupColumn DEF Inserted
<1>9. ASSUME NEW d \in Entries, NEW e \in Entries, d < e, entry'[e].status # "absent"
      PROVE  /\ e = n \/ entry[e].status # "absent"
             /\ d # n /\ entry[d].status # "absent" /\ entry'[d].status # "absent"
             /\ Alike(d, e)' => IF e = n THEN d \in EntriesOf(s, kind) ELSE Alike(d, e)
  <2>1. d \in Nat /\ e \in Nat /\ e <= n
    BY <1>0, <1>8, <1>9, SignupColumn
  <2>2. d < n
    BY <1>0, <1>9, <2>1
  <2>3. entry[d].status # "absent" /\ entry'[d].status # "absent" /\ (e # n => entry[e].status # "absent")
    BY <1>0, <1>8, <2>1, <2>2 DEF Inserted
  <2>4. ASSUME e = n, Alike(d, e)' PROVE d \in EntriesOf(s, kind)
    <3>1. SignupOf[askedBy'[n]] = s /\ Kind(Contact(n))' = kind
      BY <1>0, <1>1 DEF Inserted, Contact, Kind
    <3>2. d \in EntriesOf(s, kind)'
      BY <2>4, <3>1 DEF Alike, EntriesOf
    <3> QED BY <1>3, <2>1, <2>2, <3>2
  <2>5. ASSUME e # n, Alike(d, e)' PROVE Alike(d, e)
    <3>1. askedBy'[d] = askedBy[d] /\ askedBy'[e] = askedBy[e]
      BY <1>0, <2>1, <2>2, <2>5 DEF Inserted
    <3> QED BY <2>3, <2>5, <3>1 DEF Alike, Contact, Kind
  <2> QED BY <2>1, <2>2, <2>3, <2>4, <2>5
<1>10. EntryOrder'
  <2> SUFFICES ASSUME NEW d \in Entries, NEW e \in Entries, d < e, entry'[e].status # "absent"
               PROVE  /\ entry'[d].status # "absent" /\ entryTtl'[d] <= entryTtl'[e]
                      /\ Alike(d, e)' => entry'[d].status = "superseded"
    BY DEF EntryOrder
  <2>1. entryTtl'[d] = entryTtl[d] /\ entryTtl[d] <= Ttl
    <3>1. d # n
      BY <1>9
    <3>2. entryTtl'[d] = entryTtl[d]
      BY <1>0, <3>1 DEF Inserted
    <3>3. entryTtl[d] \in 0 .. Ttl
      BY <1>0, SignupColumn
    <3> QED BY <3>2, <3>3, SignupNumbers
  <2>2. CASE e = n
    BY <1>0, <1>1, <1>9, <2>1, <2>2 DEF Inserted
  <2>3. CASE e # n
    <3>1. entryTtl[d] <= entryTtl[e] /\ (Alike(d, e) => entry[d].status = "superseded")
      BY <1>9, <2>3 DEF SignupInv, EntryOrder
    <3> QED BY <1>0, <1>9, <2>1, <2>3, <3>1 DEF Inserted
  <2> QED BY <2>2, <2>3
<1>11. CooldownsCarried'
  <2> SUFFICES ASSUME NEW d \in Entries, NEW e \in Entries, d < e, Alike(d, e)', entryTtl'[d] > 0
               PROVE  entryAttempts'[d].cooldown <= entryAttempts'[e].cooldown
    BY DEF CooldownsCarried
  <2>1. entry'[e].status # "absent"
    BY DEF Alike
  <2>2. d # n /\ entryTtl[d] > 0 /\ entryAttempts'[d] = entryAttempts[d]
    BY <1>0, <1>9, <2>1 DEF Inserted
  <2>3. CASE e = n
    BY <1>4, <1>5, <1>9, <2>1, <2>2, <2>3
  <2>4. CASE e # n
    <3>1. entryAttempts[d].cooldown <= entryAttempts[e].cooldown
      BY <1>9, <2>1, <2>2, <2>4 DEF SignupInv, CooldownsCarried
    <3> QED BY <1>0, <2>2, <2>4, <3>1 DEF Inserted
  <2> QED BY <2>3, <2>4
<1>12. GuessesCounted'
  <2> SUFFICES ASSUME NEW t \in Signups, NEW other \in ContactKinds, entryWrong'[t][other] > 0
               PROVE  \E e \in EntriesOf(t, other)' :
                        /\ \A d \in EntriesOf(t, other)' : d <= e
                        /\ entryTtl'[e] > 0 /\ entryAttempts'[e].cooldown = 0
                        /\ entryWrong'[t][other] <= entryAttempts'[e].failed
    BY DEF GuessesCounted
  <2>1. entryWrong'[t][other] = entryWrong[t][other] /\ entryWrong[t][other] \in Nat
    BY <1>0, SignupNumbers DEF Inserted, SignupTypeOK
  <2>2. PICK e \in EntriesOf(t, other) :
          /\ \A d \in EntriesOf(t, other) : d <= e
          /\ entryTtl[e] > 0 /\ entryAttempts[e].cooldown = 0
          /\ entryWrong[t][other] <= entryAttempts[e].failed
    BY <2>1 DEF SignupInv, GuessesCounted
  <2>3. e \in Entries /\ e # n
    BY <1>0, <2>2 DEF EntriesOf, Inserted
  <2>4. CASE ~ (t = s /\ other = kind)
    <3>1. EntriesOf(t, other)' = EntriesOf(t, other)
      BY <1>3, <2>4
    <3>2. entryTtl'[e] = entryTtl[e] /\ entryAttempts'[e] = entryAttempts[e]
      BY <1>0, <2>3 DEF Inserted
    <3> QED BY <2>1, <2>2, <3>1, <3>2
  <2>5. CASE t = s /\ other = kind
    <3>1. ASSUME NEW d \in EntryAttemptRows(s, kind) PROVE entryAttempts[d].cooldown = 0
      <4>1. d \in Entries /\ d \in EntriesOf(t, other) /\ d <= e /\ entryTtl[d] > 0
        BY <2>2, <2>5 DEF EntryAttemptRows, EntriesOf
      <4>2. d # e => Alike(d, e) /\ d < e
        <5>1. d \in Nat /\ e \in Nat
          BY <2>3, <4>1, SignupNumbers
        <5>2. Alike(d, e)
          BY <2>2, <4>1 DEF EntriesOf, Alike
        <5> QED BY <4>1, <5>1, <5>2
      <4>3. d # e => entryAttempts[d].cooldown <= entryAttempts[e].cooldown
        BY <2>3, <4>1, <4>2 DEF SignupInv, CooldownsCarried
      <4>4. entryAttempts[d].cooldown \in Nat
        BY <1>0, <4>1, SignupColumn
      <4> QED BY <2>2, <4>3, <4>4
    <3>2. \A a \in S : a.cooldown = 0
      BY <1>2, <3>1
    <3>3. entryAttempts[e] \in S
      BY <1>5, <2>2, <2>5
    <3>4. entryAttempts'[n].cooldown = 0 /\ entryAttempts[e].failed <= entryAttempts'[n].failed
      BY <1>4, <3>2, <3>3
    <3>5. entryAttempts'[n].failed \in Nat /\ entryAttempts[e].failed \in Nat
      <4>1. entryAttempts[e].failed \in Nat
        BY <1>0, <2>3, SignupColumn
      <4>2. entryAttempts'[n].failed \in 0 .. (MaxAttempts - 1)
        BY <1>4 DEF AttemptState
      <4> QED BY <4>1, <4>2, SignupNumbers
    <3>6. entryWrong[t][other] <= entryAttempts'[n].failed
      BY <2>1, <2>2, <3>4, <3>5
    <3>7. n \in EntriesOf(t, other)' /\ \A d \in EntriesOf(t, other)' : d <= n
      <4>1. EntriesOf(t, other)' = EntriesOf(s, kind) \cup {n}
        BY <1>3, <2>5
      <4>2. \A d \in EntriesOf(s, kind) : d \in Nat /\ d < n
        BY <1>3, SignupNumbers
      <4> QED BY <1>0, <4>1, <4>2
    <3>8. entryTtl'[n] > 0
      BY <1>0, SignupNumbers DEF Inserted
    <3> QED BY <2>1, <3>4, <3>6, <3>7, <3>8
  <2> QED BY <2>4, <2>5
<1>13. CarbonProvesContacts'
  <2> SUFFICES ASSUME NEW t \in Signups, signup'[t].status = "completed"
               PROVE  /\ {Kind(c) : c \in owned'[t]} = ContactKinds
                      /\ \A c \in owned'[t] : \E e \in EntriesOf(t, Kind(c))' :
                           Contact(e)' = c /\ entry'[e].status = "verified" /\ entryBatch'[e] = "ok"
    BY DEF CarbonProvesContacts
  <2>1. owned'[t] = owned[t] /\ signup[t].status = "completed"
    BY <1>0 DEF Inserted
  <2>2. {Kind(c) : c \in owned[t]} = ContactKinds
    BY <2>1 DEF SignupInv, CarbonProvesContacts
  <2>3. ASSUME NEW c \in owned[t]
        PROVE  \E e \in EntriesOf(t, Kind(c))' :
                 Contact(e)' = c /\ entry'[e].status = "verified" /\ entryBatch'[e] = "ok"
    <3>1. PICK e \in EntriesOf(t, Kind(c)) :
            Contact(e) = c /\ entry[e].status = "verified" /\ entryBatch[e] = "ok"
      BY <2>1 DEF SignupInv, CarbonProvesContacts
    <3>2. e \in Entries /\ e # n
      BY <1>0, <3>1 DEF EntriesOf, Inserted
    <3>3. entry'[e] = entry[e] /\ askedBy'[e] = askedBy[e] /\ entryBatch' = entryBatch
      BY <1>0, <3>1, <3>2 DEF Inserted
    <3>4. Contact(e)' = Contact(e)
      BY <3>3 DEF Contact
    <3>5. e \in EntriesOf(t, Kind(c))'
      BY <1>3, <3>1
    <3> QED BY <3>1, <3>3, <3>4, <3>5
  <2> QED BY <2>1, <2>2, <2>3
<1>14. ContactsUnique'
  BY <1>0 DEF Inserted, SignupInv, ContactsUnique
<1> QED BY <1>6, <1>7, <1>10, <1>11, <1>12, <1>13, <1>14 DEF SignupInv

----------------------------------------------------------------------------
(* Guesses and time *)

LEMMA VerifyContactWrongKeeps ==
    ASSUME SignupInv, NEW n \in Entries, VerifyContactWrong(n)
    PROVE  SignupInv'
<1>0. /\ SignupTypeOK /\ n \in Nat
      /\ MaxAttempts \in Nat \ {0} /\ Cooldown \in Nat \ {0}
  BY SignupNumbers DEF SignupInv
<1>1. /\ entry[n] = [status |-> "open", delivery |-> "delivered"]
      /\ entryTtl[n] > 0 /\ entryAttempts[n].cooldown = 0
      /\ entryAttempts' = [entryAttempts EXCEPT ![n] = AfterFailure(entryAttempts[n])]
      /\ UNCHANGED <<signup, entry, askedBy, entryTtl, entryTask, entryBatch, contactKey, owned>>
  BY DEF VerifyContactWrong, EntryVerifiable
<1>2. PICK s \in Signups, kind \in ContactKinds :
        s = SignupOf[askedBy[n]] /\ kind = Kind(Contact(n))
  <2>1. askedBy[n] \in ContactKeys
    BY <1>1 DEF SignupInv, EntryCoherent
  <2> QED BY <2>1, SignupAssumption DEF Kind, ContactKinds
<1>3. entryWrong' = [entryWrong EXCEPT ![s][kind] =
        IF entryAttempts'[n].cooldown > 0 THEN 0 ELSE entryWrong[s][kind] + 1]
  BY <1>2 DEF VerifyContactWrong
<1>4. PICK a \in AttemptState : a = AfterFailure(entryAttempts[n])
  <2>1. entryAttempts[n].failed \in 0 .. (MaxAttempts - 1)
    BY <1>0, SignupColumn
  <2>2. CASE entryAttempts[n].failed + 1 >= MaxAttempts
    <3>1. 0 \in 0 .. (MaxAttempts - 1) /\ Cooldown \in 0 .. Cooldown
      BY <1>0
    <3>2. [failed |-> 0, cooldown |-> Cooldown] \in AttemptState
      BY <3>1 DEF AttemptState
    <3> QED BY <2>2, <3>2 DEF AfterFailure
  <2>3. CASE ~ (entryAttempts[n].failed + 1 >= MaxAttempts)
    <3>1. entryAttempts[n].failed + 1 \in 0 .. (MaxAttempts - 1) /\ 0 \in 0 .. Cooldown
      BY <1>0, <2>1, <2>3
    <3>2. [failed |-> entryAttempts[n].failed + 1, cooldown |-> 0] \in AttemptState
      BY <3>1 DEF AttemptState
    <3> QED BY <2>3, <3>2 DEF AfterFailure
  <2> QED BY <2>2, <2>3
<1>5. /\ a.cooldown \in Nat /\ a.failed \in Nat /\ a.failed < MaxAttempts
      /\ a.cooldown = 0 => a.failed = entryAttempts[n].failed + 1
  <2>1. a.cooldown \in Nat /\ a.failed \in Nat /\ a.failed < MaxAttempts
    BY <1>0, <1>4 DEF AttemptState
  <2>2. CASE entryAttempts[n].failed + 1 >= MaxAttempts
    BY <1>0, <1>4, <2>1, <2>2 DEF AfterFailure
  <2>3. CASE ~ (entryAttempts[n].failed + 1 >= MaxAttempts)
    BY <1>0, <1>4, <2>1, <2>3 DEF AfterFailure
  <2> QED BY <2>1, <2>2, <2>3
<1>6. entryAttempts'[n] = a /\ \A d \in Entries \ {n} : entryAttempts'[d] = entryAttempts[d]
  BY <1>0, <1>1, <1>4 DEF SignupTypeOK
<1>7. /\ entryWrong'[s][kind] = IF a.cooldown > 0 THEN 0 ELSE entryWrong[s][kind] + 1
      /\ \A t \in Signups, other \in ContactKinds :
           ~ (t = s /\ other = kind) => entryWrong'[t][other] = entryWrong[t][other]
      /\ entryWrong[s][kind] \in Nat
  <2>1. entryWrong \in [Signups -> [ContactKinds -> 0 .. MaxAttempts]]
    BY <1>0 DEF SignupTypeOK
  <2>2. \A t \in Signups : entryWrong[t] \in [ContactKinds -> 0 .. MaxAttempts]
    BY <2>1
  <2>3. entryWrong[s][kind] \in Nat
    BY <1>0, <2>2
  <2> QED BY <1>3, <1>6, <2>1, <2>2, <2>3
<1>8. /\ \A t, other : EntriesOf(t, other)' = EntriesOf(t, other)
      /\ \A d, e \in Entries : Alike(d, e)' <=> Alike(d, e)
      /\ \A e \in Entries : Contact(e)' = Contact(e)
  BY <1>1, EntriesStay
<1>9. n \in EntriesOf(s, kind) /\ \A d \in EntriesOf(s, kind) : d <= n
  <2>1. n \in EntriesOf(s, kind)
    BY <1>1, <1>2 DEF EntriesOf
  <2>2. ASSUME NEW d \in EntriesOf(s, kind), n < d PROVE FALSE
    <3>1. d \in Entries /\ entry[d].status # "absent" /\ Alike(n, d)
      BY <1>1, <1>2, <2>2 DEF EntriesOf, Alike
    <3> QED BY <1>1, <2>2, <3>1 DEF SignupInv, EntryOrder
  <2>3. \A d \in EntriesOf(s, kind) : d \in Nat
    BY SignupNumbers DEF EntriesOf
  <2> QED BY <1>0, <2>1, <2>2, <2>3
<1>10. entryWrong[s][kind] <= entryAttempts[n].failed
  <2>1. CASE entryWrong[s][kind] > 0
    <3>1. PICK e \in EntriesOf(s, kind) :
            (\A d \in EntriesOf(s, kind) : d <= e) /\ entryWrong[s][kind] <= entryAttempts[e].failed
      BY <2>1 DEF SignupInv, GuessesCounted
    <3>2. e \in Nat /\ e <= n /\ n <= e
      BY <1>9, <3>1, SignupNumbers DEF EntriesOf
    <3>3. e = n
      BY <1>0, <3>2
    <3> QED BY <3>1, <3>3
  <2>2. CASE entryWrong[s][kind] = 0
    BY <1>0, <2>2, SignupColumn
  <2> QED BY <1>7, <2>1, <2>2
<1>11. a.cooldown = 0 => entryWrong'[s][kind] <= a.failed /\ entryWrong'[s][kind] \in 0 .. MaxAttempts
  <2>1. entryAttempts[n].failed \in Nat
    BY <1>0, SignupColumn
  <2> QED BY <1>0, <1>5, <1>7, <1>10, <2>1
<1>12. SignupTypeOK'
  <2>1. entryAttempts' \in [Entries -> AttemptState]
    BY <1>0, <1>1, <1>4 DEF SignupTypeOK
  <2>2. entryWrong'[s][kind] \in 0 .. MaxAttempts
    BY <1>0, <1>5, <1>7, <1>11
  <2>3. entryWrong' \in [Signups -> [ContactKinds -> 0 .. MaxAttempts]]
    <3>1. PICK v \in 0 .. MaxAttempts : v = entryWrong'[s][kind]
      BY <2>2
    <3>2. entryWrong' = [entryWrong EXCEPT ![s][kind] = v]
      BY <1>3, <1>6, <1>7, <3>1
    <3> QED BY <1>0, <3>2 DEF SignupTypeOK
  <2> QED BY <1>0, <1>1, <2>1, <2>3 DEF SignupTypeOK
<1>13. \A e \in Entries : EntryCoherent(e)'
  BY <1>1 DEF SignupInv, EntryCoherent
<1>14. EntryOrder'
  BY <1>1, <1>8 DEF SignupInv, EntryOrder
<1>15. CooldownsCarried'
  <2> SUFFICES ASSUME NEW d \in Entries, NEW e \in Entries, d < e, Alike(d, e), entryTtl[d] > 0
               PROVE  entryAttempts'[d].cooldown <= entryAttempts'[e].cooldown
    BY <1>1, <1>8 DEF CooldownsCarried
  <2>1. entry[d].status = "superseded"
    BY DEF SignupInv, EntryOrder, Alike
  <2>2. d # n /\ entryAttempts'[d] = entryAttempts[d] /\ entryAttempts[d].cooldown \in Nat
    BY <1>0, <1>1, <1>6, <2>1, SignupColumn
  <2>3. entryAttempts[d].cooldown <= entryAttempts[e].cooldown
    BY DEF SignupInv, CooldownsCarried
  <2>4. CASE e = n
    BY <1>1, <1>5, <1>6, <2>2, <2>3, <2>4
  <2>5. CASE e # n
    BY <1>6, <2>2, <2>3, <2>5
  <2> QED BY <2>4, <2>5
<1>16. GuessesCounted'
  <2> SUFFICES ASSUME NEW t \in Signups, NEW other \in ContactKinds, entryWrong'[t][other] > 0
               PROVE  \E e \in EntriesOf(t, other) :
                        /\ \A d \in EntriesOf(t, other) : d <= e
                        /\ entryTtl[e] > 0 /\ entryAttempts'[e].cooldown = 0
                        /\ entryWrong'[t][other] <= entryAttempts'[e].failed
    BY <1>1, <1>8 DEF GuessesCounted
  <2>1. CASE t = s /\ other = kind
    BY <1>1, <1>5, <1>6, <1>7, <1>9, <1>11, <2>1
  <2>2. CASE ~ (t = s /\ other = kind)
    <3>1. PICK e \in EntriesOf(t, other) :
            /\ \A d \in EntriesOf(t, other) : d <= e
            /\ entryTtl[e] > 0 /\ entryAttempts[e].cooldown = 0
            /\ entryWrong[t][other] <= entryAttempts[e].failed
      BY <1>7, <2>2 DEF SignupInv, GuessesCounted
    <3>2. e \in Entries /\ e # n
      BY <1>2, <2>2, <3>1 DEF EntriesOf
    <3> QED BY <1>6, <1>7, <2>2, <3>1, <3>2
  <2> QED BY <2>1, <2>2
<1>17. CarbonProvesContacts'
  BY <1>1, <1>8 DEF SignupInv, CarbonProvesContacts, EntriesOf
<1>18. ContactsUnique'
  BY <1>1 DEF SignupInv, ContactsUnique
<1> QED BY <1>12, <1>13, <1>14, <1>15, <1>16, <1>17, <1>18 DEF SignupInv

LEMMA SignupTickKeeps ==
    ASSUME SignupInv, SignupTick
    PROVE  SignupInv'
<1>0. SignupTypeOK
  BY DEF SignupInv
<1>1. /\ signup' = [s \in Signups |-> [signup[s] EXCEPT !.ttl = Elapsed(signup[s].ttl)]]
      /\ entryTtl' = [e \in Entries |-> Elapsed(entryTtl[e])]
      /\ entryAttempts' = [e \in Entries |->
           [entryAttempts[e] EXCEPT !.cooldown = Elapsed(entryAttempts[e].cooldown)]]
      /\ entryWrong' = [s \in Signups |-> [kind \in ContactKinds |->
           IF \E e \in EntriesOf(s, kind) : entryTtl'[e] > 0 THEN entryWrong[s][kind] ELSE 0]]
      /\ UNCHANGED <<entry, askedBy, entryTask, entryBatch, contactKey, owned>>
  BY DEF SignupTick
<1>2. ASSUME NEW e \in Entries
      PROVE  /\ entryAttempts'[e] \in AttemptState
             /\ entryAttempts'[e].failed = entryAttempts[e].failed
             /\ entryAttempts'[e].cooldown = Elapsed(entryAttempts[e].cooldown)
             /\ entryTtl'[e] = Elapsed(entryTtl[e]) /\ entryTtl'[e] \in 0 .. Ttl
             /\ entryAttempts[e].cooldown \in Nat /\ entryTtl[e] \in Nat
  <2>1. entryAttempts[e] \in [failed : 0 .. (MaxAttempts - 1), cooldown : 0 .. Cooldown] /\ entryTtl[e] \in 0 .. Ttl
    BY <1>0 DEF SignupTypeOK, AttemptState
  <2>2. Elapsed(entryAttempts[e].cooldown) \in 0 .. Cooldown /\ Elapsed(entryTtl[e]) \in 0 .. Ttl
    BY <2>1, SignupNumbers DEF Elapsed
  <2>3. [entryAttempts[e] EXCEPT !.cooldown = Elapsed(entryAttempts[e].cooldown)] \in AttemptState
    BY <2>1, <2>2 DEF AttemptState
  <2>4. entryAttempts'[e] = [entryAttempts[e] EXCEPT !.cooldown = Elapsed(entryAttempts[e].cooldown)]
    BY <1>1
  <2> QED BY <1>0, <1>1, <2>1, <2>2, <2>3, <2>4, SignupColumn
<1>3. ASSUME NEW s \in Signups, NEW kind \in ContactKinds
      PROVE  /\ entryWrong'[s][kind] =
                  IF \E e \in EntriesOf(s, kind) : entryTtl'[e] > 0 THEN entryWrong[s][kind] ELSE 0
             /\ entryWrong[s][kind] \in 0 .. MaxAttempts
  <2>1. entryWrong[s] \in [ContactKinds -> 0 .. MaxAttempts]
    BY <1>0 DEF SignupTypeOK
  <2> QED BY <1>1, <2>1
<1>4. SignupTypeOK'
  <2>1. entryAttempts' \in [Entries -> AttemptState] /\ entryTtl' \in [Entries -> 0 .. Ttl]
    BY <1>1, <1>2
  <2>2. entryWrong' \in [Signups -> [ContactKinds -> 0 .. MaxAttempts]]
    <3>1. \A s \in Signups, kind \in ContactKinds : entryWrong'[s][kind] \in 0 .. MaxAttempts
      BY <1>3, SignupNumbers
    <3>2. \A s \in Signups : entryWrong'[s] = [kind \in ContactKinds |-> entryWrong'[s][kind]]
      BY <1>1
    <3>3. \A s \in Signups : entryWrong'[s] \in [ContactKinds -> 0 .. MaxAttempts]
      BY <3>1, <3>2
    <3>4. entryWrong' = [s \in Signups |-> entryWrong'[s]]
      BY <1>1
    <3> QED BY <3>3, <3>4
  <2>3. signup' \in [Signups -> [status : {"absent", "pending", "completed"}, ttl : 0 .. SignupTtl]]
    <3>1. ASSUME NEW s \in Signups
          PROVE  [signup[s] EXCEPT !.ttl = Elapsed(signup[s].ttl)] \in
                   [status : {"absent", "pending", "completed"}, ttl : 0 .. SignupTtl]
      <4>1. signup[s] \in [status : {"absent", "pending", "completed"}, ttl : 0 .. SignupTtl]
        BY <1>0 DEF SignupTypeOK
      <4>2. Elapsed(signup[s].ttl) \in 0 .. SignupTtl
        BY <4>1, SignupNumbers DEF Elapsed
      <4> QED BY <4>1, <4>2
    <3> QED BY <1>1, <3>1
  <2> QED BY <1>0, <1>1, <2>1, <2>2, <2>3 DEF SignupTypeOK
<1>5. \A e \in Entries : EntryCoherent(e)'
  BY <1>1 DEF SignupInv, EntryCoherent
<1>6. /\ \A t, other : EntriesOf(t, other)' = EntriesOf(t, other)
      /\ \A d, e \in Entries : Alike(d, e)' <=> Alike(d, e)
      /\ \A e \in Entries : Contact(e)' = Contact(e)
  BY <1>1, EntriesStay
<1>7. EntryOrder'
  <2> SUFFICES ASSUME NEW d \in Entries, NEW e \in Entries, d < e, entry[e].status # "absent"
               PROVE  /\ entry[d].status # "absent" /\ entryTtl'[d] <= entryTtl'[e]
                      /\ Alike(d, e) => entry[d].status = "superseded"
    BY <1>1, <1>6 DEF EntryOrder
  <2>1. /\ entry[d].status # "absent" /\ entryTtl[d] <= entryTtl[e]
        /\ Alike(d, e) => entry[d].status = "superseded"
    BY DEF SignupInv, EntryOrder
  <2> QED BY <1>2, <2>1 DEF Elapsed
<1>8. CooldownsCarried'
  <2> SUFFICES ASSUME NEW d \in Entries, NEW e \in Entries, d < e, Alike(d, e), entryTtl'[d] > 0
               PROVE  entryAttempts'[d].cooldown <= entryAttempts'[e].cooldown
    BY <1>1, <1>6 DEF CooldownsCarried
  <2>1. entryTtl[d] > 0
    BY <1>2 DEF Elapsed
  <2>2. entryAttempts[d].cooldown <= entryAttempts[e].cooldown
    BY <2>1 DEF SignupInv, CooldownsCarried
  <2> QED BY <1>2, <2>2 DEF Elapsed
<1>9. GuessesCounted'
  <2> SUFFICES ASSUME NEW s \in Signups, NEW kind \in ContactKinds, entryWrong'[s][kind] > 0
               PROVE  \E e \in EntriesOf(s, kind) :
                        /\ \A d \in EntriesOf(s, kind) : d <= e
                        /\ entryTtl'[e] > 0 /\ entryAttempts'[e].cooldown = 0
                        /\ entryWrong'[s][kind] <= entryAttempts'[e].failed
    BY <1>1, <1>6 DEF GuessesCounted
  <2>1. PICK f \in EntriesOf(s, kind) : entryTtl'[f] > 0
    BY <1>3
  <2>2. entryWrong'[s][kind] = entryWrong[s][kind]
    BY <1>3, <2>1
  <2>3. PICK e \in EntriesOf(s, kind) :
          /\ \A d \in EntriesOf(s, kind) : d <= e
          /\ entryTtl[e] > 0 /\ entryAttempts[e].cooldown = 0
          /\ entryWrong[s][kind] <= entryAttempts[e].failed
    BY <2>2 DEF SignupInv, GuessesCounted
  <2>4. e \in Entries /\ f \in Entries /\ entry[e].status # "absent" /\ f <= e
    BY <2>1, <2>3 DEF EntriesOf
  <2>5. entryTtl'[f] <= entryTtl'[e]
    <3>1. f \in Nat /\ e \in Nat
      BY <2>4, SignupNumbers
    <3>2. f < e => entryTtl'[f] <= entryTtl'[e]
      BY <1>1, <1>7, <2>4 DEF EntryOrder
    <3> QED BY <1>2, <2>4, <3>1, <3>2
  <2>6. entryTtl'[e] > 0
    BY <1>2, <2>1, <2>4, <2>5
  <2>7. entryAttempts'[e].cooldown = 0
    BY <1>2, <2>3, <2>4 DEF Elapsed
  <2> QED BY <1>2, <2>2, <2>3, <2>4, <2>6, <2>7
<1>10. CarbonProvesContacts'
  <2>1. \A s \in Signups : signup'[s].status = signup[s].status
    BY <1>0, <1>1 DEF SignupTypeOK
  <2>2. \A e \in Entries : RowMoves(e)
    BY <1>1 DEF RowMoves
  <2>3. owned' = owned /\ askedBy' = askedBy
    BY <1>1
  <2> QED BY <2>1, <2>2, <2>3, ProofMoves DEF CarbonProvesContacts
<1>11. ContactsUnique'
  BY <1>1 DEF SignupInv, ContactsUnique
<1> QED BY <1>4, <1>5, <1>7, <1>8, <1>9, <1>10, <1>11 DEF SignupInv

LEMMA SignupStep == SignupInv /\ [SignupNext]_signupVars => SignupInv'
<1> SUFFICES ASSUME SignupInv, [SignupNext]_signupVars PROVE SignupInv'
  OBVIOUS
<1>1. CASE \E s \in Signups : CreateSession(s) \/ CompleteSignup(s)
  BY <1>1, CreateSignupKeeps, CompleteSignupKeeps
<1>2. CASE \E k \in ContactKeys : StartTakenContact(k) \/ \E e \in Entries : StartContact(e, k)
  BY <1>2, StartTakenKeeps, StartContactKeeps
<1>3. CASE \E e \in Entries : SendSignup(e) \/ AbandonSignup(e)
  BY <1>3, SendSignupKeeps, AbandonSignupKeeps
<1>4. CASE \E e \in Entries : ConfirmSignupDelivery(e) \/ FailSignupDelivery(e)
  BY <1>4, ConfirmSignupKeeps, FailSignupKeeps
<1>5. CASE \E e \in Entries : VerifyContact(e) \/ VerifyContactWrong(e)
  BY <1>5, VerifyContactKeeps, VerifyContactWrongKeeps
<1>6. CASE SignupTick
  BY <1>6, SignupTickKeeps
<1>7. CASE UNCHANGED signupVars
  <2>1. SignupTypeOK'
    BY <1>7 DEF signupVars, SignupInv, SignupTypeOK
  <2>2. RowsMove
    BY <1>7, <2>1 DEF signupVars, SignupInv, RowsMove, RowMoves, EntryCoherent
  <2> QED BY <1>7, <2>2, MovesKeep DEF signupVars
<1> QED BY <1>1, <1>2, <1>3, <1>4, <1>5, <1>6, <1>7 DEF SignupNext

LEMMA SignupInvSound == SignupInv => SignupSound
<1> SUFFICES ASSUME SignupInv PROVE SignupSound
  OBVIOUS
<1>0. SignupTypeOK /\ MaxAttempts \in Nat \ {0}
  BY SignupNumbers DEF SignupInv
<1>1. OneCandidatePerKind
  <2> SUFFICES ASSUME NEW s \in Signups, NEW kind \in ContactKinds
               PROVE  Cardinality({e \in EntriesOf(s, kind) : entry[e].status \in {"open", "verified"}}) <= 1
    BY DEF OneCandidatePerKind
  <2>1. PICK S : S = {e \in EntriesOf(s, kind) : entry[e].status \in {"open", "verified"}}
    OBVIOUS
  <2>2. ASSUME NEW d \in S, NEW e \in S PROVE d = e
    <3>1. /\ d \in Entries /\ e \in Entries /\ d \in Nat /\ e \in Nat
          /\ entry[d].status # "superseded" /\ entry[e].status # "superseded"
          /\ entry[d].status # "absent" /\ entry[e].status # "absent"
          /\ Alike(d, e) /\ Alike(e, d)
      BY <2>1, SignupNumbers DEF EntriesOf, Alike
    <3>2. ~ (d < e) /\ ~ (e < d)
      BY <3>1 DEF SignupInv, EntryOrder
    <3> QED BY <3>1, <3>2
  <2>3. CASE S = {}
    BY <2>1, <2>3, FS_EmptySet
  <2>4. CASE S # {}
    <3>1. PICK e \in S : TRUE
      BY <2>4
    <3>2. S = {e}
      BY <2>2, <3>1
    <3>3. Cardinality({e}) = 1
      BY FS_Singleton
    <3> QED BY <2>1, <3>2, <3>3
  <2> QED BY <2>3, <2>4
<1>2. SignupBudget
  <2> SUFFICES ASSUME NEW s \in Signups, NEW kind \in ContactKinds
               PROVE  entryWrong[s][kind] < MaxAttempts
    BY DEF SignupBudget
  <2>1. entryWrong[s][kind] \in Nat
    <3>1. entryWrong[s] \in [ContactKinds -> 0 .. MaxAttempts]
      BY <1>0 DEF SignupTypeOK
    <3> QED BY <1>0, <3>1
  <2>2. CASE entryWrong[s][kind] > 0
    <3>1. PICK e \in EntriesOf(s, kind) : entryWrong[s][kind] <= entryAttempts[e].failed
      BY <2>2 DEF SignupInv, GuessesCounted
    <3>2. entryAttempts[e].failed \in 0 .. (MaxAttempts - 1)
      BY <1>0, SignupColumn DEF EntriesOf
    <3> QED BY <1>0, <2>1, <3>1, <3>2
  <2> QED BY <1>0, <2>1, <2>2
<1>3. SignupCooldownCarried
  <2> SUFFICES ASSUME NEW s \in Signups, NEW kind \in ContactKinds,
                      NEW d \in EntriesOf(s, kind), NEW e \in EntriesOf(s, kind),
                      d < e, entryTtl[d] > 0
               PROVE  entryAttempts[e].cooldown >= entryAttempts[d].cooldown
    BY DEF SignupCooldownCarried
  <2>1. d \in Entries /\ e \in Entries /\ Alike(d, e)
    BY DEF EntriesOf, Alike
  <2>2. entryAttempts[d].cooldown \in Nat /\ entryAttempts[e].cooldown \in Nat
    BY <1>0, <2>1, SignupColumn
  <2> QED BY <2>1, <2>2 DEF SignupInv, CooldownsCarried
<1> QED BY <1>1, <1>2, <1>3 DEF SignupInv, SignupSound

\* Every reachable state of the signups satisfies SignupSound: for every number of
\* sessions, requests, codes, guesses and ticks, and whatever requests, providers,
\* crashes and completions do in between (signup.rs, otp.rs,
\* iam_private.complete_verified_signup).
THEOREM SignupSoundHolds == SignupSpec => []SignupSound
<1>1. SignupInit => SignupInv
  BY SignupInitInv
<1>2. SignupInv /\ [SignupNext]_signupVars => SignupInv'
  BY SignupStep
<1>3. SignupInv => SignupSound
  BY SignupInvSound
<1> QED BY <1>1, <1>2, <1>3, PTL DEF SignupSpec

----------------------------------------------------------------------------
(* The command line's sessions (CliSession) *)

CliOps == {"refresh", "logout", "login", None}
SessionRows == [family : Nat, gen : Nat, expires : Nat, key : Nat, started : Nat, logout : Nat]
ReplyRows == [op : CliOps, key : Nat, family : Nat, gen : Nat, expires : Nat]
RequestRows == [op : {"refresh", "logout"}, from : Processes, family : Nat, gen : Nat \ {0}, key : Nat \ {0}]
CliFamilyRows == [live : BOOLEAN, gen : Nat \ {0}, expires : Nat, reused : BOOLEAN]
CommandRows == [at : {"idle", "signing", "waiting", "locked", "sent"},
                cmd : {None, "use", "login", "logout", "forget"}, scope : Scopes \cup {None},
                seen : SessionRows, tries : Nat, awaits : Nat, reply : ReplyRows]

CliTyped ==
    /\ file \in [Scopes -> SessionRows]
    /\ locked \in [Scopes -> Processes \cup {None}]
    /\ proc \in [Processes -> CommandRows]
    /\ clock \in Nat /\ keys \in Nat
    /\ \E n \in Nat : families \in [1..n -> CliFamilyRows]
    /\ record \subseteq ReplyRows /\ net \subseteq RequestRows

(* A claim is a generation of a family somebody presented, or will, under a key: what the
   file reserved, what is on its way and what the service remembers. *)
ClaimRows == [op : CliOps, family : Nat, gen : Int, key : Nat]
ClaimOf(r) == [op |-> r.op, family |-> r.family, gen |-> r.gen, key |-> r.key]
ToldClaim(k) == [op |-> k.op, family |-> k.family,
                 gen |-> IF k.op = "refresh" THEN k.gen - 1 ELSE k.gen, key |-> k.key]
RefreshClaim(x) == [op |-> "refresh", family |-> x.family, gen |-> x.gen, key |-> x.key]
LogoutClaim(x) == [op |-> "logout", family |-> x.family, gen |-> x.gen, key |-> x.logout]
Claims(fs, reqs, told) ==
    {ClaimOf(r) : r \in reqs} \cup {ToldClaim(k) : k \in told}
    \cup {RefreshClaim(fs[s]) : s \in {t \in Scopes : fs[t].key # 0}}
    \cup {LogoutClaim(fs[s]) : s \in {t \in Scopes : fs[t].logout # 0}}
AllClaims == Claims(file, net, record)

(* A key stands for one claim, and a generation is presented under one key. *)
OneKeyEach(C, n, known) ==
    /\ \A c \in C : c.key \in 1..n /\ c.family \in known
    /\ \A c, d \in C : c.key = d.key => c = d
    /\ \A c, d \in C : c.op = "refresh" /\ d.op = "refresh" /\ c.family = d.family /\ c.gen = d.gen => c = d

(* A session of the file is of a family of its own, nobody presented a later generation of
   it, and its own generation only under the key the file reserved. *)
FileLeads(fs, C, known) ==
    /\ \A s \in Scopes : fs[s] # SignedOut => fs[s].family \in known /\ fs[s].gen > 0
    /\ \A s, t \in Scopes : fs[s] # SignedOut /\ fs[t] # SignedOut /\ fs[s].family = fs[t].family => s = t
    /\ \A s \in Scopes : fs[s] # SignedOut =>
          \A c \in C : c.op = "refresh" /\ c.family = fs[s].family
              => c.gen <= fs[s].gen /\ (c.gen = fs[s].gen => c.key = fs[s].key)

(* A generation behind the service's was answered under the same key. *)
Answered(told, key) == \E k \in told : k.key = key
BehindAnswered(fs, reqs, told, fams) ==
    /\ \A r \in reqs : r.op = "refresh" =>
          r.gen <= fams[r.family].gen /\ (r.gen < fams[r.family].gen => Answered(told, r.key))
    /\ \A s \in Scopes : fs[s] # SignedOut =>
          fs[s].gen <= fams[fs[s].family].gen
          /\ (fs[s].gen < fams[fs[s].family].gen => Answered(told, fs[s].key))

(* The service remembers the rotation that made a family's current generation. *)
RotationsTold(told, fams) ==
    /\ \A k \in told : k.op = "refresh" => k.gen <= fams[k.family].gen
    /\ \A f \in DOMAIN fams : fams[f].gen > 1 =>
          \E k \in told : k.op = "refresh" /\ k.family = f /\ k.gen = fams[f].gen

(* The time a key was reserved bounds the expiry of its reply. *)
StartsHonest(fs, told, now) ==
    \A s \in Scopes : fs[s].key # 0 =>
        fs[s].started <= now
        /\ \A k \in told : k.op = "refresh" /\ k.key = fs[s].key => fs[s].started + Life <= k.expires

(* What a process does between its locks. *)
CommandFits(row, p, fs, lock, told) ==
    /\ row.at \in {"waiting", "locked", "sent", "signing"} => row.scope \in Scopes
    /\ row.at \in {"locked", "sent"} => lock[row.scope] = p
    /\ row.at = "signing" => row.cmd = "login"
    /\ row.at # "sent" => row.reply.op # "refresh"
    /\ row.at = "sent" =>
          /\ row.cmd # "login" /\ fs[row.scope] # SignedOut /\ row.awaits # 0
          /\ row.awaits \in {fs[row.scope].key, fs[row.scope].logout}
          /\ row.reply.op = "refresh" => row.reply \in told /\ row.reply.key = row.awaits
CommandsFit == \A p \in Processes : CommandFits(proc[p], p, file, locked, record)

(* A sign-in in hand is of a family nobody has seen. *)
InHand(row) == row.cmd = "login" /\ row.at \in {"waiting", "locked"}
LoginFresh(row, fs, C, fams, gone) ==
    /\ row.reply.family \in DOMAIN fams /\ fams[row.reply.family].gen = 1
    /\ row.reply.family \notin gone
    /\ \A s \in Scopes : fs[s] # SignedOut => fs[s].family # row.reply.family
    /\ \A c \in C : c.family # row.reply.family
LoginsFresh ==
    /\ \A p \in Processes : InHand(proc[p]) => LoginFresh(proc[p], file, AllClaims, families, forgotten)
    /\ \A p, q \in Processes : InHand(proc[p]) /\ InHand(proc[q])
          /\ proc[p].reply.family = proc[q].reply.family => p = q

CliInv ==
    /\ CliTyped
    /\ OneKeyEach(AllClaims, keys, DOMAIN families)
    /\ FileLeads(file, AllClaims, DOMAIN families)
    /\ BehindAnswered(file, net, record, families)
    /\ RotationsTold(record, families)
    /\ StartsHonest(file, record, clock)
    /\ CommandsFit
    /\ LoginsFresh
    /\ forgotten \subseteq DOMAIN families
    /\ NeverTakenForThief /\ StaysForgotten /\ ExpiryHonest

LEMMA CliRowsTyped ==
    ASSUME CliAssumption
    PROVE  /\ NoReply \in ReplyRows /\ SignedOut \in SessionRows /\ NoCommand \in CommandRows
           /\ \A f, g, e \in Nat : Session(f, g, e) \in SessionRows
           /\ SignedOut.key = 0 /\ SignedOut.logout = 0 /\ SignedOut.family = 0
           /\ NoCommand.at = "idle" /\ NoCommand.cmd = None /\ NoReply.op = None /\ Life \in Nat \ {0}
           /\ NoCommand.tries = 0 /\ NoCommand.awaits = 0 /\ NoCommand.reply = NoReply
<1>1. NoReply \in ReplyRows
  BY DEF NoReply, ReplyRows, CliOps, None
<1>2. SignedOut \in SessionRows
  BY DEF SignedOut, SessionRows, Session
<1>3. NoCommand \in CommandRows
  BY <1>1, <1>2 DEF NoCommand, CommandRows, None
<1>4. \A f, g, e \in Nat : Session(f, g, e) \in SessionRows
  BY DEF Session, SessionRows
<1> QED  BY <1>1, <1>2, <1>3, <1>4 DEF SignedOut, Session, NoCommand, NoReply, CliAssumption

\* Every action only touches a few columns; here each is typed.
LEMMA StartTyped ==
    ASSUME CliAssumption, CliTyped, NEW p \in Processes, NEW s \in Scopes,
           NEW cmd \in {"use", "login", "logout", "forget"}, Start(p, cmd, s)
    PROVE  CliTyped'
<1>1. PICK row : row = [NoCommand EXCEPT !.at = IF cmd = "login" THEN "signing" ELSE "waiting",
                                   !.cmd = cmd, !.scope = s, !.seen = IF cmd = "use" THEN file[s] ELSE SignedOut]
  OBVIOUS
<1>2. row \in CommandRows
  BY <1>1, CliRowsTyped DEF CliTyped, CommandRows, None
<1>3. proc' = [proc EXCEPT ![p] = row]
  BY <1>1 DEF Start
<1>4. proc' \in [Processes -> CommandRows]
  BY <1>2, <1>3 DEF CliTyped
<1> QED  BY <1>4 DEF CliTyped, Start

LEMMA LockSessionTyped ==
    ASSUME CliTyped, NEW p \in Processes, LockSession(p)
    PROVE  CliTyped'
<1>1. PICK row : row = [proc[p] EXCEPT !.at = "locked"]
  OBVIOUS
<1>2. row \in CommandRows
  BY <1>1 DEF CliTyped, CommandRows
<1>3. proc' = [proc EXCEPT ![p] = row]
  BY <1>1 DEF LockSession
<1>4. proc' \in [Processes -> CommandRows]
  BY <1>2, <1>3 DEF CliTyped
<1> QED  BY <1>4 DEF CliTyped, LockSession

LEMMA SignInTyped ==
    ASSUME CliAssumption, CliTyped, NEW p \in Processes, SignIn(p)
    PROVE  /\ CliTyped'
           /\ \E n \in Nat, row \in CliFamilyRows :
                /\ DOMAIN families = 1..n /\ DOMAIN families' = 1..(n + 1)
                /\ families' = [g \in 1..(n + 1) |-> IF g = n + 1 THEN row ELSE families[g]]
                /\ row.gen = 1 /\ row.reused = FALSE
                /\ proc' = [proc EXCEPT ![p].at = "waiting",
                       ![p].reply = [NoReply EXCEPT !.op = "login", !.family = n + 1, !.expires = clock + Life]]
<1>1. PICK n \in Nat : families \in [1..n -> CliFamilyRows]
  BY DEF CliTyped
<1>2. Cardinality(1..n) = n
  BY <1>1, FS_Interval
<1>3. DOMAIN families = 1..n
  BY <1>1
<1>4. PICK row : row = [live |-> TRUE, gen |-> 1, expires |-> clock + Life, reused |-> FALSE]
  OBVIOUS
<1>5. clock + Life \in Nat
  BY CliRowsTyped DEF CliTyped
<1>6. row \in CliFamilyRows /\ row.gen = 1 /\ row.reused = FALSE
  BY <1>4, <1>5 DEF CliFamilyRows
<1>7. families' = [g \in 1..(n + 1) |-> IF g = n + 1 THEN row ELSE families[g]]
  BY <1>2, <1>3, <1>4 DEF SignIn
<1>8. families' \in [1..(n + 1) -> CliFamilyRows]
  BY <1>1, <1>6, <1>7
<1>9. PICK answer : answer = [NoReply EXCEPT !.op = "login", !.family = n + 1, !.expires = clock + Life]
  OBVIOUS
<1>10. answer \in ReplyRows
  <2>1. n + 1 \in Nat /\ "login" \in CliOps
    BY <1>1 DEF CliOps
  <2> QED  BY <1>5, <1>9, <2>1, CliRowsTyped DEF ReplyRows
<1>11. PICK line : line = [proc[p] EXCEPT !.at = "waiting", !.reply = answer]
  OBVIOUS
<1>12. line \in CommandRows
  BY ZenonT(30), <1>10, <1>11 DEF CliTyped, CommandRows
<1>13. proc' = [proc EXCEPT ![p].at = "waiting",
                       ![p].reply = [NoReply EXCEPT !.op = "login", !.family = n + 1, !.expires = clock + Life]]
  BY <1>2, <1>3 DEF SignIn
<1>14. proc' = [proc EXCEPT ![p] = line]
  BY <1>13, <1>9, <1>11 DEF CliTyped
<1>15. proc' \in [Processes -> CommandRows]
  BY <1>12, <1>14 DEF CliTyped
<1>16. CliTyped'
  <2>1. n + 1 \in Nat
    BY <1>1
  <2>2. \E m \in Nat : families' \in [1..m -> CliFamilyRows]
    BY <1>8, <2>1
  <2> QED  BY <2>2, <1>15 DEF CliTyped, SignIn
<1> QED  BY <1>1, <1>3, <1>6, <1>7, <1>8, <1>13, <1>16

\* What a write of the file, the end of a command and a release leave typed.
LEMMA WriteTyped ==
    ASSUME CliTyped, NEW s, NEW x \in SessionRows
    PROVE  Merge(s, x) \in [Scopes -> SessionRows]
  BY DEF CliTyped, Merge

LEMMA ReleaseTyped ==
    ASSUME CliAssumption, CliTyped, NEW p \in Processes, Release(p), proc' = [proc EXCEPT ![p] = NoCommand]
    PROVE  locked' \in [Scopes -> Processes \cup {None}] /\ proc' \in [Processes -> CommandRows]
  BY CliRowsTyped DEF CliTyped, Release

LEMMA EndingTyped ==
    ASSUME CliAssumption, CliTyped, NEW p \in Processes,
           RememberLogin(p) \/ Forget(p) \/ FinishCliLogout(p) \/ Exit(p)
    PROVE  CliTyped'
<1>1. proc[p].reply.family \in Nat /\ proc[p].reply.expires \in Nat
  BY DEF CliTyped, CommandRows, ReplyRows
<1>2. Session(proc[p].reply.family, 1, proc[p].reply.expires) \in SessionRows /\ SignedOut \in SessionRows
  BY <1>1, CliRowsTyped
<1>3. file' \in [Scopes -> SessionRows]
  <2>1. Merge(proc[p].scope, SignedOut) \in [Scopes -> SessionRows]
    BY <1>2, WriteTyped
  <2>2. Merge(proc[p].scope, Session(proc[p].reply.family, 1, proc[p].reply.expires)) \in [Scopes -> SessionRows]
    BY <1>2, WriteTyped
  <2>3. file \in [Scopes -> SessionRows]
    BY DEF CliTyped
  <2> QED  BY <2>1, <2>2, <2>3 DEF RememberLogin, Forget, FinishCliLogout, Exit, Store
<1>4. locked' \in [Scopes -> Processes \cup {None}] /\ proc' \in [Processes -> CommandRows]
  BY ReleaseTyped DEF RememberLogin, Forget, FinishCliLogout, Exit
<1> QED  BY <1>3, <1>4 DEF CliTyped, RememberLogin, Forget, FinishCliLogout, Exit

LEMMA RenewTyped ==
    ASSUME CliAssumption, CliTyped, NEW p \in Processes, proc[p].scope \in Scopes, Renew(p),
           file[proc[p].scope] # SignedOut =>
              file[proc[p].scope].gen > 0
    PROVE  /\ CliTyped'
           /\ \E s \in Scopes, x \in SessionRows, r \in RequestRows :
                /\ s = proc[p].scope /\ locked[s] = p /\ proc[p].at = "locked" /\ proc[p].cmd \in {"use", "logout"}
                /\ file[s] # SignedOut /\ file[s].logout = 0
                /\ \/ file[s].key = 0 /\ x = [file[s] EXCEPT !.key = keys + 1, !.started = clock] /\ keys' = keys + 1
                   \/ file[s].key # 0 /\ x = file[s] /\ keys' = keys
                /\ r = [op |-> "refresh", from |-> p, family |-> x.family, gen |-> x.gen, key |-> x.key]
                /\ Store(s, x) /\ net' = net \cup {r}
                /\ proc' = [proc EXCEPT ![p].at = "sent", ![p].awaits = x.key, ![p].tries = @ + 1]
<1>1. PICK s \in Scopes : s = proc[p].scope
  OBVIOUS
<1>2. file[s] \in SessionRows /\ file[s] # SignedOut /\ file[s].gen > 0 /\ file[s].logout = 0
  BY <1>1 DEF CliTyped, Renew, Current
<1>3. PICK x : x = IF file[s].key = 0 THEN [file[s] EXCEPT !.key = keys + 1, !.started = clock] ELSE file[s]
  OBVIOUS
<1>4. keys + 1 \in Nat /\ clock \in Nat /\ keys \in Nat
  BY DEF CliTyped
<1>5. x \in SessionRows
  BY <1>2, <1>3, <1>4 DEF SessionRows
<1>6. x.gen = file[s].gen /\ x.key # 0
  BY <1>2, <1>3, <1>4 DEF SessionRows
<1>7. PICK r : r = [op |-> "refresh", from |-> p, family |-> x.family, gen |-> x.gen, key |-> x.key]
  OBVIOUS
<1>8. r \in RequestRows
  <2>1. x.family \in Nat /\ x.gen \in Nat \ {0} /\ x.key \in Nat \ {0}
    BY <1>2, <1>5, <1>6 DEF SessionRows
  <2> QED  BY <2>1, <1>7 DEF RequestRows
<1>9. Store(s, x) /\ net' = net \cup {r}
  BY <1>1, <1>3, <1>7 DEF Renew, Reserved, Current
<1>10. proc' = [proc EXCEPT ![p].at = "sent", ![p].awaits = x.key, ![p].tries = @ + 1]
  BY <1>1, <1>3 DEF Renew, Current
<1>11. proc' \in [Processes -> CommandRows]
  <2>1. PICK row : row = [proc[p] EXCEPT !.at = "sent", !.awaits = x.key, !.tries = @ + 1]
    OBVIOUS
  <2>2. proc[p] \in CommandRows /\ x.key \in Nat
    BY <1>5 DEF CliTyped, SessionRows
  <2>5. proc[p].tries \in Nat
    BY <2>2 DEF CommandRows
  <2>6. proc[p].tries + 1 \in Nat
    BY <2>5
  <2>3. row \in CommandRows
    BY <2>1, <2>2, <2>6 DEF CommandRows
  <2>4. proc' = [proc EXCEPT ![p] = row]
    BY <1>10, <2>1 DEF CliTyped
  <2> QED  BY <2>3, <2>4 DEF CliTyped
<1>12. file' \in [Scopes -> SessionRows]
  BY <1>5, <1>9, WriteTyped DEF Store
<1>13. keys' \in Nat /\ net' \subseteq RequestRows
  BY <1>4, <1>8, <1>9 DEF CliTyped, Renew
<1>14. CliTyped'
  BY <1>11, <1>12, <1>13 DEF CliTyped, Renew
<1>15. \/ file[s].key = 0 /\ x = [file[s] EXCEPT !.key = keys + 1, !.started = clock] /\ keys' = keys + 1
       \/ file[s].key # 0 /\ x = file[s] /\ keys' = keys
  BY <1>1, <1>3 DEF Renew, Current
<1>16. locked[s] = p /\ proc[p].at = "locked" /\ proc[p].cmd \in {"use", "logout"}
  BY <1>1 DEF Renew, HoldsScope
<1> QED  BY <1>1, <1>2, <1>5, <1>7, <1>8, <1>9, <1>10, <1>14, <1>15, <1>16

LEMMA LogoutTyped ==
    ASSUME CliAssumption, CliTyped, NEW p \in Processes, proc[p].scope \in Scopes, Logout(p),
           file[proc[p].scope] # SignedOut => file[proc[p].scope].gen > 0
    PROVE  /\ CliTyped'
           /\ \E s \in Scopes, x \in SessionRows, r \in RequestRows :
                /\ s = proc[p].scope /\ locked[s] = p /\ proc[p].at = "locked" /\ proc[p].cmd = "logout"
                /\ file[s] # SignedOut
                /\ \/ file[s].logout = 0 /\ x = [file[s] EXCEPT !.logout = keys + 1] /\ keys' = keys + 1
                   \/ file[s].logout # 0 /\ x = file[s] /\ keys' = keys
                /\ r = [op |-> "logout", from |-> p, family |-> x.family, gen |-> x.gen, key |-> x.logout]
                /\ Store(s, x) /\ net' = net \cup {r}
                /\ proc' = [proc EXCEPT ![p].at = "sent", ![p].awaits = x.logout]
<1>1. PICK s \in Scopes : s = proc[p].scope
  OBVIOUS
<1>2. file[s] \in SessionRows /\ file[s] # SignedOut /\ file[s].gen > 0
  BY <1>1 DEF CliTyped, Logout, Current
<1>3. PICK x : x = IF file[s].logout = 0 THEN [file[s] EXCEPT !.logout = keys + 1] ELSE file[s]
  OBVIOUS
<1>4. keys + 1 \in Nat /\ keys \in Nat
  BY DEF CliTyped
<1>5. x \in SessionRows
  BY <1>2, <1>3, <1>4 DEF SessionRows
<1>6. x.gen = file[s].gen /\ x.logout # 0
  BY <1>2, <1>3, <1>4 DEF SessionRows
<1>7. PICK r : r = [op |-> "logout", from |-> p, family |-> x.family, gen |-> x.gen, key |-> x.logout]
  OBVIOUS
<1>8. r \in RequestRows
  <2>1. x.family \in Nat /\ x.gen \in Nat \ {0} /\ x.logout \in Nat \ {0}
    BY <1>2, <1>5, <1>6 DEF SessionRows
  <2> QED  BY <2>1, <1>7 DEF RequestRows
<1>9. Store(s, x) /\ net' = net \cup {r}
  BY <1>1, <1>3, <1>7 DEF Logout, Current
<1>10. proc' = [proc EXCEPT ![p].at = "sent", ![p].awaits = x.logout]
  BY <1>1, <1>3 DEF Logout, Current
<1>11. proc' \in [Processes -> CommandRows]
  <2>1. PICK row : row = [proc[p] EXCEPT !.at = "sent", !.awaits = x.logout]
    OBVIOUS
  <2>2. proc[p] \in CommandRows /\ x.logout \in Nat
    BY <1>5 DEF CliTyped, SessionRows
  <2>3. row \in CommandRows
    BY <2>1, <2>2 DEF CommandRows
  <2>4. proc' = [proc EXCEPT ![p] = row]
    BY <1>10, <2>1 DEF CliTyped
  <2> QED  BY <2>3, <2>4 DEF CliTyped
<1>12. file' \in [Scopes -> SessionRows]
  BY <1>5, <1>9, WriteTyped DEF Store
<1>13. keys' \in Nat /\ net' \subseteq RequestRows
  BY <1>4, <1>8, <1>9 DEF CliTyped, Logout
<1>14. CliTyped'
  BY <1>11, <1>12, <1>13 DEF CliTyped, Logout
<1>15. \/ file[s].logout = 0 /\ x = [file[s] EXCEPT !.logout = keys + 1] /\ keys' = keys + 1
       \/ file[s].logout # 0 /\ x = file[s] /\ keys' = keys
  BY <1>1, <1>3 DEF Logout, Current
<1>16. locked[s] = p /\ proc[p].at = "locked" /\ proc[p].cmd = "logout"
  BY <1>1 DEF Logout, HoldsScope
<1> QED  BY <1>1, <1>2, <1>5, <1>7, <1>8, <1>9, <1>10, <1>14, <1>15, <1>16

LEMMA FinishRenewalTyped ==
    ASSUME CliAssumption, CliTyped, NEW p \in Processes, proc[p].scope \in Scopes, FinishRenewal(p)
    PROVE  /\ CliTyped'
           /\ \E s \in Scopes, x \in SessionRows, k \in ReplyRows :
                /\ s = proc[p].scope /\ locked[s] = p /\ proc[p].at = "sent"
                /\ file[s] # SignedOut /\ k = proc[p].reply /\ k.op = "refresh"
                /\ x = Session(k.family, k.gen, file[s].started + Life)
                /\ Store(s, x)
                /\ proc' = [proc EXCEPT ![p].at = "locked", ![p].awaits = 0, ![p].reply = NoReply]
<1>1. PICK s \in Scopes : s = proc[p].scope
  OBVIOUS
<1>2. file[s] \in SessionRows /\ file[s] # SignedOut
  BY <1>1 DEF CliTyped, FinishRenewal
<1>3. PICK k : k = proc[p].reply
  OBVIOUS
<1>4. k \in ReplyRows /\ k.op = "refresh" /\ k.family \in Nat /\ k.gen \in Nat
  BY <1>3 DEF CliTyped, CommandRows, ReplyRows, FinishRenewal
<1>5. file[s].started \in Nat
  BY <1>2 DEF SessionRows
<1>6. file[s].started + Life \in Nat
  BY <1>5, CliRowsTyped
<1>7. PICK x : x = Session(k.family, k.gen, file[s].started + Life)
  OBVIOUS
<1>8. x \in SessionRows
  BY <1>4, <1>6, <1>7, CliRowsTyped
<1>9. Store(s, x)
  BY <1>1, <1>3, <1>7 DEF FinishRenewal, ExpiresFrom
<1>10. proc' = [proc EXCEPT ![p].at = "locked", ![p].awaits = 0, ![p].reply = NoReply]
  BY DEF FinishRenewal
<1>11. proc' \in [Processes -> CommandRows]
  <2>1. PICK row : row = [proc[p] EXCEPT !.at = "locked", !.awaits = 0, !.reply = NoReply]
    OBVIOUS
  <2>2. proc[p] \in CommandRows
    BY DEF CliTyped
  <2>3. row \in CommandRows
    BY <2>1, <2>2, CliRowsTyped DEF CommandRows
  <2>4. proc' = [proc EXCEPT ![p] = row]
    BY <1>10, <2>1 DEF CliTyped
  <2> QED  BY <2>3, <2>4 DEF CliTyped
<1>12. file' \in [Scopes -> SessionRows]
  BY <1>8, <1>9, WriteTyped DEF Store
<1>13. CliTyped'
  BY <1>11, <1>12 DEF CliTyped, FinishRenewal
<1>14. locked[s] = p /\ proc[p].at = "sent"
  BY <1>1 DEF FinishRenewal, HoldsScope
<1> QED  BY <1>1, <1>2, <1>3, <1>4, <1>7, <1>8, <1>9, <1>10, <1>13, <1>14

\* An answer reaches the process only while it waits for this key.
LEMMA AnswerTyped ==
    ASSUME CliTyped, NEW r \in RequestRows, NEW k \in ReplyRows, Answer(r, k)
    PROVE  proc' \in [Processes -> CommandRows]
<1>1. r.from \in Processes
  BY DEF RequestRows
<1>2. PICK row : row = [proc[r.from] EXCEPT !.reply = k]
  OBVIOUS
<1>3. proc[r.from] \in CommandRows
  BY <1>1 DEF CliTyped
<1>4. row \in CommandRows
  BY <1>2, <1>3 DEF CommandRows
<1>5. proc' = [proc EXCEPT ![r.from] = row] \/ proc' = [proc EXCEPT ![r.from] = proc[r.from]]
  BY <1>2 DEF Answer, CliTyped
<1> QED  BY <1>1, <1>3, <1>4, <1>5 DEF CliTyped

\* A refresh is served in one of four ways.
LEMMA ServeRefreshTyped ==
    ASSUME CliAssumption, CliTyped, NEW r \in RequestRows, r \in net, ServeRefresh(r),
           r.family \in DOMAIN families
    PROVE  /\ CliTyped'
           /\ r.op = "refresh" /\ net' = net \ {r}
           /\ \/ /\ \E k \in record : k.key = r.key /\ Answer(r, k)
                 /\ UNCHANGED <<families, record>>
              \/ /\ \A k \in record : k.key # r.key
                 /\ families[r.family].gen = r.gen
                 /\ \E row \in CliFamilyRows, k \in ReplyRows :
                      /\ row.gen = r.gen + 1 /\ row.reused = families[r.family].reused
                      /\ k = [op |-> "refresh", key |-> r.key, family |-> r.family, gen |-> r.gen + 1, expires |-> clock + Life]
                      /\ families' = [families EXCEPT ![r.family] = row]
                      /\ record' = record \cup {k} /\ Answer(r, k)
              \/ (\A k \in record : k.key # r.key) /\ families[r.family].gen > r.gen
              \/ UNCHANGED <<families, proc, record>>
<1>1. PICK n \in Nat : families \in [1..n -> CliFamilyRows]
  BY DEF CliTyped
<1>2. families[r.family] \in CliFamilyRows
  BY <1>1
<1>3. r.op = "refresh" /\ net' = net \ {r} /\ net' \subseteq RequestRows
  BY DEF ServeRefresh, CliTyped
<1>4. clock + Life \in Nat /\ r.gen + 1 \in Nat \ {0} /\ r.key \in Nat /\ r.family \in Nat
  BY CliRowsTyped DEF CliTyped, RequestRows
<1>5. PICK new : new = [op |-> "refresh", key |-> r.key, family |-> r.family, gen |-> r.gen + 1, expires |-> clock + Life]
  OBVIOUS
<1>6. new \in ReplyRows
  BY <1>4, <1>5 DEF ReplyRows, CliOps
<1>7. CASE Remembered(r) # {} /\ (\E k \in Remembered(r) : Answer(r, k)) /\ UNCHANGED <<families, record>>
  <2>1. PICK k \in record : k.key = r.key /\ Answer(r, k)
    BY <1>7 DEF Remembered
  <2>2. proc' \in [Processes -> CommandRows]
    BY <2>1, AnswerTyped DEF CliTyped
  <2>3. CliTyped'
    BY <1>3, <1>7, <2>2 DEF CliTyped, ServeRefresh
  <2> QED  BY <1>3, <1>7, <2>1, <2>3
<1>8. CASE /\ Remembered(r) = {} /\ families[r.family].live /\ families[r.family].gen = r.gen
           /\ families' = [families EXCEPT ![r.family].gen = r.gen + 1, ![r.family].expires = clock + Life]
           /\ record' = record \cup {new} /\ Answer(r, new)
  <2>1. \A k \in record : k.key # r.key
    BY <1>8 DEF Remembered
  <2>2. PICK row : row = [families[r.family] EXCEPT !.gen = r.gen + 1, !.expires = clock + Life]
    OBVIOUS
  <2>3. row \in CliFamilyRows /\ row.gen = r.gen + 1 /\ row.reused = families[r.family].reused
    BY <1>2, <1>4, <2>2 DEF CliFamilyRows
  <2>4. families' = [families EXCEPT ![r.family] = row]
    BY <1>1, <1>8, <2>2
  <2>5. families' \in [1..n -> CliFamilyRows] /\ record' \subseteq ReplyRows
    BY <1>1, <1>6, <1>8, <2>3, <2>4 DEF CliTyped
  <2>6. proc' \in [Processes -> CommandRows]
    BY <1>6, <1>8, AnswerTyped
  <2>7. CliTyped'
    BY <1>1, <1>3, <2>5, <2>6 DEF CliTyped, ServeRefresh
  <2> QED  BY <1>3, <1>5, <1>6, <1>8, <2>1, <2>3, <2>4, <2>7
<1>9. CASE /\ Remembered(r) = {} /\ families[r.family].gen > r.gen
           /\ families' = [families EXCEPT ![r.family].live = FALSE, ![r.family].reused = TRUE]
           /\ UNCHANGED <<proc, record>>
  <2>1. \A k \in record : k.key # r.key
    BY <1>9 DEF Remembered
  <2>2. PICK row : row = [families[r.family] EXCEPT !.live = FALSE, !.reused = TRUE]
    OBVIOUS
  <2>3. row \in CliFamilyRows
    BY <1>2, <2>2 DEF CliFamilyRows
  <2>4. families' = [families EXCEPT ![r.family] = row]
    BY <1>1, <1>9, <2>2
  <2>5. families' \in [1..n -> CliFamilyRows]
    BY <1>1, <2>3, <2>4
  <2>6. CliTyped'
    BY <1>1, <1>3, <1>9, <2>5 DEF CliTyped, ServeRefresh
  <2> QED  BY <1>3, <1>9, <2>1, <2>6
<1>10. CASE UNCHANGED <<families, proc, record>>
  <2>1. CliTyped'
    BY <1>3, <1>10 DEF CliTyped, ServeRefresh
  <2> QED  BY <1>3, <1>10, <2>1
<1> QED  BY <1>5, <1>7, <1>8, <1>9, <1>10 DEF ServeRefresh

LEMMA ServeLogoutTyped ==
    ASSUME CliAssumption, CliTyped, NEW r \in RequestRows, r \in net, ServeLogout(r),
           r.family \in DOMAIN families
    PROVE  /\ CliTyped'
           /\ r.op = "logout" /\ net' = net \ {r}
           /\ \/ UNCHANGED <<families, proc, record>>
              \/ \E k \in ReplyRows :
                    /\ k = [op |-> "logout", key |-> r.key, family |-> r.family, gen |-> r.gen, expires |-> 0]
                    /\ Answer(r, k)
                    /\ \/ UNCHANGED <<families, record>>
                       \/ /\ record' = record \cup {k}
                          /\ \E row \in CliFamilyRows :
                                /\ row.gen = families[r.family].gen /\ row.reused = families[r.family].reused
                                /\ families' = [families EXCEPT ![r.family] = row]
<1>1. PICK n \in Nat : families \in [1..n -> CliFamilyRows]
  BY DEF CliTyped
<1>2. families[r.family] \in CliFamilyRows
  BY <1>1
<1>3. r.op = "logout" /\ net' = net \ {r} /\ net' \subseteq RequestRows
  BY DEF ServeLogout, CliTyped
<1>4. PICK new : new = [op |-> "logout", key |-> r.key, family |-> r.family, gen |-> r.gen, expires |-> 0]
  OBVIOUS
<1>5. new \in ReplyRows
  BY <1>4 DEF ReplyRows, CliOps, RequestRows
<1>6. CASE Answer(r, new) /\ UNCHANGED <<families, record>>
  <2>1. proc' \in [Processes -> CommandRows]
    BY <1>5, <1>6, AnswerTyped
  <2>2. CliTyped'
    BY <1>3, <1>6, <2>1 DEF CliTyped, ServeLogout
  <2> QED  BY <1>3, <1>4, <1>5, <1>6, <2>2
<1>7. CASE /\ families' = [families EXCEPT ![r.family].live = FALSE]
           /\ record' = record \cup {new} /\ Answer(r, new)
  <2>1. PICK row : row = [families[r.family] EXCEPT !.live = FALSE]
    OBVIOUS
  <2>2. row \in CliFamilyRows /\ row.gen = families[r.family].gen /\ row.reused = families[r.family].reused
    BY <1>2, <2>1 DEF CliFamilyRows
  <2>3. families' = [families EXCEPT ![r.family] = row]
    BY <1>1, <1>7, <2>1
  <2>4. families' \in [1..n -> CliFamilyRows] /\ record' \subseteq ReplyRows
    BY <1>1, <1>5, <1>7, <2>2, <2>3 DEF CliTyped
  <2>5. proc' \in [Processes -> CommandRows]
    BY <1>5, <1>7, AnswerTyped
  <2>6. CliTyped'
    BY <1>1, <1>3, <2>4, <2>5 DEF CliTyped, ServeLogout
  <2> QED  BY <1>3, <1>4, <1>5, <1>7, <2>2, <2>3, <2>6
<1>8. CASE UNCHANGED <<families, proc, record>>
  <2>1. CliTyped'
    BY <1>3, <1>8 DEF CliTyped, ServeLogout
  <2> QED  BY <1>3, <1>8, <2>1
<1> QED  BY <1>4, <1>6, <1>7, <1>8 DEF ServeLogout

\* What happens to the claims when the file, the network and the service's memory change.
LEMMA ClaimsDropped ==
    ASSUME NEW fs \in [Scopes -> SessionRows], NEW s \in Scopes, NEW x, x.key = 0, x.logout = 0,
           NEW reqs, NEW told
    PROVE  Claims([fs EXCEPT ![s] = x], reqs, told) \subseteq Claims(fs, reqs, told)
  BY DEF Claims

LEMMA ClaimsRenewed ==
    ASSUME NEW fs \in [Scopes -> SessionRows], NEW s \in Scopes, NEW x, NEW r, NEW reqs, NEW told,
           r.op = "refresh", r.family = x.family, r.gen = x.gen, r.key = x.key,
           x.logout = 0
    PROVE  Claims([fs EXCEPT ![s] = x], reqs \cup {r}, told) \subseteq Claims(fs, reqs, told) \cup {RefreshClaim(x)}
  BY DEF Claims, ClaimOf, RefreshClaim

LEMMA ClaimsLoggedOut ==
    ASSUME NEW fs \in [Scopes -> SessionRows], NEW s \in Scopes, NEW x, NEW r, NEW reqs, NEW told,
           r.op = "logout", r.family = x.family, r.gen = x.gen, r.key = x.logout,
           x.key = fs[s].key, x.family = fs[s].family, x.gen = fs[s].gen
    PROVE  Claims([fs EXCEPT ![s] = x], reqs \cup {r}, told) \subseteq Claims(fs, reqs, told) \cup {LogoutClaim(x)}
  BY DEF Claims, ClaimOf, RefreshClaim, LogoutClaim

LEMMA ClaimsServed ==
    ASSUME NEW fs, NEW reqs, NEW r \in reqs, NEW told, NEW more,
           \A k \in more : k \in told \/ ToldClaim(k) = ClaimOf(r)
    PROVE  Claims(fs, reqs \ {r}, more) \subseteq Claims(fs, reqs, told)
  BY DEF Claims

LEMMA ClaimsMade ==
    ASSUME NEW fs, NEW reqs, NEW told
    PROVE  /\ \A r \in reqs : ClaimOf(r) \in Claims(fs, reqs, told)
           /\ \A k \in told : ToldClaim(k) \in Claims(fs, reqs, told)
           /\ \A s \in Scopes : fs[s].key # 0 => RefreshClaim(fs[s]) \in Claims(fs, reqs, told)
           /\ \A s \in Scopes : fs[s].logout # 0 => LogoutClaim(fs[s]) \in Claims(fs, reqs, told)
  BY DEF Claims

LEMMA ClaimsKnown ==
    ASSUME NEW fs, NEW reqs, NEW told, NEW n, NEW known, OneKeyEach(Claims(fs, reqs, told), n, known)
    PROVE  /\ \A r \in reqs : r.family \in known /\ r.key \in 1..n
           /\ \A k \in told : k.family \in known /\ k.key \in 1..n
           /\ \A s \in Scopes : fs[s].key # 0 => fs[s].key \in 1..n
           /\ \A s \in Scopes : fs[s].logout # 0 => fs[s].logout \in 1..n
<1>1. ASSUME NEW r \in reqs
      PROVE  r.family \in known /\ r.key \in 1..n
  <2>1. ClaimOf(r) \in Claims(fs, reqs, told) /\ ClaimOf(r).family = r.family /\ ClaimOf(r).key = r.key
    BY ClaimsMade DEF ClaimOf
  <2> QED  BY <2>1 DEF OneKeyEach
<1>2. ASSUME NEW k \in told
      PROVE  k.family \in known /\ k.key \in 1..n
  <2>1. ToldClaim(k) \in Claims(fs, reqs, told) /\ ToldClaim(k).family = k.family /\ ToldClaim(k).key = k.key
    BY ClaimsMade DEF ToldClaim
  <2> QED  BY <2>1 DEF OneKeyEach
<1>3. ASSUME NEW s \in Scopes, fs[s].key # 0
      PROVE  fs[s].key \in 1..n
  <2>1. RefreshClaim(fs[s]) \in Claims(fs, reqs, told) /\ RefreshClaim(fs[s]).key = fs[s].key
    BY <1>3, ClaimsMade DEF RefreshClaim
  <2> QED  BY <2>1 DEF OneKeyEach
<1>4. ASSUME NEW s \in Scopes, fs[s].logout # 0
      PROVE  fs[s].logout \in 1..n
  <2>1. LogoutClaim(fs[s]) \in Claims(fs, reqs, told) /\ LogoutClaim(fs[s]).key = fs[s].logout
    BY <1>4, ClaimsMade DEF LogoutClaim
  <2> QED  BY <2>1 DEF OneKeyEach
<1> QED  BY <1>1, <1>2, <1>3, <1>4

LEMMA OneKeyShrinks ==
    ASSUME NEW C, NEW D, D \subseteq C, NEW n \in Nat, NEW known, NEW more, known \subseteq more,
           OneKeyEach(C, n, known)
    PROVE  OneKeyEach(D, n, more)
  BY DEF OneKeyEach

LEMMA OneKeyGrows ==
    ASSUME NEW C, NEW D, NEW c, D \subseteq C \cup {c}, NEW n \in Nat, NEW known,
           OneKeyEach(C, n, known), c.key = n + 1, c.family \in known,
           \A d \in C : ~ (c.op = "refresh" /\ d.op = "refresh" /\ c.family = d.family /\ c.gen = d.gen)
    PROVE  OneKeyEach(D, n + 1, known)
<1>1. \A d \in C : d.key \in 1..n /\ d.key # c.key
  BY DEF OneKeyEach
<1>2. \A d \in D : d = c \/ d \in C
  OBVIOUS
<1>3. \A d \in D : d.key \in 1..(n + 1) /\ d.family \in known
  BY <1>1, <1>2 DEF OneKeyEach
<1>4. \A d, e \in D : d.key = e.key => d = e
  BY <1>1, <1>2 DEF OneKeyEach
<1>5. \A d, e \in D : d.op = "refresh" /\ e.op = "refresh" /\ d.family = e.family /\ d.gen = e.gen => d = e
  BY <1>2 DEF OneKeyEach
<1> QED  BY <1>3, <1>4, <1>5 DEF OneKeyEach

LEMMA FileLeadsShrinks ==
    ASSUME NEW fs, NEW C, NEW D, D \subseteq C, NEW known, NEW more, known \subseteq more, FileLeads(fs, C, known)
    PROVE  FileLeads(fs, D, more)
  BY DEF FileLeads

\* The session of one scope gets a key or a pending logout; its generation stays.
LEMMA FileLeadsReserved ==
    ASSUME NEW fs \in [Scopes -> SessionRows], NEW s \in Scopes, NEW x \in SessionRows,
           NEW C, NEW D, NEW known, NEW c, D \subseteq C \cup {c},
           FileLeads(fs, C, known), fs[s] # SignedOut, x.family = fs[s].family, x.gen = fs[s].gen,
           c.family = x.family, c.gen = x.gen, c.op = "refresh" => c.key = x.key,
           \A d \in C : d.op = "refresh" /\ d.family = x.family /\ d.gen = x.gen => d.key = x.key
    PROVE  FileLeads([fs EXCEPT ![s] = x], D, known)
<1>1. PICK new : new = [fs EXCEPT ![s] = x]
  OBVIOUS
<1>2. new[s] = x /\ (\A t \in Scopes \ {s} : new[t] = fs[t])
  BY <1>1
<1>3. fs[s].gen \in Nat /\ fs[s].gen > 0 /\ fs[s].family \in known
  BY DEF FileLeads, SessionRows
<1>4. \A t \in Scopes : new[t] # SignedOut => new[t].family = fs[t].family /\ new[t].gen = fs[t].gen /\ fs[t] # SignedOut
  BY <1>2
<1>5. \A t \in Scopes : new[t] # SignedOut => new[t].family \in known /\ new[t].gen > 0
  BY <1>4 DEF FileLeads
<1>6. \A t, u \in Scopes : new[t] # SignedOut /\ new[u] # SignedOut /\ new[t].family = new[u].family => t = u
  BY <1>4 DEF FileLeads
<1>7. ASSUME NEW t \in Scopes, new[t] # SignedOut, NEW d \in D, d.op = "refresh", d.family = new[t].family
      PROVE  d.gen <= new[t].gen /\ (d.gen = new[t].gen => d.key = new[t].key)
  <2>1. CASE d \in C /\ t # s
    BY <1>2, <1>7, <2>1 DEF FileLeads
  <2>2. CASE d \in C /\ t = s
    BY <1>2, <1>7, <2>2 DEF FileLeads
  <2>3. CASE d = c /\ t = s
    BY <1>2, <1>3, <1>7, <2>3
  <2>4. CASE d = c /\ t # s
    BY <1>2, <1>4, <1>7, <2>4 DEF FileLeads
  <2> QED  BY <2>1, <2>2, <2>3, <2>4
<1> QED  BY <1>1, <1>5, <1>6, <1>7 DEF FileLeads

\* The session of one scope is replaced: by nothing, by a later generation of its own family,
\* or by a family nobody has seen.
LEMMA FileLeadsReplaced ==
    ASSUME NEW fs \in [Scopes -> SessionRows], NEW s \in Scopes, NEW x,
           NEW C, NEW D, NEW known, D \subseteq C, FileLeads(fs, C, known),
           x # SignedOut => /\ x.family \in known /\ x.gen > 0
                            /\ \A t \in Scopes \ {s} : fs[t] # SignedOut => fs[t].family # x.family
                            /\ \A d \in C : d.op = "refresh" /\ d.family = x.family => d.gen <= x.gen /\ d.gen # x.gen
    PROVE  FileLeads([fs EXCEPT ![s] = x], D, known)
<1>1. PICK new : new = [fs EXCEPT ![s] = x]
  OBVIOUS
<1>2. new[s] = x /\ (\A t \in Scopes \ {s} : new[t] = fs[t])
  BY <1>1
<1>3. \A t \in Scopes : new[t] # SignedOut => new[t].family \in known /\ new[t].gen > 0
  BY <1>2 DEF FileLeads
<1>4. \A t, u \in Scopes : new[t] # SignedOut /\ new[u] # SignedOut /\ new[t].family = new[u].family => t = u
  BY <1>2 DEF FileLeads
<1>5. \A t \in Scopes : new[t] # SignedOut =>
        \A d \in D : d.op = "refresh" /\ d.family = new[t].family
            => d.gen <= new[t].gen /\ (d.gen = new[t].gen => d.key = new[t].key)
  BY <1>2 DEF FileLeads
<1> QED  BY <1>1, <1>3, <1>4, <1>5 DEF FileLeads

\* A write forgets only sessions of the file, and never one it keeps.
LEMMA StoreForgets ==
    ASSUME CliTyped, NEW s \in Scopes, NEW x, Store(s, x)
    PROVE  /\ file' = [file EXCEPT ![s] = x]
           /\ \A g \in forgotten' : g \in forgotten \/ \E t \in Scopes : file[t] # SignedOut /\ g = file[t].family
           /\ \A t \in Scopes : file'[t] # SignedOut /\ file'[t].family \notin forgotten
                 => file'[t].family \notin forgotten'
<1>1. file' = [file EXCEPT ![s] = x] /\ forgotten' = forgotten \cup Lost(file')
  BY DEF Store, Merge
<1>2. Lost(file') = {file[t].family : t \in {u \in Scopes : file[u] # SignedOut}}
                    \ {file'[t].family : t \in {u \in Scopes : file'[u] # SignedOut}}
  BY DEF Lost
<1>3. \A g \in Lost(file') : \E t \in Scopes : file[t] # SignedOut /\ g = file[t].family
  BY <1>2
<1>4. \A t \in Scopes : file'[t] # SignedOut => file'[t].family \notin Lost(file')
  BY <1>2
<1>5. \A g \in forgotten' : g \in forgotten \/ g \in Lost(file')
  BY <1>1
<1> QED  BY <1>1, <1>3, <1>4, <1>5

\* The process that holds a scope writes it: the others keep what they wait for.
LEMMA OthersFit ==
    ASSUME CliTyped, CommandsFit, NEW s \in Scopes, NEW x, NEW q \in Processes,
           file' = [file EXCEPT ![s] = x] \/ file' = file, locked[s] # q,
           \A t \in Scopes : locked[t] = q => locked'[t] = q,
           proc'[q] = proc[q], record \subseteq record'
    PROVE  CommandFits(proc'[q], q, file', locked', record')
<1>1. CommandFits(proc[q], q, file, locked, record)
  BY DEF CommandsFit
<1>2. proc[q].at \in {"locked", "sent"} => proc[q].scope \in Scopes /\ proc[q].scope # s /\ file'[proc[q].scope] = file[proc[q].scope]
  BY <1>1 DEF CommandFits, CliTyped
<1> QED  BY <1>1, <1>2 DEF CommandFits

LEMMA LoginsKept ==
    ASSUME LoginsFresh,
           \A q \in Processes : InHand(proc'[q]) =>
               /\ InHand(proc[q]) /\ proc'[q].reply = proc[q].reply
               /\ LoginFresh(proc[q], file', AllClaims', families', forgotten')
    PROVE  LoginsFresh'
  BY DEF LoginsFresh, LoginFresh

LEMMA CliQuiet ==
    ASSUME CliInv, CliTyped', CommandsFit', LoginsFresh', clock' >= clock,
           UNCHANGED <<file, record, net, keys, forgotten>>,
           DOMAIN families \subseteq DOMAIN families',
           \A f \in DOMAIN families : families'[f] = families[f],
           \A f \in DOMAIN families' : f \in DOMAIN families \/ (families'[f].gen = 1 /\ families'[f].reused = FALSE)
    PROVE  CliInv'
<1> USE DEF CliInv
<1>1. AllClaims' = AllClaims
  BY DEF AllClaims
<1>2. OneKeyEach(AllClaims', keys', DOMAIN families')
  <2>1. keys \in Nat
    BY DEF CliTyped
  <2> QED  BY <1>1, <2>1, OneKeyShrinks
<1>3. FileLeads(file', AllClaims', DOMAIN families')
  BY <1>1, FileLeadsShrinks
<1>4. BehindAnswered(file', net', record', families')
  <2>1. \A r \in net : r.family \in DOMAIN families
    BY ClaimsKnown DEF AllClaims
  <2>2. \A s \in Scopes : file[s] # SignedOut => file[s].family \in DOMAIN families
    BY DEF FileLeads
  <2> QED  BY <2>1, <2>2 DEF BehindAnswered
<1>5. RotationsTold(record', families')
  <2>1. \A k \in record : k.family \in DOMAIN families
    BY ClaimsKnown DEF AllClaims
  <2>2. \A k \in record' : k.op = "refresh" => k.gen <= families'[k.family].gen
    BY <2>1 DEF RotationsTold
  <2>3. \A f \in DOMAIN families' : families'[f].gen > 1 =>
          \E k \in record' : k.op = "refresh" /\ k.family = f /\ k.gen = families'[f].gen
    BY DEF RotationsTold
  <2> QED  BY <2>2, <2>3 DEF RotationsTold
<1>6. StartsHonest(file', record', clock')
  <2>1. \A s \in Scopes : file[s].started \in Nat
    BY DEF CliTyped, SessionRows
  <2>2. clock \in Nat /\ clock' \in Nat
    BY DEF CliTyped
  <2> QED  BY <2>1, <2>2 DEF StartsHonest
<1>7. NeverTakenForThief' /\ StaysForgotten' /\ ExpiryHonest' /\ forgotten' \subseteq DOMAIN families'
  <2>1. NeverTakenForThief'
    BY DEF NeverTakenForThief
  <2>2. StaysForgotten'
    BY DEF StaysForgotten
  <2>3. ExpiryHonest'
    BY DEF ExpiryHonest
  <2> QED  BY <2>1, <2>2, <2>3
<1> QED  BY <1>2, <1>3, <1>4, <1>5, <1>6, <1>7

LEMMA CliStill ==
    ASSUME CliInv, CliTyped', CommandsFit', LoginsFresh', clock' >= clock,
           UNCHANGED <<file, record, net, keys, forgotten, families>>
    PROVE  CliInv'
<1>1. /\ DOMAIN families \subseteq DOMAIN families'
      /\ \A f \in DOMAIN families : families'[f] = families[f]
      /\ \A f \in DOMAIN families' : f \in DOMAIN families
  OBVIOUS
<1> QED  BY <1>1, CliQuiet

\* The process that moved; the others are as they were.
LEMMA QuietOthers ==
    ASSUME CommandsFit, NEW p, UNCHANGED <<file, record>>,
           \A q \in Processes \ {p} : proc'[q] = proc[q],
           \A q \in Processes \ {p} : \A t \in Scopes : locked[t] = q => locked'[t] = q
    PROVE  \A q \in Processes \ {p} : CommandFits(proc'[q], q, file', locked', record')
  BY DEF CommandsFit, CommandFits

LEMMA StartKeeps ==
    ASSUME CliAssumption, CliInv, NEW p \in Processes, NEW s \in Scopes,
           NEW cmd \in {"use", "login", "logout", "forget"}, Start(p, cmd, s)
    PROVE  CliInv'
<1> USE DEF CliInv
<1>1. CliTyped'
  BY StartTyped
<1>2. PICK row : row = [NoCommand EXCEPT !.at = IF cmd = "login" THEN "signing" ELSE "waiting",
                                   !.cmd = cmd, !.scope = s, !.seen = IF cmd = "use" THEN file[s] ELSE SignedOut]
  OBVIOUS
<1>3. proc'[p] = row /\ \A q \in Processes \ {p} : proc'[q] = proc[q]
  BY <1>2 DEF Start, CliTyped
<1>4. row.scope = s /\ row.cmd = cmd /\ (cmd = "login" => row.at = "signing") /\ (cmd # "login" => row.at = "waiting")
      /\ row.reply.op # "refresh"
  BY <1>2, CliRowsTyped DEF NoCommand, None
<1>5. CommandFits(row, p, file', locked', record') /\ ~InHand(row)
  BY <1>4 DEF CommandFits, InHand
<1>6. CommandsFit'
  BY <1>3, <1>5, QuietOthers DEF Start, CommandsFit
<1>7. LoginsFresh'
  BY <1>3, <1>5 DEF LoginsFresh, Start, AllClaims
<1>20. clock' >= clock /\ UNCHANGED <<file, record, net, keys, forgotten, families>>
  BY DEF Start, CliTyped
<1> QED  BY <1>1, <1>6, <1>7, <1>20, CliStill

LEMMA LockSessionKeeps ==
    ASSUME CliAssumption, CliInv, NEW p \in Processes, LockSession(p)
    PROVE  CliInv'
<1> USE DEF CliInv
<1>1. CliTyped'
  BY LockSessionTyped
<1>2. proc[p].at = "waiting" /\ proc[p].scope \in Scopes /\ proc[p].reply.op # "refresh"
  BY DEF LockSession, CommandsFit, CommandFits
<1>3. PICK row : row = [proc[p] EXCEPT !.at = "locked"]
  OBVIOUS
<1>4. proc'[p] = row /\ \A q \in Processes \ {p} : proc'[q] = proc[q]
  BY <1>3 DEF LockSession, CliTyped
<1>5. row.at = "locked" /\ row.scope = proc[p].scope /\ row.cmd = proc[p].cmd /\ row.reply = proc[p].reply
  BY <1>3 DEF CliTyped, CommandRows
<1>6. locked'[row.scope] = p
  BY <1>2, <1>5 DEF LockSession, CliTyped
<1>7. CommandFits(row, p, file', locked', record')
  BY <1>2, <1>5, <1>6 DEF CommandFits
<1>8. \A q \in Processes \ {p} : \A t \in Scopes : locked[t] = q => locked'[t] = q
  BY <1>2 DEF LockSession, CliTyped, CliAssumption, None
<1>9. CommandsFit'
  <2>1. \A q \in Processes \ {p} : CommandFits(proc'[q], q, file', locked', record')
    BY <1>4, <1>8, QuietOthers DEF LockSession
  <2> QED  BY <1>4, <1>7, <2>1 DEF CommandsFit
<1>10. LoginsFresh'
  <2>1. \A q \in Processes : InHand(proc'[q]) => InHand(proc[q]) /\ proc'[q].reply = proc[q].reply
    BY <1>2, <1>4, <1>5 DEF InHand
  <2> QED  BY <2>1, LoginsKept DEF LoginsFresh, LockSession, AllClaims
<1>20. clock' >= clock /\ UNCHANGED <<file, record, net, keys, forgotten, families>>
  BY DEF LockSession, CliTyped
<1> QED  BY <1>1, <1>9, <1>10, <1>20, CliStill

LEMMA ExitKeeps ==
    ASSUME CliAssumption, CliInv, NEW p \in Processes, Exit(p)
    PROVE  CliInv'
<1> USE DEF CliInv
<1>1. CliTyped'
  BY EndingTyped
<1>2. proc'[p] = NoCommand /\ \A q \in Processes \ {p} : proc'[q] = proc[q]
  BY DEF Exit, CliTyped
<1>3. CommandFits(NoCommand, p, file', locked', record') /\ ~InHand(NoCommand)
  BY CliRowsTyped DEF CommandFits, InHand, None
<1>4. \A q \in Processes \ {p} : \A t \in Scopes : locked[t] = q => locked'[t] = q
  BY DEF Exit, Release
<1>5. CommandsFit'
  BY <1>2, <1>3, <1>4, QuietOthers DEF Exit, CommandsFit
<1>6. LoginsFresh'
  <2>1. \A q \in Processes : InHand(proc'[q]) => InHand(proc[q]) /\ proc'[q].reply = proc[q].reply
    BY <1>2, <1>3
  <2> QED  BY <2>1, LoginsKept DEF LoginsFresh, Exit, AllClaims
<1>20. clock' >= clock /\ UNCHANGED <<file, record, net, keys, forgotten, families>>
  BY DEF Exit, CliTyped
<1> QED  BY <1>1, <1>5, <1>6, <1>20, CliStill

LEMMA CliTickKeeps ==
    ASSUME CliAssumption, CliInv, CliTick
    PROVE  CliInv'
<1> USE DEF CliInv
<1>1. CliTyped' /\ clock' >= clock
  BY DEF CliTyped, CliTick
<1>2. CommandsFit' /\ LoginsFresh'
  BY DEF CommandsFit, LoginsFresh, CliTick, AllClaims
<1> QED  BY <1>1, <1>2, CliStill DEF CliTick

\* A new family: nobody has presented anything of it.
LEMMA SignInKeeps ==
    ASSUME CliAssumption, CliInv, NEW p \in Processes, SignIn(p)
    PROVE  CliInv'
<1> USE DEF CliInv
<1>1. CliTyped'
  BY SignInTyped
<1>2. PICK n \in Nat, new \in CliFamilyRows :
        /\ DOMAIN families = 1..n /\ DOMAIN families' = 1..(n + 1)
        /\ families' = [g \in 1..(n + 1) |-> IF g = n + 1 THEN new ELSE families[g]]
        /\ new.gen = 1 /\ new.reused = FALSE
        /\ proc' = [proc EXCEPT ![p].at = "waiting",
                       ![p].reply = [NoReply EXCEPT !.op = "login", !.family = n + 1, !.expires = clock + Life]]
  BY SignInTyped
<1>3. PICK row : row = [proc[p] EXCEPT !.at = "waiting",
                          !.reply = [NoReply EXCEPT !.op = "login", !.family = n + 1, !.expires = clock + Life]]
  OBVIOUS
<1>4. proc'[p] = row /\ \A q \in Processes \ {p} : proc'[q] = proc[q]
  BY <1>2, <1>3 DEF CliTyped
<1>5. row.at = "waiting" /\ row.scope = proc[p].scope /\ row.reply.family = n + 1 /\ row.reply.op = "login"
  BY <1>3 DEF CliTyped, CommandRows, NoReply
<1>6. proc[p].scope \in Scopes
  BY DEF SignIn, CommandsFit, CommandFits
<1>7. CommandFits(row, p, file', locked', record')
  BY <1>5, <1>6 DEF CommandFits
<1>8. CommandsFit'
  BY <1>4, <1>7, QuietOthers DEF SignIn, CommandsFit
<1>9. \A f \in DOMAIN families : families'[f] = families[f] /\ f # n + 1 /\ f \in DOMAIN families'
  BY <1>2
<1>10. families'[n + 1] = new /\ n + 1 \in DOMAIN families'
  BY <1>2
<1>11. AllClaims' = AllClaims
  BY DEF AllClaims, SignIn
<1>12. LoginFresh(row, file', AllClaims', families', forgotten')
  <2>1. \A c \in AllClaims : c.family # n + 1
    BY <1>9 DEF OneKeyEach
  <2>2. \A s \in Scopes : file[s] # SignedOut => file[s].family # n + 1
    BY <1>9 DEF FileLeads
  <2>3. n + 1 \notin forgotten
    BY <1>9
  <2> QED  BY <1>2, <1>5, <1>10, <1>11, <2>1, <2>2, <2>3 DEF LoginFresh, SignIn
<1>13. \A q \in Processes \ {p} : InHand(proc'[q]) =>
          /\ LoginFresh(proc'[q], file', AllClaims', families', forgotten')
          /\ proc'[q].reply.family # n + 1
  <2>1. \A q \in Processes \ {p} : InHand(proc'[q]) => LoginFresh(proc[q], file, AllClaims, families, forgotten)
    BY <1>4 DEF LoginsFresh
  <2>2. file' = file /\ forgotten' = forgotten
    BY DEF SignIn
  <2>3. \A q \in Processes \ {p} : InHand(proc'[q]) => proc[q].reply.family \in DOMAIN families
    BY <2>1 DEF LoginFresh
  <2>4. \A q \in Processes \ {p} : InHand(proc'[q]) => LoginFresh(proc[q], file', AllClaims', families', forgotten')
    BY <1>9, <1>11, <2>1, <2>2, <2>3 DEF LoginFresh
  <2> QED  BY <1>4, <1>9, <2>3, <2>4
<1>14. LoginsFresh'
  <2>1. \A q \in Processes : InHand(proc'[q]) => LoginFresh(proc'[q], file', AllClaims', families', forgotten')
    BY <1>4, <1>12, <1>13
  <2>2. \A q, o \in Processes \ {p} : InHand(proc'[q]) /\ InHand(proc'[o])
            /\ proc'[q].reply.family = proc'[o].reply.family => q = o
    BY <1>4 DEF LoginsFresh
  <2>3. \A q, o \in Processes : InHand(proc'[q]) /\ InHand(proc'[o])
            /\ proc'[q].reply.family = proc'[o].reply.family => q = o
    BY <1>4, <1>5, <1>13, <2>2
  <2> QED  BY <2>1, <2>3 DEF LoginsFresh
<1>15. \A f \in DOMAIN families' : f \in DOMAIN families \/ (families'[f].gen = 1 /\ families'[f].reused = FALSE)
  BY <1>2
<1>16. UNCHANGED <<file, record, net, keys, forgotten>> /\ clock' >= clock
  BY DEF SignIn, CliTyped
<1>17. DOMAIN families \subseteq DOMAIN families'
  BY <1>9
<1> QED  BY <1>1, <1>8, <1>9, <1>14, <1>15, <1>16, <1>17, CliQuiet

\* The session of a scope is replaced or removed.
LEMMA CliReplaced ==
    ASSUME CliInv, CliTyped', NEW s \in Scopes, NEW x \in SessionRows, x.key = 0, x.logout = 0, Store(s, x),
           UNCHANGED <<record, net, keys, families, clock>>, CommandsFit',
           x # SignedOut =>
             /\ x.family \in DOMAIN families /\ x.family \notin forgotten
             /\ x.gen > 0 /\ x.gen = families[x.family].gen
             /\ \A t \in Scopes \ {s} : file[t] # SignedOut => file[t].family # x.family
             /\ \A c \in AllClaims : c.op = "refresh" /\ c.family = x.family => c.gen <= x.gen /\ c.gen # x.gen
             /\ \A k \in record : k.op = "refresh" /\ k.family = x.family /\ k.gen = x.gen => x.expires <= k.expires,
           \A q \in Processes : InHand(proc'[q]) =>
             InHand(proc[q]) /\ proc'[q].reply = proc[q].reply
             /\ (x # SignedOut => proc[q].reply.family # x.family)
    PROVE  CliInv'
<1> USE DEF CliInv
<1>1. /\ file' = [file EXCEPT ![s] = x]
      /\ \A g \in forgotten' : g \in forgotten \/ \E t \in Scopes : file[t] # SignedOut /\ g = file[t].family
      /\ \A t \in Scopes : file'[t] # SignedOut /\ file'[t].family \notin forgotten
             => file'[t].family \notin forgotten'
  BY StoreForgets
<1>2. file \in [Scopes -> SessionRows]
  BY DEF CliTyped
<1>3. file'[s] = x /\ (\A t \in Scopes \ {s} : file'[t] = file[t])
  BY <1>1, <1>2
<1>4. AllClaims' \subseteq AllClaims
  BY <1>1, <1>2, ClaimsDropped DEF AllClaims
<1>5. OneKeyEach(AllClaims', keys', DOMAIN families')
  <2>1. keys \in Nat
    BY DEF CliTyped
  <2> QED  BY <1>4, <2>1, OneKeyShrinks
<1>6. FileLeads(file', AllClaims', DOMAIN families')
  BY <1>1, <1>2, <1>4, FileLeadsReplaced
<1>7. BehindAnswered(file', net', record', families')
  <2>1. \A t \in Scopes : file'[t] # SignedOut =>
          file'[t].gen <= families[file'[t].family].gen
          /\ (file'[t].gen < families[file'[t].family].gen => Answered(record, file'[t].key))
    <3>1. ASSUME NEW t \in Scopes, file'[t] # SignedOut, t = s
          PROVE  file'[t].gen <= families[file'[t].family].gen /\ ~ (file'[t].gen < families[file'[t].family].gen)
      BY <1>3, <3>1 DEF SessionRows
    <3> QED  BY <1>3, <3>1 DEF BehindAnswered
  <2> QED  BY <2>1 DEF BehindAnswered
<1>8. RotationsTold(record', families')
  OBVIOUS
<1>9. StartsHonest(file', record', clock')
  BY <1>3 DEF StartsHonest
<1>10. LoginsFresh'
  <2>1. ASSUME NEW q \in Processes, InHand(proc'[q])
        PROVE  LoginFresh(proc[q], file', AllClaims', families', forgotten')
    <3>1. LoginFresh(proc[q], file, AllClaims, families, forgotten)
      BY <2>1 DEF LoginsFresh
    <3>2. \A t \in Scopes : file'[t] # SignedOut => file'[t].family # proc[q].reply.family
      BY <1>3, <2>1, <3>1 DEF LoginFresh
    <3>3. proc[q].reply.family \notin forgotten'
      BY <1>1, <3>1 DEF LoginFresh
    <3> QED  BY <1>4, <3>1, <3>2, <3>3 DEF LoginFresh
  <2> QED  BY <2>1, LoginsKept
<1>11. forgotten' \subseteq DOMAIN families'
  BY <1>1 DEF FileLeads
<1>12. NeverTakenForThief' /\ StaysForgotten' /\ ExpiryHonest'
  <2>1. NeverTakenForThief'
    BY DEF NeverTakenForThief
  <2>2. StaysForgotten'
    BY <1>1, <1>3 DEF StaysForgotten
  <2>3. ExpiryHonest'
    BY <1>3 DEF ExpiryHonest
  <2> QED  BY <2>1, <2>2, <2>3
<1> QED  BY <1>5, <1>6, <1>7, <1>8, <1>9, <1>10, <1>11, <1>12

\* A command ends: its scope is released.
LEMMA EndFits ==
    ASSUME CliAssumption, CliTyped, CommandsFit, NEW p \in Processes, NEW s \in Scopes, NEW x, locked[s] = p, Release(p),
           file' = [file EXCEPT ![s] = x], record' = record, proc' = [proc EXCEPT ![p] = NoCommand]
    PROVE  /\ CommandsFit'
           /\ \A q \in Processes : InHand(proc'[q]) =>
                 q # p /\ InHand(proc[q]) /\ proc'[q].reply = proc[q].reply
<1>1. proc'[p] = NoCommand /\ \A q \in Processes \ {p} : proc'[q] = proc[q]
  BY DEF CliTyped
<1>2. CommandFits(NoCommand, p, file', locked', record') /\ ~InHand(NoCommand)
  BY CliRowsTyped DEF CommandFits, InHand, None
<1>3. \A q \in Processes \ {p} : \A t \in Scopes : locked[t] = q => locked'[t] = q
  BY DEF Release
<1>4. \A q \in Processes \ {p} : CommandFits(proc'[q], q, file', locked', record')
  BY <1>1, <1>3, OthersFit
<1> QED  BY <1>1, <1>2, <1>4 DEF CommandsFit

LEMMA RememberLoginKeeps ==
    ASSUME CliAssumption, CliInv, NEW p \in Processes, RememberLogin(p)
    PROVE  CliInv'
<1> USE DEF CliInv
<1>1. CliTyped'
  BY EndingTyped
<1>2. proc[p].at = "locked" /\ proc[p].cmd = "login"
  BY DEF RememberLogin, HoldsScope
<1>3. PICK s \in Scopes : s = proc[p].scope
  BY <1>2 DEF CommandsFit, CommandFits
<1>4. locked[s] = p
  BY <1>3 DEF RememberLogin, HoldsScope
<1>5. PICK x : x = Session(proc[p].reply.family, 1, proc[p].reply.expires)
  OBVIOUS
<1>6. proc[p].reply.family \in Nat /\ proc[p].reply.expires \in Nat
  BY DEF CliTyped, CommandRows, ReplyRows
<1>7. x \in SessionRows /\ x.key = 0 /\ x.logout = 0 /\ x.gen = 1 /\ x.family = proc[p].reply.family
  BY <1>5, <1>6, CliRowsTyped DEF Session
<1>8. Store(s, x) /\ UNCHANGED <<record, net, keys, families, clock>>
  BY <1>3, <1>5 DEF RememberLogin
<1>9. /\ CommandsFit'
      /\ \A q \in Processes : InHand(proc'[q]) => q # p /\ InHand(proc[q]) /\ proc'[q].reply = proc[q].reply
  <2>1. file' = [file EXCEPT ![s] = x]
    BY <1>8, StoreForgets
  <2> QED  BY <1>4, <2>1, EndFits DEF RememberLogin
<1>10. InHand(proc[p])
  BY <1>2 DEF InHand
<1>11. LoginFresh(proc[p], file, AllClaims, families, forgotten)
  BY <1>10 DEF LoginsFresh
<1>12. /\ x.family \in DOMAIN families /\ x.family \notin forgotten
       /\ x.gen > 0 /\ x.gen = families[x.family].gen
       /\ \A t \in Scopes \ {s} : file[t] # SignedOut => file[t].family # x.family
       /\ \A c \in AllClaims : c.family # x.family
  BY <1>7, <1>11 DEF LoginFresh
<1>13. \A k \in record : k.family # x.family
  <2>1. \A k \in record : ToldClaim(k) \in AllClaims /\ ToldClaim(k).family = k.family
    BY ClaimsMade DEF AllClaims, ToldClaim
  <2> QED  BY <1>12, <2>1
<1>14. \A q \in Processes : InHand(proc'[q]) =>
         InHand(proc[q]) /\ proc'[q].reply = proc[q].reply /\ proc[q].reply.family # x.family
  BY <1>7, <1>9, <1>10 DEF LoginsFresh
<1> QED  BY <1>1, <1>7, <1>8, <1>9, <1>12, <1>13, <1>14, CliReplaced

LEMMA SignedOutKeeps ==
    ASSUME CliAssumption, CliInv, NEW p \in Processes, Forget(p) \/ FinishCliLogout(p)
    PROVE  CliInv'
<1> USE DEF CliInv
<1>1. CliTyped'
  BY EndingTyped
<1>2. proc[p].at \in {"locked", "sent"}
  BY DEF Forget, FinishCliLogout, HoldsScope
<1>3. PICK s \in Scopes : s = proc[p].scope
  BY <1>2 DEF CommandsFit, CommandFits
<1>4. locked[s] = p
  BY <1>3 DEF Forget, FinishCliLogout, HoldsScope
<1>5. SignedOut \in SessionRows /\ SignedOut.key = 0 /\ SignedOut.logout = 0
  BY CliRowsTyped
<1>6. /\ Store(s, SignedOut) /\ UNCHANGED <<record, net, keys, families, clock>>
      /\ Release(p) /\ proc' = [proc EXCEPT ![p] = NoCommand]
  BY <1>3 DEF Forget, FinishCliLogout
<1>7. /\ CommandsFit'
      /\ \A q \in Processes : InHand(proc'[q]) => q # p /\ InHand(proc[q]) /\ proc'[q].reply = proc[q].reply
  <2>1. file' = [file EXCEPT ![s] = SignedOut]
    BY <1>6, StoreForgets
  <2> QED  BY <1>4, <1>6, <2>1, EndFits
<1> QED  BY <1>1, <1>5, <1>6, <1>7, CliReplaced

\* The reply is of the generation after the reserved one, and the latest the service made.
LEMMA FinishRenewalKeeps ==
    ASSUME CliAssumption, CliInv, NEW p \in Processes, FinishRenewal(p)
    PROVE  CliInv'
<1> USE DEF CliInv
<1>1. proc[p].at = "sent"
  BY DEF FinishRenewal, HoldsScope
<1>2. CommandFits(proc[p], p, file, locked, record)
  BY DEF CommandsFit
<1>3. proc[p].scope \in Scopes
  BY <1>1, <1>2 DEF CommandFits
<1>4. CliTyped'
  BY <1>3, FinishRenewalTyped
<1>5. PICK s \in Scopes, x \in SessionRows, k \in ReplyRows :
        /\ s = proc[p].scope /\ locked[s] = p /\ proc[p].at = "sent"
        /\ file[s] # SignedOut /\ k = proc[p].reply /\ k.op = "refresh"
        /\ x = Session(k.family, k.gen, file[s].started + Life)
        /\ Store(s, x)
        /\ proc' = [proc EXCEPT ![p].at = "locked", ![p].awaits = 0, ![p].reply = NoReply]
  BY <1>3, FinishRenewalTyped
<1>6. /\ proc[p].cmd # "login" /\ proc[p].awaits # 0 /\ proc[p].awaits \in {file[s].key, file[s].logout}
      /\ k \in record /\ k.key = proc[p].awaits
  BY <1>1, <1>2, <1>5 DEF CommandFits
<1>7. file[s] \in SessionRows
  BY DEF CliTyped
<1>8. ToldClaim(k) \in AllClaims /\ ToldClaim(k).key = k.key /\ ToldClaim(k).op = "refresh"
      /\ ToldClaim(k).family = k.family /\ ToldClaim(k).gen = k.gen - 1
  BY <1>5, <1>6, ClaimsMade DEF AllClaims, ToldClaim
<1>9. k.key # file[s].logout
  <2>1. SUFFICES ASSUME k.key = file[s].logout PROVE FALSE
    OBVIOUS
  <2>2. LogoutClaim(file[s]) \in AllClaims /\ LogoutClaim(file[s]).key = k.key /\ LogoutClaim(file[s]).op = "logout"
    BY <1>6, <2>1, ClaimsMade DEF AllClaims, LogoutClaim
  <2>3. LogoutClaim(file[s]) = ToldClaim(k)
    BY <1>8, <2>2 DEF OneKeyEach
  <2> QED  BY <1>8, <2>2, <2>3
<1>10. k.key = file[s].key /\ file[s].key # 0
  BY <1>6, <1>9
<1>11. k.family = file[s].family /\ k.gen - 1 = file[s].gen
  <2>1. RefreshClaim(file[s]) \in AllClaims /\ RefreshClaim(file[s]).key = k.key
        /\ RefreshClaim(file[s]).family = file[s].family /\ RefreshClaim(file[s]).gen = file[s].gen
    BY <1>10, ClaimsMade DEF AllClaims, RefreshClaim
  <2>2. RefreshClaim(file[s]) = ToldClaim(k)
    BY <1>8, <2>1 DEF OneKeyEach
  <2> QED  BY <1>8, <2>1, <2>2
<1>12. x.key = 0 /\ x.logout = 0 /\ x.family = file[s].family /\ x.gen = k.gen /\ x.expires = file[s].started + Life
  BY <1>5, <1>11 DEF Session
<1>13. k.gen \in Nat /\ file[s].gen \in Nat /\ k.gen = file[s].gen + 1 /\ k.gen > 0
  BY <1>7, <1>11 DEF ReplyRows, SessionRows
<1>14. x.family \in DOMAIN families /\ x.family \notin forgotten
       /\ \A t \in Scopes \ {s} : file[t] # SignedOut => file[t].family # x.family
  BY ZenonT(30), <1>5, <1>12 DEF FileLeads, StaysForgotten
<1>15. \A c \in AllClaims : c.op = "refresh" /\ c.family = x.family
          => c.gen <= file[s].gen /\ (c.gen = file[s].gen => c.key = file[s].key)
  BY <1>5, <1>12 DEF FileLeads
<1>16. \A j \in record : j.op = "refresh" /\ j.family = x.family => j.gen \in Nat /\ j.gen - 1 <= file[s].gen
                            /\ (j.gen - 1 = file[s].gen => j.key = file[s].key)
  <2>1. \A j \in record : ToldClaim(j) \in AllClaims /\ ToldClaim(j).key = j.key /\ ToldClaim(j).op = j.op
            /\ ToldClaim(j).family = j.family /\ (j.op = "refresh" => ToldClaim(j).gen = j.gen - 1)
    BY ClaimsMade DEF AllClaims, ToldClaim
  <2>2. \A j \in record : j.gen \in Nat
    BY DEF CliTyped, ReplyRows
  <2> QED  BY <1>15, <2>1, <2>2
<1>17. x.gen = families[x.family].gen
  <2>1. families[x.family].gen \in Nat \ {0}
    BY <1>14 DEF CliTyped, CliFamilyRows
  <2>2. k.gen <= families[x.family].gen
    <3>1. k.family = x.family /\ k \in record /\ k.op = "refresh"
      BY <1>5, <1>6, <1>11, <1>12
    <3>2. k.gen <= families[k.family].gen
      BY <3>1 DEF RotationsTold
    <3> QED  BY <3>1, <3>2
  <2>3. CASE families[x.family].gen > 1
    <3>1. PICK j \in record : j.op = "refresh" /\ j.family = x.family /\ j.gen = families[x.family].gen
      BY <1>14, <2>3 DEF RotationsTold
    <3> QED  BY <1>12, <1>13, <1>16, <2>1, <2>2, <3>1
  <2> QED  BY <1>12, <1>13, <2>1, <2>2, <2>3
<1>18. \A c \in AllClaims : c.op = "refresh" /\ c.family = x.family => c.gen <= x.gen /\ c.gen # x.gen
  <2>1. ASSUME NEW c \in AllClaims, c.op = "refresh", c.family = x.family
        PROVE  c.gen \in Int
    <3>1. \A r \in net : ClaimOf(r).gen \in Int
      BY DEF ClaimOf, CliTyped, RequestRows
    <3>2. \A j \in record : ToldClaim(j).gen \in Int
      BY DEF ToldClaim, CliTyped, ReplyRows
    <3>3. \A t \in Scopes : RefreshClaim(file[t]).gen \in Int /\ LogoutClaim(file[t]).gen \in Int
      BY DEF RefreshClaim, LogoutClaim, CliTyped, SessionRows
    <3> QED  BY <3>1, <3>2, <3>3 DEF AllClaims, Claims
  <2> QED  BY <1>12, <1>13, <1>15, <2>1
<1>19. \A j \in record : j.op = "refresh" /\ j.family = x.family /\ j.gen = x.gen => x.expires <= j.expires
  BY <1>10, <1>12, <1>13, <1>16 DEF StartsHonest
<1>20. PICK row : row = [proc[p] EXCEPT !.at = "locked", !.awaits = 0, !.reply = NoReply]
  OBVIOUS
<1>21. proc'[p] = row /\ \A q \in Processes \ {p} : proc'[q] = proc[q]
  BY <1>5, <1>20 DEF CliTyped
<1>22. row.at = "locked" /\ row.scope = s /\ row.cmd = proc[p].cmd /\ row.reply = NoReply
  BY <1>5, <1>20 DEF CliTyped, CommandRows
<1>23. UNCHANGED <<locked, clock, keys, families, record, net>>
  BY DEF FinishRenewal
<1>24. CommandsFit'
  <2>1. CommandFits(row, p, file', locked', record')
    BY <1>5, <1>22, <1>23, CliRowsTyped DEF CommandFits, None
  <2>2. file' = [file EXCEPT ![s] = x]
    BY <1>5, StoreForgets
  <2>3. \A q \in Processes \ {p} : CommandFits(proc'[q], q, file', locked', record')
    BY <1>5, <1>21, <1>23, <2>2, OthersFit
  <2> QED  BY <1>21, <2>1, <2>3 DEF CommandsFit
<1>25. \A q \in Processes : InHand(proc'[q]) =>
         InHand(proc[q]) /\ proc'[q].reply = proc[q].reply /\ proc[q].reply.family # x.family
  <2>1. ~InHand(proc'[p])
    BY <1>6, <1>21, <1>22 DEF InHand
  <2>2. \A q \in Processes : InHand(proc[q]) => proc[q].reply.family # x.family
    BY SMTT(90), <1>5, <1>12 DEF LoginsFresh, LoginFresh
  <2> QED  BY <1>21, <2>1, <2>2
<1> QED  BY ZenonT(90), <1>4, <1>5, <1>12, <1>13, <1>14, <1>17, <1>18, <1>19, <1>23, <1>24, <1>25, CliReplaced

\* A scope's session reserves a key and the request is sent.
LEMMA CliReserved ==
    ASSUME CliInv, CliTyped', NEW p \in Processes, NEW s \in Scopes, NEW x \in SessionRows, NEW r \in RequestRows, NEW c,
           locked[s] = p, file[s] # SignedOut,
           x.family = file[s].family, x.gen = file[s].gen, x.expires = file[s].expires,
           x.key = file[s].key \/ file[s].key = 0,
           r.family = x.family, r.gen = x.gen, r.op = "refresh" => r.key = x.key,
           Store(s, x), net' = net \cup {r}, UNCHANGED <<record, families, clock, locked>>,
           AllClaims' \subseteq AllClaims \cup {c}, c.family = x.family,
           OneKeyEach(AllClaims', keys', DOMAIN families), FileLeads(file', AllClaims', DOMAIN families),
           StartsHonest(file', record, clock),
           CommandFits(proc'[p], p, file', locked', record'), proc'[p].at = "sent",
           \A q \in Processes \ {p} : proc'[q] = proc[q]
    PROVE  CliInv'
<1> USE DEF CliInv
<1>1. /\ file' = [file EXCEPT ![s] = x]
      /\ \A g \in forgotten' : g \in forgotten \/ \E t \in Scopes : file[t] # SignedOut /\ g = file[t].family
      /\ \A t \in Scopes : file'[t] # SignedOut /\ file'[t].family \notin forgotten
             => file'[t].family \notin forgotten'
  BY StoreForgets
<1>2. file'[s] = x /\ (\A t \in Scopes \ {s} : file'[t] = file[t])
  BY <1>1 DEF CliTyped
<1>3. file[s].key = 0 => ~Answered(record, file[s].key)
  <2>1. keys \in Nat /\ \A k \in record : k.key \in 1..keys
    BY ClaimsKnown DEF AllClaims, CliTyped
  <2> QED  BY <2>1 DEF Answered
<1>4. x.gen <= families[x.family].gen /\ (x.gen < families[x.family].gen => Answered(record, x.key))
  BY <1>3 DEF BehindAnswered
<1>5. BehindAnswered(file', net', record', families')
  <2>1. ASSUME NEW q \in net', q.op = "refresh"
        PROVE  q.gen <= families[q.family].gen /\ (q.gen < families[q.family].gen => Answered(record, q.key))
    <3>1. CASE q \in net
      BY <2>1, <3>1 DEF BehindAnswered
    <3>2. CASE q = r
      BY <1>4, <2>1, <3>2
    <3> QED  BY <3>1, <3>2
  <2>2. ASSUME NEW t \in Scopes, file'[t] # SignedOut
        PROVE  file'[t].gen <= families[file'[t].family].gen
               /\ (file'[t].gen < families[file'[t].family].gen => Answered(record, file'[t].key))
    <3>1. CASE t = s
      BY <1>2, <1>4, <3>1
    <3>2. CASE t # s
      BY <1>2, <2>2, <3>2 DEF BehindAnswered
    <3> QED  BY <3>1, <3>2
  <2> QED  BY <2>1, <2>2 DEF BehindAnswered
<1>6. LoginsFresh'
  <2>1. ~InHand(proc'[p])
    BY DEF InHand
  <2>2. ASSUME NEW q \in Processes, InHand(proc'[q])
        PROVE  InHand(proc[q]) /\ proc'[q].reply = proc[q].reply
               /\ LoginFresh(proc[q], file', AllClaims', families', forgotten')
    <3>1. InHand(proc[q]) /\ proc'[q].reply = proc[q].reply
      BY <2>1, <2>2
    <3>2. LoginFresh(proc[q], file, AllClaims, families, forgotten)
      BY <3>1 DEF LoginsFresh
    <3>3. proc[q].reply.family # x.family
      BY <3>2 DEF LoginFresh
    <3>4. \A t \in Scopes : file'[t] # SignedOut => file'[t].family # proc[q].reply.family
      BY <1>2, <3>2, <3>3 DEF LoginFresh
    <3>5. \A d \in AllClaims' : d.family # proc[q].reply.family
      BY <3>2, <3>3 DEF LoginFresh
    <3>6. proc[q].reply.family \notin forgotten'
      BY <1>1, <3>2 DEF LoginFresh
    <3> QED  BY <3>1, <3>2, <3>4, <3>5, <3>6 DEF LoginFresh
  <2> QED  BY <2>2, LoginsKept
<1>7. CommandsFit'
  <2>1. \A q \in Processes \ {p} : CommandFits(proc'[q], q, file', locked', record')
    BY <1>1, OthersFit
  <2> QED  BY <2>1 DEF CommandsFit
<1>8. forgotten' \subseteq DOMAIN families'
  BY <1>1 DEF FileLeads
<1>9. NeverTakenForThief' /\ StaysForgotten' /\ ExpiryHonest'
  <2>1. NeverTakenForThief'
    BY DEF NeverTakenForThief
  <2>2. StaysForgotten'
    BY <1>1, <1>2 DEF StaysForgotten
  <2>3. ExpiryHonest'
    BY <1>2 DEF ExpiryHonest
  <2> QED  BY <2>1, <2>2, <2>3
<1> QED  BY <1>5, <1>6, <1>7, <1>8, <1>9

LEMMA RenewKeeps ==
    ASSUME CliAssumption, CliInv, NEW p \in Processes, Renew(p)
    PROVE  CliInv'
<1> USE DEF CliInv
<1>1. proc[p].at = "locked" /\ CommandFits(proc[p], p, file, locked, record)
  BY DEF Renew, HoldsScope, CommandsFit
<1>2. proc[p].scope \in Scopes
  BY <1>1 DEF CommandFits
<1>3. file[proc[p].scope] # SignedOut => file[proc[p].scope].gen > 0
  BY <1>2 DEF FileLeads
<1>4. CliTyped'
  BY <1>2, <1>3, RenewTyped
<1>5. PICK s \in Scopes, x \in SessionRows, r \in RequestRows :
        /\ s = proc[p].scope /\ locked[s] = p /\ proc[p].at = "locked" /\ proc[p].cmd \in {"use", "logout"}
        /\ file[s] # SignedOut /\ file[s].logout = 0
        /\ \/ file[s].key = 0 /\ x = [file[s] EXCEPT !.key = keys + 1, !.started = clock] /\ keys' = keys + 1
           \/ file[s].key # 0 /\ x = file[s] /\ keys' = keys
        /\ r = [op |-> "refresh", from |-> p, family |-> x.family, gen |-> x.gen, key |-> x.key]
        /\ Store(s, x) /\ net' = net \cup {r}
        /\ proc' = [proc EXCEPT ![p].at = "sent", ![p].awaits = x.key, ![p].tries = @ + 1]
  BY <1>2, <1>3, RenewTyped
<1>6. file[s] \in SessionRows /\ file \in [Scopes -> SessionRows] /\ keys \in Nat /\ clock \in Nat
  BY DEF CliTyped
<1>7. /\ x.family = file[s].family /\ x.gen = file[s].gen /\ x.expires = file[s].expires /\ x.logout = 0
      /\ x.key = file[s].key \/ file[s].key = 0
      /\ r.op = "refresh" /\ r.family = x.family /\ r.gen = x.gen /\ r.key = x.key
  BY <1>5, <1>6 DEF SessionRows
<1>8. \/ file[s].key = 0 /\ x.key = keys + 1 /\ x.started = clock /\ keys' = keys + 1
      \/ file[s].key # 0 /\ x = file[s] /\ keys' = keys
  BY <1>5, <1>6 DEF SessionRows
<1>9. x.key # 0
  BY <1>6, <1>8
<1>10. file' = [file EXCEPT ![s] = x]
  BY <1>5, StoreForgets
<1>11. UNCHANGED <<record, families, clock, locked>>
  BY DEF Renew
<1>12. AllClaims' \subseteq AllClaims \cup {RefreshClaim(x)}
  BY <1>5, <1>6, <1>7, <1>10, <1>11, ClaimsRenewed DEF AllClaims
<1>13. RefreshClaim(x).family = x.family /\ RefreshClaim(x).gen = x.gen /\ RefreshClaim(x).key = x.key
       /\ RefreshClaim(x).op = "refresh"
  BY DEF RefreshClaim
<1>14. x.family \in DOMAIN families /\ x.gen > 0
  BY <1>5, <1>7 DEF FileLeads
<1>15. \A d \in AllClaims : d.key \in 1..keys
  BY DEF OneKeyEach
<1>16. \A d \in AllClaims : d.op = "refresh" /\ d.family = x.family /\ d.gen = x.gen => d.key = file[s].key
  BY <1>5, <1>7 DEF FileLeads
<1>17. OneKeyEach(AllClaims', keys', DOMAIN families)
  <2>1. CASE file[s].key = 0 /\ x.key = keys + 1 /\ keys' = keys + 1
    <3>1. \A d \in AllClaims : ~ (d.op = "refresh" /\ x.family = d.family /\ x.gen = d.gen)
      BY <1>6, <1>15, <1>16, <2>1
    <3> QED  BY <1>6, <1>12, <1>13, <1>14, <2>1, <3>1, OneKeyGrows
  <2>2. CASE file[s].key # 0 /\ x = file[s] /\ keys' = keys
    <3>1. RefreshClaim(x) \in AllClaims
      BY <2>2, ClaimsMade DEF AllClaims
    <3>2. AllClaims' \subseteq AllClaims
      BY <1>12, <3>1
    <3> QED  BY <1>6, <2>2, <3>2, OneKeyShrinks
  <2> QED  BY <1>8, <2>1, <2>2
<1>18. \A d \in AllClaims : d.op = "refresh" /\ d.family = x.family /\ d.gen = x.gen => d.key = x.key
  <2>1. CASE file[s].key = 0
    BY <1>6, <1>15, <1>16, <2>1
  <2>2. CASE file[s].key # 0
    BY <1>8, <1>16, <2>2
  <2> QED  BY <2>1, <2>2
<1>19. FileLeads(file', AllClaims', DOMAIN families)
  BY <1>5, <1>6, <1>7, <1>10, <1>12, <1>13, <1>18, FileLeadsReserved
<1>20. StartsHonest(file', record, clock)
  <2>1. ASSUME NEW t \in Scopes, file'[t].key # 0
        PROVE  /\ file'[t].started <= clock
               /\ \A k \in record : k.op = "refresh" /\ k.key = file'[t].key => file'[t].started + Life <= k.expires
    <3>1. CASE t = s /\ file[s].key = 0
      <4>1. file'[t].key = keys + 1 /\ file'[t].started = clock
        BY <1>6, <1>8, <1>10, <3>1
      <4>2. \A k \in record : k.key \in 1..keys
        BY ClaimsKnown DEF AllClaims
      <4> QED  BY <1>6, <4>1, <4>2
    <3>2. CASE t # s \/ file[s].key # 0
      <4>1. file'[t] = file[t]
        BY <1>6, <1>8, <1>10, <3>2
      <4> QED  BY <2>1, <4>1 DEF StartsHonest
    <3> QED  BY <3>1, <3>2
  <2> QED  BY <2>1 DEF StartsHonest
<1>21. PICK row : row = [proc[p] EXCEPT !.at = "sent", !.awaits = x.key, !.tries = @ + 1]
  OBVIOUS
<1>22. proc'[p] = row /\ \A q \in Processes \ {p} : proc'[q] = proc[q]
  BY <1>5, <1>21 DEF CliTyped
<1>23. row.at = "sent" /\ row.scope = s /\ row.cmd = proc[p].cmd /\ row.awaits = x.key /\ row.reply = proc[p].reply
  BY <1>5, <1>21 DEF CliTyped, CommandRows
<1>24. proc[p].reply.op # "refresh"
  BY <1>1 DEF CommandFits
<1>25. CommandFits(row, p, file', locked', record')
  <2>1. file'[s] = x /\ x # SignedOut
    BY <1>6, <1>9, <1>10, CliRowsTyped
  <2> QED  BY <1>5, <1>9, <1>11, <1>23, <1>24, <2>1 DEF CommandFits
<1> QED  BY <1>4, <1>5, <1>7, <1>11, <1>12, <1>13, <1>17, <1>19, <1>20, <1>22, <1>23, <1>25, CliReserved

LEMMA LogoutKeeps ==
    ASSUME CliAssumption, CliInv, NEW p \in Processes, Logout(p)
    PROVE  CliInv'
<1> USE DEF CliInv
<1>1. proc[p].at = "locked" /\ CommandFits(proc[p], p, file, locked, record)
  BY DEF Logout, HoldsScope, CommandsFit
<1>2. proc[p].scope \in Scopes /\ proc[p].reply.op # "refresh"
  BY <1>1 DEF CommandFits
<1>3. file[proc[p].scope] # SignedOut => file[proc[p].scope].gen > 0
  BY <1>2 DEF FileLeads
<1>4. CliTyped'
  BY <1>2, <1>3, LogoutTyped
<1>5. PICK s \in Scopes, x \in SessionRows, r \in RequestRows :
        /\ s = proc[p].scope /\ locked[s] = p /\ proc[p].at = "locked" /\ proc[p].cmd = "logout"
        /\ file[s] # SignedOut
        /\ \/ file[s].logout = 0 /\ x = [file[s] EXCEPT !.logout = keys + 1] /\ keys' = keys + 1
           \/ file[s].logout # 0 /\ x = file[s] /\ keys' = keys
        /\ r = [op |-> "logout", from |-> p, family |-> x.family, gen |-> x.gen, key |-> x.logout]
        /\ Store(s, x) /\ net' = net \cup {r}
        /\ proc' = [proc EXCEPT ![p].at = "sent", ![p].awaits = x.logout]
  BY <1>2, <1>3, LogoutTyped
<1>6. file[s] \in SessionRows /\ file \in [Scopes -> SessionRows] /\ keys \in Nat
  BY DEF CliTyped
<1>7. /\ x.family = file[s].family /\ x.gen = file[s].gen /\ x.expires = file[s].expires
      /\ x.key = file[s].key /\ x.started = file[s].started
      /\ r.op = "logout" /\ r.family = x.family /\ r.gen = x.gen /\ r.key = x.logout
  BY <1>5, <1>6 DEF SessionRows
<1>8. \/ file[s].logout = 0 /\ x.logout = keys + 1 /\ keys' = keys + 1
      \/ file[s].logout # 0 /\ x = file[s] /\ keys' = keys
  BY <1>5, <1>6 DEF SessionRows
<1>9. x.logout # 0
  BY <1>6, <1>8
<1>10. file' = [file EXCEPT ![s] = x]
  BY <1>5, StoreForgets
<1>11. UNCHANGED <<record, families, clock, locked>>
  BY DEF Logout
<1>12. AllClaims' \subseteq AllClaims \cup {LogoutClaim(x)}
  BY <1>5, <1>6, <1>7, <1>10, <1>11, ClaimsLoggedOut DEF AllClaims
<1>13. LogoutClaim(x).family = x.family /\ LogoutClaim(x).gen = x.gen /\ LogoutClaim(x).key = x.logout
       /\ LogoutClaim(x).op = "logout"
  BY DEF LogoutClaim
<1>14. x.family \in DOMAIN families /\ x.gen > 0
  BY <1>5, <1>7 DEF FileLeads
<1>15. OneKeyEach(AllClaims', keys', DOMAIN families)
  <2>1. CASE file[s].logout = 0 /\ x.logout = keys + 1 /\ keys' = keys + 1
    BY <1>6, <1>12, <1>13, <1>14, <2>1, OneKeyGrows
  <2>2. CASE file[s].logout # 0 /\ x = file[s] /\ keys' = keys
    <3>1. LogoutClaim(x) \in AllClaims
      BY <2>2, ClaimsMade DEF AllClaims
    <3>2. AllClaims' \subseteq AllClaims
      BY <1>12, <3>1
    <3> QED  BY <1>6, <2>2, <3>2, OneKeyShrinks
  <2> QED  BY <1>8, <2>1, <2>2
<1>16. \A d \in AllClaims : d.op = "refresh" /\ d.family = x.family /\ d.gen = x.gen => d.key = x.key
  BY <1>5, <1>7 DEF FileLeads
<1>17. FileLeads(file', AllClaims', DOMAIN families)
  BY ZenonT(30), <1>5, <1>6, <1>7, <1>10, <1>12, <1>13, <1>16, FileLeadsReserved
<1>18. StartsHonest(file', record, clock)
  <2>1. \A t \in Scopes : file'[t].key = file[t].key /\ file'[t].started = file[t].started
    BY <1>6, <1>7, <1>10
  <2> QED  BY <2>1 DEF StartsHonest
<1>19. PICK row : row = [proc[p] EXCEPT !.at = "sent", !.awaits = x.logout]
  OBVIOUS
<1>20. proc'[p] = row /\ \A q \in Processes \ {p} : proc'[q] = proc[q]
  BY <1>5, <1>19 DEF CliTyped
<1>21. row.at = "sent" /\ row.scope = s /\ row.cmd = "logout" /\ row.awaits = x.logout /\ row.reply = proc[p].reply
  BY <1>5, <1>19 DEF CliTyped, CommandRows
<1>22. CommandFits(row, p, file', locked', record')
  <2>1. file'[s] = x /\ x # SignedOut
    BY <1>6, <1>9, <1>10, CliRowsTyped
  <2> QED  BY <1>2, <1>5, <1>9, <1>11, <1>21, <2>1 DEF CommandFits
<1> QED  BY <1>4, <1>5, <1>7, <1>11, <1>12, <1>13, <1>15, <1>17, <1>18, <1>20, <1>21, <1>22, CliReserved

\* An answer changes nothing but the reply of a process that waits for it.
LEMMA AnswerFits ==
    ASSUME CliTyped, CommandsFit, NEW r \in RequestRows, NEW k, Answer(r, k), file' = file, locked' = locked,
           record \subseteq record', k.op = "refresh" => k \in record' /\ k.key = r.key
    PROVE  /\ CommandsFit'
           /\ \A q \in Processes : InHand(proc'[q]) => InHand(proc[q]) /\ proc'[q].reply = proc[q].reply
<1>1. r.from \in Processes
  BY DEF RequestRows
<1>2. PICK row : row = [proc[r.from] EXCEPT !.reply = k]
  OBVIOUS
<1>3. /\ row.at = proc[r.from].at /\ row.cmd = proc[r.from].cmd /\ row.scope = proc[r.from].scope
      /\ row.awaits = proc[r.from].awaits /\ row.reply = k
  BY <1>1, <1>2 DEF CliTyped, CommandRows
<1>4. \A q \in Processes : proc'[q] = proc[q]
          \/ (q = r.from /\ proc'[q] = row /\ proc[q].at = "sent" /\ proc[q].awaits = r.key)
  <2>1. proc \in [Processes -> CommandRows]
    BY DEF CliTyped
  <2>2. CASE proc[r.from].at = "sent" /\ proc[r.from].awaits = r.key /\ proc[r.from].reply = NoReply
    <3>1. proc' = [proc EXCEPT ![r.from] = row]
      BY <1>1, <1>2, <2>1, <2>2 DEF Answer
    <3> QED  BY <1>1, <2>1, <2>2, <3>1
  <2>3. CASE ~ (proc[r.from].at = "sent" /\ proc[r.from].awaits = r.key /\ proc[r.from].reply = NoReply)
    <3>1. proc' = [proc EXCEPT ![r.from] = proc[r.from]]
      BY <1>1, <2>1, <2>3 DEF Answer
    <3> QED  BY <1>1, <2>1, <3>1
  <2> QED  BY <2>2, <2>3
<1>5. ASSUME NEW q \in Processes
      PROVE  /\ CommandFits(proc'[q], q, file', locked', record')
             /\ InHand(proc'[q]) => InHand(proc[q]) /\ proc'[q].reply = proc[q].reply
  <2>1. CommandFits(proc[q], q, file, locked, record)
    BY DEF CommandsFit
  <2>2. CASE proc'[q] = proc[q]
    BY <2>1, <2>2 DEF CommandFits
  <2>3. CASE q = r.from /\ proc'[q] = row /\ proc[q].at = "sent" /\ proc[q].awaits = r.key
    <3>1. ~InHand(row)
      BY <1>3, <2>3 DEF InHand
    <3>2. CommandFits(row, q, file', locked', record')
      BY <1>3, <2>1, <2>3 DEF CommandFits
    <3> QED  BY <2>3, <3>1, <3>2
  <2> QED  BY <1>4, <2>2, <2>3
<1> QED  BY <1>5 DEF CommandsFit

\* The service's part when no family moves.
LEMMA ServedKeeps ==
    ASSUME CliInv, CliTyped', CommandsFit', NEW r \in net, net' = net \ {r},
           UNCHANGED <<file, clock, keys, forgotten>>, record \subseteq record',
           \A k \in record' : k \in record \/ (k.op # "refresh" /\ ToldClaim(k) = ClaimOf(r)),
           DOMAIN families' = DOMAIN families,
           \A f \in DOMAIN families : families'[f].gen = families[f].gen /\ families'[f].reused = families[f].reused,
           \A q \in Processes : InHand(proc'[q]) => InHand(proc[q]) /\ proc'[q].reply = proc[q].reply
    PROVE  CliInv'
<1> USE DEF CliInv
<1>1. AllClaims' \subseteq AllClaims
  BY ClaimsServed DEF AllClaims
<1>2. keys \in Nat
  BY DEF CliTyped
<1>3. OneKeyEach(AllClaims', keys', DOMAIN families') /\ FileLeads(file', AllClaims', DOMAIN families')
  BY <1>1, <1>2, OneKeyShrinks, FileLeadsShrinks
<1>4. /\ \A q \in net : q.family \in DOMAIN families
      /\ \A k \in record : k.family \in DOMAIN families
      /\ \A s \in Scopes : file[s] # SignedOut => file[s].family \in DOMAIN families
  BY ClaimsKnown DEF AllClaims, FileLeads
<1>5. BehindAnswered(file', net', record', families')
  BY <1>4 DEF BehindAnswered, Answered
<1>6. RotationsTold(record', families')
  <2>1. \A k \in record' : k.op = "refresh" => k.gen <= families'[k.family].gen
    BY <1>4 DEF RotationsTold
  <2>2. \A f \in DOMAIN families' : families'[f].gen > 1 =>
          \E k \in record' : k.op = "refresh" /\ k.family = f /\ k.gen = families'[f].gen
    BY DEF RotationsTold
  <2> QED  BY <2>1, <2>2 DEF RotationsTold
<1>7. StartsHonest(file', record', clock')
  BY DEF StartsHonest
<1>8. LoginsFresh'
  <2>1. ASSUME NEW q \in Processes, InHand(proc'[q])
        PROVE  LoginFresh(proc[q], file', AllClaims', families', forgotten')
    <3>1. LoginFresh(proc[q], file, AllClaims, families, forgotten)
      BY <2>1 DEF LoginsFresh
    <3> QED  BY <1>1, <3>1 DEF LoginFresh
  <2> QED  BY <2>1, LoginsKept
<1>9. NeverTakenForThief' /\ StaysForgotten' /\ ExpiryHonest'
  <2>1. NeverTakenForThief'
    BY DEF NeverTakenForThief
  <2>2. StaysForgotten'
    BY DEF StaysForgotten
  <2>3. ExpiryHonest'
    BY DEF ExpiryHonest
  <2> QED  BY <2>1, <2>2, <2>3
<1> QED  BY <1>3, <1>5, <1>6, <1>7, <1>8, <1>9

LEMMA ServeLogoutKeeps ==
    ASSUME CliAssumption, CliInv, NEW r \in net, ServeLogout(r)
    PROVE  CliInv'
<1> USE DEF CliInv
<1>1. r \in RequestRows /\ r.family \in DOMAIN families
  BY ClaimsKnown DEF AllClaims, CliTyped
<1>2. CliTyped' /\ r.op = "logout" /\ net' = net \ {r}
  BY <1>1, ServeLogoutTyped
<1>3. UNCHANGED <<file, locked, clock, keys, forgotten>>
  BY DEF ServeLogout
<1>4. CASE UNCHANGED <<families, proc, record>>
  <2>1. CommandsFit'
    BY <1>3, <1>4 DEF CommandsFit
  <2> QED  BY <1>2, <1>3, <1>4, <2>1, ServedKeeps
<1>5. CASE ~UNCHANGED <<families, proc, record>>
  <2>1. PICK k \in ReplyRows :
          /\ k = [op |-> "logout", key |-> r.key, family |-> r.family, gen |-> r.gen, expires |-> 0]
          /\ Answer(r, k)
          /\ \/ UNCHANGED <<families, record>>
             \/ /\ record' = record \cup {k}
                /\ \E row \in CliFamilyRows :
                      /\ row.gen = families[r.family].gen /\ row.reused = families[r.family].reused
                      /\ families' = [families EXCEPT ![r.family] = row]
    BY <1>1, <1>5, ServeLogoutTyped
  <2>2. k.op # "refresh" /\ ToldClaim(k) = ClaimOf(r)
    BY <1>2, <2>1 DEF ToldClaim, ClaimOf
  <2>3. record \subseteq record' /\ \A j \in record' : j \in record \/ j = k
    BY <2>1
  <2>4. DOMAIN families' = DOMAIN families
        /\ \A f \in DOMAIN families : families'[f].gen = families[f].gen /\ families'[f].reused = families[f].reused
    <3>1. CASE UNCHANGED families
      BY <3>1
    <3>2. CASE ~UNCHANGED families
      <4>1. PICK row \in CliFamilyRows :
              /\ row.gen = families[r.family].gen /\ row.reused = families[r.family].reused
              /\ families' = [families EXCEPT ![r.family] = row]
        BY <2>1, <3>2
      <4> QED  BY <1>1, <4>1
    <3> QED  BY <3>1, <3>2
  <2>5. /\ CommandsFit'
        /\ \A q \in Processes : InHand(proc'[q]) => InHand(proc[q]) /\ proc'[q].reply = proc[q].reply
    BY <1>1, <1>3, <2>1, <2>2, <2>3, AnswerFits
  <2> QED  BY <1>2, <1>3, <2>2, <2>3, <2>4, <2>5, ServedKeeps
<1> QED  BY <1>4, <1>5

\* The generation moves: every other claim of the old one has the same key.
LEMMA RotationKeeps ==
    ASSUME CliAssumption, CliInv, CliTyped', NEW r \in net, NEW row \in CliFamilyRows, NEW k \in ReplyRows,
           r \in RequestRows, r.op = "refresh", r.family \in DOMAIN families, net' = net \ {r},
           \A j \in record : j.key # r.key,
           families[r.family].gen = r.gen,
           row.gen = r.gen + 1, row.reused = families[r.family].reused,
           k = [op |-> "refresh", key |-> r.key, family |-> r.family, gen |-> r.gen + 1, expires |-> clock + Life],
           families' = [families EXCEPT ![r.family] = row],
           record' = record \cup {k}, Answer(r, k), UNCHANGED <<file, locked, clock, keys, forgotten>>
    PROVE  CliInv'
<1> USE DEF CliInv
<1>1. k.op = "refresh" /\ k.key = r.key /\ k.family = r.family /\ k.gen = r.gen + 1 /\ k.expires = clock + Life
  OBVIOUS
<1>2. r.gen \in Nat \ {0} /\ r.gen + 1 \in Nat /\ keys \in Nat /\ clock \in Nat /\ Life \in Nat
  BY CliRowsTyped DEF RequestRows, CliTyped
<1>3. ToldClaim(k) = ClaimOf(r)
  BY <1>1, <1>2 DEF ToldClaim, ClaimOf
<1>4. AllClaims' \subseteq AllClaims
  BY <1>3, ClaimsServed DEF AllClaims
<1>5. DOMAIN families' = DOMAIN families /\ families'[r.family] = row
      /\ \A f \in DOMAIN families \ {r.family} : families'[f] = families[f]
  OBVIOUS
<1>6. OneKeyEach(AllClaims', keys', DOMAIN families') /\ FileLeads(file', AllClaims', DOMAIN families')
  BY <1>2, <1>4, <1>5, OneKeyShrinks, FileLeadsShrinks
<1>7. ClaimOf(r) \in AllClaims /\ ClaimOf(r).op = "refresh" /\ ClaimOf(r).family = r.family /\ ClaimOf(r).gen = r.gen
      /\ ClaimOf(r).key = r.key
  BY ClaimsMade DEF AllClaims, ClaimOf
<1>8. \A s \in Scopes : file[s] # SignedOut => file[s].family \in DOMAIN families /\ file[s].gen \in Nat
  BY DEF FileLeads, CliTyped, SessionRows
<1>9. \A s \in Scopes : file[s] # SignedOut /\ file[s].family = r.family =>
         r.gen <= file[s].gen /\ (r.gen = file[s].gen => r.key = file[s].key)
  BY <1>7 DEF FileLeads
<1>10. BehindAnswered(file', net', record', families')
  <2>1. \A key : Answered(record, key) => Answered(record', key)
    BY DEF Answered
  <2>2. Answered(record', r.key)
    BY <1>1 DEF Answered
  <2>3. ASSUME NEW q \in net', q.op = "refresh"
        PROVE  q.gen <= families'[q.family].gen /\ (q.gen < families'[q.family].gen => Answered(record', q.key))
    <3>1. q \in net /\ q.family \in DOMAIN families /\ q.gen \in Nat
      BY ClaimsKnown DEF AllClaims, CliTyped, RequestRows
    <3>2. q.gen <= families[q.family].gen /\ (q.gen < families[q.family].gen => Answered(record, q.key))
      BY <2>3, <3>1 DEF BehindAnswered
    <3>3. CASE q.family # r.family
      BY <1>5, <2>1, <3>1, <3>2, <3>3
    <3>4. CASE q.family = r.family /\ q.gen = r.gen
      <4>1. ClaimOf(q) \in AllClaims /\ ClaimOf(q).op = "refresh" /\ ClaimOf(q).family = q.family
            /\ ClaimOf(q).gen = q.gen /\ ClaimOf(q).key = q.key
        BY <2>3, <3>1, ClaimsMade DEF AllClaims, ClaimOf
      <4>2. ClaimOf(q) = ClaimOf(r)
        BY <1>7, <3>4, <4>1 DEF OneKeyEach
      <4>3. q.key = r.key
        BY <1>7, <4>1, <4>2
      <4> QED  BY <1>2, <1>5, <2>2, <3>4, <4>3
    <3>5. CASE q.family = r.family /\ q.gen # r.gen
      <4>1. q.gen < r.gen
        BY <1>2, <3>1, <3>2, <3>5
      <4>2. families'[q.family].gen = r.gen + 1 /\ families[q.family].gen = r.gen
        BY <1>5, <3>5
      <4>3. Answered(record', q.key)
        BY <2>1, <3>2, <4>1, <4>2
      <4>4. q.gen <= r.gen + 1
        BY <1>2, <3>1, <4>1
      <4> QED  BY <4>2, <4>3, <4>4
    <3> QED  BY <3>3, <3>4, <3>5
  <2>4. ASSUME NEW s \in Scopes, file'[s] # SignedOut
        PROVE  file'[s].gen <= families'[file'[s].family].gen
               /\ (file'[s].gen < families'[file'[s].family].gen => Answered(record', file'[s].key))
    <3>1. file[s].gen <= families[file[s].family].gen
          /\ (file[s].gen < families[file[s].family].gen => Answered(record, file[s].key))
      BY <2>4 DEF BehindAnswered
    <3>2. CASE file[s].family # r.family
      BY <1>5, <1>8, <2>1, <2>4, <3>1, <3>2
    <3>3. CASE file[s].family = r.family
      <4>1. file[s].gen = r.gen /\ r.key = file[s].key
        BY <1>2, <1>8, <1>9, <2>4, <3>1, <3>3
      <4> QED  BY <1>2, <1>5, <2>2, <3>3, <4>1
    <3> QED  BY <3>2, <3>3
  <2> QED  BY <2>3, <2>4 DEF BehindAnswered
<1>11. RotationsTold(record', families')
  <2>1. ASSUME NEW j \in record', j.op = "refresh"
        PROVE  j.gen <= families'[j.family].gen
    <3>1. CASE j = k
      BY <1>1, <1>2, <1>5, <3>1
    <3>2. CASE j \in record
      <4>1. j.family \in DOMAIN families /\ j.gen \in Nat
        BY <3>2, ClaimsKnown DEF AllClaims, CliTyped, ReplyRows
      <4>2. j.gen <= families[j.family].gen
        BY <2>1, <3>2 DEF RotationsTold
      <4> QED  BY <1>2, <1>5, <4>1, <4>2
    <3> QED  BY <3>1, <3>2
  <2>2. ASSUME NEW f \in DOMAIN families', families'[f].gen > 1
        PROVE  \E j \in record' : j.op = "refresh" /\ j.family = f /\ j.gen = families'[f].gen
    <3>1. CASE f = r.family
      BY <1>1, <1>5, <3>1
    <3>2. CASE f # r.family
      BY <1>5, <2>2, <3>2 DEF RotationsTold
    <3> QED  BY <3>1, <3>2
  <2> QED  BY <2>1, <2>2 DEF RotationsTold
<1>12. StartsHonest(file', record', clock')
  <2>1. \A s \in Scopes : file[s].started \in Nat
    BY DEF CliTyped, SessionRows
  <2> QED  BY <1>1, <1>2, <2>1 DEF StartsHonest
<1>13. /\ CommandsFit'
       /\ \A q \in Processes : InHand(proc'[q]) => InHand(proc[q]) /\ proc'[q].reply = proc[q].reply
  BY <1>1, AnswerFits
<1>14. LoginsFresh'
  <2>1. ASSUME NEW q \in Processes, InHand(proc'[q])
        PROVE  LoginFresh(proc[q], file', AllClaims', families', forgotten')
    <3>1. LoginFresh(proc[q], file, AllClaims, families, forgotten)
      BY <1>13, <2>1 DEF LoginsFresh
    <3>2. proc[q].reply.family # r.family
      BY <1>7, <3>1 DEF LoginFresh
    <3> QED  BY <1>4, <1>5, <3>1, <3>2 DEF LoginFresh
  <2> QED  BY <1>13, <2>1, LoginsKept
<1>15. NeverTakenForThief' /\ StaysForgotten'
  BY <1>5 DEF NeverTakenForThief, StaysForgotten
<1>16. ExpiryHonest'
  <2>1. ASSUME NEW s \in Scopes, file[s] # SignedOut, file[s].family = r.family
        PROVE  file[s].gen # r.gen + 1
    BY <1>2, <1>8, <2>1 DEF BehindAnswered
  <2> QED  BY <1>1, <2>1 DEF ExpiryHonest
<1> QED  BY <1>5, <1>6, <1>10, <1>11, <1>12, <1>13, <1>14, <1>15, <1>16

LEMMA ServeRefreshKeeps ==
    ASSUME CliAssumption, CliInv, NEW r \in net, ServeRefresh(r)
    PROVE  CliInv'
<1> USE DEF CliInv
<1>1. r \in RequestRows /\ r.family \in DOMAIN families
  BY ClaimsKnown DEF AllClaims, CliTyped
<1>2. CliTyped' /\ r.op = "refresh" /\ net' = net \ {r}
  BY <1>1, ServeRefreshTyped
<1>3. UNCHANGED <<file, locked, clock, keys, forgotten>>
  BY DEF ServeRefresh
<1>5. CASE UNCHANGED <<families, proc, record>>
  <2>1. CommandsFit'
    BY <1>3, <1>5 DEF CommandsFit
  <2> QED  BY <1>2, <1>3, <1>5, <2>1, ServedKeeps
<1>6. CASE (\E k \in record : k.key = r.key /\ Answer(r, k)) /\ UNCHANGED <<families, record>>
  <2>1. PICK k \in record : k.key = r.key /\ Answer(r, k)
    BY <1>6
  <2>2. /\ CommandsFit'
        /\ \A q \in Processes : InHand(proc'[q]) => InHand(proc[q]) /\ proc'[q].reply = proc[q].reply
    BY <1>1, <1>3, <1>6, <2>1, AnswerFits
  <2> QED  BY <1>2, <1>3, <1>6, <2>2, ServedKeeps
<1>7. CASE (\A k \in record : k.key # r.key) /\ families[r.family].gen > r.gen
  <2>1. families[r.family].gen \in Nat /\ r.gen \in Nat
    BY <1>1 DEF CliTyped, CliFamilyRows, RequestRows
  <2>2. Answered(record, r.key)
    BY <1>2, <1>7, <2>1 DEF BehindAnswered
  <2> QED  BY <1>7, <2>2 DEF Answered
<1>8. CASE /\ \A k \in record : k.key # r.key
           /\ families[r.family].gen = r.gen
           /\ \E row \in CliFamilyRows, k \in ReplyRows :
                /\ row.gen = r.gen + 1 /\ row.reused = families[r.family].reused
                /\ k = [op |-> "refresh", key |-> r.key, family |-> r.family, gen |-> r.gen + 1, expires |-> clock + Life]
                /\ families' = [families EXCEPT ![r.family] = row]
                /\ record' = record \cup {k} /\ Answer(r, k)
  <2>1. PICK row \in CliFamilyRows, k \in ReplyRows :
                /\ row.gen = r.gen + 1 /\ row.reused = families[r.family].reused
                /\ k = [op |-> "refresh", key |-> r.key, family |-> r.family, gen |-> r.gen + 1, expires |-> clock + Life]
                /\ families' = [families EXCEPT ![r.family] = row]
                /\ record' = record \cup {k} /\ Answer(r, k)
    BY <1>8
  <2> QED  BY <1>1, <1>2, <1>3, <1>8, <2>1, RotationKeeps
<1> QED  BY <1>1, <1>5, <1>6, <1>7, <1>8, ServeRefreshTyped

LEMMA CliInitHolds ==
    ASSUME CliAssumption, CliInit
    PROVE  CliInv
<1>1. PICK number \in [Scopes -> 1..Cardinality(Scopes)] :
        /\ \A s, t \in Scopes : number[s] = number[t] => s = t
        /\ file = [s \in Scopes |-> Session(number[s], 1, Life)]
        /\ families = [f \in 1..Cardinality(Scopes) |-> [live |-> TRUE, gen |-> 1, expires |-> Life, reused |-> FALSE]]
        /\ locked = [s \in Scopes |-> None]
        /\ proc = [p \in Processes |-> NoCommand]
        /\ clock = 0 /\ keys = 0
        /\ record = {} /\ net = {} /\ forgotten = {}
  BY DEF CliInit
<1>2. Cardinality(Scopes) \in Nat
  BY FS_CardinalityType DEF CliAssumption
<1>3. PICK new : new = [live |-> TRUE, gen |-> 1, expires |-> Life, reused |-> FALSE]
  OBVIOUS
<1>4. new \in CliFamilyRows /\ new.gen = 1 /\ new.reused = FALSE
  BY <1>3, CliRowsTyped DEF CliFamilyRows
<1>5. families = [f \in 1..Cardinality(Scopes) |-> new]
  BY <1>1, <1>3
<1>6. \A s \in Scopes : /\ file[s] = Session(number[s], 1, Life) /\ number[s] \in 1..Cardinality(Scopes) /\ number[s] \in Nat
  BY <1>1, <1>2
<1>7. \A s \in Scopes : /\ file[s] \in SessionRows /\ file[s].family = number[s] /\ file[s].gen = 1
                        /\ file[s].key = 0 /\ file[s].logout = 0
  <2>1. \A n \in Nat : /\ Session(n, 1, Life) \in SessionRows /\ Session(n, 1, Life).family = n
                        /\ Session(n, 1, Life).gen = 1 /\ Session(n, 1, Life).key = 0 /\ Session(n, 1, Life).logout = 0
    BY CliRowsTyped DEF Session
  <2> QED  BY <1>6, <2>1
<1>8. CliTyped
  <2>1. file \in [Scopes -> SessionRows]
    BY <1>1, <1>7
  <2>2. proc \in [Processes -> CommandRows]
    BY <1>1, CliRowsTyped
  <2>3. families \in [1..Cardinality(Scopes) -> CliFamilyRows]
    BY <1>4, <1>5
  <2> QED  BY <1>1, <1>2, <2>1, <2>2, <2>3 DEF CliTyped
<1>9. AllClaims = {}
  BY <1>1, <1>7 DEF AllClaims, Claims
<1>10. OneKeyEach(AllClaims, keys, DOMAIN families)
  BY <1>9 DEF OneKeyEach
<1>11. FileLeads(file, AllClaims, DOMAIN families)
  BY <1>1, <1>5, <1>6, <1>7, <1>9 DEF FileLeads
<1>12. BehindAnswered(file, net, record, families)
  BY <1>1, <1>4, <1>5, <1>6, <1>7 DEF BehindAnswered
<1>13. RotationsTold(record, families)
  BY <1>1, <1>4, <1>5 DEF RotationsTold
<1>14. StartsHonest(file, record, clock)
  BY <1>7 DEF StartsHonest
<1>15. CommandsFit /\ LoginsFresh
  BY <1>1, CliRowsTyped DEF CommandsFit, CommandFits, LoginsFresh, InHand, None
<1>16. forgotten \subseteq DOMAIN families /\ NeverTakenForThief /\ StaysForgotten /\ ExpiryHonest
  BY <1>1, <1>4, <1>5 DEF NeverTakenForThief, StaysForgotten, ExpiryHonest
<1> QED  BY <1>8, <1>10, <1>11, <1>12, <1>13, <1>14, <1>15, <1>16 DEF CliInv

LEMMA CliStep ==
    ASSUME CliAssumption, CliInv, [CliNext]_cliVars
    PROVE  CliInv'
<1>1. CASE UNCHANGED cliVars
  BY <1>1 DEF cliVars, CliInv, CliTyped, AllClaims, CommandsFit, LoginsFresh, NeverTakenForThief,
              StaysForgotten, ExpiryHonest
<1>2. ASSUME NEW p \in Processes, NEW s \in Scopes, NEW cmd \in {"use", "login", "logout", "forget"}, Start(p, cmd, s)
      PROVE  CliInv'
  BY <1>2, StartKeeps
<1>3. ASSUME NEW p \in Processes, LockSession(p) \/ SignIn(p) \/ RememberLogin(p) \/ Forget(p)
                                  \/ Renew(p) \/ FinishRenewal(p) \/ Logout(p) \/ FinishCliLogout(p) \/ Exit(p)
      PROVE  CliInv'
  BY <1>3, LockSessionKeeps, SignInKeeps, RememberLoginKeeps, SignedOutKeeps, RenewKeeps, FinishRenewalKeeps,
     LogoutKeeps, ExitKeeps
<1>4. ASSUME NEW r \in net, ServeRefresh(r) \/ ServeLogout(r)
      PROVE  CliInv'
  BY <1>4, ServeRefreshKeeps, ServeLogoutKeeps
<1>5. CASE CliTick
  BY <1>5, CliTickKeeps
<1> QED  BY <1>1, <1>2, <1>3, <1>4, <1>5 DEF CliNext

(* Concurrent invocations of the command line, killed anywhere, with requests lost, delayed   *)
(* or served twice: the service never takes one for a thief, no forgotten session comes back  *)
(* into the credentials file, and the file never promises more life than the service gave.    *)
THEOREM CliSoundHolds == CliSpec => []CliSound
<1>1. CliInit => CliInv
  BY CliAssumption, CliInitHolds
<1>2. CliInv /\ [CliNext]_cliVars => CliInv'
  BY CliAssumption, CliStep
<1>3. CliInv => CliSound
  BY DEF CliInv, CliSound
<1> QED  BY <1>1, <1>2, <1>3, PTL DEF CliSpec

----------------------------------------------------------------------------
LimitRow == [count : Nat, until : Nat, since : Nat, expires : Nat]

\* The row of a burst stands for every cooldown that has not ended, and outlives it.
BurstRows ==
    /\ \A w \in DOMAIN buckets :
         /\ buckets[w] \in LimitRow
         /\ buckets[w].until <= buckets[w].expires
         /\ buckets[w].until <= time + policy.block
    /\ \A end \in blocks : end > time => 0 \in DOMAIN buckets /\ end <= buckets[0].until

\* No request in flight is older than the grace.
InFlight ==
    \A c \in Callers : flight[c] <= time /\ (flight[c] # 0 => time <= flight[c] + Grace)

LimitInv ==
    /\ policy \in Policies
    /\ time \in Nat /\ blocks \in SUBSET Nat /\ flight \in [Callers -> Nat]
    /\ InFlight
    /\ policy.kind = "fixed" => blocks = {}
    /\ policy.kind = "burst" => BurstRows

LEMMA PolicyShape ==
    ASSUME policy \in Policies
    PROVE  /\ policy.maximum \in Nat /\ policy.window \in Nat /\ policy.block \in Nat
           /\ policy.kind \in {"burst", "fixed"}
  <1>1. Valid(policy) /\ policy.kind \in {"burst", "fixed"}
    BY RateAssumption
  <1>2. /\ policy.maximum \in Nat
        /\ policy.window \in 1 .. MaxWindow
        /\ policy.block \in 1 .. policy.window
    BY <1>1 DEF Valid
  <1>3. MaxWindow \in Nat
    BY SMT DEF MaxWindow
  <1>4. policy.window \in Nat
    BY <1>2, <1>3
  <1>5. policy.block \in Nat
    BY <1>2, <1>4
  <1> QED BY <1>1, <1>2, <1>4, <1>5

\* A request that waited for the row of a burst leaves it standing for the cooldown the
\* row stood for, or for its own if there was none.
LEMMA BurstRowAfter ==
    ASSUME LimitInv, policy.kind = "burst", NEW c \in Callers, flight[c] # 0
    PROVE  LET at == flight[c]
               row == RowAfter(at)
           IN /\ WindowOf(at) = 0
              /\ row \in LimitRow /\ row.until <= row.expires /\ row.until <= time + policy.block
              /\ \A end \in blocks : end > time =>
                   end <= row.until /\ row.count = policy.maximum + 1
  <1> DEFINE at == flight[c]
             row == RowAfter(at)
             P == row \in LimitRow /\ row.until <= row.expires /\ row.until <= time + policy.block
             Q == \A end \in blocks : end > time =>
                    end <= row.until /\ row.count = policy.maximum + 1
  <1>1. /\ policy.maximum \in Nat /\ policy.window \in Nat /\ policy.block \in Nat /\ Grace \in Nat
        /\ time \in Nat /\ at \in Nat /\ at <= time /\ time <= at + Grace /\ blocks \in SUBSET Nat
    BY PolicyShape, RateAssumption DEF LimitInv, InFlight
  <1>2. BurstExpires(at) \in Nat /\ time + policy.block <= BurstExpires(at)
        /\ at + policy.block \in Nat /\ at + policy.block <= BurstExpires(at)
        /\ at + policy.block <= time + policy.block
    BY <1>1 DEF BurstExpires
  <1>3. \A n \in Nat : Reached(n, at) \in {0, at + policy.block}
    BY DEF Reached, NoUntil
  <1>4. WindowOf(at) = 0
    BY DEF WindowOf
  <1>5. CASE 0 \notin DOMAIN buckets
    <2>1. row = BurstFirst(at)
      BY <1>4, <1>5 DEF RowAfter
    <2>2. P
      BY <1>1, <1>2, <1>3, <2>1 DEF BurstFirst, LimitRow
    <2>3. Q
      BY <1>5 DEF LimitInv, BurstRows
    <2> QED BY <1>4, <2>2, <2>3
  <1>6. CASE 0 \in DOMAIN buckets
    <2> DEFINE old == buckets[0]
    <2>1. row = BurstAgain(old, at)
      BY <1>4, <1>6 DEF RowAfter
    <2>2. /\ old \in LimitRow /\ old.until \in Nat /\ old.count \in Nat
          /\ old.until <= time + policy.block
          /\ \A end \in blocks : end > time => end <= old.until
      BY <1>6 DEF LimitInv, BurstRows, LimitRow
    <2> HIDE DEF old
    <2>3. CASE Cooling(old, at)
      <3>1. row = [old EXCEPT !.count = policy.maximum + 1, !.since = at,
                              !.expires = BurstExpires(at)]
        BY <2>1, <2>3 DEF BurstAgain
      <3>2. policy.maximum + 1 \in Nat
        BY <1>1
      <3>3. /\ row \in LimitRow /\ row.until = old.until /\ row.expires = BurstExpires(at)
            /\ row.count = policy.maximum + 1
        BY <1>1, <1>2, <2>2, <3>1, <3>2 DEF LimitRow
      <3>4. P
        BY <1>1, <1>2, <2>2, <3>3
      <3> QED BY <1>4, <2>2, <3>3, <3>4
    <2>4. CASE ~ Cooling(old, at)
      <3>1. Q
        BY <1>1, <2>2, <2>4 DEF Cooling
      <3>2. CASE ElapsedSince(old, at)
        <4>1. row = BurstFirst(at)
          BY <2>1, <2>4, <3>2 DEF BurstAgain
        <4>2. P
          BY <1>1, <1>2, <1>3, <4>1 DEF BurstFirst, LimitRow
        <4> QED BY <1>4, <3>1, <4>2
      <3>3. CASE ~ ElapsedSince(old, at)
        <4>1. row = [old EXCEPT !.count = @ + 1, !.until = Reached(old.count + 1, at),
                                !.expires = BurstExpires(at)]
          BY <2>1, <2>4, <3>3 DEF BurstAgain
        <4>2. old.count + 1 \in Nat /\ Reached(old.count + 1, at) \in Nat
              /\ Reached(old.count + 1, at) <= at + policy.block
          BY <1>1, <1>2, <1>3, <2>2
        <4>3. /\ row \in LimitRow /\ row.until = Reached(old.count + 1, at)
              /\ row.expires = BurstExpires(at)
          BY <1>2, <2>2, <4>1, <4>2 DEF LimitRow
        <4>4. P
          BY <1>1, <1>2, <4>2, <4>3
        <4> QED BY <1>4, <3>1, <4>4
      <3> QED BY <3>2, <3>3
    <2> QED BY <2>3, <2>4
  <1> QED BY <1>5, <1>6

LEMMA ConsumeHolds ==
    ASSUME LimitInv, NEW c \in Callers, Consume(c)
    PROVE  LimitInv' /\ CooldownHoldsStep
  <1> DEFINE at == flight[c]
             row == RowAfter(at)
  <1>1. /\ at # 0 /\ UNCHANGED <<policy, time>>
        /\ buckets' = [w \in DOMAIN buckets \cup {WindowOf(at)} |->
                          IF w = WindowOf(at) THEN row ELSE buckets[w]]
        /\ blocks' = IF policy.kind = "burst" /\ row.until > at THEN blocks \cup {row.until} ELSE blocks
        /\ flight' = [flight EXCEPT ![c] = 0]
        /\ passed' # passed => AllowedBy(row, at)
    BY DEF Consume
  <1>2. flight' \in [Callers -> Nat] /\ InFlight'
    BY <1>1 DEF LimitInv, InFlight
  <1>3. CASE policy.kind = "fixed"
    BY <1>1, <1>2, <1>3 DEF LimitInv, CooldownHoldsStep
  <1>4. CASE policy.kind = "burst"
    <2>1. /\ WindowOf(at) = 0
          /\ row \in LimitRow /\ row.until <= row.expires /\ row.until <= time + policy.block
          /\ \A end \in blocks : end > time =>
               end <= row.until /\ row.count = policy.maximum + 1
      BY <1>1, <1>4, BurstRowAfter
    <2> HIDE DEF row
    <2>2. /\ DOMAIN buckets' = DOMAIN buckets \cup {0}
          /\ \A w \in DOMAIN buckets' : buckets'[w] = IF w = 0 THEN row ELSE buckets[w]
      BY <1>1, <2>1
    <2>3. row.until \in Nat /\ blocks \in SUBSET Nat
      BY <2>1 DEF LimitRow, LimitInv
    <2>4. blocks' \in SUBSET Nat /\ \A end \in blocks' : end \in blocks \/ end = row.until
      BY <1>1, <2>3
    <2>5. BurstRows'
      <3>1. \A w \in DOMAIN buckets' :
               /\ buckets'[w] \in LimitRow
               /\ buckets'[w].until <= buckets'[w].expires
               /\ buckets'[w].until <= time + policy.block
        BY <1>4, <2>1, <2>2 DEF LimitInv, BurstRows
      <3>2. \A end \in blocks' : end > time => 0 \in DOMAIN buckets' /\ end <= buckets'[0].until
        BY <2>1, <2>2, <2>3, <2>4
      <3> QED BY <1>1, <3>1, <3>2 DEF BurstRows
    <2>6. CooldownHoldsStep
      <3> SUFFICES ASSUME passed' # passed, NEW end \in blocks, ~ (end <= time) PROVE FALSE
        BY DEF CooldownHoldsStep
      <3>1. end \in Nat /\ time \in Nat /\ policy.maximum \in Nat
        BY PolicyShape DEF LimitInv
      <3>2. row.count = policy.maximum + 1
        BY <2>1, <3>1
      <3> QED BY <1>1, <3>1, <3>2 DEF AllowedBy
    <2> QED BY <1>1, <1>2, <1>4, <2>4, <2>5, <2>6 DEF LimitInv
  <1> QED BY <1>3, <1>4, PolicyShape DEF LimitInv

LEMMA EraseBucketHolds ==
    ASSUME LimitInv, EraseBucket
    PROVE  LimitInv'
  <1>1. PICK w \in DOMAIN buckets :
          /\ ErasableBucket(buckets[w])
          /\ buckets' = [v \in DOMAIN buckets \ {w} |-> buckets[v]]
          /\ UNCHANGED <<policy, flight, passed, blocks, refusals, time>>
    BY DEF EraseBucket
  <1>2. CASE policy.kind = "fixed"
    BY <1>1, <1>2 DEF LimitInv, InFlight
  <1>3. CASE policy.kind = "burst"
    <2>1. BurstRows /\ time \in Nat /\ blocks \in SUBSET Nat
      BY <1>3 DEF LimitInv
    <2>2. ASSUME NEW end \in blocks, end > time PROVE w # 0
      <3>1. 0 \in DOMAIN buckets /\ end <= buckets[0].until
        BY <2>1, <2>2 DEF BurstRows
      <3>2. /\ buckets[0].until <= buckets[0].expires
            /\ buckets[0].until \in Nat /\ buckets[0].expires \in Nat
        BY <2>1, <3>1 DEF BurstRows, LimitRow
      <3>3. end \in Nat /\ ~ (buckets[0].expires <= time)
        BY <2>1, <2>2, <3>1, <3>2
      <3> QED BY <1>1, <3>3 DEF ErasableBucket
    <2>3. BurstRows'
      BY <1>1, <2>1, <2>2 DEF BurstRows
    <2> QED BY <1>1, <1>3, <2>3 DEF LimitInv, InFlight
  <1> QED BY <1>2, <1>3, PolicyShape DEF LimitInv

LEMMA RateTickHolds ==
    ASSUME LimitInv, RateTick
    PROVE  LimitInv'
  <1>1. /\ time' = time + 1 /\ UNCHANGED <<policy, buckets, flight, passed, blocks, refusals>>
        /\ \A c \in Callers : flight[c] # 0 => time < flight[c] + Grace
    BY DEF RateTick
  <1>2. /\ time \in Nat /\ time' \in Nat /\ policy.block \in Nat /\ Grace \in Nat
        /\ blocks \in SUBSET Nat /\ flight \in [Callers -> Nat]
    BY <1>1, PolicyShape, RateAssumption DEF LimitInv
  <1>3. InFlight'
    BY <1>1, <1>2 DEF LimitInv, InFlight
  <1>4. policy.kind = "burst" => BurstRows'
    <2> SUFFICES ASSUME policy.kind = "burst" PROVE BurstRows'
      OBVIOUS
    <2>1. BurstRows
      BY DEF LimitInv
    <2>2. \A w \in DOMAIN buckets : buckets[w].until \in Nat /\ buckets[w].until <= time' + policy.block
      BY <1>1, <1>2, <2>1 DEF BurstRows, LimitRow
    <2>3. \A end \in blocks : end > time' => end > time
      BY <1>1, <1>2
    <2> QED BY <1>1, <2>1, <2>2, <2>3 DEF BurstRows
  <1> QED BY <1>1, <1>2, <1>3, <1>4 DEF LimitInv

\* "every later request is rejected until that complete cooldown elapses": however long a
\* request waited for the row and whatever maintenance erased, for every set of policies,
\* number of callers and every grace.
THEOREM CooldownHoldsAlways == RateSpec => CooldownHolds
  <1>1. RateInit => LimitInv
    BY RateAssumption DEF RateInit, LimitInv, InFlight, BurstRows
  <1>2. LimitInv /\ [RateNext]_rateVars => LimitInv' /\ [CooldownHoldsStep]_rateVars
    <2> SUFFICES ASSUME LimitInv, [RateNext]_rateVars
                 PROVE  LimitInv' /\ [CooldownHoldsStep]_rateVars
      OBVIOUS
    <2>1. ASSUME NEW c \in Callers, Consume(c) PROVE LimitInv' /\ [CooldownHoldsStep]_rateVars
      BY <2>1, ConsumeHolds
    <2>2. ASSUME NEW c \in Callers, BeginRequest(c) PROVE LimitInv' /\ UNCHANGED passed
      <3>1. flight' = [flight EXCEPT ![c] = time] /\ UNCHANGED <<policy, buckets, passed, blocks, time>>
        BY <2>2 DEF BeginRequest
      <3>2. time \in Nat /\ Grace \in Nat /\ flight \in [Callers -> Nat]
        BY RateAssumption DEF LimitInv
      <3>3. flight' \in [Callers -> Nat] /\ InFlight'
        BY <3>1, <3>2 DEF LimitInv, InFlight
      <3> QED BY <3>1, <3>3 DEF LimitInv, BurstRows
    <2>3. CASE EraseBucket
      BY <2>3, EraseBucketHolds DEF EraseBucket, CooldownHoldsStep
    <2>4. CASE RateTick
      BY <2>4, RateTickHolds DEF RateTick, CooldownHoldsStep
    <2>5. CASE UNCHANGED rateVars
      BY <2>5 DEF rateVars, LimitInv, InFlight, BurstRows, CooldownHoldsStep
    <2> QED BY <2>1, <2>2, <2>3, <2>4, <2>5 DEF RateNext, CooldownHoldsStep
  <1> QED BY <1>1, <1>2, PTL DEF RateSpec, CooldownHolds
=============================================================================
