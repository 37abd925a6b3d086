---------------------------- MODULE AccessProofs ----------------------------
(***************************************************************************)
(* What several components promise for every value of their constants:     *)
(* OboProof, SiliconRotation, Membership, SingleSignOn,                    *)
(* TestingEnvironment, TestingCreation, SensitiveAction, Hierarchy,        *)
(* Invitation, Notification, Directory and TestApplication.                *)
(*                                                                         *)
(* OboProof: NoUseAfterWithdrawal is not inductive, for it says nothing of *)
(* the proofs that are not consumed yet.  Its strengthening says why each  *)
(* withdrawn proof can no longer be consumed (Dead), and that is kept      *)
(* because an epoch recorded in a proof is never ahead of its party's      *)
(* (EpochsPast).                                                           *)
(*                                                                         *)
(* Membership: the core of the inductive invariant is what a transfer of   *)
(* ownership may assume about a target it read some time ago.  It is       *)
(* refused when the organization has another version, every transfer bumps *)
(* that version, and nothing else makes an owner; so the target is still   *)
(* no owner, the unique index leaves only the caller as the owner to step  *)
(* down, and the step moves the epoch of both.                             *)
(*                                                                         *)
(* SensitiveAction: that an approval is spent once follows from what a     *)
(* spent approval leaves behind.  Its row still matches the request, so    *)
(* only the idempotency record can stop a second write; the invariant is   *)
(* that the record of a spent row lives at least as long as the row.       *)
(*                                                                         *)
(* Hierarchy: a line is acyclic when some set that holds, with a silicon,  *)
(* its supervisor has whom the silicon reports to and not the silicon.  A  *)
(* line that changes keeps such a set: the union of the old one with one   *)
(* around the new supervisor, or its intersection with one without the     *)
(* silicon that moved.                                                     *)
(*                                                                         *)
(* Invitation: an invitation is bound to nobody or to its address, and     *)
(* whatever happens to it but an acceptance only eases it                  *)
(* (InvitationsEase).  Notification: revoking what a job announces has     *)
(* ended the job, so no lease check passes afterwards.                     *)
(*                                                                         *)
(* Directory: whom a transaction has locked keeps its tags and a tag that  *)
(* is locked FOR UPDATE is given to nobody, so whom a statement will find  *)
(* is among those that it wanted in its snapshot; who has lost a tag while *)
(* the statement waited may be among them too (LocksExclude, Eases).       *)
(*                                                                         *)
(* Testing applications: at most one delivery works under the reservation  *)
(* of the environment and it is of the operation that holds it, so what an *)
(* interrupted import has written is still there when it is taken up       *)
(* (DeliveriesFit, SecretsHeld); until an application is erased its        *)
(* configuration revision only grows (LifeHolds).                          *)
(***************************************************************************)
EXTENDS OboProof, SiliconRotation, Membership, SingleSignOn, TestingEnvironment,
        TestingCreation, SensitiveAction, Hierarchy, Invitation, Notification, Directory,
        TestApplication, FiniteSetTheorems, SequenceTheorems, WellFoundedInduction, TLAPS

----------------------------------------------------------------------------
(* Type correctness *)

\* The bound in the guard keeps a changed party in its type.
LEMMA ChangedParty ==
    ASSUME TypeOK, NEW p \in Parties, NEW live \in BOOLEAN, Changed(p, live)
    PROVE  /\ party' = [party EXCEPT ![p] = [live |-> live, epoch |-> party[p].epoch + 1]]
           /\ party' \in [Parties -> PartyType]
           /\ withdrawn' = withdrawn \cup Unused
           /\ withdrawn' \in SUBSET Keys
  <1>1. party[p].epoch \in 1 .. MaxEpoch /\ party[p].epoch < MaxEpoch
    BY DEF TypeOK, PartyType, Changed
  <1>2. [live |-> live, epoch |-> party[p].epoch + 1] \in PartyType
    BY <1>1, OboAssumption DEF PartyType
  <1>3. party' = [party EXCEPT ![p] = [live |-> live, epoch |-> party[p].epoch + 1]]
    BY DEF Changed
  <1>4. party' \in [Parties -> PartyType]
    BY <1>2, <1>3 DEF TypeOK
  <1>5. Unused \in SUBSET Keys
    BY DEF Unused
  <1> QED BY <1>3, <1>4, <1>5 DEF Changed, TypeOK

\* The rows that sweeps, verification and the clock write are proofs again, and
\* differ in the written field only.
LEMMA ProofRow ==
    ASSUME NEW r \in ProofType, NEW s \in {"revoked", "consumed"}
    PROVE  /\ [r EXCEPT !.status = s] \in ProofType
           /\ [r EXCEPT !.status = s].status = s
           /\ [r EXCEPT !.status = s].parent = r.parent
           /\ [r EXCEPT !.status = s].epoch = r.epoch
  BY DEF ProofType

\* The clock leaves everything but the remaining life of a proof alone.
LEMMA OlderProof ==
    ASSUME NEW r \in ProofType, r.ttl > 0
    PROVE  /\ [r EXCEPT !.ttl = @ - 1] \in ProofType
           /\ [r EXCEPT !.ttl = @ - 1].status = r.status
           /\ [r EXCEPT !.ttl = @ - 1].parent = r.parent
           /\ [r EXCEPT !.ttl = @ - 1].epoch = r.epoch
  <1>1. r.ttl \in 0 .. ProofTtl
    BY DEF ProofType
  <1>2. r.ttl - 1 \in 0 .. ProofTtl
    BY <1>1, OboAssumption
  <1> QED BY <1>2 DEF ProofType

\* A revoked token is a token row again.
LEMMA RevokedToken ==
    ASSUME NEW r \in TokenType
    PROVE  /\ [r EXCEPT !.status = "revoked"] \in TokenType
           /\ [r EXCEPT !.status = "revoked"].status = "revoked"
  BY DEF TokenType

\* Every row of iam.obo_proofs, and every variable, keeps its shape.
LEMMA TypeStep ==
    ASSUME TypeOK, [Next]_vars
    PROVE  TypeOK'
  <1>1. CASE UNCHANGED vars
    BY <1>1 DEF TypeOK, Refers, vars
  <1>2. ASSUME NEW t \in Tokens, IssueToken(t)
        PROVE  TypeOK'
    <2>1. party["issuer"].epoch \in 0 .. MaxEpoch /\ party["subject"].epoch \in 0 .. MaxEpoch
      BY DEF TypeOK, PartyType, Parties, Applications
    <2>2. token'[t].status # "absent" /\ token' \in [Tokens -> TokenType]
      BY <1>2, <2>1 DEF IssueToken, TypeOK, TokenType
    <2>3. \A u \in Tokens : token[u].status # "absent" => token'[u].status # "absent"
      BY <1>2, <2>2 DEF IssueToken, TypeOK
    <2> QED BY <1>2, <2>2, <2>3 DEF IssueToken, TypeOK, Refers
  <1>3. ASSUME NEW t \in Tokens, RevokeAccessToken(t)
        PROVE  TypeOK'
    <2>1. token' = [token EXCEPT ![t] = [token[t] EXCEPT !.status = "revoked"]]
      BY <1>3 DEF RevokeAccessToken, TypeOK
    <2>2. /\ token' \in [Tokens -> TokenType]
          /\ \A u \in Tokens : token[u].status # "absent" => token'[u].status # "absent"
      BY <2>1, RevokedToken DEF TypeOK
    <2>3. {k \in Unused : proof[k].parent = t} \in SUBSET Keys
      BY DEF Unused
    <2> QED BY <1>3, <2>2, <2>3 DEF RevokeAccessToken, TypeOK, Refers
  <1>4. ASSUME NEW a \in Applications, SuspendApplication(a)
        PROVE  TypeOK'
    <2>1. /\ party' \in [Parties -> PartyType]
          /\ withdrawn' \in SUBSET Keys
      BY <1>4, ChangedParty DEF SuspendApplication, Parties
    <2>2. /\ token' \in [Tokens -> TokenType]
          /\ \A u \in Tokens : token[u].status # "absent" => token'[u].status # "absent"
      BY <1>4, RevokedToken DEF SuspendApplication, TypeOK
    <2>3. /\ proof' \in [Keys -> ProofType]
          /\ \A k \in Keys : /\ proof'[k].parent = proof[k].parent
                             /\ proof'[k].status # "absent" => proof[k].status # "absent"
      BY <1>4, ProofRow DEF SuspendApplication, TypeOK, Swept
    <2> QED BY <1>4, <2>1, <2>2, <2>3 DEF SuspendApplication, TypeOK, Refers
  <1>5. ASSUME NEW a \in Applications, ReactivateApplication(a)
        PROVE  TypeOK'
    <2>1. party' \in [Parties -> PartyType]
      BY <1>5 DEF ReactivateApplication, TypeOK, PartyType
    <2> QED BY <1>5, <2>1 DEF ReactivateApplication, TypeOK, Refers
  <1>6. ASSUME NEW p \in Parties, NEW live \in BOOLEAN, ChangeSubject(p, live)
        PROVE  TypeOK'
    <2>1. party' \in [Parties -> PartyType] /\ withdrawn' \in SUBSET Keys
      BY <1>6, ChangedParty DEF ChangeSubject
    <2> QED BY <1>6, <2>1 DEF ChangeSubject, TypeOK, Refers
  <1>7. ASSUME NEW live \in BOOLEAN, ReplaceOboEndpoint(live)
        PROVE  TypeOK'
    <2>1. party' \in [Parties -> PartyType] /\ withdrawn' \in SUBSET Keys
      BY <1>7, ChangedParty DEF ReplaceOboEndpoint, Parties
    <2> QED BY <1>7, <2>1 DEF ReplaceOboEndpoint, TypeOK, Refers
  <1>8. CASE BeginLogout
    BY <1>8 DEF BeginLogout, TypeOK, Refers, LogoutType
  <1>9. CASE FinishLogout
    <2>1. session' \in SessionType /\ logout' \in LogoutType
      BY <1>9 DEF FinishLogout, TypeOK, SessionType, LogoutType, NoLogout
    <2>2. /\ token' \in [Tokens -> TokenType]
          /\ \A u \in Tokens : token[u].status # "absent" => token'[u].status # "absent"
      BY <1>9, RevokedToken DEF FinishLogout, TypeOK
    <2>3. /\ proof' \in [Keys -> ProofType]
          /\ \A k \in Keys : /\ proof'[k].parent = proof[k].parent
                             /\ proof'[k].status # "absent" => proof[k].status # "absent"
      BY <1>9, ProofRow DEF FinishLogout, Unconflicted, TypeOK
    <2>4. withdrawn' \in SUBSET Keys
      BY <1>9 DEF FinishLogout, TypeOK, Unused
    <2> QED BY <1>9, <2>1, <2>2, <2>3, <2>4 DEF FinishLogout, TypeOK, Refers
  <1>10. CASE RollbackLogout
    BY <1>10 DEF RollbackLogout, TypeOK, Refers, authority, LogoutType, NoLogout
  <1>11. ASSUME NEW k \in Keys, BeginExchange(k)
         PROVE  TypeOK'
    <2>1. party["issuer"].epoch \in 0 .. MaxEpoch
      BY DEF TypeOK, PartyType, Parties, Applications
    <2> QED BY <1>11, <2>1 DEF BeginExchange, TypeOK, Refers, authority
  <1>12. ASSUME NEW k \in Keys, ReplayExchange(k) \/ DropExchange(k)
         PROVE  TypeOK'
    <2>1. 0 \in 0 .. MaxEpoch
      BY OboAssumption
    <2> QED BY <1>12, <2>1 DEF ReplayExchange, DropExchange, TypeOK, Refers, authority
  <1>13. ASSUME NEW k \in Keys, NEW t \in Tokens, ExchangeProof(k, t)
         PROVE  TypeOK'
    <2> DEFINE minted == [status |-> "issued", parent |-> t,
                       epoch |-> [p \in Parties |-> party[p].epoch], ttl |-> ProofTtl]
    <2>1. [p \in Parties |-> party[p].epoch] \in [Parties -> 0 .. MaxEpoch]
      BY DEF TypeOK, PartyType
    <2>2. minted \in ProofType /\ minted.parent = t
      BY <2>1, OboAssumption DEF ProofType
    <2>3. proof' = [proof EXCEPT ![k] = minted] /\ token' = token /\ task' = task
      BY <1>13 DEF ExchangeProof, authority
    <2>4. token[t].status # "absent"
      BY <1>13 DEF ExchangeProof, ExchangeAuthority, ParentActive
    <2> HIDE DEF minted
    <2>5. proof' \in [Keys -> ProofType] /\ Refers'
      BY <2>2, <2>3, <2>4 DEF TypeOK, Refers
    <2>6. client' \in [Keys -> 0 .. MaxEpoch]
      BY <1>13, OboAssumption DEF ExchangeProof, TypeOK
    <2> QED BY <1>13, <2>5, <2>6 DEF ExchangeProof, TypeOK, authority
  <1>14. ASSUME NEW v \in Verifiers, NEW k \in Keys, VerifyLookup(v, k)
         PROVE  TypeOK'
    <2>1. party["audience"].epoch \in 0 .. MaxEpoch
      BY DEF TypeOK, PartyType, Parties, Applications
    <2>2. task' \in [Verifiers -> TaskType]
      BY <1>14, <2>1 DEF VerifyLookup, TypeOK, TaskType
    <2>3. \A w \in Verifiers : task'[w].step # "idle" => task'[w].key \in Keys
      BY <1>14 DEF VerifyLookup, TypeOK, Refers
    <2> QED BY <1>14, <2>2, <2>3 DEF VerifyLookup, TypeOK, Refers, authority
  <1>15. ASSUME NEW v \in Verifiers, VerifyContext(v)
         PROVE  TypeOK'
    <2>1. task' \in [Verifiers -> TaskType]
      BY <1>15 DEF VerifyContext, TypeOK, TaskType
    <2>2. \A w \in Verifiers : task'[w].step # "idle" => task'[w].key \in Keys
      BY <1>15 DEF VerifyContext, TypeOK, TaskType, Refers
    <2> QED BY <1>15, <2>1, <2>2 DEF VerifyContext, TypeOK, Refers, authority
  <1>16. ASSUME NEW v \in Verifiers, VerifyConsume(v)
         PROVE  TypeOK'
    <2>1. task[v].key \in Keys
      BY <1>16 DEF VerifyConsume, TypeOK, Refers
    <2>2. task' \in [Verifiers -> TaskType]
      BY <1>16, OboAssumption DEF VerifyConsume, TypeOK, TaskType, Idle
    <2>3. \A w \in Verifiers : task'[w].step # "idle" => task'[w].key \in Keys
      BY <1>16 DEF VerifyConsume, TypeOK, Refers, Idle
    <2>4. /\ proof' = [proof EXCEPT ![task[v].key] = [proof[task[v].key] EXCEPT !.status = "consumed"]]
          /\ proof[task[v].key].status # "absent"
      BY <1>16 DEF VerifyConsume, Authorized, Live
    <2>5. /\ proof' \in [Keys -> ProofType]
          /\ \A k \in Keys : /\ proof'[k].parent = proof[k].parent
                             /\ proof'[k].status # "absent" => proof[k].status # "absent"
      BY <2>1, <2>4, ProofRow DEF TypeOK
    <2>6. uses' \in [Keys -> Nat]
      BY <1>16, <2>1 DEF VerifyConsume, TypeOK
    <2> QED BY SMTT(30), <1>16, <2>2, <2>3, <2>5, <2>6 DEF VerifyConsume, TypeOK, Refers, authority
  <1>17. ASSUME NEW v \in Verifiers, DropVerify(v)
         PROVE  TypeOK'
    <2>1. task' \in [Verifiers -> TaskType]
      BY <1>17, OboAssumption DEF DropVerify, TypeOK, TaskType, Idle
    <2>2. \A w \in Verifiers : task'[w].step # "idle" => task'[w].key \in Keys
      BY <1>17 DEF DropVerify, TypeOK, Refers, Idle
    <2> QED BY <1>17, <2>1, <2>2 DEF DropVerify, TypeOK, Refers, authority
  <1>18. CASE Tick
    <2>1. /\ proof' \in [Keys -> ProofType]
          /\ \A k \in Keys : /\ proof'[k].parent = proof[k].parent
                             /\ proof'[k].status = proof[k].status
      BY <1>18, OlderProof DEF Tick, TypeOK
    <2> QED BY <1>18, <2>1 DEF Tick, TypeOK, Refers, authority
  <1> QED BY <1>1, <1>2, <1>3, <1>4, <1>5, <1>6, <1>7, <1>8, <1>9, <1>10, <1>11,
             <1>12, <1>13, <1>14, <1>15, <1>16, <1>17, <1>18 DEF Next

\* Init builds rows of the declared shape.
LEMMA TypeInit == Init => TypeOK
  <1> SUFFICES ASSUME Init PROVE TypeOK
    OBVIOUS
  <1>1. party \in [Parties -> PartyType] /\ session \in SessionType
    BY OboAssumption DEF Init, PartyType, SessionType
  <1>2. token \in [Tokens -> TokenType]
    BY OboAssumption DEF Init, TokenType, NoToken
  <1>3. proof \in [Keys -> ProofType]
    BY OboAssumption DEF Init, ProofType, NoProof
  <1>4. task \in [Verifiers -> TaskType] /\ logout \in LogoutType
    BY OboAssumption DEF Init, TaskType, Idle, LogoutType, NoLogout
  <1>5. Refers
    BY DEF Init, Refers, Idle, NoProof
  <1> QED BY <1>1, <1>2, <1>3, <1>4, <1>5, OboAssumption DEF Init, TypeOK

\* The rows and variables of the proof protocol always have their declared shape,
\* and a proof or a verification never refers to a row that is not there.
THEOREM OboTypeCorrect == Spec => []TypeOK
  <1>1. TypeOK /\ [Next]_vars => TypeOK'
    BY TypeStep
  <1> QED BY <1>1, TypeInit, PTL DEF Spec

----------------------------------------------------------------------------
(* No use after a withdrawal *)

\* The chain recorded in a proof is never ahead of the chain as it is.
EpochsPast ==
    \A k \in Keys : proof[k].status # "absent" =>
        \A p \in Parties : proof[k].epoch[p] <= party[p].epoch

\* What keeps a proof from being consumed, for good.
Dead(k) ==
    \/ proof[k].status = "revoked"
    \/ /\ proof[k].status = "issued"
       /\ \/ session.status = "revoked"
          \/ token[proof[k].parent].status = "revoked"
          \/ \E p \in Parties : proof[k].epoch[p] < party[p].epoch

WithdrawnDead == \A k \in withdrawn : Dead(k)

UseInv == TypeOK /\ EpochsPast /\ WithdrawnDead

\* The locking read of verify refuses a dead proof.
LEMMA DeadRefused ==
    ASSUME TypeOK, NEW k \in Keys, Dead(k), NEW e
    PROVE  ~ Authorized(k, e)
  <1> SUFFICES ASSUME Authorized(k, e) PROVE FALSE
    OBVIOUS
  <1>1. proof[k].status = "issued" /\ session.status = "active"
    BY DEF Authorized, Live, Chain, ParentActive
  <1>2. token[proof[k].parent].status = "live"
    BY DEF Authorized, Chain, ParentActive
  <1>3. \A p \in Parties : party[p].epoch = proof[k].epoch[p]
    BY DEF Authorized, Chain
  <1>4. \A p \in Parties : party[p].epoch \in Nat
    BY DEF TypeOK, PartyType
  <1>5. PICK p \in Parties : proof[k].epoch[p] < party[p].epoch
    BY <1>1, <1>2 DEF Dead
  <1> QED BY <1>3, <1>4, <1>5

\* What a step does to the rows of authority that Dead and EpochsPast look at: a
\* revoked token or session stays revoked and no epoch ever decreases.
LEMMA AuthorityOnlyFalls ==
    ASSUME TypeOK, [Next]_vars
    PROVE  /\ session.status = "revoked" => session'.status = "revoked"
           /\ \A t \in Tokens : token[t].status = "revoked" => token'[t].status = "revoked"
           /\ \A p \in Parties : party[p].epoch <= party'[p].epoch
  <1> DEFINE Falls ==
           /\ session.status = "revoked" => session'.status = "revoked"
           /\ \A t \in Tokens : token[t].status = "revoked" => token'[t].status = "revoked"
           /\ \A p \in Parties : party[p].epoch <= party'[p].epoch
  <1> SUFFICES Falls
    OBVIOUS
  <1>0. \A p \in Parties : party[p].epoch \in Nat
    BY DEF TypeOK, PartyType
  <1>a. ASSUME NEW p \in Parties, NEW live \in BOOLEAN, Changed(p, live)
        PROVE  \A q \in Parties : party[q].epoch <= party'[q].epoch
    <2>1. party' = [party EXCEPT ![p] = [live |-> live, epoch |-> party[p].epoch + 1]]
      BY <1>a, ChangedParty
    <2>2. ASSUME NEW q \in Parties PROVE party[q].epoch <= party'[q].epoch
      <3>1. CASE q = p
        BY <2>1, <3>1, <1>0 DEF TypeOK
      <3>2. CASE q # p
        BY <2>1, <3>2, <1>0 DEF TypeOK
      <3> QED BY <3>1, <3>2
    <2> QED BY <2>2
  <1>1. CASE UNCHANGED authority
    BY <1>0, <1>1 DEF authority
  <1>2. ASSUME NEW t \in Tokens, IssueToken(t) PROVE Falls
    BY <1>0, <1>2 DEF IssueToken, TypeOK
  <1>3. ASSUME NEW t \in Tokens, RevokeAccessToken(t) PROVE Falls
    <2>1. token' = [token EXCEPT ![t] = [token[t] EXCEPT !.status = "revoked"]]
      BY <1>3 DEF RevokeAccessToken
    <2>2. \A u \in Tokens : token[u].status = "revoked" => token'[u].status = "revoked"
      BY <2>1, RevokedToken DEF TypeOK
    <2> QED BY <1>0, <1>3, <2>2 DEF RevokeAccessToken
  <1>4. ASSUME NEW a \in Applications, SuspendApplication(a) PROVE Falls
    <2>1. \A p \in Parties : party[p].epoch <= party'[p].epoch
      BY <1>4, <1>a DEF SuspendApplication, Parties
    <2>2. \A u \in Tokens : token[u].status = "revoked" => token'[u].status = "revoked"
      BY <1>4, RevokedToken DEF SuspendApplication, TypeOK
    <2> QED BY <1>4, <2>1, <2>2 DEF SuspendApplication
  <1>5. ASSUME NEW a \in Applications, ReactivateApplication(a) PROVE Falls
    <2>1. \A p \in Parties : party'[p].epoch = party[p].epoch
      BY <1>5 DEF ReactivateApplication, TypeOK, PartyType
    <2> QED BY <1>0, <1>5, <2>1 DEF ReactivateApplication
  <1>6. ASSUME NEW p \in Parties, NEW live \in BOOLEAN, ChangeSubject(p, live) PROVE Falls
    BY <1>6, <1>a DEF ChangeSubject
  <1>7. ASSUME NEW live \in BOOLEAN, ReplaceOboEndpoint(live) PROVE Falls
    BY <1>7, <1>a DEF ReplaceOboEndpoint, Parties
  <1>8. CASE FinishLogout
    <2>1. \A u \in Tokens : token[u].status = "revoked" => token'[u].status = "revoked"
      BY <1>8, RevokedToken DEF FinishLogout, TypeOK
    <2>2. session'.status = "revoked"
      BY <1>8 DEF FinishLogout, TypeOK, SessionType
    <2> QED BY <1>0, <1>8, <2>1, <2>2 DEF FinishLogout
  <1>9. CASE BeginLogout
    BY <1>9, <1>1 DEF BeginLogout, authority
  <1> HIDE DEF Falls
  <1> QED
    BY <1>1, <1>2, <1>3, <1>4, <1>5, <1>6, <1>7, <1>8, <1>9
       DEF Next, vars, authority, RollbackLogout, BeginExchange, ReplayExchange,
           DropExchange, ExchangeProof, VerifyLookup, VerifyContext, VerifyConsume,
           DropVerify, Tick

\* The four things a step may do to a row of iam.obo_proofs.
Kept(k) ==
    /\ proof'[k].status = proof[k].status
    /\ proof'[k].parent = proof[k].parent
    /\ proof'[k].epoch = proof[k].epoch
Revoked(k) == proof[k].status = "issued" /\ proof'[k].status = "revoked"
              /\ proof'[k].epoch = proof[k].epoch
ConsumedBy(k) == /\ \E v \in Verifiers : VerifyConsume(v) /\ Authorized(k, task[v].epoch)
               /\ proof'[k].status = "consumed"
               /\ proof'[k].epoch = proof[k].epoch
Issued(k) ==
    /\ proof[k].status = "absent" /\ proof'[k].status = "issued"
    /\ \A p \in Parties : proof'[k].epoch[p] = party[p].epoch
    /\ UNCHANGED <<authority, withdrawn>>

\* A step of the protocol does one of four things to a proof: nothing that matters
\* here, issue it with the current epochs, revoke it, or consume it when authorized.
LEMMA ProofSteps ==
    ASSUME TypeOK, [Next]_vars, NEW k \in Keys
    PROVE  Kept(k) \/ Revoked(k) \/ ConsumedBy(k) \/ Issued(k)
  <1> DEFINE Goal == Kept(k) \/ Revoked(k) \/ ConsumedBy(k) \/ Issued(k)
  <1> SUFFICES Goal
    OBVIOUS
  <1>0. proof[k] \in ProofType
    BY DEF TypeOK
  <1>1. CASE UNCHANGED proof
    BY <1>1 DEF Kept
  <1>2. ASSUME NEW a \in Applications, SuspendApplication(a) PROVE Goal
    <2>1. CASE proof[k].status = "issued"
      <3>1. proof'[k] = [proof[k] EXCEPT !.status = "revoked"]
        BY <1>2, <2>1 DEF SuspendApplication, Swept
      <3> QED BY <3>1, <2>1, <1>0, ProofRow DEF Revoked
    <2>2. CASE proof[k].status # "issued"
      BY <1>2, <2>2 DEF SuspendApplication, Swept, Kept
    <2> QED BY <2>1, <2>2
  <1>3. CASE FinishLogout
    <2>1. CASE k \in logout.proofs
      <3>1. proof'[k] = [proof[k] EXCEPT !.status = "revoked"] /\ proof[k].status = "issued"
        BY <1>3, <2>1 DEF FinishLogout, Unconflicted
      <3> QED BY <3>1, <1>0, ProofRow DEF Revoked
    <2>2. CASE k \notin logout.proofs
      BY <1>3, <2>2 DEF FinishLogout, Kept
    <2> QED BY <2>1, <2>2
  <1>4. ASSUME NEW j \in Keys, NEW t \in Tokens, ExchangeProof(j, t) PROVE Goal
    <2>1. CASE k = j
      <3>1. proof'[k] = [status |-> "issued", parent |-> t,
                         epoch |-> [p \in Parties |-> party[p].epoch], ttl |-> ProofTtl]
        BY <1>4, <2>1 DEF ExchangeProof, TypeOK
      <3>2. proof[k].status = "absent" /\ UNCHANGED <<authority, withdrawn>>
        BY <1>4, <2>1 DEF ExchangeProof
      <3> QED BY <3>1, <3>2 DEF Issued
    <2>2. CASE k # j
      BY <1>4, <2>2 DEF ExchangeProof, TypeOK, Kept
    <2> QED BY <2>1, <2>2
  <1>5. ASSUME NEW v \in Verifiers, VerifyConsume(v) PROVE Goal
    <2>1. CASE k = task[v].key
      <3>1. proof'[k] = [proof[k] EXCEPT !.status = "consumed"]
        BY <1>5, <2>1 DEF VerifyConsume, TypeOK
      <3>2. Authorized(k, task[v].epoch)
        BY <1>5, <2>1 DEF VerifyConsume
      <3> QED BY <3>1, <3>2, <1>0, <1>5, ProofRow DEF ConsumedBy
    <2>2. CASE k # task[v].key
      BY <1>5, <2>2 DEF VerifyConsume, TypeOK, Kept
    <2> QED BY <2>1, <2>2
  <1>6. CASE Tick
    BY <1>6, <1>0, OlderProof DEF Tick, Kept
  <1> HIDE DEF Goal
  <1> QED
    BY <1>1, <1>2, <1>3, <1>4, <1>5, <1>6
       DEF Next, vars, IssueToken, RevokeAccessToken, ReactivateApplication,
           ChangeSubject, ReplaceOboEndpoint, BeginLogout, RollbackLogout,
           BeginExchange, ReplayExchange, DropExchange, VerifyLookup, VerifyContext,
           DropVerify

\* A proof that a step adds to the withdrawn ones is dead after it.
LEMMA WithdrawalKills ==
    ASSUME TypeOK, TypeOK', EpochsPast, [Next]_vars,
           NEW k \in withdrawn', k \notin withdrawn
    PROVE  Dead(k)'
  <1>0. k \in Keys /\ proof[k] \in ProofType
    BY DEF TypeOK
  <1>a. ASSUME k \in Unused
        PROVE  /\ proof[k].status \in {"issued", "revoked"}
               /\ proof[k].parent \in Tokens
               /\ \A p \in Parties : proof[k].epoch[p] <= party[p].epoch
    BY <1>0, <1>a DEF Unused, TypeOK, Refers, EpochsPast
  <1>b. ASSUME NEW p \in Parties, NEW live \in BOOLEAN, Changed(p, live),
               proof'[k].status \in {"issued", "revoked"},
               proof'[k].epoch = proof[k].epoch
        PROVE  Dead(k)'
    <2>1. party' = [party EXCEPT ![p] = [live |-> live, epoch |-> party[p].epoch + 1]]
          /\ withdrawn' = withdrawn \cup Unused
      BY <1>b, ChangedParty
    <2>2. party'[p].epoch = party[p].epoch + 1
      BY <2>1 DEF TypeOK
    <2>3. k \in Unused
      BY <2>1
    <2>4. proof[k].epoch[p] <= party[p].epoch /\ proof[k].epoch[p] \in Nat /\ party[p].epoch \in Nat
      BY <2>3, <1>a, <1>0 DEF TypeOK, PartyType, ProofType
    <2>5. proof'[k].epoch[p] < party'[p].epoch
      BY <1>b, <2>2, <2>4
    <2> QED BY <1>b, <2>5 DEF Dead
  <1>1. ASSUME NEW t \in Tokens, RevokeAccessToken(t) PROVE Dead(k)'
    <2>1. k \in Unused /\ proof[k].parent = t /\ UNCHANGED proof
      BY <1>1 DEF RevokeAccessToken
    <2>2. token' = [token EXCEPT ![t] = [token[t] EXCEPT !.status = "revoked"]]
      BY <1>1 DEF RevokeAccessToken
    <2>3. token'[t].status = "revoked"
      BY <2>2, RevokedToken DEF TypeOK
    <2> QED BY <1>a, <2>1, <2>3 DEF Dead
  <1>2. ASSUME NEW a \in Applications, SuspendApplication(a) PROVE Dead(k)'
    <2>1. k \in Unused
      BY <1>2 DEF SuspendApplication, Changed
    <2>2. proof'[k].status = "revoked"
      BY <1>2, <1>0, <1>a, <2>1, ProofRow DEF SuspendApplication, Swept
    <2> QED BY <2>2 DEF Dead
  <1>3. ASSUME NEW p \in Parties, NEW live \in BOOLEAN, ChangeSubject(p, live) PROVE Dead(k)'
    <2>1. Changed(p, live) /\ UNCHANGED proof
      BY <1>3 DEF ChangeSubject
    <2>2. k \in Unused
      BY <2>1 DEF Changed
    <2> QED BY <2>1, <2>2, <1>a, <1>b
  <1>4. ASSUME NEW live \in BOOLEAN, ReplaceOboEndpoint(live) PROVE Dead(k)'
    <2>1. Changed("endpoint", live) /\ UNCHANGED proof /\ "endpoint" \in Parties
      BY <1>4 DEF ReplaceOboEndpoint, Parties
    <2>2. k \in Unused
      BY <2>1 DEF Changed
    <2> QED BY <2>1, <2>2, <1>a, <1>b
  <1>5. CASE FinishLogout
    <2>1. k \in Unused
      BY <1>5 DEF FinishLogout
    <2>2. proof'[k].status \in {"issued", "revoked"}
      BY <1>5, <1>0, <1>a, <2>1, ProofRow DEF FinishLogout
    <2>3. session'.status = "revoked"
      BY <1>5 DEF FinishLogout, TypeOK, SessionType
    <2> QED BY <2>2, <2>3 DEF Dead
  <1>6. ~ UNCHANGED withdrawn
    OBVIOUS
  <1> QED
    BY <1>1, <1>2, <1>3, <1>4, <1>5, <1>6
       DEF Next, vars, IssueToken, ReactivateApplication, BeginLogout, RollbackLogout,
           BeginExchange, ReplayExchange, DropExchange, ExchangeProof, VerifyLookup,
           VerifyContext, VerifyConsume, DropVerify, Tick

\* The strengthening is inductive.
LEMMA UseStep ==
    ASSUME UseInv, [Next]_vars
    PROVE  UseInv'
  <1>1. TypeOK /\ EpochsPast /\ WithdrawnDead
    BY DEF UseInv
  <1>2. TypeOK'
    BY <1>1, TypeStep
  <1>3. /\ session.status = "revoked" => session'.status = "revoked"
        /\ \A t \in Tokens : token[t].status = "revoked" => token'[t].status = "revoked"
        /\ \A p \in Parties : party[p].epoch <= party'[p].epoch
    BY <1>1, AuthorityOnlyFalls
  <1>4. /\ \A p \in Parties : party[p].epoch \in Nat /\ party'[p].epoch \in Nat
        /\ \A k \in Keys, p \in Parties :
             proof[k].epoch[p] \in Nat /\ proof'[k].epoch[p] \in Nat
    BY <1>1, <1>2 DEF TypeOK, PartyType, ProofType
  <1>5. EpochsPast'
    <2> SUFFICES ASSUME NEW k \in Keys, proof'[k].status # "absent", NEW p \in Parties
                 PROVE  proof'[k].epoch[p] <= party'[p].epoch
      BY DEF EpochsPast
    <2>1. CASE proof[k].status # "absent" /\ proof'[k].epoch = proof[k].epoch
      BY <1>1, <1>3, <1>4, <2>1 DEF EpochsPast
    <2>2. CASE Issued(k)
      BY <1>4, <2>2 DEF Issued, authority
    <2> QED BY <1>1, <2>1, <2>2, ProofSteps DEF Kept, Revoked, ConsumedBy, Authorized, Live
  <1>6. ASSUME NEW k \in withdrawn, k \in withdrawn' PROVE Dead(k)'
    <2>1. Dead(k) /\ k \in Keys /\ proof[k].status # "absent"
      BY <1>1 DEF WithdrawnDead, TypeOK, Dead
    <2>2. proof[k].parent \in Tokens
      BY <1>1, <2>1 DEF TypeOK, Refers
    <2>3. CASE Kept(k)
      <3>1. CASE proof[k].status = "revoked"
        BY <2>3, <3>1 DEF Kept, Dead
      <3>2. CASE session.status = "revoked" \/ token[proof[k].parent].status = "revoked"
        BY <1>3, <2>1, <2>2, <2>3, <3>2 DEF Kept, Dead
      <3>3. ASSUME NEW p \in Parties, proof[k].epoch[p] < party[p].epoch PROVE Dead(k)'
        <4>1. proof'[k].epoch[p] < party'[p].epoch
          BY <1>3, <1>4, <2>1, <2>3, <3>3 DEF Kept
        <4> QED BY <2>1, <2>3, <4>1 DEF Kept, Dead
      <3> QED BY <2>1, <3>1, <3>2, <3>3 DEF Dead
    <2>4. CASE Revoked(k)
      BY <2>4 DEF Revoked, Dead
    <2>5. CASE ConsumedBy(k)
      BY <1>1, <2>1, <2>5, DeadRefused DEF ConsumedBy
    <2> QED BY <1>1, <2>1, <2>3, <2>4, <2>5, ProofSteps DEF Issued
  <1>7. WithdrawnDead'
    BY <1>1, <1>2, <1>6, WithdrawalKills DEF WithdrawnDead
  <1> QED BY <1>2, <1>5, <1>7 DEF UseInv

\* No verification accepts a proof whose chain of authority was changed after the
\* proof was issued, whatever happens between the statements of verify and however
\* much of the chain is restored.
THEOREM NoUseAfterWithdrawalHolds == Spec => []NoUseAfterWithdrawal
  <1>1. Init => UseInv
    BY TypeInit DEF Init, UseInv, EpochsPast, WithdrawnDead, NoProof
  <1>2. UseInv /\ [Next]_vars => UseInv'
    BY UseStep
  <1>3. UseInv => NoUseAfterWithdrawal
    BY DEF UseInv, WithdrawnDead, Dead, NoUseAfterWithdrawal
  <1> QED BY <1>1, <1>2, <1>3, PTL DEF Spec

----------------------------------------------------------------------------
(* One use, one outcome *)

\* A proof has been accepted once exactly when its row says so.
UsesMatch ==
    \A k \in Keys : uses[k] = IF proof[k].status = "consumed" THEN 1 ELSE 0

\* However many verifications run at once, a proof is accepted at most once.
THEOREM ConsumedOnceHolds == Spec => []ConsumedOnce
  <1>1. Init => UsesMatch
    BY DEF Init, UsesMatch, NoProof
  <1>2. ASSUME TypeOK, UsesMatch, [Next]_vars PROVE UsesMatch'
    <2>1. ASSUME NEW v \in Verifiers, VerifyConsume(v), NEW k \in Keys
          PROVE  uses'[k] = IF proof'[k].status = "consumed" THEN 1 ELSE 0
      <3>1. CASE k = task[v].key
        <4>1. proof[k].status = "issued" /\ uses[k] = 0
          BY <1>2, <2>1, <3>1 DEF VerifyConsume, Authorized, Live, UsesMatch
        <4>2. proof'[k] = [proof[k] EXCEPT !.status = "consumed"] /\ uses'[k] = uses[k] + 1
          BY <1>2, <2>1, <3>1 DEF VerifyConsume, TypeOK
        <4>3. proof'[k].status = "consumed"
          BY <1>2, <4>2, ProofRow DEF TypeOK
        <4> QED BY <4>1, <4>2, <4>3
      <3>2. CASE k # task[v].key
        BY <1>2, <2>1, <3>2 DEF VerifyConsume, TypeOK, UsesMatch
      <3> QED BY <3>1, <3>2
    <2>2. ASSUME UNCHANGED uses, ~ \E v \in Verifiers : VerifyConsume(v), NEW k \in Keys
          PROVE  uses'[k] = IF proof'[k].status = "consumed" THEN 1 ELSE 0
      BY <1>2, <2>2, ProofSteps DEF Kept, Revoked, ConsumedBy, Issued, UsesMatch
    <2>3. UNCHANGED uses \/ \E v \in Verifiers : VerifyConsume(v)
      BY <1>2 DEF Next, vars, IssueToken, RevokeAccessToken, SuspendApplication,
           ReactivateApplication, ChangeSubject, ReplaceOboEndpoint, BeginLogout,
           FinishLogout, RollbackLogout, BeginExchange, ReplayExchange, DropExchange,
           ExchangeProof, VerifyLookup, VerifyContext, DropVerify, Tick
    <2> QED BY <2>1, <2>2, <2>3 DEF UsesMatch
  <1>3. UsesMatch => ConsumedOnce
    BY DEF UsesMatch, ConsumedOnce
  <1> QED BY <1>1, <1>2, <1>3, OboTypeCorrect, PTL DEF Spec

\* A proof that was consumed or revoked stays so: a logout that took its snapshot
\* before the verification does not overwrite the outcome.
THEOREM OutcomeFinalHolds == Spec => OutcomeFinal
  <1>1. ASSUME TypeOK, [Next]_vars
        PROVE  \A k \in Keys : proof[k].status \in {"consumed", "revoked"} =>
                 proof'[k].status = proof[k].status
    BY <1>1, ProofSteps DEF Kept, Revoked, ConsumedBy, Issued, Authorized, Live
  <1>2. TypeOK /\ [Next]_vars =>
          [\A k \in Keys : proof[k].status \in {"consumed", "revoked"} =>
             proof'[k].status = proof[k].status]_vars
    BY <1>1
  <1> QED BY <1>2, OboTypeCorrect, PTL DEF Spec, OutcomeFinal

\* A retried exchange is never answered with a proof that is used up, expired or
\* withdrawn.
THEOREM ReplayLiveHolds == Spec => ReplayLive
  <1> DEFINE Worth(k) == /\ proof[k].status = "issued" /\ proof[k].ttl > 0
                         /\ k \notin withdrawn
  <1>1. Init => UseInv
    BY TypeInit DEF Init, UseInv, EpochsPast, WithdrawnDead, NoProof
  <1>2. UseInv /\ [Next]_vars => UseInv'
    BY UseStep
  <1>3. ASSUME UseInv, [Next]_vars
        PROVE  \A k \in replayed' \ replayed : Worth(k)
    <2>1. ASSUME NEW j \in Keys, ReplayExchange(j) PROVE Worth(j)
      <3>1. Live(j) /\ Authorized(j, party["audience"].epoch)
        BY <2>1 DEF ReplayExchange, ReplayIsLive, Authorized
      <3>2. ~ Dead(j)
        BY <1>3, <3>1, DeadRefused DEF UseInv
      <3> QED BY <1>3, <3>1, <3>2 DEF UseInv, WithdrawnDead, Live
    <2>2. ASSUME NEW j \in Keys, ReplayExchange(j)
          PROVE  replayed' \ replayed \subseteq {j}
      BY <2>2 DEF ReplayExchange
    <2>3. UNCHANGED replayed \/ \E j \in Keys : ReplayExchange(j)
      BY <1>3 DEF Next, vars, IssueToken, RevokeAccessToken, SuspendApplication,
           ReactivateApplication, ChangeSubject, ReplaceOboEndpoint, BeginLogout,
           FinishLogout, RollbackLogout, BeginExchange, DropExchange, ExchangeProof,
           VerifyLookup, VerifyContext, VerifyConsume, DropVerify, Tick
    <2> HIDE DEF Worth
    <2> QED BY <2>1, <2>2, <2>3
  <1>4. UseInv /\ [Next]_vars => [\A k \in replayed' \ replayed : Worth(k)]_vars
    BY <1>3
  <1> QED BY <1>1, <1>2, <1>4, PTL DEF Spec, ReplayLive

\* Proofs are consumed once, end for good and answer nobody after their authority is
\* withdrawn, however requests, logouts, suspensions and expiry interleave.
THEOREM OboSoundHolds == Spec => OboSound
  BY OboTypeCorrect, ConsumedOnceHolds, NoUseAfterWithdrawalHolds, ReplayLiveHolds,
     OutcomeFinalHolds, PTL DEF OboSound

----------------------------------------------------------------------------
(* SiliconRotation *)

\* An active credential belongs to a live silicon, and before its creation a
\* silicon has no credential.
ActiveLive ==
    /\ silicon.epoch = 0 =>
         ~silicon.live /\ \A c \in Credentials : credential[c] = "absent"
    /\ \A c \in Credentials : credential[c] = "active" => silicon.live

\* A snapshot is never from the future, and one that is current names a
\* credential that is still active.
LoginsCurrent ==
    \A l \in Logins :
        /\ login[l].epoch <= silicon.epoch
        /\ login[l] # NoLogin /\ login[l].epoch = silicon.epoch =>
             /\ login[l].credential \in Credentials
             /\ credential[login[l].credential] = "active"

\* What a request in flight, or on file, wants to rotate has been issued.
TargetsIssued ==
    \A r \in Requests :
        /\ requester[r].step # "idle" =>
             /\ requester[r].target \in Credentials
             /\ credential[requester[r].target] # "absent"
             /\ rotation[r].status = "absent"
        /\ rotation[r].status # "absent" =>
             /\ rotation[r].previous \in Credentials
             /\ credential[rotation[r].previous] # "absent"

\* A replacement exists only when its request was applied, and the credential of
\* an approved request is retired for good.
Replacements ==
    \A r \in Requests :
        /\ rotation[r].status # "applied" => credential[r] = "absent"
        /\ rotation[r].status = "approved" =>
             credential[rotation[r].previous] = "retired"

\* At most one credential is active.
OneActive ==
    \A c, d \in Credentials :
        credential[c] = "active" /\ credential[d] = "active" => c = d

\* The session part of the invariant, with the credential it names.
SessionsKnown ==
    \A l \in Logins : siliconSession[l].status = "active" =>
        siliconSession[l].credential \in Credentials

RotationInv ==
    /\ RotationTypeOK
    /\ ActiveLive
    /\ LoginsCurrent
    /\ TargetsIssued
    /\ Replacements
    /\ OneActive
    /\ SessionsKnown
    /\ ActiveSessionCurrent

\* Retiring credentials makes none active or absent, and leaves none of them active.
LEMMA RetireFacts ==
    ASSUME RotationTypeOK, NEW cs
    PROVE  /\ Retire(cs) \in [Credentials -> {"absent", "active", "retired"}]
           /\ \A c \in Credentials :
                /\ Retire(cs)[c] = "absent" <=> credential[c] = "absent"
                /\ credential[c] = "retired" => Retire(cs)[c] = "retired"
                /\ Retire(cs)[c] = "active" => credential[c] = "active" /\ c \notin cs
                /\ credential[c] = "active" /\ c \notin cs => Retire(cs)[c] = "active"
  BY DEF RotationTypeOK, Retire

\* After revoke_silicon_sessions no session is active.
LEMMA RevokedFacts ==
    ASSUME RotationTypeOK
    PROVE  /\ RevokedSessions \in [Logins ->
                [status : {"absent", "active", "revoked"},
                 credential : Credentials \cup {"none"}, epoch : Nat]]
           /\ \A l \in Logins : RevokedSessions[l].status # "active"
  BY DEF RotationTypeOK, RevokedSessions

RotationStatus == {"absent", "pending", "rejected", "approved", "applied"}

\* Changing the status of one request changes nothing else about requests.
LEMMA StatusRow ==
    ASSUME RotationTypeOK, NEW r \in Requests, NEW s \in RotationStatus,
           rotation' = [rotation EXCEPT ![r].status = s]
    PROVE  /\ rotation' \in [Requests ->
                [status : RotationStatus, previous : Credentials \cup {"none"}]]
           /\ rotation'[r].status = s
           /\ \A q \in Requests :
                /\ rotation'[q].previous = rotation[q].previous
                /\ q # r => rotation'[q] = rotation[q]
  BY DEF RotationTypeOK, RotationStatus

\* The invariant holds before the silicon exists.
LEMMA InitInv == RotationInit => RotationInv
  BY RotationAssumption
  DEF RotationInit, RotationInv, RotationTypeOK, ActiveLive, LoginsCurrent, TargetsIssued,
      Replacements, OneActive, SessionsKnown, ActiveSessionCurrent, NoRotation,
      IdleRequester, NoLogin, NoSession, Credentials

\* Steps that touch neither the silicon nor a credential: requests and decisions
\* on paper.
LEMMA PaperSteps ==
    ASSUME RotationInv, NEW r \in Requests,
           FetchTarget(r) \/ CheckPending(r) \/ InsertRequest(r)
             \/ AbandonRequest(r) \/ RejectRotation(r)
    PROVE  RotationInv'
<1> USE DEF RotationInv, RotationTypeOK, TargetsIssued, Replacements, IdleRequester
<1>1. UNCHANGED <<silicon, credential, login, siliconSession>>
  BY DEF FetchTarget, CheckPending, InsertRequest, AbandonRequest, RejectRotation
<1>2. RotationTypeOK'
  <2>1. CASE RejectRotation(r)
    BY SMTT(30), <2>1, <1>1, StatusRow DEF RejectRotation, RotationStatus
  <2>2. CASE FetchTarget(r) BY <2>2 DEF FetchTarget, Active
  <2>3. CASE CheckPending(r)
    <3>1. [requester[r] EXCEPT !.step = "checked"] \in
            [step : {"idle", "target", "checked"}, target : Credentials \cup {"none"}]
      OBVIOUS
    <3>2. QED BY <2>3, <3>1 DEF CheckPending
  <2>4. CASE InsertRequest(r) BY <2>4 DEF InsertRequest
  <2>5. CASE AbandonRequest(r) BY <2>5 DEF AbandonRequest
  <2>6. QED BY <2>1, <2>2, <2>3, <2>4, <2>5
<1>3. /\ ActiveLive' /\ LoginsCurrent' /\ OneActive'
      /\ SessionsKnown' /\ ActiveSessionCurrent'
  BY <1>1 DEF ActiveLive, LoginsCurrent, OneActive, SessionsKnown,
              ActiveSessionCurrent
<1>4. TargetsIssued'
  BY DEF FetchTarget, CheckPending, InsertRequest, AbandonRequest,
         RejectRotation, Active
<1>5. Replacements'
  <2>1. CASE RejectRotation(r)
    BY <2>1, StatusRow DEF RejectRotation, RotationStatus
  <2>2. CASE FetchTarget(r) BY <2>2 DEF FetchTarget
  <2>3. CASE CheckPending(r) BY <2>3 DEF CheckPending
  <2>4. CASE InsertRequest(r)
    <3>1. credential[r] = "absent"
      BY <2>4, <1>2 DEF InsertRequest
    <3>2. QED BY <2>4, <3>1 DEF InsertRequest
  <2>5. CASE AbandonRequest(r) BY <2>5 DEF AbandonRequest
  <2>6. QED BY <2>1, <2>2, <2>3, <2>4, <2>5
<1>6. QED BY <1>2, <1>3, <1>4, <1>5

\* A step that moves the epoch and ends every session leaves nothing current.
LEMMA Invalidated ==
    ASSUME RotationInv, NEW live \in BOOLEAN, Invalidate(live), UNCHANGED login
    PROVE  /\ silicon' \in [live : BOOLEAN, epoch : Nat]
           /\ siliconSession' \in [Logins ->
                [status : {"absent", "active", "revoked"},
                 credential : Credentials \cup {"none"}, epoch : Nat]]
           /\ LoginsCurrent' /\ SessionsKnown' /\ ActiveSessionCurrent'
           /\ silicon'.epoch # 0 /\ silicon'.live = live
<1>1. silicon' = [live |-> live, epoch |-> silicon.epoch + 1]
  BY DEF Invalidate
<1>2. silicon.epoch \in Nat
  BY DEF RotationInv, RotationTypeOK
<1>3. \A l \in Logins : siliconSession'[l].status # "active"
  BY RevokedFacts DEF Invalidate, RotationInv
<1>4. \A l \in Logins : login'[l].epoch \in Nat /\ login'[l].epoch < silicon'.epoch
  BY <1>1, <1>2 DEF RotationInv, RotationTypeOK, LoginsCurrent
<1>5. LoginsCurrent'
  BY <1>1, <1>2, <1>4 DEF LoginsCurrent
<1>6. SessionsKnown' /\ ActiveSessionCurrent'
  BY <1>3 DEF SessionsKnown, ActiveSessionCurrent
<1>7. QED BY <1>1, <1>2, <1>5, <1>6, RevokedFacts DEF Invalidate, RotationInv

\* A completion finds no active credential: the one to be replaced was retired by
\* the approval, and the index refuses the replacement next to any other.
LEMMA NothingActive ==
    ASSUME RotationInv, NEW r \in Requests, CompleteRotation(r)
    PROVE  \A c \in Credentials : credential[c] # "active"
  BY DEF CompleteRotation, SlotFree, Active, RotationInv, Replacements

\* The steps that change credentials.
LEMMA CredentialSteps ==
    ASSUME RotationInv,
           \/ RemoveSilicon
           \/ \E r \in Requests : ApproveRotation(r) \/ CompleteRotation(r)
    PROVE  RotationInv'
<1> USE DEF RotationInv
<1>1. CASE RemoveSilicon
  <2>1. /\ credential' = Retire(Credentials) /\ Invalidate(FALSE)
        /\ UNCHANGED <<rotation, requester, login>>
    BY <1>1 DEF RemoveSilicon
  <2>2. RotationTypeOK' BY <2>1, RetireFacts, Invalidated DEF RotationTypeOK
  <2>3. ActiveLive' BY <2>1, RetireFacts, Invalidated DEF ActiveLive
  <2>4. TargetsIssued' BY <2>1, RetireFacts DEF TargetsIssued
  <2>5. Replacements'
    BY <2>1, RetireFacts DEF Replacements, TargetsIssued, Credentials
  <2>6. OneActive' BY <2>1, RetireFacts DEF OneActive
  <2>7. QED BY <2>1, <2>2, <2>3, <2>4, <2>5, <2>6, Invalidated
<1>2. ASSUME NEW r \in Requests, ApproveRotation(r) PROVE RotationInv'
  <2> DEFINE p == rotation[r].previous
  <2>1. /\ rotation[r].status = "pending" /\ silicon.live
        /\ credential' = Retire({p})
        /\ rotation' = [rotation EXCEPT ![r].status = "approved"]
        /\ Invalidate(TRUE) /\ UNCHANGED <<requester, login>>
    BY <1>2 DEF ApproveRotation, Approvable
  <2>2. p \in Credentials /\ credential[p] # "absent" /\ r \in Credentials
    BY <2>1 DEF TargetsIssued, Credentials
  <2>3. RotationTypeOK'
    BY <2>1, RetireFacts, Invalidated, StatusRow DEF RotationTypeOK, RotationStatus
  <2>4. ActiveLive' BY <2>1, RetireFacts, Invalidated DEF ActiveLive
  <2>5. TargetsIssued' BY <2>1, RetireFacts DEF TargetsIssued, RotationTypeOK
  <2>6. credential'[p] = "retired"
    BY <2>1, <2>2, RetireFacts DEF RotationTypeOK
  <2>7. Replacements'
    BY <2>1, <2>2, <2>6, RetireFacts DEF Replacements, TargetsIssued, RotationTypeOK, Credentials
  <2>8. OneActive' BY <2>1, RetireFacts DEF OneActive
  <2>9. QED BY <2>1, <2>3, <2>4, <2>5, <2>7, <2>8, Invalidated
<1>3. ASSUME NEW r \in Requests, CompleteRotation(r) PROVE RotationInv'
  <2> DEFINE p == rotation[r].previous
  <2>1. /\ rotation[r].status = "approved" /\ silicon.live
        /\ credential' = [Retire({p}) EXCEPT ![r] = "active"]
        /\ rotation' = [rotation EXCEPT ![r].status = "applied"]
        /\ Invalidate(TRUE) /\ UNCHANGED <<requester, login>>
    BY <1>3 DEF CompleteRotation
  <2>2. r \in Credentials /\ credential[r] = "absent"
    BY <2>1 DEF Replacements, Credentials
  <2>3. RotationTypeOK'
    BY <2>1, RetireFacts, Invalidated, StatusRow DEF RotationTypeOK, RotationStatus
  <2>4. ActiveLive' BY <2>1, RetireFacts, Invalidated DEF ActiveLive
  <2>5. TargetsIssued' BY <2>1, <2>2, RetireFacts DEF TargetsIssued, RotationTypeOK
  <2>6. Replacements'
    BY <2>1, <2>2, RetireFacts DEF Replacements, TargetsIssued, RotationTypeOK, Credentials
  <2>7. OneActive'
    BY <1>3, <2>1, <2>2, NothingActive, RetireFacts DEF OneActive, RotationTypeOK
  <2>8. QED BY <2>1, <2>3, <2>4, <2>5, <2>6, <2>7, Invalidated
<1>4. QED BY <1>1, <1>2, <1>3

\* The creation of the silicon and the steps of a login.
LEMMA LoginSteps ==
    ASSUME RotationInv,
           \/ CreateSilicon
           \/ \E l \in Logins :
                \/ \E c \in Credentials : BeginLogin(l, c)
                \/ FinishLogin(l) \/ RollbackLogin(l)
    PROVE  RotationInv'
<1> USE DEF RotationInv
<1>1. CASE CreateSilicon
  <2>1. /\ silicon.epoch = 0 /\ silicon' = [live |-> TRUE, epoch |-> 1]
        /\ credential' = [credential EXCEPT ![First] = "active"]
        /\ UNCHANGED <<rotation, requester, login, siliconSession>>
    BY <1>1 DEF CreateSilicon
  <2>2. First \in Credentials /\ First \notin Requests
    BY RotationAssumption DEF Credentials
  <2>3. ~silicon.live BY <2>1 DEF ActiveLive
  <2>4. RotationTypeOK' BY <2>1, <2>2 DEF RotationTypeOK
  <2>5. ActiveLive' BY <2>1 DEF ActiveLive
  <2>6. LoginsCurrent' BY <2>1 DEF LoginsCurrent, RotationTypeOK
  <2>7. SessionsKnown' /\ ActiveSessionCurrent'
    BY <2>1, <2>3 DEF SessionsKnown, ActiveSessionCurrent
  <2>8. TargetsIssued' BY <2>1, <2>2 DEF TargetsIssued, RotationTypeOK
  <2>9. Replacements'
    BY <2>1, <2>2 DEF Replacements, TargetsIssued, RotationTypeOK, Credentials, ActiveLive
  <2>10. OneActive' BY <2>1, <2>2 DEF OneActive, RotationTypeOK, ActiveLive
  <2>11. QED BY <2>4, <2>5, <2>6, <2>7, <2>8, <2>9, <2>10
<1>2. ASSUME NEW l \in Logins, NEW c \in Credentials, BeginLogin(l, c)
      PROVE  RotationInv'
  <2>1. UNCHANGED <<silicon, credential, rotation, requester, siliconSession>>
    BY <1>2 DEF BeginLogin
  <2>2. RotationTypeOK' BY <1>2 DEF BeginLogin, RotationTypeOK
  <2>3. LoginsCurrent' BY <1>2 DEF BeginLogin, LoginsCurrent, RotationTypeOK
  <2>4. QED
    BY <2>1, <2>2, <2>3
    DEF ActiveLive, TargetsIssued, Replacements, OneActive, SessionsKnown,
        ActiveSessionCurrent
<1>3. ASSUME NEW l \in Logins, FinishLogin(l) PROVE RotationInv'
  <2>1. /\ UNCHANGED <<silicon, credential, rotation, requester>>
        /\ login[l] # NoLogin /\ login[l].epoch = silicon.epoch
    BY <1>3 DEF FinishLogin, SnapshotHolds
  <2>2. /\ login[l].credential \in Credentials
        /\ credential[login[l].credential] = "active" /\ silicon.live
    BY <2>1 DEF LoginsCurrent, ActiveLive
  <2>3. RotationTypeOK' BY <1>3 DEF FinishLogin, RotationTypeOK, NoLogin
  <2>4. LoginsCurrent' BY <1>3, <2>1 DEF FinishLogin, LoginsCurrent, RotationTypeOK, NoLogin
  <2>5. SessionsKnown' /\ ActiveSessionCurrent'
    BY <1>3, <2>1, <2>2 DEF FinishLogin, SessionsKnown, ActiveSessionCurrent, RotationTypeOK
  <2>6. QED
    BY <2>1, <2>3, <2>4, <2>5 DEF ActiveLive, TargetsIssued, Replacements, OneActive
<1>4. ASSUME NEW l \in Logins, RollbackLogin(l) PROVE RotationInv'
  <2>1. UNCHANGED <<silicon, credential, rotation, requester, siliconSession>>
    BY <1>4 DEF RollbackLogin
  <2>2. RotationTypeOK' BY <1>4 DEF RollbackLogin, RotationTypeOK, NoLogin
  <2>3. LoginsCurrent' BY <1>4 DEF RollbackLogin, LoginsCurrent, RotationTypeOK, NoLogin
  <2>4. QED
    BY <2>1, <2>2, <2>3
    DEF ActiveLive, TargetsIssued, Replacements, OneActive, SessionsKnown,
        ActiveSessionCurrent
<1>5. QED BY <1>1, <1>2, <1>3, <1>4
\* Every step preserves the invariant.
LEMMA NextInv == RotationInv /\ [RotationNext]_rotationVars => RotationInv'
<1> SUFFICES ASSUME RotationInv, [RotationNext]_rotationVars PROVE RotationInv'
  OBVIOUS
<1>1. CASE UNCHANGED rotationVars
  BY <1>1 DEF rotationVars, RotationInv, RotationTypeOK, ActiveLive, LoginsCurrent, TargetsIssued,
              Replacements, OneActive, SessionsKnown, ActiveSessionCurrent
<1>2. CASE RotationNext
  BY <1>2, PaperSteps, CredentialSteps, LoginSteps DEF RotationNext
<1>3. QED BY <1>1, <1>2

LEMMA Invariance == RotationSpec => []RotationInv
  BY InitInv, NextInv, PTL DEF RotationSpec

----------------------------------------------------------------------------

\* Type correctness.
THEOREM RotationTypeCorrect == RotationSpec => []RotationTypeOK
<1>1. RotationInv => RotationTypeOK BY DEF RotationInv
<1>2. QED BY <1>1, Invariance, PTL

\* No session outlives the credential it was opened with, for any number of
\* logins racing with any number of rotations.
THEOREM ActiveSessionCurrentHolds == RotationSpec => []ActiveSessionCurrent
<1>1. RotationInv => ActiveSessionCurrent BY DEF RotationInv
<1>2. QED BY <1>1, Invariance, PTL

\* What a step does to credentials and to the sessions opened with them.
LEMMA StepFacts ==
    ASSUME RotationInv, [RotationNext]_rotationVars
    PROVE  /\ \A c, d \in Credentials :
                credential[c] = "active" /\ credential'[d] = "active" => c = d
           /\ \A l \in Logins :
                siliconSession[l].status = "active" /\ siliconSession'[l].status = "revoked"
                  => credential'[siliconSession[l].credential] = "retired"
<1> DEFINE Swap == \A c, d \in Credentials :
             credential[c] = "active" /\ credential'[d] = "active" => c = d
           Cause == \A l \in Logins :
             siliconSession[l].status = "active" /\ siliconSession'[l].status = "revoked"
               => credential'[siliconSession[l].credential] = "retired"
<1> USE DEF RotationInv
<1>1. \A l \in Logins : siliconSession[l].status = "active" =>
        /\ siliconSession[l].credential \in Credentials
        /\ credential[siliconSession[l].credential] = "active"
  BY DEF SessionsKnown, ActiveSessionCurrent
<1>2. CASE RemoveSilicon
  <2>1. credential' = Retire(Credentials) BY <1>2 DEF RemoveSilicon
  <2>2. QED BY <1>1, <2>1, RetireFacts DEF RotationTypeOK
<1>3. ASSUME NEW r \in Requests, ApproveRotation(r) PROVE Swap /\ Cause
  <2>1. /\ credential' = Retire({rotation[r].previous})
        /\ \A c \in Credentials :
             credential[c] = "active" => c = rotation[r].previous
    BY <1>3 DEF ApproveRotation, CredentialUnchanged, Active
  <2>2. QED BY <1>1, <2>1, RetireFacts DEF RotationTypeOK
<1>4. ASSUME NEW r \in Requests, CompleteRotation(r) PROVE Swap /\ Cause
  BY <1>1, <1>4, NothingActive
<1>5. CASE CreateSilicon
  BY <1>1, <1>5 DEF CreateSilicon, ActiveLive
<1>6. ASSUME UNCHANGED credential,
             \A l \in Logins : siliconSession[l].status = "active" =>
               siliconSession'[l].status # "revoked"
      PROVE  Swap /\ Cause
  BY <1>6 DEF OneActive
<1>7. ASSUME NEW r \in Requests,
             FetchTarget(r) \/ CheckPending(r) \/ InsertRequest(r)
               \/ AbandonRequest(r) \/ RejectRotation(r)
      PROVE  Swap /\ Cause
  BY <1>6, <1>7
  DEF FetchTarget, CheckPending, InsertRequest, AbandonRequest, RejectRotation
<1>8. ASSUME NEW l \in Logins,
             \/ \E c \in Credentials : BeginLogin(l, c)
             \/ FinishLogin(l) \/ RollbackLogin(l)
      PROVE  Swap /\ Cause
  BY <1>6, <1>8 DEF BeginLogin, FinishLogin, RollbackLogin, RotationTypeOK
<1>9. CASE UNCHANGED rotationVars
  BY <1>6, <1>9 DEF rotationVars
<1>10. QED
  BY <1>2, <1>3, <1>4, <1>5, <1>7, <1>8, <1>9 DEF RotationNext

\* No step replaces an active credential by another or adds a second one.
THEOREM NoOverlapHolds == RotationSpec => NoOverlap
  BY StepFacts, Invariance, PTL DEF NoOverlap, RotationSpec

\* No session is ended while the credential it was opened with stays good.
THEOREM RevokedForCauseHolds == RotationSpec => RevokedForCause
  BY StepFacts, Invariance, PTL DEF RevokedForCause, RotationSpec

\* One credential at a time, no session that outlives its own, and none ended
\* without cause, for any number of requests, logins and rotations.
THEOREM RotationSoundHolds == RotationSpec => RotationSound
  BY RotationTypeCorrect, ActiveSessionCurrentHolds, NoOverlapHolds, RevokedForCauseHolds,
     PTL DEF RotationSound

----------------------------------------------------------------------------
(* Membership *)

RowType ==
    [status : {"none", "active", "removed"}, role : {"member", "admin", "owner"},
     caps : SUBSET Capabilities, epoch : Nat, version : Nat]

Operations == {"promote", "demote", "replace", "remove", "directory", "transfer"}

RequestType ==
    [stage : {"begun", "read"}, op : Operations, actor : Members, target : Members,
     caps : SUBSET Capabilities, owner : BOOLEAN, version : Nat]

AdminRights == {"create", "manage"}

\* o is the only owner.
SoleOwner(table, o) == \A m \in Members : table[m].role = "owner" <=> m = o

\* Only active rows have an owner's role.
OwnersActive(table) == \A m \in Members : table[m].role = "owner" => table[m].status = "active"

\* Before it is created an organization has nobody, from then on exactly one owner.
Owned(table, version) ==
    /\ version = 0 => \A m \in Members : table[m].role # "owner" /\ table[m].status # "active"
    /\ version > 0 => \E o \in Members : SoleOwner(table, o)

\* AdminRightsFromOwner, of given rows and a given history.
RightsGiven(table, gift) ==
    \A m \in Members :
        table[m].role # "owner" /\ table[m].caps \cap AdminRights # {} => m \in gift

\* A request other than an owner's hands on no administrator's right.
HandsOnDelegable(c) == c.op = "replace" /\ ~c.owner => c.caps \cap AdminRights = {}

\* A transfer that read its target at this version found no owner in it.
ReadNoOwner(c, table, version) ==
    c.op = "transfer" =>
        /\ c.actor # c.target
        /\ c.stage = "read" => c.version <= version
        /\ c.stage = "read" /\ c.version = version => table[c.target].role # "owner"

Fits(c, table, version) == HandsOnDelegable(c) /\ ReadNoOwner(c, table, version)

MembershipTypeOK ==
    /\ row \in [Members -> RowType]
    /\ orgVersion \in Nat
    /\ change \in [Updates -> RequestType \cup {NoChange}]

MembershipInv ==
    /\ MembershipTypeOK
    /\ OwnersActive(row)
    /\ Owned(row, orgVersion)
    /\ RightsGiven(row, ownersGift)
    /\ \A r \in Updates : change[r] # NoChange => Fits(change[r], row, orgVersion)

----------------------------------------------------------------------------
(* What the statements make of a row *)

LEMMA AuthorizedRow ==
    ASSUME NEW o \in RowType
    PROVE  /\ Bumped(o) \in RowType
           /\ Bumped(o).epoch = o.epoch + 1 /\ Bumped(o).epoch > o.epoch
           /\ Bumped(o).role = o.role /\ Bumped(o).status = o.status
           /\ Bumped(o).caps = o.caps
  <1>1. o.epoch + 1 \in Nat /\ o.version + 1 \in Nat /\ o.epoch + 1 > o.epoch
      BY DEF RowType
  <1>2. Bumped(o) \in RowType
      BY <1>1 DEF Bumped, RowType
  <1>3. /\ Bumped(o).role = o.role /\ Bumped(o).status = o.status
        /\ Bumped(o).caps = o.caps /\ Bumped(o).epoch = o.epoch + 1
      BY DEF Bumped, RowType
  <1>4. QED
      BY <1>1, <1>2, <1>3

\* Every row a statement writes is a row and has a later epoch than the old one.
RowLater(n, o) == n \in RowType /\ n.epoch > o.epoch

LEMMA FoundersRowIs ==
    ASSUME NEW o \in RowType
    PROVE  /\ RowLater(FoundersRow(o), o)
           /\ FoundersRow(o).status = "active" /\ FoundersRow(o).role = "owner"
  <1>1. FoundersRow(o) \in RowType
      BY AuthorizedRow DEF FoundersRow, RowType
  <1>2. FoundersRow(o).epoch = Bumped(o).epoch
      BY AuthorizedRow DEF FoundersRow, RowType
  <1>3. FoundersRow(o).status = "active" /\ FoundersRow(o).role = "owner"
      BY AuthorizedRow DEF FoundersRow, RowType
  <1>4. QED
      BY <1>1, <1>2, <1>3, AuthorizedRow DEF RowLater

LEMMA JoinedRowIs ==
    ASSUME NEW o \in RowType
    PROVE  /\ RowLater(JoinedRow(o), o)
           /\ JoinedRow(o).role = "member" /\ JoinedRow(o).caps = {}
  <1>1. JoinedRow(o) \in RowType
      BY AuthorizedRow DEF JoinedRow, RowType
  <1>2. JoinedRow(o).epoch = Bumped(o).epoch
      BY AuthorizedRow DEF JoinedRow, RowType
  <1>3. JoinedRow(o).role = "member" /\ JoinedRow(o).caps = {}
      BY AuthorizedRow DEF JoinedRow, RowType
  <1>4. QED
      BY <1>1, <1>2, <1>3, AuthorizedRow DEF RowLater

LEMMA ReducedRowIs ==
    ASSUME NEW o \in RowType
    PROVE  /\ RowLater(ReducedRow(o), o)
           /\ ReducedRow(o).role = "member" /\ ReducedRow(o).caps = {}
  <1>1. ReducedRow(o) \in RowType
      BY AuthorizedRow DEF ReducedRow, RowType
  <1>2. ReducedRow(o).epoch = Bumped(o).epoch
      BY AuthorizedRow DEF ReducedRow, RowType
  <1>3. ReducedRow(o).role = "member" /\ ReducedRow(o).caps = {}
      BY AuthorizedRow DEF ReducedRow, RowType
  <1>4. QED
      BY <1>1, <1>2, <1>3, AuthorizedRow DEF RowLater

LEMMA RemovedRowIs ==
    ASSUME NEW o \in RowType
    PROVE  /\ RowLater(RemovedRow(o), o)
           /\ RemovedRow(o).role = "member" /\ RemovedRow(o).caps = {}
  <1>1. RemovedRow(o) \in RowType
      BY AuthorizedRow DEF RemovedRow, RowType
  <1>2. RemovedRow(o).epoch = Bumped(o).epoch
      BY AuthorizedRow DEF RemovedRow, RowType
  <1>3. RemovedRow(o).role = "member" /\ RemovedRow(o).caps = {}
      BY AuthorizedRow DEF RemovedRow, RowType
  <1>4. QED
      BY <1>1, <1>2, <1>3, AuthorizedRow DEF RowLater

LEMMA OwnersRowIs ==
    ASSUME NEW o \in RowType
    PROVE  /\ RowLater(OwnersRow(o), o)
           /\ OwnersRow(o).role = "owner" /\ OwnersRow(o).status = o.status
  <1>1. OwnersRow(o) \in RowType
      BY AuthorizedRow DEF OwnersRow, RowType
  <1>2. OwnersRow(o).epoch = Bumped(o).epoch
      BY AuthorizedRow DEF OwnersRow, RowType
  <1>3. OwnersRow(o).role = "owner" /\ OwnersRow(o).status = o.status
      BY AuthorizedRow DEF OwnersRow, RowType
  <1>4. QED
      BY <1>1, <1>2, <1>3, AuthorizedRow DEF RowLater

LEMMA GrantedRowIs ==
    ASSUME NEW o \in RowType, NEW caps \in SUBSET Capabilities
    PROVE  /\ RowLater(GrantedRow(o, caps), o)
           /\ GrantedRow(o, caps).role = o.role /\ GrantedRow(o, caps).caps = caps
           /\ GrantedRow(o, caps).status = o.status
  <1>1. GrantedRow(o, caps) \in RowType
      BY AuthorizedRow DEF GrantedRow, RowType
  <1>2. GrantedRow(o, caps).epoch = Bumped(o).epoch
      BY AuthorizedRow DEF GrantedRow, RowType
  <1>3. GrantedRow(o, caps).role = o.role /\ GrantedRow(o, caps).caps = caps
           /\ GrantedRow(o, caps).status = o.status
      BY AuthorizedRow DEF GrantedRow, RowType
  <1>4. QED
      BY <1>1, <1>2, <1>3, AuthorizedRow DEF RowLater

LEMMA DefaultsAre ==
    DefaultCapabilities \in SUBSET Capabilities /\ DefaultCapabilities \cap AdminRights = {}
  BY DEF DefaultCapabilities, Capabilities, AdminRights

LEMMA PromotedRowIs ==
    ASSUME NEW o \in RowType
    PROVE  /\ RowLater(PromotedRow(o), o)
           /\ PromotedRow(o).role = "admin"
           /\ PromotedRow(o).caps \cap AdminRights = o.caps \cap AdminRights
           /\ PromotedRow(o).status = o.status
  <1>1. o.caps \cup DefaultCapabilities \in SUBSET Capabilities
      BY DefaultsAre DEF RowType
  <1>2. PromotedRow(o) \in RowType
      BY <1>1, AuthorizedRow DEF PromotedRow, RowType
  <1>3. PromotedRow(o).epoch = Bumped(o).epoch
      BY AuthorizedRow DEF PromotedRow, RowType
  <1>4. /\ PromotedRow(o).role = "admin" /\ PromotedRow(o).status = o.status
        /\ PromotedRow(o).caps = o.caps \cup DefaultCapabilities
      BY AuthorizedRow DEF PromotedRow, RowType
  <1>5. QED
      BY <1>2, <1>3, <1>4, AuthorizedRow, DefaultsAre DEF RowLater

LEMMA DemotedRowIs ==
    ASSUME NEW o \in RowType
    PROVE  /\ Demoted(o) \in RowType
           /\ Demoted(o).caps \cap AdminRights = {}
           /\ Demoted(o).role # "owner" /\ Demoted(o).status = o.status
           /\ o.role = "owner" => Demoted(o).epoch > o.epoch
  <1>1. CASE o.role = "owner"
    <2> DEFINE n == [Bumped(o) EXCEPT !.role = "admin", !.caps = DefaultCapabilities]
    <2>1. Demoted(o) = n
        BY <1>1 DEF Demoted
    <2>2. n \in RowType
        BY AuthorizedRow, DefaultsAre DEF RowType
    <2>3. /\ n.caps = DefaultCapabilities /\ n.role = "admin" /\ n.status = o.status
          /\ n.epoch = Bumped(o).epoch
        BY AuthorizedRow DEF RowType
    <2> HIDE DEF n
    <2>4. QED
        BY <2>1, <2>2, <2>3, AuthorizedRow, DefaultsAre
  <1>2. CASE o.role # "owner"
    <2> DEFINE n == [o EXCEPT !.caps = DefaultCapabilities]
    <2>1. Demoted(o) = n
        BY <1>2 DEF Demoted
    <2>2. n \in RowType
        BY DefaultsAre DEF RowType
    <2>3. n.caps = DefaultCapabilities /\ n.role = o.role /\ n.status = o.status
        BY DEF RowType
    <2> HIDE DEF n
    <2>4. QED
        BY <1>2, <2>1, <2>2, <2>3, DefaultsAre
  <1>3. QED
      BY <1>1, <1>2

----------------------------------------------------------------------------
(* One step *)

LEMMA InitialRow == NoRow \in RowType /\ NoRow.role = "member" /\ NoRow.caps = {} /\ NoRow.status = "none"
  BY DEF NoRow, RowType

LEMMA MembershipInitially == MembershipInit => MembershipInv
  BY InitialRow DEF MembershipInit, MembershipInv, MembershipTypeOK, OwnersActive, Owned,
     RightsGiven

\* Of two different elements a set has at least two.
LEMMA TwoElements ==
    ASSUME NEW S, IsFiniteSet(S), NEW a \in S, NEW b \in S, a # b
    PROVE  ~(Cardinality(S) <= 1)
  <1>1. IsFiniteSet({a, b}) /\ Cardinality({a, b}) = 2
    <2>1. IsFiniteSet({a}) /\ Cardinality({a}) = 1
        BY FS_Singleton
    <2>2. {a, b} = {a} \cup {b} /\ b \notin {a}
        OBVIOUS
    <2>3. IsFiniteSet({a} \cup {b}) /\ Cardinality({a} \cup {b}) = Cardinality({a}) + 1
        BY <2>1, <2>2, FS_AddElement
    <2>4. QED
        BY <2>1, <2>2, <2>3
  <1>2. {a, b} \subseteq S
      OBVIOUS
  <1>3. Cardinality({a, b}) <= Cardinality(S)
      BY <1>2, FS_Subset
  <1>4. Cardinality(S) \in Nat
      BY FS_CardinalityType
  <1>5. QED
      BY <1>1, <1>3, <1>4

\* A write that neither makes an owner nor unmakes one leaves all that is about
\* owners alone.
LEMMA PlainWrite ==
    ASSUME MembershipInv, NEW m \in Members, NEW n \in RowType,
           orgVersion > 0, orgVersion' = orgVersion,
           row' = [row EXCEPT ![m] = n],
           n.role = "owner" <=> row[m].role = "owner",
           n.role = "owner" => n.status = "active"
    PROVE  /\ row' \in [Members -> RowType]
           /\ OwnersActive(row')
           /\ Owned(row', orgVersion')
           /\ \A c \in RequestType : Fits(c, row, orgVersion) => Fits(c, row', orgVersion')
  <1>1. row' \in [Members -> RowType]
      BY DEF MembershipInv, MembershipTypeOK
  <1>2. \A k \in Members : row'[k] = IF k = m THEN n ELSE row[k]
      BY DEF MembershipInv, MembershipTypeOK
  <1>3. \A k \in Members : row'[k].role = "owner" <=> row[k].role = "owner"
      BY <1>2
  <1>4. OwnersActive(row')
      BY <1>2 DEF MembershipInv, OwnersActive
  <1>5. Owned(row', orgVersion')
      BY <1>3 DEF MembershipInv, MembershipTypeOK, Owned, SoleOwner
  <1>6. ASSUME NEW c \in RequestType, Fits(c, row, orgVersion)
        PROVE  Fits(c, row', orgVersion')
      BY <1>3, <1>6 DEF Fits, HandsOnDelegable, ReadNoOwner, RequestType
  <1>7. QED
      BY <1>1, <1>4, <1>5, <1>6

\* A request that ends, and the others still fit.
LEMMA OthersFit ==
    ASSUME MembershipInv, NEW r \in Updates, change' = [change EXCEPT ![r] = NoChange],
           \A c \in RequestType : Fits(c, row, orgVersion) => Fits(c, row', orgVersion')
    PROVE  /\ change' \in [Updates -> RequestType \cup {NoChange}]
           /\ \A q \in Updates : change'[q] # NoChange => Fits(change'[q], row', orgVersion')
  BY DEF MembershipInv, MembershipTypeOK

LEMMA RequestStaged ==
    ASSUME MembershipInv, NEW r \in Updates, change[r].stage \in {"begun", "read"}
    PROVE  /\ change[r] \in RequestType /\ change[r] # NoChange
           /\ Fits(change[r], row, orgVersion)
           /\ change[r].actor \in Members /\ change[r].target \in Members
           /\ row[change[r].actor] \in RowType /\ row[change[r].target] \in RowType
  <1>1. change[r] # NoChange
      BY DEF NoChange
  <1>2. change[r] \in RequestType
      BY <1>1 DEF MembershipInv, MembershipTypeOK
  <1>3. change[r].actor \in Members /\ change[r].target \in Members
      BY <1>2 DEF RequestType
  <1>4. QED
      BY <1>1, <1>2, <1>3 DEF MembershipInv, MembershipTypeOK

\* Where a member is active the organization was created.
LEMMA ActiveCreated ==
    ASSUME MembershipInv, NEW m \in Members, ActiveMember(m)
    PROVE  orgVersion \in Nat /\ orgVersion > 0
  BY DEF MembershipInv, MembershipTypeOK, Owned, ActiveMember

LEMMA BeginKeeps ==
    ASSUME MembershipInv, NEW r \in Updates, NEW op \in Operations, NEW actor \in Members,
           NEW target \in Members, NEW caps \in SUBSET Capabilities,
           BeginChange(r, op, actor, target, caps)
    PROVE  MembershipInv'
  <1> DEFINE c == [stage |-> "begun", op |-> op, actor |-> actor, target |-> target,
                   caps |-> caps, owner |-> op = "replace" /\ row[actor].role = "owner",
                   version |-> 0]
  <1>1. change' = [change EXCEPT ![r] = c] /\ UNCHANGED <<row, orgVersion, ownersGift>>
      BY DEF BeginChange
  <1>2. c \in RequestType
      BY DEF RequestType
  <1>3. HandsOnDelegable(c)
      BY DEF BeginChange, HandsOnDelegable, Delegated, DelegableCapabilities, AdminRights
  <1>4. ReadNoOwner(c, row, orgVersion)
      BY DEF BeginChange, ReadNoOwner
  <1> HIDE DEF c
  <1>5. QED
      BY <1>1, <1>2, <1>3, <1>4 DEF MembershipInv, MembershipTypeOK, Fits

LEMMA ReadKeeps ==
    ASSUME MembershipInv, NEW r \in Updates, ReadTarget(r)
    PROVE  MembershipInv'
  <1> DEFINE c == change[r]
             v == IF c.op = "transfer" THEN orgVersion ELSE row[c.target].version
             d == ReadRequest(c, v)
  <1>1. /\ c.stage = "begun" /\ Eligible(c.op, c.target)
        /\ change' = [change EXCEPT ![r] = d] /\ UNCHANGED <<row, orgVersion, ownersGift>>
      BY DEF ReadTarget
  <1>2. /\ c \in RequestType /\ Fits(c, row, orgVersion)
        /\ row[c.target] \in RowType /\ c.target \in Members
      BY <1>1, RequestStaged
  <1>3. v \in Nat
      BY <1>2 DEF MembershipInv, MembershipTypeOK, RowType
  <1>4. c.op = "transfer" => row[c.target].role # "owner"
      BY <1>1 DEF Eligible
  <1> HIDE DEF c
  <1>5. c.op = "transfer" => v = orgVersion
      OBVIOUS
  <1> HIDE DEF v
  <1>6. /\ d \in RequestType /\ d.version = v /\ d.op = c.op /\ d.actor = c.actor
        /\ d.target = c.target /\ d.caps = c.caps /\ d.owner = c.owner
      BY <1>2, <1>3 DEF ReadRequest, RequestType
  <1> HIDE DEF d
  <1>7. orgVersion <= orgVersion
      BY DEF MembershipInv, MembershipTypeOK
  <1>8. Fits(d, row, orgVersion)
      BY <1>2, <1>4, <1>5, <1>6, <1>7 DEF Fits, HandsOnDelegable, ReadNoOwner
  <1>9. QED
      BY <1>1, <1>6, <1>8 DEF MembershipInv, MembershipTypeOK

\* What every write under the version check rests on.
LEMMA WriteReady ==
    ASSUME MembershipInv, NEW r \in Updates, change[r].stage = "read",
           ActiveMember(change[r].target)
    PROVE  /\ change[r] \in RequestType /\ Fits(change[r], row, orgVersion)
           /\ change[r].actor \in Members /\ change[r].target \in Members
           /\ row[change[r].actor] \in RowType /\ row[change[r].target] \in RowType
           /\ orgVersion > 0
  BY RequestStaged, ActiveCreated

\* A write to one row that leaves the owner alone, in every part of the invariant
\* but the one about the rights that were given.
LEMMA FinishedKeeps ==
    ASSUME MembershipInv, NEW r \in Updates, NEW m \in Members, NEW n \in RowType,
           orgVersion > 0, orgVersion' = orgVersion,
           Finished(r, [row EXCEPT ![m] = n]),
           n.role = "owner" <=> row[m].role = "owner",
           n.role = "owner" => n.status = "active",
           RightsGiven(row', ownersGift')
    PROVE  MembershipInv'
  <1>1. row' = [row EXCEPT ![m] = n] /\ change' = [change EXCEPT ![r] = NoChange]
      BY DEF Finished
  <1>2. /\ row' \in [Members -> RowType]
        /\ OwnersActive(row') /\ Owned(row', orgVersion')
        /\ \A c \in RequestType : Fits(c, row, orgVersion) => Fits(c, row', orgVersion')
      BY <1>1, PlainWrite
  <1>3. /\ change' \in [Updates -> RequestType \cup {NoChange}]
        /\ \A q \in Updates : change'[q] # NoChange => Fits(change'[q], row', orgVersion')
      BY <1>1, <1>2, OthersFit
  <1>4. QED
      BY <1>2, <1>3 DEF MembershipInv, MembershipTypeOK

\* The rights given stay given when one row keeps or loses them.
LEMMA RightsKept ==
    ASSUME MembershipInv, NEW m \in Members, NEW n \in RowType,
           row' = [row EXCEPT ![m] = n],
           \A k \in Members : k # m /\ k \in ownersGift => k \in ownersGift',
           \/ n.caps \cap AdminRights = {}
           \/ n.role = "owner"
           \/ m \in ownersGift'
           \/ /\ row[m].role # "owner" /\ n.caps \cap AdminRights = row[m].caps \cap AdminRights
              /\ m \in ownersGift => m \in ownersGift'
    PROVE  RightsGiven(row', ownersGift')
  <1>1. \A k \in Members : row'[k] = IF k = m THEN n ELSE row[k]
      BY DEF MembershipInv, MembershipTypeOK
  <1>2. QED
      BY <1>1 DEF MembershipInv, RightsGiven

LEMMA RoleKeeps ==
    ASSUME MembershipInv, NEW r \in Updates, ChangeAdminRole(r)
    PROVE  MembershipInv'
  <1> DEFINE c == change[r]
             m == c.target
             n == IF c.op = "promote" THEN PromotedRow(row[m]) ELSE ReducedRow(row[m])
  <1>1. /\ c.stage = "read" /\ c.op \in {"promote", "demote"} /\ ActiveMember(m)
        /\ Eligible(c.op, m) /\ orgVersion' = orgVersion
        /\ Finished(r, [row EXCEPT ![m] = n])
      BY DEF ChangeAdminRole, Unchanged
  <1>2. m \in Members /\ row[m] \in RowType /\ orgVersion > 0
      BY <1>1, WriteReady
  <1>3. row[m].role # "owner"
      BY <1>1 DEF Eligible
  <1>4. n \in RowType /\ n.role # "owner"
      BY <1>2, PromotedRowIs, ReducedRowIs DEF RowLater
  <1>5. CASE c.op = "promote"
    <2>1. n.caps \cap AdminRights = row[m].caps \cap AdminRights
        BY <1>2, <1>5, PromotedRowIs
    <2>2. ownersGift' = ownersGift
        BY <1>5 DEF ChangeAdminRole
    <2> HIDE DEF n
    <2>3. RightsGiven(row', ownersGift')
        BY <1>1, <1>2, <1>3, <1>4, <2>1, <2>2, RightsKept DEF Finished
    <2>4. QED
        BY <1>1, <1>2, <1>3, <1>4, <2>3, FinishedKeeps
  <1>6. CASE c.op # "promote"
    <2>1. n.caps \cap AdminRights = {}
        BY <1>2, <1>6, ReducedRowIs
    <2>2. ownersGift' = ownersGift \ {m}
        BY <1>6 DEF ChangeAdminRole
    <2> HIDE DEF n
    <2>3. RightsGiven(row', ownersGift')
        BY <1>1, <1>2, <1>4, <2>1, <2>2, RightsKept DEF Finished
    <2>4. QED
        BY <1>1, <1>2, <1>3, <1>4, <2>3, FinishedKeeps
  <1>7. QED
      BY <1>5, <1>6

LEMMA ReplaceKeeps ==
    ASSUME MembershipInv, NEW r \in Updates, ReplaceCapabilities(r)
    PROVE  MembershipInv'
  <1> DEFINE c == change[r]
             m == c.target
             granted == ReplacedGrants(c)
             n == GrantedRow(row[m], granted)
  <1>1. /\ c.stage = "read" /\ c.op = "replace" /\ ActiveMember(m)
        /\ orgVersion' = orgVersion /\ Finished(r, [row EXCEPT ![m] = n])
        /\ ownersGift' = IF c.owner /\ c.caps \cap AdminRights # {}
                         THEN ownersGift \cup {m} ELSE ownersGift
      BY DEF ReplaceCapabilities, Unchanged, AdminRights
  <1>2. /\ m \in Members /\ row[m] \in RowType /\ orgVersion > 0 /\ c \in RequestType
        /\ Fits(c, row, orgVersion)
      BY <1>1, WriteReady
  <1>3. c.caps \in SUBSET Capabilities /\ row[m].caps \in SUBSET Capabilities
      BY <1>2 DEF RequestType, RowType
  <1>4. /\ granted \in SUBSET Capabilities /\ granted \subseteq row[m].caps \cup c.caps
      BY <1>3 DEF ReplacedGrants
  <1>5. n \in RowType /\ n.role = row[m].role /\ n.status = row[m].status /\ n.caps = granted
      BY <1>2, <1>4, GrantedRowIs DEF RowLater
  <1>6. row[m].status = "active"
      BY <1>1 DEF ActiveMember
  <1>7. c.caps \cap AdminRights # {} => c.owner
      BY <1>1, <1>2 DEF Fits, HandsOnDelegable
  <1>8. \/ n.caps \cap AdminRights = {}
        \/ n.role = "owner"
        \/ m \in ownersGift'
      BY <1>1, <1>2, <1>4, <1>5, <1>7 DEF MembershipInv, RightsGiven
  <1>9. ownersGift \subseteq ownersGift'
      BY <1>1
  <1>10. row' = [row EXCEPT ![m] = n]
      BY <1>1 DEF Finished
  <1> HIDE DEF n, granted, m
  <1>11. RightsGiven(row', ownersGift')
      BY <1>2, <1>5, <1>8, <1>9, <1>10, RightsKept
  <1>12. QED
      BY <1>1, <1>2, <1>5, <1>6, <1>11, FinishedKeeps

LEMMA DirectoryKeeps ==
    ASSUME MembershipInv, NEW r \in Updates, UpdateMemberDirectory(r)
    PROVE  MembershipInv'
  <1> DEFINE m == change[r].target
             n == Bumped(row[m])
  <1>1. /\ change[r].stage = "read" /\ ActiveMember(m)
        /\ orgVersion' = orgVersion /\ ownersGift' = ownersGift
        /\ Finished(r, [row EXCEPT ![m] = n])
      BY DEF UpdateMemberDirectory, Unchanged
  <1>2. m \in Members /\ row[m] \in RowType /\ orgVersion > 0
      BY <1>1, WriteReady
  <1>3. n \in RowType /\ n.role = row[m].role /\ n.status = row[m].status /\ n.caps = row[m].caps
      BY <1>2, AuthorizedRow
  <1>4. row[m].status = "active" /\ row' = [row EXCEPT ![m] = n]
      BY <1>1 DEF ActiveMember, Finished
  <1>5. n.caps \cap AdminRights = {} \/ n.role = "owner" \/ m \in ownersGift'
      BY <1>1, <1>2, <1>3 DEF MembershipInv, RightsGiven
  <1> HIDE DEF n, m
  <1>6. RightsGiven(row', ownersGift')
      BY <1>1, <1>2, <1>3, <1>4, <1>5, RightsKept
  <1>7. QED
      BY <1>1, <1>2, <1>3, <1>4, <1>6, FinishedKeeps

LEMMA RemoveKeeps ==
    ASSUME MembershipInv, NEW r \in Updates, RemoveMembership(r)
    PROVE  MembershipInv'
  <1> DEFINE m == change[r].target
             n == RemovedRow(row[m])
  <1>1. /\ change[r].stage = "read" /\ change[r].op = "remove" /\ ActiveMember(m)
        /\ Eligible(change[r].op, m)
        /\ orgVersion' = orgVersion /\ ownersGift' = ownersGift \ {m}
        /\ Finished(r, [row EXCEPT ![m] = n])
      BY DEF RemoveMembership, Unchanged
  <1>2. m \in Members /\ row[m] \in RowType /\ orgVersion > 0
      BY <1>1, WriteReady
  <1>3. row[m].role # "owner"
      BY <1>1 DEF Eligible
  <1>4. n \in RowType /\ n.role # "owner" /\ n.caps \cap AdminRights = {}
      BY <1>2, RemovedRowIs DEF RowLater
  <1>5. row' = [row EXCEPT ![m] = n]
      BY <1>1 DEF Finished
  <1> HIDE DEF n, m
  <1>6. RightsGiven(row', ownersGift')
      BY <1>1, <1>2, <1>4, <1>5, RightsKept
  <1>7. QED
      BY <1>1, <1>2, <1>3, <1>4, <1>6, FinishedKeeps

\* A transfer that commits finds its caller the owner still, and its target not.
LEMMA TransferFromOwner ==
    ASSUME MembershipInv, NEW r \in Updates, TransferOwnership(r)
    PROVE  LET a == change[r].actor
               t == change[r].target
           IN  /\ a \in Members /\ t \in Members /\ a # t
               /\ row[a] \in RowType /\ row[t] \in RowType
               /\ row[a].role = "owner"
               /\ orgVersion \in Nat /\ orgVersion > 0 /\ orgVersion' = orgVersion + 1
               /\ change' = [change EXCEPT ![r] = NoChange]
               /\ ownersGift' = ownersGift \ {a, t}
               /\ row' \in [Members -> RowType]
               /\ row'[a] = Demoted(row[a]) /\ row'[t] = OwnersRow(row[t])
               /\ \A k \in Members : k \notin {a, t} => row'[k] = row[k]
               /\ row[a].status = "active" /\ row[t].status = "active"
               /\ \A k \in Members : row'[k].role = "owner" <=> k = t
  <1> DEFINE c == change[r]
             a == c.actor
             t == c.target
             table == [row EXCEPT ![a] = Demoted(row[a]), ![t] = OwnersRow(row[t])]
  <1>1. /\ c.stage = "read" /\ c.op = "transfer" /\ ActiveMember(a) /\ ActiveMember(t)
        /\ orgVersion = c.version /\ orgVersion' = orgVersion + 1
        /\ ownersGift' = ownersGift \ {a, t}
        /\ change' = [change EXCEPT ![r] = NoChange]
      BY DEF TransferOwnership, Finished
  <1>2. /\ a \in Members /\ t \in Members /\ row[a] \in RowType /\ row[t] \in RowType
        /\ Fits(c, row, orgVersion) /\ orgVersion > 0 /\ orgVersion \in Nat
      BY <1>1, WriteReady, ActiveCreated
  <1>3. a # t /\ row[t].role # "owner"
      BY <1>1, <1>2 DEF Fits, ReadNoOwner
  <1>4. row' = table /\ OwnerSlotFree(table)
      BY <1>2, <1>3 DEF TransferOwnership, Finished, MembershipInv, MembershipTypeOK
  <1>5. Demoted(row[a]) \in RowType /\ OwnersRow(row[t]) \in RowType
      BY <1>2, DemotedRowIs, OwnersRowIs DEF RowLater
  <1>6. /\ table \in [Members -> RowType]
        /\ table[a] = Demoted(row[a]) /\ table[t] = OwnersRow(row[t])
        /\ \A k \in Members : k \notin {a, t} => table[k] = row[k]
      BY <1>2, <1>3, <1>5 DEF MembershipInv, MembershipTypeOK
  <1>7. /\ row[a].status = "active" /\ row[t].status = "active"
        /\ table[t].role = "owner" /\ table[t].status = "active" /\ table[a].role # "owner"
      BY <1>1, <1>2, <1>6, DemotedRowIs, OwnersRowIs DEF ActiveMember
  <1> HIDE DEF table, a, t, c
  <1>8. ASSUME NEW k \in Members, table[k].role = "owner" PROVE k = t
    <2> SUFFICES ASSUME k # t PROVE FALSE
        OBVIOUS
    <2> DEFINE S == {m \in Members : table[m].status = "active" /\ table[m].role = "owner"}
    <2>1. k # a
        BY <1>7, <1>8
    <2>2. table[k] = row[k]
        BY <1>6, <2>1
    <2>3. table[k].status = "active"
        BY <1>8, <2>2 DEF MembershipInv, OwnersActive
    <2>4. k \in S /\ t \in S
        BY <1>2, <1>7, <1>8, <2>3
    <2>5. IsFiniteSet(S)
      <3>1. S \subseteq Members
          OBVIOUS
      <3>2. QED
          BY <3>1, MembershipAssumption, FS_Subset
    <2>6. Cardinality(S) <= 1
        BY <1>4 DEF OwnerSlotFree
    <2> HIDE DEF S
    <2>7. QED
        BY <2>4, <2>5, <2>6, TwoElements
  <1>9. row[a].role = "owner"
    <2>1. PICK o \in Members : SoleOwner(row, o)
        BY <1>2 DEF MembershipInv, Owned
    <2>2. row[o].role = "owner"
        BY <2>1 DEF SoleOwner
    <2>3. o # t
        BY <1>3, <2>2
    <2>4. o # a => table[o] = row[o]
        BY <1>6, <2>3
    <2>5. QED
        BY <1>8, <2>2, <2>3, <2>4
  <1>10. QED
      BY <1>1, <1>2, <1>3, <1>4, <1>6, <1>7, <1>8, <1>9 DEF a, t, c

LEMMA TransferKeeps ==
    ASSUME MembershipInv, NEW r \in Updates, TransferOwnership(r)
    PROVE  MembershipInv'
  <1> DEFINE a == change[r].actor
             t == change[r].target
  <1>1. /\ a \in Members /\ t \in Members /\ a # t
        /\ row[a] \in RowType /\ row[t] \in RowType
        /\ orgVersion \in Nat /\ orgVersion > 0 /\ orgVersion' = orgVersion + 1
        /\ change' = [change EXCEPT ![r] = NoChange]
        /\ ownersGift' = ownersGift \ {a, t}
        /\ row' \in [Members -> RowType]
        /\ row'[a] = Demoted(row[a]) /\ row'[t] = OwnersRow(row[t])
        /\ \A k \in Members : k \notin {a, t} => row'[k] = row[k]
        /\ row[a].status = "active" /\ row[t].status = "active"
        /\ \A k \in Members : row'[k].role = "owner" <=> k = t
      BY TransferFromOwner
  <1> HIDE DEF a, t
  <1>2. row'[t].status = "active"
      BY <1>1, OwnersRowIs
  <1>3. OwnersActive(row')
      BY <1>1, <1>2 DEF OwnersActive
  <1>4. Owned(row', orgVersion')
      BY <1>1 DEF Owned, SoleOwner
  <1>5. row'[a].caps \cap AdminRights = {} /\ row'[t].role = "owner"
      BY <1>1, DemotedRowIs
  <1>6. RightsGiven(row', ownersGift')
      BY <1>1, <1>5 DEF MembershipInv, RightsGiven
  <1>7. ASSUME NEW c \in RequestType, Fits(c, row, orgVersion)
        PROVE  Fits(c, row', orgVersion')
    <2>1. c.version \in Nat
        BY DEF RequestType
    <2>2. c.version <= orgVersion => c.version <= orgVersion' /\ c.version # orgVersion'
        BY <1>1, <2>1
    <2>3. QED
        BY <1>7, <2>2 DEF Fits, HandsOnDelegable, ReadNoOwner
  <1>8. QED
      BY <1>1, <1>3, <1>4, <1>6, <1>7, OthersFit DEF MembershipInv, MembershipTypeOK

LEMMA CreateKeeps ==
    ASSUME MembershipInv, NEW m \in Members, CreateOrganization(m)
    PROVE  MembershipInv'
  <1> DEFINE n == FoundersRow(row[m])
  <1>1. /\ orgVersion = 0 /\ orgVersion' = 1 /\ row' = [row EXCEPT ![m] = n]
        /\ UNCHANGED <<change, ownersGift>>
      BY DEF CreateOrganization
  <1>2. row[m] \in RowType
      BY DEF MembershipInv, MembershipTypeOK
  <1>3. n \in RowType /\ n.role = "owner" /\ n.status = "active"
      BY <1>2, FoundersRowIs DEF RowLater
  <1> HIDE DEF n
  <1>4. /\ row' \in [Members -> RowType]
        /\ \A k \in Members : row'[k] = IF k = m THEN n ELSE row[k]
      BY <1>1, <1>3 DEF MembershipInv, MembershipTypeOK
  <1>5. OwnersActive(row') /\ Owned(row', orgVersion')
      BY <1>1, <1>3, <1>4 DEF MembershipInv, OwnersActive, Owned, SoleOwner
  <1>6. RightsGiven(row', ownersGift')
      BY <1>1, <1>3, <1>4 DEF MembershipInv, RightsGiven
  <1>7. ASSUME NEW c \in RequestType, Fits(c, row, orgVersion)
        PROVE  Fits(c, row', orgVersion')
    <2>1. c.version \in Nat
        BY DEF RequestType
    <2>2. c.version <= orgVersion => c.version <= orgVersion' /\ c.version # orgVersion'
        BY <1>1, <2>1
    <2>3. QED
        BY <1>7, <2>2 DEF Fits, HandsOnDelegable, ReadNoOwner
  <1>8. QED
      BY <1>1, <1>4, <1>5, <1>6, <1>7 DEF MembershipInv, MembershipTypeOK

LEMMA UpdateKeeps ==
    ASSUME MembershipInv, UpdateOrganization
    PROVE  MembershipInv'
  <1>1. /\ orgVersion \in Nat /\ orgVersion > 0 /\ orgVersion' = orgVersion + 1
        /\ UNCHANGED <<row, change, ownersGift>>
      BY DEF UpdateOrganization, MembershipInv, MembershipTypeOK
  <1>2. ASSUME NEW c \in RequestType, Fits(c, row, orgVersion)
        PROVE  Fits(c, row', orgVersion')
    <2>1. c.version \in Nat
        BY DEF RequestType
    <2>2. c.version <= orgVersion => c.version <= orgVersion' /\ c.version # orgVersion'
        BY <1>1, <2>1
    <2>3. QED
        BY <1>1, <1>2, <2>2 DEF Fits, HandsOnDelegable, ReadNoOwner
  <1>3. Owned(row', orgVersion')
      BY <1>1 DEF MembershipInv, Owned
  <1>4. QED
      BY <1>1, <1>2, <1>3 DEF MembershipInv, MembershipTypeOK, OwnersActive, RightsGiven

LEMMA JoinKeeps ==
    ASSUME MembershipInv, NEW m \in Members, JoinAsMember(m)
    PROVE  MembershipInv'
  <1> DEFINE n == JoinedRow(row[m])
  <1>1. /\ orgVersion > 0 /\ ~ActiveMember(m) /\ row' = [row EXCEPT ![m] = n]
        /\ UNCHANGED <<orgVersion, change, ownersGift>>
      BY DEF JoinAsMember
  <1>2. row[m] \in RowType /\ row[m].role # "owner"
      BY <1>1 DEF MembershipInv, MembershipTypeOK, OwnersActive, ActiveMember
  <1>3. n \in RowType /\ n.role # "owner" /\ n.caps \cap AdminRights = {}
      BY <1>2, JoinedRowIs DEF RowLater
  <1> HIDE DEF n
  <1>4. /\ row' \in [Members -> RowType] /\ OwnersActive(row') /\ Owned(row', orgVersion')
        /\ \A c \in RequestType : Fits(c, row, orgVersion) => Fits(c, row', orgVersion')
      BY <1>1, <1>2, <1>3, PlainWrite
  <1>5. RightsGiven(row', ownersGift')
      BY <1>1, <1>3, RightsKept
  <1>6. QED
      BY <1>1, <1>4, <1>5 DEF MembershipInv, MembershipTypeOK

LEMMA AbortKeeps ==
    ASSUME MembershipInv, NEW r \in Updates, AbortChange(r)
    PROVE  MembershipInv'
  <1>1. change' = [change EXCEPT ![r] = NoChange] /\ UNCHANGED <<row, orgVersion, ownersGift>>
      BY DEF AbortChange
  <1>2. QED
      BY <1>1, OthersFit DEF MembershipInv, MembershipTypeOK

LEMMA MembershipInductive ==
    MembershipInv /\ [MembershipNext]_membershipVars => MembershipInv'
  <1> SUFFICES ASSUME MembershipInv, [MembershipNext]_membershipVars
               PROVE  MembershipInv'
      OBVIOUS
  <1>1. CASE \E m \in Members : CreateOrganization(m) \/ JoinAsMember(m)
      BY <1>1, CreateKeeps, JoinKeeps
  <1>2. CASE UpdateOrganization
      BY <1>2, UpdateKeeps
  <1>3. ASSUME NEW r \in Updates, NEW actor \in Members, NEW target \in Members,
               NEW op \in {"promote", "demote", "remove", "directory", "transfer"},
               BeginChange(r, op, actor, target, {})
        PROVE  MembershipInv'
      BY <1>3, BeginKeeps DEF Operations
  <1>4. ASSUME NEW r \in Updates, NEW actor \in Members, NEW target \in Members,
               NEW caps \in GrantableSets, BeginChange(r, "replace", actor, target, caps)
        PROVE  MembershipInv'
    <2>1. caps \in SUBSET Capabilities /\ "replace" \in Operations
        BY MembershipAssumption DEF Operations
    <2>2. QED
        BY <1>4, <2>1, BeginKeeps
  <1>5. ASSUME NEW r \in Updates,
               ReadTarget(r) \/ AbortChange(r) \/ ChangeAdminRole(r)
                 \/ ReplaceCapabilities(r) \/ UpdateMemberDirectory(r)
                 \/ RemoveMembership(r) \/ TransferOwnership(r)
        PROVE  MembershipInv'
      BY <1>5, ReadKeeps, AbortKeeps, RoleKeeps, ReplaceKeeps, DirectoryKeeps, RemoveKeeps,
         TransferKeeps
  <1>6. CASE UNCHANGED membershipVars
      BY <1>6 DEF membershipVars, MembershipInv, MembershipTypeOK, OwnersActive, Owned,
         SoleOwner, RightsGiven, Fits, HandsOnDelegable, ReadNoOwner
  <1>7. QED
      BY <1>1, <1>2, <1>3, <1>4, <1>5, <1>6 DEF MembershipNext

LEMMA MembershipInvariant == MembershipSpec => []MembershipInv
  BY MembershipInitially, MembershipInductive, PTL DEF MembershipSpec

\* ExactlyOneOwner: the locks of transfer_ownership, its comparison of the version
\* of the organization and the unique index on active owners leave one owner.
THEOREM ExactlyOneOwnerHolds == MembershipSpec => []ExactlyOneOwner
  <1>1. MembershipInv => ExactlyOneOwner
    <2> SUFFICES ASSUME MembershipInv, orgVersion > 0
                 PROVE  Cardinality({m \in Members : ActiveMember(m) /\ row[m].role = "owner"}) = 1
        BY DEF ExactlyOneOwner
    <2>1. PICK o \in Members : SoleOwner(row, o)
        BY DEF MembershipInv, Owned
    <2>2. {m \in Members : ActiveMember(m) /\ row[m].role = "owner"} = {o}
        BY <2>1 DEF SoleOwner, MembershipInv, OwnersActive, ActiveMember
    <2>3. QED
        BY <2>2, FS_Singleton
  <1>2. QED
      BY <1>1, MembershipInvariant, PTL

\* AdminRightsFromOwner: validate_delegation, the default capabilities of a promoted
\* administrator and the resets of transfer and removal give nobody else the right
\* to make administrators.
THEOREM AdminRightsFromOwnerHolds == MembershipSpec => []AdminRightsFromOwner
  <1>1. MembershipInv => AdminRightsFromOwner
      BY DEF MembershipInv, RightsGiven, AdminRightsFromOwner, AdminRights
  <1>2. QED
      BY <1>1, MembershipInvariant, PTL

\* What EpochCoversChangesStep says of one member.
Covered(n, o) ==
    n.status # o.status \/ n.role # o.role \/ n.caps # o.caps => n.epoch > o.epoch

LEMMA StepCovered ==
    MembershipInv /\ [MembershipNext]_membershipVars =>
        \A m \in Members : Covered(row'[m], row[m])
  <1> SUFFICES ASSUME MembershipInv, [MembershipNext]_membershipVars
               PROVE  \A m \in Members : Covered(row'[m], row[m])
      OBVIOUS
  <1>1. ASSUME NEW m \in Members, NEW n, RowLater(n, row[m]), row' = [row EXCEPT ![m] = n]
        PROVE  \A k \in Members : Covered(row'[k], row[k])
    <2>1. \A k \in Members : row'[k] = IF k = m THEN n ELSE row[k]
        BY <1>1 DEF MembershipInv, MembershipTypeOK
    <2>2. QED
        BY <1>1, <2>1 DEF Covered, RowLater
  <1>2. row' = row => \A k \in Members : Covered(row'[k], row[k])
      BY DEF Covered
  <1>3. ASSUME NEW m \in Members, CreateOrganization(m)
        PROVE  \A k \in Members : Covered(row'[k], row[k])
      BY <1>1, <1>3, FoundersRowIs DEF CreateOrganization, MembershipInv, MembershipTypeOK
  <1>4. ASSUME NEW m \in Members, JoinAsMember(m)
        PROVE  \A k \in Members : Covered(row'[k], row[k])
      BY <1>1, <1>4, JoinedRowIs DEF JoinAsMember, MembershipInv, MembershipTypeOK
  <1>5. ASSUME NEW r \in Updates, ChangeAdminRole(r)
        PROVE  \A k \in Members : Covered(row'[k], row[k])
    <2>1. /\ change[r].stage = "read" /\ ActiveMember(change[r].target)
          /\ \/ row' = [row EXCEPT ![change[r].target] = PromotedRow(row[change[r].target])]
             \/ row' = [row EXCEPT ![change[r].target] = ReducedRow(row[change[r].target])]
        BY <1>5 DEF ChangeAdminRole, Unchanged, Finished
    <2>2. change[r].target \in Members /\ row[change[r].target] \in RowType
        BY <2>1, WriteReady
    <2>3. QED
        BY <1>1, <2>1, <2>2, PromotedRowIs, ReducedRowIs
  <1>6. ASSUME NEW r \in Updates, ReplaceCapabilities(r)
        PROVE  \A k \in Members : Covered(row'[k], row[k])
    <2> DEFINE c == change[r]
               m == c.target
               granted == ReplacedGrants(c)
    <2>1. /\ c.stage = "read" /\ ActiveMember(m)
          /\ row' = [row EXCEPT ![m] = GrantedRow(row[m], granted)]
        BY <1>6 DEF ReplaceCapabilities, Unchanged, Finished
    <2>2. m \in Members /\ row[m] \in RowType /\ c \in RequestType
        BY <2>1, WriteReady
    <2>3. granted \in SUBSET Capabilities
        BY <2>2 DEF ReplacedGrants, RequestType, RowType
    <2> HIDE DEF granted, m
    <2>4. QED
        BY ZenonT(90), <1>1, <2>1, <2>2, <2>3, GrantedRowIs
  <1>7. ASSUME NEW r \in Updates, UpdateMemberDirectory(r) \/ RemoveMembership(r)
        PROVE  \A k \in Members : Covered(row'[k], row[k])
    <2> DEFINE m == change[r].target
    <2>1. /\ change[r].stage = "read" /\ ActiveMember(m)
          /\ \/ row' = [row EXCEPT ![m] = Bumped(row[m])]
             \/ row' = [row EXCEPT ![m] = RemovedRow(row[m])]
        BY <1>7 DEF UpdateMemberDirectory, RemoveMembership, Unchanged, Finished
    <2>2. m \in Members /\ row[m] \in RowType
        BY <2>1, WriteReady
    <2>3. RowLater(Bumped(row[m]), row[m]) /\ RowLater(RemovedRow(row[m]), row[m])
        BY <2>2, AuthorizedRow, RemovedRowIs DEF RowLater
    <2>4. QED
        BY <1>1, <2>1, <2>2, <2>3
  <1>8. ASSUME NEW r \in Updates, TransferOwnership(r)
        PROVE  \A k \in Members : Covered(row'[k], row[k])
    <2> DEFINE a == change[r].actor
               t == change[r].target
    <2>1. /\ row[a] \in RowType /\ row[t] \in RowType /\ row[a].role = "owner"
          /\ row'[a] = Demoted(row[a]) /\ row'[t] = OwnersRow(row[t])
          /\ \A k \in Members : k \notin {a, t} => row'[k] = row[k]
        BY <1>8, TransferFromOwner
    <2>2. row'[a].epoch > row[a].epoch /\ row'[t].epoch > row[t].epoch
        BY <2>1, DemotedRowIs, OwnersRowIs DEF RowLater
    <2> HIDE DEF a, t
    <2>3. QED
        BY <2>1, <2>2 DEF Covered
  <1>9. CASE row' = row
      BY <1>2, <1>9
  <1>10. QED
      BY ZenonT(90), <1>3, <1>4, <1>5, <1>6, <1>7, <1>8, <1>9
      DEF MembershipNext, UpdateOrganization, BeginChange, ReadTarget, AbortChange,
          membershipVars

\* EpochCoversChanges: no statement of the modelled handlers changes a status, a
\* role or a grant and forgets the epoch; of the one that could, the step down in
\* transfer_ownership, the caller is the owner when it runs.
THEOREM EpochCoversChangesHolds == MembershipSpec => EpochCoversChanges
  <1>1. MembershipInv /\ [MembershipNext]_membershipVars => EpochCoversChangesStep
      BY StepCovered DEF EpochCoversChangesStep, Covered
  <1>2. QED
      BY <1>1, MembershipInvariant, PTL DEF MembershipSpec, EpochCoversChanges

\* MembershipSound, for every number of members and of requests in flight.
THEOREM MembershipSoundHolds == MembershipSpec => MembershipSound
  BY ExactlyOneOwnerHolds, AdminRightsFromOwnerHolds, EpochCoversChangesHolds, PTL
  DEF MembershipSound

----------------------------------------------------------------------------
SsoType ==
    /\ config \in [entitled : BOOLEAN, mapped : BOOLEAN,
                   status : {"active", "pending", "disabled"}]
    /\ DOMAIN connection = Connections
    /\ DOMAIN attempt = Attempts
    /\ \A e \in reports : e.of \in Connections

\* The configuration is active on a connection, of which there is one at most; events
\* come for a mapped organization; and what was voided is neither open nor unused.
SsoInv ==
    /\ SsoType
    /\ \A c, d \in Connections : connection[c] = "active" /\ connection[d] = "active" => c = d
    /\ reports # {} => config.mapped
    /\ config.status = "active" =>
         config.entitled /\ config.mapped /\ ActiveConnections # {}
    /\ \A a \in voided : a \in Attempts /\ attempt[a].status \notin {"pending", "none"}

LEMMA SsoInitial == SingleSignOnInit => SsoInv
BY DEF SingleSignOnInit, SsoInv, SsoType

\* A step that leaves the attempts alone.
LEMMA SsoConfigured ==
    ASSUME SsoInv, UNCHANGED <<attempt, voided>>, SsoType',
           \A c, d \in Connections : connection'[c] = "active" /\ connection'[d] = "active" => c = d,
           reports' # {} => config'.mapped,
           config'.status = "active" =>
             config'.entitled /\ config'.mapped /\ ActiveConnections' # {}
    PROVE  SsoInv'
BY DEF SsoInv

\* A step that leaves the configuration and the connections alone.
LEMMA SsoAttempted ==
    ASSUME SsoInv, UNCHANGED <<config, connection, reports, voided>>,
           DOMAIN attempt' = Attempts,
           \A a \in voided : attempt'[a].status \notin {"pending", "none"}
    PROVE  SsoInv'
BY DEF SsoInv, SsoType, ActiveConnections

LEMMA ReceiveStep ==
    ASSUME SsoInv, NEW e \in reports, Receive(e)
    PROVE  SsoInv'
<1>1. e.of \in Connections /\ config.mapped
  BY DEF SsoInv, SsoType
<1>2. CASE e.kind = "activated"
  <2>1. /\ connection' = [c \in Connections |->
                            IF c = e.of THEN "active"
                            ELSE IF connection[c] = "active" THEN "disabled" ELSE connection[c]]
        /\ config' = [config EXCEPT !.status = IF config.entitled THEN "active" ELSE "disabled"]
        /\ UNCHANGED <<attempt, voided, reports>>
    BY <1>2 DEF Receive, Activated
  <2>2. SsoType'
    BY <2>1 DEF SsoInv, SsoType
  <2>3. \A c \in Connections : connection'[c] = "active" <=> c = e.of
    BY <2>1
  <2>4. config'.mapped /\ (config'.status = "active" => config'.entitled)
    BY <2>1, <1>1 DEF SsoInv, SsoType
  <2>5. e.of \in ActiveConnections'
    BY <2>3, <1>1 DEF ActiveConnections
  <2> QED BY <2>1, <2>2, <2>3, <2>4, <2>5, SsoConfigured
<1>3. CASE e.kind # "activated"
  <2>1. /\ connection' = [connection EXCEPT ![e.of] = IF @ = "absent" THEN "absent" ELSE "disabled"]
        /\ config' = [config EXCEPT !.status = IF config.entitled THEN "pending" ELSE "disabled"]
        /\ UNCHANGED <<attempt, voided, reports>>
    BY <1>3 DEF Receive, Deactivated, Withdrawn
  <2>2. SsoType'
    BY <2>1 DEF SsoInv, SsoType
  <2>3. \A c \in Connections : connection'[c] = "active" => connection[c] = "active"
    BY <2>1 DEF SsoInv, SsoType
  <2>4. config'.mapped /\ config'.status # "active"
    BY <2>1, <1>1 DEF SsoInv, SsoType
  <2> QED BY <2>1, <2>2, <2>3, <2>4, SsoConfigured DEF SsoInv
<1> QED BY <1>2, <1>3

LEMMA SsoStep == SsoInv /\ [SingleSignOnNext]_ssoVars => SsoInv'
<1> SUFFICES ASSUME SsoInv, [SingleSignOnNext]_ssoVars PROVE SsoInv'
  OBVIOUS
<1>1. ASSUME NEW enabled \in BOOLEAN, ReplaceEntitlement(enabled) PROVE SsoInv'
  <2>1. SsoType' /\ config'.mapped = config.mapped /\ config'.entitled = enabled
        /\ UNCHANGED <<connection, reports, attempt, voided>>
    BY <1>1 DEF ReplaceEntitlement, SsoInv, SsoType
  <2>2. config'.status = "active" => enabled /\ config.mapped /\ ActiveConnections # {}
    BY <1>1 DEF ReplaceEntitlement, SsoInv, SsoType
  <2>3. ActiveConnections' = ActiveConnections
    BY <2>1 DEF ActiveConnections
  <2> QED BY <2>1, <2>2, <2>3, SsoConfigured DEF SsoInv
<1>2. CASE FinishSetupLink
  <2>1. SsoType' /\ config'.mapped /\ config'.entitled
        /\ UNCHANGED <<connection, reports, attempt, voided>>
    BY <1>2 DEF FinishSetupLink, SsoInv, SsoType
  <2>2. config'.status = "active" => config.status = "active"
    BY <1>2 DEF FinishSetupLink, SsoInv, SsoType
  <2>3. ActiveConnections' = ActiveConnections
    BY <2>1 DEF ActiveConnections
  <2> QED BY <2>1, <2>2, <2>3, SsoConfigured DEF SsoInv
<1>3. CASE Disable
  <2>1. /\ config' = [config EXCEPT !.status = "disabled"]
        /\ connection' = [c \in Connections |->
             IF connection[c] = "absent" THEN "absent" ELSE "disabled"]
        /\ attempt' = Cancelled
        /\ voided' = {a \in Attempts : attempt[a].status # "none"}
        /\ reports' = reports
    BY <1>3 DEF Disable
  <2>2. SsoType' /\ config'.status # "active" /\ config'.mapped = config.mapped
    BY <2>1 DEF SsoInv, SsoType, Cancelled
  <2>3. \A c \in Connections : connection'[c] # "active"
    BY <2>1
  <2>4. ASSUME NEW a \in voided' PROVE a \in Attempts /\ attempt'[a].status \notin {"pending", "none"}
    <3>1. a \in Attempts /\ attempt[a].status # "none"
      BY <2>1
    <3>2. CASE attempt[a].status = "pending"
      <4>1. attempt'[a] = [attempt[a] EXCEPT !.status = "cancelled"]
        BY <2>1, <3>1, <3>2 DEF Cancelled
      <4> QED BY <3>1, <4>1
    <3>3. CASE attempt[a].status # "pending"
      BY <2>1, <3>1, <3>3 DEF Cancelled
    <3> QED BY <3>2, <3>3
  <2> QED BY <2>1, <2>2, <2>3, <2>4 DEF SsoInv
<1>4. ASSUME NEW kind, NEW c \in Connections, Report(kind, c) PROVE SsoInv'
  <2>1. SsoType' /\ config.mapped /\ UNCHANGED <<config, connection, attempt, voided>>
    BY <1>4 DEF Report, SsoInv, SsoType
  <2> QED BY <2>1, SsoConfigured DEF SsoInv, ActiveConnections
<1>5. ASSUME NEW e \in reports, Receive(e) PROVE SsoInv'
  BY <1>5, ReceiveStep
<1>6. ASSUME NEW a \in Attempts, NEW p \in SsoCarbons, Authorize(a, p) PROVE SsoInv'
  <2>1. PICK c \in ActiveConnections :
          attempt' = [b \in Attempts |->
               IF b = a THEN [status |-> "pending", by |-> p, connection |-> c]
               ELSE IF attempt[b].by = p /\ attempt[b].status = "pending"
                    THEN [attempt[b] EXCEPT !.status = "cancelled"] ELSE attempt[b]]
    BY <1>6 DEF Authorize
  <2>2. attempt[a].status = "none" /\ UNCHANGED <<config, connection, reports, voided>>
    BY <1>6 DEF Authorize, NoAttempt
  <2>3. ASSUME NEW b \in voided PROVE attempt'[b].status \notin {"pending", "none"}
    <3>1. b \in Attempts /\ b # a /\ attempt[b].status \notin {"pending", "none"}
      BY <2>2 DEF SsoInv
    <3>2. attempt'[b] = attempt[b]
      BY <2>1, <3>1
    <3> QED BY <3>1, <3>2
  <2>4. DOMAIN attempt' = Attempts
    BY <2>1
  <2> QED BY <2>2, <2>3, <2>4, SsoAttempted
<1>7. ASSUME NEW a \in Attempts, Expire(a) PROVE SsoInv'
  <2>1. /\ UNCHANGED <<config, connection, reports, voided>>
        /\ DOMAIN attempt' = Attempts
        /\ attempt[a].status = "pending"
        /\ \A b \in Attempts \ {a} : attempt'[b] = attempt[b]
    BY <1>7 DEF Expire, SsoInv, SsoType
  <2> QED BY <2>1, SsoAttempted DEF SsoInv
<1>8. ASSUME NEW a \in Attempts, NEW carbon \in SsoCarbons, Admit(a, carbon) PROVE SsoInv'
  <2>1. /\ UNCHANGED <<config, connection, reports, voided>>
        /\ DOMAIN attempt' = Attempts
        /\ attempt[a].status = "pending"
        /\ \A b \in Attempts \ {a} : attempt'[b] = attempt[b]
    BY <1>8 DEF Admit, StillCorrelated, Correlated, SsoInv, SsoType
  <2> QED BY <2>1, SsoAttempted DEF SsoInv
<1>9. CASE UNCHANGED <<config, connection, attempt, reports, voided>>
  BY <1>9, SsoAttempted DEF SsoInv, SsoType
<1> QED BY <1>1, <1>2, <1>3, <1>4, <1>5, <1>6, <1>7, <1>8, <1>9
        DEF SingleSignOnNext, ssoVars, BeginSetupLink, AbandonSetupLink, FindReady, JoinBySso,
            JoinByEmail, ExchangeCode, Refuse, Remove

THEOREM SsoInvariant == SingleSignOnSpec => []SsoInv
BY SsoInitial, SsoStep, PTL DEF SingleSignOnSpec

LEMMA ActiveIsBacked == SsoInv => SsoActiveBacked
<1> SUFFICES ASSUME SsoInv, config.status = "active"
             PROVE  Cardinality(ActiveConnections) = 1
  BY DEF SsoInv, SsoActiveBacked
<1>1. PICK c \in Connections : connection[c] = "active"
  BY DEF SsoInv, ActiveConnections
<1>2. ActiveConnections = {c}
  BY <1>1 DEF SsoInv, ActiveConnections
<1> QED BY <1>2, FS_Singleton

LEMMA DisabledStaysEnded == SsoInv /\ [SingleSignOnNext]_ssoVars => [DisabledEndsSignInStep]_ssoVars
<1> SUFFICES ASSUME SsoInv, SingleSignOnNext, NEW v \in voided, attempt[v].status # "completed"
             PROVE  attempt'[v].status # "completed"
  BY DEF DisabledEndsSignInStep
<1>0. v \in Attempts /\ attempt[v].status # "pending" /\ DOMAIN attempt = Attempts
  BY DEF SsoInv, SsoType
<1>1. CASE Disable
  BY <1>0, <1>1 DEF Disable, Cancelled
<1>2. ASSUME NEW a \in Attempts, NEW p \in SsoCarbons, Authorize(a, p)
      PROVE  attempt'[v].status # "completed"
  <2>1. PICK c \in ActiveConnections :
          attempt' = [b \in Attempts |->
               IF b = a THEN [status |-> "pending", by |-> p, connection |-> c]
               ELSE IF attempt[b].by = p /\ attempt[b].status = "pending"
                    THEN [attempt[b] EXCEPT !.status = "cancelled"] ELSE attempt[b]]
    BY <1>2 DEF Authorize
  <2> QED BY <1>0, <2>1
<1>3. ASSUME NEW a \in Attempts, Expire(a) PROVE attempt'[v].status # "completed"
  BY <1>0, <1>3 DEF Expire
<1>4. ASSUME NEW a \in Attempts, NEW carbon \in SsoCarbons, Admit(a, carbon)
      PROVE  attempt'[v].status # "completed"
  <2>1. a # v
    BY <1>0, <1>4 DEF Admit, StillCorrelated, Correlated
  <2> QED BY <1>0, <1>4, <2>1 DEF Admit
<1>5. CASE attempt' = attempt
  BY <1>5
<1> QED BY <1>1, <1>2, <1>3, <1>4, <1>5
        DEF SingleSignOnNext, ReplaceEntitlement, BeginSetupLink, FinishSetupLink, AbandonSetupLink,
            FindReady, JoinBySso, JoinByEmail, Report, Receive, ExchangeCode, Refuse, Remove

\* SingleSignOn: however late, repeated or reordered the events of the provider are,
\* the configuration is active only on one active connection, and a sign-in that began
\* before SSO was disabled admits nobody.
THEOREM SsoSoundHolds == SingleSignOnSpec => SsoSound
BY SsoInvariant, ActiveIsBacked, DisabledStaysEnded, PTL
   DEF SsoSound, DisabledEndsSignIn, SingleSignOnSpec

----------------------------------------------------------------------------
Erasing == {"cleaning", "purging"}

States == {"absent", "legacy", "prepared", "active", "disabled", "cleaning", "cleaned",
           "importing", "importing-active", "purging", "purged"}
Statuses == {"active", "deleted"}

TestingType ==
    /\ env \in [state : States, status : Statuses, gen : Nat, key : Nat,
                op : Lifecycles \cup {NoOperation}, adopted : BOOLEAN]
    /\ operation \in [Lifecycles -> [kind : Kinds \cup {"none"}, done : BOOLEAN]]
    /\ runtime \in [gen : Nat, key : Nat, active : BOOLEAN]
    /\ call \in [Instructions -> [at : {"idle", "started", "claimed", "switched"},
                                  op : Lifecycles \cup {NoOperation}, gen : Nat, key : Nat,
                                  active : BOOLEAN]]
    /\ DOMAIN visit = Visits

Pending(o) == operation[o].kind # "none" /\ ~operation[o].done

\* What is under way belongs to the operation that holds the environment.
PendingHolds ==
    \A o \in Lifecycles : Pending(o) =>
        /\ env.op = o
        /\ operation[o].kind = "clean" <=> env.state = "cleaning"
        /\ operation[o].kind = "purge" <=> env.state = "purging"
        /\ env.state \notin {"absent", "legacy", "purged"}

\* Only what was started is finished.
DoneStarted == \A o \in Lifecycles : operation[o].done => operation[o].kind # "none"

ErasingPending == env.state \in Erasing => env.op \in Lifecycles /\ Pending(env.op)

CallsKnown ==
    \A c \in Instructions : call[c].at # "idle" =>
        /\ call[c].op \in Lifecycles
        /\ operation[call[c].op].kind # "none"
        /\ call[c].at \in {"claimed", "switched"} => ~operation[call[c].op].done
        /\ ~operation[call[c].op].done =>
             /\ call[c].gen = env.gen
             /\ env.state \in Erasing => ~call[c].active

Claims(c) == call[c].at \in {"claimed", "switched"}

OneClaim ==
    \A c, d \in Instructions : Claims(c) /\ Claims(d) /\ call[c].op = call[d].op => c = d

\* What the testing database serves and holds, by the state of the environment.
Fence ==
    /\ Managed /\ env.state \notin Erasing =>
         rows \subseteq {Legacy, env.gen} /\ (runtime.active => runtime.gen = env.gen)
    /\ env.state = "purged" => rows \subseteq {Legacy} /\ ~runtime.active
    /\ ~Managed =>
         /\ rows \subseteq {Legacy}
         /\ ~runtime.active
         /\ \A o \in Lifecycles : operation[o].kind = "none"

\* Once the testing database was switched, nothing of the old generation comes back.
NothingReturns == \A c \in Instructions :
    call[c].at = "switched" /\ env.state \in Erasing => rows \subseteq {Legacy} /\ ~runtime.active

TestingInv == /\ TestingType
              /\ PendingHolds
              /\ DoneStarted
              /\ ErasingPending
              /\ CallsKnown
              /\ OneClaim
              /\ Fence
              /\ NothingReturns

LEMMA TestingInitial == TestingInit => TestingInv
BY DEF TestingInit, TestingInv, TestingType, Pending, PendingHolds, DoneStarted, ErasingPending,
       States, Statuses, CallsKnown, OneClaim, Claims, Fence, NothingReturns, Managed, NoCall, Legacy, Erasing, Kinds

\* A step of the organization or of a request: the state, the generation and the
\* operation of the environment stay, and so does everything an instruction does.
LEMMA AroundInstructions ==
    ASSUME TestingInv, TestingType', UNCHANGED <<operation, call, runtime>>,
           env'.gen = env.gen, env'.op = env.op,
           \/ env'.state = env.state
           \/ ~Managed /\ ~Managed' /\ env'.state # "purged",
           rows' \subseteq rows \/ (rows' \subseteq rows \cup {Legacy, runtime.gen}
                                       /\ (~runtime.active => rows' \subseteq rows \cup {Legacy}))
    PROVE  TestingInv'
<1>1. PendingHolds'
  BY DEF TestingInv, PendingHolds, Pending, Fence, Managed
<1>0. DoneStarted'
  BY DEF TestingInv, DoneStarted
<1>2. ErasingPending'
  BY DEF TestingInv, ErasingPending, Pending, Managed, Erasing
<1>3. CallsKnown'
  BY DEF TestingInv, CallsKnown, Managed, Erasing
<1>4. OneClaim'
  BY DEF TestingInv, OneClaim, Claims
<1>5. Fence'
  BY DEF TestingInv, Fence, Managed, Erasing
<1>6. NothingReturns'
  BY DEF TestingInv, NothingReturns, Managed, Erasing
<1> QED BY <1>0, <1>1, <1>2, <1>3, <1>4, <1>5, <1>6 DEF TestingInv

\* The routes of the organization.
LEMMA RoutesStep ==
    ASSUME TestingInv,
           Create \/ DeleteEnvironment \/ RestoreEnvironment \/ RotateEnvironmentKey \/ CleanEnvironment
    PROVE  TestingInv'
<1> USE DEF TestingInv, TestingType, States, Statuses
<1>1. CASE Create
  <2>1. env' \in [state : States, status : Statuses, gen : Nat, key : Nat,
                   op : Lifecycles \cup {NoOperation}, adopted : BOOLEAN]
    BY <1>1 DEF Create
  <2> QED BY <1>1, <2>1, AroundInstructions DEF Create, Managed
<1>2. CASE DeleteEnvironment
  BY <1>2, AroundInstructions DEF DeleteEnvironment
<1>3. CASE RestoreEnvironment
  BY <1>3, AroundInstructions DEF RestoreEnvironment
<1>4. CASE RotateEnvironmentKey
  <2>1. env' = [env EXCEPT !.key = env.key + 1] /\ env.key + 1 \in Nat
    BY <1>4 DEF RotateEnvironmentKey
  <2> QED BY <1>4, <2>1, AroundInstructions DEF RotateEnvironmentKey
<1>5. CASE CleanEnvironment
  BY <1>5, AroundInstructions DEF CleanEnvironment
<1> QED BY <1>1, <1>2, <1>3, <1>4, <1>5

\* Requests of the data plane.
LEMMA VisitStep ==
    ASSUME TestingInv, NEW v \in Visits, Resolve(v) \/ WriteRow(v) \/ Leave(v)
    PROVE  TestingInv'
<1> USE DEF TestingInv, TestingType, States, Statuses
<1>1. CASE Resolve(v)
  BY <1>1, AroundInstructions DEF Resolve
<1>2. CASE WriteRow(v)
  <2>1. visit[v].gen = Legacy \/ (runtime.active /\ visit[v].gen = runtime.gen)
    BY <1>2 DEF WriteRow, Admitted
  <2> QED BY <1>2, <2>1, AroundInstructions DEF WriteRow
<1>3. CASE Leave(v)
  BY <1>3, AroundInstructions DEF Leave
<1> QED BY <1>1, <1>2, <1>3

\* A new instruction finds nothing under way: what had been claimed is finished.
LEMMA StartStep ==
    ASSUME TestingInv, NEW c \in Instructions, NEW o \in Lifecycles, NEW kind \in Kinds,
           Start(c, o, kind)
    PROVE  TestingInv'
<1> DEFINE started == Started(kind, o)
<1>1. /\ started.gen = IF kind = "clean" THEN env.gen + 1 ELSE env.gen
      /\ started.op = o
      /\ started.state = "cleaning" <=> kind = "clean"
      /\ started.state = "purging" <=> kind = "purge"
      /\ started.state \notin {"absent", "legacy", "purged"}
  BY ZenonT(90) DEF Started, Start, Startable, Kinds, TestingInv, TestingType, States, Statuses
<1>2. started \in [state : States, status : Statuses, gen : Nat, key : Nat,
                  op : Lifecycles \cup {NoOperation}, adopted : BOOLEAN]
  BY DEF Started, Start, Startable, Kinds, TestingInv, TestingType, States, Statuses
<1>3. /\ env' = started
      /\ operation' = [operation EXCEPT ![o].kind = kind]
      /\ call' = [call EXCEPT ![c] =
             [at |-> "started", op |-> o, gen |-> started.gen, key |-> started.key,
              active |-> started.state \in {"active", "importing-active"}]]
      /\ call[c] = NoCall /\ operation[o].kind = "none" /\ Unoccupied /\ Startable(kind)
      /\ UNCHANGED <<runtime, visit, rows>>
  BY DEF Start, Continue
<1> HIDE DEF started
<1>4. \A q \in Lifecycles : ~Pending(q)
  BY <1>3 DEF TestingInv, PendingHolds, Unoccupied, Pending
<1>5. \A q \in Lifecycles : /\ operation'[q].kind = IF q = o THEN kind ELSE operation[q].kind
                            /\ operation'[q].done = operation[q].done
  BY <1>3 DEF TestingInv, TestingType
<1>6. kind # "none"
  BY DEF Kinds
<1>7. \A d \in Instructions : d # c => call'[d] = call[d]
  BY <1>3 DEF TestingInv, TestingType
<1>8. /\ call'[c].at = "started" /\ call'[c].op = o /\ call'[c].gen = started.gen
      /\ call'[c].active = (started.state \in {"active", "importing-active"})
  BY <1>3 DEF TestingInv, TestingType
<1>9. \A d \in Instructions : call[d].at # "idle" => call[d].op # o /\ operation[call[d].op].done
  BY <1>3, <1>4 DEF TestingInv, CallsKnown, TestingType, Pending
<1>10. TestingType'
  <2>1. operation' \in [Lifecycles -> [kind : Kinds \cup {"none"}, done : BOOLEAN]]
    BY <1>3 DEF TestingInv, TestingType
  <2>2. call' \in [Instructions -> [at : {"idle", "started", "claimed", "switched"},
                                    op : Lifecycles \cup {NoOperation}, gen : Nat, key : Nat,
                                    active : BOOLEAN]]
    BY <1>2, <1>3 DEF TestingInv, TestingType
  <2> QED BY <1>2, <1>3, <2>1, <2>2 DEF TestingInv, TestingType
<1>11. PendingHolds'
  BY <1>1, <1>3, <1>4, <1>5, <1>6 DEF PendingHolds, Pending
<1>12. ErasingPending'
  <2>2. ~operation[o].done
    BY <1>3 DEF TestingInv, DoneStarted
  <2> QED BY <1>1, <1>3, <1>5, <1>6, <2>2 DEF ErasingPending, Pending
<1>17. DoneStarted'
  BY <1>5, <1>6 DEF TestingInv, DoneStarted
<1>13. CallsKnown'
  <2>1. /\ call'[c].op = o /\ operation'[o].kind # "none" /\ ~(call'[c].at \in {"claimed", "switched"})
        /\ call'[c].gen = env'.gen
        /\ env'.state \in Erasing => ~call'[c].active
    BY <1>3, <1>5, <1>6, <1>8 DEF Erasing
  <2>2. ASSUME NEW d \in Instructions, d # c, call[d].at # "idle"
        PROVE  /\ call[d].op \in Lifecycles
               /\ operation'[call[d].op].kind # "none"
               /\ call[d].at \notin {"claimed", "switched"}
               /\ operation'[call[d].op].done
    BY <1>5, <1>6, <1>9, <2>2 DEF TestingInv, CallsKnown
  <2> QED BY <1>7, <2>1, <2>2 DEF CallsKnown
<1>14. OneClaim'
  BY <1>7, <1>8 DEF TestingInv, OneClaim, Claims
<1>15. Fence'
  BY <1>1, <1>3 DEF TestingInv, Fence, Managed, Startable, Erasing
<1>16. NothingReturns'
  BY <1>7, <1>8, <1>9, <1>3 DEF TestingInv, NothingReturns, CallsKnown, TestingType
<1> QED BY <1>10, <1>17, <1>11, <1>12, <1>13, <1>14, <1>15, <1>16 DEF TestingInv

\* A step of one instruction that leaves the environment and its rows alone.
LEMMA CallStep ==
    ASSUME TestingInv, UNCHANGED <<env, operation, runtime, visit, rows>>, NEW c \in Instructions,
           NEW h \in [at : {"idle", "started", "claimed"}, op : Lifecycles \cup {NoOperation},
                      gen : Nat, key : Nat, active : BOOLEAN],
           call' = [call EXCEPT ![c] = h],
           h.at # "idle" =>
             /\ h.op \in Lifecycles
             /\ operation[h.op].kind # "none"
             /\ ~operation[h.op].done
             /\ h.gen = env.gen
             /\ env.state \in Erasing => ~h.active,
           h.at = "claimed" => \A d \in Instructions : call[d].op = h.op => ~Claims(d)
    PROVE  TestingInv'
<1>1. /\ call'[c] = h
      /\ \A d \in Instructions : d # c => call'[d] = call[d]
  BY DEF TestingInv, TestingType
<1>2. TestingType'
  BY DEF TestingInv, TestingType
<1>3. CallsKnown'
  BY <1>1 DEF TestingInv, CallsKnown
<1>4. OneClaim'
  BY <1>1 DEF TestingInv, OneClaim, Claims
<1>5. NothingReturns'
  BY <1>1 DEF TestingInv, NothingReturns
<1>6. PendingHolds' /\ DoneStarted' /\ ErasingPending' /\ Fence'
  BY DEF TestingInv, PendingHolds, Pending, DoneStarted, ErasingPending, Fence, Managed
<1> QED BY <1>2, <1>3, <1>4, <1>5, <1>6 DEF TestingInv

LEMMA RepeatStep ==
    ASSUME TestingInv, NEW c \in Instructions, NEW o \in Lifecycles, Repeat(c, o)
    PROVE  TestingInv'
<1> DEFINE h == [at |-> "started", op |-> o, gen |-> env.gen, key |-> env.key,
                 active |-> env.state \in {"active", "importing-active"}]
<1>1. h \in [at : {"idle", "started", "claimed"}, op : Lifecycles \cup {NoOperation},
             gen : Nat, key : Nat, active : BOOLEAN]
  BY DEF TestingInv, TestingType
<1>2. call' = [call EXCEPT ![c] = h] /\ UNCHANGED <<env, operation, runtime, visit, rows>>
  BY DEF Repeat, Continue
<1>3. /\ h.at = "started" /\ h.op = o /\ h.gen = env.gen
      /\ env.state \in Erasing => ~h.active
  BY DEF Erasing
<1>4. operation[o].kind # "none" /\ ~operation[o].done
  BY DEF Repeat
<1> HIDE DEF h
<1> QED BY <1>1, <1>2, <1>3, <1>4, CallStep

LEMMA ClaimAgainStep ==
    ASSUME TestingInv, NEW c \in Instructions, ClaimAgain(c)
    PROVE  TestingInv'
<1> DEFINE h == IF operation[call[c].op].done THEN NoCall ELSE [call[c] EXCEPT !.at = "claimed"]
<1>1. /\ h \in [at : {"idle", "started", "claimed"}, op : Lifecycles \cup {NoOperation},
                gen : Nat, key : Nat, active : BOOLEAN]
      /\ h.at # "idle" => /\ h.at = "claimed" /\ h.op = call[c].op /\ h.gen = call[c].gen
                          /\ h.active = call[c].active
                          /\ ~operation[call[c].op].done
  <2>1. CASE operation[call[c].op].done
    BY <2>1 DEF NoCall
  <2>2. CASE ~operation[call[c].op].done
    BY <2>2 DEF TestingInv, TestingType
  <2> QED BY <2>1, <2>2
<1>2. /\ call' = [call EXCEPT ![c] = h] /\ UNCHANGED <<env, operation, runtime, visit, rows>>
      /\ call[c].at = "started"
      /\ \A d \in Instructions : call[d].op = call[c].op => ~Claims(d)
  BY DEF ClaimAgain, Claims
<1> HIDE DEF h
<1>3. /\ call[c].op \in Lifecycles /\ operation[call[c].op].kind # "none"
      /\ ~operation[call[c].op].done =>
           call[c].gen = env.gen /\ (env.state \in Erasing => ~call[c].active)
  BY <1>2 DEF TestingInv, CallsKnown
<1> QED BY <1>1, <1>2, <1>3, CallStep

LEMMA AbortStep ==
    ASSUME TestingInv, NEW c \in Instructions, Abort(c)
    PROVE  TestingInv'
<1>1. /\ NoCall \in [at : {"idle", "started", "claimed"}, op : Lifecycles \cup {NoOperation},
                     gen : Nat, key : Nat, active : BOOLEAN]
      /\ NoCall.at = "idle"
  BY DEF NoCall
<1> QED BY <1>1, CallStep DEF Abort

\* An instruction that has claimed its operation holds the environment.
LEMMA ClaimHolds ==
    ASSUME TestingInv, NEW c \in Instructions, Claims(c)
    PROVE  /\ call[c].op \in Lifecycles /\ Pending(call[c].op) /\ env.op = call[c].op
           /\ call[c].gen = env.gen
           /\ env.state \in Erasing => ~call[c].active
           /\ env.state \in Erasing <=> ErasedBy(operation[call[c].op].kind)
           /\ env.state \notin {"absent", "legacy", "purged"}
<1>1. /\ call[c].op \in Lifecycles /\ Pending(call[c].op)
      /\ call[c].gen = env.gen /\ (env.state \in Erasing => ~call[c].active)
  BY DEF TestingInv, CallsKnown, Claims, Pending
<1> QED BY <1>1 DEF TestingInv, PendingHolds, Erasing, ErasedBy

LEMMA SwitchStep ==
    ASSUME TestingInv, NEW c \in Instructions, SwitchRuntime(c)
    PROVE  TestingInv'
<1>1. /\ call[c].at = "claimed"
      /\ runtime' = [gen |-> call[c].gen, key |-> call[c].key, active |-> call[c].active]
      /\ rows' = IF ErasedBy(operation[call[c].op].kind) THEN {}
                 ELSE IF operation[call[c].op].kind = "import" THEN rows \cup {call[c].gen} ELSE rows
      /\ call' = [call EXCEPT ![c].at = "switched"]
      /\ UNCHANGED <<env, operation, visit>>
  BY DEF SwitchRuntime
<1>2. /\ call[c].op \in Lifecycles /\ Pending(call[c].op) /\ env.op = call[c].op
      /\ call[c].gen = env.gen
      /\ env.state \in Erasing => ~call[c].active
      /\ env.state \in Erasing <=> ErasedBy(operation[call[c].op].kind)
      /\ env.state \notin {"absent", "legacy", "purged"}
  BY <1>1, ClaimHolds DEF Claims
<1>3. \A d \in Instructions :
        /\ call'[d].op = call[d].op /\ call'[d].gen = call[d].gen /\ call'[d].active = call[d].active
        /\ call'[d].at = IF d = c THEN "switched" ELSE call[d].at
  BY <1>1 DEF TestingInv, TestingType
<1>4. /\ runtime'.gen = env.gen /\ runtime'.active = call[c].active
  BY <1>1, <1>2
<1>5. TestingType'
  <2>1. runtime' \in [gen : Nat, key : Nat, active : BOOLEAN]
    BY <1>1 DEF TestingInv, TestingType
  <2>2. call' \in [Instructions -> [at : {"idle", "started", "claimed", "switched"},
                                    op : Lifecycles \cup {NoOperation}, gen : Nat, key : Nat,
                                    active : BOOLEAN]]
    BY <1>1 DEF TestingInv, TestingType
  <2> QED BY <1>1, <2>1, <2>2 DEF TestingInv, TestingType
<1>6. CallsKnown'
  BY <1>1, <1>3 DEF TestingInv, CallsKnown
<1>7. OneClaim'
  BY <1>1, <1>3 DEF TestingInv, OneClaim, Claims
<1>8. Fence'
  BY <1>1, <1>2, <1>4 DEF TestingInv, Fence, Managed
<1>9. NothingReturns'
  BY <1>1, <1>2, <1>4 DEF NothingReturns
<1>10. PendingHolds' /\ DoneStarted' /\ ErasingPending'
  BY <1>1 DEF TestingInv, PendingHolds, Pending, DoneStarted, ErasingPending
<1> QED BY <1>5, <1>6, <1>7, <1>8, <1>9, <1>10 DEF TestingInv

LEMMA FinishStep ==
    ASSUME TestingInv, NEW c \in Instructions, Finish(c)
    PROVE  TestingInv'
<1> DEFINE o == call[c].op
           after == CASE env.state = "cleaning" -> "cleaned"
                      [] env.state = "importing" -> "prepared"
                      [] env.state = "importing-active" -> "active"
                      [] env.state = "purging" -> "purged"
                      [] OTHER -> env.state
<1>1. /\ call[c].at = "switched"
      /\ env' = [env EXCEPT !.state = after]
      /\ operation' = [operation EXCEPT ![o].done = TRUE]
      /\ call' = [call EXCEPT ![c] = NoCall]
      /\ UNCHANGED <<runtime, visit, rows>>
  BY DEF Finish
<1>2. /\ o \in Lifecycles /\ Pending(o) /\ env.op = o
      /\ env.state \in Erasing <=> ErasedBy(operation[o].kind)
      /\ env.state \notin {"absent", "legacy", "purged"}
  BY <1>1, ClaimHolds DEF Claims
<1>3. /\ after \in States /\ after \notin {"cleaning", "purging", "absent", "legacy"}
      /\ after = "purged" => env.state = "purging"
  BY <1>2 DEF TestingInv, TestingType, States
<1> HIDE DEF after
<1>4. /\ env'.state = after /\ env'.gen = env.gen /\ env'.op = env.op
  BY <1>1 DEF TestingInv, TestingType
<1>5. /\ operation'[o].kind = operation[o].kind /\ operation'[o].done
      /\ \A q \in Lifecycles : q # o => operation'[q] = operation[q]
  BY <1>1, <1>2 DEF TestingInv, TestingType
<1>6. /\ call'[c] = NoCall
      /\ \A d \in Instructions : d # c => call'[d] = call[d]
  BY <1>1 DEF TestingInv, TestingType
<1>7. \A q \in Lifecycles : ~Pending(q)'
  BY <1>2, <1>5 DEF TestingInv, PendingHolds, Pending
<1>8. TestingType'
  <2>1. NoCall \in [at : {"idle", "started", "claimed", "switched"},
                    op : Lifecycles \cup {NoOperation}, gen : Nat, key : Nat, active : BOOLEAN]
    BY DEF NoCall
  <2>2. env' \in [state : States, status : Statuses, gen : Nat, key : Nat,
                  op : Lifecycles \cup {NoOperation}, adopted : BOOLEAN]
    BY <1>1, <1>3 DEF TestingInv, TestingType
  <2>3. operation' \in [Lifecycles -> [kind : Kinds \cup {"none"}, done : BOOLEAN]]
    BY ZenonT(90), <1>1 DEF TestingInv, TestingType
  <2>4. call' \in [Instructions -> [at : {"idle", "started", "claimed", "switched"},
                                    op : Lifecycles \cup {NoOperation}, gen : Nat, key : Nat,
                                    active : BOOLEAN]]
    BY <1>1, <2>1 DEF TestingInv, TestingType
  <2> QED BY <1>1, <2>2, <2>3, <2>4 DEF TestingInv, TestingType
<1>9. PendingHolds' /\ ErasingPending' /\ DoneStarted'
  <2>1. PendingHolds'
    BY <1>7 DEF PendingHolds
  <2>2. ErasingPending'
    BY <1>3, <1>4 DEF ErasingPending, Erasing
  <2>3. DoneStarted'
    BY <1>2, <1>5 DEF TestingInv, DoneStarted, Pending
  <2> QED BY <2>1, <2>2, <2>3
<1>10. CallsKnown'
  <2>1. ASSUME NEW d \in Instructions, d # c, call[d].at # "idle"
        PROVE  /\ call[d].op \in Lifecycles
               /\ operation'[call[d].op].kind # "none"
               /\ call[d].at \notin {"claimed", "switched"}
               /\ operation'[call[d].op].done
    <3>1. call[d].op \in Lifecycles /\ operation[call[d].op].kind # "none"
      BY <2>1 DEF TestingInv, CallsKnown
    <3>2. operation'[call[d].op].kind # "none" /\ operation'[call[d].op].done
      BY <3>1, <1>5, <1>7 DEF Pending
    <3>3. ~Claims(d)
      <4>1. SUFFICES ASSUME Claims(d) PROVE FALSE
        OBVIOUS
      <4>2. call[d].op = o
        BY <4>1, <1>2, ClaimHolds
      <4> QED BY <4>1, <4>2, <1>1, <2>1 DEF TestingInv, OneClaim, Claims
    <3> QED BY <3>1, <3>2, <3>3 DEF Claims
  <2> QED BY <1>6, <2>1 DEF CallsKnown, NoCall
<1>11. OneClaim'
  BY <1>6 DEF TestingInv, OneClaim, Claims, NoCall
<1>12. Fence'
  <2>1. CASE env.state \in Erasing
    BY <2>1, <1>1, <1>3, <1>4 DEF TestingInv, NothingReturns, Fence, Managed
  <2>2. CASE env.state \notin Erasing
    BY <2>2, <1>1, <1>2, <1>3, <1>4 DEF TestingInv, Fence, Managed, Erasing
  <2> QED BY <2>1, <2>2
<1>13. NothingReturns'
  BY <1>3, <1>4 DEF NothingReturns, Erasing
<1> QED BY <1>8, <1>9, <1>10, <1>11, <1>12, <1>13 DEF TestingInv

----------------------------------------------------------------------------

\* TestingEnvironment: the operation that is under way holds the environment, and until
\* it has switched and erased the testing database nothing new is admitted there.
THEOREM TestingInvariant == TestingSpec => []TestingInv
<1>1. ASSUME TestingInv, UNCHANGED testingVars PROVE TestingInv'
  BY <1>1 DEF testingVars, TestingInv, TestingType, Pending, PendingHolds, DoneStarted,
              ErasingPending, CallsKnown, OneClaim, Claims, Fence, NothingReturns, Managed
<1>2. ASSUME TestingInv, TestingNext PROVE TestingInv'
  BY <1>2, RoutesStep, VisitStep, StartStep, RepeatStep, ClaimAgainStep, SwitchStep, FinishStep,
     AbortStep DEF TestingNext
<1> QED BY TestingInitial, <1>1, <1>2, PTL DEF TestingSpec

\* Only the instruction that has claimed a cleaning or a purge erases rows.
LEMMA ErasesAsHolder ==
    TestingInv /\ [TestingNext]_testingVars => NoLateErasureStep
<1> SUFFICES ASSUME TestingInv, [TestingNext]_testingVars, NEW c \in Instructions,
                    call[c].at = "claimed", call'[c].at = "switched", rows' = {}, rows # {}
             PROVE  env.op = call[c].op /\ env.state \in {"cleaning", "purging"}
  BY DEF NoLateErasureStep
<1>1. PICK d \in Instructions : SwitchRuntime(d)
  <2>1. ASSUME NEW d \in Instructions, ~SwitchRuntime(d),
               \/ \E o \in Lifecycles : Repeat(d, o) \/ \E kind \in Kinds : Start(d, o, kind)
               \/ ClaimAgain(d) \/ SwitchRuntime(d) \/ Finish(d) \/ Abort(d)
        PROVE  call'[c].at # "switched"
    <3>1. \E h : call' = [call EXCEPT ![d] = h] /\ h.at # "switched"
      <4>1. ASSUME NEW o \in Lifecycles, NEW started, Continue(d, o, started)
            PROVE  \E h : call' = [call EXCEPT ![d] = h] /\ h.at # "switched"
        BY <4>1 DEF Continue
      <4>2. CASE ClaimAgain(d)
        <5>1. call[d] \in [at : {"idle", "started", "claimed", "switched"},
                           op : Lifecycles \cup {NoOperation}, gen : Nat, key : Nat,
                           active : BOOLEAN]
          BY DEF TestingInv, TestingType
        <5>2. CASE operation[call[d].op].done
          BY <4>2, <5>2 DEF ClaimAgain, NoCall
        <5>3. CASE ~operation[call[d].op].done
          <6>1. call' = [call EXCEPT ![d] = [call[d] EXCEPT !.at = "claimed"]]
            BY <4>2, <5>3 DEF ClaimAgain
          <6>2. [call[d] EXCEPT !.at = "claimed"].at # "switched"
            BY <5>1
          <6> QED BY <6>1, <6>2
        <5> QED BY <5>2, <5>3
      <4>3. CASE Finish(d) \/ Abort(d)
        BY <4>3 DEF Finish, Abort, NoCall
      <4> QED BY <2>1, <4>1, <4>2, <4>3 DEF Repeat, Start
    <3>2. PICK h : call' = [call EXCEPT ![d] = h] /\ h.at # "switched"
      BY <3>1
    <3> QED BY <3>2 DEF TestingInv, TestingType
  <2>2. CASE call' = call
    BY <2>2
  <2> QED BY <2>1, <2>2 DEF TestingNext, testingVars, Create, DeleteEnvironment, RestoreEnvironment,
              RotateEnvironmentKey, CleanEnvironment, Resolve, WriteRow, Leave
<1>2. d = c
  BY <1>1 DEF SwitchRuntime, TestingInv, TestingType
<1>3. ErasedBy(operation[call[c].op].kind)
  BY <1>1, <1>2 DEF SwitchRuntime
<1> QED BY <1>3, ClaimHolds DEF Claims, Erasing

\* TestingEnvironment: a managed environment holds rows of its current generation only,
\* none after a purge, and no retry erases what was activated later.
THEOREM EnvironmentSoundHolds == TestingSpec => EnvironmentSound
<1>1. TestingInv => GenerationFenced
  BY DEF TestingInv, Fence, GenerationFenced, Erasing, Managed
<1> QED BY TestingInvariant, ErasesAsHolder, <1>1, PTL
        DEF EnvironmentSound, NoLateErasure, TestingSpec

----------------------------------------------------------------------------
CreationType ==
    /\ record \in [Ids -> {"absent", "active", "deleted"}]
    /\ replies \in [CreationKeys -> Ids \cup {NoEnvironment}]
    /\ creation \in [CreationCalls ->
          [at : {"idle", "claimed", "locked", "imported", "late", "failed", "erasing"},
           key : CreationKeys \cup {"none"}, env : Ids \cup {NoEnvironment}, own : BOOLEAN]]

\* What holds of a handler whose transaction is open: its key has no response yet.
WritesUnanswered ==
    \A c \in CreationCalls : Writing(c) =>
        /\ creation[c].key \in CreationKeys
        /\ creation[c].env \in Ids
        /\ replies[creation[c].key] = NoEnvironment
        /\ Committable(c) => creation[c].env \in imports \cup cleaned

OneWriterPerKey ==
    \A c, d \in CreationCalls :
        Writing(c) /\ Writing(d) /\ creation[c].key = creation[d].key => c = d

\* Every record that was drawn is the answer to a key.
ReplyBacked ==
    \A e \in FreshIds : record[e] # "absent" => \E k \in CreationKeys : replies[k] = e

CreationInv == CreationType /\ WritesUnanswered /\ OneWriterPerKey /\ ReplyBacked /\ LinkedHoldsImports

LEMMA CreationInitial == CreationInit => CreationInv
BY CreationAssumption
   DEF CreationInit, CreationInv, CreationType, WritesUnanswered, OneWriterPerKey, ReplyBacked,
       LinkedHoldsImports, Writing, NotCreating, Ids

\* A handler moves on and the databases only gain imports.
LEMMA HandlerStep ==
    ASSUME CreationInv, UNCHANGED <<record, linked, cleaned, replies>>, imports \subseteq imports',
           NEW c \in CreationCalls,
           NEW h \in [at : {"idle", "claimed", "locked", "imported", "late", "failed", "erasing"},
                      key : CreationKeys \cup {"none"}, env : Ids \cup {NoEnvironment}, own : BOOLEAN],
           creation' = [creation EXCEPT ![c] = h],
           h.at \in {"claimed", "locked", "imported", "late"} =>
             /\ h.key \in CreationKeys
             /\ h.env \in Ids
             /\ replies[h.key] = NoEnvironment
             /\ h.at \in {"imported", "late"} => h.env \in imports' \cup cleaned
             /\ \A d \in CreationCalls : Writing(d) /\ creation[d].key = h.key => d = c
    PROVE  CreationInv'
<1>1. creation'[c] = h /\ \A d \in CreationCalls : d # c => creation'[d] = creation[d]
  BY DEF CreationInv, CreationType
<1>2. CreationType'
  BY DEF CreationInv, CreationType
<1>3. WritesUnanswered'
  BY <1>1 DEF CreationInv, WritesUnanswered, Writing, Committable
<1>4. OneWriterPerKey'
  BY <1>1 DEF CreationInv, OneWriterPerKey, Writing
<1>5. ReplyBacked' /\ LinkedHoldsImports'
  BY DEF CreationInv, ReplyBacked, LinkedHoldsImports
<1> QED BY <1>2, <1>3, <1>4, <1>5 DEF CreationInv

LEMMA OpenStep ==
    ASSUME CreationInv, NEW c \in CreationCalls, NEW k \in CreationKeys,
           PresentKey(c, k) \/ \E e \in FreshIds : CreateRecord(c, k, e)
    PROVE  CreationInv'
<1>1. PICK e \in Ids, own \in BOOLEAN :
        /\ KeyUnclaimed(k) /\ Unanswered(k)
        /\ creation' = [creation EXCEPT ![c] = [at |-> "claimed", key |-> k, env |-> e, own |-> own]]
        /\ UNCHANGED <<record, linked, imports, cleaned, replies>>
  BY DEF PresentKey, CreateRecord, Ids
<1>2. \A d \in CreationCalls : Writing(d) => creation[d].key # k
  BY <1>1 DEF KeyUnclaimed
<1> QED BY <1>1, <1>2, HandlerStep DEF Unanswered

LEMMA LockStep ==
    ASSUME CreationInv, NEW c \in CreationCalls, LockRecord(c) \/ CommitImports(c)
    PROVE  CreationInv'
<1>1. PICK at \in {"locked", "imported"} :
        /\ creation' = [creation EXCEPT ![c] = [creation[c] EXCEPT !.at = at]]
        /\ Writing(c)
        /\ UNCHANGED <<record, linked, cleaned, replies>>
        /\ imports \subseteq imports'
        /\ at = "imported" => creation[c].env \in imports'
  <2>1. CASE LockRecord(c)
    BY <2>1 DEF LockRecord, Writing
  <2>2. CASE CommitImports(c)
    BY <2>2 DEF CommitImports, Writing
  <2> QED BY <2>1, <2>2
<1> DEFINE h == [creation[c] EXCEPT !.at = at]
<1>2. /\ h \in [at : {"idle", "claimed", "locked", "imported", "late", "failed", "erasing"},
                key : CreationKeys \cup {"none"}, env : Ids \cup {NoEnvironment}, own : BOOLEAN]
      /\ h.at = at /\ h.key = creation[c].key /\ h.env = creation[c].env
  BY DEF CreationInv, CreationType
<1>3. /\ creation[c].key \in CreationKeys /\ creation[c].env \in Ids
      /\ replies[creation[c].key] = NoEnvironment
  BY <1>1 DEF CreationInv, WritesUnanswered
<1>4. \A d \in CreationCalls : Writing(d) /\ creation[d].key = creation[c].key => d = c
  BY <1>1 DEF CreationInv, OneWriterPerKey
<1>5. creation' = [creation EXCEPT ![c] = h]
  BY <1>1
<1> HIDE DEF h
<1>6. /\ h.key \in CreationKeys /\ h.env \in Ids /\ replies[h.key] = NoEnvironment
      /\ h.at \in {"imported", "late"} => h.env \in imports' \cup cleaned
      /\ \A d \in CreationCalls : Writing(d) /\ creation[d].key = h.key => d = c
  BY <1>1, <1>2, <1>3, <1>4
<1>7. UNCHANGED <<record, linked, cleaned, replies>> /\ imports \subseteq imports'
  BY <1>1
<1> QED BY <1>2, <1>5, <1>6, <1>7, HandlerStep

\* The handler of a failed or finished transaction writes nothing any more.
LEMMA LeaveStep ==
    ASSUME CreationInv, UNCHANGED <<record, linked, imports, cleaned, replies>>, NEW c \in CreationCalls,
           \/ creation' \in {[creation EXCEPT ![c] = after] : after \in {AfterError(c), NotCreating}}
           \/ creation[c].at = "failed" /\ creation' = [creation EXCEPT ![c].at = "erasing"]
    PROVE  CreationInv'
<1> DEFINE Rec == [at : {"idle", "claimed", "locked", "imported", "late", "failed", "erasing"},
                   key : CreationKeys \cup {"none"}, env : Ids \cup {NoEnvironment}, own : BOOLEAN]
<1>0. creation[c] \in Rec
  BY DEF CreationInv, CreationType
<1>1. NotCreating \in Rec /\ NotCreating.at = "idle"
  BY DEF NotCreating
<1>2. AfterError(c) \in Rec /\ AfterError(c).at \in {"idle", "failed"}
  BY <1>0, <1>1 DEF AfterError
<1>3. [creation[c] EXCEPT !.at = "erasing"] \in Rec /\ [creation[c] EXCEPT !.at = "erasing"].at = "erasing"
  BY <1>0
<1>4. PICK h \in Rec : creation' = [creation EXCEPT ![c] = h] /\ h.at \in {"idle", "failed", "erasing"}
  BY <1>1, <1>2, <1>3
<1> QED BY <1>4, HandlerStep

LEMMA LoseReplyStep ==
    ASSUME CreationInv, NEW c \in CreationCalls, NEW d \in CreationCalls \ {c}, LoseReply(c, d)
    PROVE  CreationInv'
<1> DEFINE Rec == [at : {"idle", "claimed", "locked", "imported", "late", "failed", "erasing"},
                   key : CreationKeys \cup {"none"}, env : Ids \cup {NoEnvironment}, own : BOOLEAN]
<1>0. creation[c] \in Rec
  BY DEF CreationInv, CreationType
<1>1. AfterError(c) \in Rec /\ AfterError(c).at \in {"idle", "failed"}
  BY <1>0 DEF AfterError, NotCreating
<1>2. /\ creation' = [creation EXCEPT ![c] = [creation[c] EXCEPT !.at = "late"], ![d] = AfterError(c)]
      /\ UNCHANGED <<record, linked, imports, cleaned, replies>>
      /\ creation[c].at = "imported"
  BY DEF LoseReply
<1> DEFINE h == [creation[c] EXCEPT !.at = "late"]
<1>3. h \in Rec /\ h.at = "late" /\ h.key = creation[c].key /\ h.env = creation[c].env
  BY <1>0
<1> HIDE DEF h
<1>4. /\ creation'[c] = h /\ creation'[d] = AfterError(c)
      /\ \A e \in CreationCalls : e # c /\ e # d => creation'[e] = creation[e]
  BY <1>2 DEF CreationInv, CreationType, h
<1>5. CreationType'
  BY <1>1, <1>2, <1>3 DEF CreationInv, CreationType, h
<1>6. WritesUnanswered'
  <2>1. ~Writing(d)'
    BY <1>1, <1>4 DEF Writing
  <2>2. /\ creation[c].key \in CreationKeys /\ creation[c].env \in Ids
        /\ replies[creation[c].key] = NoEnvironment
        /\ creation[c].env \in imports \cup cleaned
    BY <1>2 DEF CreationInv, WritesUnanswered, Writing, Committable
  <2>3. ASSUME NEW e \in CreationCalls, e # d, Writing(e)'
        PROVE  /\ creation'[e].key \in CreationKeys
               /\ creation'[e].env \in Ids
               /\ replies[creation'[e].key] = NoEnvironment
               /\ creation'[e].at \in {"imported", "late"} => creation'[e].env \in imports \cup cleaned
    <3>1. CASE e = c
      BY <3>1, <1>3, <1>4, <2>2
    <3>2. CASE e # c
      <4>1. creation'[e] = creation[e]
        BY <3>2, <2>3, <1>4
      <4> QED BY <4>1, <2>3 DEF CreationInv, WritesUnanswered, Writing, Committable
    <3> QED BY <3>1, <3>2
  <2> QED BY <1>2, <2>1, <2>3 DEF WritesUnanswered, Committable
<1>7. OneWriterPerKey'
  <2>1. ~Writing(d)'
    BY <1>1, <1>4 DEF Writing
  <2>2. ASSUME NEW e \in CreationCalls, e # d, Writing(e)'
        PROVE  Writing(e) /\ creation'[e].key = creation[e].key
    BY <1>2, <1>3, <1>4, <2>2 DEF Writing
  <2> QED BY <2>1, <2>2 DEF CreationInv, OneWriterPerKey
<1>8. ReplyBacked' /\ LinkedHoldsImports'
  BY <1>2 DEF CreationInv, ReplyBacked, LinkedHoldsImports
<1> QED BY <1>5, <1>6, <1>7, <1>8 DEF CreationInv

\* A key is answered once, so the response that backs a record is never replaced.
LEMMA CommitStep ==
    ASSUME CreationInv, NEW c \in CreationCalls, CommitRecord(c)
    PROVE  CreationInv'
<1> DEFINE k == creation[c].key
           e == creation[c].env
<1>1. /\ record' = [record EXCEPT ![e] = "active"]
      /\ linked' = linked \cup {e}
      /\ replies' = [replies EXCEPT ![k] = e]
      /\ creation' = [creation EXCEPT ![c] = NotCreating]
      /\ UNCHANGED <<imports, cleaned>>
      /\ Committable(c)
  BY DEF CommitRecord
<1>2. /\ k \in CreationKeys /\ e \in Ids /\ replies[k] = NoEnvironment
      /\ e \in imports \cup cleaned /\ Writing(c)
  BY <1>1 DEF CreationInv, WritesUnanswered, Writing, Committable
<1>3. creation'[c] = NotCreating /\ \A d \in CreationCalls : d # c => creation'[d] = creation[d]
  BY <1>1 DEF CreationInv, CreationType
<1>4. replies'[k] = e /\ \A q \in CreationKeys : q # k => replies'[q] = replies[q]
  BY <1>1, <1>2 DEF CreationInv, CreationType
<1>5. record'[e] = "active" /\ \A f \in Ids : f # e => record'[f] = record[f]
  BY <1>1, <1>2 DEF CreationInv, CreationType
<1>6. CreationType'
  <2>1. creation' \in [CreationCalls ->
          [at : {"idle", "claimed", "locked", "imported", "late", "failed", "erasing"},
           key : CreationKeys \cup {"none"}, env : Ids \cup {NoEnvironment}, own : BOOLEAN]]
    BY <1>1 DEF CreationInv, CreationType, NotCreating
  <2> QED BY <1>1, <1>2, <2>1 DEF CreationInv, CreationType
<1>7. WritesUnanswered'
  <2>1. ASSUME NEW d \in CreationCalls, d # c, Writing(d) PROVE creation[d].key # k
    BY <1>2, <2>1 DEF CreationInv, OneWriterPerKey
  <2> QED BY <1>1, <1>3, <1>4, <2>1 DEF CreationInv, WritesUnanswered, Writing, Committable, NotCreating
<1>8. OneWriterPerKey'
  BY <1>3 DEF CreationInv, OneWriterPerKey, Writing, NotCreating
<1>9. ReplyBacked'
  <2> SUFFICES ASSUME NEW f \in FreshIds, record'[f] # "absent"
               PROVE  \E q \in CreationKeys : replies'[q] = f
    BY DEF ReplyBacked
  <2>1. CASE f = e
    BY <2>1, <1>2, <1>4
  <2>2. CASE f # e
    <3>1. PICK q \in CreationKeys : replies[q] = f
      BY <2>2, <1>5 DEF CreationInv, ReplyBacked, Ids
    <3>2. q # k
      BY <3>1, <1>2, CreationAssumption
    <3> QED BY <3>1, <3>2, <1>4
  <2> QED BY <2>1, <2>2
<1>10. LinkedHoldsImports'
  BY <1>1, <1>2 DEF CreationInv, LinkedHoldsImports
<1> QED BY <1>6, <1>7, <1>8, <1>9, <1>10 DEF CreationInv

LEMMA AdministratorStep ==
    ASSUME CreationInv, NEW e \in Ids, Clean(e) \/ DeleteRecord(e)
    PROVE  CreationInv'
<1>1. CASE Clean(e)
  <2>1. imports \cup cleaned \subseteq imports' \cup cleaned'
    BY <1>1 DEF Clean
  <2> QED BY <1>1, <2>1 DEF Clean, CreationInv, CreationType, WritesUnanswered, OneWriterPerKey,
                            ReplyBacked, LinkedHoldsImports, Writing, Committable
<1>2. CASE DeleteRecord(e)
  <2>1. /\ record' = [record EXCEPT ![e] = "deleted"] /\ record[e] = "active"
        /\ UNCHANGED <<linked, imports, cleaned, replies, creation>>
    BY <1>2 DEF DeleteRecord
  <2>2. \A f \in Ids : record'[f] # "absent" <=> record[f] # "absent"
    BY <2>1 DEF CreationInv, CreationType
  <2>3. CreationType'
    BY <2>1 DEF CreationInv, CreationType
  <2>4. ReplyBacked'
    BY <2>1, <2>2 DEF CreationInv, ReplyBacked, Ids
  <2> QED BY <2>1, <2>3, <2>4 DEF CreationInv, WritesUnanswered, OneWriterPerKey,
                                  LinkedHoldsImports, Writing, Committable
<1> QED BY <1>1, <1>2

\* TestingCreation: a key is answered once, by the record its transaction commits, and
\* no commit comes before its imports.
THEOREM CreationInvariant == CreationSpec => []CreationInv
<1>1. ASSUME CreationInv, UNCHANGED creationVars PROVE CreationInv'
  BY <1>1 DEF creationVars, CreationInv, CreationType, WritesUnanswered, OneWriterPerKey,
              ReplyBacked, LinkedHoldsImports, Writing, Committable
<1>2. ASSUME CreationInv, CreationNext PROVE CreationInv'
  <2>1. ASSUME NEW c \in CreationCalls, RollBack(c) \/ DropLate(c) \/ CheckRecord(c) \/ Compensate(c)
        PROVE  CreationInv'
    <3>1. UNCHANGED <<record, linked, imports, cleaned, replies>>
      BY <2>1 DEF RollBack, DropLate, CheckRecord, Compensate, Erased
    <3>2. \/ creation' \in {[creation EXCEPT ![c] = after] : after \in {AfterError(c), NotCreating}}
          \/ creation[c].at = "failed" /\ creation' = [creation EXCEPT ![c].at = "erasing"]
      BY <2>1 DEF RollBack, DropLate, CheckRecord, Compensate
    <3> QED BY <1>2, <3>1, <3>2, LeaveStep
  <2> QED BY <1>2, <2>1, OpenStep, LockStep, CommitStep, LoseReplyStep, AdministratorStep DEF CreationNext
<1> QED BY CreationInitial, <1>1, <1>2, PTL DEF CreationSpec

\* The records that were drawn are no more than the keys that were answered.
LEMMA RecordsByKeys == CreationInv => OneEnvironmentPerKey
<1> SUFFICES ASSUME CreationInv PROVE OneEnvironmentPerKey
  OBVIOUS
<1> DEFINE E == {e \in FreshIds : record[e] # "absent"}
           K == {k \in CreationKeys : ~Unanswered(k)}
           f == [e \in E |-> CHOOSE k \in K : replies[k] = e]
<1>1. IsFiniteSet(K)
  BY CreationAssumption, FS_Subset
<1>2. \A e \in E : f[e] \in K /\ replies[f[e]] = e
  <2> SUFFICES ASSUME NEW e \in E PROVE f[e] \in K /\ replies[f[e]] = e
    OBVIOUS
  <2>1. PICK k \in CreationKeys : replies[k] = e
    BY DEF CreationInv, ReplyBacked
  <2>2. k \in K
    BY <2>1, CreationAssumption DEF Unanswered
  <2> QED BY <2>1, <2>2
<1>3. f \in Injection(E, K)
  <2>1. f \in [E -> K]
    BY <1>2
  <2>2. \A a, b \in E : f[a] = f[b] => a = b
    BY <1>2
  <2> HIDE DEF f, E, K
  <2> QED BY <2>1, <2>2 DEF Injection, IsInjective
<1> HIDE DEF f
<1> QED BY <1>1, <1>3, FS_Injection DEF OneEnvironmentPerKey

\* TestingCreation: an environment the application was told of holds its imports, and a
\* key creates one environment, whatever commit was in doubt.
THEOREM CreationSoundHolds == CreationSpec => []CreationSound
<1>1. CreationInv => CreationSound
  BY RecordsByKeys DEF CreationInv, CreationSound
<1> QED BY CreationInvariant, <1>1, PTL

----------------------------------------------------------------------------
\* A set of positions of a sequence has a last one.
LEMMA LastOf ==
    ASSUME NEW N \in Nat, NEW T \in SUBSET (1 .. N), T # {}
    PROVE  \E n \in T : \A m \in T : m <= n
<1> DEFINE D == {N - n : n \in T}
<1>1. D \subseteq Nat /\ D # {}
  <2>1. \A n \in T : n \in 1 .. N /\ N - n \in Nat
    OBVIOUS
  <2>2. PICK n \in T : TRUE
    OBVIOUS
  <2> QED BY <2>1, <2>2
<1>2. PICK d \in D : \A e \in D : ~ (<<e, d>> \in OpToRel(<, Nat))
  BY <1>1, NatLessThanWellFounded, WFMin
<1>3. \A e \in D : ~ (e < d)
  BY <1>1, <1>2 DEF OpToRel
<1>4. PICK n \in T : d = N - n
  OBVIOUS
<1>5. \A m \in T : N - m \in D
  OBVIOUS
<1>6. ASSUME NEW m \in T PROVE m <= n
  BY <1>3, <1>4, <1>5
<1> QED BY <1>6

ApprovalRow ==
    [write : SensitiveWrites, action : ActionNames, version : 0 .. MaxPolicy,
     status : {"pending", "approved", "rejected", "consumed"}, by : Staff, life : 0 .. ApprovalLife]

SensitiveType ==
    /\ staffRole \in [Staff -> {"owner", "admin", "member", "removed"}]
    /\ DOMAIN policy = ActionNames
    /\ \A a \in ActionNames : policy[a].version \in 0 .. MaxPolicy
    /\ approvals \in Seq(ApprovalRow)
    /\ spent \in Seq(Nat)
    /\ Len(spent) = Len(approvals)
    /\ remembered \in [SensitiveWrites -> 0 .. RecordLife]

\* A row that was spent is answered for by the record of its request while it lasts.
SpentRemembered ==
    \A n \in DOMAIN approvals :
        /\ spent[n] \in {0, 1}
        /\ spent[n] = 1 => approvals[n].life <= remembered[approvals[n].write]

SensitiveInv == SensitiveType /\ SpentRemembered

LEMMA ActionKnown == ASSUME NEW q \in SensitiveWrites PROVE WriteActions(q) \subseteq ActionNames
BY DEF ActionNames

LEMMA MatchingNewest ==
    ASSUME SensitiveInv, NEW q, NEW a, Matching(q, a) # {}
    PROVE  Newest(q, a) \in Matching(q, a)
<1>1. Len(approvals) \in Nat /\ DOMAIN approvals = 1 .. Len(approvals)
  BY LenProperties DEF SensitiveInv, SensitiveType
<1>2. Matching(q, a) \in SUBSET (1 .. Len(approvals))
  BY <1>1 DEF Matching
<1>3. \E n \in Matching(q, a) : \A m \in Matching(q, a) : m <= n
  BY <1>1, <1>2, LastOf
<1> QED BY <1>3 DEF Newest

\* An approval that a write spends is its own, and the record of the write was gone.
LEMMA SpendsOwn ==
    ASSUME SensitiveInv, NEW q \in SensitiveWrites, NEW n \in Spends(q)
    PROVE  /\ n \in DOMAIN approvals
           /\ approvals[n].write = q
           /\ approvals[n].life > 0
           /\ approvals[n].status \in {"approved", "consumed"}
<1>1. PICK a \in WriteActions(q) : Verdict(q, a) = "spend" /\ n = Newest(q, a)
  BY DEF Spends
<1>2. /\ Matching(q, a) # {}
      /\ approvals[n].status \notin {"pending", "rejected"}
  BY <1>1 DEF Verdict
<1>3. n \in Matching(q, a)
  BY <1>1, <1>2, MatchingNewest
<1>4. n \in DOMAIN approvals /\ approvals[n].write = q /\ approvals[n].life > 0
  BY <1>3 DEF Matching
<1>5. approvals[n] \in ApprovalRow
  BY <1>4, ElementOfSeq, LenProperties DEF SensitiveInv, SensitiveType
<1> QED BY <1>2, <1>4, <1>5 DEF ApprovalRow

LEMMA SensitiveInitial == SensitiveActionInit => SensitiveInv
<1> SUFFICES ASSUME SensitiveActionInit PROVE SensitiveInv
  OBVIOUS
<1>1. staffRole \in [Staff -> {"owner", "admin", "member", "removed"}]
  BY DEF SensitiveActionInit
<1>2. DOMAIN policy = ActionNames /\ \A a \in ActionNames : policy[a].version \in 0 .. MaxPolicy
  BY SensitiveActionAssumption DEF SensitiveActionInit, DefaultPolicy
<1>3. approvals = <<>> /\ spent = <<>>
  BY DEF SensitiveActionInit
<1>4. approvals \in Seq(ApprovalRow) /\ spent \in Seq(Nat) /\ Len(spent) = Len(approvals)
      /\ DOMAIN approvals = {}
  BY <1>3, EmptySeq
<1>5. remembered \in [SensitiveWrites -> 0 .. RecordLife]
  BY SensitiveActionAssumption DEF SensitiveActionInit
<1> QED BY <1>1, <1>2, <1>4, <1>5 DEF SensitiveInv, SensitiveType, SpentRemembered

\* The rows of a step that changes rows one by one.
LEMMA RowsRewritten ==
    ASSUME SensitiveInv, NEW f, f \in [DOMAIN approvals -> ApprovalRow]
    PROVE  f \in Seq(ApprovalRow) /\ Len(f) = Len(approvals) /\ DOMAIN f = DOMAIN approvals
<1>1. Len(approvals) \in Nat /\ DOMAIN approvals = 1 .. Len(approvals)
  BY LenProperties DEF SensitiveInv, SensitiveType
<1>2. f \in Seq(ApprovalRow)
  BY <1>1, SeqDef
<1>3. DOMAIN f = 1 .. Len(approvals)
  BY <1>1
<1> QED BY <1>1, <1>2, <1>3, LenProperties

LEMMA RequestKeepsInv ==
    ASSUME SensitiveInv, NEW q \in SensitiveWrites, RequestApproval(q)
    PROVE  SensitiveInv'
<1> DEFINE missing == {a \in WriteActions(q) : Verdict(q, a) = "create"}
<1>0. PICK k \in 1 .. MaxApprovals - Len(approvals) : \E order \in [1 .. k -> missing] :
        /\ approvals' = approvals \o [n \in 1 .. k |-> NewApproval(q, order[n])]
        /\ spent' = spent \o [n \in 1 .. k |-> 0]
  BY DEF RequestApproval, Preflight
<1>1. PICK order \in [1 .. k -> missing] :
        /\ approvals' = approvals \o [n \in 1 .. k |-> NewApproval(q, order[n])]
        /\ spent' = spent \o [n \in 1 .. k |-> 0]
  BY <1>0
<1>2. UNCHANGED <<staffRole, policy, remembered>>
  BY DEF RequestApproval
<1> DEFINE added == [n \in 1 .. k |-> NewApproval(q, order[n])]
           zeros == [n \in 1 .. k |-> 0]
<1>3. k \in Nat
  OBVIOUS
<1>4. ASSUME NEW n \in 1 .. k
      PROVE  NewApproval(q, order[n]) \in ApprovalRow
  <2>1. order[n] \in ActionNames
    BY ActionKnown
  <2>2. WriteBy[q] \in Staff /\ ApprovalLife \in 0 .. ApprovalLife
    BY SensitiveActionAssumption
  <2>3. policy[order[n]].version \in 0 .. MaxPolicy
    BY <2>1 DEF SensitiveInv, SensitiveType
  <2> QED BY <2>1, <2>2, <2>3 DEF NewApproval, ApprovalRow
<1>5. added \in Seq(ApprovalRow) /\ Len(added) = k
  BY <1>3, <1>4, SeqDef, LenProperties
<1>6. zeros \in Seq(Nat) /\ Len(zeros) = k
  BY <1>3, SeqDef, LenProperties
<1>7. approvals \in Seq(ApprovalRow) /\ spent \in Seq(Nat) /\ Len(spent) = Len(approvals)
  BY DEF SensitiveInv, SensitiveType
<1>8. approvals' = approvals \o added /\ spent' = spent \o zeros
  BY <1>1
<1>9. \A n \in 1 .. k : zeros[n] = 0
  OBVIOUS
<1> HIDE DEF added, zeros
<1>10. approvals' \in Seq(ApprovalRow) /\ spent' \in Seq(Nat) /\ Len(spent') = Len(approvals')
       /\ Len(approvals') = Len(approvals) + k /\ Len(approvals) \in Nat
  <2>1. approvals \o added \in Seq(ApprovalRow) /\ Len(approvals \o added) = Len(approvals) + Len(added)
    BY <1>5, <1>7, ConcatProperties
  <2>2. spent \o zeros \in Seq(Nat) /\ Len(spent \o zeros) = Len(spent) + Len(zeros)
    BY <1>6, <1>7, ConcatProperties
  <2>3. Len(approvals) \in Nat
    BY <1>7, LenProperties
  <2> QED BY <1>5, <1>6, <1>7, <1>8, <2>1, <2>2, <2>3
<1>11. \A n \in 1 .. Len(approvals) : approvals'[n] = approvals[n] /\ spent'[n] = spent[n]
  BY <1>3, <1>5, <1>6, <1>7, <1>8, <1>10, ConcatProperties
<1>12. \A n \in Len(approvals) + 1 .. Len(approvals) + k : spent'[n] = 0
  <2> TAKE n \in Len(approvals) + 1 .. Len(approvals) + k
  <2>1. n - Len(spent) \in 1 .. k
    BY <1>3, <1>7, <1>10
  <2>2. n \in 1 .. Len(spent) + Len(zeros) /\ ~ (n <= Len(spent))
    BY <1>3, <1>6, <1>7, <1>10
  <2>3. (spent \o zeros)[n] = zeros[n - Len(spent)]
    BY <1>6, <1>7, <2>2, ConcatProperties
  <2> QED BY <1>8, <1>9, <2>1, <2>3
<1>13. DOMAIN approvals = 1 .. Len(approvals) /\ DOMAIN approvals' = 1 .. Len(approvals) + k
  BY <1>7, <1>10, LenProperties
<1>14. SensitiveType'
  BY <1>2, <1>10 DEF SensitiveInv, SensitiveType
<1>15. SpentRemembered'
  <2> SUFFICES ASSUME NEW n \in 1 .. Len(approvals) + k
               PROVE  /\ spent'[n] \in {0, 1}
                      /\ spent'[n] = 1 => approvals'[n].life <= remembered'[approvals'[n].write]
    BY <1>13 DEF SpentRemembered
  <2>1. CASE n \in 1 .. Len(approvals)
    BY <1>2, <1>11, <1>13, <2>1 DEF SensitiveInv, SpentRemembered
  <2>2. CASE n \in Len(approvals) + 1 .. Len(approvals) + k
    BY <1>12, <2>2
  <2> QED BY <1>3, <1>10, <2>1, <2>2
<1> QED BY <1>14, <1>15 DEF SensitiveInv

LEMMA PerformKeepsInv ==
    ASSUME SensitiveInv, NEW q \in SensitiveWrites, PerformWrite(q)
    PROVE  SensitiveInv'
<1>1. /\ approvals' = Consumed(approvals, Spends(q))
      /\ spent' = [n \in DOMAIN spent |-> IF n \in Spends(q) THEN spent[n] + 1 ELSE spent[n]]
      /\ remembered' = [remembered EXCEPT ![q] = RecordLife]
      /\ UNCHANGED <<staffRole, policy>>
      /\ ~ (remembered[q] > 0)
  BY DEF PerformWrite, Replayed
<1>2. /\ approvals \in Seq(ApprovalRow) /\ spent \in Seq(Nat) /\ Len(spent) = Len(approvals)
      /\ Len(approvals) \in Nat /\ DOMAIN approvals = 1 .. Len(approvals)
      /\ DOMAIN spent = 1 .. Len(approvals)
  BY LenProperties DEF SensitiveInv, SensitiveType
<1>3. /\ remembered \in [SensitiveWrites -> 0 .. RecordLife] /\ RecordLife \in Nat
      /\ remembered[q] = 0
  BY <1>1, SensitiveActionAssumption DEF SensitiveInv, SensitiveType
<1>4. \A n \in DOMAIN approvals : approvals[n] \in ApprovalRow
  BY <1>2, ElementOfSeq
<1>5. \A n \in DOMAIN approvals :
        /\ approvals'[n] \in ApprovalRow
        /\ approvals'[n].write = approvals[n].write
        /\ approvals'[n].life = approvals[n].life
  BY <1>1, <1>4 DEF Consumed, ApprovalRow
<1>6. approvals' \in [DOMAIN approvals -> ApprovalRow]
  BY <1>1, <1>5 DEF Consumed
<1>7. approvals' \in Seq(ApprovalRow) /\ Len(approvals') = Len(approvals)
      /\ DOMAIN approvals' = DOMAIN approvals
  BY <1>6, RowsRewritten
<1>8. spent' \in [1 .. Len(approvals) -> Nat]
  BY <1>1, <1>2, ElementOfSeq
<1>9. spent' \in Seq(Nat) /\ Len(spent') = Len(approvals)
  <2>1. spent' \in Seq(Nat)
    BY SMTT(30), <1>2, <1>8, SeqDef
  <2> QED BY <1>2, <1>8, <2>1, LenProperties
<1>10. remembered' \in [SensitiveWrites -> 0 .. RecordLife]
  BY <1>1, <1>3
<1>11. SensitiveType'
  BY <1>1, <1>7, <1>9, <1>10 DEF SensitiveInv, SensitiveType
<1>12. ASSUME NEW n \in DOMAIN approvals
       PROVE  /\ spent'[n] \in {0, 1}
              /\ spent'[n] = 1 => approvals'[n].life <= remembered'[approvals'[n].write]
  <2>1. spent[n] \in {0, 1} /\ (spent[n] = 1 => approvals[n].life <= remembered[approvals[n].write])
    BY DEF SensitiveInv, SpentRemembered
  <2>2. approvals[n].life \in 0 .. ApprovalLife /\ approvals[n].write \in SensitiveWrites
    BY <1>4 DEF ApprovalRow
  <2>3. approvals[n].life <= RecordLife
    BY <2>2, SensitiveActionAssumption
  <2>4. CASE n \in Spends(q)
    <3>1. approvals[n].write = q /\ approvals[n].life > 0
      BY <2>4, SpendsOwn
    <3>2. spent[n] = 0
      BY <1>3, <2>1, <2>2, <3>1
    <3>3. spent'[n] = 1
      BY <1>1, <1>2, <2>4, <3>2
    <3>4. remembered'[approvals'[n].write] = RecordLife
      BY <1>1, <1>3, <1>5, <3>1
    <3> QED BY <1>5, <2>3, <3>3, <3>4
  <2>5. CASE n \notin Spends(q)
    <3>1. spent'[n] = spent[n]
      BY <1>1, <1>2, <2>5
    <3>2. CASE approvals[n].write = q
      BY <1>1, <1>3, <1>5, <2>1, <2>3, <3>1, <3>2
    <3>3. CASE approvals[n].write # q
      BY <1>1, <1>3, <1>5, <2>1, <2>2, <3>1, <3>3
    <3> QED BY <3>2, <3>3
  <2> QED BY <2>4, <2>5
<1>13. SpentRemembered'
  BY <1>7, <1>12 DEF SpentRemembered
<1> QED BY <1>11, <1>13 DEF SensitiveInv

LEMMA DecideKeepsInv ==
    ASSUME SensitiveInv, NEW s \in Staff, NEW n \in DOMAIN approvals,
           NEW decision \in {"approved", "rejected"}, DecideApproval(s, n, decision)
    PROVE  SensitiveInv'
<1>1. /\ approvals' = [approvals EXCEPT ![n].status = decision, ![n].by = s]
      /\ UNCHANGED <<staffRole, policy, remembered, spent>>
  BY DEF DecideApproval
<1>2. \A m \in DOMAIN approvals : approvals[m] \in ApprovalRow
  BY ElementOfSeq, LenProperties DEF SensitiveInv, SensitiveType
<1>3. \A m \in DOMAIN approvals :
        /\ approvals'[m] \in ApprovalRow
        /\ approvals'[m].write = approvals[m].write
        /\ approvals'[m].life = approvals[m].life
  BY <1>1, <1>2 DEF ApprovalRow
<1>4. approvals' \in [DOMAIN approvals -> ApprovalRow]
  BY <1>1, <1>3
<1>5. approvals' \in Seq(ApprovalRow) /\ Len(approvals') = Len(approvals)
      /\ DOMAIN approvals' = DOMAIN approvals
  BY <1>4, RowsRewritten
<1>6. SensitiveType'
  BY <1>1, <1>5 DEF SensitiveInv, SensitiveType
<1>7. SpentRemembered'
  BY <1>1, <1>3, <1>5 DEF SensitiveInv, SpentRemembered
<1> QED BY <1>6, <1>7 DEF SensitiveInv

LEMMA PolicyKeepsInv ==
    ASSUME SensitiveInv, NEW s \in Staff, NEW a \in ActionNames, NEW choice \in PolicyChoices,
           UpdatePolicy(s, a, choice)
    PROVE  SensitiveInv'
<1>1. /\ policy[a].version < MaxPolicy
      /\ policy' = [policy EXCEPT ![a] = [allowed |-> choice.allowed, approval |-> choice.approval,
                                          auto |-> choice.auto, version |-> @.version + 1]]
      /\ UNCHANGED <<staffRole, approvals, remembered, spent>>
  BY DEF UpdatePolicy
<1>2. DOMAIN policy' = ActionNames /\ \A b \in ActionNames : policy'[b].version \in 0 .. MaxPolicy
  <2>1. DOMAIN policy = ActionNames /\ \A b \in ActionNames : policy[b].version \in 0 .. MaxPolicy
    BY DEF SensitiveInv, SensitiveType
  <2>2. policy'[a].version = policy[a].version + 1
    BY <1>1, <2>1
  <2>3. policy'[a].version \in 0 .. MaxPolicy
    BY <1>1, <2>1, <2>2, SensitiveActionAssumption
  <2>4. \A b \in ActionNames \ {a} : policy'[b] = policy[b]
    BY <1>1, <2>1
  <2> QED BY <1>1, <2>1, <2>3, <2>4
<1> QED BY <1>1, <1>2 DEF SensitiveInv, SensitiveType, SpentRemembered

LEMMA StandingKeepsInv ==
    ASSUME SensitiveInv, UNCHANGED <<policy, approvals, remembered, spent>>,
           staffRole' \in [Staff -> {"owner", "admin", "member", "removed"}]
    PROVE  SensitiveInv'
BY DEF SensitiveInv, SensitiveType, SpentRemembered

LEMMA TickKeepsInv ==
    ASSUME SensitiveInv, SensitiveActionTick
    PROVE  SensitiveInv'
<1> DEFINE Less(m) == IF m = 0 THEN 0 ELSE m - 1
<1>1. /\ approvals' = [n \in DOMAIN approvals |-> [approvals[n] EXCEPT !.life = Less(@)]]
      /\ remembered' = [q \in SensitiveWrites |-> Less(remembered[q])]
      /\ UNCHANGED <<staffRole, policy, spent>>
  BY DEF SensitiveActionTick
<1>2. \A n \in DOMAIN approvals : approvals[n] \in ApprovalRow
  BY ElementOfSeq, LenProperties DEF SensitiveInv, SensitiveType
<1>3. \A n \in DOMAIN approvals :
        /\ approvals'[n] \in ApprovalRow
        /\ approvals'[n].write = approvals[n].write
        /\ approvals'[n].life = Less(approvals[n].life)
        /\ approvals[n].life \in Nat
        /\ approvals[n].write \in SensitiveWrites
  BY <1>1, <1>2, SensitiveActionAssumption DEF ApprovalRow
<1>4. approvals' \in [DOMAIN approvals -> ApprovalRow]
  BY <1>1, <1>3
<1>5. approvals' \in Seq(ApprovalRow) /\ Len(approvals') = Len(approvals)
      /\ DOMAIN approvals' = DOMAIN approvals
  BY <1>4, RowsRewritten
<1>6. \A q \in SensitiveWrites :
        remembered[q] \in Nat /\ remembered'[q] = Less(remembered[q]) /\ remembered'[q] \in 0 .. RecordLife
  BY <1>1, SensitiveActionAssumption DEF SensitiveInv, SensitiveType
<1>7. SensitiveType'
  BY <1>1, <1>5, <1>6 DEF SensitiveInv, SensitiveType
<1>8. ASSUME NEW n \in DOMAIN approvals
      PROVE  /\ spent'[n] \in {0, 1}
             /\ spent'[n] = 1 => approvals'[n].life <= remembered'[approvals'[n].write]
  <2>1. spent[n] \in {0, 1} /\ (spent[n] = 1 => approvals[n].life <= remembered[approvals[n].write])
    BY DEF SensitiveInv, SpentRemembered
  <2> QED BY <1>1, <1>3, <1>6, <2>1
<1>9. SpentRemembered'
  BY <1>5, <1>8 DEF SpentRemembered
<1> QED BY <1>7, <1>9 DEF SensitiveInv

\* Every step keeps a spent approval answered for.
THEOREM SensitiveInvariant == SensitiveActionSpec => []SensitiveInv
<1>1. SensitiveActionInit => SensitiveInv
  BY SensitiveInitial
<1>2. SensitiveInv /\ [SensitiveActionNext]_actionVars => SensitiveInv'
  <2> SUFFICES ASSUME SensitiveInv, [SensitiveActionNext]_actionVars PROVE SensitiveInv'
    OBVIOUS
  <2>1. ASSUME NEW q \in SensitiveWrites, RequestApproval(q) PROVE SensitiveInv'
    BY <2>1, RequestKeepsInv
  <2>2. ASSUME NEW q \in SensitiveWrites, PerformWrite(q) PROVE SensitiveInv'
    BY <2>2, PerformKeepsInv
  <2>3. ASSUME NEW s \in Staff, NEW n \in DOMAIN approvals,
               NEW decision \in {"approved", "rejected"}, DecideApproval(s, n, decision)
        PROVE  SensitiveInv'
    BY <2>3, DecideKeepsInv
  <2>4. ASSUME NEW s \in Staff, NEW a \in ActionNames, NEW choice \in PolicyChoices,
               UpdatePolicy(s, a, choice)
        PROVE  SensitiveInv'
    BY <2>4, PolicyKeepsInv
  <2>5. ASSUME NEW s \in Staff, NEW role \in {"admin", "member", "removed"}, ChangeStanding(s, role)
        PROVE  SensitiveInv'
    <3>1. staffRole' = [staffRole EXCEPT ![s] = role]
          /\ UNCHANGED <<policy, approvals, remembered, spent>>
      BY <2>5 DEF ChangeStanding
    <3>2. staffRole' \in [Staff -> {"owner", "admin", "member", "removed"}]
      BY <3>1 DEF SensitiveInv, SensitiveType
    <3> QED BY <3>1, <3>2, StandingKeepsInv
  <2>6. ASSUME NEW s \in Staff, NEW t \in Staff, HandOver(s, t)
        PROVE  SensitiveInv'
    <3>1. staffRole' = [staffRole EXCEPT ![s] = "admin", ![t] = "owner"]
          /\ UNCHANGED <<policy, approvals, remembered, spent>>
      BY <2>6 DEF HandOver
    <3>2. staffRole' \in [Staff -> {"owner", "admin", "member", "removed"}]
      BY <3>1 DEF SensitiveInv, SensitiveType
    <3> QED BY <3>1, <3>2, StandingKeepsInv
  <2>7. CASE SensitiveActionTick
    BY <2>7, TickKeepsInv
  <2>8. CASE UNCHANGED actionVars
    BY <2>8, StandingKeepsInv DEF actionVars, SensitiveInv, SensitiveType
  <2> QED BY <2>1, <2>2, <2>3, <2>4, <2>5, <2>6, <2>7, <2>8 DEF SensitiveActionNext
<1> QED BY <1>1, <1>2, PTL DEF SensitiveActionSpec

\* Only a write takes an approved row to consumed, and it leaves its record behind.
LEMMA PartialStep ==
    ASSUME SensitiveInv, SensitiveActionNext PROVE PartialSpendsNothingStep
<1> SUFFICES ASSUME NEW n \in DOMAIN approvals,
                    approvals[n].status = "approved", approvals'[n].status = "consumed"
             PROVE  remembered'[approvals[n].write] = RecordLife
  BY DEF PartialSpendsNothingStep
<1>0. /\ Len(approvals) \in Nat /\ DOMAIN approvals = 1 .. Len(approvals)
      /\ approvals \in Seq(ApprovalRow)
      /\ remembered \in [SensitiveWrites -> 0 .. RecordLife]
  BY LenProperties DEF SensitiveInv, SensitiveType
<1>1. ASSUME NEW q \in SensitiveWrites, RequestApproval(q) PROVE FALSE
  <2> DEFINE missing == {a \in WriteActions(q) : Verdict(q, a) = "create"}
  <2>0. PICK k \in 1 .. MaxApprovals - Len(approvals) : \E order \in [1 .. k -> missing] :
          approvals' = approvals \o [m \in 1 .. k |-> NewApproval(q, order[m])]
    BY <1>1 DEF RequestApproval, Preflight
  <2>1. PICK order \in [1 .. k -> missing] :
          approvals' = approvals \o [m \in 1 .. k |-> NewApproval(q, order[m])]
    BY <2>0
  <2> DEFINE added == [m \in 1 .. k |-> NewApproval(q, order[m])]
  <2>2. added \in Seq({NewApproval(q, order[m]) : m \in 1 .. k})
    BY SeqDef
  <2>3. approvals' = approvals \o added
    BY <2>1
  <2> HIDE DEF added
  <2>4. approvals'[n] = approvals[n]
    BY <1>0, <2>2, <2>3, ConcatProperties
  <2> QED BY <2>4
<1>2. ASSUME NEW q \in SensitiveWrites, PerformWrite(q)
      PROVE  remembered'[approvals[n].write] = RecordLife
  <2>1. approvals' = Consumed(approvals, Spends(q)) /\ remembered' = [remembered EXCEPT ![q] = RecordLife]
    BY <1>2 DEF PerformWrite
  <2>2. n \in Spends(q)
    BY <2>1 DEF Consumed
  <2>3. approvals[n].write = q
    BY <2>2, SpendsOwn
  <2> QED BY <1>0, <2>1, <2>3
<1>3. ASSUME NEW s \in Staff, NEW m \in DOMAIN approvals,
             NEW decision \in {"approved", "rejected"}, DecideApproval(s, m, decision)
      PROVE  FALSE
  <2>1. approvals' = [approvals EXCEPT ![m].status = decision, ![m].by = s]
        /\ approvals[m].status = "pending"
    BY <1>3 DEF DecideApproval
  <2>2. m # n
    BY <2>1
  <2>3. approvals'[n] = approvals[n]
    BY <2>1, <2>2
  <2> QED BY <2>3
<1>4. CASE approvals' = approvals
  BY <1>4
<1>5. ASSUME SensitiveActionTick PROVE FALSE
  <2>1. approvals'[n] = [approvals[n] EXCEPT !.life = IF @ = 0 THEN 0 ELSE @ - 1]
    BY <1>5 DEF SensitiveActionTick
  <2>2. approvals[n] \in ApprovalRow
    BY <1>0, ElementOfSeq
  <2>3. approvals'[n].status = approvals[n].status
    BY <2>1, <2>2 DEF ApprovalRow
  <2> QED BY <2>3
<1> QED
  BY <1>1, <1>2, <1>3, <1>4, <1>5
  DEF SensitiveActionNext, UpdatePolicy, ChangeStanding, HandOver

\* A write that passed had, for each of its actions, leave to act and either no need
\* of an approval or one in force.
LEMMA PassedSanctioned ==
    ASSUME SensitiveInv, NEW q \in SensitiveWrites, Verdicts(q) \subseteq {"allowed", "spend"},
           NEW a \in WriteActions(q)
    PROVE  /\ MayAct(WriteBy[q], a)
           /\ \/ Immediate(WriteBy[q], a)
              \/ \E n \in Matching(q, a) :
                   /\ approvals[n].status \in {"approved", "consumed"}
                   /\ MayReview(approvals[n].by, a)
<1>1. Verdict(q, a) \in {"allowed", "spend"}
  BY DEF Verdicts
<1>2. MayAct(WriteBy[q], a)
  BY <1>1 DEF Verdict
<1>3. CASE Immediate(WriteBy[q], a)
  BY <1>2, <1>3
<1>4. CASE ~ Immediate(WriteBy[q], a)
  <2> DEFINE n == Newest(q, a)
  <2>1. Matching(q, a) # {}
    BY <1>1, <1>2, <1>4 DEF Verdict
  <2>2. n \in Matching(q, a)
    BY <2>1, MatchingNewest
  <2>3. approvals[n].status \notin {"pending", "rejected"}
    BY <1>1, <1>2, <1>4, <2>1 DEF Verdict
  <2>4. MayReview(approvals[n].by, a)
    BY <1>1, <1>2, <1>4, <2>1, <2>3 DEF Verdict, ReviewerStands
  <2>5. approvals[n] \in ApprovalRow
    BY <2>2, ElementOfSeq, LenProperties DEF SensitiveInv, SensitiveType, Matching
  <2>6. approvals[n].status \in {"approved", "consumed"}
    BY <2>3, <2>5 DEF ApprovalRow
  <2> HIDE DEF n
  <2> QED BY <1>2, <2>2, <2>4, <2>6
<1> QED BY <1>3, <1>4

LEMMA SanctionedStep ==
    ASSUME SensitiveInv, SensitiveActionNext PROVE WriteSanctionedStep
<1> SUFFICES ASSUME NEW q \in SensitiveWrites, remembered[q] = 0, remembered'[q] > 0,
                    NEW field \in WriteFields[q], NEW a \in ActionNames,
                    WriteRoute[q] = "member", <<field, a>> \in MemberPatchActions
             PROVE  /\ MayAct(WriteBy[q], a)
                    /\ \/ Immediate(WriteBy[q], a)
                       \/ \E n \in Matching(q, a) :
                            /\ approvals[n].status \in {"approved", "consumed"}
                            /\ MayReview(approvals[n].by, a)
  BY DEF WriteSanctionedStep
<1>1. remembered \in [SensitiveWrites -> 0 .. RecordLife]
  BY DEF SensitiveInv, SensitiveType
<1>2. PerformWrite(q)
  <2>1. ASSUME remembered' = remembered PROVE FALSE
    BY <1>1, <2>1
  <2>2. ASSUME SensitiveActionTick PROVE FALSE
    BY <1>1, <2>2 DEF SensitiveActionTick
  <2>3. ASSUME NEW p \in SensitiveWrites, PerformWrite(p) PROVE p = q
    BY <1>1, <2>3 DEF PerformWrite
  <2> QED
    BY <2>1, <2>2, <2>3
    DEF SensitiveActionNext, RequestApproval, DecideApproval, UpdatePolicy, ChangeStanding, HandOver
<1>3. Verdicts(q) \subseteq {"allowed", "spend"}
  BY <1>2 DEF PerformWrite
<1>4. a \in WriteActions(q)
  <2>1. a \in Selected(MemberPatchActions, WriteFields[q])
    BY DEF Selected
  <2> QED BY <2>1 DEF WriteActions, ActionsOf
<1> QED BY <1>3, <1>4, PassedSanctioned

\* SensitiveActionSound for any organization, requests and policies (action_policies.rs):
\* an approval admits at most one write, none is used up by a request that still
\* waits, and a member patch is written only with the policy's consent.
THEOREM SensitiveActionSoundHolds == SensitiveActionSpec => SensitiveActionSound
<1>1. SensitiveInv => ApprovalSpentOnce
  <2> SUFFICES ASSUME SensitiveInv, NEW n \in DOMAIN spent PROVE spent[n] <= 1
    BY DEF ApprovalSpentOnce
  <2>1. DOMAIN spent = DOMAIN approvals
    BY LenProperties DEF SensitiveInv, SensitiveType
  <2>2. spent[n] \in {0, 1}
    BY <2>1 DEF SensitiveInv, SpentRemembered
  <2> QED BY <2>2
<1>2. SensitiveInv /\ [SensitiveActionNext]_actionVars => [PartialSpendsNothingStep]_actionVars
  BY PartialStep
<1>3. SensitiveInv /\ [SensitiveActionNext]_actionVars => [WriteSanctionedStep]_actionVars
  BY SanctionedStep
<1> QED
  BY <1>1, <1>2, <1>3, SensitiveInvariant, PTL
  DEF SensitiveActionSpec, SensitiveActionSound, PartialSpendsNothing, WriteSanctioned

----------------------------------------------------------------------------
----------------------------------------------------------------------------
(* Reporting lines *)

HierarchyMoves ==
    {NoMove}
      \cup [kind : {"create", "reparent"}, who : Subordinates, reference : Bosses]
      \cup [kind : {"first"}, who : Principals, reference : Subordinates]

HierarchyShape ==
    /\ alive \in [Subordinates -> {"absent", "active", "deleted"}]
    /\ boss \in [Subordinates -> Bosses]
    /\ first \in [Principals -> Bosses]
    /\ move \in [Moves -> HierarchyMoves]

\* Nobody who is there reports to somebody who is not.
Supervised == \A s \in Subordinates : Alive(s) /\ boss[s] # Top => Alive(boss[s])

\* Nobody, there or not, reports to themselves.
Acyclic == \A s \in Subordinates : ~Below(boss, s, s)

HierarchyInv == HierarchyShape /\ Supervised /\ Acyclic

\* A set is closed when it holds whom its members report to.
Closed(lines, up) == \A t \in up : lines[t] \in up \cup {Top}

\* Whoever is not below s has their supervisors in a closed set without s.
LEMMA NotBelow ==
    ASSUME NEW lines, NEW r, NEW s, ~Below(lines, r, s)
    PROVE  \E up \in SUBSET Subordinates :
             Closed(lines, up) /\ lines[r] \in up \cup {Top} /\ s \notin up
  BY DEF Below, Closed

LEMMA WithoutIt ==
    ASSUME NEW lines, NEW r, NEW s, NEW up \in SUBSET Subordinates,
           Closed(lines, up), lines[r] \in up \cup {Top}, s \notin up
    PROVE  ~Below(lines, r, s)
  BY DEF Below, Closed

\* The lines stay acyclic when all the members of a set who may report to s, and s
\* when it may move, report to b instead, who is neither s nor below it.
LEMMA NewSupervisor ==
    ASSUME NEW lines \in [Subordinates -> Bosses], NEW new \in [Subordinates -> Bosses],
           NEW moved \in SUBSET Subordinates, NEW s \in Subordinates,
           NEW b \in Subordinates,
           \A x \in Subordinates : new[x] = IF x \in moved THEN b ELSE lines[x],
           \A x \in moved : x = s \/ lines[x] = s,
           \A x \in Subordinates : ~Below(lines, x, x),
           b # s, ~Below(lines, b, s)
    PROVE  \A x \in Subordinates : ~Below(new, x, x)
  <1>1. PICK above \in SUBSET Subordinates :
          Closed(lines, above) /\ lines[b] \in above \cup {Top} /\ s \notin above
    BY NotBelow
  <1> DEFINE upper == above \cup {b}
  <1>2. upper \in SUBSET Subordinates /\ Closed(lines, upper) /\ s \notin upper /\ b \in upper
    BY <1>1 DEF Closed
  <1> HIDE DEF upper
  <1>3. \A x \in moved : x \notin upper
    BY <1>2, HierarchyAssumption DEF Closed
  <1>4. Closed(new, upper)
    BY <1>2, <1>3 DEF Closed
  <1> TAKE x \in Subordinates
  <1>5. PICK own \in SUBSET Subordinates :
          Closed(lines, own) /\ lines[x] \in own \cup {Top} /\ x \notin own
    BY NotBelow
  <1>6. CASE x \in moved
    <2>1. new[x] \in upper /\ x \notin upper
      BY <1>2, <1>3, <1>6
    <2> QED BY <1>2, <1>4, <2>1, WithoutIt
  <1>7. CASE x \notin moved /\ Below(lines, x, s)
    <2>1. x \notin upper
      BY <1>2, <1>7 DEF Below, Closed
    <2> DEFINE up == own \cup upper
    <2>2. Closed(new, up) /\ new[x] \in up \cup {Top} /\ x \notin up
      BY <1>2, <1>5, <1>7, <2>1 DEF Closed
    <2>3. up \in SUBSET Subordinates
      BY <1>2, <1>5
    <2> HIDE DEF up
    <2> QED BY <2>2, <2>3, WithoutIt
  <1>8. CASE x \notin moved /\ ~Below(lines, x, s)
    <2>1. PICK free \in SUBSET Subordinates :
            Closed(lines, free) /\ lines[x] \in free \cup {Top} /\ s \notin free
      BY <1>8, NotBelow
    <2> DEFINE up == own \cap free
    <2>2. \A t \in up : t \notin moved
      BY <2>1, HierarchyAssumption DEF Closed
    <2>3. Closed(new, up) /\ new[x] \in up \cup {Top} /\ x \notin up
      BY <1>5, <1>8, <2>1, <2>2 DEF Closed
    <2>4. up \in SUBSET Subordinates
      BY <1>5
    <2> HIDE DEF up
    <2> QED BY <2>3, <2>4, WithoutIt
  <1> QED BY <1>6, <1>7, <1>8

\* Reporting to nobody closes no cycle.
LEMMA NoSupervisor ==
    ASSUME NEW lines \in [Subordinates -> Bosses], NEW s \in Subordinates,
           \A x \in Subordinates : ~Below(lines, x, x)
    PROVE  \A x \in Subordinates : ~Below([lines EXCEPT ![s] = Top], x, x)
  <1> DEFINE new == [lines EXCEPT ![s] = Top]
  <1>1. \A x \in Subordinates : new[x] = IF x = s THEN Top ELSE lines[x]
    OBVIOUS
  <1> HIDE DEF new
  <1>2. SUFFICES ASSUME NEW x \in Subordinates PROVE ~Below(new, x, x)
    BY DEF new
  <1>3. PICK own \in SUBSET Subordinates :
          Closed(lines, own) /\ lines[x] \in own \cup {Top} /\ x \notin own
    BY NotBelow
  <1>4. Closed(new, own) /\ new[x] \in own \cup {Top}
    BY <1>1, <1>3 DEF Closed
  <1> QED BY <1>3, <1>4, WithoutIt

\* A supervisor that prevent_silicon_reporting_cycle lets pass.
LEMMA Resupervised ==
    ASSUME NEW s \in Subordinates, NEW b \in Bosses, HierarchyShape, Acyclic,
           SupervisorFits(s, b), boss' = [boss EXCEPT ![s] = b]
    PROVE  Acyclic'
  <1>1. boss \in [Subordinates -> Bosses] /\ boss' \in [Subordinates -> Bosses]
    BY DEF HierarchyShape
  <1>2. CASE b = Top
    BY <1>1, <1>2, NoSupervisor DEF Acyclic
  <1>3. CASE b # Top
    <2>1. b \in Subordinates /\ b # s /\ ~Below(boss, b, s)
      BY <1>3 DEF SupervisorFits, Bosses
    <2>2. \A x \in Subordinates : boss'[x] = IF x \in {s} THEN b ELSE boss[x]
      BY <1>1
    <2>3. \A x \in Subordinates : ~Below(boss, x, x)
      BY DEF Acyclic
    <2>4. {s} \in SUBSET Subordinates /\ \A x \in {s} : x = s \/ boss[x] = s
      OBVIOUS
    <2>5. \A x \in Subordinates : ~Below(boss', x, x)
      BY <1>1, <2>1, <2>2, <2>3, <2>4, NewSupervisor
    <2> QED BY <2>5 DEF Acyclic
  <1> QED BY <1>2, <1>3

LEMMA HierarchyStarts == HierarchyInit => HierarchyInv
  <1> SUFFICES ASSUME HierarchyInit PROVE HierarchyInv
    OBVIOUS
  <1>1. HierarchyShape
    BY DEF HierarchyInit, HierarchyShape, HierarchyMoves, Bosses
  <1>2. Supervised
    BY DEF HierarchyInit, Supervised, Alive
  <1>3. Acyclic
    <2> SUFFICES ASSUME NEW s \in Subordinates PROVE ~Below(boss, s, s)
      BY DEF Acyclic
    <2>1. Closed(boss, {}) /\ boss[s] \in {} \cup {Top} /\ s \notin {}
      BY DEF HierarchyInit, Closed
    <2> QED BY <2>1, WithoutIt
  <1> QED BY <1>1, <1>2, <1>3 DEF HierarchyInv

\* What a request looked at, while it waits.
LEMMA HierarchyMoveParts ==
    ASSUME HierarchyShape, NEW m \in Moves, move[m] # NoMove
    PROVE  /\ move[m].kind \in {"create", "reparent"} =>
                move[m].who \in Subordinates /\ move[m].reference \in Bosses
           /\ move[m].kind = "first" =>
                move[m].who \in Principals /\ move[m].reference \in Subordinates
  BY DEF HierarchyShape, HierarchyMoves

LEMMA HierarchyStep ==
    ASSUME HierarchyInv, [HierarchyNext]_hierarchyVars
    PROVE  HierarchyInv'
  <1> USE DEF HierarchyInv
  <1>m. \A m \in Moves : [move EXCEPT ![m] = NoMove] \in [Moves -> HierarchyMoves]
    BY DEF HierarchyShape, HierarchyMoves
  <1>1. ASSUME NEW m \in Moves, NEW who \in Subordinates, NEW b \in Bosses,
               NEW kind \in {"create", "reparent"}, LookUp(m, kind, who, b)
        PROVE  HierarchyInv'
    <2>1. [kind |-> kind, who |-> who, reference |-> b] \in HierarchyMoves
      BY <1>1 DEF HierarchyMoves
    <2>2. HierarchyShape'
      BY <1>1, <2>1 DEF LookUp, HierarchyShape
    <2> QED BY <1>1, <2>2 DEF LookUp, Supervised, Alive, Acyclic
  <1>2. ASSUME NEW m \in Moves, NEW c \in Principals, NEW s \in Subordinates,
               LookUp(m, "first", c, s)
        PROVE  HierarchyInv'
    <2>1. [kind |-> "first", who |-> c, reference |-> s] \in HierarchyMoves
      BY <1>2 DEF HierarchyMoves
    <2>2. HierarchyShape'
      BY <1>2, <2>1 DEF LookUp, HierarchyShape
    <2> QED BY <1>2, <2>2 DEF LookUp, Supervised, Alive, Acyclic
  <1>3. ASSUME NEW m \in Moves, GiveUp(m) PROVE HierarchyInv'
    <2>1. HierarchyShape'
      BY <1>3, <1>m DEF GiveUp, HierarchyShape
    <2> QED BY <1>3, <2>1 DEF GiveUp, Supervised, Alive, Acyclic
  <1>4. ASSUME NEW m \in Moves, InsertSilicon(m) PROVE HierarchyInv'
    <2> DEFINE s == move[m].who
               b == move[m].reference
    <2>1. s \in Subordinates /\ b \in Bosses
      BY <1>4, HierarchyMoveParts DEF InsertSilicon
    <2>2. /\ alive[s] = "absent" /\ SupervisorFits(s, b)
          /\ alive' = [alive EXCEPT ![s] = "active"] /\ boss' = [boss EXCEPT ![s] = b]
          /\ move' = [move EXCEPT ![m] = NoMove] /\ first' = first
      BY <1>4 DEF InsertSilicon
    <2> HIDE DEF s, b
    <2>3. HierarchyShape'
      BY <2>1, <2>2, <1>m DEF HierarchyShape
    <2>4. Supervised'
      BY <2>1, <2>2 DEF Supervised, SupervisorFits, Alive, HierarchyShape, Bosses
    <2>5. Acyclic'
      BY <2>1, <2>2, Resupervised
    <2> QED BY <2>3, <2>4, <2>5
  <1>5. ASSUME NEW m \in Moves, Reparent(m) PROVE HierarchyInv'
    <2> DEFINE s == move[m].who
               b == move[m].reference
    <2>1. s \in Subordinates /\ b \in Bosses
      BY <1>5, HierarchyMoveParts DEF Reparent
    <2>2. /\ SupervisorFits(s, b) /\ boss' = [boss EXCEPT ![s] = b]
          /\ move' = [move EXCEPT ![m] = NoMove] /\ UNCHANGED <<alive, first>>
      BY <1>5 DEF Reparent
    <2> HIDE DEF s, b
    <2>3. HierarchyShape'
      BY <2>1, <2>2, <1>m DEF HierarchyShape
    <2>4. Supervised'
      BY <2>1, <2>2 DEF Supervised, SupervisorFits, Alive, HierarchyShape, Bosses
    <2>5. Acyclic'
      BY <2>1, <2>2, Resupervised
    <2> QED BY <2>3, <2>4, <2>5
  <1>6. ASSUME NEW m \in Moves, SetFirstSilicon(m) PROVE HierarchyInv'
    <2>1. move[m].who \in Principals /\ move[m].reference \in Bosses
      BY <1>6, HierarchyMoveParts DEF SetFirstSilicon, Bosses
    <2>2. HierarchyShape'
      BY <1>6, <2>1, <1>m DEF SetFirstSilicon, HierarchyShape
    <2> QED BY <1>6, <2>2 DEF SetFirstSilicon, Supervised, Alive, Acyclic
  <1>7. ASSUME NEW s \in Subordinates, NEW successor \in Bosses,
               RemoveSubordinate(s, successor)
        PROVE  HierarchyInv'
    <2>1. /\ Alive(s) /\ SuccessorFits(s, successor)
          /\ alive' = [alive EXCEPT ![s] = "deleted"]
          /\ boss' = [r \in Subordinates |-> IF r \in Reports(s) THEN successor ELSE boss[r]]
          /\ first' = [c \in Principals |-> IF first[c] = s THEN Top ELSE first[c]]
          /\ move' = move
      BY <1>7 DEF RemoveSubordinate
    <2>2. HierarchyShape'
      BY <2>1 DEF HierarchyShape, Bosses
    <2>3. Supervised'
      <3> SUFFICES ASSUME NEW r \in Subordinates, alive'[r] = "active", boss'[r] # Top
                   PROVE  boss'[r] \in Subordinates /\ alive'[boss'[r]] = "active"
        BY DEF Supervised, Alive
      <3>1. Alive(r) /\ r # s
        BY <2>1 DEF Alive, HierarchyShape
      <3>2. CASE r \in Reports(s)
        <4>1. boss'[r] = successor /\ Alive(successor) /\ successor # s
          BY <2>1, <3>2 DEF SuccessorFits
        <4> QED BY <2>1, <4>1 DEF Alive, HierarchyShape
      <3>3. CASE r \notin Reports(s)
        <4>1. boss'[r] = boss[r] /\ boss[r] # s
          BY <2>1, <3>1, <3>3 DEF Reports
        <4>2. Alive(boss[r])
          BY <3>1, <4>1 DEF Supervised
        <4> QED BY <2>1, <4>1, <4>2 DEF Alive, HierarchyShape
      <3> QED BY <3>2, <3>3
    <2>4. Acyclic'
      <3>1. boss \in [Subordinates -> Bosses] /\ boss' \in [Subordinates -> Bosses]
        BY <2>2 DEF HierarchyShape
      <3>2. CASE Reports(s) = {}
        <4>1. boss' = boss
          BY <2>1, <3>1, <3>2
        <4> QED BY <4>1 DEF Acyclic
      <3>3. CASE Reports(s) # {}
        <4>1. successor \in Subordinates /\ successor # s /\ ~Below(boss, successor, s)
          BY <2>1, <3>3 DEF SuccessorFits, Bosses
        <4>2. \A x \in Reports(s) : x = s \/ boss[x] = s
          BY DEF Reports
        <4>3. Reports(s) \in SUBSET Subordinates
          BY DEF Reports
        <4>4. \A x \in Subordinates :
                boss'[x] = IF x \in Reports(s) THEN successor ELSE boss[x]
          BY <2>1
        <4>5. \A x \in Subordinates : ~Below(boss, x, x)
          BY DEF Acyclic
        <4>6. \A x \in Subordinates : ~Below(boss', x, x)
          BY <3>1, <4>1, <4>2, <4>3, <4>4, <4>5, NewSupervisor
        <4> QED BY <4>6 DEF Acyclic
      <3> QED BY <3>2, <3>3
    <2> QED BY <2>2, <2>3, <2>4
  <1>8. CASE UNCHANGED hierarchyVars
    BY <1>8 DEF hierarchyVars, HierarchyShape, Supervised, Alive, Acyclic
  <1> QED
    BY <1>1, <1>2, <1>3, <1>4, <1>5, <1>6, <1>7, <1>8 DEF HierarchyNext

\* No silicon reports to itself through any chain of supervisors, and none to one
\* that was removed, however long a request waits after it looked.
THEOREM HierarchySoundHolds == HierarchySpec => []HierarchySound
  <1>1. HierarchyInv => HierarchySound
    BY DEF HierarchyInv, HierarchySound, Supervised, Acyclic
  <1> QED BY HierarchyStarts, HierarchyStep, <1>1, PTL DEF HierarchySpec

----------------------------------------------------------------------------
----------------------------------------------------------------------------
(* Invitations *)

InvitationStatus == {"absent", "pending", "expired", "revoked", "accepted"}

InvitationRow ==
    [status : InvitationStatus, email : Carbons \cup {Nobody},
     target : Carbons \cup {Nobody}, life : Nat]

InvitationShape ==
    /\ signedUp \in SUBSET Carbons
    /\ member \in [Carbons -> {"none", "active", "removed"}]
    /\ invitation \in [Invitations -> InvitationRow]

\* An invitation is bound to nobody or to the carbon it was addressed to.
BoundToAddress ==
    \A i \in Invitations : invitation[i].target \in {Nobody, invitation[i].email}

JoinsInvited == \A j \in joins : j.invitation \in Invitations

InvitationInv ==
    InvitationShape /\ BoundToAddress /\ JoinsInvited /\ InvitationSound

LEMMA InvitationStarts == InvitationInit => InvitationInv
  <1> SUFFICES ASSUME InvitationInit PROVE InvitationInv
    OBVIOUS
  <1>1. NoInvitation \in InvitationRow
    BY DEF NoInvitation, InvitationRow, InvitationStatus
  <1>2. InvitationShape
    BY <1>1 DEF InvitationInit, InvitationShape
  <1>3. BoundToAddress /\ JoinsInvited
    BY DEF InvitationInit, BoundToAddress, JoinsInvited, NoInvitation
  <1>4. OnePendingInvitation
    BY DEF InvitationInit, OnePendingInvitation, Invited, NoInvitation
  <1>5. JoinProvesInvitation
    BY DEF InvitationInit, JoinProvesInvitation
  <1> QED BY <1>2, <1>3, <1>4, <1>5 DEF InvitationInv, InvitationSound

\* An invitation only ages, ends, or is bound to the owner of its address.
InvitationsEase ==
    /\ invitation' \in [Invitations -> InvitationRow]
    /\ \A i \in Invitations :
         /\ invitation'[i].email = invitation[i].email
         /\ invitation'[i].target \in {Nobody, invitation[i].email}
         /\ Invited(i)' => Invited(i)
         /\ invitation[i].status = "accepted" => invitation'[i].status = "accepted"

\* What such a change keeps, while members do not join.
LEMMA EasedInvitations ==
    ASSUME InvitationInv, InvitationsEase, joins' = joins,
           signedUp' \in SUBSET Carbons,
           member' \in [Carbons -> {"none", "active", "removed"}],
           \A c \in Carbons : member'[c] = "active" => member[c] = "active"
    PROVE  InvitationInv'
  <1> USE DEF InvitationInv, InvitationsEase
  <1>1. InvitationShape'
    BY DEF InvitationShape
  <1>2. BoundToAddress' /\ JoinsInvited'
    BY DEF BoundToAddress, JoinsInvited
  <1>3. OnePendingInvitation'
    BY DEF InvitationSound, OnePendingInvitation
  <1>4. JoinProvesInvitation'
    BY DEF InvitationSound, JoinProvesInvitation, JoinsInvited
  <1> QED BY <1>1, <1>2, <1>3, <1>4 DEF InvitationSound

LEMMA SameInvitations == InvitationInv /\ invitation' = invitation => InvitationsEase
  BY DEF InvitationInv, InvitationShape, BoundToAddress, InvitationsEase, Invited

LEMMA CreateKeepsInvitations ==
    ASSUME InvitationInv, NEW i \in Invitations, NEW c \in Carbons, CreateInvitation(i, c)
    PROVE  InvitationInv'
  <1> USE DEF InvitationInv
  <1> DEFINE newRow == [status |-> "pending", email |-> c,
                     target |-> ResolveTarget(c), life |-> InviteLife]
  <1>1. newRow \in InvitationRow /\ newRow.target \in {Nobody, c} /\ newRow.email = c
    BY InvitationAssumption DEF InvitationRow, InvitationStatus, ResolveTarget
  <1>2. \A j \in Invitations :
          invitation'[j] = IF j = i THEN newRow
                           ELSE IF invitation[j].status = "pending" /\ ~Invited(j)
                                THEN [invitation[j] EXCEPT !.status = "expired"]
                                ELSE invitation[j]
    BY DEF CreateInvitation
  <1>3. invitation' = [j \in Invitations |-> invitation'[j]]
    BY DEF CreateInvitation
  <1>4. UNCHANGED <<signedUp, member, joins>> /\ NoDuplicate(c)
        /\ invitation[i].status = "absent"
    BY DEF CreateInvitation
  <1> HIDE DEF newRow
  <1>5. \A j \in Invitations : invitation[j] \in InvitationRow
    BY DEF InvitationShape
  <1>6. \A j \in Invitations : j # i =>
          /\ invitation'[j] \in InvitationRow
          /\ invitation'[j].email = invitation[j].email
          /\ invitation'[j].target = invitation[j].target
          /\ Invited(j)' => Invited(j)
          /\ invitation[j].status = "accepted" => invitation'[j].status = "accepted"
    BY ZenonT(90), <1>2, <1>5 DEF InvitationRow, InvitationStatus, Invited
  <1>7. InvitationShape'
    BY <1>1, <1>2, <1>3, <1>4, <1>6 DEF InvitationShape
  <1>8. BoundToAddress'
    BY <1>1, <1>2, <1>6 DEF BoundToAddress
  <1>9. JoinsInvited'
    BY <1>4 DEF JoinsInvited
  <1>10. OnePendingInvitation'
    <2>1. invitation'[i].email = c
      BY <1>1, <1>2
    <2>2. \A j \in Invitations : j # i /\ Invited(j)' => invitation'[j].email # c
      BY <1>4, <1>6 DEF NoDuplicate
    <2>3. \A j, k \in Invitations :
            /\ j # i /\ k # i /\ Invited(j)' /\ Invited(k)'
            /\ invitation'[j].email = invitation'[k].email
            => j = k
      BY <1>6 DEF InvitationSound, OnePendingInvitation
    <2> QED BY <2>1, <2>2, <2>3 DEF OnePendingInvitation
  <1>11. JoinProvesInvitation'
    BY <1>4, <1>6 DEF InvitationSound, JoinProvesInvitation, JoinsInvited
  <1> QED BY <1>7, <1>8, <1>9, <1>10, <1>11 DEF InvitationSound

LEMMA JoinKeepsInvitations ==
    ASSUME InvitationInv, NEW i \in Invitations, JoinOrganization(i)
    PROVE  InvitationInv'
  <1> USE DEF InvitationInv
  <1> DEFINE c == invitation[i].target
             joinRecord == [invitation |-> i, carbon |-> c, email |-> invitation[i].email,
                       delivered |-> code[Latest(i)].delivery = "delivered"]
  <1>1. /\ c \in signedUp /\ Acceptable(i)
        /\ member' = [member EXCEPT ![c] = "active"]
        /\ invitation' = [invitation EXCEPT ![i].status = "accepted"]
        /\ joins' = joins \cup {joinRecord} /\ signedUp' = signedUp
    BY DEF JoinOrganization
  <1>2. c \in Carbons /\ c = invitation[i].email
    BY <1>1, InvitationAssumption DEF InvitationShape, BoundToAddress
  <1>3. code[Latest(i)].delivery = "delivered"
    BY <1>1 DEF Acceptable
  <1>4. joinRecord.carbon = c /\ joinRecord.email = c /\ joinRecord.delivered /\ joinRecord.invitation = i
    BY <1>2, <1>3
  <1>5. \A j \in Invitations : invitation[j] \in InvitationRow
    BY DEF InvitationShape
  <1>6. invitation' \in [Invitations -> InvitationRow]
    BY <1>1, <1>5 DEF InvitationShape, InvitationRow, InvitationStatus
  <1>7. \A j \in Invitations :
          /\ invitation'[j].email = invitation[j].email
          /\ invitation'[j].target = invitation[j].target
          /\ Invited(j)' => Invited(j)
          /\ invitation[j].status = "accepted" \/ j = i =>
               invitation'[j].status = "accepted"
    BY <1>1, <1>5 DEF InvitationShape, InvitationRow, Invited
  <1>8. \A d \in Carbons : member'[d] = IF d = c THEN "active" ELSE member[d]
    BY <1>1 DEF InvitationShape
  <1>9. InvitationShape'
    BY <1>1, <1>2, <1>6 DEF InvitationShape
  <1> HIDE DEF c, joinRecord
  <1>10. BoundToAddress'
    BY <1>7 DEF BoundToAddress
  <1>11. JoinsInvited'
    BY <1>1, <1>4 DEF JoinsInvited
  <1>12. OnePendingInvitation'
    BY <1>7 DEF InvitationSound, OnePendingInvitation
  <1>13. JoinProvesInvitation'
    BY <1>1, <1>4, <1>7, <1>8 DEF InvitationSound, JoinProvesInvitation, JoinsInvited
  <1> QED BY <1>9, <1>10, <1>11, <1>12, <1>13 DEF InvitationSound

LEMMA InvitationStep ==
    ASSUME InvitationInv, [InvitationNext]_invitationVars
    PROVE  InvitationInv'
  <1>s. InvitationShape /\ BoundToAddress
    BY DEF InvitationInv
  <1>r. \A j \in Invitations : invitation[j] \in InvitationRow
    BY <1>s DEF InvitationShape
  <1>k. ASSUME UNCHANGED <<invitation, joins, member>>, signedUp' \in SUBSET Carbons
        PROVE  InvitationInv'
    <2>1. InvitationsEase
      BY <1>k, SameInvitations
    <2> QED BY <1>s, <1>k, <2>1, EasedInvitations DEF InvitationShape
  <1>e. ASSUME InvitationsEase, UNCHANGED <<joins, member, signedUp>>
        PROVE  InvitationInv'
    BY <1>s, <1>e, EasedInvitations DEF InvitationShape
  <1>1. ASSUME NEW i \in Invitations, NEW c \in Carbons, CreateInvitation(i, c)
        PROVE  InvitationInv'
    BY <1>1, CreateKeepsInvitations
  <1>2. ASSUME NEW i \in Invitations, RevokeInvitation(i) PROVE InvitationInv'
    <2>1. InvitationsEase
      BY <1>2, <1>s, <1>r
         DEF RevokeInvitation, InvitationsEase, InvitationShape, BoundToAddress,
             InvitationRow, InvitationStatus, Invited
    <2> QED BY <1>2, <1>e, <2>1 DEF RevokeInvitation
  <1>3. ASSUME NEW c \in Carbons, SignUp(c) PROVE InvitationInv'
    BY <1>3, <1>k, <1>s DEF SignUp, InvitationShape
  <1>4. ASSUME NEW n \in Codes, NEW i \in Invitations, NEW c \in Carbons,
               SendInvitationEmailCode(n, i, c)
        PROVE  InvitationInv'
    <2>1. invitation' = Bound(c) /\ UNCHANGED <<joins, member, signedUp>>
      BY <1>4 DEF SendInvitationEmailCode
    <2>2. InvitationsEase
      BY <1>s, <1>r, <2>1
         DEF Bound, InvitationsEase, InvitationShape, BoundToAddress, InvitationRow,
             Invited
    <2> QED BY <1>e, <2>1, <2>2
  <1>5. ASSUME NEW n \in Codes,
               CallProvider(n) \/ ConfirmDelivery(n) \/ FailDelivery(n) \/ AbandonSend(n)
        PROVE  InvitationInv'
    <2>1. UNCHANGED <<invitation, joins, member, signedUp>>
      BY <1>5 DEF CallProvider, ConfirmDelivery, FailDelivery, AbandonSend, inviteRows
    <2> QED BY <1>s, <1>k, <2>1 DEF InvitationShape
  <1>6. ASSUME NEW i \in Invitations, JoinOrganization(i) PROVE InvitationInv'
    BY <1>6, JoinKeepsInvitations
  <1>7. ASSUME NEW i \in Invitations, JoinWithWrongCode(i) PROVE InvitationInv'
    <2>1. UNCHANGED <<invitation, joins, member, signedUp>>
      BY <1>7 DEF JoinWithWrongCode, inviteRows
    <2> QED BY <1>s, <1>k, <2>1 DEF InvitationShape
  <1>8. ASSUME NEW c \in Carbons, RemoveMember(c) PROVE InvitationInv'
    <2>1. /\ member' \in [Carbons -> {"none", "active", "removed"}]
          /\ \A d \in Carbons : member'[d] = "active" => member[d] = "active"
          /\ UNCHANGED <<invitation, joins, signedUp>>
      BY <1>8, <1>s DEF RemoveMember, InvitationShape
    <2>2. InvitationsEase
      BY <2>1, SameInvitations
    <2> QED BY <1>s, <2>1, <2>2, EasedInvitations DEF InvitationShape
  <1>9. CASE InvitationTick
    <2>1. /\ \A i \in Invitations : invitation'[i] =
               [invitation[i] EXCEPT !.life = Elapsed(invitation[i].life)]
          /\ invitation' = [i \in Invitations |-> invitation'[i]]
          /\ UNCHANGED <<joins, member, signedUp>>
      BY <1>9 DEF InvitationTick
    <2>2. \A i \in Invitations :
            /\ invitation'[i] \in InvitationRow
            /\ invitation'[i].email = invitation[i].email
            /\ invitation'[i].target = invitation[i].target
            /\ invitation'[i].status = invitation[i].status
            /\ invitation'[i].life > 0 => invitation[i].life > 0
      BY <1>r, <2>1 DEF InvitationRow, Elapsed
    <2>3. InvitationsEase
      BY <1>s, <2>1, <2>2 DEF InvitationsEase, BoundToAddress, Invited
    <2> QED BY <1>e, <2>1, <2>3
  <1>10. CASE UNCHANGED invitationVars
    BY <1>10, <1>s, <1>k DEF invitationVars, InvitationShape
  <1> QED
    BY <1>1, <1>2, <1>3, <1>4, <1>5, <1>6, <1>7, <1>8, <1>9, <1>10 DEF InvitationNext

\* One invitation to an address waits at most, and every member joined with a code
\* that was delivered to the address of the invitation that was accepted.
THEOREM InvitationSoundHolds == InvitationSpec => []InvitationSound
  <1>1. InvitationInv => InvitationSound
    BY DEF InvitationInv
  <1> QED BY InvitationStarts, InvitationStep, <1>1, PTL DEF InvitationSpec

----------------------------------------------------------------------------
(* Announcements *)

NoticeOver == {"sent", "failed", "cancelled"}

NoticeRow ==
    [status : {"absent", "pending", "processing"} \cup NoticeOver,
     kind : NoticeKinds \cup {"none"}, owner : Announcers \cup {Unleased},
     lease : Nat, attempts : Nat]

AnnouncerStages == {"idle", "loading", "renewing", "sending"} \cup ProviderResult

AnnouncerRow ==
    [notice : Notices \cup {Unleased}, stage : AnnouncerStages, attempt : Nat]

NoticeShape ==
    /\ notice \in [Notices -> NoticeRow]
    /\ subject \in [Notices -> {"live", "revoked", "expired"}]
    /\ \A w \in Announcers : announcer[w].stage # "idle" => announcer[w].notice \in Notices
    /\ announcer \in [Announcers -> AnnouncerRow]

\* A job that was never queued announces nothing, and revoking what a job
\* announces has ended the job.
NoticeOrder ==
    \A j \in Notices :
        /\ notice[j].status = "absent" => notice[j].kind = "none"
        /\ subject[j] = "revoked" => notice[j].status \in NoticeOver

NoticeInv == NoticeShape /\ NoticeOrder

\* A whole row that changes keeps the type of the table.
LEMMA OneNotice ==
    ASSUME NoticeInv, NEW j \in Notices, NEW newRow \in NoticeRow,
           notice' = [notice EXCEPT ![j] = newRow],
           newRow.status # "absent",
           notice[j].status \in NoticeOver => newRow.status = notice[j].status,
           subject'= subject
    PROVE  /\ notice' \in [Notices -> NoticeRow]
           /\ NoticeOrder' /\ AnnouncementFinal
  <1>1. \A k \in Notices : notice'[k] = IF k = j THEN newRow ELSE notice[k]
    BY DEF NoticeInv, NoticeShape
  <1>2. notice' \in [Notices -> NoticeRow]
    BY DEF NoticeInv, NoticeShape
  <1>3. NoticeOrder'
    BY <1>1 DEF NoticeInv, NoticeOrder
  <1>4. AnnouncementFinal
    BY <1>1 DEF AnnouncementFinal, NoticeOver
  <1> QED BY <1>2, <1>3, <1>4

LEMMA SameNotices ==
    ASSUME NoticeInv, notice' = notice, subject' = subject
    PROVE  /\ notice' \in [Notices -> NoticeRow] /\ NoticeOrder' /\ AnnouncementFinal
  BY DEF NoticeInv, NoticeShape, NoticeOrder, AnnouncementFinal

\* What one instance does to itself.
LEMMA OneAnnouncer ==
    ASSUME NoticeInv, NEW w \in Announcers, NEW a \in AnnouncerRow,
           announcer' = [announcer EXCEPT ![w] = a],
           a.stage # "idle" => a.notice \in Notices
    PROVE  /\ \A v \in Announcers : announcer'[v] = IF v = w THEN a ELSE announcer[v]
           /\ \A v \in Announcers : announcer'[v].stage # "idle" =>
                announcer'[v].notice \in Notices
           /\ announcer' \in [Announcers -> AnnouncerRow]
  BY DEF NoticeInv, NoticeShape

LEMMA NoticeStarts == NotificationInit => NoticeInv
  <1>1. NoNotice \in NoticeRow
    BY DEF NoNotice, NoticeRow
  <1>2. Resting \in AnnouncerRow /\ Resting.stage = "idle"
    BY DEF Resting, AnnouncerRow, AnnouncerStages
  <1> QED BY <1>1, <1>2 DEF NotificationInit, NoticeInv, NoticeShape, NoticeOrder, NoNotice

\* A row that expired or was revoked, and the one that announces it.
LEMMA SubjectStep ==
    ASSUME NoticeInv, NEW j \in Notices, RevokeSubject(j) \/ ExpireSubject(j)
    PROVE  NoticeInv' /\ AnnouncementFinal
  <1>1. notice[j] \in NoticeRow /\ subject[j] = "live" /\ notice[j].status # "absent"
    BY DEF NoticeInv, NoticeShape, NoticeOrder, RevokeSubject, ExpireSubject, Revocable
  <1>2. announcer' = announcer
    BY DEF RevokeSubject, ExpireSubject
  <1>3. CASE RevokeSubject(j)
    <2>1. /\ subject' = [subject EXCEPT ![j] = "revoked"]
          /\ notice' = [notice EXCEPT ![j] = CancelledNotice(notice[j])]
      BY <1>3 DEF RevokeSubject
    <2>2. /\ CancelledNotice(notice[j]) \in NoticeRow
          /\ CancelledNotice(notice[j]).status \in NoticeOver
          /\ CancelledNotice(notice[j]).kind = notice[j].kind
          /\ notice[j].status \in NoticeOver =>
               CancelledNotice(notice[j]).status = notice[j].status
      BY <1>1 DEF CancelledNotice, NoticeRow, NoticeOver
    <2>3. \A k \in Notices : k # j => notice'[k] = notice[k] /\ subject'[k] = subject[k]
      BY <2>1 DEF NoticeInv, NoticeShape
    <2>4. NoticeShape'
      BY <1>2, <2>1, <2>2 DEF NoticeInv, NoticeShape
    <2>5. notice'[j] = CancelledNotice(notice[j])
      BY <2>1 DEF NoticeInv, NoticeShape
    <2>6. NoticeOrder' /\ AnnouncementFinal
      BY <2>2, <2>3, <2>5 DEF NoticeInv, NoticeOrder, AnnouncementFinal, NoticeOver
    <2> QED BY <2>4, <2>6 DEF NoticeInv
  <1>4. CASE ExpireSubject(j)
    <2>1. subject' = [subject EXCEPT ![j] = "expired"] /\ notice' = notice
      BY <1>4 DEF ExpireSubject
    <2> QED BY <1>2, <2>1 DEF NoticeInv, NoticeShape, NoticeOrder, AnnouncementFinal
  <1> QED BY <1>3, <1>4

NoticeStepSound == NoticeInv' /\ AnnouncementFinal /\ RevokedNotAnnounced

LEMMA NoticeStep ==
    ASSUME NoticeInv, [NotificationNext]_noticeVars
    PROVE  NoticeStepSound
  <1>s. NoticeShape /\ NoticeOrder
    BY DEF NoticeInv
  <1>r. \A j \in Notices : notice[j] \in NoticeRow
    BY <1>s DEF NoticeShape
  <1>k. ASSUME announcer' = announcer PROVE RevokedNotAnnounced
    BY <1>k DEF RevokedNotAnnounced
  <1>a. ASSUME NEW w \in Announcers, NEW a \in AnnouncerRow, a.stage # "sending",
               a.stage # "idle" => a.notice \in Notices,
               announcer' = [announcer EXCEPT ![w] = a], subject' = subject,
               notice' \in [Notices -> NoticeRow], NoticeOrder', AnnouncementFinal
        PROVE  NoticeStepSound
    <2>1. \A v \in Announcers : announcer'[v] = IF v = w THEN a ELSE announcer[v]
      BY <1>a, OneAnnouncer
    <2>3. RevokedNotAnnounced
      BY <1>a, <2>1 DEF RevokedNotAnnounced
    <2>2. NoticeShape'
      BY <1>a, <1>s, OneAnnouncer DEF NoticeShape
    <2> QED BY <1>a, <2>2, <2>3 DEF NoticeInv, NoticeStepSound
  <1>1. ASSUME NEW j \in Notices, NEW kind \in NoticeKinds, QueueNotice(j, kind)
        PROVE  NoticeStepSound
    <2> DEFINE newRow == [NoNotice EXCEPT !.status = "pending", !.kind = kind]
    <2>1. newRow \in NoticeRow /\ newRow.status = "pending"
      BY DEF NoNotice, NoticeRow
    <2>2. /\ notice' = [notice EXCEPT ![j] = newRow] /\ notice[j].status = "absent"
          /\ subject' = subject /\ announcer' = announcer
      BY <1>1 DEF QueueNotice
    <2>3. notice[j].status \notin NoticeOver
      BY <2>2 DEF NoticeOver
    <2> HIDE DEF newRow
    <2>4. notice' \in [Notices -> NoticeRow] /\ NoticeOrder' /\ AnnouncementFinal
      BY <2>1, <2>2, <2>3, OneNotice
    <2>5. NoticeShape'
      BY <1>s, <2>2, <2>4 DEF NoticeShape
    <2> QED BY <1>k, <2>2, <2>4, <2>5 DEF NoticeInv, NoticeStepSound
  <1>2. ASSUME NEW j \in Notices, RevokeSubject(j) \/ ExpireSubject(j)
        PROVE  NoticeStepSound
    <2>1. announcer' = announcer
      BY <1>2 DEF RevokeSubject, ExpireSubject
    <2> QED BY <1>2, <1>k, <2>1, SubjectStep DEF NoticeStepSound
  <1>3. ASSUME NEW w \in Announcers, NEW j \in Notices, ClaimNotice(w, j)
        PROVE  NoticeStepSound
    <2> DEFINE tries == IF notice[j].attempts < MaxSends THEN notice[j].attempts + 1
                          ELSE MaxSends
               newRow == [notice[j] EXCEPT !.status = "processing", !.owner = w,
                                        !.lease = NoticeLease, !.attempts = tries]
               a == [notice |-> j, stage |-> "loading", attempt |-> tries]
    <2>1. tries \in Nat
      BY <1>r, NotificationAssumption DEF NoticeRow
    <2>2. newRow \in NoticeRow /\ newRow.status = "processing"
      BY <1>r, <2>1, NotificationAssumption DEF NoticeRow
    <2>3. /\ notice' = [notice EXCEPT ![j] = newRow]
          /\ announcer' = [announcer EXCEPT ![w] = a]
          /\ subject' = subject /\ Due(j)
      BY <1>3, <1>r DEF ClaimNotice, NoticeRow
    <2>4. notice[j].status \notin NoticeOver
      BY <2>3 DEF Due, NoticeOver
    <2>5. a \in AnnouncerRow /\ a.stage = "loading" /\ a.notice = j
      BY <2>1 DEF AnnouncerRow, AnnouncerStages
    <2> HIDE DEF newRow, a
    <2>6. notice' \in [Notices -> NoticeRow] /\ NoticeOrder' /\ AnnouncementFinal
      BY <2>2, <2>3, <2>4, OneNotice
    <2> QED BY <1>a, <2>3, <2>5, <2>6
  <1>4. ASSUME NEW w \in Announcers, LoadNotice(w) PROVE NoticeStepSound
    <2>1. PICK stage \in {"renewing", "rejected", "unavailable"} :
            announcer' = [announcer EXCEPT ![w].stage = stage]
      BY <1>4 DEF LoadNotice
    <2> DEFINE a == [announcer[w] EXCEPT !.stage = stage]
    <2>2. announcer' = [announcer EXCEPT ![w] = a] /\ UNCHANGED <<notice, subject>>
      BY <1>4, <2>1 DEF LoadNotice
    <2>3. announcer[w].notice \in Notices /\ announcer[w] \in AnnouncerRow
      BY <1>4, <1>s DEF LoadNotice, NoticeShape
    <2>4. a \in AnnouncerRow /\ a.notice = announcer[w].notice /\ a.stage # "sending"
      BY <2>3 DEF AnnouncerRow, AnnouncerStages, ProviderResult
    <2> HIDE DEF a
    <2> QED BY <1>a, <2>2, <2>3, <2>4, SameNotices
  <1>5. ASSUME NEW w \in Announcers, RenewNotice(w) PROVE NoticeStepSound
    <2> DEFINE j == announcer[w].notice
    <2>1. j \in Notices /\ announcer[w] \in AnnouncerRow
      BY <1>5, <1>s DEF RenewNotice, NoticeShape
    <2>2. subject' = subject
      BY <1>5 DEF RenewNotice
    <2>3. CASE Renewable(w, j)
      <3> DEFINE newRow == [notice[j] EXCEPT !.lease = NoticeLease]
                 a == [announcer[w] EXCEPT !.stage = "sending"]
      <3>1. notice' = [notice EXCEPT ![j] = newRow] /\ announcer' = [announcer EXCEPT ![w] = a]
        BY <1>5, <2>3 DEF RenewNotice
      <3>2. notice[j].status = "processing"
        BY <2>3 DEF Renewable, LeasesNotice, HoldsNotice
      <3>3. newRow \in NoticeRow /\ newRow.status = "processing"
        BY <1>r, <2>1, <3>2, NotificationAssumption DEF NoticeRow
      <3>4. a \in AnnouncerRow /\ a.notice = j
        BY <2>1 DEF AnnouncerRow, AnnouncerStages
      <3>5. subject[j] # "revoked"
        BY <1>s, <2>1, <3>2 DEF NoticeOrder, NoticeOver
      <3>6. notice[j].status \notin NoticeOver
        BY <3>2 DEF NoticeOver
      <3> HIDE DEF newRow, a, j
      <3>7. notice' \in [Notices -> NoticeRow] /\ NoticeOrder' /\ AnnouncementFinal
        BY <2>1, <2>2, <3>1, <3>3, <3>6, OneNotice
      <3>8. /\ \A v \in Announcers : announcer'[v] = IF v = w THEN a ELSE announcer[v]
            /\ NoticeShape'
        BY <1>s, <2>1, <2>2, <3>1, <3>4, <3>7, OneAnnouncer DEF NoticeShape
      <3>9. RevokedNotAnnounced
        BY <3>5, <3>8 DEF RevokedNotAnnounced, j
      <3> QED BY <3>7, <3>8, <3>9 DEF NoticeInv, NoticeStepSound
    <2>4. CASE ~Renewable(w, j)
      <3> DEFINE a == [announcer[w] EXCEPT !.stage = "unavailable"]
      <3>1. notice' = notice /\ announcer' = [announcer EXCEPT ![w] = a]
        BY <1>5, <2>4 DEF RenewNotice
      <3>2. a \in AnnouncerRow /\ a.notice \in Notices /\ a.stage # "sending"
        BY <2>1 DEF AnnouncerRow, AnnouncerStages, ProviderResult
      <3> HIDE DEF a
      <3> QED BY <1>a, <2>2, <3>1, <3>2, SameNotices
    <2> QED BY <2>3, <2>4
  <1>6. ASSUME NEW w \in Announcers, SendNotice(w) PROVE NoticeStepSound
    <2>1. PICK result \in ProviderResult :
            announcer' = [announcer EXCEPT ![w].stage = result]
      BY <1>6 DEF SendNotice
    <2> DEFINE a == [announcer[w] EXCEPT !.stage = result]
    <2>2. announcer' = [announcer EXCEPT ![w] = a] /\ UNCHANGED <<notice, subject>>
      BY <1>6, <2>1 DEF SendNotice
    <2>3. announcer[w].notice \in Notices /\ announcer[w] \in AnnouncerRow
      BY <1>6, <1>s DEF SendNotice, NoticeShape
    <2>4. a \in AnnouncerRow /\ a.notice = announcer[w].notice /\ a.stage # "sending"
      BY <2>3 DEF AnnouncerRow, AnnouncerStages, ProviderResult
    <2> HIDE DEF a
    <2> QED BY <1>a, <2>2, <2>3, <2>4, SameNotices
  <1>i. Resting \in AnnouncerRow /\ Resting.stage = "idle"
    BY DEF Resting, AnnouncerRow, AnnouncerStages
  <1>7. ASSUME NEW w \in Announcers, RecordOutcome(w) PROVE NoticeStepSound
    <2> DEFINE j == announcer[w].notice
               outcome == CASE announcer[w].stage = "ok" -> "sent"
                            [] announcer[w].stage = "unavailable"
                               /\ announcer[w].attempt < MaxSends -> "pending"
                            [] OTHER -> "failed"
               newRow == [notice[j] EXCEPT !.status = outcome, !.owner = Unleased, !.lease = 0]
    <2>1. j \in Notices
      BY <1>7, <1>s DEF RecordOutcome, NoticeShape, ProviderResult
    <2>2. outcome \in {"sent", "pending", "failed"}
      OBVIOUS
    <2>3. /\ notice' = IF Recordable(w, j) THEN [notice EXCEPT ![j] = newRow] ELSE notice
          /\ announcer' = [announcer EXCEPT ![w] = Resting] /\ subject' = subject
      BY <1>7 DEF RecordOutcome
    <2>4. notice' \in [Notices -> NoticeRow] /\ NoticeOrder' /\ AnnouncementFinal
      <3>1. CASE Recordable(w, j)
        <4>1. notice[j].status \notin NoticeOver
          BY <3>1 DEF Recordable, HoldsNotice, NoticeOver
        <4> HIDE DEF outcome
        <4>2. newRow \in NoticeRow /\ newRow.status = outcome
          BY <1>r, <2>1, <2>2 DEF NoticeRow, NoticeOver
        <4>3. notice' = [notice EXCEPT ![j] = newRow] /\ newRow.status # "absent"
          BY <2>2, <2>3, <3>1, <4>2
        <4> HIDE DEF newRow, j
        <4> QED BY <2>1, <2>3, <4>1, <4>2, <4>3, OneNotice
      <3>2. CASE ~Recordable(w, j)
        BY <2>3, <3>2, SameNotices
      <3> QED BY <3>1, <3>2
    <2> QED BY <1>a, <1>i, <2>3, <2>4
  <1>8. ASSUME NEW w \in Announcers, AbandonNotice(w) PROVE NoticeStepSound
    <2>1. announcer' = [announcer EXCEPT ![w] = Resting] /\ UNCHANGED <<notice, subject>>
      BY <1>8 DEF AbandonNotice
    <2> QED BY <1>a, <1>i, <2>1, SameNotices
  <1>9. CASE NotificationTick
    <2>1. /\ \A j \in Notices : notice'[j] =
               [notice[j] EXCEPT !.lease = Elapsed(notice[j].lease)]
          /\ notice' = [j \in Notices |-> notice'[j]]
          /\ UNCHANGED <<subject, announcer>>
      BY <1>9 DEF NotificationTick
    <2>2. \A j \in Notices : /\ notice'[j] \in NoticeRow
                             /\ notice'[j].status = notice[j].status
                             /\ notice'[j].kind = notice[j].kind
      BY <1>r, <2>1 DEF NoticeRow, Elapsed
    <2>3. NoticeShape' /\ NoticeOrder' /\ AnnouncementFinal
      BY <1>s, <2>1, <2>2 DEF NoticeShape, NoticeOrder, AnnouncementFinal
    <2> QED BY <1>k, <2>1, <2>3 DEF NoticeInv, NoticeStepSound
  <1>10. CASE UNCHANGED noticeVars
    BY <1>10, <1>s, <1>k, SameNotices DEF noticeVars, NoticeInv, NoticeShape, NoticeStepSound
  <1> QED
    BY <1>1, <1>2, <1>3, <1>4, <1>5, <1>6, <1>7, <1>8, <1>9, <1>10 DEF NotificationNext

\* The outcome of a notification is written once, and nobody begins to send what
\* was revoked, however late a worker comes back.
THEOREM NotificationSoundHolds == NotificationSpec => NotificationSound
  <1>1. NoticeInv /\ [NotificationNext]_noticeVars
          => NoticeInv' /\ [AnnouncementFinal /\ RevokedNotAnnounced]_noticeVars
    BY NoticeStep DEF NoticeStepSound
  <1> QED BY NoticeStarts, <1>1, PTL DEF NotificationSpec, NotificationSound

----------------------------------------------------------------------------
(* Trust rules and the locks of their writers *)

LockableRows == People \cup Tags

RuleDetails ==
    [rule : TrustRules, subject : People \cup Tags \cup {NoOne},
     target : People \cup Tags \cup {NoOne}, oldSubject : People \cup Tags \cup {NoOne},
     oldTarget : People \cup Tags \cup {NoOne}]
ChangeDetails == [member : People, tags : SUBSET Tags]
ScopeDetails == [tag : Tags]

\* What a transaction that is in flight looks like, by its kind.
EditOfKind(kind, stages, details) ==
    [kind : {kind}, stage : stages, updating : SUBSET LockableRows,
     sharing : SUBSET LockableRows, details : details, wanted : SUBSET LockableRows,
     found : SUBSET People, earlier : SUBSET People]

Stages == {"begun", "first", "tag", "second", "counted", "member", "kept"}

RuleEdits == EditOfKind("rule", Stages, RuleDetails)
TagsEdits == EditOfKind("tags", Stages, ChangeDetails)
RenameEdits == EditOfKind("rename", Stages, ScopeDetails)
ArchiveEdits == EditOfKind("archive", Stages, ScopeDetails)
ArrivalEdits == EditOfKind("arrival", Stages, ChangeDetails)

EditRows == RuleEdits \cup TagsEdits \cup RenameEdits \cup ArchiveEdits \cup ArrivalEdits

RuleRecords ==
    [live : BOOLEAN, subject : LockableRows \cup {NoOne}, target : LockableRows \cup {NoOne}]

TablesShape ==
    /\ standing \in [People -> {"active", "absent", "removed"}]
    /\ tag \in [Tags -> {"absent", "active", "archived"}]
    /\ carries \in [People -> SUBSET Tags]
    /\ rule \in [TrustRules -> RuleRecords]

DirectoryShape == TablesShape /\ edit \in [Edits -> EditRows \cup {NoEdit}]

\* A row that one transaction has locked FOR UPDATE is locked by no other.
LocksExclude ==
    \A d, e \in Edits : d # e /\ Busy(d) /\ Busy(e) =>
        edit[d].updating \cap (edit[e].updating \cup edit[e].sharing) = {}

\* What the transaction x has locked and found at each of its statements.  Whom its
\* statement still wants may have changed since its snapshot; whom it has found may
\* not, and nobody has come to carry a tag that it holds FOR UPDATE.
RuleKnows(x) ==
    LET S == Subjects(x.details)
        T == Targets(x.details) IN
    /\ x.found \subseteq x.updating /\ \A p \in x.found : Present(p)
    /\ x.stage = "tag" =>
         \A t \in RuleTags(x.details) \ x.wanted : t \in x.updating /\ tag[t] = "active"
    /\ x.stage = "second" =>
         /\ \A t \in RuleTags(x.details) : t \in x.updating /\ tag[t] = "active"
         /\ x.earlier \subseteq x.updating
         /\ SelectedBy(S, T) \subseteq x.found \cup x.wanted \cup Named(x.details)
         /\ (x.found \cup x.wanted) \cap x.earlier \subseteq SelectedBy(S, T)

TagChangeKnows(x) ==
    /\ x.stage = "member" => x.details.member \in x.wanted \cup x.updating
    /\ x.stage = "kept" =>
         x.details.member \in x.updating /\ x.details.tags \subseteq x.wanted \cup x.sharing

ScopeKnows(x) ==
    /\ x.stage = "tag" => x.details.tag \in x.wanted \cup x.updating
    /\ x.stage \in {"second", "counted"} =>
         /\ x.details.tag \in x.updating
         /\ x.found \subseteq Holders(x.details.tag)
         /\ Holders(x.details.tag) \subseteq x.found \cup x.wanted
         /\ x.found \subseteq x.updating \cup x.sharing
    /\ x.stage = "counted" =>
         /\ x.found \subseteq x.updating
         /\ x.wanted \subseteq Holders(x.details.tag)
         /\ x.wanted \subseteq x.updating \cup x.sharing

Knows(x) ==
    /\ x.kind = "rule" => RuleKnows(x)
    /\ x.kind = "tags" => TagChangeKnows(x)
    /\ x.kind \in {"rename", "archive"} => ScopeKnows(x)

DirectoryInv ==
    /\ DirectoryShape
    /\ LocksExclude
    /\ \A e \in Edits : Busy(e) => Knows(edit[e])

\* The kind of a transaction tells its details.
LEMMA EditParts ==
    ASSUME NEW x \in EditRows
    PROVE  /\ x.kind \in {"rule", "tags", "rename", "archive", "arrival"}
           /\ x.updating \in SUBSET LockableRows
           /\ x.sharing \in SUBSET LockableRows
           /\ x.wanted \in SUBSET LockableRows
           /\ x.found \in SUBSET People
           /\ x.earlier \in SUBSET People
           /\ x.kind = "rule" => x.details \in RuleDetails
           /\ x.kind \in {"tags", "arrival"} => x.details \in ChangeDetails
           /\ x.kind \in {"rename", "archive"} => x.details \in ScopeDetails
  BY DEF EditRows, RuleEdits, TagsEdits, RenameEdits, ArchiveEdits, ArrivalEdits, EditOfKind

\* A transaction in flight, as a value that does not change with the state.
LEMMA EditInFlight ==
    ASSUME DirectoryInv, NEW e \in Edits, Busy(e)
    PROVE  edit[e] \in EditRows /\ Knows(edit[e])
  BY DEF DirectoryInv, DirectoryShape, Busy

LEMMA DirectoryStarts == DirectoryInit => DirectoryInv
  <1> SUFFICES ASSUME DirectoryInit PROVE DirectoryInv
    OBVIOUS
  <1>1. DirectoryShape
    BY DEF DirectoryInit, DirectoryShape, TablesShape, NoRule, RuleRecords
  <1> QED BY <1>1 DEF DirectoryInit, DirectoryInv, LocksExclude, Busy

\* How the tables may change under the transaction x: whom it has locked keeps its
\* membership and its tags, a tag that it holds FOR UPDATE stays and is given to nobody.
Eases(x) ==
    /\ \A p \in (x.updating \cup x.sharing) \cap People :
         Present(p) => standing'[p] = standing[p] /\ carries'[p] = carries[p]
    /\ \A t \in x.updating \cap Tags :
         /\ tag[t] = "active" => tag'[t] = "active"
         /\ \A p \in People : standing'[p] = "active" /\ t \in carries'[p] =>
              Present(p) /\ t \in carries[p]

\* Who is selected after the tables have changed was selected before, but for the
\* members that the rule names.
LEMMA SelectionShrinks ==
    ASSUME NEW x \in EditRows, x.kind = "rule", Eases(x), TablesShape',
           RuleTags(x.details) \subseteq x.updating
    PROVE  SelectedBy(Subjects(x.details), Targets(x.details))'
             \subseteq SelectedBy(Subjects(x.details), Targets(x.details)) \cup Named(x.details)
  <1> DEFINE S == Subjects(x.details)
             T == Targets(x.details)
  <1>1. RuleTags(x.details) = (S \cup T) \cap Tags /\ Named(x.details) = (S \cup T) \cap People
    BY DEF RuleTags, Named
  <1> HIDE DEF S, T
  <1>2. SUFFICES ASSUME NEW p \in SelectedBy(S, T)', p \notin S \cup T
                 PROVE  p \in SelectedBy(S, T)
    BY <1>1 DEF S, T, SelectedBy
  <1>3. p \in People /\ standing'[p] = "active" /\ carries'[p] \subseteq Tags
    BY <1>2 DEF SelectedBy, Present, TablesShape
  <1>4. CASE carries'[p] \cap S # {}
    <2>1. PICK t \in Tags : t \in carries'[p] /\ t \in S
      BY <1>3, <1>4
    <2>2. Present(p) /\ t \in carries[p]
      BY <1>1, <1>3, <2>1 DEF Eases
    <2> QED BY <1>3, <2>1, <2>2 DEF SelectedBy
  <1>5. CASE p \in DirectorySilicons /\ carries'[p] \cap T # {}
    <2>1. PICK t \in Tags : t \in carries'[p] /\ t \in T
      BY <1>3, <1>5
    <2>2. Present(p) /\ t \in carries[p]
      BY <1>1, <1>3, <2>1 DEF Eases
    <2> QED BY <1>3, <1>5, <2>1, <2>2 DEF SelectedBy
  <1> QED BY <1>2, <1>4, <1>5 DEF SelectedBy, S, T

\* Whom a transaction has locked is selected, or holds a tag, as before.
LEMMA LockedStay ==
    ASSUME NEW x \in EditRows, Eases(x), NEW p \in People, p \in x.updating \cup x.sharing,
           Present(p)
    PROVE  /\ Present(p)' /\ carries'[p] = carries[p]
           /\ \A S, T : p \in SelectedBy(S, T) => p \in SelectedBy(S, T)'
           /\ \A t : p \in Holders(t) => p \in Holders(t)'
  <1>1. standing'[p] = "active" /\ carries'[p] = carries[p]
    BY DEF Eases, Present
  <1> QED BY <1>1 DEF SelectedBy, Holders, Present

LEMMA KnowsRuleStill ==
    ASSUME NEW x \in EditRows, x.kind = "rule", RuleKnows(x), Eases(x), TablesShape'
    PROVE  RuleKnows(x)'
  <1> DEFINE S == Subjects(x.details)
             T == Targets(x.details)
  <1>1. RuleTags(x.details) \subseteq Tags
    BY DEF RuleTags
  <1>2. x.found \subseteq x.updating /\ \A p \in x.found : Present(p)'
    BY EditParts, LockedStay DEF RuleKnows
  <1>3. x.stage = "tag" =>
          \A t \in RuleTags(x.details) \ x.wanted : t \in x.updating /\ tag'[t] = "active"
    BY <1>1 DEF RuleKnows, Eases
  <1>4. ASSUME x.stage = "second"
        PROVE  /\ \A t \in RuleTags(x.details) : t \in x.updating /\ tag'[t] = "active"
               /\ x.earlier \subseteq x.updating
               /\ SelectedBy(S, T)' \subseteq x.found \cup x.wanted \cup Named(x.details)
               /\ (x.found \cup x.wanted) \cap x.earlier \subseteq SelectedBy(S, T)'
    <2>1. \A t \in RuleTags(x.details) : t \in x.updating /\ tag'[t] = "active"
      BY <1>1, <1>4 DEF RuleKnows, Eases
    <2>2. SelectedBy(S, T)' \subseteq x.found \cup x.wanted \cup Named(x.details)
      <3>1. SelectedBy(S, T)' \subseteq SelectedBy(S, T) \cup Named(x.details)
        BY <2>1, SelectionShrinks
      <3> QED BY <1>4, <3>1 DEF RuleKnows
    <2>3. ASSUME NEW p \in (x.found \cup x.wanted) \cap x.earlier
          PROVE  p \in SelectedBy(S, T)'
      <3>1. p \in SelectedBy(S, T) /\ p \in x.updating
        BY <1>4, <2>3 DEF RuleKnows
      <3>2. p \in People /\ Present(p)
        BY <3>1 DEF SelectedBy
      <3> HIDE DEF S, T
      <3>3. p \in SelectedBy(S, T)'
        BY <3>1, <3>2, LockedStay
      <3> QED BY <3>3
    <2> QED BY <1>4, <2>1, <2>2, <2>3 DEF RuleKnows
  <1> QED BY <1>2, <1>3, <1>4 DEF RuleKnows

LEMMA KnowsScopeStill ==
    ASSUME NEW x \in EditRows, x.kind \in {"rename", "archive"}, ScopeKnows(x), Eases(x)
    PROVE  ScopeKnows(x)'
  <1>1. PICK t \in Tags : t = x.details.tag
    BY EditParts DEF ScopeDetails
  <1>2. \A p \in (x.updating \cup x.sharing) : p \in Holders(t) => p \in Holders(t)'
    <2>1. \A p \in Holders(t) : p \in People /\ Present(p)
      BY DEF Holders
    <2> QED BY <2>1, LockedStay
  <1>3. t \in x.updating => Holders(t)' \subseteq Holders(t)
    BY DEF Eases, Holders, Present
  <1>4. Holders(x.details.tag) = Holders(t) /\ Holders(x.details.tag)' = Holders(t)'
    BY <1>1 DEF Holders
  <1> QED BY <1>1, <1>2, <1>3, <1>4 DEF ScopeKnows

LEMMA KnowsStill ==
    ASSUME NEW x \in EditRows, Knows(x), Eases(x), TablesShape'
    PROVE  Knows(x)'
  BY KnowsRuleStill, KnowsScopeStill DEF Knows, TagChangeKnows

\* A transaction ends, or none does, while rows change.
LEMMA RowsChange ==
    ASSUME DirectoryInv, TablesShape',
           \/ edit' = edit
           \/ \E e \in Edits : edit' = [edit EXCEPT ![e] = NoEdit],
           \A f \in Edits : Busy(f) /\ edit'[f] = edit[f] => Eases(edit[f])
    PROVE  DirectoryInv'
  <1>1. DirectoryShape'
    BY DEF DirectoryInv, DirectoryShape
  <1>2. \A f \in Edits : Busy(f)' => Busy(f) /\ edit'[f] = edit[f]
    BY DEF DirectoryInv, DirectoryShape, Busy
  <1>3. LocksExclude'
    BY <1>2 DEF DirectoryInv, LocksExclude
  <1>4. ASSUME NEW f \in Edits, Busy(f)' PROVE Knows(edit[f])'
    <2>1. PICK x \in EditRows : x = edit[f] /\ Knows(x)
      BY <1>2, <1>4, EditInFlight
    <2>2. Eases(x) /\ x = edit'[f]
      BY <1>2, <1>4, <2>1
    <2>3. Knows(x)'
      BY <2>1, <2>2, KnowsStill
    <2> QED BY <2>2, <2>3
  <1> QED BY <1>1, <1>3, <1>4 DEF DirectoryInv

\* Tables that do not change ease everybody.
LEMMA SameTables ==
    ASSUME UNCHANGED <<standing, carries>>, NEW x,
           \A t \in Tags : tag[t] = "active" => tag'[t] = "active"
    PROVE  Eases(x)
  BY DEF Eases, Present

\* One transaction changes, and no table.
LEMMA EditChange ==
    ASSUME DirectoryInv, NEW e \in Edits, NEW r \in EditRows,
           edit' = [edit EXCEPT ![e] = r], UNCHANGED directoryRows,
           \A d \in Edits : d # e /\ Busy(d) =>
             /\ r.updating \cap (edit[d].updating \cup edit[d].sharing) = {}
             /\ r.sharing \cap edit[d].updating = {},
           Knows(r)
    PROVE  DirectoryInv'
  <1>1. edit \in [Edits -> EditRows \cup {NoEdit}]
    BY DEF DirectoryInv, DirectoryShape
  <1>2. \A d \in Edits : edit'[d] = IF d = e THEN r ELSE edit[d]
    BY <1>1
  <1>3. DirectoryShape' /\ TablesShape'
    BY <1>1 DEF DirectoryInv, DirectoryShape, TablesShape, directoryRows
  <1>4. LocksExclude'
    BY <1>2 DEF DirectoryInv, LocksExclude, Busy
  <1>5. ASSUME NEW d \in Edits, Busy(d)' PROVE Knows(edit[d])'
    <2>1. PICK x \in EditRows : x = edit'[d] /\ Knows(x)
      BY <1>2, <1>5, EditInFlight DEF Busy
    <2>2. Eases(x)
      BY SameTables DEF directoryRows
    <2>3. Knows(x)'
      BY <1>3, <2>1, <2>2, KnowsStill
    <2> QED BY <2>1, <2>3
  <1> QED BY <1>3, <1>4, <1>5 DEF DirectoryInv

\* A transaction begins with its author's row shared.
LEMMA BeginEdit ==
    ASSUME DirectoryInv, NEW e \in Edits, NEW kind \in {"rule", "tags", "rename", "archive"},
           NEW author \in People, NEW details, Begin(e, kind, author, details),
           kind = "rule" => details \in RuleDetails,
           kind = "tags" => details \in ChangeDetails,
           kind \in {"rename", "archive"} => details \in ScopeDetails
    PROVE  DirectoryInv'
  <1> DEFINE r == [kind |-> kind, stage |-> "begun", updating |-> {}, sharing |-> {author},
                   details |-> details, wanted |-> {}, found |-> {}, earlier |-> {}]
  <1>1. r \in EditRows
    BY DEF EditRows, RuleEdits, TagsEdits, RenameEdits, ArchiveEdits, EditOfKind,
           LockableRows, Stages
  <1>2. edit' = [edit EXCEPT ![e] = r] /\ UNCHANGED directoryRows
    BY DEF Begin
  <1>3. \A d \in Edits : d # e /\ Busy(d) => author \notin edit[d].updating
    BY DEF Begin, Free, Conflicts
  <1>4. Knows(r)
    BY DEF Knows, RuleKnows, TagChangeKnows, ScopeKnows
  <1>5. r.updating = {} /\ r.sharing = {author}
    OBVIOUS
  <1> HIDE DEF r
  <1> QED BY <1>1, <1>2, <1>3, <1>4, <1>5, EditChange

LEMMA BeginArrivalKeeps ==
    ASSUME DirectoryInv, NEW e \in Edits, NEW p \in People, NEW tags \in SUBSET Tags,
           BeginArrival(e, p, tags)
    PROVE  DirectoryInv'
  <1> DEFINE r == [kind |-> "arrival", stage |-> "begun", updating |-> {}, sharing |-> {},
                   details |-> [member |-> p, tags |-> tags],
                   wanted |-> {}, found |-> {}, earlier |-> {}]
  <1>1. r \in EditRows
    BY DEF EditRows, ArrivalEdits, EditOfKind, LockableRows, Stages, ChangeDetails
  <1>2. edit' = [edit EXCEPT ![e] = r] /\ UNCHANGED directoryRows
    BY DEF BeginArrival
  <1>3. Knows(r)
    BY DEF Knows
  <1>4. r.updating = {} /\ r.sharing = {}
    OBVIOUS
  <1> HIDE DEF r
  <1> QED BY <1>1, <1>2, <1>3, <1>4, EditChange

\* The rows of one kind, among which a row stays that keeps its kind and its details.
LEMMA RowsOfKind ==
    ASSUME NEW x \in EditRows
    PROVE  \E kind, details : /\ x \in EditOfKind(kind, Stages, details)
                             /\ EditOfKind(kind, Stages, details) \subseteq EditRows
  BY DEF EditRows, RuleEdits, TagsEdits, RenameEdits, ArchiveEdits, ArrivalEdits

\* A statement begins: what it wants is what it selects, and what the edit knew is
\* what it knows when it has nothing left to lock.
LEMMA StatementBegins ==
    ASSUME DirectoryInv, NEW e \in Edits, NEW next \in Stages, BeginStatement(e, next)
    PROVE  DirectoryInv'
  <1>1. PICK x \in EditRows : x = edit[e] /\ Knows(x)
    BY EditInFlight DEF BeginStatement
  <1> DEFINE pass == next \in {"first", "second", "counted"}
             W == RowsOf(e, next)
             r == IF pass
                  THEN [x EXCEPT !.stage = next, !.wanted = W,
                                 !.earlier = x.found, !.found = {}]
                  ELSE [x EXCEPT !.stage = next, !.wanted = W]
  <1>2. /\ Busy(e) /\ x.wanted = {} /\ Follows(x.kind, x.stage, next)
        /\ edit' = [edit EXCEPT ![e] = r] /\ UNCHANGED directoryRows
    BY <1>1 DEF BeginStatement
  <1>3. /\ x.kind = "rule" => W = RuleRows(x.details, next)
        /\ x.kind = "tags" => W = TagChangeRows(x.details, next)
        /\ x.kind \in {"rename", "archive"} => W = TagRows(x.details, next)
    BY <1>1, EditParts DEF RowsOf
  <1>4. W \in SUBSET LockableRows
    <2>1. x.kind \in {"rule", "tags", "rename", "archive"}
      BY <1>2, EditParts DEF Follows
    <2>2. CASE x.kind = "rule"
      BY <1>3, <2>2 DEF RuleRows, RuleTags, SelectedBy, LockableRows
    <2>3. CASE x.kind = "tags"
      BY <1>3, <2>3, EditParts DEF TagChangeRows, ChangeDetails, LockableRows
    <2>4. CASE x.kind \in {"rename", "archive"}
      BY <1>3, <2>4, EditParts DEF TagRows, ScopeDetails, Holders, LockableRows
    <2> QED BY <2>1, <2>2, <2>3, <2>4
  <1> HIDE DEF W
  <1>5. /\ r.kind = x.kind /\ r.details = x.details /\ r.stage = next /\ r.wanted = W
        /\ r.updating = x.updating /\ r.sharing = x.sharing
        /\ pass => r.found = {} /\ r.earlier = x.found
        /\ ~pass => r.found = x.found /\ r.earlier = x.earlier
    BY DEF EditRows, RuleEdits, TagsEdits, RenameEdits, ArchiveEdits, ArrivalEdits, EditOfKind
  <1>6. r \in EditRows
    BY <1>4 DEF EditRows, RuleEdits, TagsEdits, RenameEdits, ArchiveEdits, ArrivalEdits,
                EditOfKind
  <1> HIDE DEF r
  <1>7. Knows(r)
    <2>1. ASSUME x.kind = "rule" PROVE RuleKnows(r)
      <3>1. RuleKnows(x) /\ <<x.stage, next>> \in
              {<<"begun", "first">>, <<"first", "tag">>, <<"tag", "second">>}
        BY <1>1, <1>2, <2>1 DEF Knows, Follows
      <3>2. r.found \subseteq r.updating /\ \A p \in r.found : Present(p)
        BY <1>5, <3>1 DEF RuleKnows
      <3>3. next = "tag" => \A t \in RuleTags(r.details) : t \in r.wanted
        BY <1>3, <1>5, <2>1 DEF RuleRows
      <3>4. next = "second" =>
              /\ \A t \in RuleTags(r.details) : t \in r.updating /\ tag[t] = "active"
              /\ r.earlier \subseteq r.updating /\ r.found = {}
              /\ r.wanted = SelectedBy(Subjects(r.details), Targets(r.details))
        BY <1>2, <1>3, <1>5, <2>1, <3>1 DEF RuleKnows, RuleRows
      <3> QED BY <1>5, <3>2, <3>3, <3>4 DEF RuleKnows
    <2>2. ASSUME x.kind = "tags" PROVE TagChangeKnows(r)
      BY <1>1, <1>2, <1>3, <1>5, <2>2 DEF Knows, TagChangeKnows, TagChangeRows, Follows
    <2>3. ASSUME x.kind \in {"rename", "archive"} PROVE ScopeKnows(r)
      <3>1. ScopeKnows(x) /\ <<x.stage, next>> \in
              {<<"begun", "first">>, <<"first", "tag">>, <<"tag", "second">>,
               <<"second", "counted">>}
        BY <1>1, <1>2, <2>3 DEF Knows, Follows
      <3>2. CASE next \in {"first", "tag"}
        BY <1>3, <1>5, <2>3, <3>2 DEF ScopeKnows, TagRows
      <3>3. CASE next \in {"second", "counted"}
        BY <1>2, <1>3, <1>5, <2>3, <3>1, <3>3 DEF ScopeKnows, TagRows
      <3> QED BY <3>1, <3>2, <3>3
    <2> QED BY <1>5, <2>1, <2>2, <2>3 DEF Knows
  <1>8. \A d \in Edits : d # e /\ Busy(d) =>
             /\ r.updating \cap (edit[d].updating \cup edit[d].sharing) = {}
             /\ r.sharing \cap edit[d].updating = {}
    BY <1>1, <1>2, <1>5 DEF DirectoryInv, LocksExclude
  <1> QED BY <1>2, <1>6, <1>7, <1>8, EditChange

\* A row q is locked or passed over: what becomes of the row x of its transaction.
Advances(x, q, mode, takes, r) ==
    /\ r.kind = x.kind /\ r.stage = x.stage /\ r.details = x.details
    /\ r.updating = x.updating \cup (IF takes /\ mode = "update" THEN {q} ELSE {})
    /\ r.sharing = x.sharing \cup (IF takes /\ mode = "share" THEN {q} ELSE {})
    /\ r.wanted = x.wanted \ {q} /\ r.earlier = x.earlier

\* Whoever obtains a row of a statement keeps what it knows: the locks still exclude
\* each other.
LEMMA RowObtained ==
    ASSUME DirectoryInv, NEW e \in Edits, NEW x \in EditRows, x = edit[e], Busy(e),
           NEW q \in People \cup Tags, NEW mode \in {"update", "share"}, NEW takes \in BOOLEAN,
           takes => Free(e, mode, {q}),
           NEW r, Advances(x, q, mode, takes, r), r \in EditRows, Knows(r),
           edit' = [edit EXCEPT ![e] = r], UNCHANGED directoryRows
    PROVE  DirectoryInv'
  <1>1. ASSUME NEW d \in Edits, d # e, Busy(d)
        PROVE  /\ r.updating \cap (edit[d].updating \cup edit[d].sharing) = {}
               /\ r.sharing \cap edit[d].updating = {}
    <2>1. /\ x.updating \cap (edit[d].updating \cup edit[d].sharing) = {}
          /\ edit[d].updating \cap x.sharing = {}
      BY <1>1 DEF DirectoryInv, LocksExclude
    <2>2. takes => q \notin edit[d].updating
                    /\ (mode = "update" => q \notin edit[d].sharing)
      BY <1>1 DEF Free, Conflicts
    <2> QED BY <2>1, <2>2 DEF Advances
  <1> QED BY <1>1, EditChange

LEMMA RowLocked ==
    ASSUME DirectoryInv, NEW e \in Edits, NEW q \in People \cup Tags, LockRow(e, q)
    PROVE  DirectoryInv'
  <1>1. PICK x \in EditRows : x = edit[e] /\ Knows(x)
    BY EditInFlight DEF LockRow, Obtainable
  <1>2. PICK mode \in {"update", "share"} : mode = LockMode(x.kind, x.stage)
    BY DEF LockMode
  <1> DEFINE r == [Locking(e, mode, {q}) EXCEPT
                     !.wanted = @ \ {q}, !.found = @ \cup ({q} \cap People)]
  <1>3. /\ Busy(e) /\ q \in x.wanted /\ Free(e, mode, {q}) /\ StillMatches(e, q)
        /\ edit' = [edit EXCEPT ![e] = r] /\ UNCHANGED directoryRows
    BY <1>1, <1>2 DEF LockRow, Obtainable
  <1>4. /\ Advances(x, q, mode, TRUE, r)
        /\ r.found = x.found \cup ({q} \cap People) /\ r \in EditRows
    <2>1. PICK kind, details : /\ x \in EditOfKind(kind, Stages, details)
                               /\ EditOfKind(kind, Stages, details) \subseteq EditRows
      BY RowsOfKind
    <2>2. CASE mode = "update"
      <3>1. r = [[x EXCEPT !.updating = @ \cup {q}] EXCEPT
                   !.wanted = @ \ {q}, !.found = @ \cup ({q} \cap People)]
        BY <1>1, <2>2 DEF Locking
      <3> QED BY <2>1, <2>2, <3>1 DEF Advances, EditOfKind, LockableRows
    <2>3. CASE mode = "share"
      <3>1. r = [[x EXCEPT !.sharing = @ \cup {q}] EXCEPT
                   !.wanted = @ \ {q}, !.found = @ \cup ({q} \cap People)]
        BY <1>1, <2>3 DEF Locking
      <3> QED BY <2>1, <2>3, <3>1 DEF Advances, EditOfKind, LockableRows
    <2> QED BY <2>2, <2>3
  <1> HIDE DEF r
  <1>5. /\ q \in People => Present(q)
        /\ q \in Tags /\ x.kind # "tags" => tag[q] = "active"
    BY <1>1, <1>3, DirectoryAssumption DEF StillMatches
  <1>6. ASSUME x.kind = "rule" PROVE RuleKnows(r)
    <2>1. r.updating = x.updating \cup {q} /\ r.found \subseteq x.found \cup ({q} \cap People)
      BY <1>2, <1>4, <1>6 DEF Advances, LockMode
    <2>2. RuleTags(x.details) \subseteq Tags
      BY DEF RuleTags
    <2>3. SelectedBy(Subjects(x.details), Targets(x.details)) \subseteq People
      BY DEF SelectedBy
    <2> QED BY <1>1, <1>3, <1>4, <1>5, <1>6, <2>1, <2>2, <2>3
            DEF Knows, RuleKnows, Advances
  <1>7. ASSUME x.kind = "tags" PROVE TagChangeKnows(r)
    BY <1>1, <1>2, <1>4, <1>7 DEF Knows, TagChangeKnows, Advances, LockMode
  <1>8. ASSUME x.kind \in {"rename", "archive"} PROVE ScopeKnows(r)
    <2>1. PICK t \in Tags : t = x.details.tag
      BY <1>8, EditParts DEF ScopeDetails
    <2>2. ScopeKnows(x)
      BY <1>1, <1>8 DEF Knows
    <2>3. CASE x.stage = "tag"
      BY <1>2, <1>4, <1>8, <2>2, <2>3 DEF ScopeKnows, Advances, LockMode
    <2>4. CASE x.stage = "second"
      <3>1. q \in People => q \in Holders(t)
        BY <1>1, <1>3, <1>8, <2>1, <2>4 DEF StillMatches, ByAssignment, Holders
      <3>2. r.sharing = x.sharing \cup {q} /\ r.updating = x.updating
        BY <1>2, <1>4, <1>8, <2>4 DEF Advances, LockMode
      <3>3. Holders(t) \subseteq People
        BY DEF Holders
      <3> QED BY <1>4, <2>1, <2>2, <2>4, <3>1, <3>2, <3>3 DEF ScopeKnows, Advances
    <2>5. CASE x.stage = "counted"
      <3>1. r.updating = x.updating \cup {q} /\ r.sharing = x.sharing
        BY <1>2, <1>4, <1>8, <2>5 DEF Advances, LockMode
      <3>2. Holders(t) \subseteq People
        BY DEF Holders
      <3> QED BY <1>3, <1>4, <2>1, <2>2, <2>5, <3>1, <3>2 DEF ScopeKnows, Advances
    <2> QED BY <1>4, <2>3, <2>4, <2>5 DEF ScopeKnows, Advances
  <1>9. Knows(r)
    BY <1>4, <1>6, <1>7, <1>8 DEF Knows, Advances
  <1> DEFINE takes == TRUE
  <1>10. /\ takes \in BOOLEAN /\ (takes => Free(e, mode, {q}))
         /\ Advances(x, q, mode, takes, r) /\ r \in EditRows
    BY <1>3, <1>4
  <1> HIDE DEF takes
  <1> QED BY <1>1, <1>3, <1>9, <1>10, RowObtained

LEMMA RowPassedOver ==
    ASSUME DirectoryInv, NEW e \in Edits, NEW q \in People \cup Tags, PassOver(e, q)
    PROVE  DirectoryInv'
  <1>1. PICK x \in EditRows : x = edit[e] /\ Knows(x)
    BY EditInFlight DEF PassOver, Obtainable
  <1> DEFINE takes == x.kind = "rule"
             r == [(IF takes THEN Locking(e, "update", {q}) ELSE x) EXCEPT !.wanted = @ \ {q}]
  <1>2. /\ Busy(e) /\ q \in x.wanted /\ q \in People /\ x.kind # "tags"
        /\ takes => Free(e, "update", {q})
        /\ ~StillMatches(e, q) \/ (ByAssignment(e) /\ x.stage = "first")
        /\ edit' = [edit EXCEPT ![e] = r] /\ UNCHANGED directoryRows
    BY <1>1 DEF PassOver, Obtainable, LockMode
  <1>3. /\ Advances(x, q, "update", takes, r) /\ r.found = x.found /\ r \in EditRows
    <2>1. PICK kind, details : /\ x \in EditOfKind(kind, Stages, details)
                               /\ EditOfKind(kind, Stages, details) \subseteq EditRows
      BY RowsOfKind
    <2>2. CASE takes
      <3>1. r = [[x EXCEPT !.updating = @ \cup {q}] EXCEPT !.wanted = @ \ {q}]
        BY <1>1, <2>2 DEF Locking
      <3>2. r \in EditOfKind(kind, Stages, details)
        <4>1. /\ x.updating \cup {q} \in SUBSET LockableRows
              /\ x.wanted \ {q} \in SUBSET LockableRows
          BY EditParts DEF LockableRows
        <4> HIDE DEF r
        <4> QED BY <2>1, <3>1, <4>1 DEF EditOfKind
      <3>3. /\ r.kind = x.kind /\ r.stage = x.stage /\ r.details = x.details
            /\ r.updating = x.updating \cup {q} /\ r.sharing = x.sharing
            /\ r.wanted = x.wanted \ {q} /\ r.earlier = x.earlier /\ r.found = x.found
        BY <2>1, <3>1 DEF EditOfKind
      <3> QED BY <2>1, <2>2, <3>2, <3>3 DEF Advances
    <2>3. CASE ~takes
      BY <2>1, <2>3 DEF Advances, EditOfKind
    <2> QED BY <2>2, <2>3
  <1> HIDE DEF r
  <1>4. ASSUME x.kind = "rule" PROVE RuleKnows(r)
    <2>1. q \notin SelectedBy(Subjects(x.details), Targets(x.details))
      BY <1>1, <1>2, <1>4 DEF StillMatches, ByAssignment, SelectedBy
    <2>2. q \notin RuleTags(x.details)
      BY <1>2, DirectoryAssumption DEF RuleTags
    <2>3. r.updating = x.updating \cup {q}
      BY <1>3, <1>4 DEF Advances
    <2> QED BY <1>1, <1>3, <1>4, <2>1, <2>2, <2>3 DEF Knows, RuleKnows, Advances
  <1>5. ASSUME x.kind \in {"rename", "archive"} PROVE ScopeKnows(r)
    <2>1. PICK t \in Tags : t = x.details.tag
      BY <1>5, EditParts DEF ScopeDetails
    <2>2. ScopeKnows(x) /\ q # t
      BY <1>1, <1>2, <1>5, DirectoryAssumption DEF Knows
    <2>3. x.stage \in {"second", "counted"} => q \notin Holders(t)
      BY <1>1, <1>2, <1>5, <2>1 DEF StillMatches, ByAssignment, Holders
    <2> QED BY <1>3, <1>5, <2>1, <2>2, <2>3 DEF ScopeKnows, Advances
  <1>6. Knows(r)
    BY <1>2, <1>3, <1>4, <1>5 DEF Knows, Advances
  <1> QED BY <1>1, <1>2, <1>3, <1>6, RowObtained

\* What a transaction that has all its locks relies on.
LEMMA LastLocks ==
    ASSUME DirectoryInv, NEW e \in Edits, AllLocked(e), NEW f \in Edits, f # e, Busy(f)
    PROVE  /\ edit[e] \in EditRows /\ edit[e].wanted = {} /\ Knows(edit[e])
           /\ edit[e].stage = LastStage(edit[e].kind)
           /\ edit[f] \in EditRows
           /\ edit[e].updating \cap (edit[f].updating \cup edit[f].sharing) = {}
           /\ edit[f].updating \cap (edit[e].updating \cup edit[e].sharing) = {}
  BY EditInFlight DEF AllLocked, DirectoryInv, LocksExclude

\* The other transactions, while one ends.
LEMMA Others ==
    ASSUME NEW e \in Edits, NEW f \in Edits, Busy(f), DirectoryShape,
           edit' = [edit EXCEPT ![e] = NoEdit], edit'[f] = edit[f]
    PROVE  f # e
  BY DEF DirectoryShape, Busy

LEMMA TagEditEnds ==
    ASSUME DirectoryInv, NEW e \in Edits, FinishTagEdit(e)
    PROVE  DirectoryInv'
  <1>0. DirectoryShape /\ TablesShape
    BY DEF DirectoryInv, DirectoryShape
  <1>1. PICK x \in EditRows : x = edit[e] /\ Knows(x)
    BY EditInFlight DEF FinishTagEdit, AllLocked
  <1>2. PICK t \in Tags : t = x.details.tag
    BY <1>1, EditParts DEF FinishTagEdit, ScopeDetails
  <1>3. /\ AllLocked(e) /\ x.kind \in {"rename", "archive"}
        /\ x.stage = LastStage(x.kind) /\ x.wanted = {}
        /\ edit' = [edit EXCEPT ![e] = NoEdit] /\ standing' = standing
        /\ x.kind = "rename" => UNCHANGED <<tag, carries, rule>>
        /\ x.kind = "archive" =>
             /\ tag' = [tag EXCEPT ![t] = "archived"]
             /\ carries' = [p \in People |-> carries[p] \ {t}]
             /\ rule' = [k \in TrustRules |->
                  IF rule[k].live /\ t \in {rule[k].subject, rule[k].target}
                  THEN NoRule ELSE rule[k]]
    BY <1>1, <1>2 DEF FinishTagEdit, Commit, AllLocked
  <1>4. TablesShape'
    <2>1. NoRule \in RuleRecords
      BY DEF NoRule, RuleRecords
    <2> QED BY <1>0, <1>3, <2>1 DEF TablesShape
  <1>5. ASSUME NEW f \in Edits, Busy(f), edit'[f] = edit[f] PROVE Eases(edit[f])
    <2>1. CASE x.kind = "rename"
      BY <1>3, <2>1, SameTables
    <2>2. CASE x.kind = "archive"
      <3>1. t \in x.updating /\ Holders(t) \subseteq x.updating
        BY <1>1, <1>2, <1>3, <2>2 DEF Knows, ScopeKnows, LastStage
      <3>2. x.updating \cap (edit[f].updating \cup edit[f].sharing) = {}
        BY <1>0, <1>1, <1>3, <1>5, Others, LastLocks
      <3>3. \A p \in (edit[f].updating \cup edit[f].sharing) \cap People :
              Present(p) => t \notin carries[p]
        BY <3>1, <3>2 DEF Holders
      <3>4. \A p \in People : carries'[p] = carries[p] \ {t}
        BY <1>3, <2>2
      <3>5. \A u \in Tags : u # t => tag'[u] = tag[u]
        BY <1>0, <1>3, <2>2 DEF TablesShape
      <3>6. ASSUME NEW p \in (edit[f].updating \cup edit[f].sharing) \cap People, Present(p)
            PROVE  standing'[p] = standing[p] /\ carries'[p] = carries[p]
        <4>1. t \notin carries[p] /\ carries'[p] = carries[p] \ {t}
          BY <3>3, <3>4, <3>6
        <4>2. standing'[p] = standing[p]
          BY <1>3
        <4> QED BY <4>1, <4>2
      <3>7. t \notin edit[f].updating
        BY <3>1, <3>2
      <3> QED BY <1>3, <3>4, <3>5, <3>6, <3>7 DEF Eases, Present
    <2> QED BY <1>3, <2>1, <2>2
  <1> QED BY <1>3, <1>4, <1>5, RowsChange

LEMMA TagChangeEnds ==
    ASSUME DirectoryInv, NEW e \in Edits, FinishTagChange(e)
    PROVE  DirectoryInv'
  <1>0. DirectoryShape /\ TablesShape
    BY DEF DirectoryInv, DirectoryShape
  <1>1. PICK x \in EditRows : x = edit[e] /\ Knows(x)
    BY EditInFlight DEF FinishTagChange, AllLocked
  <1>2. PICK m \in People, tags \in SUBSET Tags : m = x.details.member /\ tags = x.details.tags
    BY <1>1, EditParts DEF FinishTagChange, ChangeDetails
  <1>3. /\ AllLocked(e) /\ x.kind = "tags" /\ x.stage = LastStage(x.kind) /\ x.wanted = {}
        /\ Present(m) /\ carries' = [carries EXCEPT ![m] = tags]
        /\ edit' = [edit EXCEPT ![e] = NoEdit] /\ UNCHANGED <<standing, tag, rule>>
    BY <1>1, <1>2 DEF FinishTagChange, Commit, AllLocked
  <1>4. TablesShape'
    BY <1>0, <1>3 DEF TablesShape
  <1>5. m \in x.updating /\ tags \subseteq x.sharing
    BY <1>1, <1>2, <1>3 DEF Knows, TagChangeKnows, LastStage
  <1>6. ASSUME NEW f \in Edits, Busy(f), edit'[f] = edit[f] PROVE Eases(edit[f])
    <2>1. /\ x.updating \cap (edit[f].updating \cup edit[f].sharing) = {}
          /\ edit[f].updating \cap x.sharing = {}
      BY <1>0, <1>1, <1>3, <1>6, Others, LastLocks
    <2>2. \A p \in People : carries'[p] = IF p = m THEN tags ELSE carries[p]
      BY <1>0, <1>3 DEF TablesShape
    <2> QED BY <1>3, <1>5, <2>1, <2>2 DEF Eases, Present
  <1> QED BY <1>3, <1>4, <1>6, RowsChange

LEMMA ArrivalEnds ==
    ASSUME DirectoryInv, NEW e \in Edits, FinishArrival(e)
    PROVE  DirectoryInv'
  <1>0. DirectoryShape /\ TablesShape
    BY DEF DirectoryInv, DirectoryShape
  <1>1. PICK x \in EditRows : x = edit[e]
    BY EditInFlight DEF FinishArrival, AllLocked
  <1>2. PICK m \in People, tags \in SUBSET Tags : m = x.details.member /\ tags = x.details.tags
    BY <1>1, EditParts DEF FinishArrival, ChangeDetails
  <1>3. /\ standing' = [standing EXCEPT ![m] = "active"]
        /\ carries' = [carries EXCEPT ![m] = tags]
        /\ Free(e, "update", {m}) /\ Free(e, "share", tags)
        /\ edit' = [edit EXCEPT ![e] = NoEdit] /\ UNCHANGED <<tag, rule>>
    BY <1>1, <1>2 DEF FinishArrival, Commit
  <1>4. TablesShape'
    BY <1>0, <1>3 DEF TablesShape
  <1>5. ASSUME NEW f \in Edits, Busy(f), edit'[f] = edit[f] PROVE Eases(edit[f])
    <2>1. /\ m \notin edit[f].updating \cup edit[f].sharing
          /\ tags \cap edit[f].updating = {}
      BY <1>0, <1>3, <1>5, Others DEF Free, Conflicts
    <2>2. /\ \A p \in People : carries'[p] = IF p = m THEN tags ELSE carries[p]
          /\ \A p \in People : p # m => standing'[p] = standing[p]
      BY <1>0, <1>3 DEF TablesShape
    <2> QED BY <1>3, <2>1, <2>2 DEF Eases, Present
  <1> QED BY <1>3, <1>4, <1>5, RowsChange

LEMMA DepartureEnds ==
    ASSUME DirectoryInv, NEW m \in People, RemovePerson(m)
    PROVE  DirectoryInv'
  <1>0. DirectoryShape /\ TablesShape
    BY DEF DirectoryInv, DirectoryShape
  <1>1. /\ \A e \in Edits : Busy(e) => m \notin edit[e].updating \cup edit[e].sharing
        /\ standing' = [standing EXCEPT ![m] = "removed"]
        /\ carries' = [carries EXCEPT ![m] = {}] /\ UNCHANGED <<tag, rule, edit>>
    BY DEF RemovePerson
  <1>2. TablesShape'
    BY <1>0, <1>1 DEF TablesShape
  <1>3. /\ \A p \in People : carries'[p] = IF p = m THEN {} ELSE carries[p]
        /\ \A p \in People : p # m => standing'[p] = standing[p]
    BY <1>0, <1>1 DEF TablesShape
  <1>4. ASSUME NEW f \in Edits, Busy(f) PROVE Eases(edit[f])
    BY <1>1, <1>3, <1>4 DEF Eases, Present
  <1> QED BY <1>1, <1>2, <1>4, RowsChange

LEMMA DirectoryStep ==
    ASSUME DirectoryInv, [DirectoryNext]_directoryVars
    PROVE  DirectoryInv'
  <1>0. DirectoryShape /\ TablesShape
    BY DEF DirectoryInv, DirectoryShape
  <1>a. DirectoryCarbons \subseteq People /\ DirectorySilicons \subseteq People
    BY DEF People
  <1>1. ASSUME NEW t \in Tags, CreateTag(t) PROVE DirectoryInv'
    <2>1. /\ tag' = [tag EXCEPT ![t] = "active"]
          /\ UNCHANGED <<standing, carries, rule, edit>>
      BY <1>1 DEF CreateTag
    <2>2. (\A u \in Tags : tag[u] = "active" => tag'[u] = "active") /\ TablesShape'
      BY <1>0, <2>1 DEF TablesShape
    <2>3. \A f \in Edits : Eases(edit[f])
      BY <2>1, <2>2, SameTables
    <2> QED BY <2>1, <2>2, <2>3, RowsChange
  <1>2. ASSUME NEW e \in Edits, NEW kind \in {"rename", "archive"}, NEW a \in DirectoryCarbons,
               NEW t \in Tags, BeginTagEdit(e, kind, a, t)
        PROVE  DirectoryInv'
    <2>1. Begin(e, kind, a, [tag |-> t]) /\ [tag |-> t] \in ScopeDetails
      BY <1>2 DEF BeginTagEdit, ScopeDetails
    <2> QED BY <1>a, <2>1, BeginEdit
  <1>3. ASSUME NEW e \in Edits, NEW a \in DirectoryCarbons, NEW p \in People,
               NEW tags \in SUBSET Tags, BeginTagChange(e, a, p, tags)
        PROVE  DirectoryInv'
    <2>1. /\ Begin(e, "tags", a, [member |-> p, tags |-> tags])
          /\ [member |-> p, tags |-> tags] \in ChangeDetails
      BY <1>3 DEF BeginTagChange, ChangeDetails
    <2> QED BY <1>a, <2>1, BeginEdit
  <1>r. ASSUME NEW e \in Edits, NEW a \in DirectoryCarbons, NEW k \in TrustRules,
               NEW s \in LockableRows \cup {NoOne}, NEW t \in LockableRows \cup {NoOne},
               Begin(e, "rule", a,
                     [rule |-> k, subject |-> s, target |-> t,
                      oldSubject |-> rule[k].subject, oldTarget |-> rule[k].target])
        PROVE  DirectoryInv'
    <2>1. [rule |-> k, subject |-> s, target |-> t,
           oldSubject |-> rule[k].subject, oldTarget |-> rule[k].target] \in RuleDetails
      BY <1>0 DEF TablesShape, RuleRecords, RuleDetails, LockableRows
    <2> QED BY <1>a, <1>r, <2>1, BeginEdit
  <1>4. ASSUME NEW e \in Edits, NEW a \in DirectoryCarbons, NEW k \in TrustRules,
               NEW s \in People \cup Tags, NEW t \in DirectorySilicons \cup Tags,
               BeginRule(e, a, k, s, t)
        PROVE  DirectoryInv'
    <2>1. s \in LockableRows \cup {NoOne} /\ t \in LockableRows \cup {NoOne}
      BY <1>a DEF LockableRows
    <2> QED BY <1>4, <1>r, <2>1 DEF BeginRule
  <1>5. ASSUME NEW e \in Edits, NEW a \in DirectoryCarbons, NEW k \in TrustRules,
               BeginRuleDeletion(e, a, k)
        PROVE  DirectoryInv'
    <2>1. NoOne \in LockableRows \cup {NoOne}
      OBVIOUS
    <2> QED BY <1>5, <1>r, <2>1 DEF BeginRuleDeletion
  <1>6. ASSUME NEW e \in Edits, FinishRule(e) PROVE DirectoryInv'
    <2>1. PICK x \in EditRows : x = edit[e]
      BY <1>6, EditInFlight DEF FinishRule, AllLocked
    <2> DEFINE d == x.details
               written == IF d.subject = NoOne THEN NoRule
                      ELSE [live |-> TRUE, subject |-> d.subject, target |-> d.target]
    <2>2. /\ x.kind = "rule" /\ rule' = [rule EXCEPT ![d.rule] = written]
          /\ edit' = [edit EXCEPT ![e] = NoEdit] /\ UNCHANGED <<standing, tag, carries>>
      BY <1>6, <2>1 DEF FinishRule, Commit
    <2>3. d \in RuleDetails
      BY <2>2, EditParts
    <2>4. written \in RuleRecords
      BY <2>3 DEF RuleDetails, NoRule, LockableRows, RuleRecords
    <2> HIDE DEF written
    <2>5. TablesShape'
      BY <1>0, <2>2, <2>4 DEF TablesShape
    <2>6. \A f \in Edits : Eases(edit[f])
      BY <2>2, SameTables
    <2> QED BY <2>2, <2>5, <2>6, RowsChange
  <1>7. ASSUME NEW e \in Edits, Rollback(e) PROVE DirectoryInv'
    <2>1. edit' = [edit EXCEPT ![e] = NoEdit] /\ UNCHANGED <<standing, tag, carries, rule>>
      BY <1>7 DEF Rollback, Commit, directoryRows
    <2>2. (\A f \in Edits : Eases(edit[f])) /\ TablesShape'
      BY <1>0, <2>1, SameTables DEF TablesShape
    <2> QED BY <2>1, <2>2, RowsChange
  <1>8. ASSUME NEW e \in Edits, NEW next \in {"first", "tag", "second", "counted", "member", "kept"},
               BeginStatement(e, next)
        PROVE  DirectoryInv'
    BY <1>8, StatementBegins DEF Stages
  <1>9. CASE UNCHANGED directoryVars
    <2>1. UNCHANGED <<standing, tag, carries, rule, edit>>
      BY <1>9 DEF directoryVars
    <2>2. (\A f \in Edits : Eases(edit[f])) /\ TablesShape'
      BY <1>0, <2>1, SameTables DEF TablesShape
    <2> QED BY <2>1, <2>2, RowsChange
  <1> QED
    BY <1>1, <1>2, <1>3, <1>4, <1>5, <1>6, <1>7, <1>8, <1>9, TagEditEnds, TagChangeEnds,
       ArrivalEnds, DepartureEnds, BeginArrivalKeeps, RowLocked, RowPassedOver
    DEF DirectoryNext

\* Whatever tags were given, taken or archived since the request looked, an edit that
\* has all its locks knows its audience: a trust rule everybody it selects, and of those
\* it had found before only such as it still selects; a change of a tag exactly the
\* members that hold it.
THEOREM DirectorySoundHolds == DirectorySpec => []DirectorySound
  <1>1. DirectoryInv => DirectorySound
    <2> SUFFICES ASSUME DirectoryInv, NEW e \in Edits, AllLocked(e)
                 PROVE  /\ edit[e].kind = "rule" /\ Named(edit[e].details) \subseteq edit[e].found =>
                             RuleAudience(edit[e].details, edit[e].found, edit[e].earlier)
                        /\ edit[e].kind \in {"rename", "archive"} =>
                             edit[e].found = Holders(edit[e].details.tag)
      BY DEF DirectorySound
    <2>1. PICK x \in EditRows : x = edit[e] /\ Knows(x)
      BY EditInFlight DEF AllLocked
    <2>2. x.stage = LastStage(x.kind) /\ x.wanted = {}
      BY <2>1 DEF AllLocked
    <2>3. CASE x.kind = "rule"
      BY <2>1, <2>2, <2>3 DEF Knows, RuleKnows, LastStage, RuleAudience
    <2>4. CASE x.kind \in {"rename", "archive"}
      BY <2>1, <2>2, <2>4 DEF Knows, ScopeKnows, LastStage
    <2> QED BY <2>1, <2>3, <2>4
  <1> QED BY DirectoryStarts, DirectoryStep, <1>1, PTL DEF DirectorySpec

----------------------------------------------------------------------------
(* The applications of a testing environment: the inductive invariant of     *)
(* TestApplication, kept by each of its steps                                *)

\* Applications, deliveries, import graphs and requests.
TestAppRows ==
    [live : BOOLEAN, pin : Nat, conf : Nat, version : Nat,
     secret : TestRequests \cup {NoTestRequest, Direct}]

DeliveryStates ==
    [at : {"idle", "held", "orphan", "stored", "reserved", "claimed", "written"},
     op : TestRequests \cup {NoTestRequest}, seen : Nat]

ImportGraphs == {NoGraph} \cup UNION {[D -> Nat] : D \in SUBSET Apps}

RequestBodies ==
    [kind : {"rotate", "configure", "import", "retire"}, app : Apps, refresh : SUBSET Apps,
     rev : Nat, conf : Nat, version : Nat, sources : ImportGraphs, after : SUBSET TestRequests]

TestAppTyped ==
    /\ source \in [Apps -> Nat]
    /\ app \in [Apps -> TestAppRows]
    /\ asked \in [TestRequests -> {NoBody} \cup RequestBodies]
    /\ delivery \in [Deliveries -> DeliveryStates]
    /\ graphOf \in [TestRequests -> ImportGraphs]
    /\ secretsOf \in [TestRequests -> [Apps -> Nat]]
    /\ erasures \in [TestRequests -> Nat]
    /\ envRevision \in Nat
    /\ outcomes \subseteq TestRequests
    /\ completed \subseteq TestRequests

\* What one transaction of the testing database does, what reserves the environment,
\* and the deliveries that hold the operation's lock.
Managing == {"rotate", "configure"}
Lasting == {"import", "retire"}
Working == {"claimed", "written"}

\* A delivery is of a request of its kind; one that may write the testing database under
\* a reservation is of the operation that holds it, which is not completed.
DeliveryFits(x) ==
    /\ x.at \in {"held", "orphan", "stored"} =>
           x.op \in TestRequests /\ asked[x.op].kind \in Managing
    /\ x.at \in {"reserved", "claimed", "written"} =>
           /\ x.op \in TestRequests /\ asked[x.op].kind \in Lasting
           /\ x.op \in completed \/ holder = x.op
    /\ x.at \in Working => x.op \notin completed

\* At most one delivery works under the reservation.
DeliveriesFit ==
    /\ holder \in TestRequests => asked[holder].kind \in Lasting
    /\ \A d \in Deliveries : DeliveryFits(delivery[d])
    /\ \A d, e \in Deliveries :
           delivery[d].at \in Working /\ delivery[e].at \in Working => d = e

\* A stored graph is the one its request names, every source registered; the import that
\* reserves the environment has one.
GraphsFixed ==
    \A r \in TestRequests :
        /\ graphOf[r] # NoGraph =>
               /\ asked[r].kind = "import" /\ graphOf[r] = asked[r].sources
               /\ \A a \in DOMAIN graphOf[r] : graphOf[r][a] > 0
        /\ holder = r /\ asked[r].kind = "import" => graphOf[r] # NoGraph

\* Why a request may not give an application another secret: its outcome is stored, or
\* its import is completed or has left the application as the graph wants it.
OwnOutcome(r, a) == asked[r].kind \in Managing /\ a = asked[r].app /\ r \in outcomes

ImportStands(r, a) ==
    /\ asked[r].kind = "import"
    /\ \/ r \in completed
       \/ holder = r /\ app[a].live /\ a \in DOMAIN graphOf[r] /\ app[a].pin = graphOf[r][a]

\* A request gave an application at most one secret, and the origin of the secret of an
\* application is known.
SecretsHeld ==
    \A r \in TestRequests, a \in Apps :
        /\ secretsOf[r][a] <= 1
        /\ secretsOf[r][a] > 0 => OwnOutcome(r, a) \/ ImportStands(r, a)
        /\ app[a].secret = r => OwnOutcome(r, a) \/ asked[r].kind = "import"

\* A request erased applications at most once, and then has its receipt.
ErasuresHeld ==
    \A r \in TestRequests :
        /\ erasures[r] <= 1
        /\ erasures[r] > 0 => asked[r].kind = "retire" /\ r \in outcomes

\* The application has not been erased since the request was made.
Younger(r) == asked[r].after = Erasures(asked[r].app)

\* Until the application is erased its configuration revision only grows, and beyond that
\* of a refused rotation, which therefore cannot be carried out any more.
LifeHolds(r) ==
    /\ asked[r] # NoBody => asked[r].after \subseteq Erasures(asked[r].app)
    /\ asked[r].kind = "rotate" /\ Younger(r) =>
           /\ app[asked[r].app].live /\ app[asked[r].app].conf >= asked[r].conf
           /\ r \in refuted =>
                  app[asked[r].app].conf > asked[r].conf /\ app[asked[r].app].secret # r
    /\ r \in refuted => asked[r].kind = "rotate"

LifeKept == \A r \in TestRequests : LifeHolds(r)

TestAppInv ==
    /\ TestAppTyped /\ DeliveriesFit /\ GraphsFixed /\ SecretsHeld /\ ErasuresHeld /\ LifeKept
    /\ refuted \subseteq TestRequests

\* A request that was made has its immutable body.
LEMMA AskedBody ==
    ASSUME TestAppTyped, NEW r \in TestRequests
    PROVE  /\ asked[r] = NoBody \/ asked[r] \in RequestBodies
           /\ asked[r].kind # "none" <=> asked[r] # NoBody
           /\ asked[r] # NoBody => asked[r].kind \in {"rotate", "configure", "import", "retire"}
BY DEF TestAppTyped, RequestBodies, NoBody

\* The invariant holds of an environment without applications.
LEMMA TestAppInitially == TestAppInit => TestAppInv
<1> SUFFICES ASSUME TestAppInit PROVE TestAppInv
    OBVIOUS
<1>1. TestAppTyped
    <2>1. source \in [Apps -> Nat]
        BY DEF TestAppInit
    <2>2. Absent \in TestAppRows /\ AtRest \in DeliveryStates
        BY DEF Absent, AtRest, TestAppRows, DeliveryStates
    <2>3. app \in [Apps -> TestAppRows] /\ delivery \in [Deliveries -> DeliveryStates]
        BY <2>2 DEF TestAppInit
    <2> QED BY <2>1, <2>3 DEF TestAppInit, TestAppTyped, ImportGraphs
<1>2. DeliveriesFit
    BY NamesApart DEF TestAppInit, DeliveriesFit, DeliveryFits, AtRest, Working
<1>3. GraphsFixed
    BY NamesApart DEF TestAppInit, GraphsFixed
<1>4. SecretsHeld /\ ErasuresHeld
    BY NamesApart DEF TestAppInit, SecretsHeld, ErasuresHeld, Absent
<1>5. LifeKept /\ refuted \subseteq TestRequests
    BY DEF TestAppInit, LifeKept, LifeHolds, NoBody
<1> QED BY <1>1, <1>2, <1>3, <1>4, <1>5 DEF TestAppInv

\* What a step that leaves the applications, the operations and the requests alone keeps.
LEMMA RecordsKept ==
    ASSUME TestAppInv, AppsKept, ControlKept, UNCHANGED <<asked, refuted>>
    PROVE  /\ GraphsFixed' /\ SecretsHeld' /\ ErasuresHeld' /\ LifeKept'
           /\ refuted' \subseteq TestRequests
<1> USE DEF TestAppInv, AppsKept, ControlKept
<1>1. GraphsFixed'
    BY DEF GraphsFixed
<1>2. SecretsHeld' /\ ErasuresHeld'
    BY DEF SecretsHeld, ErasuresHeld, OwnOutcome, ImportStands
<1>3. LifeKept'
    BY DEF LifeKept, LifeHolds, Younger, Erasures
<1> QED BY <1>1, <1>2, <1>3

\* One delivery takes a form that fits, and no second one starts to work.
LEMMA OneDelivery ==
    ASSUME TestAppInv, UNCHANGED <<asked, completed, holder>>,
           NEW d \in Deliveries, NEW x \in DeliveryStates,
           delivery' = [delivery EXCEPT ![d] = x], DeliveryFits(x),
           x.at \in Working =>
               \A e \in Deliveries \ {d} : delivery[e].at \notin Working
    PROVE  DeliveriesFit' /\ delivery' \in [Deliveries -> DeliveryStates]
<1> USE DEF TestAppInv
<1>1. \A e \in Deliveries : delivery'[e] = IF e = d THEN x ELSE delivery[e]
    BY DEF TestAppTyped
<1>2. \A e \in Deliveries : DeliveryFits(delivery[e])
    BY DEF DeliveriesFit
<1>3. \A e \in Deliveries : DeliveryFits(delivery[e])'
    BY <1>1, <1>2 DEF DeliveryFits
<1>4. \A e, f \in Deliveries :
          delivery'[e].at \in Working /\ delivery'[f].at \in Working => e = f
    BY <1>1 DEF DeliveriesFit
<1>5. delivery' \in [Deliveries -> DeliveryStates]
    BY DEF TestAppTyped
<1>6. holder' \in TestRequests => asked'[holder'].kind \in Lasting
    BY DEF DeliveriesFit
<1> QED BY <1>3, <1>4, <1>5, <1>6 DEF DeliveriesFit

\* A delivery comes to rest.
LEMMA DeliveryRests ==
    ASSUME TestAppInv, UNCHANGED <<asked, completed, holder>>, NEW d \in Deliveries, Refused(d)
    PROVE  DeliveriesFit' /\ delivery' \in [Deliveries -> DeliveryStates]
<1>1. AtRest \in DeliveryStates /\ DeliveryFits(AtRest) /\ AtRest.at \notin Working
    BY DEF AtRest, DeliveryStates, DeliveryFits, Working
<1> QED BY <1>1, OneDelivery DEF Refused

\* A delivery has the answer of the testing database.
LEMMA Answering ==
    ASSUME TestAppInv, UNCHANGED <<asked, completed, holder>>, NEW d \in Deliveries,
           delivery[d].at \in {"held", "orphan"}, Answered(d)
    PROVE  DeliveriesFit' /\ delivery' \in [Deliveries -> DeliveryStates]
<1>1. CASE delivery[d].at = "held"
    <2>1. delivery[d] \in DeliveryStates /\ DeliveryFits(delivery[d])
        BY DEF TestAppInv, TestAppTyped, DeliveriesFit
    <2>2. PICK x \in DeliveryStates : x = [delivery[d] EXCEPT !.at = "stored"]
        BY <2>1 DEF DeliveryStates
    <2>3. x.at = "stored" /\ x.op = delivery[d].op
        BY <2>1, <2>2 DEF DeliveryStates
    <2>4. DeliveryFits(x) /\ x.at \notin Working
        BY <1>1, <2>1, <2>3 DEF DeliveryFits, Working
    <2>5. delivery' = [delivery EXCEPT ![d] = x]
        BY <1>1, <2>2 DEF Answered
    <2> QED BY <2>4, <2>5, OneDelivery
<1>2. CASE delivery[d].at # "held"
    BY <1>2, DeliveryRests DEF Answered, Refused
<1> QED BY <1>1, <1>2

\* The steps that change nothing but a delivery, a source or the revision.
LEMMA OutsideSteps ==
    ASSUME TestAppInv, \/ Advance \/ \E a \in Apps : Publish(a)
    PROVE  TestAppInv'
<1> USE DEF TestAppInv
<1>1. TestAppTyped'
    <2>1. CASE Advance
        <3>1. envRevision + 1 \in Nat
            BY DEF TestAppTyped
        <3> QED BY <2>1, <3>1 DEF Advance, AppsKept, TestAppTyped
    <2>2. ASSUME NEW a \in Apps, Publish(a) PROVE TestAppTyped'
        <3>1. source[a] + 1 \in Nat
            BY DEF TestAppTyped
        <3>2. source' \in [Apps -> Nat]
            BY <2>2, <3>1 DEF Publish, TestAppTyped
        <3> QED BY <2>2, <3>2 DEF Publish, AppsKept, ControlKept, TestAppTyped
    <2> QED BY <2>1, <2>2
<1>2. UNCHANGED <<asked, delivery, completed, holder, refuted, graphOf>> /\ AppsKept
    BY DEF Advance, Publish, ControlKept
<1>3. DeliveriesFit'
    BY <1>2 DEF DeliveriesFit, DeliveryFits
<1>4. GraphsFixed' /\ SecretsHeld' /\ ErasuresHeld'
    BY <1>2 DEF GraphsFixed, SecretsHeld, ErasuresHeld, OwnOutcome, ImportStands, AppsKept
<1>5. LifeKept'
    BY <1>2 DEF LifeKept, LifeHolds, Younger, Erasures, AppsKept
<1> QED BY <1>1, <1>2, <1>3, <1>4, <1>5

\* The steps of a delivery that change nothing else.
DeliverySteps(d) ==
    \/ \E r \in TestRequests : Claim(d, r)
    \/ LoseControl(d) \/ Recall(d) \/ Conflict(d) \/ ClaimForEffect(d) \/ StopDelivery(d)

\* They keep the invariant.
LEMMA DeliveryStepsKeep ==
    ASSUME TestAppInv, NEW d \in Deliveries, DeliverySteps(d)
    PROVE  TestAppInv'
<1> USE DEF TestAppInv
<1>1. AppsKept /\ ControlKept /\ UNCHANGED <<source, asked, refuted>>
    BY DEF DeliverySteps, Claim, LoseControl, Recall, Conflict, ClaimForEffect, StopDelivery
<1>2. UNCHANGED <<asked, completed, holder>>
    BY <1>1 DEF ControlKept
<1>3. delivery[d] \in DeliveryStates /\ DeliveryFits(delivery[d])
    BY DEF TestAppTyped, DeliveriesFit
<1>4. DeliveriesFit' /\ delivery' \in [Deliveries -> DeliveryStates]
    <2>1. ASSUME NEW r \in TestRequests, Claim(d, r)
          PROVE  DeliveriesFit' /\ delivery' \in [Deliveries -> DeliveryStates]
        <3>1. PICK x \in DeliveryStates : x = [at |-> "held", op |-> r, seen |-> envRevision]
            BY DEF DeliveryStates, TestAppTyped
        <3>2. x.at = "held" /\ x.op = r
            BY <3>1
        <3>3. DeliveryFits(x) /\ x.at \notin Working
            BY <2>1, <3>2 DEF DeliveryFits, Working, Claim, Managing
        <3>4. delivery' = [delivery EXCEPT ![d] = x]
            BY <2>1, <3>1 DEF Claim
        <3> QED BY <1>2, <3>3, <3>4, OneDelivery
    <2>2. CASE LoseControl(d)
        <3>1. PICK x \in DeliveryStates : x = [delivery[d] EXCEPT !.at = "orphan"]
            BY <1>3 DEF DeliveryStates
        <3>2. x.at = "orphan" /\ x.op = delivery[d].op
            BY <1>3, <3>1 DEF DeliveryStates
        <3>3. DeliveryFits(x) /\ x.at \notin Working
            BY <2>2, <1>3, <3>2 DEF DeliveryFits, Working, LoseControl
        <3>4. delivery' = [delivery EXCEPT ![d] = x]
            BY <2>2, <3>1 DEF LoseControl
        <3> QED BY <1>2, <3>3, <3>4, OneDelivery
    <2>3. CASE Recall(d)
        BY <2>3, <1>2, Answering DEF Recall
    <2>4. CASE Conflict(d) \/ StopDelivery(d)
        BY <2>4, <1>2, DeliveryRests DEF Conflict, StopDelivery
    <2>5. CASE ClaimForEffect(d) /\ delivery[d].op \in completed
        <3>1. Refused(d)
            BY <2>5 DEF ClaimForEffect, Refused
        <3> QED BY <1>2, <3>1, DeliveryRests
    <2>6. CASE ClaimForEffect(d) /\ delivery[d].op \notin completed
        <3>1. PICK x \in DeliveryStates : x = [delivery[d] EXCEPT !.at = "claimed"]
            BY <1>3 DEF DeliveryStates
        <3>2. x.at = "claimed" /\ x.op = delivery[d].op
            BY <1>3, <3>1 DEF DeliveryStates
        <3>3. DeliveryFits(x) /\ holder = delivery[d].op
            BY <2>6, <1>3, <3>2 DEF DeliveryFits, Working, ClaimForEffect
        <3>4. \A e \in Deliveries \ {d} : delivery[e].at \notin Working
            <4> SUFFICES ASSUME NEW e \in Deliveries \ {d}, delivery[e].at \in Working PROVE FALSE
                OBVIOUS
            <4>1. DeliveryFits(delivery[e])
                BY DEF DeliveriesFit
            <4>2. delivery[e].op = delivery[d].op
                BY <4>1, <3>3 DEF DeliveryFits, Working
            <4> QED BY <4>2, <2>6 DEF ClaimForEffect, Working
        <3>5. delivery' = [delivery EXCEPT ![d] = x]
            BY <2>6, <3>1 DEF ClaimForEffect
        <3> QED BY <1>2, <3>3, <3>4, <3>5, OneDelivery
    <2> QED BY <2>1, <2>2, <2>3, <2>4, <2>5, <2>6 DEF DeliverySteps
<1>5. TestAppTyped'
    BY <1>1, <1>4 DEF TestAppTyped, AppsKept, ControlKept
<1> QED BY <1>1, <1>4, <1>5, RecordsKept

\* Whatever is loaded is a graph of its root's dependencies.
LEMMA LoadedGraph ==
    ASSUME TestAppInv, NEW a \in Apps, NEW refresh
    PROVE  /\ Loaded(a, refresh) \in [DependsOn[a] -> Nat]
           /\ Loaded(a, refresh) \in ImportGraphs /\ Loaded(a, refresh) # NoGraph
<1>1. DependsOn[a] \subseteq Apps /\ a \in DependsOn[a]
    BY DependsAssumption
<1>2. \A b \in DependsOn[a] : app[b].pin \in Nat /\ source[b] \in Nat
    BY <1>1 DEF TestAppInv, TestAppTyped, TestAppRows
<1>3. Loaded(a, refresh) \in [DependsOn[a] -> Nat]
    BY <1>2 DEF Loaded
<1>4. DOMAIN Loaded(a, refresh) = DependsOn[a] /\ DOMAIN NoGraph = {}
    BY DEF Loaded, NoGraph
<1> QED BY <1>1, <1>3, <1>4 DEF ImportGraphs

\* A new request: nothing refers to it yet.
LEMMA AskKeeps ==
    ASSUME TestAppInv, NEW r \in TestRequests, NEW a \in Apps,
           NEW kind \in {"rotate", "configure", "import", "retire"},
           NEW refresh \in SUBSET DependsOn[a], Ask(r, kind, a, refresh)
    PROVE  TestAppInv'
<1> USE DEF TestAppInv
<1>1. AppsKept /\ ControlKept /\ UNCHANGED <<source, delivery, refuted>> /\ asked[r] = NoBody
    BY DEF Ask
<1>2. PICK b \in RequestBodies :
          /\ asked' = [asked EXCEPT ![r] = b]
          /\ b.kind = kind /\ b.app = a /\ b.after = Erasures(a)
          /\ kind = "rotate" => b.conf = app[a].conf /\ app[a].live
    <2>1. app[a].conf \in Nat /\ app[a].conf + 1 \in Nat /\ app[a].version \in Nat
        BY DEF TestAppTyped, TestAppRows
    <2>2. PICK conf \in Nat : conf = CASE kind = "configure" -> app[a].conf + 1
                                       [] kind = "rotate" -> app[a].conf
                                       [] OTHER -> 0
        BY <2>1
    <2>3. PICK version \in Nat :
              version = IF kind \in {"rotate", "configure"} THEN app[a].version ELSE 0
        BY <2>1
    <2>4. PICK graph \in ImportGraphs :
              graph = IF kind = "import" THEN Loaded(a, refresh) ELSE NoGraph
        BY LoadedGraph DEF ImportGraphs
    <2>5. PICK after \in SUBSET TestRequests : after = Erasures(a)
        BY DEF Erasures
    <2>6. refresh \in SUBSET Apps /\ envRevision \in Nat
        BY DependsAssumption DEF TestAppTyped
    <2>7. PICK b \in RequestBodies :
              b = [kind |-> kind, app |-> a, refresh |-> refresh, rev |-> envRevision,
                   conf |-> conf, version |-> version, sources |-> graph, after |-> after]
        BY <2>6 DEF RequestBodies
    <2>8. asked' = [asked EXCEPT ![r] = b]
        BY <2>2, <2>3, <2>4, <2>5, <2>7 DEF Ask
    <2>9. kind = "rotate" => conf = app[a].conf /\ app[a].live
        BY <2>2 DEF Ask
    <2> QED BY <2>5, <2>7, <2>8, <2>9
<1>3. \A q \in TestRequests : asked'[q] = IF q = r THEN b ELSE asked[q]
    BY <1>2 DEF TestAppTyped
<1>4. asked[r].kind = "none"
    BY <1>1 DEF NoBody
<1>5. TestAppTyped'
    BY <1>1, <1>2 DEF TestAppTyped, AppsKept, ControlKept
<1>6. DeliveriesFit'
    <2>1. holder \in TestRequests => holder # r
        BY <1>4 DEF DeliveriesFit, Lasting
    <2>2. ASSUME NEW d \in Deliveries PROVE DeliveryFits(delivery[d])'
        <3>1. DeliveryFits(delivery[d])
            BY DEF DeliveriesFit
        <3>2. delivery[d].at \in {"held", "orphan", "stored", "reserved", "claimed", "written"} =>
                  delivery[d].op # r
            BY <3>1, <1>4 DEF DeliveryFits, Lasting, Managing
        <3>3. delivery'[d] = delivery[d] /\ UNCHANGED <<completed, holder>>
            BY <1>1 DEF ControlKept
        <3> QED BY <3>1, <3>2, <3>3, <1>3 DEF DeliveryFits, Working
    <2> QED BY <2>1, <2>2, <1>1, <1>3 DEF DeliveriesFit, ControlKept
<1>7. GraphsFixed'
    <2>1. holder # r /\ graphOf[r] = NoGraph
        BY <1>4 DEF DeliveriesFit, GraphsFixed, Lasting
    <2> QED BY <2>1, <1>1, <1>3 DEF GraphsFixed, ControlKept
<1>8. SecretsHeld'
    <2> SUFFICES ASSUME NEW q \in TestRequests, NEW c \in Apps
                 PROVE  /\ secretsOf[q][c] <= 1
                        /\ secretsOf[q][c] > 0 => OwnOutcome(q, c)' \/ ImportStands(q, c)'
                        /\ app[c].secret = q => OwnOutcome(q, c)' \/ asked'[q].kind = "import"
        BY <1>1 DEF SecretsHeld, AppsKept
    <2>1. /\ secretsOf[q][c] <= 1
          /\ secretsOf[q][c] > 0 => OwnOutcome(q, c) \/ ImportStands(q, c)
          /\ app[c].secret = q => OwnOutcome(q, c) \/ asked[q].kind = "import"
        BY DEF SecretsHeld
    <2>2. OwnOutcome(q, c) \/ ImportStands(q, c) \/ asked[q].kind = "import" => q # r
        BY <1>4 DEF OwnOutcome, ImportStands, Managing
    <2>3. q # r => /\ OwnOutcome(q, c) => OwnOutcome(q, c)'
                   /\ ImportStands(q, c) => ImportStands(q, c)'
                   /\ asked'[q] = asked[q]
        BY <1>1, <1>3 DEF OwnOutcome, ImportStands, AppsKept, ControlKept
    <2> QED BY <2>1, <2>2, <2>3
<1>9. ErasuresHeld'
    BY <1>1, <1>3, <1>4 DEF ErasuresHeld, AppsKept
<1>10. \A c : Erasures(c)' = Erasures(c)
    <2>1. ~(erasures[r] > 0)
        BY <1>4 DEF ErasuresHeld
    <2> QED BY <2>1, <1>1, <1>3 DEF Erasures, AppsKept
<1>11. LifeKept'
    <2> SUFFICES ASSUME NEW q \in TestRequests PROVE LifeHolds(q)'
        BY DEF LifeKept
    <2>1. CASE q = r
        <3>1. r \notin refuted
            BY <1>4 DEF LifeKept, LifeHolds
        <3>2. b.conf \in Nat /\ app[a].conf \in Nat
            BY DEF RequestBodies, TestAppTyped, TestAppRows
        <3>3. Erasures(a)' = Erasures(a) /\ asked'[r] = b /\ UNCHANGED <<app, refuted>>
            BY <1>1, <1>3, <1>10 DEF AppsKept
        <3>4. (asked[r].after \subseteq Erasures(asked[r].app))'
            BY <3>3, <1>2
        <3> QED BY <2>1, <3>1, <3>2, <3>3, <3>4, <1>2 DEF LifeHolds
    <2>2. CASE q # r
        BY <2>2, <1>1, <1>3, <1>10 DEF LifeKept, LifeHolds, Younger, AppsKept
    <2> QED BY <2>1, <2>2
<1> QED BY <1>1, <1>5, <1>6, <1>7, <1>8, <1>9, <1>11

\* A refused rotation: the configuration has grown beyond it.
LEMMA RefuteKeeps ==
    ASSUME TestAppInv, NEW d \in Deliveries, Refute(d)
    PROVE  TestAppInv'
<1> USE DEF TestAppInv
<1> DEFINE r == delivery[d].op
<1>1. AppsKept /\ ControlKept /\ UNCHANGED <<source, asked>> /\ refuted' = refuted \cup {r}
    BY DEF Refute
<1>2. r \in TestRequests
    BY DEF Refute, DeliveriesFit, DeliveryFits
<1>3. DeliveriesFit' /\ delivery' \in [Deliveries -> DeliveryStates]
    BY <1>1, DeliveryRests DEF Refute, ControlKept
<1>4. TestAppTyped'
    BY <1>1, <1>3 DEF TestAppTyped, AppsKept, ControlKept
<1>5. GraphsFixed' /\ SecretsHeld' /\ ErasuresHeld'
    BY <1>1 DEF GraphsFixed, SecretsHeld, ErasuresHeld, OwnOutcome, ImportStands, AppsKept, ControlKept
<1>6. LifeKept'
    <2> SUFFICES ASSUME NEW q \in TestRequests PROVE LifeHolds(q)'
        BY DEF LifeKept
    <2>1. LifeHolds(q)
        BY DEF LifeKept
    <2>2. UNCHANGED <<app, asked, erasures>> /\ \A c : Erasures(c)' = Erasures(c)
        BY <1>1 DEF AppsKept, Erasures
    <2>3. CASE q = r
        <3>1. asked[r].kind = "rotate" /\ r \notin outcomes /\ asked[r] # NoBody
              /\ app[asked[r].app].conf # asked[r].conf
            BY SMTT(30) DEF Refute, ConfigurationDiffers, NoBody
        <3>2. asked[r].app \in Apps /\ asked[r].conf \in Nat
            BY <1>2, <3>1, AskedBody DEF RequestBodies
        <3>3. app[asked[r].app].conf \in Nat
            BY <3>2 DEF TestAppTyped, TestAppRows
        <3>4. app[asked[r].app].secret # r
            BY <1>2, <3>1, <3>2 DEF SecretsHeld, OwnOutcome
        <3> QED BY SMTT(90), <2>1, <2>2, <2>3, <3>1, <3>2, <3>3, <3>4 DEF LifeHolds, Younger
    <2>4. CASE q # r
        BY <2>1, <2>2, <2>4, <1>1 DEF LifeHolds, Younger
    <2> QED BY <2>3, <2>4
<1> QED BY <1>1, <1>2, <1>3, <1>4, <1>5, <1>6

\* The control transaction of a managed application commits.
LEMMA CompleteKeeps ==
    ASSUME TestAppInv, NEW d \in Deliveries, Complete(d)
    PROVE  TestAppInv'
<1> USE DEF TestAppInv
<1> DEFINE r == delivery[d].op
<1>1. AppsKept /\ UNCHANGED <<source, asked, graphOf, holder, envRevision, refuted>>
      /\ completed' = completed \cup {r} /\ delivery' = [delivery EXCEPT ![d] = AtRest]
    BY DEF Complete, Refused
<1>2. r \in TestRequests /\ asked[r].kind \in Managing
    BY DEF Complete, DeliveriesFit, DeliveryFits
<1>3. \A e \in Deliveries : delivery'[e] = IF e = d THEN AtRest ELSE delivery[e]
    BY <1>1 DEF TestAppTyped
<1>4. TestAppTyped'
    <2>1. AtRest \in DeliveryStates
        BY DEF AtRest, DeliveryStates
    <2>2. delivery' \in [Deliveries -> DeliveryStates]
        BY <2>1, <1>1 DEF TestAppTyped
    <2> QED BY <2>2, <1>1, <1>2 DEF TestAppTyped, AppsKept
<1>5. DeliveriesFit'
    <2>1. ASSUME NEW e \in Deliveries PROVE DeliveryFits(delivery[e])'
        <3>1. CASE e = d
            BY <3>1, <1>3 DEF DeliveryFits, AtRest, Working
        <3>2. CASE e # d
            <4>1. DeliveryFits(delivery[e])
                BY DEF DeliveriesFit
            <4> QED BY <4>1, <3>2, <1>1, <1>2, <1>3 DEF DeliveryFits, Working, Managing, Lasting
        <3> QED BY <3>1, <3>2
    <2>2. \A e, f \in Deliveries :
              delivery'[e].at \in Working /\ delivery'[f].at \in Working => e = f
        BY <1>3 DEF DeliveriesFit, AtRest, Working
    <2> QED BY <2>1, <2>2, <1>1 DEF DeliveriesFit
<1>6. GraphsFixed' /\ ErasuresHeld'
    BY <1>1 DEF GraphsFixed, ErasuresHeld, AppsKept
<1>7. SecretsHeld'
    <2>1. \A q \in TestRequests, c \in Apps :
              /\ OwnOutcome(q, c) => OwnOutcome(q, c)'
              /\ ImportStands(q, c) => ImportStands(q, c)'
        BY <1>1 DEF OwnOutcome, ImportStands, AppsKept
    <2> QED BY <1>1, <2>1 DEF SecretsHeld, AppsKept
<1>8. LifeKept'
    BY <1>1 DEF LifeKept, LifeHolds, Younger, Erasures, AppsKept
<1> QED BY <1>1, <1>4, <1>5, <1>6, <1>7, <1>8

\* What rotation and configuration do: one application has another row, live, and the
\* operation has an outcome.
ManagedStep(d, r, a, turned) ==
    /\ delivery[d].at \in {"held", "orphan"} /\ r = delivery[d].op /\ r \notin outcomes
    /\ asked[r].kind \in Managing /\ a = asked[r].app
    /\ app' = [app EXCEPT ![a] = turned]
    /\ turned.live /\ turned.pin = app[a].pin /\ turned.conf >= app[a].conf
    /\ turned.secret = app[a].secret \/ turned.secret = r
    /\ turned.secret = r /\ asked[r].kind = "rotate" => app[a].conf <= asked[r].conf
    /\ \/ UNCHANGED secretsOf
       \/ secretsOf' = [secretsOf EXCEPT ![r] = [secretsOf[r] EXCEPT ![a] = secretsOf[r][a] + 1]]
    /\ outcomes' = outcomes \cup {r}
    /\ Answered(d) /\ ControlKept /\ UNCHANGED <<source, asked, erasures, refuted>>

\* Such a step keeps the invariant.
LEMMA ManagedRow ==
    ASSUME TestAppInv, NEW d \in Deliveries, NEW r \in TestRequests, NEW a \in Apps,
           NEW turned \in TestAppRows, ManagedStep(d, r, a, turned)
    PROVE  TestAppInv'
<1> USE DEF TestAppInv
<1>1. /\ asked[r].kind \in Managing /\ a = asked[r].app /\ r \notin outcomes
      /\ outcomes' = outcomes \cup {r} /\ ControlKept
      /\ UNCHANGED <<source, asked, erasures, refuted>>
    BY DEF ManagedStep
<1>2. DeliveriesFit' /\ delivery' \in [Deliveries -> DeliveryStates]
    BY Answering DEF ManagedStep, ControlKept
<1>3. \A c \in Apps : app'[c] = IF c = a THEN turned ELSE app[c]
    BY DEF TestAppTyped, ManagedStep
<1>4. \A q \in TestRequests, c \in Apps :
          /\ q # r \/ c # a => secretsOf'[q][c] = secretsOf[q][c]
          /\ secretsOf'[q][c] \in {secretsOf[q][c], secretsOf[q][c] + 1}
    BY SMTT(30) DEF TestAppTyped, ManagedStep
<1>5. TestAppTyped'
    <2>1. app' \in [Apps -> TestAppRows]
        BY DEF TestAppTyped, ManagedStep
    <2>2. secretsOf[r][a] + 1 \in Nat
        BY DEF TestAppTyped
    <2>3. [secretsOf[r] EXCEPT ![a] = secretsOf[r][a] + 1] \in [Apps -> Nat]
        BY <2>2 DEF TestAppTyped
    <2>4. secretsOf' \in [TestRequests -> [Apps -> Nat]]
        BY SMTT(90), <2>3 DEF TestAppTyped, ManagedStep
    <2> QED BY <1>1, <1>2, <2>1, <2>4 DEF TestAppTyped, ControlKept
<1>6. GraphsFixed'
    BY <1>1 DEF GraphsFixed, ControlKept
<1>7. ErasuresHeld'
    BY <1>1 DEF ErasuresHeld
<1>8. SecretsHeld'
    <2> SUFFICES ASSUME NEW q \in TestRequests, NEW c \in Apps
                 PROVE  /\ secretsOf'[q][c] <= 1
                        /\ secretsOf'[q][c] > 0 => OwnOutcome(q, c)' \/ ImportStands(q, c)'
                        /\ app'[c].secret = q => OwnOutcome(q, c)' \/ asked'[q].kind = "import"
        BY DEF SecretsHeld
    <2>1. /\ secretsOf[q][c] <= 1 /\ secretsOf[q][c] \in Nat
          /\ secretsOf[q][c] > 0 => OwnOutcome(q, c) \/ ImportStands(q, c)
          /\ app[c].secret = q => OwnOutcome(q, c) \/ asked[q].kind = "import"
        BY DEF SecretsHeld, TestAppTyped
    <2>2. OwnOutcome(q, c) => OwnOutcome(q, c)'
        BY <1>1 DEF OwnOutcome
    <2>3. ImportStands(q, c) => ImportStands(q, c)'
        <3>1. app[c].live => app'[c].live
            BY SMTT(90), <1>3 DEF ManagedStep
        <3>2. app'[c].pin = app[c].pin
            BY <1>3 DEF ManagedStep
        <3> QED BY <1>1, <3>1, <3>2 DEF ImportStands, ControlKept
    <2>4. OwnOutcome(r, a)'
        BY <1>1 DEF OwnOutcome
    <2>5. CASE q = r /\ c = a
        <3>1. ~OwnOutcome(r, a) /\ ~ImportStands(r, a)
            BY <1>1 DEF OwnOutcome, ImportStands, Managing
        <3>2. secretsOf[q][c] = 0
            BY <2>1, <2>5, <3>1
        <3>3. secretsOf'[q][c] \in {0, 1}
            BY <1>4, <3>2
        <3> QED BY <2>4, <2>5, <3>3
    <2>6. CASE q # r \/ c # a
        <3>1. secretsOf'[q][c] = secretsOf[q][c]
            BY <1>4, <2>6
        <3>2. app'[c].secret = q => app[c].secret = q
            <4>1. CASE c = a
                BY SMTT(90), <4>1, <1>3, <2>6 DEF ManagedStep
            <4>2. CASE c # a
                BY <4>2, <1>3
            <4> QED BY <4>1, <4>2
        <3> QED BY <1>1, <2>1, <2>2, <2>3, <3>1, <3>2
    <2> QED BY <2>5, <2>6
<1>9. LifeKept'
    <2> SUFFICES ASSUME NEW q \in TestRequests PROVE LifeHolds(q)'
        BY DEF LifeKept
    <2>1. LifeHolds(q)
        BY DEF LifeKept
    <2>2. \A c : Erasures(c)' = Erasures(c)
        BY <1>1 DEF Erasures
    <2>3. asked[q].kind = "rotate" => asked[q].app \in Apps /\ asked[q].conf \in Nat
        BY AskedBody DEF RequestBodies, NoBody
    <2>4. app[a].conf \in Nat /\ turned.conf \in Nat /\ turned.conf >= app[a].conf
        BY DEF TestAppTyped, TestAppRows, ManagedStep
    <2>5. CASE asked[q].kind = "rotate" /\ Younger(q) /\ asked[q].app = a
        <3>1. app[a].live /\ app[a].conf >= asked[q].conf
              /\ (q \in refuted => app[a].conf > asked[q].conf /\ app[a].secret # q)
            BY <2>1, <2>5 DEF LifeHolds
        <3>2. turned.conf >= asked[q].conf /\ (q \in refuted => turned.conf > asked[q].conf)
            BY <2>3, <2>4, <2>5, <3>1
        <3>3. q \in refuted => turned.secret # q
            BY SMTT(90), <2>3, <2>4, <2>5, <3>1 DEF ManagedStep
        <3>4. app'[asked'[q].app] = turned /\ turned.live
            BY <1>1, <1>3, <2>5 DEF ManagedStep
        <3> QED BY <1>1, <2>1, <2>2, <2>5, <3>2, <3>3, <3>4 DEF LifeHolds, Younger
    <2>6. CASE asked[q].kind = "rotate" /\ Younger(q) /\ asked[q].app # a
        <3>1. app'[asked'[q].app] = app[asked[q].app]
            BY <1>1, <1>3, <2>3, <2>6
        <3> QED BY <1>1, <2>1, <2>2, <2>6, <3>1 DEF LifeHolds, Younger
    <2>7. CASE ~(asked[q].kind = "rotate" /\ Younger(q))
        BY <1>1, <2>1, <2>2, <2>7 DEF LifeHolds, Younger
    <2> QED BY <2>5, <2>6, <2>7
<1> QED BY <1>1, <1>2, <1>5, <1>6, <1>7, <1>8, <1>9

\* A rotation is such a step: its request has no outcome, so it gave no secret yet.
LEMMA RotateKeeps ==
    ASSUME TestAppInv, NEW d \in Deliveries, RotateInTest(d)
    PROVE  TestAppInv'
<1> USE DEF TestAppInv
<1>1. PICK r \in TestRequests : r = delivery[d].op /\ asked[r].kind = "rotate" /\ r \notin outcomes
    BY DEF RotateInTest, DeliveriesFit, DeliveryFits
<1>2. PICK a \in Apps : a = asked[r].app
    BY <1>1, AskedBody DEF RequestBodies, NoBody
<1>3. app[a] \in TestAppRows /\ app[a].version + 1 \in Nat /\ app[a].conf \in Nat
    BY DEF TestAppTyped, TestAppRows
<1>4. PICK turned \in TestAppRows : turned = [app[a] EXCEPT !.version = app[a].version + 1, !.secret = r]
    BY <1>3 DEF TestAppRows
<1>5. turned.live = app[a].live /\ turned.pin = app[a].pin /\ turned.conf = app[a].conf /\ turned.secret = r
    BY <1>3, <1>4 DEF TestAppRows
<1>6. app' = [app EXCEPT ![a] = turned]
    BY <1>1, <1>2, <1>4 DEF RotateInTest, TestAppTyped
<1>7. app[a].live /\ app[a].conf = asked[r].conf
    BY <1>1, <1>2 DEF RotateInTest, ConfigurationDiffers
<1>8. secretsOf' = [secretsOf EXCEPT ![r] = [secretsOf[r] EXCEPT ![a] = secretsOf[r][a] + 1]]
    BY <1>1, <1>2 DEF RotateInTest, Mint, TestAppTyped
<1>9. turned.conf >= app[a].conf /\ app[a].conf <= asked[r].conf
    BY <1>3, <1>5, <1>7
<1>10. ManagedStep(d, r, a, turned)
    BY <1>1, <1>2, <1>5, <1>6, <1>7, <1>8, <1>9 DEF ManagedStep, RotateInTest, Managing
<1> QED BY <1>10, ManagedRow

\* So is a configuration, which only raises the configuration revision.
LEMMA ConfigureKeeps ==
    ASSUME TestAppInv, NEW d \in Deliveries, ConfigureInTest(d)
    PROVE  TestAppInv'
<1> USE DEF TestAppInv
<1>1. PICK r \in TestRequests :
          r = delivery[d].op /\ asked[r].kind = "configure" /\ r \notin outcomes
    BY DEF ConfigureInTest, DeliveriesFit, DeliveryFits
<1>2. PICK a \in Apps : a = asked[r].app /\ asked[r].conf \in Nat
    BY <1>1, AskedBody DEF RequestBodies, NoBody
<1>3. app[a] \in TestAppRows /\ app[a].version + 1 \in Nat /\ app[a].conf \in Nat
      /\ app[a].pin \in Nat /\ app[a].secret \in TestRequests \cup {NoTestRequest, Direct}
    BY DEF TestAppTyped, TestAppRows
<1>4. PICK secret \in TestRequests \cup {NoTestRequest, Direct} :
          secret = IF ~app[a].live THEN r ELSE app[a].secret
    BY <1>3
<1>5. PICK turned \in TestAppRows :
          turned = [live |-> TRUE, pin |-> app[a].pin, conf |-> asked[r].conf,
                 version |-> app[a].version + 1, secret |-> secret]
    BY <1>2, <1>3 DEF TestAppRows
<1>6. turned.live /\ turned.pin = app[a].pin /\ turned.conf = asked[r].conf /\ turned.secret = secret
    BY <1>5
<1>7. app' = [app EXCEPT ![a] = turned]
    BY <1>1, <1>2, <1>4, <1>5 DEF ConfigureInTest, TestAppTyped
<1>8. app[a].conf < asked[r].conf
    BY <1>1, <1>2 DEF ConfigureInTest
<1>9. secret \in {r, app[a].secret}
    BY <1>4
<1>10. \/ UNCHANGED secretsOf
       \/ secretsOf' = [secretsOf EXCEPT ![r] = [secretsOf[r] EXCEPT ![a] = secretsOf[r][a] + 1]]
    BY <1>1, <1>2 DEF ConfigureInTest, Mint, TestAppTyped
<1>11. turned.conf >= app[a].conf
    BY <1>2, <1>3, <1>6, <1>8
<1>12. turned.secret = r \/ turned.secret = app[a].secret
    BY <1>6, <1>9
<1>13. ManagedStep(d, r, a, turned)
    BY <1>1, <1>2, <1>6, <1>7, <1>10, <1>11, <1>12 DEF ManagedStep, ConfigureInTest, Managing
<1> QED BY <1>13, ManagedRow

\* A reservation passes from a completed operation, or stays where it is.
LEMMA ReserveKeeps ==
    ASSUME TestAppInv, NEW d \in Deliveries, NEW r \in TestRequests, Reserve(d, r)
    PROVE  TestAppInv'
<1> USE DEF TestAppInv
<1>1. /\ AppsKept /\ UNCHANGED <<source, asked, completed, refuted>> /\ holder' = r
      /\ asked[r].kind \in Lasting /\ r \notin completed
      /\ holder = r \/ (holder \in TestRequests => holder \in completed)
    BY DEF Reserve, Ready, Lasting
<1>2. asked[r] \in RequestBodies
    BY <1>1, AskedBody DEF Lasting, NoBody
<1>3. ASSUME asked[r].kind = "import"
      PROVE  /\ Graph(r) = asked[r].sources /\ Graph(r) # NoGraph /\ Graph(r) \in ImportGraphs
             /\ \A a \in DOMAIN Graph(r) : Graph(r)[a] > 0
    <2>1. SourcesAgree(r)
        BY <1>3 DEF Reserve
    <2>2. asked[r].app \in Apps
        BY <1>2 DEF RequestBodies
    <2>3. Graph(r) # NoGraph /\ Graph(r) \in ImportGraphs
        BY <2>2, LoadedGraph DEF Graph, TestAppTyped
    <2> QED BY <2>1, <2>3 DEF SourcesAgree
<1>4. graphOf' = IF asked[r].kind = "import" THEN [graphOf EXCEPT ![r] = Graph(r)] ELSE graphOf
    BY DEF Reserve
<1>5. \A q \in TestRequests : q # r => graphOf'[q] = graphOf[q]
    BY <1>4 DEF TestAppTyped
<1>6. asked[r].kind = "import" => graphOf'[r] = Graph(r)
    BY <1>4 DEF TestAppTyped
<1>7. \A q \in TestRequests : graphOf[q] # NoGraph => graphOf'[q] = graphOf[q]
    BY <1>4, <1>5, <1>6 DEF Graph
<1>8. PICK x \in DeliveryStates : x = [at |-> "reserved", op |-> r, seen |-> 0]
    BY DEF DeliveryStates
<1>9. x.at = "reserved" /\ x.op = r /\ delivery' = [delivery EXCEPT ![d] = x]
    BY <1>8 DEF Reserve
<1>10. TestAppTyped'
    <2>1. envRevision' \in Nat
        BY DEF Reserve, TestAppTyped
    <2>2. graphOf' \in [TestRequests -> ImportGraphs]
        BY <1>3, <1>4 DEF TestAppTyped
    <2>3. delivery' \in [Deliveries -> DeliveryStates]
        BY <1>9 DEF TestAppTyped
    <2> QED BY <1>1, <2>1, <2>2, <2>3 DEF TestAppTyped, AppsKept
<1>11. DeliveriesFit'
    <2>1. \A e \in Deliveries : delivery'[e] = IF e = d THEN x ELSE delivery[e]
        BY <1>9 DEF TestAppTyped
    <2>2. ASSUME NEW e \in Deliveries PROVE DeliveryFits(delivery[e])'
        <3>1. CASE e = d
            BY <3>1, <2>1, <1>1, <1>9 DEF DeliveryFits, Working
        <3>2. CASE e # d
            <4>1. DeliveryFits(delivery[e]) /\ delivery'[e] = delivery[e]
                BY <3>2, <2>1 DEF DeliveriesFit
            <4>2. delivery[e].op \in TestRequests
                  /\ (delivery[e].op \in completed \/ holder = delivery[e].op) =>
                      delivery[e].op \in completed \/ holder' = delivery[e].op
                BY <1>1
            <4> QED BY <4>1, <4>2, <1>1 DEF DeliveryFits
        <3> QED BY <3>1, <3>2
    <2>3. \A e, f \in Deliveries :
              delivery'[e].at \in Working /\ delivery'[f].at \in Working => e = f
        BY <1>9, <2>1 DEF DeliveriesFit, Working
    <2> QED BY <1>1, <2>2, <2>3 DEF DeliveriesFit
<1>12. GraphsFixed'
    <2> SUFFICES ASSUME NEW q \in TestRequests
                 PROVE  /\ graphOf'[q] # NoGraph =>
                               /\ asked[q].kind = "import" /\ graphOf'[q] = asked[q].sources
                               /\ \A a \in DOMAIN graphOf'[q] : graphOf'[q][a] > 0
                        /\ holder' = q /\ asked[q].kind = "import" => graphOf'[q] # NoGraph
        BY <1>1 DEF GraphsFixed
    <2>1. CASE q = r /\ asked[r].kind = "import"
        BY <2>1, <1>3, <1>6
    <2>2. CASE q # r
        BY <2>2, <1>1, <1>5 DEF GraphsFixed
    <2>3. CASE q = r /\ asked[r].kind # "import"
        BY <2>3, <1>4 DEF GraphsFixed
    <2> QED BY <2>1, <2>2, <2>3
<1>13. SecretsHeld'
    <2>1. ASSUME NEW q \in TestRequests, NEW a \in Apps, ImportStands(q, a)
          PROVE  ImportStands(q, a)'
        <3>1. q \in completed \/ holder = q
            BY <2>1 DEF ImportStands
        <3>2. CASE q \in completed
            BY <2>1, <3>2, <1>1 DEF ImportStands
        <3>3. CASE q \notin completed
            <4>1. holder = q /\ q = r
                BY <2>1, <3>1, <3>3, <1>1
            <4>2. graphOf[q] # NoGraph
                BY <2>1, <4>1 DEF GraphsFixed, ImportStands
            <4> QED BY <2>1, <3>3, <4>1, <4>2, <1>1, <1>7 DEF ImportStands, AppsKept
        <3> QED BY <3>2, <3>3
    <2>2. \A q \in TestRequests, a \in Apps : OwnOutcome(q, a) => OwnOutcome(q, a)'
        BY <1>1 DEF OwnOutcome, AppsKept
    <2> QED BY <1>1, <2>1, <2>2 DEF SecretsHeld, AppsKept
<1>14. ErasuresHeld' /\ LifeKept'
    BY <1>1 DEF ErasuresHeld, LifeKept, LifeHolds, Younger, Erasures, AppsKept
<1> QED BY <1>1, <1>10, <1>11, <1>12, <1>13, <1>14

\* The one delivery that works completes its operation.
LEMMA FinishKeeps ==
    ASSUME TestAppInv, NEW d \in Deliveries, FinishOperation(d)
    PROVE  TestAppInv'
<1> USE DEF TestAppInv
<1> DEFINE r == delivery[d].op
<1>1. /\ AppsKept /\ UNCHANGED <<source, asked, graphOf, holder, refuted>> /\ holder = r
      /\ completed' = completed \cup {r} /\ delivery' = [delivery EXCEPT ![d] = AtRest]
      /\ delivery[d].at = "written"
    BY DEF FinishOperation, Refused
<1>2. r \in TestRequests /\ asked[r].kind \in Lasting
    BY <1>1 DEF DeliveriesFit, DeliveryFits
<1>3. \A e \in Deliveries : delivery'[e] = IF e = d THEN AtRest ELSE delivery[e]
    BY <1>1 DEF TestAppTyped
<1>4. TestAppTyped'
    <2>1. AtRest \in DeliveryStates
        BY DEF AtRest, DeliveryStates
    <2>2. delivery' \in [Deliveries -> DeliveryStates]
        BY <2>1, <1>1 DEF TestAppTyped
    <2>3. envRevision' \in Nat
        BY DEF FinishOperation, TestAppTyped
    <2> QED BY <2>2, <2>3, <1>1, <1>2 DEF TestAppTyped, AppsKept
<1>5. DeliveriesFit'
    <2>1. ASSUME NEW e \in Deliveries PROVE DeliveryFits(delivery[e])'
        <3>1. CASE e = d
            BY <3>1, <1>3 DEF DeliveryFits, AtRest, Working
        <3>2. CASE e # d
            <4>1. DeliveryFits(delivery[e]) /\ delivery[e].at \notin Working
                BY <3>2, <1>1 DEF DeliveriesFit, Working
            <4> QED BY <4>1, <3>2, <1>1, <1>3 DEF DeliveryFits
        <3> QED BY <3>1, <3>2
    <2>2. \A e, f \in Deliveries :
              delivery'[e].at \in Working /\ delivery'[f].at \in Working => e = f
        BY <1>3 DEF DeliveriesFit, AtRest, Working
    <2> QED BY <2>1, <2>2, <1>1 DEF DeliveriesFit
<1>6. GraphsFixed' /\ ErasuresHeld'
    BY <1>1 DEF GraphsFixed, ErasuresHeld, AppsKept
<1>7. SecretsHeld'
    <2>1. \A q \in TestRequests, c \in Apps :
              /\ OwnOutcome(q, c) => OwnOutcome(q, c)'
              /\ ImportStands(q, c) => ImportStands(q, c)'
        BY <1>1 DEF OwnOutcome, ImportStands, AppsKept
    <2> QED BY <1>1, <2>1 DEF SecretsHeld, AppsKept
<1>8. LifeKept'
    BY <1>1 DEF LifeKept, LifeHolds, Younger, Erasures, AppsKept
<1> QED BY <1>1, <1>4, <1>5, <1>6, <1>7, <1>8

\* The rows after an import: what is live stays so and keeps its configuration.
ImportedRow(c, graph, new, minter) ==
    /\ app'[c].conf = app[c].conf
    /\ app[c].live => app'[c].live
    /\ c \notin new => app'[c] = app[c]
    /\ c \in new => app'[c].live /\ app'[c].pin = graph[c] /\ app'[c].secret = minter

\* The rows of create_one and of what it leaves alone.
LEMMA ImportedRows ==
    ASSUME TestAppInv, NEW graph, NEW new \in SUBSET Apps,
           NEW minter \in TestRequests \cup {NoTestRequest, Direct},
           \A c \in new : graph[c] \in Nat, app' = Imported(graph, new, minter)
    PROVE  /\ app' \in [Apps -> TestAppRows]
           /\ \A c \in Apps : ImportedRow(c, graph, new, minter)
<1>1. ASSUME NEW c \in Apps
      PROVE  app'[c] \in TestAppRows /\ ImportedRow(c, graph, new, minter)
    <2>1. app[c] \in TestAppRows /\ app[c].conf \in Nat /\ app[c].version \in Nat
        BY DEF TestAppInv, TestAppTyped, TestAppRows
    <2>2. CASE c \in new
        <3>1. PICK version \in Nat : version = IF app[c].live THEN app[c].version ELSE 1
            BY <2>1
        <3>2. PICK turned \in TestAppRows :
                  turned = [live |-> TRUE, pin |-> graph[c], conf |-> app[c].conf,
                         version |-> version, secret |-> minter]
            BY <2>1, <2>2 DEF TestAppRows
        <3>3. turned.live /\ turned.pin = graph[c] /\ turned.conf = app[c].conf /\ turned.secret = minter
            BY <3>2
        <3>4. app'[c] = turned
            BY <2>2, <3>1, <3>2 DEF Imported
        <3> QED BY <2>2, <3>3, <3>4 DEF ImportedRow
    <2>3. CASE c \notin new
        <3>1. app'[c] = app[c]
            BY <2>3 DEF Imported
        <3> QED BY <2>1, <2>3, <3>1 DEF ImportedRow
    <2> QED BY <2>2, <2>3
<1>2. app' = [c \in Apps |-> app'[c]]
    BY DEF Imported
<1> QED BY <1>1, <1>2

\* An import raises no configuration revision and gives no rotation's secret.
LEMMA ImportedLife ==
    ASSUME TestAppInv, NEW graph, NEW new \in SUBSET Apps, NEW minter,
           \A c \in Apps : ImportedRow(c, graph, new, minter),
           minter \in TestRequests => asked[minter].kind = "import",
           UNCHANGED <<asked, erasures, refuted>>
    PROVE  LifeKept'
<1> SUFFICES ASSUME NEW q \in TestRequests PROVE LifeHolds(q)'
    BY DEF LifeKept
<1>1. LifeHolds(q) /\ \A c : Erasures(c)' = Erasures(c)
    BY DEF TestAppInv, LifeKept, Erasures
<1>2. CASE asked[q].kind = "rotate"
    <2>1. PICK c \in Apps : c = asked[q].app
        BY <1>2, AskedBody DEF TestAppInv, RequestBodies, NoBody
    <2>2. app'[c].secret = q => app[c].secret = q
        BY <1>2 DEF ImportedRow
    <2>3. app'[c].conf = app[c].conf /\ (app[c].live => app'[c].live)
        BY DEF ImportedRow
    <2> QED BY <1>1, <1>2, <2>1, <2>2, <2>3 DEF LifeHolds, Younger
<1>3. CASE asked[q].kind # "rotate"
    BY <1>1, <1>3 DEF LifeHolds
<1> QED BY <1>2, <1>3

\* A delivery that works has written.
LEMMA Written ==
    ASSUME TestAppInv, UNCHANGED <<asked, completed, holder>>, NEW d \in Deliveries,
           delivery[d].at = "claimed", delivery' = [delivery EXCEPT ![d].at = "written"]
    PROVE  DeliveriesFit' /\ delivery' \in [Deliveries -> DeliveryStates]
<1> USE DEF TestAppInv
<1>1. delivery[d] \in DeliveryStates /\ DeliveryFits(delivery[d])
    BY DEF TestAppTyped, DeliveriesFit
<1>2. PICK x \in DeliveryStates : x = [delivery[d] EXCEPT !.at = "written"]
    BY <1>1 DEF DeliveryStates
<1>3. x.at = "written" /\ x.op = delivery[d].op
    BY <1>1, <1>2 DEF DeliveryStates
<1>4. DeliveryFits(x) /\ \A e \in Deliveries \ {d} : delivery[e].at \notin Working
    BY <1>1, <1>3 DEF DeliveryFits, Working, DeliveriesFit
<1>5. delivery' = [delivery EXCEPT ![d] = x]
    BY <1>2
<1> QED BY <1>4, <1>5, OneDelivery

\* What the import of this operation left as its graph wants it is not imported again.
LEMMA ImportKeeps ==
    ASSUME TestAppInv, NEW d \in Deliveries, ImportInTest(d)
    PROVE  TestAppInv'
<1> USE DEF TestAppInv
<1>1. PICK r \in TestRequests :
          /\ r = delivery[d].op /\ asked[r].kind = "import"
          /\ holder = r /\ r \notin completed /\ graphOf[r] # NoGraph
    BY DEF ImportInTest, DeliveriesFit, DeliveryFits, Working, GraphsFixed
<1>2. PICK new : new = Refreshed(graphOf[r], asked[r].refresh)
    OBVIOUS
<1>3. /\ ControlKept /\ UNCHANGED <<source, asked, outcomes, erasures, refuted>>
      /\ app' = Imported(graphOf[r], new, r)
    BY <1>1, <1>2 DEF ImportInTest
<1>4. secretsOf' = [secretsOf EXCEPT ![r] = [a \in Apps |-> @[a] + IF a \in new THEN 1 ELSE 0]]
    BY <1>1, <1>2 DEF ImportInTest
<1>5. DOMAIN graphOf[r] \subseteq Apps /\ \A c \in DOMAIN graphOf[r] : graphOf[r][c] \in Nat
    BY <1>1 DEF TestAppTyped, ImportGraphs
<1>6. new \subseteq DOMAIN graphOf[r] /\ new \in SUBSET Apps
    BY <1>2, <1>5 DEF Refreshed
<1>7. app' \in [Apps -> TestAppRows] /\ \A c \in Apps : ImportedRow(c, graphOf[r], new, r)
    BY <1>3, <1>5, <1>6, ImportedRows
<1>8. DeliveriesFit' /\ delivery' \in [Deliveries -> DeliveryStates]
    BY <1>3, Written DEF ImportInTest, ControlKept
<1>9. \A q \in TestRequests, c \in Apps :
          secretsOf'[q][c] = IF q = r /\ c \in new THEN secretsOf[q][c] + 1 ELSE secretsOf[q][c]
    BY <1>4 DEF TestAppTyped
<1>10. TestAppTyped'
    <2>1. [a \in Apps |-> secretsOf[r][a] + IF a \in new THEN 1 ELSE 0] \in [Apps -> Nat]
        BY DEF TestAppTyped
    <2>2. secretsOf' \in [TestRequests -> [Apps -> Nat]]
        BY <1>4, <2>1 DEF TestAppTyped
    <2> QED BY <1>3, <1>7, <1>8, <2>2 DEF TestAppTyped, ControlKept
<1>11. GraphsFixed' /\ ErasuresHeld'
    BY <1>3 DEF GraphsFixed, ErasuresHeld, ControlKept
<1>12. SecretsHeld'
    <2> SUFFICES ASSUME NEW q \in TestRequests, NEW c \in Apps
                 PROVE  /\ secretsOf'[q][c] <= 1
                        /\ secretsOf'[q][c] > 0 => OwnOutcome(q, c)' \/ ImportStands(q, c)'
                        /\ app'[c].secret = q => OwnOutcome(q, c)' \/ asked'[q].kind = "import"
        BY DEF SecretsHeld
    <2>1. /\ secretsOf[q][c] <= 1 /\ secretsOf[q][c] \in Nat
          /\ secretsOf[q][c] > 0 => OwnOutcome(q, c) \/ ImportStands(q, c)
          /\ app[c].secret = q => OwnOutcome(q, c) \/ asked[q].kind = "import"
        BY DEF SecretsHeld, TestAppTyped
    <2>2. OwnOutcome(q, c) => OwnOutcome(q, c)'
        BY <1>3 DEF OwnOutcome
    <2>3. ImportStands(q, c) /\ q \notin completed => c \notin new
        BY <1>1, <1>2 DEF ImportStands, Refreshed
    <2>4. ImportStands(q, c) => ImportStands(q, c)'
        BY <1>3, <1>7, <2>3 DEF ImportStands, ImportedRow, ControlKept
    <2>5. app'[c].secret = q => OwnOutcome(q, c)' \/ asked'[q].kind = "import"
        BY <1>1, <1>3, <1>7, <2>1, <2>2 DEF ImportedRow
    <2>6. CASE q = r /\ c \in new
        <3>1. ~OwnOutcome(q, c) /\ ~ImportStands(q, c)
            BY <1>1, <2>3, <2>6 DEF OwnOutcome, Managing
        <3>2. secretsOf'[q][c] = 1
            BY <1>9, <2>1, <2>6, <3>1
        <3>3. ImportStands(q, c)'
            BY <1>1, <1>3, <1>6, <1>7, <2>6 DEF ImportStands, ImportedRow, ControlKept
        <3> QED BY <2>5, <3>2, <3>3
    <2>7. CASE ~(q = r /\ c \in new)
        BY <1>9, <2>1, <2>2, <2>4, <2>5, <2>7
    <2> QED BY <2>6, <2>7
<1>13. LifeKept'
    BY <1>1, <1>3, <1>6, <1>7, ImportedLife
<1> QED BY <1>3, <1>8, <1>10, <1>11, <1>12, <1>13

\* An import of the data plane creates what is absent and touches nothing else.
LEMMA DirectImportKeeps ==
    ASSUME TestAppInv, NEW a \in Apps, ImportDirect(a)
    PROVE  TestAppInv'
<1> USE DEF TestAppInv
<1>1. PICK graph : graph = [b \in DependsOn[a] |-> source[b]]
    OBVIOUS
<1>2. PICK new : new = Refreshed(graph, {})
    OBVIOUS
<1>3. /\ ControlKept /\ UNCHANGED <<source, asked, outcomes, delivery, secretsOf, erasures, refuted>>
      /\ app' = Imported(graph, new, Direct)
    BY <1>1, <1>2 DEF ImportDirect
<1>4. new \in SUBSET Apps /\ \A c \in new : graph[c] \in Nat /\ ~app[c].live
    BY <1>1, <1>2, DependsAssumption DEF Refreshed, TestAppTyped
<1>5. app' \in [Apps -> TestAppRows] /\ \A c \in Apps : ImportedRow(c, graph, new, Direct)
    BY <1>3, <1>4, ImportedRows
<1>6. TestAppTyped'
    BY <1>3, <1>5 DEF TestAppTyped, ControlKept
<1>7. DeliveriesFit'
    BY <1>3 DEF DeliveriesFit, DeliveryFits, ControlKept
<1>8. GraphsFixed' /\ ErasuresHeld'
    BY <1>3 DEF GraphsFixed, ErasuresHeld, ControlKept
<1>9. SecretsHeld'
    <2>1. \A q \in TestRequests, c \in Apps :
              /\ OwnOutcome(q, c) => OwnOutcome(q, c)'
              /\ app'[c].secret = q => app[c].secret = q
        BY <1>3, <1>5, NamesApart DEF OwnOutcome, ImportedRow
    <2>2. \A q \in TestRequests, c \in Apps : ImportStands(q, c) => ImportStands(q, c)'
        BY <1>3, <1>4, <1>5 DEF ImportStands, ImportedRow, ControlKept
    <2> QED BY <1>3, <2>1, <2>2 DEF SecretsHeld
<1>10. LifeKept'
    BY <1>3, <1>4, <1>5, NamesApart, ImportedLife
<1> QED BY <1>3, <1>6, <1>7, <1>8, <1>9, <1>10

\* The erasure takes an application with the outcomes of its requests, and every request
\* made before is older than it.
LEMMA EraseKeeps ==
    ASSUME TestAppInv, NEW d \in Deliveries, EraseInTest(d)
    PROVE  TestAppInv'
<1> USE DEF TestAppInv
<1>1. PICK r \in TestRequests :
          /\ r = delivery[d].op /\ asked[r].kind = "retire"
          /\ holder = r /\ r \notin completed
    BY DEF EraseInTest, DeliveriesFit, DeliveryFits, Working
<1>2. PICK a \in Apps : a = asked[r].app
    BY <1>1, AskedBody DEF RequestBodies, NoBody
<1>3. ControlKept /\ UNCHANGED <<source, asked, refuted>>
    BY DEF EraseInTest
<1>4. DeliveriesFit' /\ delivery' \in [Deliveries -> DeliveryStates]
    BY <1>3, Written DEF EraseInTest, ControlKept
<1>5. CASE r \in outcomes
    <2>1. AppsKept
        BY <1>1, <1>5 DEF EraseInTest, Erasable
    <2>2. TestAppTyped'
        BY <1>3, <1>4, <2>1 DEF TestAppTyped, AppsKept, ControlKept
    <2> QED BY <1>3, <1>4, <2>1, <2>2, RecordsKept
<1>6. CASE r \notin outcomes
    <2>1. /\ app' = [app EXCEPT ![a] = Absent]
          /\ outcomes' = {q \in outcomes : asked[q].kind = "retire" \/ asked[q].app # a} \cup {r}
          /\ secretsOf' = [q \in TestRequests |-> [secretsOf[q] EXCEPT ![a] = 0]]
          /\ erasures' = [erasures EXCEPT ![r] = erasures[r] + 1]
        BY <1>1, <1>2, <1>6 DEF EraseInTest, Erasable
    <2>2. Absent \in TestAppRows /\ Absent.secret = NoTestRequest
        BY DEF Absent, TestAppRows
    <2>3. \A c \in Apps : app'[c] = IF c = a THEN Absent ELSE app[c]
        BY <2>1 DEF TestAppTyped
    <2>4. \A q \in TestRequests, c \in Apps :
              secretsOf'[q][c] = IF c = a THEN 0 ELSE secretsOf[q][c]
        BY <2>1 DEF TestAppTyped
    <2>5. erasures[r] = 0 /\ \A q \in TestRequests :
              erasures'[q] = IF q = r THEN 1 ELSE erasures[q]
        BY <2>1, <1>6 DEF TestAppTyped, ErasuresHeld
    <2>6. TestAppTyped'
        <3>1. app' \in [Apps -> TestAppRows] /\ secretsOf' \in [TestRequests -> [Apps -> Nat]]
            BY <2>1, <2>2 DEF TestAppTyped
        <3>2. erasures' \in [TestRequests -> Nat]
            BY <2>1, <2>5 DEF TestAppTyped
        <3> QED BY <1>3, <1>4, <2>1, <3>1, <3>2 DEF TestAppTyped, ControlKept
    <2>7. GraphsFixed'
        BY <1>3 DEF GraphsFixed, ControlKept
    <2>8. ErasuresHeld'
        BY <1>1, <1>3, <2>1, <2>5 DEF ErasuresHeld
    <2>9. SecretsHeld'
        <3>1. ASSUME NEW q \in TestRequests, NEW c \in Apps, c # a
              PROVE  /\ OwnOutcome(q, c) => OwnOutcome(q, c)'
                     /\ ImportStands(q, c) => ImportStands(q, c)'
            <4>1. OwnOutcome(q, c) => OwnOutcome(q, c)'
                BY <1>3, <2>1, <3>1 DEF OwnOutcome
            <4>2. ImportStands(q, c) => q \in completed
                BY <1>1 DEF ImportStands
            <4> QED BY <1>3, <4>1, <4>2 DEF ImportStands, ControlKept
        <3>2. ASSUME NEW q \in TestRequests, NEW c \in Apps
              PROVE  /\ secretsOf'[q][c] <= 1
                     /\ secretsOf'[q][c] > 0 => OwnOutcome(q, c)' \/ ImportStands(q, c)'
                     /\ app'[c].secret = q => OwnOutcome(q, c)' \/ asked'[q].kind = "import"
            <4>1. CASE c = a
                BY <4>1, <2>2, <2>3, <2>4, NamesApart
            <4>2. CASE c # a
                BY <4>2, <3>1, <1>3, <2>3, <2>4 DEF SecretsHeld
            <4> QED BY <4>1, <4>2
        <3> QED BY <3>2 DEF SecretsHeld
    <2>10. LifeKept'
        <3> SUFFICES ASSUME NEW q \in TestRequests PROVE LifeHolds(q)'
            BY DEF LifeKept
        <3>1. LifeHolds(q)
            BY DEF LifeKept
        <3>2. \A c \in Apps : Erasures(c)' = IF c = a THEN Erasures(a) \cup {r} ELSE Erasures(c)
            BY <1>1, <1>2, <1>3, <2>5 DEF Erasures, TestAppTyped
        <3>3. r \notin Erasures(a)
            BY <2>5 DEF Erasures
        <3>4. CASE asked[q] = NoBody
            BY <1>3, <3>1, <3>4 DEF LifeHolds, NoBody
        <3>5. CASE asked[q] # NoBody
            <4>1. PICK c \in Apps : c = asked[q].app
                BY <3>5, AskedBody DEF RequestBodies
            <4>2. asked[q].after \subseteq Erasures(c)
                BY <3>1, <3>5, <4>1 DEF LifeHolds
            <4>3. CASE c = a
                <5>1. asked[q].after # Erasures(a) \cup {r}
                    BY <4>2, <4>3, <3>3
                <5>2. ~Younger(q)'
                    BY <1>3, <3>2, <4>1, <4>3, <5>1 DEF Younger
                <5>3. (asked[q].after \subseteq Erasures(asked[q].app))'
                    BY <1>3, <3>2, <4>1, <4>2, <4>3
                <5> QED BY <1>3, <3>1, <5>2, <5>3 DEF LifeHolds
            <4>4. CASE c # a
                <5>1. Erasures(c)' = Erasures(c) /\ app'[c] = app[c]
                    BY <2>3, <3>2, <4>4
                <5> QED BY <1>3, <3>1, <4>1, <5>1 DEF LifeHolds, Younger
            <4> QED BY <4>3, <4>4
        <3> QED BY <3>4, <3>5
    <2> QED BY <1>1, <1>3, <1>4, <2>6, <2>7, <2>8, <2>9, <2>10
<1> QED BY <1>5, <1>6

\* Every step keeps the invariant.
LEMMA TestAppStep == TestAppInv /\ [TestAppNext]_testAppVars => TestAppInv'
<1> SUFFICES ASSUME TestAppInv, [TestAppNext]_testAppVars PROVE TestAppInv'
    OBVIOUS
<1>1. CASE UNCHANGED testAppVars
    <2>1. UNCHANGED <<source, app, asked, completed, graphOf, holder, envRevision, outcomes,
                      delivery, secretsOf, erasures, refuted>>
        BY <1>1 DEF testAppVars
    <2>2. AppsKept /\ ControlKept /\ UNCHANGED <<asked, refuted>>
        BY <2>1 DEF AppsKept, ControlKept
    <2>3. TestAppTyped' /\ DeliveriesFit'
        BY <2>1 DEF TestAppInv, TestAppTyped, DeliveriesFit, DeliveryFits
    <2> QED BY <2>2, <2>3, RecordsKept DEF TestAppInv
<1>2. CASE Advance \/ \E a \in Apps : Publish(a)
    BY <1>2, OutsideSteps
<1>3. CASE \E a \in Apps : ImportDirect(a)
    BY <1>3, DirectImportKeeps
<1>4. CASE \E a \in Apps, r \in TestRequests, kind \in {"rotate", "configure", "import", "retire"} :
               \E refresh \in SUBSET DependsOn[a] : Ask(r, kind, a, refresh)
    BY <1>4, AskKeeps
<1>5. ASSUME NEW d \in Deliveries,
             \/ DeliverySteps(d) \/ Refute(d) \/ RotateInTest(d) \/ ConfigureInTest(d)
             \/ Complete(d) \/ ImportInTest(d) \/ EraseInTest(d) \/ FinishOperation(d)
             \/ \E r \in TestRequests : Reserve(d, r)
      PROVE  TestAppInv'
    BY <1>5, DeliveryStepsKeep, RefuteKeeps, RotateKeeps, ConfigureKeeps, CompleteKeeps,
       ImportKeeps, EraseKeeps, FinishKeeps, ReserveKeeps
<1> QED
    BY <1>1, <1>2, <1>3, <1>4, <1>5 DEF TestAppNext, DeliverySteps

\* The invariant implies the property.
LEMMA TestAppConsequence == TestAppInv => ImportSound
<1> SUFFICES ASSUME TestAppInv PROVE ImportSound
    OBVIOUS
<1> USE DEF TestAppInv
<1>1. EffectOnce
    BY DEF EffectOnce, SecretsHeld, ErasuresHeld
<1>2. RejectionProves
    BY DEF RejectionProves, LifeKept, LifeHolds, Younger
<1>3. ImportResumable
    BY DEF ImportResumable, GraphsFixed, SourcesAgree, Graph
<1> QED BY <1>1, <1>2, <1>3 DEF ImportSound

\* However often Honeycomb repeats a request and wherever its handlers stop, the request
\* gives an application at most one secret and erases at most once; a rotation refused for
\* its configuration is never carried out on that application; and an interrupted import
\* can be resumed.
THEOREM ImportSoundHolds == TestAppSpec => []ImportSound
<1>1. TestAppSpec => []TestAppInv
    BY TestAppInitially, TestAppStep, PTL DEF TestAppSpec
<1> QED BY <1>1, TestAppConsequence, PTL
=============================================================================
