----------------------------- MODULE Invitation -----------------------------
(***************************************************************************)
(* Joining an organization: an invitation is issued to the email address   *)
(* of a carbon that may not have signed up yet, the invitee asks for a     *)
(* code, receives it and accepts with it; meanwhile the invitation may be  *)
(* revoked or expire, the member be removed and the provider refuse or not *)
(* answer.  (Its announcement is the module Notification.)                 *)
(*                                                                         *)
(* Sources: src/features/organizations/{invitations,directory}.rs.         *)
(*                                                                         *)
(* Transactions run at READ COMMITTED; each of these locks the rows it     *)
(* decides on (the advisory lock of the organization for creation and      *)
(* binding, the invitation and its challenge for a join) and is one        *)
(* action.  A carbon's email address never changes after signup, so an     *)
(* address is named by the carbon that owns it or will own it.  The        *)
(* inviter's capability, tags and trust overrides, the idempotency records *)
(* (modelled in LoginChallenge) and rate limits only refuse.               *)
(***************************************************************************)
EXTENDS OtpAttempts, FiniteSets

CONSTANTS
    Carbons,      \* invitees, each with its one email address
    Invitations,  \* bound: invitations that may be issued
    MaxCodes,     \* bound: codes that may be requested
    InviteLife    \* the 48 hours of an invitation, in ticks

Nobody == "nobody"

ASSUME InvitationAssumption ==
    MaxCodes \in Nat /\ InviteLife \in Nat \ {0} /\ Nobody \notin Carbons

Codes == 1 .. MaxCodes

VARIABLES
    signedUp,    \* carbons with a verified contact
    member,      \* status of each carbon's iam.organization_memberships row
    invitation,  \* iam.organization_invitations
    code,        \* iam.invitation_verification_challenges, in creation order
    sending,     \* what the API process still has to do for each code
    joins,       \* history: what each acceptance rested on
    wrong        \* history: wrong codes since the last cooldown, by invitation

inviteRows == <<signedUp, member, invitation>>
invitationVars == <<signedUp, member, invitation, code, sending, joins, wrong>>

NoInvitation == [status |-> "absent", email |-> Nobody, target |-> Nobody, life |-> 0]
NoCode == [invitation |-> Nobody, delivery |-> "absent", attempts |-> NoAttempts,
           life |-> 0, state |-> "absent"]

InvitationInit ==
    /\ signedUp \in SUBSET Carbons
    /\ member = [c \in Carbons |-> "none"]
    /\ invitation = [i \in Invitations |-> NoInvitation]
    /\ code = [n \in Codes |-> NoCode]
    /\ sending = [n \in Codes |-> "idle"]
    /\ joins = {}
    /\ wrong = [i \in Invitations |-> 0]

Invited(i) == invitation[i].status = "pending" /\ invitation[i].life > 0
Open(n) == code[n].state = "open"
CodesOf(i) == {n \in Codes : code[n].invitation = i}
\* lock_invitation_verification_challenge takes the newest challenge.
Latest(i) == Max(CodesOf(i))

----------------------------------------------------------------------------
(* Issuing and revoking *)

\* resolve_target: an address belongs to nobody until its carbon signs up.
ResolveTarget(c) == IF c \in signedUp THEN c ELSE Nobody

\* Mutant of NoDuplicate: only invitations of registered carbons are compared.
NoDuplicateTarget(c) ==
    \A j \in Invitations : ~(Invited(j) /\ invitation[j].target = c)

\* The duplicate check by blind index, after due rows were marked expired.
NoDuplicate(c) == \A j \in Invitations : ~(Invited(j) /\ invitation[j].email = c)

\* create_invitation: what is past its end becomes expired, the duplicate and
\* membership checks follow, and the row is inserted.
CreateInvitation(i, c) ==
    /\ invitation[i].status = "absent"
    /\ NoDuplicate(c)
    /\ ResolveTarget(c) # Nobody => member[c] # "active"
    /\ invitation' = [j \in Invitations |->
         CASE j = i -> [status |-> "pending", email |-> c,
                        target |-> ResolveTarget(c), life |-> InviteLife]
           [] invitation[j].status = "pending" /\ ~Invited(j) ->
                [invitation[j] EXCEPT !.status = "expired"]
           [] OTHER -> invitation[j]]
    /\ UNCHANGED <<signedUp, member, code, sending, joins, wrong>>

\* Codes that were sent for a revoked invitation are superseded.
RevokedCodes(i) ==
    [n \in Codes |-> IF code[n].invitation = i /\ Open(n)
                     THEN [code[n] EXCEPT !.state = "superseded"] ELSE code[n]]

\* revoke_invitation, on a row that is still pending and not past its end.
RevokeInvitation(i) ==
    /\ Invited(i)
    /\ invitation' = [invitation EXCEPT ![i].status = "revoked"]
    /\ code' = RevokedCodes(i)
    /\ UNCHANGED <<signedUp, member, sending, joins, wrong>>

\* The invitee completes signup with the address (SignupSession).
SignUp(c) ==
    /\ c \notin signedUp
    /\ signedUp' = signedUp \cup {c}
    /\ UNCHANGED <<member, invitation, code, sending, joins, wrong>>

----------------------------------------------------------------------------
(* The code *)

\* resolve_pending_email_join: an unbound invitation to the caller's address is
\* bound to the caller.
Bound(c) ==
    [i \in Invitations |->
       IF Invited(i) /\ invitation[i].target = Nobody /\ invitation[i].email = c
       THEN [invitation[i] EXCEPT !.target = c] ELSE invitation[i]]

\* What the UPDATE that supersedes the current code returns: a code that a
\* rejected delivery already superseded leaves nothing behind.
InheritedWindow(i) ==
    LET current == {n \in CodesOf(i) : Open(n)}
    IN  IF current = {} THEN NoAttempts ELSE code[Max(current)].attempts

MinOf(a, b) == IF a <= b THEN a ELSE b

\* send_invitation_email_code up to its commit: the current code is superseded
\* and a pending one inserted, which lives no longer than the invitation.
SendInvitationEmailCode(n, i, c) ==
    /\ c \in signedUp
    /\ code[n].state = "absent" /\ \A m \in 1 .. (n - 1) : code[m].state # "absent"
    /\ Bound(c)[i].target = c /\ Invited(i)
    /\ invitation' = Bound(c)
    /\ code' = [m \in Codes |->
         CASE m = n -> [invitation |-> i, delivery |-> "pending",
                        attempts |-> InheritedWindow(i),
                        life |-> MinOf(Ttl, invitation[i].life), state |-> "open"]
           [] m \in CodesOf(i) /\ Open(m) -> [code[m] EXCEPT !.state = "superseded"]
           [] OTHER -> code[m]]
    /\ sending' = [sending EXCEPT ![n] = "calling"]
    /\ UNCHANGED <<signedUp, member, joins, wrong>>

\* classify_invitation_otp_delivery: a timeout and an unavailable provider leave
\* the outcome unknown, and the request ends without a second transaction.
CallProvider(n) ==
    /\ sending[n] = "calling"
    /\ \E result \in ProviderResult :
         sending' = [sending EXCEPT ![n] =
           CASE result = "ok" -> "confirming"
             [] Definitive(result) -> "failing"
             [] OTHER -> "idle"]
    /\ UNCHANGED <<inviteRows, code, joins, wrong>>

\* confirm_invitation_otp_delivery: the code becomes usable only when nothing
\* replaced or ended it while the provider was called.
ConfirmDelivery(n) ==
    /\ sending[n] = "confirming"
    /\ code' = IF /\ Open(n) /\ code[n].delivery = "pending" /\ code[n].life > 0
                  /\ Invited(code[n].invitation)
               THEN [code EXCEPT ![n].delivery = "delivered"] ELSE code
    /\ sending' = [sending EXCEPT ![n] = "idle"]
    /\ UNCHANGED <<inviteRows, joins, wrong>>

\* fail_invitation_otp_delivery.
FailDelivery(n) ==
    /\ sending[n] = "failing"
    /\ code' = [code EXCEPT ![n].delivery = IF @ = "pending" THEN "failed" ELSE @,
                            ![n].state = IF Open(n) THEN "superseded" ELSE @]
    /\ sending' = [sending EXCEPT ![n] = "idle"]
    /\ UNCHANGED <<inviteRows, joins, wrong>>

\* The API process stops before its second transaction.
AbandonSend(n) ==
    /\ sending[n] # "idle"
    /\ sending' = [sending EXCEPT ![n] = "idle"]
    /\ UNCHANGED <<inviteRows, code, joins, wrong>>

----------------------------------------------------------------------------
(* Joining *)

\* Mutant of Acceptable: the delivery of the code is not checked.
AcceptableUndelivered(i) ==
    /\ CodesOf(i) # {}
    /\ Invited(i)
    /\ LET row == code[Latest(i)] IN
         /\ row.state = "open" /\ row.life > 0
         /\ row.attempts.failed < MaxAttempts /\ row.attempts.cooldown = 0

\* The checks of join_organization on the newest code of the invitation.
Acceptable(i) ==
    /\ CodesOf(i) # {}
    /\ Invited(i)
    /\ LET row == code[Latest(i)] IN
         /\ row.state = "open" /\ row.life > 0 /\ row.delivery = "delivered"
         /\ row.attempts.failed < MaxAttempts /\ row.attempts.cooldown = 0

\* join_organization with the right code: the membership is created, or an
\* inactive one reactivated; the code is consumed and the invitation accepted.
\* An active membership makes complete_verified_organization_invitation fail.
JoinOrganization(i) ==
    LET c == invitation[i].target IN
    /\ c \in signedUp
    /\ Acceptable(i)
    /\ member[c] # "active"
    /\ member' = [member EXCEPT ![c] = "active"]
    /\ code' = [code EXCEPT ![Latest(i)].state = "consumed"]
    /\ invitation' = [invitation EXCEPT ![i].status = "accepted"]
    /\ joins' = joins \cup {[invitation |-> i, carbon |-> c, email |-> invitation[i].email,
                             delivered |-> code[Latest(i)].delivery = "delivered"]}
    /\ UNCHANGED <<signedUp, sending, wrong>>

\* join_organization with a wrong code: register_failed_attempt.
JoinWithWrongCode(i) ==
    /\ invitation[i].target \in signedUp
    /\ Acceptable(i)
    /\ LET after == AfterFailure(code[Latest(i)].attempts) IN
         /\ code' = [code EXCEPT ![Latest(i)].attempts = after]
         /\ wrong' = [wrong EXCEPT ![i] = IF after.cooldown > 0 THEN 0 ELSE @ + 1]
    /\ UNCHANGED <<inviteRows, sending, joins>>

\* remove_member; the row stays and may be reactivated by a later invitation.
RemoveMember(c) ==
    /\ member[c] = "active"
    /\ member' = [member EXCEPT ![c] = "removed"]
    /\ UNCHANGED <<signedUp, invitation, code, sending, joins, wrong>>

\* Time passes: invitations, codes, cooldowns and leases run down.
InvitationTick ==
    /\ \/ \E i \in Invitations : invitation[i].life > 0
       \/ \E n \in Codes : code[n].life > 0 \/ code[n].attempts.cooldown > 0
    /\ invitation' = [i \in Invitations |-> [invitation[i] EXCEPT !.life = Elapsed(@)]]
    /\ code' = [n \in Codes |-> [code[n] EXCEPT !.life = Elapsed(@),
                                                !.attempts.cooldown = Elapsed(@)]]
    /\ UNCHANGED <<signedUp, member, sending, joins, wrong>>

InvitationNext ==
    \/ \E i \in Invitations, c \in Carbons : CreateInvitation(i, c)
    \/ \E i \in Invitations : RevokeInvitation(i)
    \/ \E c \in Carbons : SignUp(c)
    \/ \E n \in Codes, i \in Invitations, c \in Carbons : SendInvitationEmailCode(n, i, c)
    \/ \E n \in Codes : CallProvider(n)
    \/ \E n \in Codes : ConfirmDelivery(n)
    \/ \E n \in Codes : FailDelivery(n)
    \/ \E n \in Codes : AbandonSend(n)
    \/ \E i \in Invitations : JoinOrganization(i)
    \/ \E i \in Invitations : JoinWithWrongCode(i)
    \/ \E c \in Carbons : RemoveMember(c)
    \/ InvitationTick

InvitationSpec == InvitationInit /\ [][InvitationNext]_invitationVars
----------------------------------------------------------------------------
(* Properties *)

\* At most one invitation to an address is live, although the address may be
\* invited before its carbon exists and again, by handle, after signup.
OnePendingInvitation ==
    \A i, j \in Invitations :
        Invited(i) /\ Invited(j) /\ invitation[i].email = invitation[j].email => i = j

\* Whoever joined was the owner of the address the invitation was issued to and
\* entered a code that was delivered there; an invitation admits once.
JoinProvesInvitation ==
    /\ \A j \in joins : j.carbon = j.email /\ j.delivered
    /\ \A j \in joins : invitation[j.invitation].status = "accepted"
    /\ \A c \in Carbons : member[c] = "active" =>
         \E j \in joins : j.carbon = c

InvitationSound == OnePendingInvitation /\ JoinProvesInvitation

\* Between two cooldowns fewer than MaxAttempts wrong codes are evaluated, however
\* often the code is sent again (api-authentication.md: "Resending cannot reset
\* either").
CodeWindowCarried == \A i \in Invitations : wrong[i] < MaxAttempts
=============================================================================
