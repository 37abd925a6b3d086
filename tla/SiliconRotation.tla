--------------------------- MODULE SiliconRotation ---------------------------
(***************************************************************************)
(* The credential of one silicon: created, rotated in the three steps of   *)
(* request, approval and completion, used to log in, removed.              *)
(*                                                                         *)
(* Sources: src/features/organizations/{governance,silicons}.rs,           *)
(* src/features/authentication/{silicon,tokens}.rs and the migrations they *)
(* rely on.                                                                *)
(*                                                                         *)
(* Management runs at READ COMMITTED.  A request takes no lock: it reads   *)
(* the target, looks for an open request and inserts in three steps, so    *)
(* several requests can be open at once.  Approval, completion and removal *)
(* hold the silicon's row lock from their first decision to the commit and *)
(* are one action each.  A login is SERIALIZABLE and locks the rows it     *)
(* read: it fails when one of them has changed since its snapshot.  The    *)
(* refresh and the logout of its sessions are SessionAuthority's.          *)
(***************************************************************************)
EXTENDS Naturals

CONSTANTS
    Requests,   \* rotation requests; a request also names its replacement
    Logins      \* login attempts; a login also names its session

First == "first"                    \* the credential create_silicon hands out
Credentials == {First} \cup Requests

ASSUME RotationAssumption == First \notin Requests /\ "none" \notin Credentials

VARIABLES
    silicon,     \* iam.silicons and principals: live, and the auth_epoch
    credential,  \* iam.silicon_credentials: status
    rotation,    \* iam.approval_requests with silicon_token_rotation_requests
    requester,   \* what a request in flight has read
    login,       \* the snapshot of a login in flight
    siliconSession \* iam.authentication_sessions of the silicon

rotationVars == <<silicon, credential, rotation, requester, login, siliconSession>>

NoRotation == [status |-> "absent", previous |-> "none"]
IdleRequester == [step |-> "idle", target |-> "none"]
NoLogin == [credential |-> "none", epoch |-> 0]
NoSession == [status |-> "absent", credential |-> "none", epoch |-> 0]

RotationInit ==
    /\ silicon = [live |-> FALSE, epoch |-> 0]
    /\ credential = [c \in Credentials |-> "absent"]
    /\ rotation = [r \in Requests |-> NoRotation]
    /\ requester = [r \in Requests |-> IdleRequester]
    /\ login = [l \in Logins |-> NoLogin]
    /\ siliconSession = [l \in Logins |-> NoSession]

Active == {c \in Credentials : credential[c] = "active"}

\* create_silicon inserts principal, membership, silicon and first credential.
CreateSilicon ==
    /\ silicon.epoch = 0
    /\ silicon' = [live |-> TRUE, epoch |-> 1]
    /\ credential' = [credential EXCEPT ![First] = "active"]
    /\ UNCHANGED <<rotation, requester, login, siliconSession>>

----------------------------------------------------------------------------
(* Requesting a rotation *)

\* fetch_rotation_target reads the live silicon and its active credential.
FetchTarget(r) ==
    /\ rotation[r].status = "absent" /\ requester[r] = IdleRequester
    /\ silicon.live
    /\ \E c \in Active :
         requester' = [requester EXCEPT ![r] = [step |-> "target", target |-> c]]
    /\ UNCHANGED <<silicon, credential, rotation, login, siliconSession>>

\* request_silicon_token_rotation looks for an open request of the silicon.
CheckPending(r) ==
    /\ requester[r].step = "target"
    /\ \A q \in Requests : rotation[q].status \notin {"pending", "approved"}
    /\ requester' = [requester EXCEPT ![r].step = "checked"]
    /\ UNCHANGED <<silicon, credential, rotation, login, siliconSession>>

\* ... and inserts the request for the credential it read in the beginning.
InsertRequest(r) ==
    /\ requester[r].step = "checked"
    /\ rotation' = [rotation EXCEPT ![r] =
         [status |-> "pending", previous |-> requester[r].target]]
    /\ requester' = [requester EXCEPT ![r] = IdleRequester]
    /\ UNCHANGED <<silicon, credential, login, siliconSession>>

\* rotation_already_pending, a failed statement or a crash: nothing is kept.
AbandonRequest(r) ==
    /\ requester[r] # IdleRequester
    /\ requester' = [requester EXCEPT ![r] = IdleRequester]
    /\ UNCHANGED <<silicon, credential, rotation, login, siliconSession>>

----------------------------------------------------------------------------
(* Deciding, completing, removing *)

\* revoke_silicon_sessions, with the families and tokens under the sessions.
RevokedSessions ==
    [l \in Logins |-> IF siliconSession[l].status = "active"
                        THEN [siliconSession[l] EXCEPT !.status = "revoked"]
                        ELSE siliconSession[l]]

\* Every change of the credential invalidates what was issued under it.
Invalidate(live) ==
    /\ silicon' = [live |-> live, epoch |-> silicon.epoch + 1]
    /\ siliconSession' = RevokedSessions

\* Only the status is checked: the silicon may be gone.
RejectRotation(r) ==
    /\ rotation[r].status = "pending"
    /\ rotation' = [rotation EXCEPT ![r].status = "rejected"]
    /\ UNCHANGED <<silicon, credential, requester, login, siliconSession>>

\* Mutant of CredentialUnchanged: another active credential is not noticed.
AnyCredential(c) == Active \subseteq Credentials

\* invalidate_rotation_credential fails with rotation_credential_changed when
\* a credential other than the one to be rotated is active.
CredentialUnchanged(c) == Active \subseteq {c}

\* lock_rotation_target_for_approval: the request is open, the silicon not gone.
Approvable(r) == rotation[r].status = "pending" /\ silicon.live

Retire(cs) == [c \in Credentials |-> IF c \in cs /\ credential[c] = "active"
                                       THEN "retired" ELSE credential[c]]

\* decide_approval_request by the owner: the credential dies, nothing replaces it.
ApproveRotation(r) ==
    /\ Approvable(r)
    /\ CredentialUnchanged(rotation[r].previous)
    /\ credential' = Retire({rotation[r].previous})
    /\ rotation' = [rotation EXCEPT ![r].status = "approved"]
    /\ Invalidate(TRUE)
    /\ UNCHANGED <<requester, login>>

\* Mutant of SlotFree: silicon_credentials_one_active_idx is missing.
SlotIgnored(c) == c \in Credentials

\* silicon_credentials_one_active_idx lets the replacement in only when nothing
\* but the credential just retired was active.
SlotFree(c) == Active \subseteq {c}

CompleteRotation(r) ==
    /\ silicon.live
    /\ rotation[r].status = "approved"
    /\ SlotFree(rotation[r].previous)
    /\ credential' = [Retire({rotation[r].previous}) EXCEPT ![r] = "active"]
    /\ rotation' = [rotation EXCEPT ![r].status = "applied"]
    /\ Invalidate(TRUE)
    /\ UNCHANGED <<requester, login>>

\* remove_organization_membership: open requests stay as they are.
RemoveSilicon ==
    /\ silicon.live
    /\ credential' = Retire(Credentials)
    /\ Invalidate(FALSE)
    /\ UNCHANGED <<rotation, requester, login>>

----------------------------------------------------------------------------
(* Logging in *)

\* authenticate takes its snapshot; the caller presents the secret of c.
BeginLogin(l, c) ==
    /\ login[l] = NoLogin /\ siliconSession[l] = NoSession
    /\ silicon.live /\ credential[c] = "active"
    /\ login' = [login EXCEPT ![l] = [credential |-> c, epoch |-> silicon.epoch]]
    /\ UNCHANGED <<silicon, credential, rotation, requester, siliconSession>>

\* Mutant of SnapshotHolds: the lookup neither locks nor notices a change.
SnapshotTrusted(l) == login[l].epoch <= silicon.epoch

\* resolve_active_silicon_credential locks what it read FOR UPDATE, which fails
\* when a row has changed since the snapshot; every change moves the epoch.
SnapshotHolds(l) == login[l].epoch = silicon.epoch

FinishLogin(l) ==
    /\ login[l] # NoLogin
    /\ SnapshotHolds(l)
    /\ siliconSession' = [siliconSession EXCEPT ![l] =
         [status |-> "active", credential |-> login[l].credential,
          epoch |-> login[l].epoch]]
    /\ login' = [login EXCEPT ![l] = NoLogin]
    /\ UNCHANGED <<silicon, credential, rotation, requester>>

\* A serialization failure, a rate limit or a crash: nothing is kept.
RollbackLogin(l) ==
    /\ login[l] # NoLogin
    /\ login' = [login EXCEPT ![l] = NoLogin]
    /\ UNCHANGED <<silicon, credential, rotation, requester, siliconSession>>

RotationNext ==
    \/ CreateSilicon \/ RemoveSilicon
    \/ \E r \in Requests :
         \/ FetchTarget(r) \/ CheckPending(r) \/ InsertRequest(r)
         \/ AbandonRequest(r)
         \/ RejectRotation(r) \/ ApproveRotation(r) \/ CompleteRotation(r)
    \/ \E l \in Logins :
         \/ \E c \in Credentials : BeginLogin(l, c)
         \/ FinishLogin(l) \/ RollbackLogin(l)

RotationSpec == RotationInit /\ [][RotationNext]_rotationVars

----------------------------------------------------------------------------
(* Properties *)

RotationTypeOK ==
    /\ silicon \in [live : BOOLEAN, epoch : Nat]
    /\ credential \in [Credentials -> {"absent", "active", "retired"}]
    /\ rotation \in [Requests ->
         [status : {"absent", "pending", "rejected", "approved", "applied"},
          previous : Credentials \cup {"none"}]]
    /\ requester \in [Requests ->
         [step : {"idle", "target", "checked"},
          target : Credentials \cup {"none"}]]
    /\ login \in [Logins ->
         [credential : Credentials \cup {"none"}, epoch : Nat]]
    /\ siliconSession \in [Logins ->
         [status : {"absent", "active", "revoked"},
          credential : Credentials \cup {"none"}, epoch : Nat]]

\* A session that is still active was opened with the credential that is active
\* now, whatever approval, completion or removal raced with its login:
\* resolve_active_silicon_credential and revoke_silicon_sessions leave no gap.
ActiveSessionCurrent ==
    \A l \in Logins : siliconSession[l].status = "active" =>
        /\ silicon.live
        /\ siliconSession[l].epoch = silicon.epoch
        /\ credential[siliconSession[l].credential] = "active"

\* A replacement appears only in a state without an active credential, although
\* several requests can be open, stale or approved at once: no step swaps one
\* active credential for another or adds a second one (the split of approval and
\* completion in governance.rs, and silicon_credentials_one_active_idx).
NoOverlap ==
    [][\A c, d \in Credentials :
         credential[c] = "active" /\ credential'[d] = "active" => c = d]_rotationVars

\* A rotation logs nobody out while the credential they used stays good: a stale
\* request that is approved late touches no session of its successor
\* (rotation_credential_changed in invalidate_rotation_credential).
RevokedForCause ==
    [][\A l \in Logins :
         siliconSession[l].status = "active" /\ siliconSession'[l].status = "revoked"
           => credential'[siliconSession[l].credential] = "retired"]_rotationVars

\* All of the above: one active credential, sessions only of that one, and none
\* ended for another reason.
RotationSound ==
    /\ []RotationTypeOK
    /\ []ActiveSessionCurrent
    /\ NoOverlap
    /\ RevokedForCause
=============================================================================
