---------------------------- MODULE Notification ----------------------------
(***************************************************************************)
(* The worker that announces invitations and security notices: jobs with   *)
(* leases, a provider that is called between two statements, instances     *)
(* that stop or come back late, and invitations that are revoked or expire *)
(* meanwhile.                                                              *)
(*                                                                         *)
(* Sources: src/worker/notification.rs and the revocation of an invitation *)
(* in src/features/organizations/invitations.rs.                           *)
(***************************************************************************)
EXTENDS OtpAttempts

CONSTANTS
    Notices,     \* bound: jobs that may be queued
    Announcers,  \* worker instances
    NoticeLease, \* lease_duration, in ticks
    MaxSends     \* worker.max_attempts

ASSUME NotificationAssumption ==
    NoticeLease \in Nat \ {0} /\ MaxSends \in Nat \ {0}

Unleased == "unleased"

\* An invitation to a verified contact is loaded without looking at the job's
\* lease; to a bare address, and for the two notices, the lease is part of it.
NoticeKinds == {"invitation", "email_invitation", "security_notice",
                "application_scope_review"}
Revocable == {"invitation", "email_invitation"}

VARIABLES
    notice,    \* iam.notification_jobs
    subject,   \* is what the job announces "live", "revoked" or "expired"
    announcer  \* what each instance is doing

noticeVars == <<notice, subject, announcer>>

NoNotice == [status |-> "absent", kind |-> "none", owner |-> Unleased, lease |-> 0,
             attempts |-> 0]
Resting == [notice |-> Unleased, stage |-> "idle", attempt |-> 0]

NotificationInit ==
    /\ notice = [j \in Notices |-> NoNotice]
    /\ subject = [j \in Notices |-> "live"]
    /\ announcer = [w \in Announcers |-> Resting]

\* The INSERT in the transaction that creates what is announced.
QueueNotice(j, kind) ==
    /\ notice[j].status = "absent"
    /\ notice' = [notice EXCEPT ![j] = [NoNotice EXCEPT !.status = "pending", !.kind = kind]]
    /\ UNCHANGED <<subject, announcer>>

\* Mutant of CancelledNotice: a job that a worker holds is left to it.
CancelWaiting(row) ==
    IF row.status = "pending" THEN [row EXCEPT !.status = "cancelled"] ELSE row

\* revoke_invitation cancels the job in its own transaction, claimed or not; the
\* lease columns keep their values.
CancelledNotice(row) ==
    IF row.status \in {"pending", "processing"}
    THEN [row EXCEPT !.status = "cancelled"] ELSE row

RevokeSubject(j) ==
    /\ notice[j].kind \in Revocable /\ subject[j] = "live"
    /\ subject' = [subject EXCEPT ![j] = "revoked"]
    /\ notice' = [notice EXCEPT ![j] = CancelledNotice(@)]
    /\ UNCHANGED announcer

\* An invitation reaches its end or is accepted; its job is not touched.
ExpireSubject(j) ==
    /\ notice[j].kind \in Revocable /\ subject[j] = "live"
    /\ subject' = [subject EXCEPT ![j] = "expired"]
    /\ UNCHANGED <<notice, announcer>>

Due(j) ==
    \/ notice[j].status = "pending"
    \/ notice[j].status = "processing" /\ notice[j].lease = 0

HoldsNotice(w, j) == notice[j].status = "processing" /\ notice[j].owner = w
LeasesNotice(w, j) == HoldsNotice(w, j) /\ notice[j].lease > 0

\* process_batch claims a due job; retry delays only postpone a claim.
ClaimNotice(w, j) ==
    LET attempt == IF notice[j].attempts < MaxSends THEN notice[j].attempts + 1 ELSE MaxSends
    IN  /\ announcer[w] = Resting
        /\ Due(j)
        /\ notice' = [notice EXCEPT ![j].status = "processing", ![j].owner = w,
                                    ![j].lease = NoticeLease, ![j].attempts = attempt]
        /\ announcer' = [announcer EXCEPT ![w] =
             [notice |-> j, stage |-> "loading", attempt |-> attempt]]
        /\ UNCHANGED subject

\* Whether the statement that loads the recipient and the context finds a row.
Loadable(w, j) ==
    /\ subject[j] = "live"
    /\ notice[j].kind # "invitation" => LeasesNotice(w, j)

\* deliver up to the lease check: nothing found is a rejection, a failed
\* statement or decryption leaves the job to be retried.
LoadNotice(w) ==
    /\ announcer[w].stage = "loading"
    /\ \E stage \in {IF Loadable(w, announcer[w].notice) THEN "renewing" ELSE "rejected",
                     "unavailable"} :
         announcer' = [announcer EXCEPT ![w].stage = stage]
    /\ UNCHANGED <<notice, subject>>

\* Mutant of Renewable: the lease is not looked at again before the call.
RenewableAlways(w, j) == TRUE

\* The WHERE clause of renew_lease.
Renewable(w, j) == LeasesNotice(w, j)

\* ensure_current_lease.
RenewNotice(w) ==
    LET j == announcer[w].notice IN
    /\ announcer[w].stage = "renewing"
    /\ IF Renewable(w, j)
       THEN /\ notice' = [notice EXCEPT ![j].lease = NoticeLease]
            /\ announcer' = [announcer EXCEPT ![w].stage = "sending"]
       ELSE /\ announcer' = [announcer EXCEPT ![w].stage = "unavailable"]
            /\ UNCHANGED notice
    /\ UNCHANGED subject

\* send_invitation and send_security_notice.
SendNotice(w) ==
    /\ announcer[w].stage = "sending"
    /\ \E result \in ProviderResult :
         announcer' = [announcer EXCEPT ![w].stage = result]
    /\ UNCHANGED <<notice, subject>>

\* Mutant of Recordable: the outcome is written whoever holds the job.
RecordableByAnyone(w, j) == TRUE

\* The WHERE clause of record_success and record_failure.
Recordable(w, j) == HoldsNotice(w, j)

\* record_success and record_failure: an unavailable provider is retried until
\* the attempts are used up, a rejection is final.
RecordOutcome(w) ==
    LET j == announcer[w].notice
        outcome == CASE announcer[w].stage = "ok" -> "sent"
                     [] announcer[w].stage = "unavailable"
                        /\ announcer[w].attempt < MaxSends -> "pending"
                     [] OTHER -> "failed" IN
    /\ announcer[w].stage \in ProviderResult
    /\ notice' = IF Recordable(w, j)
                 THEN [notice EXCEPT ![j].status = outcome, ![j].owner = Unleased,
                                     ![j].lease = 0]
                 ELSE notice
    /\ announcer' = [announcer EXCEPT ![w] = Resting]
    /\ UNCHANGED subject

\* The instance stops, or the statement that records the outcome fails.
AbandonNotice(w) ==
    /\ announcer[w] # Resting
    /\ announcer' = [announcer EXCEPT ![w] = Resting]
    /\ UNCHANGED <<notice, subject>>

NotificationTick ==
    /\ \E j \in Notices : notice[j].lease > 0
    /\ notice' = [j \in Notices |-> [notice[j] EXCEPT !.lease = Elapsed(@)]]
    /\ UNCHANGED <<subject, announcer>>

NotificationNext ==
    \/ \E j \in Notices, kind \in NoticeKinds : QueueNotice(j, kind)
    \/ \E j \in Notices : RevokeSubject(j)
    \/ \E j \in Notices : ExpireSubject(j)
    \/ \E w \in Announcers, j \in Notices : ClaimNotice(w, j)
    \/ \E w \in Announcers : LoadNotice(w)
    \/ \E w \in Announcers : RenewNotice(w)
    \/ \E w \in Announcers : SendNotice(w)
    \/ \E w \in Announcers : RecordOutcome(w)
    \/ \E w \in Announcers : AbandonNotice(w)
    \/ NotificationTick

NotificationSpec == NotificationInit /\ [][NotificationNext]_noticeVars
----------------------------------------------------------------------------
(* Properties *)

\* A job that was sent, failed or cancelled stays so: a worker that comes back
\* after it lost its lease, or after the invitation was revoked, overwrites nothing.
AnnouncementFinal ==
    \A j \in Notices : notice[j].status \in {"sent", "failed", "cancelled"} =>
       notice'[j].status = notice[j].status

\* Once an invitation is revoked no worker begins to announce it: the lease check
\* just before the provider call meets the cancelled job.
RevokedNotAnnounced ==
    \A w \in Announcers :
       announcer[w].stage = "renewing" /\ announcer'[w].stage = "sending" =>
          subject[announcer[w].notice] # "revoked"

\* A worker that lost its lease overwrites no outcome of a notification, and none
\* announces what was revoked before its last look.
NotificationSound == [][AnnouncementFinal /\ RevokedNotAnnounced]_noticeVars
=============================================================================
