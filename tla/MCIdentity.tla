----------------------------- MODULE MCIdentity -----------------------------
(***************************************************************************)
(* How carbons and silicons prove who they are, and the limits on how      *)
(* often they may try, each component on a small instance of its own.  The *)
(* first step chooses one (focus), whose actions then are the only ones;   *)
(* the variables of the others keep their initial values.  The properties  *)
(* are the components' own.                                                *)
(*                                                                         *)
(* One key of LoginChallenge logs in with an email address, one with a     *)
(* phone number and one with the handle, which resolves to both.           *)
(***************************************************************************)
EXTENDS LoginChallenge, SignupSession, StepUpChallenge, CliSession,
        OboProof, SiliconRotation, SingleSignOn, RateLimit, TLC

CONSTANTS a1, a2, b1, b2

VARIABLE focus  \* the component that is checked

all == <<focus, loginVars, signupVars, stepUpVars, cliVars, vars, rotationVars, ssoVars,
         rateVars>>

Symmetry == Permutations({a1, a2}) \cup Permutations({b1, b2})

\* Each of two sessions may ask for codes to the same address and the same number, and
\* correct the address.
SignupRequests == {a1, a2} \X {"email", "phone", "other"}
SignupAsking == [k \in SignupRequests |-> k[1]]
ContactAsked == [k \in SignupRequests |->
    CASE k[2] = "email" -> "e1" [] k[2] = "phone" -> "p1" [] k[2] = "other" -> "e2"]

\* Bound: the two sessions rival for one address and one number, their messages are
\* delivered one at a time and their guesses are right.
RivalsBound ==
    /\ \A e \in Entries : entry'[e].status # "absent" => askedBy'[e][2] # "other"
    /\ \A s \in Signups : contactKey'[<<s, "other">>] = "none"
    /\ \A s \in Signups, kind \in ContactKinds : entryWrong'[s][kind] = 0
    /\ \A e \in Entries : entryAttempts'[e].cooldown = 0
    /\ Cardinality({e \in Entries : entryTask'[e] # "idle"}) <= 1
    /\ \A e \in Entries : entryBatch'[e] \in {"none", "ok"}

\* Bound: one session asks for up to three codes to two addresses.
RetriesBound ==
    /\ \A e \in Entries : entry'[e].status # "absent" => e <= 3 /\ askedBy'[e][2] # "phone"
    /\ Cardinality({s \in Signups : signup'[s].status # "absent"}) <= 1

\* Two requests of one session for one act, whose codes replace each other, and one of
\* another session for an act of its own.
SessionPerRequest == "k1" :> "s1" @@ "k2" :> "s1" @@ "k3" :> "s2"
TargetPerRequest == "k1" :> "t1" @@ "k2" :> "t1" @@ "k3" :> "t2"

\* Bound: setup links are made before the first sign-in.
SsoBound == setup' => \A a \in Attempts : attempt'[a] = NoAttempt

\* A burst of two, a burst of one, and two in a fixed window, of two ticks each.
Limits ==
    {[kind |-> "burst", maximum |-> 2, window |-> 2, block |-> 2],
     [kind |-> "burst", maximum |-> 1, window |-> 2, block |-> 2],
     [kind |-> "fixed", maximum |-> 2, window |-> 2, block |-> 2]}

\* The limit in force makes no difference to the other components.
RateIdle == RateInit /\ policy = Burst(1, 2)

IdentityInit ==
    /\ focus \in {"login", "rivals", "retries", "step_up",
                 "command_line", "single_sign_on", "on_behalf_of", "rotation", "limits"}
    /\ LoginInit /\ SignupInit /\ StepUpInit /\ CliInit /\ Init /\ RotationInit /\ SingleSignOnInit
    /\ IF focus = "limits" THEN RateInit ELSE RateIdle

IdentityNext ==
    /\ UNCHANGED focus
    /\ \/ focus = "login" /\ LoginNext
            /\ UNCHANGED <<signupVars, stepUpVars, cliVars, vars, rotationVars, ssoVars, rateVars>>
       \/ focus = "rivals" /\ SignupNext /\ RivalsBound
            /\ UNCHANGED <<loginVars, stepUpVars, cliVars, vars, rotationVars, ssoVars, rateVars>>
       \/ focus = "retries" /\ SignupNext /\ RetriesBound
            /\ UNCHANGED <<loginVars, stepUpVars, cliVars, vars, rotationVars, ssoVars, rateVars>>
       \/ focus = "step_up" /\ StepUpNext
            /\ UNCHANGED <<loginVars, signupVars, cliVars, vars, rotationVars, ssoVars, rateVars>>
       \/ focus = "command_line" /\ CliNext
            /\ UNCHANGED <<loginVars, signupVars, stepUpVars, vars, rotationVars, ssoVars, rateVars>>
       \/ focus = "single_sign_on" /\ SingleSignOnNext /\ SsoBound
            /\ UNCHANGED <<loginVars, signupVars, stepUpVars, cliVars, vars, rotationVars, rateVars>>
       \/ focus = "on_behalf_of" /\ Next
            /\ UNCHANGED <<loginVars, signupVars, stepUpVars, cliVars, rotationVars, ssoVars, rateVars>>
       \/ focus = "rotation" /\ RotationNext
            /\ UNCHANGED <<loginVars, signupVars, stepUpVars, cliVars, vars, ssoVars, rateVars>>
       \/ focus = "limits" /\ RateNext
            /\ UNCHANGED <<loginVars, signupVars, stepUpVars, cliVars, vars, rotationVars, ssoVars>>

IdentitySpec == IdentityInit /\ [][IdentityNext]_all
=============================================================================
