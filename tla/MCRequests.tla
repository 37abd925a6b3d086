----------------------------- MODULE MCRequests -----------------------------
(***************************************************************************)
(* What every request of the API rests on, each on a small instance of its *)
(* own: the envelope of a mutation, the idempotency record and what a      *)
(* retry finds of it across the cutover of identities, pages of a list,    *)
(* the end of a session, and the handoff to several applications at once.  *)
(* The first step chooses one (focus), whose actions then are the only     *)
(* ones; the variables of the others keep their initial values.  The       *)
(* properties are the components' own.                                     *)
(***************************************************************************)
EXTENDS GuardedMutation, Idempotency, BundleLogin, Listing, LogoutRequest,
        ReplayCutover, TLC

CONSTANTS a1, a2, b1, b2

VARIABLE focus  \* the component that is checked

all == <<focus, mutationVars, idempotencyVars, bundleVars, listingVars, logoutVars, cutoverVars>>

Symmetry == Permutations({a1, a2}) \cup Permutations({b1, b2})

\* Two first-party credentials and two an application holds for the carbon.
MutationTokens ==
    {[holder |-> "carbon", via |-> "iam", session |-> "s1", org |-> "any", scopes |-> {}],
     [holder |-> "silicon", via |-> "iam", session |-> "none", org |-> "o1", scopes |-> {}],
     [holder |-> "carbon", via |-> "app", session |-> "s1", org |-> "o1",
      scopes |-> {"profile"}],
     [holder |-> "carbon", via |-> "app", session |-> "s1", org |-> "any",
      scopes |-> {"sso"}]}
MutationResources ==
    {<<"profile", "person">>, <<"organization", "o1">>,
     <<"sso", "o1">>, <<"environment", "o1">>}

\* Bound: of the bundle, its organization, the applications, their scopes and the
\* memberships, so many are changed in all.
MaxAround == 2
BundleBound ==
    LET changed ==
          {<<"homes", o>> : o \in Homes \ homes'}
            \cup {<<"verified", a>> : a \in BundleApps \ verified'}
            \cup {<<"version", a>> : a \in {b \in BundleApps : scopeVersion'[b] > 1}}
            \cup {<<"listed", b>> : b \in {FALSE} \cap {listed'}}
            \cup {<<"exists", b>> : b \in {FALSE} \cap {bundle'.exists}}
    IN  Cardinality(changed) <= MaxAround

\* The two carbons that retry live in different databases.
PlaneOfPrincipal == "c1" :> "production" @@ "c2" :> "testing" @@ "s1" :> "production"
NamedInRequest == "c1" :> "s1" @@ "c2" :> "c2"

IdempotencyIdle == IdempotencyInit /\ route = [kind |-> "kept", secret |-> FALSE]
BundleIdle == BundleInit /\ bundle.members = BundleApps

CutoverIdle == CutoverInit /\ claim = "shared" /\ known = {}

ListingIdle ==
    /\ listing = [order |-> "id", cursor |-> "id", stop |-> "short", renews |-> FALSE,
                  shows |-> {"active"}]
    /\ ListingInit

Init ==
    /\ focus \in {"listing", "logout", "mutation", "idempotency", "bundle", "cutover"}
    /\ MutationInit /\ BundleIdle /\ LogoutInit
    /\ IF focus = "listing" THEN ListingInit ELSE ListingIdle
    /\ IF focus = "idempotency" THEN IdempotencyInit ELSE IdempotencyIdle
    /\ IF focus = "cutover" THEN CutoverInit ELSE CutoverIdle

Next ==
    /\ UNCHANGED focus
    /\ \/ focus = "listing" /\ ListingNext
            /\ UNCHANGED <<logoutVars, mutationVars, idempotencyVars, bundleVars, cutoverVars>>
       \/ focus = "logout" /\ LogoutNext
            /\ UNCHANGED <<listingVars, mutationVars, idempotencyVars, bundleVars, cutoverVars>>
       \/ focus = "mutation" /\ MutationNext
            /\ UNCHANGED <<listingVars, logoutVars, idempotencyVars, bundleVars, cutoverVars>>
       \/ focus = "idempotency" /\ IdempotencyNext
            /\ UNCHANGED <<listingVars, logoutVars, mutationVars, bundleVars, cutoverVars>>
       \/ focus = "bundle" /\ BundleNext /\ BundleBound
            /\ UNCHANGED <<listingVars, logoutVars, mutationVars, idempotencyVars, cutoverVars>>
       \/ focus = "cutover" /\ CutoverNext
            /\ UNCHANGED <<listingVars, logoutVars, mutationVars, idempotencyVars, bundleVars>>

Spec == Init /\ [][Next]_all
=============================================================================
