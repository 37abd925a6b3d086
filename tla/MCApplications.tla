--------------------------- MODULE MCApplications ---------------------------
(***************************************************************************)
(* Applications, the scopes they are granted, what they learn of tokens,   *)
(* and their testing environments, each on a small instance of its own.    *)
(* The first step chooses one (focus), whose actions then are the only     *)
(* ones; the variables of the others keep their initial values.  The       *)
(* properties are the components' own.                                     *)
(***************************************************************************)
EXTENDS ApplicationScopes, ScopedTokens, Introspection, TestingEnvironment, TestingCreation, TestApplication, TLC

CONSTANTS a1, a2, b1, b2

VARIABLE focus  \* the component that is checked

all == <<focus, applicationScopeVars, scopedTokenVars, introspectionVars,
         testingVars, creationVars, testAppVars>>

Symmetry == Permutations({a1, a2}) \cup Permutations({b1, b2})

\* One scope of another application, one that Honeycomb itself reviews.
ProviderOfScope == "a" :> "p" @@ "b" :> "honeycomb"

\* One root with no other dependency.
GraphOfRoot == "a" :> {"a"}

\* Where a component starts makes no difference to the others.
ScopesIdle == ApplicationScopesInit /\ client.visibility = "private" /\ client.scope = {"b"} /\ critical = AppScopes
TokensIdle == ScopedTokensInit /\ allowed = {}
IntrospectionIdle == IntrospectionInit /\ access.org = NoOrg /\ consent.selected = {}
AppsIdle == TestAppInit /\ source = [a \in Apps |-> 0]

Init ==
    /\ focus \in {"scopes", "tokens", "introspection", "environment", "creation", "import"}
    /\ TestingInit /\ CreationInit
    /\ IF focus = "scopes" THEN ApplicationScopesInit ELSE ScopesIdle
    /\ IF focus = "tokens" THEN ScopedTokensInit ELSE TokensIdle
    /\ IF focus = "introspection" THEN IntrospectionInit ELSE IntrospectionIdle
    /\ IF focus = "import" THEN TestAppInit ELSE AppsIdle

Next ==
    /\ UNCHANGED focus
    /\ \/ focus = "scopes" /\ ApplicationScopesNext
            /\ UNCHANGED <<scopedTokenVars, introspectionVars, testingVars,
                           creationVars, testAppVars>>
       \/ focus = "tokens" /\ ScopedTokensNext
            /\ UNCHANGED <<applicationScopeVars, introspectionVars, testingVars,
                           creationVars, testAppVars>>
       \/ focus = "introspection" /\ IntrospectionNext
            /\ UNCHANGED <<applicationScopeVars, scopedTokenVars, testingVars,
                           creationVars, testAppVars>>
       \/ focus = "environment" /\ TestingNext
            /\ UNCHANGED <<applicationScopeVars, scopedTokenVars, introspectionVars,
                           creationVars, testAppVars>>
       \/ focus = "creation" /\ CreationNext
            /\ UNCHANGED <<applicationScopeVars, scopedTokenVars, introspectionVars,
                           testingVars, testAppVars>>
       \/ focus = "import" /\ TestAppNext
            /\ UNCHANGED <<applicationScopeVars, scopedTokenVars, introspectionVars,
                           testingVars, creationVars>>

Spec == Init /\ [][Next]_all

=============================================================================
