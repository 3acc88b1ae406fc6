------------------------------- MODULE MCParts -------------------------------
(* Parts of the plugin that share no state with each other: a behaviour runs one of them (part),
   and those of the others keep the values they start with. *)
EXTENDS AccountSettings, Routing, Scheduler, ReferencePrices, Capture, Integration, DeviceLogin,
        ConfigUpload, RiskControl, Completion, CredentialPick, TLC

CONSTANTS Checked, u1, u2, v1, v2, a, b, c, k1, r1, m1, m2, f1, f2, c3
VARIABLE part

(* Accounts: two references, two callers, one settings file. *)
MCOwners == {u1, u2}
MCRefs == {a, b}
MCPaths == {f1}
MCLimits == {0, 1, 2}

(* Routing: a key, a route and two groups; c3 replaces the file credential a, b is an API key. *)
MCProviderOf == a :> "file" @@ b :> "api" @@ c3 :> "file"
Grant(models, creds) == [EmptyRule EXCEPT !.models = models, !.creds = creds]
MCRouteRules == {Grant({m2}, {})}
MCKeyRules == {[EmptyRule EXCEPT !.providers = {"file"}, !.noProviders = {"api"}]}
Choice(off, mode, rule) == [disabled |-> off, mode |-> mode, rule |-> rule]
MCGroupChoices ==
    {Choice(FALSE, "exclusive", Grant({m1}, {a, b})), Choice(FALSE, "common", Grant({}, {b})),
     Choice(FALSE, "ordinary", [EmptyRule EXCEPT !.noCreds = {a}]), Choice(TRUE, "exclusive", Grant({}, {a}))}
MCAccess == {[enabled |-> TRUE, denyUngrouped |-> FALSE], [enabled |-> FALSE, denyUngrouped |-> TRUE]}
MCRotations == {<<a, c3>>}

(* Prices: an entry that only some documents have, and a canonical one that contradicts another. *)
Entry(k, canonical, rate) == [key |-> k, canonical |-> canonical, rate |-> rate]
MCDocuments == {{Entry("k", FALSE, 1)}, {Entry("k", FALSE, 1), Entry("j", FALSE, 1), Entry("j", TRUE, 2)}}
MCQueries == {<<"j", "k">>}

(* Uploads: of two settings no part is the same. *)
MCContents == {<<0, 1>>, <<1, 0>>}

(* Risk control: a policy that blocks, one that only observes, one that remembers nothing. *)
Policy(blocks, words, remembers, max) ==
    [enabled |-> TRUE, blocks |-> blocks, words |-> words, remember |-> remembers, maxEvents |-> max]
MCDefaultPolicy == [Policy(FALSE, {}, TRUE, 1) EXCEPT !.enabled = FALSE]
MCPolicies == {Policy(TRUE, {"t"}, TRUE, 1), Policy(FALSE, {"t"}, FALSE, 1)}

(* Picks: a file account and one of an AI provider that candidates tell apart, and a file account
   whose source they do not tell. *)
MCClassOf ==
    LET files == [source |-> "files", provider |-> "codex"]
    IN a :> files @@ b :> [source |-> "providers", provider |-> "gemini"] @@ c3 :> files
AnyAccount == [refused |-> FALSE, require |-> FALSE, ids |-> {}, classes |-> {}, noIds |-> {}, noClasses |-> {}]
MCKeyDecisions ==
    {AnyAccount, [AnyAccount EXCEPT !.require = TRUE, !.ids = {b, c3}],
     [AnyAccount EXCEPT !.classes = {MCClassOf[a]}, !.noIds = {c3}], [AnyAccount EXCEPT !.noClasses = {MCClassOf[b]}]}
Gate(required, selected) ==
    [store |-> TRUE, suspended |-> FALSE, enabled |-> TRUE, dryRun |-> FALSE, breakout |-> TRUE,
     required |-> required, schema6 |-> TRUE, selected |-> selected, scoped |-> TRUE]
MCStateSettings ==
    {Gate(FALSE, {a}), Gate(TRUE, {a, c3}), [Gate(TRUE, {a, c3}) EXCEPT !.scoped = FALSE],
     [Gate(TRUE, {a}) EXCEPT !.dryRun = TRUE], [Gate(TRUE, {a}) EXCEPT !.schema6 = FALSE]}
Offer(accounts, usable, name, kind) == [accounts |-> accounts, usable |-> usable, name |-> name, kind |-> kind]
MCOffers ==
    {Offer({a, b, c3}, {a, b, c3}, "exact", "chat"), Offer({a, b, c3}, {a, c3}, "exact", "chat"),
     Offer({a, b}, {a, b}, "alias", "chat"), Offer({a, c3}, {a, c3}, "none", "chat"),
     Offer({a, b}, {a, b}, "exact", "image")}

MCKeys == 1..4
Symmetry == Permutations({u1, u2}) \cup Permutations({v1, v2})
-----------------------------------------------------------------------------
vars == <<part, settingsAllVars, routingVars, schedulerVars, priceVars, captureVars, integrationVars,
          loginVars, uploadVars, riskVars, completionVars, pickVars>>

Init ==
    /\ part \in Checked
    /\ SettingsInit /\ RoutingInit
    /\ SchedulerInit /\ (part # "scheduler" => \A i \in Candidates : weight[i] = 1)
    /\ PriceInit
    /\ CaptureInit /\ IntegrationInit /\ LoginInit /\ UploadInit /\ RiskInit /\ CompletionInit
    /\ PickInit /\ (part # "pick" => gates = Gate(FALSE, {a}) /\ decision = AnyAccount)

Others(name) ==
    /\ UNCHANGED part
    /\ name # "accounts" => UNCHANGED settingsAllVars
    /\ name # "routing" => UNCHANGED routingVars
    /\ name # "scheduler" => UNCHANGED schedulerVars
    /\ name # "prices" => UNCHANGED priceVars
    /\ name # "capture" => UNCHANGED captureVars
    /\ name # "integration" => UNCHANGED integrationVars
    /\ name # "login" => UNCHANGED loginVars
    /\ name # "upload" => UNCHANGED uploadVars
    /\ name # "risk" => UNCHANGED riskVars
    /\ name # "completion" => UNCHANGED completionVars
    /\ name # "pick" => UNCHANGED pickVars

Next ==
    \/ part = "accounts" /\ Others("accounts") /\ SettingsNext
    \/ part = "routing" /\ Others("routing") /\ RoutingNext
    \/ part = "scheduler" /\ Others("scheduler") /\ SchedulerNext
    \/ part = "prices" /\ Others("prices") /\ PriceNext
    \/ part = "capture" /\ Others("capture") /\ CaptureNext
    \/ part = "integration" /\ Others("integration") /\ IntegrationNext
    \/ part = "login" /\ Others("login") /\ LoginNext
    \/ part = "upload" /\ Others("upload") /\ UploadNext
    \/ part = "risk" /\ Others("risk") /\ RiskNext
    \/ part = "completion" /\ Others("completion") /\ CompletionNext
    \/ part = "pick" /\ Others("pick") /\ PickNext

Spec == Init /\ [][Next]_vars
=============================================================================
