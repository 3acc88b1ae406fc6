------------------------------- MODULE Routing -------------------------------
(* Access control (billing/routing.go, access_control.go, credential_migration.go): what
   operators configure of routes, key groups and keys, and the models and credentials that
   a key may use under it. Every edit is one transaction that is saved before it is
   published, or changes nothing. Lists whose order decides nothing are sets here. *)
EXTENDS FiniteSets, Naturals

CONSTANTS
    Keys, Routes, Groups, Models, Credentials,
    ProviderOf,     \* the category of each credential; Unknown where CPA does not tell
    Unknown,
    RouteRules,     \* the rules an operator writes for routes,
    KeyRules,       \* for keys,
    GroupChoices,   \* and for groups, each with a mode and its switch
    AccessChoices,  \* settings of access control
    Rotations,      \* pairs of an old credential and its replacement
    Absent

VARIABLES
    access,         \* AccessControl
    route, group, key,
    rotating        \* replacements that are prepared and not completed

routingVars == <<access, route, group, key, rotating>>

Providers == {ProviderOf[c] : c \in Credentials} \ {Unknown}
Rule ==
    [models : SUBSET Models, creds : SUBSET Credentials, providers : SUBSET Providers,
     noModels : SUBSET Models, noCreds : SUBSET Credentials, noProviders : SUBSET Providers]
EmptyRule ==
    [models |-> {}, creds |-> {}, providers |-> {}, noModels |-> {}, noCreds |-> {}, noProviders |-> {}]
Modes == {"ordinary", "exclusive", "common"}

(* A group, and what a key is bound to (KeyState). *)
GroupRecord == [disabled : BOOLEAN, mode : Modes, rule : Rule, routes : SUBSET Routes]
KeyRecord ==
    [deleted : BOOLEAN, groups : SUBSET Groups, routes : SUBSET Routes, configured : BOOLEAN, rule : Rule]

ASSUME RoutingAssumption ==
    /\ IsFiniteSet(Keys) /\ IsFiniteSet(Groups)
    /\ RouteRules \subseteq Rule /\ KeyRules \subseteq Rule
    /\ GroupChoices \subseteq [disabled : BOOLEAN, mode : Modes, rule : Rule]
    /\ AccessChoices \subseteq [enabled : BOOLEAN, denyUngrouped : BOOLEAN]
    /\ Rotations \subseteq {p \in Credentials \X Credentials : p[1] # p[2] /\ ProviderOf[p[1]] = ProviderOf[p[2]]}
    /\ Absent \notin Rule /\ Absent \notin GroupRecord
-----------------------------------------------------------------------------
(* Resolution. *)

Present(choice) == {x \in DOMAIN choice : choice[x] # Absent}

Merged(rules) ==
    [models |-> UNION {r.models : r \in rules}, creds |-> UNION {r.creds : r \in rules},
     providers |-> UNION {r.providers : r \in rules}, noModels |-> UNION {r.noModels : r \in rules},
     noCreds |-> UNION {r.noCreds : r \in rules}, noProviders |-> UNION {r.noProviders : r \in rules}]

EnabledGroups(groups) == {g \in groups \cap Present(group) : ~group[g].disabled}
Exclusives(groups) == {g \in EnabledGroups(groups) : group[g].mode = "exclusive"}
Conflicting(groups) == Cardinality(Exclusives(groups)) > 1

(* One exclusive group replaces the ordinary ones; common groups stay. *)
EffectiveGroups(groups) ==
    {g \in EnabledGroups(groups) : Exclusives(groups) = {} \/ group[g].mode # "ordinary"}
GrantsAccess(g) == group[g].routes # {} \/ group[g].rule # EmptyRule

(* What a grant, a group or a key with its routes, says. *)
Unit(routes, rule) == Merged({route[r] : r \in routes \cap Present(route)} \cup {rule})
GroupUnit(g) == Unit(group[g].routes, group[g].rule)
OwnUnit(K) == Unit(K.routes, K.rule)
Grants(u) == u.creds # {} \/ u.providers # {}

(* The grants that list no models, where others list some: none, where a grant that lists
   models names no credentials and so limits every grant. *)
OpenAlways(units) == Merged({u \in units : u.models = {}})   \* whatever the others list
OpenGrant(units) ==
    IF /\ \A u \in units : u.models # {} => Grants(u)
       /\ \E u \in units : u.models # {}
    THEN Merged({u \in units : u.models = {}}) ELSE EmptyRule
HasOpen(open) == Grants(open)

(* RoutingDecision, before the model is known. *)
Unrestricted ==
    [error |-> FALSE, denied |-> FALSE, require |-> FALSE, rule |-> EmptyRule,
     constraint |-> Absent, open |-> EmptyRule, paired |-> {}]
Refused == [Unrestricted EXCEPT !.denied = TRUE]
Unresolved == [Unrestricted EXCEPT !.error = TRUE]

(* Under an exclusive group the key's own rule is no grant. It narrows the models, and the
   credentials unless it is untouched or empty. *)
Constraint(K) ==
    LET own == OwnUnit(K)
        cleared == K.routes = {} /\ K.rule = EmptyRule
    IN IF (K.configured /\ ~cleared) \/ Grants(own) THEN own ELSE Absent

NarrowedModels(base, own) ==
    CASE own = {} -> base
      [] own # {} /\ base = {} -> own
      [] OTHER -> base \cap own

ExclusiveDecision(K, units) ==
    LET own == OwnUnit(K)
        base == Merged(units)
        open == OpenGrant(units)
        rule == [base EXCEPT !.noModels = @ \cup own.noModels, !.noCreds = @ \cup own.noCreds,
                             !.noProviders = @ \cup own.noProviders]
        models == NarrowedModels(base.models, own.models)
        decision == [Unrestricted EXCEPT !.require = TRUE, !.constraint = Constraint(K)]
    IN IF HasOpen(open)
       THEN [decision EXCEPT !.rule = [rule EXCEPT !.models = own.models], !.open = open, !.paired = models]
       ELSE IF base.models # {} /\ models = {} THEN Refused
       ELSE [decision EXCEPT !.rule = [rule EXCEPT !.models = models]]

CombinedDecision(K, units) ==
    LET base == Merged(units \cup {OwnUnit(K)})
        open == OpenGrant(units \cup {OwnUnit(K)})
        managed == K.configured \/ K.groups # {} \/ K.routes # {} \/ K.rule # EmptyRule
        decision == [Unrestricted EXCEPT !.require = managed, !.rule = base]
    IN IF HasOpen(open) THEN [decision EXCEPT !.rule.models = {}, !.open = open, !.paired = base.models]
       ELSE decision

(* resolveRoutingState, for a key. *)
Resolve(K) ==
    LET groups == K.groups
        effective == EffectiveGroups(groups)
        bound == K.routes \cup UNION {group[g].routes : g \in effective}
        units == {GroupUnit(g) : g \in effective}
    IN CASE ~access.enabled -> Unrestricted
         [] access.enabled /\ groups = {} /\ access.denyUngrouped -> Refused
         [] access.enabled /\ (~(groups \subseteq Present(group)) \/ Conflicting(groups)) -> Unresolved
         [] OTHER ->
              IF groups # {} /\ \A g \in effective : ~GrantsAccess(g) THEN Refused
              ELSE IF ~(bound \subseteq Present(route)) THEN Unresolved
              ELSE IF Exclusives(groups) # {} THEN ExclusiveDecision(K, units)
              ELSE CombinedDecision(K, units)

(* A model that only an open grant covers may use that grant's credentials alone. *)
NarrowedTo(d, m) ==
    IF HasOpen(d.open) /\ m \notin d.paired
    THEN [d EXCEPT !.rule.creds = d.open.creds, !.rule.providers = d.open.providers] ELSE d

AllowsModel(d, m) ==
    /\ ~d.error /\ ~d.denied
    /\ m \notin d.rule.noModels
    /\ d.rule.models = {} \/ m \in d.rule.models

(* A credential of unknown category may be of any that is denied, and is of none that is
   allowed. *)
Denies(rule, c) ==
    \/ c \in rule.noCreds
    \/ rule.noProviders # {} /\ ProviderOf[c] = Unknown
    \/ ProviderOf[c] \in rule.noProviders
Lists(rule, c) == c \in rule.creds \/ ProviderOf[c] \in rule.providers
RuleAllows(rule, c, require) == ~Denies(rule, c) /\ (Lists(rule, c) \/ (~require /\ ~Grants(rule)))

AllowsCredential(d, c) ==
    /\ ~d.error /\ ~d.denied
    /\ d.constraint = Absent \/ RuleAllows(d.constraint, c, TRUE)
    /\ RuleAllows(d.rule, c, d.require)

(* What a request of the key for the model may be sent with. *)
AllowedUnder(d, m, c) == AllowsModel(NarrowedTo(d, m), m) /\ AllowsCredential(NarrowedTo(d, m), c)
Allowed(K, m, c) == AllowedUnder(Resolve(K), m, c)
-----------------------------------------------------------------------------
(* Edits of routes. *)

Live(k) == ~key[k].deleted

CreateRoute(r, rule, scopes) ==
    /\ route[r] = Absent
    /\ \A k \in scopes : Live(k)
    /\ route' = [route EXCEPT ![r] = rule]
    /\ key' = [k \in Keys |-> IF k \in scopes THEN [key[k] EXCEPT !.routes = @ \cup {r}] ELSE key[k]]
    /\ UNCHANGED <<access, group, rotating>>

(* The keys that are to have the route; one that was deleted may only keep it. *)
UpdateRoute(r, rule, scopes) ==
    /\ route[r] # Absent
    /\ \A k \in scopes : Live(k) \/ r \in key[k].routes
    /\ route' = [route EXCEPT ![r] = rule]
    /\ key' = [k \in Keys |-> [key[k] EXCEPT !.routes = IF k \in scopes THEN @ \cup {r} ELSE @ \ {r}]]
    /\ UNCHANGED <<access, group, rotating>>

DeleteRouteAnyway(r) ==     \* forgets the groups
    /\ route[r] # Absent
    /\ route' = [route EXCEPT ![r] = Absent]
    /\ key' = [k \in Keys |-> [key[k] EXCEPT !.routes = @ \ {r}]]
    /\ UNCHANGED <<access, group, rotating>>

DeleteRoute(r) ==
    /\ route[r] # Absent
    /\ \A g \in Present(group) : r \notin group[g].routes
    /\ route' = [route EXCEPT ![r] = Absent]
    /\ key' = [k \in Keys |-> [key[k] EXCEPT !.routes = @ \ {r}]]
    /\ UNCHANGED <<access, group, rotating>>

SetKeyRoutes(k, routes, rule) ==
    /\ Live(k) /\ routes \subseteq Present(route)
    /\ key' = [key EXCEPT ![k].routes = routes, ![k].rule = rule, ![k].configured = TRUE]
    /\ UNCHANGED <<access, route, group, rotating>>
-----------------------------------------------------------------------------
(* Edits of groups. An edit after which some key it touched is in two enabled exclusive
   groups is refused. *)

Members(keys, g) == {k \in Keys : g \in keys[k].groups}
ConflictIn(groups, ids) ==
    Cardinality({g \in ids : groups[g] # Absent /\ ~groups[g].disabled /\ groups[g].mode = "exclusive"}) > 1
NoConflict(groups, keys, touched) == \A k \in touched : ~ConflictIn(groups, keys[k].groups)
GroupOf(choice, routes) ==
    [disabled |-> choice.disabled, mode |-> choice.mode, rule |-> choice.rule, routes |-> routes]
WithMembers(g, scopes) ==
    [k \in Keys |-> [key[k] EXCEPT !.groups = IF k \in scopes THEN @ \cup {g} ELSE @ \ {g}]]

CreateGroup(g, choice, routes, scopes) ==
    /\ group[g] = Absent
    /\ routes \subseteq Present(route)
    /\ \A k \in scopes : Live(k)
    /\ group' = [group EXCEPT ![g] = GroupOf(choice, routes)]
    /\ key' = [k \in Keys |-> IF k \in scopes THEN [key[k] EXCEPT !.groups = @ \cup {g}] ELSE key[k]]
    /\ NoConflict(group', key', scopes)
    /\ UNCHANGED <<access, route, rotating>>

UpdateGroup(g, choice, routes, scopes) ==
    /\ group[g] # Absent
    /\ routes \subseteq Present(route)
    /\ \A k \in scopes : Live(k) \/ g \in key[k].groups
    /\ group' = [group EXCEPT ![g] = GroupOf(choice, routes)]
    /\ key' = WithMembers(g, scopes)
    /\ NoConflict(group', key', Members(key', g))
    /\ UNCHANGED <<access, route, rotating>>

DeleteGroup(g) ==
    /\ group[g] # Absent
    /\ group' = [group EXCEPT ![g] = Absent]
    /\ key' = WithMembers(g, {})
    /\ UNCHANGED <<access, route, rotating>>

SetKeyGroups(scopes, groups) ==
    /\ scopes # {} /\ groups \subseteq Present(group)
    /\ \A k \in scopes : Live(k)
    /\ key' = [k \in Keys |-> IF k \in scopes THEN [key[k] EXCEPT !.groups = groups] ELSE key[k]]
    /\ NoConflict(group, key', scopes)
    /\ UNCHANGED <<access, route, group, rotating>>

SetAccessControl(settings) ==
    /\ access' = settings
    /\ UNCHANGED <<route, group, key, rotating>>

(* SyncKeys: a key leaves CPA's configuration or comes back, with what it was bound to. *)
SyncKey(k) ==
    /\ key' = [key EXCEPT ![k].deleted = ~@]
    /\ UNCHANGED <<access, route, group, rotating>>
-----------------------------------------------------------------------------
(* Replacement of a credential, prepared with both and then completed with the new. *)

Replaced(refs, old, new, complete) ==
    (IF old \in refs THEN refs \cup {new} ELSE refs) \ (IF complete THEN {old} ELSE {})
GrantsReplaced(rule, old, new, complete) ==     \* denials stay behind
    [rule EXCEPT !.creds = Replaced(@, old, new, complete)]
RuleReplaced(rule, old, new, complete) ==
    [rule EXCEPT !.creds = Replaced(@, old, new, complete), !.noCreds = Replaced(@, old, new, complete)]

MigrateRefs(pair, complete) ==
    LET old == pair[1]
        new == pair[2]
    IN /\ (pair \in rotating) = complete
       /\ route' = [r \in Routes |-> IF route[r] = Absent THEN Absent ELSE RuleReplaced(route[r], old, new, complete)]
       /\ group' = [g \in Groups |-> IF group[g] = Absent THEN Absent
                                     ELSE [group[g] EXCEPT !.rule = RuleReplaced(@, old, new, complete)]]
       /\ key' = [k \in Keys |-> [key[k] EXCEPT !.rule = RuleReplaced(@, old, new, complete)]]
       /\ rotating' = IF complete THEN rotating \ {pair} ELSE rotating \cup {pair}
       /\ UNCHANGED access
-----------------------------------------------------------------------------
NewKey == [deleted |-> FALSE, groups |-> {}, routes |-> {}, configured |-> FALSE, rule |-> EmptyRule]

RoutingInit ==
    /\ access = [enabled |-> TRUE, denyUngrouped |-> FALSE]
    /\ route = [r \in Routes |-> Absent]
    /\ group = [g \in Groups |-> Absent]
    /\ key = [k \in Keys |-> NewKey]
    /\ rotating = {}

RouteEdit ==
    \/ \E r \in Routes, rule \in RouteRules, scopes \in SUBSET Keys :
          CreateRoute(r, rule, scopes) \/ UpdateRoute(r, rule, scopes)
    \/ \E r \in Routes : DeleteRoute(r)
    \/ \E k \in Keys, routes \in SUBSET Routes, rule \in KeyRules : SetKeyRoutes(k, routes, rule)

GroupEdit ==
    \/ \E g \in Groups, choice \in GroupChoices, routes \in SUBSET Routes, scopes \in SUBSET Keys :
          CreateGroup(g, choice, routes, scopes) \/ UpdateGroup(g, choice, routes, scopes)
    \/ \E g \in Groups : DeleteGroup(g)
    \/ \E scopes \in SUBSET Keys, groups \in SUBSET Groups : SetKeyGroups(scopes, groups)

RoutingNext ==
    \/ RouteEdit \/ GroupEdit
    \/ \E settings \in AccessChoices : SetAccessControl(settings)
    \/ \E k \in Keys : SyncKey(k)
    \/ \E pair \in Rotations, complete \in BOOLEAN : MigrateRefs(pair, complete)

RoutingSpec == RoutingInit /\ [][RoutingNext]_routingVars
-----------------------------------------------------------------------------
RoutingTypeOK ==
    /\ access \in [enabled : BOOLEAN, denyUngrouped : BOOLEAN]
    /\ route \in [Routes -> Rule \cup {Absent}]
    /\ group \in [Groups -> GroupRecord \cup {Absent}]
    /\ key \in [Keys -> KeyRecord]
    /\ rotating \subseteq Rotations

(* No edit leaves a key, a deleted one included, whose rules cannot be resolved: bound to a
   route or a group that is gone, or in two exclusive groups at once
   (access_control.go:161-168, routing.go:654). *)
RoutingResolves ==
    \A k \in Keys : key[k].routes # {} \/ key[k].groups # {} => ~Resolve(key[k]).error

(* The grants that count for a key: those of its groups in effect, and its own. *)
UnitsOf(K) ==
    {GroupUnit(g) : g \in EffectiveGroups(K.groups)}
    \cup (IF Exclusives(K.groups) = {} THEN {OwnUnit(K)} ELSE {})

(* A denial of any rule that counts, the key's own always does, wins over every grant of
   the others (routing.go:588-590). *)
DenialsWin ==
    access.enabled =>
        \A k \in Keys :
            LET d == Resolve(key[k]) IN
            \A u \in UnitsOf(key[k]) \cup {OwnUnit(key[k])}, m \in Models, c \in Credentials :
                m \in u.noModels \/ Denies(u, c) => ~AllowedUnder(d, m, c)

(* What a managed key may use was granted to it: the credential by a grant that counts, and the
   model with it, unless that grant lists no models; but a grant that lists models and names no
   credentials limits all of them (routing.go:53-56, 744-746). *)
AccessIsGranted ==
    access.enabled =>
        \A k \in {k \in Keys : key[k].groups # {} \/ key[k].configured} :
            LET d == Resolve(key[k])
                units == UnitsOf(key[k])
            IN \A m \in Models, c \in Credentials :
                  AllowedUnder(d, m, c) =>
                    \E u \in units :
                        /\ Lists(u, c)
                        /\ \/ \E v \in units : m \in v.models
                           \/ u.models = {} /\ \A v \in units : v.models # {} => Grants(v)

(* Under an exclusive group the rules of the key itself never widen what it could use with
   none (routing.go:617-620, README.en.md:191). *)
Cleared(K) == [K EXCEPT !.routes = {}, !.rule = EmptyRule]
OwnRulesOnlyNarrow ==
    access.enabled =>
        \A k \in {k \in Keys : Exclusives(key[k].groups) # {}} :
            LET d == Resolve(key[k])
                cleared == Resolve(Cleared(key[k]))
            IN \A m \in Models, c \in Credentials : AllowedUnder(d, m, c) => AllowedUnder(cleared, m, c)

(* What a key may use follows from its rules: all of the three. *)
AccessFollowsRules == AccessIsGranted /\ DenialsWin /\ OwnRulesOnlyNarrow

(* While a credential is being replaced and when it is, no key can use the new one that
   could not use the old one, and none that could loses access, unless rules about the new
   one say so (credential_migration.go:9-14). *)
Mentions(c) ==
    \/ \E r \in Present(route) : c \in route[r].creds \cup route[r].noCreds
    \/ \E g \in Present(group) : c \in group[g].rule.creds \cup group[g].rule.noCreds
    \/ \E k \in Keys : c \in key[k].rule.creds \cup key[k].rule.noCreds
RotationCarriesAccess ==
    [][\A pair \in Rotations :
          pair \in rotating' /\ pair \notin rotating /\ ~Mentions(pair[2]) =>
              \A k \in Keys, m \in Models : Allowed(key[k], m, pair[1]) <=> Allowed(key[k], m, pair[2])']_routingVars
=============================================================================
