--------------------------- MODULE CredentialPick ---------------------------
(* The choice of an upstream account and the check of the account that was chosen
   (plugin/scheduler.go, routing_enforcement.go, account_runtime.go, intercept.go): CPA asks
   before it authenticates a request, with the accounts it could use and the model's name as
   the client wrote it, and again once an account and the upstream model are known. Rules,
   templates and switches may change in between. Which of several eligible accounts takes its
   turn is Scheduler; here any of them may. *)
EXTENDS FiniteSets

CONSTANTS
    Accounts,
    ClassOf,        \* source and provider of each account
    Classified,     \* accounts whose candidates tell their source (credentialSourceFromCandidate)
    KeyDecisions,   \* routing decisions the caller's key may have
    StateSettings,  \* what decides of Turn State and its gate
    Offers,         \* what CPA offers for a request: accounts, the usable ones, a name, a kind
    NoPick

VARIABLES
    gates,          \* one of StateSettings
    decision,       \* one of KeyDecisions
    templated,      \* accounts with a usable template for the request's upstream model
    inventory,      \* App.credentials: accounts whose class the plugin knows
    picked          \* the request under way

pickVars == <<gates, decision, templated, inventory, picked>>

Class == [source : {"files", "providers", ""}, provider : {ClassOf[c].provider : c \in Accounts} \cup {""}]
Selector == {class \in Class : class.source # "" /\ class.provider # ""}     \* what a rule may name

RoutingDecisions ==
    [refused : BOOLEAN, require : BOOLEAN, ids : SUBSET Accounts, classes : SUBSET Selector,
     noIds : SUBSET Accounts, noClasses : SUBSET Selector]
ASSUME PickAssumption ==
    /\ IsFiniteSet(Accounts) /\ Classified \subseteq Accounts
    /\ ClassOf \in [Accounts -> Class]
    /\ KeyDecisions \subseteq RoutingDecisions
    /\ StateSettings \subseteq [store : BOOLEAN, suspended : BOOLEAN, enabled : BOOLEAN, dryRun : BOOLEAN,
                                breakout : BOOLEAN, required : BOOLEAN, schema6 : BOOLEAN,
                                selected : SUBSET Accounts, scoped : BOOLEAN]
    /\ Offers \subseteq [accounts : SUBSET Accounts, usable : SUBSET Accounts,
                         name : {"exact", "alias", "none"}, kind : {"chat", "image", "helper"}]
    /\ \A offer \in Offers : offer.usable \subseteq offer.accounts
-----------------------------------------------------------------------------
(* RoutingDecision. What is not known of an account's class may match any denial. *)
Restricts(d) ==
    d.refused \/ d.require \/ \E list \in {d.ids, d.classes, d.noIds, d.noClasses} : list # {}
Matches(class, selector) ==
    class.source \in {"", selector.source} /\ class.provider \in {"", selector.provider}
Permits(d, c, class) ==
    /\ ~d.refused /\ c \notin d.noIds
    /\ \A selector \in d.noClasses : ~Matches(class, selector)
    /\ (~d.require /\ d.ids = {} /\ d.classes = {}) \/ c \in d.ids \/ class \in d.classes

(* The class the candidate tells, and the one the inventory knows. *)
ToldClass(c) == IF c \in Classified THEN ClassOf[c] ELSE [ClassOf[c] EXCEPT !.source = ""]
KnownClass(c) == IF c \in inventory THEN ClassOf[c] ELSE [source |-> "", provider |-> ""]
-----------------------------------------------------------------------------
(* What Turn State answers of an account under a name. An alias is in no scope and has no
   template; no name at all cannot prove that it is out of scope. *)
InScopeAs(name, c) == c \in gates.selected /\ gates.scoped /\ name = "exact"
TemplateReady(name, c) == c \in templated /\ name = "exact"
Protects(name, c) == c \in gates.selected /\ (name = "none" \/ InScopeAs(name, c))
Injects == gates.enabled /\ ~gates.dryRun
BusinessReady(name, c) == Protects(name, c) => Injects /\ TemplateReady(name, c)
StaleBucket(name, c) == ~gates.suspended /\ Injects /\ InScopeAs(name, c) /\ ~TemplateReady(name, c)
BreakoutReady(name, c) ==
    gates.breakout /\ ~gates.suspended /\ Injects /\ InScopeAs(name, c) /\ TemplateReady(name, c)
GateClosed == ~gates.suspended /\ gates.required
-----------------------------------------------------------------------------
(* pickCredential. *)
Guarded(offer) == offer.kind = "chat" /\ GateClosed /\ gates.selected # {}
Steered(offer, c) == offer.kind = "chat" /\ ~Guarded(offer) /\ StaleBucket(offer.name, c)

Admissible(offer) ==
    {c \in offer.usable :
        /\ Permits(decision, c, ToldClass(c))
        /\ (Guarded(offer) /\ Protects(offer.name, c)) => (gates.schema6 /\ BusinessReady(offer.name, c))}

(* Those that are better, if there are any. *)
AnyOf(some, better) == some     \* the preference left out
Rather(some, better) == IF some \cap better # {} THEN some \cap better ELSE some
Sure(offer) == {c \in Accounts : Guarded(offer) /\ c \in gates.selected => TemplateReady(offer.name, c)}
NotStale(offer) == {c \in Accounts : ~Steered(offer, c)}
Breakouts(offer) == {c \in offer.usable : offer.kind # "image" /\ BreakoutReady(offer.name, c)}

Eligible(offer) ==
    LET permitted == Rather(Rather(Admissible(offer), Sure(offer)), NotStale(offer))
    IN IF permitted # {} THEN permitted ELSE Breakouts(offer)

(* Nothing the plugin would say: CPA chooses for itself. *)
Unconcerned(offer) == ~gates.store \/ offer.kind = "helper"
LeftToHost(offer) ==
    \/ Unconcerned(offer)
    \/ ~Restricts(decision) /\ ~Guarded(offer) /\ offer.accounts \subseteq NotStale(offer)

OpenTo(offer) == IF LeftToHost(offer) THEN offer.accounts
                  ELSE IF decision.refused THEN {} ELSE Eligible(offer)

(* A pick notes the classes it is told. *)
Observed(offer) == IF Unconcerned(offer) THEN inventory ELSE inventory \cup (offer.accounts \cap Classified)

PickFor(offer) ==
    /\ picked' = [offer |-> offer, choices |-> OpenTo(offer), served |-> FALSE, overtaken |-> FALSE]
    /\ inventory' = Observed(offer)
    /\ UNCHANGED <<gates, decision, templated>>
AskFor(offer) == picked = NoPick /\ PickFor(offer)
-----------------------------------------------------------------------------
(* The check after authentication: the rules, then the gate. *)
RulesPass(offer, c) ==
    \/ Unconcerned(offer)
    \/ ~Restricts(decision)
    \/ ~decision.refused /\ Permits(decision, c, KnownClass(c))
    \/ ~decision.refused /\ offer.kind # "image" /\ BreakoutReady("exact", c)
GatePasses(offer, c) ==
    ~Unconcerned(offer) /\ offer.kind = "chat" /\ GateClosed /\ Protects("exact", c) =>
        gates.schema6 /\ Injects /\ TemplateReady("exact", c)
Passes(offer, c) == RulesPass(offer, c) /\ GatePasses(offer, c)

Serve(c) ==
    /\ picked # NoPick /\ ~picked.served
    /\ c \in picked.choices /\ Passes(picked.offer, c)
    /\ picked' = [picked EXCEPT !.served = TRUE, !.choices = {c}]
    /\ UNCHANGED <<gates, decision, templated, inventory>>

(* The account fails, and CPA asks again without it. *)
Retry(c) ==
    /\ picked # NoPick /\ picked.served /\ picked.choices = {c}
    /\ picked.offer.accounts # {c}
    /\ PickFor([picked.offer EXCEPT !.accounts = @ \ {c}, !.usable = @ \ {c}])

(* The request is answered, or refused. *)
Conclude == picked # NoPick /\ picked' = NoPick /\ UNCHANGED <<gates, decision, templated, inventory>>
-----------------------------------------------------------------------------
(* Meanwhile. *)
Overtakes == picked' = IF picked = NoPick THEN NoPick ELSE [picked EXCEPT !.overtaken = TRUE]

ChangeGates(choice) ==
    choice # gates /\ gates' = choice /\ Overtakes /\ UNCHANGED <<decision, templated, inventory>>
ChangeDecision(d) ==
    d # decision /\ decision' = d /\ Overtakes /\ UNCHANGED <<gates, templated, inventory>>
LearnFor(c) ==      \* of accounts that are selected for this model
    /\ gates.scoped /\ c \in gates.selected \ templated
    /\ templated' = templated \cup {c}
    /\ Overtakes
    /\ UNCHANGED <<gates, decision, inventory>>
ExpireFor(c) ==
    c \in templated /\ templated' = templated \ {c} /\ Overtakes /\ UNCHANGED <<gates, decision, inventory>>

(* The host's list of files replaces what is known of files. *)
RefreshInventory(listed) ==
    /\ inventory' = listed \cup {c \in inventory : ClassOf[c].source = "providers"}
    /\ inventory' # inventory
    /\ Overtakes
    /\ UNCHANGED <<gates, decision, templated>>
-----------------------------------------------------------------------------
PickInit ==
    /\ gates \in StateSettings /\ decision \in KeyDecisions
    /\ templated = {} /\ inventory = {}
    /\ picked = NoPick

PickNext ==
    \/ \E offer \in Offers : AskFor(offer)
    \/ \E c \in Accounts : Serve(c) \/ Retry(c) \/ LearnFor(c) \/ ExpireFor(c)
    \/ Conclude
    \/ \E choice \in StateSettings : ChangeGates(choice)
    \/ \E d \in KeyDecisions : ChangeDecision(d)
    \/ \E listed \in SUBSET Accounts : RefreshInventory(listed)

PickSpec == PickInit /\ [][PickNext]_pickVars
-----------------------------------------------------------------------------
(* Both decide by different data: the pick by what candidates tell and by the client's name,
   the check by the inventory and by the upstream model. *)
Undisturbed == picked # NoPick /\ ~picked.served /\ ~picked.overtaken

(* An account the pick chose or left to CPA is not refused afterwards, unless its class was told
   to nobody, or the name was no model's and every account the rules permit is selected
   (scheduler.go:219-226), or it is the last resort on a host whose schema is too old for the
   gate (scheduler.go:231). *)
ChoicesPass ==
    Undisturbed =>
        \A c \in picked.choices \cap (Classified \cup inventory) :
            \/ Passes(picked.offer, c)
            \/ /\ picked.offer.name # "exact"
               /\ RulesPass(picked.offer, c)
               /\ Admissible(picked.offer) \subseteq gates.selected
            \/ ~gates.schema6 /\ Admissible(picked.offer) = {}

(* No request is turned away that an account it may use would serve. *)
RefusalsAreFinal ==
    Undisturbed /\ picked.choices = {} /\ picked.offer.name = "exact" =>
        \A c \in picked.offer.usable \cap Classified : ~Passes(picked.offer, c)

(* Unless something changes in between, the choice of an account and its check agree. *)
PickAgreesWithCheck == ChoicesPass /\ RefusalsAreFinal
=============================================================================
