----------------------------- MODULE DeviceLogin -----------------------------
(* Signing in to Cline with a device code (plugin/integrations_cline.go): a session in memory
   waits for the user's approval, keeps what the upstream granted until the host has saved it,
   and can be cancelled, expire or vanish with the process at any point. *)
EXTENDS Naturals, FiniteSets

CONSTANTS
    Logins,         \* login IDs; the account a login creates carries its ID
    NoSession,
    MaxLogins       \* sessions at once, 16

VARIABLES
    session,        \* App.integrationLogins
    saved,          \* the account with this LoginID in the host's auth directory
    answer          \* history: the last final answer the page was given for a login

loginVars == <<session, saved, answer>>

(* integrationLogin: what the upstream granted, and the account that is registered with it. *)
LoginSession == [account : {"none", "granted", "registered"}, expired : BOOLEAN]

ASSUME LoginAssumption == NoSession \notin LoginSession

Open == {l \in Logins : session[l] # NoSession}
Pending(l) == l \in Open /\ session[l].account = "none"
Without(l) == session' = [session EXCEPT ![l] = NoSession]
-----------------------------------------------------------------------------
(* startIntegrationCline drops expired sessions first; the ID is new. *)
Start(l) ==
    LET current == {o \in Open : ~session[o].expired} IN
    /\ l \notin Open /\ saved[l] = "none" /\ answer[l] = "none"
    /\ Cardinality(current) < MaxLogins
    /\ session' = [o \in Logins |-> IF o = l THEN [account |-> "none", expired |-> FALSE]
                                    ELSE IF o \in current THEN session[o] ELSE NoSession]
    /\ UNCHANGED <<saved, answer>>

SessionExpires(l) ==
    /\ l \in Open
    /\ session' = [session EXCEPT ![l].expired = TRUE]
    /\ UNCHANGED <<saved, answer>>

(* pollIntegrationCline, one critical section with its calls: an expired session is dropped, as is
   one the upstream rejects; a pending one waits... *)
PollGone(l) ==
    /\ l \in Open /\ (session[l].expired \/ session[l].account = "none")
    /\ Without(l)
    /\ UNCHANGED <<saved, answer>>

(* ...a granted one is registered, which may fail, and keeps its tokens... *)
PollGranted(l) ==
    /\ Pending(l) /\ ~session[l].expired
    /\ \E account \in {"granted", "registered"} : session' = [session EXCEPT ![l].account = account]
    /\ UNCHANGED <<saved, answer>>
PollRegistered(l) ==
    /\ l \in Open /\ ~session[l].expired /\ session[l].account = "granted"
    /\ session' = [session EXCEPT ![l].account = "registered"]
    /\ UNCHANGED <<saved, answer>>

(* ...and the host saves it, with its models a second time: the first or the second save may fail,
   written or not; the last one ends the session. *)
PollSaves(l, finished) ==
    /\ l \in Open /\ ~session[l].expired /\ session[l].account = "registered"
    /\ saved' = [saved EXCEPT ![l] = "live"]
    /\ IF finished THEN Without(l) /\ answer' = [answer EXCEPT ![l] = "complete"]
       ELSE UNCHANGED <<session, answer>>

(* cancelIntegrationCline: without a pending session the host's files decide. *)
CancelUnchecked(l) ==       \* the session decides alone
    /\ Without(l)
    /\ answer' = [answer EXCEPT ![l] = "cancelled"]
    /\ UNCHANGED saved
Cancel(l) ==
    /\ Without(l)
    /\ answer' = [answer EXCEPT ![l] = IF ~Pending(l) /\ saved[l] = "live" THEN "complete" ELSE "cancelled"]
    /\ UNCHANGED saved

DeleteSignedIn(l) ==
    /\ saved[l] = "live"
    /\ saved' = [saved EXCEPT ![l] = "deleted"]
    /\ UNCHANGED <<session, answer>>

EndProcess ==
    /\ session' = [l \in Logins |-> NoSession]
    /\ UNCHANGED <<saved, answer>>

LoginInit ==
    /\ session = [l \in Logins |-> NoSession]
    /\ saved = [l \in Logins |-> "none"]
    /\ answer = [l \in Logins |-> "none"]
LoginNext ==
    \/ \E l \in Logins :
          \/ Start(l) \/ SessionExpires(l)
          \/ PollGone(l) \/ PollGranted(l) \/ PollRegistered(l) \/ \E finished \in BOOLEAN : PollSaves(l, finished)
          \/ Cancel(l) \/ DeleteSignedIn(l)
    \/ EndProcess

LoginSpec == LoginInit /\ [][LoginNext]_loginVars
-----------------------------------------------------------------------------
(* A sign-in the page was told is cancelled leaves no account behind, then or later, and one it was
   told is complete is in the host's directory, whatever saves failed, expired or were repeated
   (integrations_cline.go:206-208, 226-227). *)
AnswersAreTrue ==
    \A l \in Logins :
        /\ answer[l] = "cancelled" => saved[l] # "live"
        /\ answer[l] = "complete" => saved[l] # "none"
=============================================================================
