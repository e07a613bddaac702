----------------------------- MODULE GoogleOAuth -----------------------------
(* Connecting a Google account (modules/calendar/google-oauth.service.ts,  *)
(* calendar-connection.service.ts).  The owner is sent to the provider     *)
(* with a fresh attempt; the provider sends the browser back to the        *)
(* callback, which may arrive twice, late, or with an error, and in two    *)
(* processes at once.  A daily job deletes old attempts.                   *)
(*                                                                         *)
(* A state parameter names its attempt and carries a keyed digest of       *)
(* itself, so that a callback is abstracted to the attempt it names.       *)
EXTENDS Integers

CONSTANTS
    Attempts,     \* ids of GoogleOAuthAttempt rows
    Callbacks,    \* requests to the callback that are served concurrently
    AttemptTime,  \* ATTEMPT_TTL_MS
    PruneAge,     \* DAY_MS
    MaxTime       \* bound on the clock

VARIABLES
    attempt,     \* the GoogleOAuthAttempt rows
    callback,    \* local state of each request to the callback
    granted,     \* the GoogleCalendarConnection rows created, by the attempt behind them
    oauthClock   \* the time `new Date()` returns

oauthVars == <<attempt, callback, granted, oauthClock>>

Attempt == [exists : BOOLEAN, created : Nat, expires : Nat, consumed : BOOLEAN]
Callback == [pc : {"idle", "found", "exchange", "create"}, attempt : Attempts]

TypeOK ==
    /\ attempt \in [Attempts -> Attempt]
    /\ callback \in [Callbacks -> Callback]
    /\ granted \in [Attempts -> Nat]
    /\ oauthClock \in Nat

Init ==
    /\ attempt = [a \in Attempts |-> [exists |-> FALSE, created |-> 0, expires |-> 0,
                                      consumed |-> FALSE]]
    /\ callback = [c \in Callbacks |-> [pc |-> "idle", attempt |-> CHOOSE a \in Attempts : TRUE]]
    /\ granted = [a \in Attempts |-> 0]
    /\ oauthClock = 1

\* createAuthorizationUrl.
CreateAuthorizationUrl(a) ==
    /\ attempt[a].created = 0
    /\ attempt' = [attempt EXCEPT ![a] = [exists |-> TRUE, created |-> oauthClock,
                       expires |-> oauthClock + AttemptTime, consumed |-> FALSE]]
    /\ UNCHANGED <<callback, granted, oauthClock>>

\* consumeAttempt finds the attempt; a missing one ends the request.
FindAttempt(c, a) ==
    /\ callback[c].pc = "idle" /\ attempt[a].exists
    /\ callback' = [callback EXCEPT ![c] = [pc |-> "found", attempt |-> a]]
    /\ UNCHANGED <<attempt, granted, oauthClock>>

\* Mutant: trusts what it has read.
NotExpired(a) == attempt[a].exists /\ oauthClock < attempt[a].expires

\* The condition of the update that consumes an attempt.
Consumable(a) ==
    /\ attempt[a].exists /\ ~attempt[a].consumed
    /\ oauthClock < attempt[a].expires

\* The update; the owner who declined at the provider gets no further.
ConsumeAttempt(c) ==
    /\ callback[c].pc = "found"
    /\ LET a == callback[c].attempt
       IN \/ /\ Consumable(a)
             /\ attempt' = [attempt EXCEPT ![a].consumed = TRUE]
             /\ \E next \in {"exchange", "idle"} : callback' = [callback EXCEPT ![c].pc = next]
          \/ /\ ~Consumable(a)
             /\ callback' = [callback EXCEPT ![c].pc = "idle"]
             /\ UNCHANGED attempt
    /\ UNCHANGED <<granted, oauthClock>>

\* exchangeCode: both tokens and exactly the scopes that were asked for, or an error.
ExchangeCode(c) ==
    /\ callback[c].pc = "exchange"
    /\ \E next \in {"create", "idle"} : callback' = [callback EXCEPT ![c].pc = next]
    /\ UNCHANGED <<attempt, granted, oauthClock>>

\* create: another row, whatever connections the owner has; or the insert fails.
CreateConnection(c) ==
    /\ callback[c].pc = "create"
    /\ callback' = [callback EXCEPT ![c].pc = "idle"]
    /\ \E rows \in {0, 1} : granted' = [granted EXCEPT ![callback[c].attempt] = @ + rows]
    /\ UNCHANGED <<attempt, oauthClock>>

\* pruneOAuthAttempts: only what can no longer be consumed.
Prune(a) ==
    /\ attempt[a].exists /\ attempt[a].created < oauthClock - PruneAge
    /\ attempt[a].consumed \/ attempt[a].expires < oauthClock
    /\ attempt' = [attempt EXCEPT ![a].exists = FALSE]
    /\ UNCHANGED <<callback, granted, oauthClock>>

OAuthTick ==
    /\ oauthClock < MaxTime
    /\ oauthClock' = oauthClock + 1
    /\ UNCHANGED <<attempt, callback, granted>>

Next ==
    \/ \E a \in Attempts : CreateAuthorizationUrl(a) \/ Prune(a)
    \/ \E c \in Callbacks :
          \/ \E a \in Attempts : FindAttempt(c, a)
          \/ ConsumeAttempt(c) \/ ExchangeCode(c) \/ CreateConnection(c)
    \/ OAuthTick

Spec == Init /\ [][Next]_oauthVars

-----------------------------------------------------------------------------
\* However often and wherever the browser is sent back, and whatever is pruned
\* meanwhile, one consent of the owner creates one connection at most.
OneConnectionPerConsent == \A a \in Attempts : granted[a] <= 1

=============================================================================
