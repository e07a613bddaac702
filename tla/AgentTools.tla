------------------------------ MODULE AgentTools ------------------------------
(* Calls of agents from the request to the answer: credentials and their   *)
(* lifecycle (modules/agent-auth), the MCP endpoint with its timeout       *)
(* (modules/mcp), the registry of tools with scopes, keys and audit, and   *)
(* what the handlers do to the domain (modules/agent-tools).  The keys are *)
(* modelled in detail in AgentActions; here a keyed transaction is a step. *)
EXTENDS Integers, FiniteSets, Sequences

CONSTANTS
    Tools,          \* the tools that are called
    Granted,        \* the scopes of the client
    ToolCalls,      \* requests, each of one call
    ToolKeys,       \* idempotency keys, a set of numbers
    Inputs,         \* what a call says besides its key
    MaxCredentials, \* bound on credentials, and how often the client is rotated
    KeyTTL,         \* DEFAULT_TTL_MS
    MaxToolClock    \* bound on time

VARIABLES
    clientStatus,   \* of the one client
    credential,     \* its credentials, newest last: [revoked, expiresAt]
    toolCall,       \* local state of each call
    keyRecord,      \* AgentIdempotencyRecord of each tool and key: [by, until]
    applied,        \* calls whose transaction was committed by their handler
    changed,        \* those of them that changed the domain, with the time
    auditLog,       \* MutationAuditEvent: [call, outcome, replayed]
    toolClock       \* new Date()

authVars == <<clientStatus, credential>>
domainVars == <<keyRecord, applied, changed>>
toolVars == <<clientStatus, credential, toolCall, domainVars, auditLog, toolClock>>

\* createExplicitAgentTools.
RequiredScope ==
    [brief_today |-> "briefs:read", contacts_search |-> "contacts:read",
     relationship_health |-> "relationships:read", important_dates |-> "dates:read",
     reminders_list |-> "reminders:read", contacts_missing_enrichment |-> "enrichment:read",
     enrichment_candidates_list |-> "enrichment:read", create_contact |-> "contacts:write",
     log_interaction |-> "interactions:write", create_reminder |-> "reminders:write",
     brief_feedback |-> "feedback:write", complete_quest |-> "quests:complete",
     enrichment_candidate_submit |-> "enrichment:candidates:write",
     enrichment_candidate_accept |-> "enrichment:accept",
     correct_contact_social_link |-> "contacts:social-links:correct",
     propose_action |-> "proposals:write", execute_approved_action |-> "approvals:execute"]

ReadTools == {"brief_today", "contacts_search", "relationship_health", "important_dates",
              "reminders_list", "contacts_missing_enrichment", "enrichment_candidates_list"}

\* Handlers that give the domain a key of its own, made of client, tool, key and input.
DomainKeyed == {"brief_feedback", "complete_quest"}

NoRecord == [by |-> {}, until |-> 0]
Fresh == [phase |-> "new", tool |-> CHOOSE t \in Tools : TRUE, key |-> 0, input |-> 0,
          credential |-> 0, now |-> 0, outcome |-> "none", answer |-> "none"]
Phases == {"new", "found", "serving", "handling", "committed", "replayed", "failed", "done"}

\* publicError: what the caller may be told, NOT_FOUND standing for INVALID_INPUT and the
\* CONFLICT of a domain too.
Errors == {"NOT_FOUND", "IDEMPOTENCY_CONFLICT", "INTERNAL_ERROR"}

TypeOK ==
    /\ clientStatus \in {"active", "revoked"}
    /\ \A i \in DOMAIN credential : credential[i] \in [revoked : BOOLEAN, expiresAt : Nat]
    /\ \A c \in ToolCalls : toolCall[c].phase \in Phases /\ toolCall[c].tool \in Tools
    /\ applied \subseteq ToolCalls /\ {x.call : x \in changed} \subseteq applied
    /\ auditLog \subseteq [call : ToolCalls, outcome : {"succeeded", "rejected", "failed"}, replayed : BOOLEAN]

\* createClient, with the expiry that the owner chose.
Init ==
    /\ clientStatus = "active"
    /\ credential \in {<<[revoked |-> FALSE, expiresAt |-> x]>> : x \in {1, MaxToolClock + 1}}
    /\ toolCall = [c \in ToolCalls |-> Fresh]
    /\ keyRecord = [s \in Tools \X ToolKeys |-> NoRecord]
    /\ applied = {} /\ changed = {} /\ auditLog = {}
    /\ toolClock = 0

-----------------------------------------------------------------------------
(* Credentials.  Rotating and revoking hold an advisory lock of the client *)
(* for the length of a Serializable transaction.                           *)

Valid(i) == ~credential[i].revoked
Revoked(i) == [credential[i] EXCEPT !.revoked = TRUE]

\* rotateClient: the new credential runs out when the old one would have.
Rotate ==
    /\ clientStatus = "active" /\ Len(credential) < MaxCredentials
    /\ \E i \in DOMAIN credential :
          /\ Valid(i)
          /\ credential' = Append([j \in DOMAIN credential |-> Revoked(j)], credential[i])
    /\ UNCHANGED <<clientStatus, toolCall, domainVars, auditLog, toolClock>>

\* revokeClient.
Revoke ==
    /\ clientStatus = "active"
    /\ clientStatus' = "revoked"
    /\ credential' = [j \in DOMAIN credential |-> Revoked(j)]
    /\ UNCHANGED <<toolCall, domainVars, auditLog, toolClock>>

To(c, phase) == toolCall' = [toolCall EXCEPT ![c].phase = phase]
Respond(c, answer) ==
    toolCall' = [toolCall EXCEPT ![c].phase = "done", ![c].outcome = "none",
                                 ![c].answer = IF @ = "none" THEN answer ELSE @]

\* authenticate finds the credential with its client and checks both.
Find(c) ==
    /\ toolCall[c].phase = "new"
    /\ \E t \in Tools, i \in DOMAIN credential :
       \E k \in IF t \in ReadTools THEN {0} ELSE ToolKeys,
          x \in IF t \in ReadTools THEN {0} ELSE Inputs :
          LET found == Valid(i) /\ credential[i].expiresAt > toolClock /\ clientStatus = "active"
          IN toolCall' = [toolCall EXCEPT ![c] =
                [phase |-> IF found THEN "found" ELSE "done", tool |-> t, key |-> k,
                 input |-> x, credential |-> i, now |-> toolClock, outcome |-> "none",
                 answer |-> IF found THEN "none" ELSE "unauthorized"]]
    /\ UNCHANGED <<authVars, domainVars, auditLog, toolClock>>

\* Mutant: the credential was checked already.
StillKnown(c) == toolCall[c].credential \in DOMAIN credential

\* The claim writes lastUsedAt of a credential that is still good.
Claimable(c) ==
    LET i == toolCall[c].credential
    IN Valid(i) /\ credential[i].expiresAt > toolCall[c].now /\ clientStatus = "active"

Claim(c) ==
    /\ toolCall[c].phase = "found"
    /\ IF Claimable(c)
       THEN toolCall' = [toolCall EXCEPT ![c].phase = "serving", ![c].credential = 0, ![c].now = 0]
       ELSE Respond(c, "unauthorized")
    /\ UNCHANGED <<authVars, domainVars, auditLog, toolClock>>

-----------------------------------------------------------------------------
(* The MCP endpoint.                                                       *)

\* The policy refuses a request that is not JSON, too large or for another host.
RefuseRequest(c) ==
    /\ toolCall[c].phase = "serving" /\ toolCall[c].answer = "none"
    /\ Respond(c, "refused")
    /\ UNCHANGED <<authVars, domainVars, auditLog, toolClock>>

\* Only tools in the scope of the client are registered with the server of the request.
Registered(c) == RequiredScope[toolCall[c].tool] \in Granted

Handle(c) ==
    /\ toolCall[c].phase = "serving" /\ toolCall[c].answer = "none"
    /\ IF Registered(c) THEN To(c, "handling") ELSE Respond(c, "unknown tool")
    /\ UNCHANGED <<authVars, domainVars, auditLog, toolClock>>

\* withTimeout: the agent gets 504; a call that is being handled goes on.
Timeout(c) ==
    /\ toolCall[c].phase \notin {"new", "found", "done"} /\ toolCall[c].answer = "none"
    /\ toolCall' = [toolCall EXCEPT ![c].answer = "timeout",
                       ![c].phase = IF @ = "serving" THEN "done" ELSE @]
    /\ UNCHANGED <<authVars, domainVars, auditLog, toolClock>>

-----------------------------------------------------------------------------
(* The registry.                                                           *)

Fail(c, code) == toolCall' = [toolCall EXCEPT ![c].phase = "failed", ![c].outcome = code]

\* invoke: a tool that only reads has no key and leaves no audit.
Read(c) ==
    /\ toolCall[c].phase = "handling" /\ toolCall[c].tool \in ReadTools
    /\ Respond(c, "ok") \/ Respond(c, "INTERNAL_ERROR")
    /\ UNCHANGED <<authVars, domainVars, auditLog, toolClock>>

Slot(c) == <<toolCall[c].tool, toolCall[c].key>>
Recorded(c) == keyRecord[Slot(c)].until > toolClock
SameInput(c) == \E d \in keyRecord[Slot(c)].by : toolCall[d].input = toolCall[c].input

\* The domain has an answer for its own key.
KnownToDomain(c) ==
    /\ toolCall[c].tool \in DomainKeyed
    /\ \E x \in changed : /\ Slot(x.call) = Slot(c)
                          /\ toolCall[x.call].input = toolCall[c].input

\* Mutant: recorded when the transaction is over, which may fail.
Unaudited(c) == {}

\* recordSuccessAudit, in the transaction of the handler.
SuccessAudit(c) == {[call |-> c, outcome |-> "succeeded", replayed |-> FALSE]}

\* idempotency.execute runs the handler, whose changes, audit and record are one commit.
Commit(c) ==
    /\ toolCall[c].phase = "handling" /\ toolCall[c].tool \notin ReadTools
    /\ ~Recorded(c)
    /\ applied' = applied \cup {c}
    /\ changed' = IF KnownToDomain(c) THEN changed
                  ELSE changed \cup {[call |-> c, at |-> toolClock]}
    /\ auditLog' = auditLog \cup SuccessAudit(c)
    /\ keyRecord' = [keyRecord EXCEPT ![Slot(c)] = [by |-> {c}, until |-> toolClock + KeyTTL]]
    /\ To(c, "committed")
    /\ UNCHANGED <<authVars, toolClock>>

\* The key has an answer, for this input or for another.
ReplayOrConflict(c) ==
    /\ toolCall[c].phase = "handling" /\ toolCall[c].tool \notin ReadTools
    /\ Recorded(c)
    /\ IF SameInput(c) THEN To(c, "replayed") ELSE Fail(c, "IDEMPOTENCY_CONFLICT")
    /\ UNCHANGED <<authVars, domainVars, auditLog, toolClock>>

\* The handler or the audit fails, or another call wrote first, and the transaction is
\* rolled back.
RollBack(c) ==
    /\ toolCall[c].phase = "handling" /\ toolCall[c].tool \notin ReadTools
    /\ \E code \in Errors : Fail(c, code)
    /\ UNCHANGED <<authVars, domainVars, auditLog, toolClock>>

\* recordReplayAudit, recordFailureAudit: a failure to record it stays private.
AfterAudit(c) ==
    /\ toolCall[c].phase \in {"replayed", "failed"}
    /\ LET code == toolCall[c].outcome
           replayed == toolCall[c].phase = "replayed"
           outcome == IF replayed THEN "succeeded"
                      ELSE IF code = "NOT_FOUND" THEN "rejected" ELSE "failed"
           event == [call |-> c, outcome |-> outcome, replayed |-> replayed]
       IN /\ auditLog' \in {auditLog, auditLog \cup {event}}
          /\ Respond(c, IF replayed THEN "ok" ELSE code)
    /\ UNCHANGED <<authVars, domainVars, toolClock>>

Answer(c) ==
    /\ toolCall[c].phase = "committed"
    /\ Respond(c, "ok")
    /\ UNCHANGED <<authVars, domainVars, auditLog, toolClock>>

Tick ==
    /\ toolClock < MaxToolClock
    /\ toolClock' = toolClock + 1
    /\ UNCHANGED <<authVars, toolCall, domainVars, auditLog>>

Next ==
    \/ Rotate \/ Revoke \/ Tick
    \/ \E c \in ToolCalls : \/ Find(c) \/ Claim(c) \/ RefuseRequest(c) \/ Handle(c) \/ Timeout(c)
                            \/ Read(c) \/ Commit(c) \/ ReplayOrConflict(c) \/ RollBack(c)
                            \/ AfterAudit(c) \/ Answer(c)

Spec == Init /\ [][Next]_toolVars

-----------------------------------------------------------------------------
\* What the audit says succeeded, and was no replay, is what was committed, timeouts or
\* not, and an agent that is told ok can count on its change.  A change is made again
\* under its key only when the record of the key has run out, and under a key of the
\* domain never.
CallsAreAccountedFor ==
    /\ {x.call : x \in {x \in auditLog : x.outcome = "succeeded" /\ ~x.replayed}} = applied
    /\ \A c \in ToolCalls :
          toolCall[c].answer = "ok" /\ toolCall[c].tool \notin ReadTools =>
             \E d \in applied : Slot(d) = Slot(c) /\ toolCall[d].input = toolCall[c].input
    /\ \A x, y \in changed :
          x.call # y.call /\ Slot(x.call) = Slot(y.call) /\ x.at <= y.at =>
             /\ y.at >= x.at + KeyTTL
             /\ toolCall[x.call].tool \in DomainKeyed =>
                   toolCall[x.call].input # toolCall[y.call].input

\* One credential of an active client is good, none of a revoked one, and a call is served
\* only if its credential was still good after it had been checked.
ServedInForce ==
    /\ Cardinality({i \in DOMAIN credential : Valid(i)}) = IF clientStatus = "active" THEN 1 ELSE 0
    /\ \A c \in ToolCalls :
          toolCall[c].phase = "found" /\ toolCall'[c].phase = "serving" =>
             clientStatus = "active" /\ Valid(toolCall[c].credential)

=============================================================================
