---------------------------- MODULE AgentActions ----------------------------
(* Risky actions of agents: an agent proposes, the owner approves or       *)
(* rejects, the agent executes with the approval                           *)
(* (modules/agent-security, modules/agent-tools).                          *)
(*                                                                         *)
(* Each tool call is one Serializable transaction under the idempotency    *)
(* key of the caller.  Its first statement takes an advisory lock on the   *)
(* key, and takes the snapshot of the transaction before it waits for the  *)
(* lock: a call that had to wait sees the database as it was before the    *)
(* call it waited for.  Postgres lets a transaction write only what nobody *)
(* wrote since its snapshot.  The owner's requests and other calls come in *)
(* between.  There is one owner and one clock.                             *)
EXTENDS Integers

CONSTANTS
    Proposals,    \* rows of ActionProposal, and of ApprovalGrant and ActionOutbox with them
    Payloads,     \* action type and payload, that is, what payloadHash stands for
    Executable,   \* payloads whose action type has an executor
    Clients,      \* agent clients of the owner
    ProposeKeys,  \* idempotency keys used with socos_propose_action
    ExecuteKeys,  \* idempotency keys used with socos_execute_approved_action
    ClientOf,     \* the client that uses a key: keys of two clients never meet
    Calls,        \* concurrent tool calls
    None,         \* no proposal
    ProposalTTL,  \* PROPOSAL_TTL_MS
    ApprovalTTL,  \* APPROVAL_TTL_MS
    RecordTTL,    \* DEFAULT_TTL_MS of the idempotency records
    MaxClock,     \* bound on the clock
    MaxAge        \* bound on the age of the time an owner's request works with

Keys == ProposeKeys \cup ExecuteKeys

ASSUME ConstantsAssumption ==
    /\ Executable \subseteq Payloads /\ Payloads # {}
    /\ ClientOf \in [Keys -> Clients]
    /\ ProposeKeys \cap ExecuteKeys = {} /\ Keys # {}
    /\ None \notin Proposals
    /\ {ProposalTTL, ApprovalTTL, RecordTTL} \subseteq Nat \ {0}
    /\ {MaxClock, MaxAge} \subseteq Nat

VARIABLES
    proposal,  \* the ActionProposal rows
    grant,     \* the ApprovalGrant rows, at most one for each proposal
    outbox,    \* proposals with an ActionOutbox row
    record,    \* the AgentIdempotencyRecord rows
    call,      \* local state of each tool call
    clock,     \* the time `new Date()` returns
    effects,   \* history: what each key did, see OncePerKey
    consent    \* history: time and payload of what the owner approved

vars == <<proposal, grant, outbox, record, call, clock, effects, consent>>
rows == <<proposal, grant, outbox, record>>
history == <<effects, consent>>

Times == Nat \ {0}
Request == [proposal : Proposals \cup {None}, payload : Payloads]
Result == Proposals \cup {None}

Proposal == [status : {"none", "pending", "approved", "rejected", "expired"},
             client : Clients, payload : Payloads, expiresAt : Nat]
Grant == [status : {"none", "active", "consumed"}, expiresAt : Nat]

\* A record with expiresAt 0 is no record.  Records are written complete: the
\* reservation and its response are committed together or not at all.
Record == [request : Request, result : Result, expiresAt : Nat]

Call == [pc : {"idle", "waiting", "locked", "answer"}, key : Keys, request : Request,
         now : Nat, record : Record, grant : Grant, result : Result]

Effect == [at : Times, request : Request, result : Proposals]
Consent == [at : Nat, payload : Payloads]

TypeOK ==
    /\ proposal \in [Proposals -> Proposal]
    /\ grant \in [Proposals -> Grant]
    /\ outbox \in SUBSET Proposals
    /\ record \in [Keys -> Record]
    /\ call \in [Calls -> Call]
    /\ clock \in Times
    /\ effects \in [Keys -> SUBSET Effect]
    /\ consent \in [Proposals -> Consent]

-----------------------------------------------------------------------------
NoPayload == CHOOSE a \in Payloads : TRUE
NoRequest == [proposal |-> None, payload |-> NoPayload]
NoRecord == [request |-> NoRequest, result |-> None, expiresAt |-> 0]
NoGrant == [status |-> "none", expiresAt |-> 0]
NoCall == [pc |-> "idle", key |-> CHOOSE k \in Keys : TRUE, request |-> NoRequest,
           now |-> 0, record |-> NoRecord, grant |-> NoGrant, result |-> None]

Init ==
    /\ proposal = [p \in Proposals |->
                     [status |-> "none", client |-> CHOOSE x \in Clients : TRUE,
                      payload |-> NoPayload, expiresAt |-> 0]]
    /\ grant = [p \in Proposals |-> NoGrant]
    /\ outbox = {}
    /\ record = [k \in Keys |-> NoRecord]
    /\ call = [c \in Calls |-> NoCall]
    /\ clock = 1
    /\ effects = [k \in Keys |-> {}]
    /\ consent = [p \in Proposals |-> [at |-> 0, payload |-> NoPayload]]

Least(m, n) == IF m <= n THEN m ELSE n

-----------------------------------------------------------------------------
(* A tool call: AgentToolRegistryService.call, AgentIdempotencyService.    *)

Leave(c) == call' = [call EXCEPT ![c] = NoCall]

\* The transaction begins and asks for the lock on its key.
Begin(c) ==
    /\ call[c].pc = "idle"
    /\ \E k \in Keys, q \in Request :
          /\ q.proposal = None <=> k \in ProposeKeys
          /\ call' = [call EXCEPT ![c] =
                        [pc |-> "waiting", key |-> k, request |-> q, now |-> 0,
                         record |-> record[k],
                         grant |-> IF q.proposal = None THEN NoGrant ELSE grant[q.proposal],
                         result |-> None]]
    /\ UNCHANGED <<rows, clock, history>>

\* pg_advisory_xact_lock returns; transactionNow is read.
Lock(c) ==
    /\ call[c].pc = "waiting"
    /\ \A d \in Calls : call[d].pc = "locked" => call[d].key # call[c].key
    /\ call' = [call EXCEPT ![c].pc = "locked", ![c].now = clock]
    /\ UNCHANGED <<rows, clock, history>>

\* The record the call sees still answers for its key.
Live(c) == call[c].record.expiresAt > call[c].now

SameRequest(c) == call[c].record.request = call[c].request

\* A replay: the stored response is the answer.
Replay(c) ==
    /\ call[c].pc = "locked" /\ Live(c) /\ SameRequest(c)
    /\ call' = [call EXCEPT ![c].pc = "answer", ![c].result = call[c].record.result]
    /\ UNCHANGED <<rows, clock, history>>

\* The key belongs to a different request.
RefuseKey(c) ==
    /\ call[c].pc = "locked" /\ Live(c) /\ ~SameRequest(c)
    /\ Leave(c)
    /\ UNCHANGED <<rows, clock, history>>

\* Mutant: no unique index, and snapshots that are not compared.
NeverConflicts(c) == TRUE

\* Nobody wrote the record since the snapshot: neither the unique index (P2002)
\* nor Postgres (P2034) rejects the new one.
RecordUnwritten(c) == record[call[c].key] = call[c].record

\* Mutant: the record ends when it begins.
NoLifetime(c) == call[c].now

RecordExpiry(c) == call[c].now + RecordTTL

\* What the idempotency service and the history keep of a call that did `result`.
Completed(c, result) ==
    /\ record' = [record EXCEPT ![call[c].key] =
                    [request |-> call[c].request, result |-> result,
                     expiresAt |-> RecordExpiry(c)]]
    /\ effects' = [effects EXCEPT ![call[c].key] =
                     @ \cup {[at |-> call[c].now, request |-> call[c].request,
                              result |-> result]}]
    /\ call' = [call EXCEPT ![c].pc = "answer", ![c].result = result]

\* createProposal as the handler of a call, and its commit.
Propose(c) ==
    /\ call[c].pc = "locked" /\ ~Live(c) /\ RecordUnwritten(c)
    /\ call[c].key \in ProposeKeys
    /\ \E p \in Proposals, now \in call[c].now .. clock :
          /\ proposal[p].status = "none"
          /\ proposal' = [proposal EXCEPT ![p] =
                            [status |-> "pending", client |-> ClientOf[call[c].key],
                             payload |-> call[c].request.payload,
                             expiresAt |-> now + ProposalTTL]]
          /\ Completed(c, p)
    /\ UNCHANGED <<grant, outbox, clock, consent>>

\* The query and isValidGrant of executeInTransaction; what they read of the
\* proposal never changes.
ValidGrant(c, now) ==
    LET p == call[c].request.proposal IN
    /\ call[c].grant.status = "active" /\ call[c].grant.expiresAt > now
    /\ proposal[p].client = ClientOf[call[c].key]
    /\ proposal[p].payload = call[c].request.payload

\* executeInTransaction as the handler of a call, and its commit.  The grant is
\* consumed if nobody wrote it since the snapshot.
Execute(c) ==
    /\ call[c].pc = "locked" /\ ~Live(c) /\ RecordUnwritten(c)
    /\ call[c].key \in ExecuteKeys
    /\ LET p == call[c].request.proposal IN
       /\ \E now \in call[c].now .. clock : ValidGrant(c, now)
       /\ call[c].request.payload \in Executable
       /\ grant[p] = call[c].grant
       /\ grant' = [grant EXCEPT ![p].status = "consumed"]
       /\ p \notin outbox /\ outbox' = outbox \cup {p}
       /\ Completed(c, p)
    /\ UNCHANGED <<proposal, clock, consent>>

\* The handler fails: the approval is invalid or no executor is there.  The
\* transaction rolls back with the reservation in it.
Fails(c) ==
    /\ call[c].pc = "locked" /\ ~Live(c) /\ RecordUnwritten(c)
    /\ call[c].key \in ExecuteKeys
    /\ \E now \in call[c].now .. clock :
          ~ValidGrant(c, now) \/ call[c].request.payload \notin Executable
    /\ Leave(c)
    /\ UNCHANGED <<rows, clock, history>>

\* The record or the grant was written meanwhile: IDEMPOTENCY_CONFLICT, to be retried.
Conflict(c) ==
    /\ call[c].pc = "locked" /\ ~Live(c)
    /\ \/ ~RecordUnwritten(c)
       \/ /\ call[c].key \in ExecuteKeys /\ call[c].request.payload \in Executable
          /\ \E now \in call[c].now .. clock : ValidGrant(c, now)
          /\ grant[call[c].request.proposal] # call[c].grant
    /\ Leave(c)
    /\ UNCHANGED <<rows, clock, history>>

\* The answer reaches the agent.
Answer(c) ==
    /\ call[c].pc = "answer"
    /\ Leave(c)
    /\ UNCHANGED <<rows, clock, history>>

\* The process dies, the connection is lost, the transaction times out, or Postgres
\* aborts it: before the commit nothing has happened, after it nobody is told.
Lose(c) ==
    /\ call[c].pc # "idle"
    /\ Leave(c)
    /\ UNCHANGED <<rows, clock, history>>

-----------------------------------------------------------------------------
(* The owner: ActionProposalService.  A request reads the clock first and  *)
(* writes later.                                                           *)

RequestTimes == {now \in 1 .. clock : clock - now <= MaxAge}

\* Mutant: whatever is shown can be decided.
StillKnown(p, now) == proposal[p].status # "none"

Decidable(p, now) == proposal[p].status = "pending" /\ proposal[p].expiresAt > now

\* Mutant: the grant counts from the approval, whatever the proposal says.
FullApproval(p, now) == now + ApprovalTTL

GrantExpiry(p, now) == Least(proposal[p].expiresAt, now + ApprovalTTL)

\* Mutant: approving again makes a new grant of the old one.
ApproveAgain(p) ==
    /\ \E now \in RequestTimes :
          /\ Decidable(p, now) \/ proposal[p].status = "approved"
          /\ proposal' = [proposal EXCEPT ![p].status = "approved"]
          /\ grant' = [grant EXCEPT ![p] = [status |-> "active",
                                            expiresAt |-> GrantExpiry(p, now)]]
          /\ consent' = [consent EXCEPT ![p] = [at |-> now, payload |-> proposal[p].payload]]
    /\ UNCHANGED <<outbox, record, call, clock, effects>>

\* approve.  Approving again returns the grant that is there.
Approve(p) ==
    /\ \E now \in RequestTimes :
          /\ Decidable(p, now)
          /\ proposal' = [proposal EXCEPT ![p].status = "approved"]
          /\ grant' = [grant EXCEPT ![p] = [status |-> "active",
                                            expiresAt |-> GrantExpiry(p, now)]]
          /\ consent' = [consent EXCEPT ![p] = [at |-> now, payload |-> proposal[p].payload]]
    /\ UNCHANGED <<outbox, record, call, clock, effects>>

\* reject.
Reject(p) ==
    /\ \E now \in RequestTimes : Decidable(p, now)
    /\ proposal' = [proposal EXCEPT ![p].status = "rejected"]
    /\ UNCHANGED <<grant, outbox, record, call, clock, history>>

\* listPending and listHistory: what is overdue expires.
Expire ==
    /\ \E now \in RequestTimes :
          proposal' = [p \in Proposals |->
                         IF proposal[p].status = "pending" /\ proposal[p].expiresAt <= now
                         THEN [proposal[p] EXCEPT !.status = "expired"] ELSE proposal[p]]
    /\ UNCHANGED <<grant, outbox, record, call, clock, history>>

Tick ==
    /\ clock < MaxClock
    /\ clock' = clock + 1
    /\ UNCHANGED <<rows, call, history>>

-----------------------------------------------------------------------------
CallStep(c) ==
    \/ Begin(c) \/ Lock(c) \/ Replay(c) \/ RefuseKey(c) \/ Propose(c) \/ Execute(c)
    \/ Fails(c) \/ Conflict(c) \/ Answer(c) \/ Lose(c)

OwnerStep == Expire \/ \E p \in Proposals : Approve(p) \/ Reject(p)

Next == (\E c \in Calls : CallStep(c)) \/ OwnerStep \/ Tick

Spec == Init /\ [][Next]_vars

-----------------------------------------------------------------------------
\* What it is for.

\* Whatever was executed is what the owner had seen and approved, for the client
\* that asked, no longer than ApprovalTTL before and before the proposal ran out.
ExecutedWithConsent ==
    \A k \in ExecuteKeys : \A e \in effects[k] :
        LET p == e.result IN
        /\ e.result = e.request.proposal
        /\ consent[p].at # 0 /\ consent[p].payload = e.request.payload
        /\ proposal[p].client = ClientOf[k] /\ proposal[p].status = "approved"
        /\ e.at < consent[p].at + ApprovalTTL /\ e.at < proposal[p].expiresAt

\* An approval is used once, whatever keys and clients try to use it: each queued
\* action comes from one call, and its grant is spent.
ApprovalUsedOnce ==
    /\ \A p \in Proposals : p \in outbox <=> grant[p].status = "consumed"
    /\ \A k, l \in ExecuteKeys : \A e \in effects[k], f \in effects[l] :
          e.result = f.result => k = l /\ e = f
    /\ \A k \in ExecuteKeys : \A e \in effects[k] : e.result \in outbox

\* Why both hold.  A grant is there for the approved proposals, within what the
\* owner saw, and is spent when its action is queued; the record of a key stands
\* for the last of the key's effects and outlives them all; what a call has seen
\* of a record is true even when it is old.
GrantsFollowConsent ==
    \A p \in Proposals :
        /\ grant[p].status # "none" <=> proposal[p].status = "approved"
        /\ grant[p].status = "consumed" <=> p \in outbox
        /\ proposal[p].status = "approved" =>
              /\ consent[p].at # 0 /\ consent[p].payload = proposal[p].payload
              /\ grant[p].expiresAt <= proposal[p].expiresAt
              /\ grant[p].expiresAt <= consent[p].at + ApprovalTTL

Recorded(k, r) ==
    r.expiresAt # 0 => \E e \in effects[k] : e.request = r.request /\ e.result = r.result

RecordsFollowEffects ==
    \A k \in Keys :
        /\ Recorded(k, record[k])
        /\ \A e \in effects[k] : e.at + RecordTTL <= record[k].expiresAt

CallsAreSound ==
    \A c \in Calls : call[c].pc # "idle" =>
        /\ call[c].request.proposal = None <=> call[c].key \in ProposeKeys
        /\ Recorded(call[c].key, call[c].record)
        /\ call[c].pc = "locked" => call[c].now \in 1 .. clock

ActionsInv ==
    /\ TypeOK /\ GrantsFollowConsent /\ RecordsFollowEffects /\ CallsAreSound
    /\ ExecutedWithConsent /\ ApprovalUsedOnce

\* What the owner decided, or let expire, stays: no later request, stale listing or
\* call changes a decision, and only an approval makes a grant.
DecisionsStay ==
    [][\A p \in Proposals :
          /\ proposal[p].status \notin {"none", "pending"} => proposal'[p] = proposal[p]
          /\ grant'[p] # grant[p] => proposal'[p].status = "approved"]_vars

\* The calls keep what an idempotency key promises.
Once == INSTANCE OncePerKey WITH
    TTL <- RecordTTL,
    telling <- {[key |-> call[c].key, request |-> call[c].request, result |-> call[c].result] :
                   c \in {d \in Calls : call[d].pc = "answer"}}
KeepsOncePerKey == Once!Spec

=============================================================================
