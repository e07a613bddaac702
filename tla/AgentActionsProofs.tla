------------------------- MODULE AgentActionsProofs -------------------------
(* AgentActions for any number of proposals, clients, keys and calls: its  *)
(* types, the inductive invariant ActionsInv with ExecutedWithConsent and  *)
(* ApprovalUsedOnce, the permanence of decisions, and the refinement of    *)
(* OncePerKey; and, for the scenes of MCCallers, what CallerProofs proves  *)
(* of their components put together.                                       *)
EXTENDS MCCallers, FiniteSetTheorems, TLAPS

\* The default values are of their types.
LEMMA Defaults ==
    /\ NoPayload \in Payloads /\ NoRequest \in Request /\ NoRecord \in Record
    /\ NoGrant \in Grant /\ NoCall \in Call
  <1>1. NoPayload \in Payloads /\ \E k \in Keys : TRUE
    BY ConstantsAssumption DEF NoPayload
  <1>2. NoRequest \in Request
    BY <1>1 DEF NoRequest, Request
  <1>3. NoRecord \in Record /\ NoGrant \in Grant
    BY <1>2 DEF NoRecord, Record, NoGrant, Grant, Result
  <1>4. (CHOOSE k \in Keys : TRUE) \in Keys
    BY <1>1
  <1> QED BY <1>1, <1>2, <1>3, <1>4 DEF NoCall, Call, Result

\* The types of the fields of a call.
LEMMA CallFields ==
    ASSUME TypeOK, NEW c \in Calls
    PROVE  /\ call[c] \in Call /\ call[c].key \in Keys /\ call[c].request \in Request
           /\ call[c].request.proposal \in Proposals \cup {None}
           /\ call[c].request.payload \in Payloads
           /\ call[c].now \in Nat /\ call[c].record \in Record /\ call[c].grant \in Grant
           /\ call[c].result \in Result
           /\ call[c].record.expiresAt \in Nat /\ call[c].grant.expiresAt \in Nat
  BY DEF TypeOK, Call, Request, Record, Grant

\* The types of the rows of a proposal.
LEMMA ProposalFields ==
    ASSUME TypeOK, NEW p \in Proposals
    PROVE  /\ proposal[p] \in Proposal /\ proposal[p].payload \in Payloads
           /\ proposal[p].client \in Clients /\ proposal[p].expiresAt \in Nat
           /\ grant[p] \in Grant /\ grant[p].expiresAt \in Nat
           /\ consent[p] \in Consent /\ consent[p].at \in Nat
  BY DEF TypeOK, Proposal, Grant, Consent

\* A completed call keeps the types.
LEMMA CompletedType ==
    ASSUME TypeOK, NEW c \in Calls, NEW p \in Proposals, Completed(c, p), call[c].now \in Times
    PROVE  /\ record' \in [Keys -> Record] /\ call' \in [Calls -> Call]
           /\ effects' \in [Keys -> SUBSET Effect]
  <1>1. record' \in [Keys -> Record]
    <2>1. call[c].now + RecordTTL \in Nat
      BY CallFields, ConstantsAssumption
    <2> QED BY <2>1, CallFields DEF Completed, RecordExpiry, TypeOK, Record, Result
  <1>2. call' \in [Calls -> Call]
    BY CallFields DEF Completed, TypeOK, Call, Result
  <1>3. effects' \in [Keys -> SUBSET Effect]
    <2>1. [at |-> call[c].now, request |-> call[c].request, result |-> p] \in Effect
      BY CallFields DEF Effect
    <2>2. effects' = [effects EXCEPT ![call[c].key] =
                        @ \cup {[at |-> call[c].now, request |-> call[c].request,
                                 result |-> p]}]
      BY DEF Completed
    <2> QED BY <2>1, <2>2, CallFields DEF TypeOK
  <1> QED BY <1>1, <1>2, <1>3

\* Leaving keeps the calls well formed.
LEMMA LeaveType ==
    ASSUME TypeOK, NEW c \in Calls, Leave(c) PROVE call' \in [Calls -> Call]
  BY Defaults DEF Leave, TypeOK

\* Every step of a call keeps the types, as a locked call has read the clock.
LEMMA CallStepType ==
    ASSUME TypeOK, CallsAreSound, NEW c \in Calls, CallStep(c)
    PROVE  TypeOK'
  <1> USE DEF rows, history
  <1>1. CASE Begin(c)
    <2>1. PICK k \in Keys, q \in Request :
            call' = [call EXCEPT ![c] =
                        [pc |-> "waiting", key |-> k, request |-> q, now |-> 0,
                         record |-> record[k],
                         grant |-> IF q.proposal = None THEN NoGrant ELSE grant[q.proposal],
                         result |-> None]]
      BY <1>1 DEF Begin
    <2>2. (IF q.proposal = None THEN NoGrant ELSE grant[q.proposal]) \in Grant
      BY Defaults, ProposalFields DEF Request
    <2>3. call' \in [Calls -> Call]
      BY <2>1, <2>2 DEF TypeOK, Call, Result
    <2> QED BY <1>1, <2>3 DEF Begin, TypeOK
  <1>2. CASE Lock(c)
    <2>1. call' \in [Calls -> Call]
      BY <1>2, CallFields DEF Lock, TypeOK, Call, Times
    <2> QED BY <1>2, <2>1 DEF Lock, TypeOK
  <1>3. CASE Replay(c)
    <2>1. call' \in [Calls -> Call]
      BY <1>3, CallFields DEF Replay, TypeOK, Call, Record
    <2> QED BY <1>3, <2>1 DEF Replay, TypeOK
  <1>4. CASE Propose(c)
    <2>1. PICK p \in Proposals, instant \in call[c].now .. clock :
            /\ proposal' = [proposal EXCEPT ![p] =
                              [status |-> "pending", client |-> ClientOf[call[c].key],
                               payload |-> call[c].request.payload,
                               expiresAt |-> instant + ProposalTTL]]
            /\ Completed(c, p)
      BY <1>4 DEF Propose
    <2>2. call[c].now \in Times
      BY <1>4, CallFields DEF Propose, CallsAreSound, Times
    <2>3. instant + ProposalTTL \in Nat /\ ClientOf[call[c].key] \in Clients
      BY CallFields, ConstantsAssumption DEF TypeOK, Times
    <2>4. proposal' \in [Proposals -> Proposal]
      BY <2>1, <2>3, CallFields DEF TypeOK, Proposal
    <2> QED BY <1>4, <2>1, <2>2, <2>4, CompletedType DEF Propose, TypeOK
  <1>5. CASE Execute(c)
    <2>1. PICK p \in Proposals \cup {None} : p = call[c].request.proposal
      BY CallFields
    <2>2. /\ grant' = [grant EXCEPT ![p].status = "consumed"]
          /\ outbox' = outbox \cup {p} /\ Completed(c, p)
      BY <1>5, <2>1 DEF Execute
    <2>3. call[c].now \in Times
      BY <1>5, CallFields DEF Execute, CallsAreSound, Times
    <2>4. p \in Proposals
      BY <1>5, <2>1, ConstantsAssumption DEF Execute, CallsAreSound
    <2>5. grant' \in [Proposals -> Grant] /\ outbox' \in SUBSET Proposals
      BY <2>2, <2>4 DEF TypeOK, Grant
    <2> QED BY <1>5, <2>2, <2>3, <2>4, <2>5, CompletedType DEF Execute, TypeOK
  <1>6. CASE RefuseKey(c) \/ Fails(c) \/ Conflict(c) \/ Answer(c) \/ Lose(c)
    BY <1>6, LeaveType DEF RefuseKey, Fails, Conflict, Answer, Lose, TypeOK
  <1> QED BY <1>1, <1>2, <1>3, <1>4, <1>5, <1>6 DEF CallStep

\* The owner's requests keep the types.
LEMMA OwnerStepType ==
    ASSUME TypeOK, OwnerStep
    PROVE  TypeOK'
  <1> USE DEF history
  <1>1. ASSUME NEW p \in Proposals, Approve(p) PROVE TypeOK'
    <2>1. PICK instant \in RequestTimes :
            /\ proposal' = [proposal EXCEPT ![p].status = "approved"]
            /\ grant' = [grant EXCEPT ![p] = [status |-> "active",
                                              expiresAt |-> GrantExpiry(p, instant)]]
            /\ consent' = [consent EXCEPT ![p] = [at |-> instant, payload |-> proposal[p].payload]]
      BY <1>1 DEF Approve
    <2>2. instant \in Nat /\ GrantExpiry(p, instant) \in Nat
      BY <2>1, ProposalFields, ConstantsAssumption DEF RequestTimes, GrantExpiry, Least
    <2>3. proposal' \in [Proposals -> Proposal]
      BY <2>1 DEF TypeOK, Proposal
    <2>4. grant' \in [Proposals -> Grant]
      BY <2>1, <2>2 DEF TypeOK, Grant
    <2>5. consent' \in [Proposals -> Consent]
      BY <2>1, <2>2, ProposalFields DEF TypeOK, Consent
    <2> QED BY <1>1, <2>3, <2>4, <2>5 DEF Approve, TypeOK
  <1>2. ASSUME NEW p \in Proposals, Reject(p) PROVE TypeOK'
    <2>1. proposal' \in [Proposals -> Proposal]
      BY <1>2 DEF Reject, TypeOK, Proposal
    <2> QED BY <1>2, <2>1 DEF Reject, TypeOK
  <1>3. ASSUME Expire PROVE TypeOK'
    <2>1. proposal' \in [Proposals -> Proposal]
      BY <1>3 DEF Expire, TypeOK, Proposal
    <2> QED BY <1>3, <2>1 DEF Expire, TypeOK
  <1> QED BY <1>1, <1>2, <1>3 DEF OwnerStep

-----------------------------------------------------------------------------
(* Steps that leave the rows and the history alone.                        *)

\* What is said of rows and history only.
RowsInv == /\ GrantsFollowConsent /\ RecordsFollowEffects
           /\ ExecutedWithConsent /\ ApprovalUsedOnce

\* It stays true while nobody writes.
LEMMA QuietStep ==
    ASSUME RowsInv, UNCHANGED <<rows, history>>
    PROVE  RowsInv'
  <1>1. UNCHANGED proposal /\ UNCHANGED grant /\ UNCHANGED outbox /\ UNCHANGED record
        /\ UNCHANGED effects /\ UNCHANGED consent
    BY DEF rows, history
  <1>2. GrantsFollowConsent'
    BY <1>1 DEF RowsInv, GrantsFollowConsent
  <1>3. RecordsFollowEffects'
    BY <1>1 DEF RowsInv, RecordsFollowEffects, Recorded
  <1>4. ExecutedWithConsent'
    BY <1>1 DEF RowsInv, ExecutedWithConsent
  <1>5. ApprovalUsedOnce'
    BY <1>1 DEF RowsInv, ApprovalUsedOnce
  <1> QED BY <1>2, <1>3, <1>4, <1>5 DEF RowsInv

\* Calls stay sound when one of them leaves.
LEMMA LeaveSound ==
    ASSUME TypeOK, CallsAreSound, NEW c \in Calls, Leave(c), UNCHANGED <<clock, effects>>
    PROVE  CallsAreSound'
  <1> SUFFICES ASSUME NEW d \in Calls, call'[d].pc # "idle"
               PROVE  /\ call'[d].request.proposal = None <=> call'[d].key \in ProposeKeys
                      /\ Recorded(call[d].key, call[d].record)'
                      /\ call'[d].pc = "locked" => call'[d].now \in 1 .. clock'
    BY DEF CallsAreSound
  <1>1. d # c /\ call'[d] = call[d]
    BY DEF Leave, NoCall, TypeOK
  <1> QED BY <1>1 DEF CallsAreSound, Recorded

\* The steps of a call that only read, and the clock, keep the calls sound.
LEMMA ReadSound ==
    ASSUME TypeOK, CallsAreSound, RecordsFollowEffects, NEW c \in Calls,
           Begin(c) \/ Lock(c) \/ Replay(c)
    PROVE  CallsAreSound'
  <1> USE DEF rows, history
  <1> SUFFICES ASSUME NEW d \in Calls, call'[d].pc # "idle"
               PROVE  /\ call'[d].request.proposal = None <=> call'[d].key \in ProposeKeys
                      /\ Recorded(call[d].key, call[d].record)'
                      /\ call'[d].pc = "locked" => call'[d].now \in 1 .. clock'
    BY DEF CallsAreSound
  <1>1. UNCHANGED effects /\ UNCHANGED clock
    BY DEF Begin, Lock, Replay
  <1>2. CASE d # c
    <2>1. call'[d] = call[d]
      BY <1>2 DEF Begin, Lock, Replay, TypeOK
    <2> QED BY <1>1, <2>1 DEF CallsAreSound, Recorded
  <1>3. CASE d = c /\ Begin(c)
    <2>1. PICK k \in Keys, q \in Request :
            /\ q.proposal = None <=> k \in ProposeKeys
            /\ call' = [call EXCEPT ![c] =
                        [pc |-> "waiting", key |-> k, request |-> q, now |-> 0,
                         record |-> record[k],
                         grant |-> IF q.proposal = None THEN NoGrant ELSE grant[q.proposal],
                         result |-> None]]
      BY <1>3 DEF Begin
    <2>2. /\ call'[d].pc = "waiting" /\ call'[d].key = k /\ call'[d].request = q
          /\ call'[d].record = record[k]
      BY <1>3, <2>1 DEF TypeOK
    <2> QED BY <1>1, <2>1, <2>2 DEF RecordsFollowEffects, Recorded
  <1>4. CASE d = c /\ Lock(c)
    <2>1. /\ call'[d].now = clock /\ call'[d].key = call[d].key
          /\ call'[d].request = call[d].request /\ call'[d].record = call[d].record
          /\ call[d].pc # "idle"
      BY <1>4 DEF Lock, TypeOK, Call
    <2>2. clock \in 1 .. clock
      BY DEF TypeOK, Times
    <2> QED BY <1>1, <2>1, <2>2 DEF CallsAreSound, Recorded
  <1>5. CASE d = c /\ Replay(c)
    <2>1. /\ call'[d].pc = "answer" /\ call'[d].key = call[d].key
          /\ call'[d].request = call[d].request /\ call'[d].record = call[d].record
          /\ call[d].pc # "idle"
      BY <1>5 DEF Replay, TypeOK, Call
    <2> QED BY <1>1, <2>1 DEF CallsAreSound, Recorded
  <1> QED BY <1>2, <1>3, <1>4, <1>5

\* A call that completes writes the record of an effect later than all before,
\* and what other calls have seen stays true.
LEMMA CompletedSound ==
    ASSUME TypeOK, CallsAreSound, RecordsFollowEffects, UNCHANGED clock,
           NEW c \in Calls, NEW p \in Proposals, call[c].pc = "locked", ~Live(c),
           RecordUnwritten(c), Completed(c, p)
    PROVE  /\ RecordsFollowEffects' /\ CallsAreSound'
           /\ \A f \in effects[call[c].key] : call[c].now >= f.at + RecordTTL
  <1> DEFINE k == call[c].key
             e == [at |-> call[c].now, request |-> call[c].request, result |-> p]
             r == [request |-> call[c].request, result |-> p,
                   expiresAt |-> call[c].now + RecordTTL]
  <1>1. /\ k \in Keys /\ call[c].now \in Nat /\ call[c].now \in 1 .. clock
        /\ RecordTTL \in Nat \ {0}
    BY CallFields, ConstantsAssumption DEF CallsAreSound
  <1>2. record' = [record EXCEPT ![k] = r]
    BY DEF Completed, RecordExpiry
  <1>3. effects' = [effects EXCEPT ![k] = @ \cup {e}]
    BY DEF Completed
  <1>4. call' = [call EXCEPT ![c].pc = "answer", ![c].result = p]
    BY DEF Completed
  <1>5. record'[k] = r /\ effects'[k] = effects[k] \cup {e}
    BY <1>1, <1>2, <1>3 DEF TypeOK
  <1>6. record[k].expiresAt <= call[c].now /\ record[k].expiresAt \in Nat
    BY <1>1, CallFields DEF Live, RecordUnwritten
  <1>7. ASSUME NEW f \in effects[k] PROVE call[c].now >= f.at + RecordTTL
    <2>1. f.at \in Nat /\ f.at + RecordTTL <= record[k].expiresAt
      BY <1>1 DEF TypeOK, Effect, Times, RecordsFollowEffects
    <2> QED BY <1>1, <1>6, <2>1
  <1>8. RecordsFollowEffects'
    <2> SUFFICES ASSUME NEW l \in Keys
                 PROVE  /\ Recorded(l, record[l])'
                        /\ \A f \in effects'[l] : f.at + RecordTTL <= record'[l].expiresAt
      BY DEF RecordsFollowEffects
    <2>1. CASE l # k
      <3>1. record'[l] = record[l] /\ effects'[l] = effects[l]
        BY <1>2, <1>3, <2>1 DEF TypeOK
      <3> QED BY <3>1 DEF RecordsFollowEffects, Recorded
    <2>2. CASE l = k
      <3>1. Recorded(l, record[l])'
        <4>1. /\ e \in effects'[l] /\ e.request = record'[l].request
              /\ e.result = record'[l].result
          BY <1>5, <2>2
        <4> HIDE DEF e
        <4> QED BY <4>1 DEF Recorded
      <3>2. ASSUME NEW f \in effects'[l] PROVE f.at + RecordTTL <= record'[l].expiresAt
        <4>1. CASE f = e
          BY <1>1, <1>5, <2>2, <4>1
        <4>2. CASE f \in effects[k]
          <5>1. f.at \in Nat /\ call[c].now >= f.at + RecordTTL
            BY <1>1, <1>7, <4>2 DEF TypeOK, Effect, Times
          <5> QED BY <1>1, <1>5, <2>2, <5>1
        <4> QED BY <1>5, <2>2, <4>1, <4>2
      <3> QED BY <3>1, <3>2
    <2> QED BY <2>1, <2>2
  <1>9. CallsAreSound'
    <2> SUFFICES ASSUME NEW d \in Calls, call'[d].pc # "idle"
                 PROVE  /\ call'[d].request.proposal = None <=> call'[d].key \in ProposeKeys
                        /\ Recorded(call[d].key, call[d].record)'
                        /\ call'[d].pc = "locked" => call'[d].now \in 1 .. clock'
      BY DEF CallsAreSound
    <2>1. /\ call'[d].key = call[d].key /\ call'[d].request = call[d].request
          /\ call'[d].record = call[d].record /\ call'[d].now = call[d].now
          /\ call[d].pc # "idle"
          /\ call'[d].pc = "locked" => call[d].pc = "locked"
      BY <1>4 DEF TypeOK, Call
    <2>2. effects[call[d].key] \subseteq effects'[call[d].key]
      BY <1>1, <1>3, CallFields DEF TypeOK
    <2> HIDE DEF e, r
    <2>3. Recorded(call[d].key, call[d].record)
      BY <2>1 DEF CallsAreSound
    <2>4. Recorded(call[d].key, call[d].record)'
      BY <2>1, <2>2, <2>3 DEF Recorded
    <2>5. call[d].request.proposal = None <=> call[d].key \in ProposeKeys
      BY <2>1 DEF CallsAreSound
    <2>6. call[d].pc = "locked" => call[d].now \in 1 .. clock
      BY <2>1 DEF CallsAreSound
    <2> QED BY <2>1, <2>4, <2>5, <2>6
  <1> QED BY <1>7, <1>8, <1>9

-----------------------------------------------------------------------------
(* Steps that write.                                                       *)

\* Effects are results of rows there are.
LEMMA EffectFields ==
    ASSUME TypeOK, NEW k \in Keys, NEW e \in effects[k]
    PROVE  e.at \in Times /\ e.result \in Proposals /\ e.request \in Request
  BY DEF TypeOK, Effect

\* A new proposal is not one that was approved.
LEMMA ProposeSound ==
    ASSUME ActionsInv, NEW c \in Calls, Propose(c)
    PROVE  RowsInv' /\ CallsAreSound'
  <1>1. PICK p \in Proposals, instant \in call[c].now .. clock :
          /\ proposal[p].status = "none"
          /\ proposal' = [proposal EXCEPT ![p] =
                            [status |-> "pending", client |-> ClientOf[call[c].key],
                             payload |-> call[c].request.payload,
                             expiresAt |-> instant + ProposalTTL]]
          /\ Completed(c, p)
    BY DEF Propose
  <1>2. RecordsFollowEffects' /\ CallsAreSound'
    BY <1>1, CompletedSound DEF ActionsInv, Propose
  <1>3. UNCHANGED grant /\ UNCHANGED outbox /\ UNCHANGED consent
    BY DEF Propose
  <1>4. proposal'[p].status = "pending" /\ \A q \in Proposals \ {p} : proposal'[q] = proposal[q]
    BY <1>1 DEF ActionsInv, TypeOK
  <1>5. \A k \in ExecuteKeys : effects'[k] = effects[k]
    BY <1>1, ConstantsAssumption DEF ActionsInv, TypeOK, Completed, Propose, Keys
  <1>6. GrantsFollowConsent'
    <2>1. grant[p].status = "none" /\ p \notin outbox
      BY <1>1 DEF ActionsInv, GrantsFollowConsent
    <2> QED BY <1>3, <1>4, <2>1 DEF ActionsInv, GrantsFollowConsent
  <1>7. ExecutedWithConsent'
    <2> SUFFICES ASSUME NEW k \in ExecuteKeys, NEW e \in effects'[k]
                 PROVE  /\ e.result = e.request.proposal
                        /\ consent'[e.result].at # 0
                        /\ consent'[e.result].payload = e.request.payload
                        /\ proposal'[e.result].client = ClientOf[k]
                        /\ proposal'[e.result].status = "approved"
                        /\ e.at < consent'[e.result].at + ApprovalTTL
                        /\ e.at < proposal'[e.result].expiresAt
      BY DEF ExecutedWithConsent
    <2>1. e \in effects[k] /\ e.result \in Proposals
      BY <1>5, EffectFields DEF ActionsInv, Keys
    <2>2. proposal[e.result].status = "approved"
      BY <2>1 DEF ActionsInv, ExecutedWithConsent
    <2>3. proposal'[e.result] = proposal[e.result]
      BY <1>1, <1>4, <2>1, <2>2
    <2> QED BY <1>3, <2>1, <2>3 DEF ActionsInv, ExecutedWithConsent
  <1>8. ApprovalUsedOnce'
    BY <1>3, <1>5 DEF ActionsInv, ApprovalUsedOnce
  <1> QED BY <1>2, <1>6, <1>7, <1>8 DEF RowsInv

\* What is executed had an active grant, whose row nobody has written since: so it
\* was approved, in time, and never executed before.
LEMMA ExecuteSound ==
    ASSUME ActionsInv, NEW c \in Calls, Execute(c)
    PROVE  RowsInv' /\ CallsAreSound'
  <1> DEFINE p == call[c].request.proposal
             k == call[c].key
             e == [at |-> call[c].now, request |-> call[c].request, result |-> p]
  <1>1. p \in Proposals /\ k \in Keys /\ k \in ExecuteKeys
    BY CallFields, ConstantsAssumption DEF ActionsInv, Execute, CallsAreSound
  <1>2. /\ \E instant \in call[c].now .. clock : ValidGrant(c, instant)
        /\ grant[p] = call[c].grant /\ p \notin outbox /\ Completed(c, p)
        /\ UNCHANGED proposal /\ UNCHANGED clock /\ UNCHANGED consent
    BY DEF Execute
  <1>3. grant' = [grant EXCEPT ![p].status = "consumed"] /\ outbox' = outbox \cup {p}
    BY DEF Execute
  <1>4. RecordsFollowEffects' /\ CallsAreSound'
    BY <1>1, <1>2, CompletedSound DEF ActionsInv, Execute
  <1>5. /\ grant[p].status = "active" /\ call[c].now < grant[p].expiresAt
        /\ proposal[p].client = ClientOf[k] /\ proposal[p].payload = call[c].request.payload
    <2>1. PICK instant \in call[c].now .. clock : ValidGrant(c, instant)
      BY <1>2
    <2>2. /\ call[c].now \in Nat
         /\ instant \in Int
         /\ call[c].now <= instant
         /\ grant[p].expiresAt \in Nat
      BY <1>1, CallFields, ProposalFields DEF ActionsInv, TypeOK, Times
    <2> QED BY <1>2, <2>1, <2>2 DEF ValidGrant
  <1>6. /\ proposal[p].status = "approved" /\ consent[p].at # 0
        /\ consent[p].payload = proposal[p].payload
        /\ grant[p].expiresAt <= proposal[p].expiresAt
        /\ grant[p].expiresAt <= consent[p].at + ApprovalTTL
    BY <1>1, <1>5 DEF ActionsInv, GrantsFollowConsent
  <1>7. /\ effects'[k] = effects[k] \cup {e}
        /\ \A l \in Keys \ {k} : effects'[l] = effects[l]
    <2>1. effects' = [effects EXCEPT ![k] = @ \cup {e}]
      BY <1>2 DEF Completed
    <2> QED BY <1>1, <2>1 DEF ActionsInv, TypeOK
  <1>8. /\ grant'[p].status = "consumed" /\ grant'[p].expiresAt = grant[p].expiresAt
        /\ \A q \in Proposals \ {p} : grant'[q] = grant[q]
    BY <1>1, <1>3 DEF ActionsInv, TypeOK, Grant
  <1>9. /\ e.result = e.request.proposal /\ consent[e.result].payload = e.request.payload
        /\ e.at < consent[e.result].at + ApprovalTTL /\ e.at < proposal[e.result].expiresAt
        /\ e.result = p
    <2>1. /\ call[c].now \in Nat /\ grant[p].expiresAt \in Nat /\ consent[p].at \in Nat
          /\ proposal[p].expiresAt \in Nat /\ ApprovalTTL \in Nat
      BY <1>1, CallFields, ProposalFields, ConstantsAssumption DEF ActionsInv
    <2> QED BY <1>5, <1>6, <2>1
  <1> HIDE DEF e
  <1>10. GrantsFollowConsent'
    <2> SUFFICES ASSUME NEW q \in Proposals
                 PROVE  /\ grant'[q].status # "none" <=> proposal'[q].status = "approved"
                        /\ grant'[q].status = "consumed" <=> q \in outbox'
                        /\ proposal'[q].status = "approved" =>
                              /\ consent'[q].at # 0 /\ consent'[q].payload = proposal'[q].payload
                              /\ grant'[q].expiresAt <= proposal'[q].expiresAt
                              /\ grant'[q].expiresAt <= consent'[q].at + ApprovalTTL
      BY DEF GrantsFollowConsent
    <2>1. CASE q = p
      BY <1>2, <1>3, <1>6, <1>8, <2>1
    <2>2. CASE q # p
      <3>1. grant'[q] = grant[q] /\ (q \in outbox' <=> q \in outbox)
        BY <1>3, <1>8, <2>2
      <3> QED BY <1>2, <3>1 DEF ActionsInv, GrantsFollowConsent
    <2> QED BY <2>1, <2>2
  <1>11. ExecutedWithConsent'
    <2> SUFFICES ASSUME NEW l \in ExecuteKeys, NEW f \in effects'[l]
                 PROVE  /\ f.result = f.request.proposal
                        /\ consent[f.result].at # 0
                        /\ consent[f.result].payload = f.request.payload
                        /\ proposal[f.result].client = ClientOf[l]
                        /\ proposal[f.result].status = "approved"
                        /\ f.at < consent[f.result].at + ApprovalTTL
                        /\ f.at < proposal[f.result].expiresAt
      BY <1>2 DEF ExecutedWithConsent
    <2>1. CASE f \in effects[l]
      BY <2>1 DEF ActionsInv, ExecutedWithConsent
    <2>2. CASE f \notin effects[l]
      <3>1. l = k /\ f = e
        BY <1>7, <2>2 DEF Keys
      <3> QED BY <1>5, <1>6, <1>9, <3>1
    <2> QED BY <2>1, <2>2
  <1>12. ApprovalUsedOnce'
    <2>1. \A q \in Proposals : q \in outbox' <=> grant'[q].status = "consumed"
      BY <1>10 DEF GrantsFollowConsent
    <2>2. \A l \in ExecuteKeys : \A f \in effects[l] : f.result \in outbox /\ f.result # p
      BY <1>2 DEF ActionsInv, ApprovalUsedOnce
    <2>3. \A l \in ExecuteKeys : \A f \in effects'[l] : f \in effects[l] \/ (l = k /\ f = e)
      BY <1>7 DEF Keys
    <2>4. \A l \in ExecuteKeys : \A f \in effects'[l] : f.result \in outbox'
      BY <1>3, <1>9, <2>2, <2>3
    <2>5. ASSUME NEW l \in ExecuteKeys, NEW m \in ExecuteKeys,
                 NEW f \in effects'[l], NEW g \in effects'[m], f.result = g.result
          PROVE  l = m /\ f = g
      <3>1. CASE f \in effects[l] /\ g \in effects[m]
        BY <2>5, <3>1 DEF ActionsInv, ApprovalUsedOnce
      <3>2. CASE f \notin effects[l] \/ g \notin effects[m]
        BY <1>9, <2>2, <2>3, <2>5, <3>2
      <3> QED BY <3>1, <3>2
    <2> QED BY <2>1, <2>4, <2>5 DEF ApprovalUsedOnce
  <1> QED BY <1>4, <1>10, <1>11, <1>12 DEF RowsInv

\* The rows an owner's request, which changes no effect and no queued action, may
\* touch: those not approved, and those it approves.
LEMMA OwnerStepSound ==
    ASSUME ActionsInv, OwnerStep
    PROVE  RowsInv' /\ CallsAreSound'
  <1> USE DEF history
  <1>1. /\ UNCHANGED outbox /\ UNCHANGED record /\ UNCHANGED call /\ UNCHANGED clock
        /\ UNCHANGED effects
    BY DEF OwnerStep, Approve, Reject, Expire
  <1>2. RecordsFollowEffects' /\ CallsAreSound'
    BY <1>1 DEF ActionsInv, RecordsFollowEffects, CallsAreSound, Recorded
  <1>3. ASSUME NEW q \in Proposals
        PROVE  \/ /\ proposal'[q].status = proposal[q].status
                  /\ UNCHANGED <<proposal[q], grant[q], consent[q]>>
               \/ /\ proposal[q].status = "pending" /\ proposal'[q].status # "approved"
                  /\ UNCHANGED <<grant[q], consent[q]>>
               \/ /\ proposal[q].status = "pending" /\ proposal'[q].status = "approved"
                  /\ grant'[q].status = "active" /\ consent'[q].at # 0
                  /\ consent'[q].payload = proposal'[q].payload
                  /\ grant'[q].expiresAt <= proposal'[q].expiresAt
                  /\ grant'[q].expiresAt <= consent'[q].at + ApprovalTTL
    <2>1. ASSUME NEW p \in Proposals, Approve(p)
          PROVE  \/ UNCHANGED <<proposal[q], grant[q], consent[q]>>
                 \/ /\ proposal[q].status = "pending" /\ proposal'[q].status = "approved"
                    /\ grant'[q].status = "active" /\ consent'[q].at # 0
                    /\ consent'[q].payload = proposal'[q].payload
                    /\ grant'[q].expiresAt <= proposal'[q].expiresAt
                    /\ grant'[q].expiresAt <= consent'[q].at + ApprovalTTL
      <3>1. PICK instant \in RequestTimes :
              /\ Decidable(p, instant)
              /\ proposal' = [proposal EXCEPT ![p].status = "approved"]
              /\ grant' = [grant EXCEPT ![p] = [status |-> "active",
                                                expiresAt |-> GrantExpiry(p, instant)]]
              /\ consent' = [consent EXCEPT ![p] = [at |-> instant,
                                                    payload |-> proposal[p].payload]]
        BY <2>1 DEF Approve
      <3>2. CASE q # p
        BY <3>1, <3>2 DEF ActionsInv, TypeOK
      <3>3. CASE q = p
        <4>1. /\ proposal'[q].status = "approved" /\ proposal'[q].payload = proposal[q].payload
              /\ proposal'[q].expiresAt = proposal[q].expiresAt
          BY <3>1, <3>3 DEF ActionsInv, TypeOK, Proposal
        <4>2. /\ grant'[q].status = "active" /\ grant'[q].expiresAt = GrantExpiry(q, instant)
              /\ consent'[q].at = instant /\ consent'[q].payload = proposal[q].payload
          BY <3>1, <3>3 DEF ActionsInv, TypeOK
        <4>3. instant \in Nat /\ instant # 0
          BY <3>1 DEF RequestTimes
        <4>4. /\ GrantExpiry(q, instant) <= proposal[q].expiresAt
              /\ GrantExpiry(q, instant) <= instant + ApprovalTTL
          BY <4>3, ProposalFields, ConstantsAssumption DEF ActionsInv, GrantExpiry, Least
        <4> QED BY <3>1, <3>3, <4>1, <4>2, <4>3, <4>4 DEF Decidable
      <3> QED BY <3>2, <3>3
    <2>2. ASSUME NEW p \in Proposals, Reject(p)
          PROVE  \/ UNCHANGED <<proposal[q], grant[q], consent[q]>>
                 \/ /\ proposal[q].status = "pending" /\ proposal'[q].status # "approved"
                    /\ UNCHANGED <<grant[q], consent[q]>>
      BY <2>2 DEF Reject, Decidable, ActionsInv, TypeOK
    <2>3. ASSUME Expire
          PROVE  \/ UNCHANGED <<proposal[q], grant[q], consent[q]>>
                 \/ /\ proposal[q].status = "pending" /\ proposal'[q].status # "approved"
                    /\ UNCHANGED <<grant[q], consent[q]>>
      BY <2>3 DEF Expire, ActionsInv, TypeOK, Proposal
    <2> QED BY <2>1, <2>2, <2>3 DEF OwnerStep
  <1>4. ASSUME NEW q \in Proposals, proposal[q].status = "approved"
        PROVE  UNCHANGED proposal[q] /\ UNCHANGED grant[q] /\ UNCHANGED consent[q]
    BY <1>3, <1>4
  <1>5. GrantsFollowConsent'
    <2> SUFFICES ASSUME NEW q \in Proposals
                 PROVE  /\ grant'[q].status # "none" <=> proposal'[q].status = "approved"
                        /\ grant'[q].status = "consumed" <=> q \in outbox
                        /\ proposal'[q].status = "approved" =>
                              /\ consent'[q].at # 0 /\ consent'[q].payload = proposal'[q].payload
                              /\ grant'[q].expiresAt <= proposal'[q].expiresAt
                              /\ grant'[q].expiresAt <= consent'[q].at + ApprovalTTL
      BY <1>1 DEF GrantsFollowConsent
    <2>1. /\ grant[q].status # "none" <=> proposal[q].status = "approved"
          /\ grant[q].status = "consumed" <=> q \in outbox
          /\ proposal[q].status = "approved" =>
                /\ consent[q].at # 0 /\ consent[q].payload = proposal[q].payload
                /\ grant[q].expiresAt <= proposal[q].expiresAt
                /\ grant[q].expiresAt <= consent[q].at + ApprovalTTL
      BY DEF ActionsInv, GrantsFollowConsent
    <2> QED BY <1>3, <2>1
  <1>6. ExecutedWithConsent'
    <2> SUFFICES ASSUME NEW k \in ExecuteKeys, NEW e \in effects[k]
                 PROVE  /\ e.result = e.request.proposal
                        /\ consent'[e.result].at # 0
                        /\ consent'[e.result].payload = e.request.payload
                        /\ proposal'[e.result].client = ClientOf[k]
                        /\ proposal'[e.result].status = "approved"
                        /\ e.at < consent'[e.result].at + ApprovalTTL
                        /\ e.at < proposal'[e.result].expiresAt
      BY <1>1 DEF ExecutedWithConsent
    <2>1. e.result \in Proposals /\ proposal[e.result].status = "approved"
      BY EffectFields DEF ActionsInv, ExecutedWithConsent, Keys
    <2> QED BY <1>4, <2>1 DEF ActionsInv, ExecutedWithConsent
  <1>7. ApprovalUsedOnce'
    BY <1>1, <1>5 DEF ActionsInv, ApprovalUsedOnce, GrantsFollowConsent
  <1> QED BY <1>2, <1>5, <1>6, <1>7 DEF RowsInv

\* The clock only advances.
LEMMA TickSound ==
    ASSUME ActionsInv, Tick
    PROVE  TypeOK' /\ RowsInv' /\ CallsAreSound'
  <1>1. UNCHANGED rows /\ UNCHANGED history /\ UNCHANGED call /\ clock' = clock + 1
    BY DEF Tick
  <1>2. TypeOK'
    BY <1>1 DEF ActionsInv, TypeOK, rows, history, Times
  <1>3. RowsInv'
    BY <1>1, QuietStep DEF ActionsInv, RowsInv
  <1>4. UNCHANGED effects /\ clock \in Nat
    BY <1>1 DEF history, ActionsInv, TypeOK, Times
  <1>5. CallsAreSound'
    BY <1>1, <1>4 DEF ActionsInv, CallsAreSound, Recorded
  <1> QED BY <1>2, <1>3, <1>5

\* The initial state.
LEMMA InitSound == Init => ActionsInv
  <1> SUFFICES ASSUME Init PROVE ActionsInv
    OBVIOUS
  <1>1. (CHOOSE x \in Clients : TRUE) \in Clients
    BY ConstantsAssumption
  <1>2. TypeOK
    BY <1>1, Defaults DEF Init, TypeOK, Proposal, Consent, Times
  <1>3. GrantsFollowConsent
    BY DEF Init, GrantsFollowConsent, NoGrant
  <1>4. RecordsFollowEffects
    BY DEF Init, RecordsFollowEffects, Recorded, NoRecord
  <1>5. CallsAreSound
    BY DEF Init, CallsAreSound, NoCall
  <1>6. ExecutedWithConsent
    BY DEF Init, ExecutedWithConsent, Keys
  <1>7. ApprovalUsedOnce
    BY DEF Init, ApprovalUsedOnce, Keys, NoGrant
  <1> QED BY <1>2, <1>3, <1>4, <1>5, <1>6, <1>7 DEF ActionsInv

\* Every step keeps the inductive invariant.
LEMMA StepSound == ActionsInv /\ [Next]_vars => ActionsInv'
  <1> SUFFICES ASSUME ActionsInv, [Next]_vars PROVE ActionsInv'
    OBVIOUS
  <1>1. ASSUME NEW c \in Calls, CallStep(c) PROVE ActionsInv'
    <2>1. TypeOK'
      BY <1>1, CallStepType DEF ActionsInv
    <2>2. CASE Propose(c) \/ Execute(c)
      BY <2>1, <2>2, ProposeSound, ExecuteSound DEF ActionsInv, RowsInv
    <2>3. CASE Begin(c) \/ Lock(c) \/ Replay(c)
      <3>1. UNCHANGED rows /\ UNCHANGED history
        BY <2>3 DEF Begin, Lock, Replay
      <3>2. CallsAreSound'
        BY <2>3, ReadSound DEF ActionsInv
      <3> QED BY <2>1, <3>1, <3>2, QuietStep DEF ActionsInv, RowsInv
    <2>4. CASE RefuseKey(c) \/ Fails(c) \/ Conflict(c) \/ Answer(c) \/ Lose(c)
      <3>1. Leave(c) /\ UNCHANGED rows /\ UNCHANGED history /\ UNCHANGED clock
        BY <2>4 DEF RefuseKey, Fails, Conflict, Answer, Lose
      <3>2. CallsAreSound'
        BY <3>1, LeaveSound DEF ActionsInv, history
      <3> QED BY <2>1, <3>1, <3>2, QuietStep DEF ActionsInv, RowsInv
    <2> QED BY <1>1, <2>2, <2>3, <2>4 DEF CallStep
  <1>2. CASE OwnerStep
    BY <1>2, OwnerStepType, OwnerStepSound DEF ActionsInv, RowsInv
  <1>3. CASE Tick
    BY <1>3, TickSound DEF ActionsInv, RowsInv
  <1>4. CASE UNCHANGED vars
    <2>1. UNCHANGED rows /\ UNCHANGED history /\ UNCHANGED call /\ UNCHANGED clock
      BY <1>4 DEF vars, rows, history
    <2>2. TypeOK'
      BY <2>1 DEF ActionsInv, TypeOK, rows, history
    <2>3. CallsAreSound'
      BY <2>1 DEF ActionsInv, CallsAreSound, Recorded, history
    <2> QED BY <2>1, <2>2, <2>3, QuietStep DEF ActionsInv, RowsInv
  <1> QED BY <1>1, <1>2, <1>3, <1>4 DEF Next

-----------------------------------------------------------------------------
(* What each step is to the caller of a key.                               *)

\* The answers on their way, as Once sees them.
Told(c) == [key |-> call[c].key, request |-> call[c].request, result |-> call[c].result]
Telling == {Told(c) : c \in {d \in Calls : call[d].pc = "answer"}}

\* A step at most adds the answer of the call that takes it.
LEMMA TellingGrows ==
    ASSUME NEW c \in Calls, \A d \in Calls \ {c} : call'[d] = call[d]
    PROVE  /\ Telling' \subseteq Telling \cup {Told(c)'}
           /\ call'[c].pc # "answer" => Telling' \subseteq Telling
  BY DEF Telling, Told

\* A call completes: something is done under its key.
LEMMA CompletedApplies ==
    ASSUME TypeOK, CallsAreSound, RecordsFollowEffects, UNCHANGED clock,
           NEW c \in Calls, NEW p \in Proposals, call[c].pc = "locked", ~Live(c),
           RecordUnwritten(c), Completed(c, p)
    PROVE  Once!Next
  <1> DEFINE k == call[c].key
             e == [at |-> call[c].now, request |-> call[c].request, result |-> p]
  <1>1. k \in Keys
    BY CallFields
  <1>2. effects' = [effects EXCEPT ![k] = @ \cup {e}]
    BY DEF Completed
  <1>3. e \in effects'[k]
    BY <1>1, <1>2 DEF TypeOK
  <1>4. \A f \in effects[k] : e.at >= f.at + RecordTTL
    BY CompletedSound
  <1>5. /\ \A d \in Calls \ {c} : call'[d] = call[d]
        /\ call'[c].key = k /\ call'[c].request = call[c].request /\ call'[c].result = p
    BY DEF Completed, TypeOK, Call
  <1>6. Told(c)' = Once!AnswerOf(k, e)
    BY <1>5 DEF Told, Once!AnswerOf
  <1>7. Telling' \subseteq Telling \cup {Once!AnswerOf(k, e)}
    BY <1>5, <1>6, TellingGrows
  <1> HIDE DEF e, k
  <1> QED BY <1>1, <1>2, <1>3, <1>4, <1>7 DEF Once!Next, Once!Apply, Telling, Told

\* A replay tells what was done under the key for this request.
LEMMA ReplayAnswers ==
    ASSUME TypeOK, CallsAreSound, NEW c \in Calls, Replay(c)
    PROVE  Once!Next
  <1>1. call[c].now \in Nat /\ call[c].record.expiresAt \in Nat
    BY CallFields
  <1>2. /\ call[c].record.expiresAt # 0 /\ call[c].pc # "idle"
        /\ call[c].record.request = call[c].request
        /\ UNCHANGED effects
    BY <1>1 DEF Replay, Live, SameRequest, history
  <1>3. PICK e \in effects[call[c].key] :
          e.request = call[c].record.request /\ e.result = call[c].record.result
    BY <1>2 DEF CallsAreSound, Recorded
  <1>4. /\ \A d \in Calls \ {c} : call'[d] = call[d]
        /\ call'[c].key = call[c].key /\ call'[c].request = call[c].request
        /\ call'[c].result = call[c].record.result
    BY DEF Replay, TypeOK, Call
  <1>5. Told(c)' = Once!AnswerOf(call[c].key, e)
    BY <1>2, <1>3, <1>4 DEF Told, Once!AnswerOf
  <1>6. Telling' \subseteq Telling \cup {Once!AnswerOf(call[c].key, e)}
    BY <1>4, <1>5, TellingGrows
  <1> QED BY <1>2, <1>3, <1>6, CallFields DEF Once!Next, Once!Answer, Telling, Told

\* Every step is a step of the promise.
LEMMA StepKeepsPromise == ActionsInv /\ [Next]_vars => [Once!Next]_(Once!vars)
  <1> SUFFICES ASSUME ActionsInv, [Next]_vars PROVE Once!Next
    OBVIOUS
  <1>1. ASSUME Telling' \subseteq Telling, UNCHANGED effects PROVE Once!Next
    BY <1>1 DEF Once!Next, Once!Silence, Telling, Told
  <1>2. ASSUME NEW c \in Calls, CallStep(c) PROVE Once!Next
    <2>2. CASE Propose(c)
      BY <2>2, CompletedApplies DEF Propose, ActionsInv
    <2>3. CASE Execute(c)
      <3>1. call[c].request.proposal \in Proposals
        BY <2>3, CallFields, ConstantsAssumption DEF Execute, ActionsInv, CallsAreSound
      <3> QED BY <2>3, <3>1, CompletedApplies DEF Execute, ActionsInv
    <2>4. CASE Replay(c)
      BY <2>4, ReplayAnswers DEF ActionsInv
    <2>5. CASE Begin(c) \/ Lock(c)
      <3>1. /\ \A d \in Calls \ {c} : call'[d] = call[d]
            /\ call'[c].pc = "waiting" \/ call'[c].pc = "locked"
        BY <2>5 DEF Begin, Lock, ActionsInv, TypeOK, Call
      <3>2. UNCHANGED effects
        BY <2>5 DEF Begin, Lock, history
      <3> QED BY <1>1, <3>1, <3>2, TellingGrows
    <2>6. CASE RefuseKey(c) \/ Fails(c) \/ Conflict(c) \/ Answer(c) \/ Lose(c)
      <3>1. Leave(c) /\ UNCHANGED effects
        BY <2>6 DEF RefuseKey, Fails, Conflict, Answer, Lose, history
      <3>2. /\ \A d \in Calls \ {c} : call'[d] = call[d]
            /\ call'[c].pc # "answer"
        BY <3>1 DEF Leave, NoCall, ActionsInv, TypeOK
      <3> QED BY <1>1, <3>1, <3>2, TellingGrows
    <2> QED BY <1>2, <2>2, <2>3, <2>4, <2>5, <2>6 DEF CallStep
  <1>3. CASE OwnerStep \/ Tick \/ UNCHANGED vars
    <2>1. UNCHANGED call /\ UNCHANGED effects
      BY <1>3 DEF OwnerStep, Approve, Reject, Expire, Tick, vars, history
    <2>2. Telling' \subseteq Telling
      BY <2>1 DEF Telling, Told
    <2> QED BY <1>1, <2>1, <2>2
  <1> QED BY <1>2, <1>3 DEF Next

\* Only the owner decides, only what is pending, and only an approval makes a grant.
LEMMA StepKeepsDecisions ==
    ASSUME ActionsInv, ActionsInv', [Next]_vars, NEW p \in Proposals
    PROVE  /\ proposal[p].status \notin {"none", "pending"} => proposal'[p] = proposal[p]
           /\ grant'[p] # grant[p] => proposal'[p].status = "approved"
  <1>1. grant'[p].status # "none" <=> proposal'[p].status = "approved"
    BY DEF ActionsInv, GrantsFollowConsent
  <1>2. ASSUME NEW c \in Calls, Propose(c)
        PROVE  (proposal[p].status # "none" => proposal'[p] = proposal[p]) /\ UNCHANGED grant
    BY <1>2 DEF Propose, ActionsInv, TypeOK
  <1>3. ASSUME NEW c \in Calls, Execute(c)
        PROVE  UNCHANGED proposal /\ (grant'[p] # grant[p] => grant'[p].status = "consumed")
    BY <1>3 DEF Execute, ActionsInv, TypeOK, Grant
  <1>4. ASSUME NEW q \in Proposals, Approve(q)
        PROVE  /\ proposal[p].status # "pending" => proposal'[p] = proposal[p]
               /\ grant'[p] # grant[p] => grant'[p].status = "active"
    BY <1>4 DEF Approve, Decidable, ActionsInv, TypeOK
  <1>5. ASSUME (\E q \in Proposals : Reject(q)) \/ Expire
        PROVE  (proposal[p].status # "pending" => proposal'[p] = proposal[p]) /\ UNCHANGED grant
    BY <1>5 DEF Reject, Expire, Decidable, ActionsInv, TypeOK
  <1>6. ASSUME \/ \E c \in Calls : \/ Begin(c) \/ Lock(c) \/ Replay(c) \/ RefuseKey(c)
                                  \/ Fails(c) \/ Conflict(c) \/ Answer(c) \/ Lose(c)
               \/ Tick \/ UNCHANGED vars
        PROVE  UNCHANGED proposal /\ UNCHANGED grant
    BY <1>6 DEF Begin, Lock, Replay, RefuseKey, Fails, Conflict, Answer, Lose, Tick, vars, rows
  <1> QED BY <1>1, <1>2, <1>3, <1>4, <1>5, <1>6 DEF Next, CallStep, OwnerStep

-----------------------------------------------------------------------------
(* The theorems.                                                           *)

\* The inductive invariant holds always: grants follow what the owner consented to,
\* records follow effects, and what a call has seen stays true.
THEOREM ActionsInvariant == Spec => []ActionsInv
  BY InitSound, StepSound, PTL DEF Spec

\* Every variable keeps its type.
THEOREM ActionsTypeCorrect == Spec => []TypeOK
  <1>1. ActionsInv => TypeOK
    BY DEF ActionsInv
  <1> QED BY <1>1, ActionsInvariant, PTL

\* Nothing is executed but what the owner approved, for the client that proposed it
\* and while approval and proposal last, however stale a call's snapshot is.
THEOREM ConsentGiven == Spec => []ExecutedWithConsent
  <1>1. ActionsInv => ExecutedWithConsent
    BY DEF ActionsInv
  <1> QED BY <1>1, ActionsInvariant, PTL

\* No approval is used twice, under one key or under several.
THEOREM UsedOnce == Spec => []ApprovalUsedOnce
  <1>1. ActionsInv => ApprovalUsedOnce
    BY DEF ActionsInv
  <1> QED BY <1>1, ActionsInvariant, PTL

\* A decision of the owner stays, and so does the end of a proposal nobody decided.
THEOREM DecisionsPermanent == Spec => DecisionsStay
  <1>1. ActionsInv /\ ActionsInv' /\ [Next]_vars =>
           \A p \in Proposals :
              /\ proposal[p].status \notin {"none", "pending"} => proposal'[p] = proposal[p]
              /\ grant'[p] # grant[p] => proposal'[p].status = "approved"
    BY StepKeepsDecisions
  <1> QED BY <1>1, ActionsInvariant, PTL DEF Spec, DecisionsStay

\* The tool calls keep the promise of idempotency keys: one effect in the life time
\* of a record, and no answer but the answer of an effect of the same request.
THEOREM CallsImplementOncePerKey == Spec => KeepsOncePerKey
  <1>1. Init => Once!Init
    <2> SUFFICES ASSUME Init PROVE Once!Init
      OBVIOUS
    <2>1. Telling = {}
      BY DEF Init, Telling, NoCall
    <2> QED BY <2>1 DEF Init, Once!Init, Telling, Told
  <1> QED BY <1>1, StepKeepsPromise, ActionsInvariant, PTL DEF Spec, KeepsOncePerKey, Once!Spec

-----------------------------------------------------------------------------
(* The components that people, agents and commands call, in one run        *)
(* (MCCallers).  Each is one of those that CallerProofs proves about, with *)
(* the constants of the run: what is proved there for all constants holds  *)
(* of the scene that it plays in, once these are found to be as assumed,   *)
(* and a scene that is not on stands still.                                *)
Parts == INSTANCE CallerProofs WITH
    Reminders <- {}, Checks <- {}, CheckEvery <- 1, MarkEvery <- 1, Interval <- 1, MaxDelay <- 0,
    MaxSchedule <- 0, MaxClock <- 0, clock <- scene, reminder <- scene, check <- scene,
    checked <- scene, marked <- scene, noticed <- scene, successor <- scene, shifted <- scene,
    Players <- {1, 2}, GameRequests <- {w1, w2}, TotalScenes <- 2, SceneDeadline <- 1,
    ClaimTimeout <- 0, MaxGameClock <- 2, MaxScene <- 3, MaxAwards <- 2,
    Aliases <- {"a1", "a2"}, Macs <- {"m1"}, Cities <- {"c1", "c2"}, StayEvents <- {"e1"},
    StayWriters <- {w1, w2}, Nobody <- nobody, MaxWrites <- 4,
    DeletionKeys <- {"k1"}, DeletionCalls <- {w1, w2}, Contributors <- {w1}, RetryLimit <- 1,
    MaxSetups <- 2, Envelopes <- {1, 2, 3}, Processes <- {w1, w2}, BatchSize <- 2, MaxVersion <- 2,
    Tools <- {"brief_today", "contacts_search", "log_interaction", "brief_feedback"},
    Granted <- {"briefs:read", "feedback:write", "interactions:write"},
    ToolCalls <- {w1, w2}, ToolKeys <- {1}, Inputs <- {1, 2}, MaxCredentials <- 2, KeyTTL <- 1,
    MaxToolClock <- 1, Runs <- {1, 2}, MaxBackups <- 2, MaxDeployments <- 3,
    Requests <- {[operation |-> "calendar", value |-> 2], [operation |-> "location", value |-> 1],
                 [operation |-> "brief", value |-> 1]},
    Dumps <- {1}, Copies <- {}, Verifiers <- {w1}, MinAge <- 1, MaxAge <- 2, Retention <- 3,
    MaxContent <- 1, MaxHour <- 0, Gates <- {1, 2}, Provisions <- {}, NoHolder <- nobody,
    Contacts <- {1}, Attached <- {Attachment(1, -1, TRUE), Attachment(2, 1, FALSE)}, Born <- {1},
    CadenceDays <- 2, Syncs <- {w1, w2}, Refreshes <- {}, YearLength <- 3, Lookahead <- 2,
    MaxDays <- 3, MaxRows <- 4, Proposals <- {1}, MaxDecisions <- 4,
    People <- {1}, Narrow <- {1}, Limit <- 1, Forms <- {"log"}, MaxRequests <- 6, MaxRevision <- 1

Others == INSTANCE CallerProofs WITH
    Reminders <- {}, Checks <- {}, CheckEvery <- 1, MarkEvery <- 1, Interval <- 1, MaxDelay <- 0,
    MaxSchedule <- 0, MaxClock <- 0, clock <- scene, reminder <- scene, check <- scene,
    checked <- scene, marked <- scene, noticed <- scene, successor <- scene, shifted <- scene,
    Players <- {1, 2}, GameRequests <- {w1, w2}, TotalScenes <- 2, SceneDeadline <- 1,
    ClaimTimeout <- 0, MaxGameClock <- 2, MaxScene <- 3, MaxAwards <- 2,
    Aliases <- {"a1", "a2"}, Macs <- {"m1"}, Cities <- {"c1", "c2"}, StayEvents <- {"e1"},
    StayWriters <- {w1, w2}, Nobody <- nobody, MaxWrites <- 4,
    DeletionKeys <- {"k1"}, DeletionCalls <- {w1, w2}, Contributors <- {w1}, RetryLimit <- 1,
    MaxSetups <- 2, Envelopes <- {1, 2, 3}, Processes <- {w1, w2}, BatchSize <- 2, MaxVersion <- 2,
    Tools <- {"brief_today", "contacts_search", "log_interaction", "brief_feedback"},
    Granted <- {"briefs:read", "feedback:write", "interactions:write"},
    ToolCalls <- {w1, w2}, ToolKeys <- {1}, Inputs <- {1, 2}, MaxCredentials <- 2, KeyTTL <- 1,
    MaxToolClock <- 1, Runs <- {1, 2}, MaxBackups <- 2, MaxDeployments <- 3,
    Requests <- {[operation |-> "calendar", value |-> 2], [operation |-> "location", value |-> 1],
                 [operation |-> "brief", value |-> 1]},
    Dumps <- {1}, Copies <- {3}, Verifiers <- {}, MinAge <- 1, MaxAge <- 2, Retention <- 3,
    MaxContent <- 0, MaxHour <- 4, Gates <- {1}, Provisions <- {11, 12}, NoHolder <- nobody,
    Contacts <- {1, 2}, Attached <- {}, Born <- {}, CadenceDays <- 2, Syncs <- {},
    Refreshes <- {w1, w2}, YearLength <- 3, Lookahead <- 2, MaxDays <- 1, MaxRows <- 2,
    Proposals <- {1}, MaxDecisions <- 4,
    People <- {1}, Narrow <- {1}, Limit <- 1, Forms <- {"edit"}, MaxRequests <- 5, MaxRevision <- 1

Daily == INSTANCE RewardsProofs WITH
    Interactions <- {}, Quests <- {}, LogKeys <- {1}, QuestKeys <- {2}, Calls <- {}, None <- 0,
    RecordTTL <- 1, MaxAttempts <- 1, InteractionXp <- 1, FirstXp <- 1, QuestXp <- 1,
    CheckInXp <- 1, StreakBonus <- 1, StreakXp <- 1, StreakTarget <- 1, MaxClock <- 1,
    user <- scene, interaction <- scene, lastContacted <- scene, achieved <- scene,
    ledger <- scene, quest <- scene, feedback <- scene, record <- scene, call <- scene,
    clock <- scene, effects <- scene, checkIns <- scene, paid <- scene,
    overlapped <- scene, awarded <- scene, dropped <- scene,
    YearDays <- 4, LeapYears <- 2, DayLength <- 3, DateHorizon <- 2, YearsAhead <- 8,
    Offsets <- -2 .. 2, Nows <- {3, 4, 5, 8, 13, 16, 25, 30},
    Sources <- RowsOfRuns,
    People <- {1, 2}, Importance <- <<2, 1>>, Cadence <- <<2, 1>>, Met <- {1}, Tasked <- {2},
    Dates <- <<[person |-> 1, type |-> "reminder", source |-> "r1", day |-> 1]>>,
    Generators <- {w1, w2}, PersonLimit <- 1, DateLimit <- 1, QuestLimit <- 1, Horizon <- 2,
    Cooldown <- 1, MaxRetries <- 1, MaxToday <- 1, MaxAnswers <- 1,
    Items <- {}, Texts <- {1, 2}, HasQuest <- TRUE, Actions <- {},
    HasReminder <- FALSE, MaxRequests <- 5

\* A sync of celebrations.
LEMMA SyncsArePart ==
    /\ Syncing!Init <=> Parts!Assisting!Init
    /\ Syncing!Next <=> Parts!Assisting!Next
    /\ Syncing!KeepsCount <=> Parts!Assisting!KeepsCount
    /\ UNCHANGED Syncing!assistantVars <=> UNCHANGED Parts!Assisting!assistantVars
  <1>1. Syncing!Init <=> Parts!Assisting!Init
    BY DEF Syncing!Init, Parts!Assisting!Init, Syncing!NotSyncing, Parts!Assisting!NotSyncing,
           Syncing!Never, Parts!Assisting!Never, Syncing!NotScoring, Parts!Assisting!NotScoring
  <1>2. Syncing!Next <=> Parts!Assisting!Next
    BY DEF Syncing!Next, Parts!Assisting!Next, Syncing!StartSync, Parts!Assisting!StartSync,
           Syncing!Look, Parts!Assisting!Look, Syncing!CreateMissing,
           Parts!Assisting!CreateMissing, Syncing!Cardinality, Parts!Assisting!Cardinality,
           Syncing!EndSync, Parts!Assisting!EndSync, Syncing!FailSync, Parts!Assisting!FailSync,
           Syncing!CompleteRow, Parts!Assisting!CompleteRow, Syncing!StartRefresh,
           Parts!Assisting!StartRefresh, Syncing!WriteScore, Parts!Assisting!WriteScore,
           Syncing!EndRefresh, Parts!Assisting!EndRefresh, Syncing!Meet, Parts!Assisting!Meet,
           Syncing!NextDay, Parts!Assisting!NextDay, Syncing!NotSyncing,
           Parts!Assisting!NotSyncing, Syncing!Soon, Parts!Assisting!Soon, Syncing!Existing,
           Parts!Assisting!Existing, Syncing!NewRow, Parts!Assisting!NewRow,
           Syncing!CelebrationDate, Parts!Assisting!CelebrationDate, Syncing!Changed,
           Parts!Assisting!Changed, Syncing!Assess, Parts!Assisting!Assess, Syncing!NotScoring,
           Parts!Assisting!NotScoring, Syncing!RowsFor, Parts!Assisting!RowsFor, Syncing!Never,
           Parts!Assisting!Never, Syncing!Min2, Parts!Assisting!Min2
  <1>3. Syncing!KeepsCount <=> Parts!Assisting!KeepsCount
    BY DEF Syncing!KeepsCount, Parts!Assisting!KeepsCount, Syncing!Assess, Parts!Assisting!Assess,
           Syncing!Never, Parts!Assisting!Never, Syncing!Min2, Parts!Assisting!Min2
  <1>. QED  BY <1>1, <1>2, <1>3 DEF Syncing!assistantVars, Parts!Assisting!assistantVars

\* A refresh of scores.
LEMMA ScoresArePart ==
    /\ Scoring!Init <=> Others!Assisting!Init
    /\ Scoring!Next <=> Others!Assisting!Next
    /\ Scoring!KeepsCount <=> Others!Assisting!KeepsCount
    /\ UNCHANGED Scoring!assistantVars <=> UNCHANGED Others!Assisting!assistantVars
  <1>1. Scoring!Init <=> Others!Assisting!Init
    BY DEF Scoring!Init, Others!Assisting!Init, Scoring!NotSyncing, Others!Assisting!NotSyncing,
           Scoring!Never, Others!Assisting!Never, Scoring!NotScoring, Others!Assisting!NotScoring
  <1>2. Scoring!Next <=> Others!Assisting!Next
    BY DEF Scoring!Next, Others!Assisting!Next, Scoring!StartSync, Others!Assisting!StartSync,
           Scoring!Look, Others!Assisting!Look, Scoring!CreateMissing,
           Others!Assisting!CreateMissing, Scoring!Cardinality, Others!Assisting!Cardinality,
           Scoring!EndSync, Others!Assisting!EndSync, Scoring!FailSync, Others!Assisting!FailSync,
           Scoring!CompleteRow, Others!Assisting!CompleteRow, Scoring!StartRefresh,
           Others!Assisting!StartRefresh, Scoring!WriteScore, Others!Assisting!WriteScore,
           Scoring!EndRefresh, Others!Assisting!EndRefresh, Scoring!Meet, Others!Assisting!Meet,
           Scoring!NextDay, Others!Assisting!NextDay, Scoring!NotSyncing,
           Others!Assisting!NotSyncing, Scoring!Soon, Others!Assisting!Soon, Scoring!Existing,
           Others!Assisting!Existing, Scoring!NewRow, Others!Assisting!NewRow,
           Scoring!CelebrationDate, Others!Assisting!CelebrationDate, Scoring!Changed,
           Others!Assisting!Changed, Scoring!Assess, Others!Assisting!Assess, Scoring!NotScoring,
           Others!Assisting!NotScoring, Scoring!RowsFor, Others!Assisting!RowsFor, Scoring!Never,
           Others!Assisting!Never, Scoring!Min2, Others!Assisting!Min2
  <1>3. Scoring!KeepsCount <=> Others!Assisting!KeepsCount
    BY DEF Scoring!KeepsCount, Others!Assisting!KeepsCount, Scoring!Assess,
           Others!Assisting!Assess, Scoring!Never, Others!Assisting!Never, Scoring!Min2,
           Others!Assisting!Min2
  <1>. QED  BY <1>1, <1>2, <1>3 DEF Scoring!assistantVars, Others!Assisting!assistantVars

\* Calls of tools.
LEMMA CallsArePart ==
    /\ AgentCalls!Init <=> Parts!Calls!Init
    /\ AgentCalls!Next <=> Parts!Calls!Next
    /\ AgentCalls!ServedInForce <=> Parts!Calls!ServedInForce
    /\ UNCHANGED AgentCalls!toolVars <=> UNCHANGED Parts!Calls!toolVars
  <1>1. AgentCalls!Init <=> Parts!Calls!Init
    BY DEF AgentCalls!Init, Parts!Calls!Init, AgentCalls!Fresh, Parts!Calls!Fresh,
           AgentCalls!NoRecord, Parts!Calls!NoRecord
  <1>2. AgentCalls!Next <=> Parts!Calls!Next
    BY DEF AgentCalls!Next, Parts!Calls!Next, AgentCalls!Rotate, Parts!Calls!Rotate,
           AgentCalls!Revoke, Parts!Calls!Revoke, AgentCalls!Tick, Parts!Calls!Tick,
           AgentCalls!Find, Parts!Calls!Find, AgentCalls!Claim, Parts!Calls!Claim,
           AgentCalls!RefuseRequest, Parts!Calls!RefuseRequest, AgentCalls!Handle,
           Parts!Calls!Handle, AgentCalls!Timeout, Parts!Calls!Timeout, AgentCalls!Read,
           Parts!Calls!Read, AgentCalls!Commit, Parts!Calls!Commit, AgentCalls!ReplayOrConflict,
           Parts!Calls!ReplayOrConflict, AgentCalls!RollBack, Parts!Calls!RollBack,
           AgentCalls!AfterAudit, Parts!Calls!AfterAudit, AgentCalls!Answer, Parts!Calls!Answer,
           AgentCalls!Valid, Parts!Calls!Valid, AgentCalls!Revoked, Parts!Calls!Revoked,
           AgentCalls!domainVars, Parts!Calls!domainVars, AgentCalls!authVars,
           Parts!Calls!authVars, AgentCalls!ReadTools, Parts!Calls!ReadTools, AgentCalls!Claimable,
           Parts!Calls!Claimable, AgentCalls!Respond, Parts!Calls!Respond, AgentCalls!Registered,
           Parts!Calls!Registered, AgentCalls!To, Parts!Calls!To, AgentCalls!Recorded,
           Parts!Calls!Recorded, AgentCalls!KnownToDomain, Parts!Calls!KnownToDomain,
           AgentCalls!SuccessAudit, Parts!Calls!SuccessAudit, AgentCalls!Slot, Parts!Calls!Slot,
           AgentCalls!SameInput, Parts!Calls!SameInput, AgentCalls!Fail, Parts!Calls!Fail,
           AgentCalls!Errors, Parts!Calls!Errors, AgentCalls!RequiredScope,
           Parts!Calls!RequiredScope, AgentCalls!DomainKeyed, Parts!Calls!DomainKeyed
  <1>3. AgentCalls!ServedInForce <=> Parts!Calls!ServedInForce
    BY DEF AgentCalls!ServedInForce, Parts!Calls!ServedInForce, AgentCalls!Cardinality,
           Parts!Calls!Cardinality, AgentCalls!Valid, Parts!Calls!Valid
  <1>. QED  BY <1>1, <1>2, <1>3 DEF AgentCalls!toolVars, Parts!Calls!toolVars,
               AgentCalls!domainVars, Parts!Calls!domainVars

\* Activations.
LEMMA SwitchesArePart ==
    /\ Switching!Init <=> Parts!Switching!Init
    /\ Switching!Next <=> Parts!Switching!Next
    /\ Switching!ReceiptsHold <=> Parts!Switching!ReceiptsHold
    /\ UNCHANGED Switching!activationVars <=> UNCHANGED Parts!Switching!activationVars
  <1>1. Switching!Init <=> Parts!Switching!Init
    BY DEF Switching!Init, Parts!Switching!Init, Switching!Switches, Parts!Switching!Switches,
           Switching!InOrder, Parts!Switching!InOrder, Switching!NotBegun,
           Parts!Switching!NotBegun, Switching!Needs, Parts!Switching!Needs
  <1>2. Switching!Next <=> Parts!Switching!Next
    BY DEF Switching!Next, Parts!Switching!Next, Switching!ScheduledBackup,
           Parts!Switching!ScheduledBackup, Switching!EndBackup, Parts!Switching!EndBackup,
           Switching!StartDeployment, Parts!Switching!StartDeployment, Switching!EndDeployment,
           Parts!Switching!EndDeployment, Switching!Begin, Parts!Switching!Begin,
           Switching!RequestFails, Parts!Switching!RequestFails, Switching!Pin,
           Parts!Switching!Pin, Switching!ReadPin, Parts!Switching!ReadPin, Switching!AskForBackup,
           Parts!Switching!AskForBackup, Switching!PollBackup, Parts!Switching!PollBackup,
           Switching!Parse, Parts!Switching!Parse, Switching!Patch, Parts!Switching!Patch,
           Switching!Verify, Parts!Switching!Verify, Switching!Deploy, Parts!Switching!Deploy,
           Switching!PollDeployment, Parts!Switching!PollDeployment, Switching!Smoke,
           Parts!Switching!Smoke, Switching!Kill, Parts!Switching!Kill, Switching!Going,
           Parts!Switching!Going, Switching!NotBegun, Parts!Switching!NotBegun,
           Switching!coolifyVars, Parts!Switching!coolifyVars, Switching!Fail,
           Parts!Switching!Fail, Switching!To, Parts!Switching!To, Switching!Added,
           Parts!Switching!Added, Switching!Needs, Parts!Switching!Needs, Switching!Target,
           Parts!Switching!Target, Switching!Attempted, Parts!Switching!Attempted, Switching!End,
           Parts!Switching!End, Switching!Switches, Parts!Switching!Switches
  <1>3. Switching!ReceiptsHold <=> Parts!Switching!ReceiptsHold
    BY DEF Switching!ReceiptsHold, Parts!Switching!ReceiptsHold
  <1>. QED  BY <1>1, <1>2, <1>3 DEF Switching!activationVars, Parts!Switching!activationVars

\* Passwords that are given while a gate is at work.
LEMMA ProvisionIsPart ==
    /\ Provisioning!Init <=> Others!Gating!Init
    /\ Provisioning!Next <=> Others!Gating!Next
    /\ Provisioning!CredentialsStay <=> Others!Gating!CredentialsStay
    /\ UNCHANGED Provisioning!gateVars <=> UNCHANGED Others!Gating!gateVars
  <1>1. Provisioning!Init <=> Others!Gating!Init
    BY DEF Provisioning!Init, Others!Gating!Init, Provisioning!NotLaunched,
           Others!Gating!NotLaunched
  <1>2. Provisioning!Next <=> Others!Gating!Next
    BY DEF Provisioning!Next, Others!Gating!Next, Provisioning!LockForProvision,
           Others!Gating!LockForProvision, Provisioning!Rotate, Others!Gating!Rotate,
           Provisioning!Probe, Others!Gating!Probe, Provisioning!Publish, Others!Gating!Publish,
           Provisioning!ProvisionFails, Others!Gating!ProvisionFails, Provisioning!Launch,
           Others!Gating!Launch, Provisioning!StartGate, Others!Gating!StartGate,
           Provisioning!LoseLauncher, Others!Gating!LoseLauncher, Provisioning!Tidy,
           Others!Gating!Tidy, Provisioning!AcquireLock, Others!Gating!AcquireLock,
           Provisioning!PrepareWorkspace, Others!Gating!PrepareWorkspace,
           Provisioning!CreateWorktree, Others!Gating!CreateWorktree, Provisioning!Reserve,
           Others!Gating!Reserve, Provisioning!CreateDatabase, Others!Gating!CreateDatabase,
           Provisioning!VerifyCandidate, Others!Gating!VerifyCandidate,
           Provisioning!VerifyDatabaseBoundaries, Others!Gating!VerifyDatabaseBoundaries,
           Provisioning!ProveFreshCoolifyBackup, Others!Gating!ProveFreshCoolifyBackup,
           Provisioning!CreateIndependentBackup, Others!Gating!CreateIndependentBackup,
           Provisioning!RestoreBackup, Others!Gating!RestoreBackup, Provisioning!MigrateCandidate,
           Others!Gating!MigrateCandidate, Provisioning!ValidatePrisma,
           Others!Gating!ValidatePrisma, Provisioning!VerifyZeroDrift,
           Others!Gating!VerifyZeroDrift, Provisioning!VerifyReleaseInvariants,
           Others!Gating!VerifyReleaseInvariants, Provisioning!Proved, Others!Gating!Proved,
           Provisioning!CleanUp, Others!Gating!CleanUp, Provisioning!Report, Others!Gating!Report,
           Provisioning!Interrupt, Others!Gating!Interrupt, Provisioning!Kill, Others!Gating!Kill,
           Provisioning!LockIsFree, Others!Gating!LockIsFree, Provisioning!Provision,
           Others!Gating!Provision, Provisioning!restOfGate, Others!Gating!restOfGate,
           Provisioning!restOfHost, Others!Gating!restOfHost, Provisioning!At, Others!Gating!At,
           Provisioning!Lockable, Others!Gating!Lockable, Provisioning!Go, Others!Gating!Go,
           Provisioning!Next1, Others!Gating!Next1, Provisioning!Failed, Others!Gating!Failed,
           Provisioning!restOfLocks, Others!Gating!restOfLocks, Provisioning!RememberedWorktree,
           Others!Gating!RememberedWorktree, Provisioning!Allowed, Others!Gating!Allowed,
           Provisioning!Command, Others!Gating!Command, Provisioning!Steps, Others!Gating!Steps,
           Provisioning!Ended, Others!Gating!Ended, Provisioning!CleanUpOrder,
           Others!Gating!CleanUpOrder, Provisioning!Exit, Others!Gating!Exit, Provisioning!Receipt,
           Others!Gating!Receipt, Provisioning!UsesDatabase, Others!Gating!UsesDatabase,
           Provisioning!NotLaunched, Others!Gating!NotLaunched
  <1>3. Provisioning!CredentialsStay <=> Others!Gating!CredentialsStay
    BY DEF Provisioning!CredentialsStay, Others!Gating!CredentialsStay
  <1>. QED  BY <1>1, <1>2, <1>3 DEF Provisioning!gateVars, Others!Gating!gateVars

\* Commands of a gate.
LEMMA ProcessIsPart ==
    /\ Gating!RunInit <=> Parts!Gating!RunInit
    /\ Gating!RunNext <=> Parts!Gating!RunNext
    /\ Gating!SettledOnce <=> Parts!Gating!SettledOnce
  <1>1. Gating!RunInit <=> Parts!Gating!RunInit
    BY DEF Gating!RunInit, Parts!Gating!RunInit, Gating!Idle, Parts!Gating!Idle
  <1>2. Gating!RunNext <=> Parts!Gating!RunNext
    BY DEF Gating!RunNext, Parts!Gating!RunNext, Gating!Spawn, Parts!Gating!Spawn, Gating!EndInput,
           Parts!Gating!EndInput, Gating!Overflow, Parts!Gating!Overflow, Gating!TimeOut,
           Parts!Gating!TimeOut, Gating!Abort, Parts!Gating!Abort, Gating!Close,
           Parts!Gating!Close, Gating!Interrupted, Parts!Gating!Interrupted, Gating!Settle,
           Parts!Gating!Settle, Gating!Finish, Parts!Gating!Finish, Gating!Success,
           Parts!Gating!Success
  <1>3. Gating!SettledOnce <=> Parts!Gating!SettledOnce
    BY DEF Gating!SettledOnce, Parts!Gating!SettledOnce, Gating!Interrupted,
           Parts!Gating!Interrupted
  <1>. QED  BY <1>1, <1>2, <1>3

\* Backups that are shipped.
LEMMA ShippingIsPart ==
    /\ Shipping!Init <=> Others!Saving!Init
    /\ Shipping!Next <=> Others!Saving!Next
    /\ Shipping!OffHostStays <=> Others!Saving!OffHostStays
    /\ UNCHANGED Shipping!backupVars <=> UNCHANGED Others!Saving!backupVars
  <1>1. Shipping!Init <=> Others!Saving!Init
    BY DEF Shipping!Init, Others!Saving!Init, Shipping!Ids, Others!Saving!Ids, Shipping!Nil,
           Others!Saving!Nil, Shipping!NotShipping, Others!Saving!NotShipping
  <1>2. Shipping!Next <=> Others!Saving!Next
    BY DEF Shipping!Next, Others!Saving!Next, Shipping!WriteContent, Others!Saving!WriteContent,
           Shipping!PassHour, Others!Saving!PassHour, Shipping!ExportSnapshot,
           Others!Saving!ExportSnapshot, Shipping!DumpDatabase, Others!Saving!DumpDatabase,
           Shipping!CountRows, Others!Saving!CountRows, Shipping!Publish, Others!Saving!Publish,
           Shipping!CompleteBackup, Others!Saving!CompleteBackup, Shipping!StopBackup,
           Others!Saving!StopBackup, Shipping!CleanUpIncomplete, Others!Saving!CleanUpIncomplete,
           Shipping!KillBackup, Others!Saving!KillBackup, Shipping!CoolifyBackup,
           Others!Saving!CoolifyBackup, Shipping!Ids, Others!Saving!Ids, Shipping!Prune,
           Others!Saving!Prune, Shipping!StartShipping, Others!Saving!StartShipping,
           Shipping!CheckBundles, Others!Saving!CheckBundles, Shipping!CheckRecent,
           Others!Saving!CheckRecent, Shipping!CryptCheck, Others!Saving!CryptCheck,
           Shipping!DeleteFile, Others!Saving!DeleteFile, Shipping!EndShipping,
           Others!Saving!EndShipping, Shipping!AbortShipping, Others!Saving!AbortShipping,
           Shipping!Bundle, Others!Saving!Bundle, Shipping!CopyFile, Others!Saving!CopyFile,
           Shipping!ExpireCopy, Others!Saving!ExpireCopy, Shipping!ExpireBundle,
           Others!Saving!ExpireBundle, Shipping!StartVerifying, Others!Saving!StartVerifying,
           Shipping!CreateDatabase, Others!Saving!CreateDatabase, Shipping!MarkCreated,
           Others!Saving!MarkCreated, Shipping!Restore, Others!Saving!Restore, Shipping!Compare,
           Others!Saving!Compare, Shipping!KeepDatabase, Others!Saving!KeepDatabase,
           Shipping!DropDatabase, Others!Saving!DropDatabase, Shipping!TellVerified,
           Others!Saving!TellVerified, Shipping!StopVerifying, Others!Saving!StopVerifying,
           Shipping!CleanUpVerifying, Others!Saving!CleanUpVerifying, Shipping!KillVerifying,
           Others!Saving!KillVerifying, Shipping!NotShipping, Others!Saving!NotShipping,
           Shipping!restOfBackups, Others!Saving!restOfBackups, Shipping!Counted,
           Others!Saving!Counted, Shipping!PublishOrder, Others!Saving!PublishOrder, Shipping!Left,
           Others!Saving!Left, Shipping!RemovalOrder, Others!Saving!RemovalOrder, Shipping!Age,
           Others!Saving!Age, Shipping!restOfShipping, Others!Saving!restOfShipping,
           Shipping!InvalidBundle, Others!Saving!InvalidBundle, Shipping!Stopped,
           Others!Saving!Stopped, Shipping!Ships, Others!Saving!Ships, Shipping!Recent,
           Others!Saving!Recent, Shipping!ToCopy, Others!Saving!ToCopy, Shipping!Nil,
           Others!Saving!Nil, Shipping!Expired, Others!Saving!Expired, Shipping!restOfVerifying,
           Others!Saving!restOfVerifying, Shipping!Goes, Others!Saving!Goes
  <1>3. Shipping!OffHostStays <=> Others!Saving!OffHostStays
    BY DEF Shipping!OffHostStays, Others!Saving!OffHostStays, Shipping!Ids, Others!Saving!Ids,
           Shipping!IsWhole, Others!Saving!IsWhole, Shipping!TakenBack, Others!Saving!TakenBack,
           Shipping!Bundle, Others!Saving!Bundle, Shipping!PublishOrder, Others!Saving!PublishOrder
  <1>. QED  BY <1>1, <1>2, <1>3 DEF Shipping!backupVars, Others!Saving!backupVars

\* The page of approvals.
LEMMA ApprovalsArePart ==
    /\ Approving!Init <=> Parts!Approving!Init
    /\ Approving!Next <=> Parts!Approving!Next
    /\ Approving!ReceiptNeverBack <=> Parts!Approving!ReceiptNeverBack
    /\ UNCHANGED Approving!approvalsVars <=> UNCHANGED Parts!Approving!approvalsVars
  <1>1. Approving!Init <=> Parts!Approving!Init
    BY DEF Approving!Init, Parts!Approving!Init, Approving!Known, Parts!Approving!Known,
           Approving!Nothing, Parts!Approving!Nothing, Approving!Load, Parts!Approving!Load
  <1>2. Approving!Next <=> Parts!Approving!Next
    BY DEF Approving!Next, Parts!Approving!Next, Approving!Retry, Parts!Approving!Retry,
           Approving!Elsewhere, Parts!Approving!Elsewhere, Approving!Filters,
           Parts!Approving!Filters, Approving!OpenFilter, Parts!Approving!OpenFilter,
           Approving!Decide, Parts!Approving!Decide, Approving!Serve, Parts!Approving!Serve,
           Approving!TakeLoad, Parts!Approving!TakeLoad, Approving!FailLoad,
           Parts!Approving!FailLoad, Approving!Decided, Parts!Approving!Decided,
           Approving!NotDecided, Parts!Approving!NotDecided, Approving!Begun,
           Parts!Approving!Begun, Approving!Load, Parts!Approving!Load, Approving!Refilter,
           Parts!Approving!Refilter, Approving!Visible, Parts!Approving!Visible, Approving!Listed,
           Parts!Approving!Listed, Approving!Under, Parts!Approving!Under, Approving!Nothing,
           Parts!Approving!Nothing, Approving!PinWithHistory, Parts!Approving!PinWithHistory,
           Approving!Ended, Parts!Approving!Ended, Approving!FilterAfter,
           Parts!Approving!FilterAfter, Approving!Over, Parts!Approving!Over, Approving!Shown,
           Parts!Approving!Shown, Approving!Matches, Parts!Approving!Matches, Approving!Durable,
           Parts!Approving!Durable
  <1>3. Approving!ReceiptNeverBack <=> Parts!Approving!ReceiptNeverBack
    BY DEF Approving!ReceiptNeverBack, Parts!Approving!ReceiptNeverBack, Approving!Nothing,
           Parts!Approving!Nothing
  <1>. QED  BY <1>1, <1>2, <1>3 DEF Approving!approvalsVars, Parts!Approving!approvalsVars

\* The editor of a contact.
LEMMA EditsArePart ==
    /\ Editing!Init <=> Others!Editing!Init
    /\ Editing!Next <=> Others!Editing!Next
    /\ Editing!MethodsStay <=> Others!Editing!MethodsStay
    /\ UNCHANGED Editing!contactPagesVars <=> UNCHANGED Others!Editing!contactPagesVars
  <1>1. Editing!Init <=> Others!Editing!Init
    BY DEF Editing!Init, Others!Editing!Init, Editing!Contact, Others!Editing!Contact,
           Editing!Nobody, Others!Editing!Nobody, Editing!NoDraft, Others!Editing!NoDraft,
           Editing!Load, Others!Editing!Load
  <1>2. Editing!Next <=> Others!Editing!Next
    BY DEF Editing!Next, Others!Editing!Next, Editing!Cardinality, Others!Editing!Cardinality,
           Editing!Retry, Others!Editing!Retry, Editing!OpenCreate, Others!Editing!OpenCreate,
           Editing!CloseCreate, Others!Editing!CloseCreate, Editing!SubmitCreate,
           Others!Editing!SubmitCreate, Editing!CloseProfile, Others!Editing!CloseProfile,
           Editing!StartEdit, Others!Editing!StartEdit, Editing!CancelEdit,
           Others!Editing!CancelEdit, Editing!EditMethods, Others!Editing!EditMethods,
           Editing!Save, Others!Editing!Save, Editing!OpenForm, Others!Editing!OpenForm,
           Editing!CloseForm, Others!Editing!CloseForm, Editing!Log, Others!Editing!Log,
           Editing!Ask, Others!Editing!Ask, Editing!Elsewhere, Others!Editing!Elsewhere,
           Editing!OpenProfile, Others!Editing!OpenProfile, Editing!Serve, Others!Editing!Serve,
           Editing!TakeList, Others!Editing!TakeList, Editing!FailList, Others!Editing!FailList,
           Editing!EndCreate, Others!Editing!EndCreate, Editing!TakeDetail,
           Others!Editing!TakeDetail, Editing!FailDetail, Others!Editing!FailDetail,
           Editing!EndSave, Others!Editing!EndSave, Editing!EndLog, Others!Editing!EndLog,
           Editing!Room, Others!Editing!Room, Editing!WithLoad, Others!Editing!WithLoad,
           Editing!Closed, Others!Editing!Closed, Editing!Nobody, Others!Editing!Nobody,
           Editing!NewDraft, Others!Editing!NewDraft, Editing!NoDraft, Others!Editing!NoDraft,
           Editing!SendsMethods, Others!Editing!SendsMethods, Editing!KeyOf, Others!Editing!KeyOf,
           Editing!Has, Others!Editing!Has, Editing!The, Others!Editing!The, Editing!Replace,
           Others!Editing!Replace, Editing!Changed, Others!Editing!Changed, Editing!Outdated,
           Others!Editing!Outdated, Editing!IdsOf, Others!Editing!IdsOf, Editing!Detail,
           Others!Editing!Detail, Editing!Listed, Others!Editing!Listed, Editing!Contact,
           Others!Editing!Contact, Editing!Answer, Others!Editing!Answer, Editing!Under,
           Others!Editing!Under, Editing!Bounded, Others!Editing!Bounded, Editing!Ended,
           Others!Editing!Ended, Editing!Done, Others!Editing!Done, Editing!Fails,
           Others!Editing!Fails, Editing!Mounted, Others!Editing!Mounted, Editing!Shows,
           Others!Editing!Shows, Editing!Reloads, Others!Editing!Reloads, Editing!Load,
           Others!Editing!Load, Editing!Matching, Others!Editing!Matching, Editing!Over,
           Others!Editing!Over, Editing!Refreshed, Others!Editing!Refreshed
  <1>3. Editing!MethodsStay <=> Others!Editing!MethodsStay
    BY DEF Editing!MethodsStay, Others!Editing!MethodsStay
  <1>. QED  BY <1>1, <1>2, <1>3 DEF Editing!contactPagesVars, Others!Editing!contactPagesVars

\* The brief of a day.
LEMMA BriefIsPart ==
    /\ Brief!Init <=> Daily!Briefing!Init
    /\ Brief!Next <=> Daily!Briefing!Next
    /\ Brief!OneOpenQuest <=> Daily!Briefing!OneOpenQuest
    /\ Brief!RestIsKept <=> Daily!Briefing!RestIsKept
    /\ UNCHANGED Brief!briefVars <=> UNCHANGED Daily!Briefing!briefVars
  <1>1. Brief!Init <=> Daily!Briefing!Init
    BY DEF Brief!Init, Daily!Briefing!Init, Brief!Nil, Daily!Briefing!Nil, Brief!Reminders,
           Daily!Briefing!Reminders, Brief!NoBrief, Daily!Briefing!NoBrief, Brief!Resting,
           Daily!Briefing!Resting
  <1>2. Brief!Next <=> Daily!Briefing!Next
    BY DEF Brief!Next, Daily!Briefing!Next, Brief!BeginBrief, Daily!Briefing!BeginBrief,
           Brief!ReadAgain, Daily!Briefing!ReadAgain, Brief!PlanBrief, Daily!Briefing!PlanBrief,
           Brief!WriteBrief, Daily!Briefing!WriteBrief, Brief!RetryBrief,
           Daily!Briefing!RetryBrief, Brief!AbandonBrief, Daily!Briefing!AbandonBrief,
           Brief!StatusAfter, Daily!Briefing!StatusAfter, Brief!AnswerItem,
           Daily!Briefing!AnswerItem, Brief!Cardinality, Daily!Briefing!Cardinality,
           Brief!Interact, Daily!Briefing!Interact, Brief!Reminders, Daily!Briefing!Reminders,
           Brief!CompleteReminder, Daily!Briefing!CompleteReminder, Brief!CompleteQuest,
           Daily!Briefing!CompleteQuest, Brief!NextDay, Daily!Briefing!NextDay, Brief!NoBrief,
           Daily!Briefing!NoBrief, Brief!Resting, Daily!Briefing!Resting, Brief!Read,
           Daily!Briefing!Read, Brief!RankedPeople, Daily!Briefing!RankedPeople, Brief!Excluded,
           Daily!Briefing!Excluded, Brief!Nil, Daily!Briefing!Nil, Brief!PlanItems,
           Daily!Briefing!PlanItems, Brief!Take, Daily!Briefing!Take, Brief!NewQuests,
           Daily!Briefing!NewQuests, Brief!Proven, Daily!Briefing!Proven, Brief!Upcoming,
           Daily!Briefing!Upcoming, Brief!PendingTargets, Daily!Briefing!PendingTargets,
           Brief!ScoreOf, Daily!Briefing!ScoreOf, Brief!Target, Daily!Briefing!Target,
           Brief!PendingAtWrite, Daily!Briefing!PendingAtWrite, Brief!At, Daily!Briefing!At,
           Brief!RankScore, Daily!Briefing!RankScore, Brief!HealthScore,
           Daily!Briefing!HealthScore, Brief!Clamp, Daily!Briefing!Clamp, Brief!DateBoost,
           Daily!Briefing!DateBoost
  <1>3. Brief!OneOpenQuest <=> Daily!Briefing!OneOpenQuest
    BY DEF Brief!OneOpenQuest, Daily!Briefing!OneOpenQuest
  <1>4. Brief!RestIsKept <=> Daily!Briefing!RestIsKept
    BY DEF Brief!RestIsKept, Daily!Briefing!RestIsKept
  <1>. QED  BY <1>1, <1>2, <1>3, <1>4 DEF Brief!briefVars, Daily!Briefing!briefVars

\* The dates of an owner.
LEMMA OccasionsArePart ==
    /\ Occasions!Init <=> Daily!Occasions!Init
    /\ Occasions!Next <=> Daily!Occasions!Next
    /\ Occasions!EachOccasionOnce <=> Daily!Occasions!EachOccasionOnce
    /\ UNCHANGED Occasions!dateVars <=> UNCHANGED Daily!Occasions!dateVars
  <1>1. Occasions!Init <=> Daily!Occasions!Init
    BY DEF Occasions!Init, Daily!Occasions!Init
  <1>2. Occasions!Next <=> Daily!Occasions!Next
    BY DEF Occasions!Next, Daily!Occasions!Next, Occasions!Collect, Daily!Occasions!Collect,
           Occasions!Cardinality, Daily!Occasions!Cardinality, Occasions!Firsts,
           Daily!Occasions!Firsts, Occasions!Before, Daily!Occasions!Before, Occasions!Candidates,
           Daily!Occasions!Candidates, Occasions!SameOccasion, Daily!Occasions!SameOccasion,
           Occasions!typePriority, Daily!Occasions!typePriority, Occasions!Recurring,
           Daily!Occasions!Recurring, Occasions!CelebrationsAhead,
           Daily!Occasions!CelebrationsAhead, Occasions!ReminderCandidates,
           Daily!Occasions!ReminderCandidates, Occasions!InHorizon, Daily!Occasions!InHorizon,
           Occasions!Candidate, Daily!Occasions!Candidate, Occasions!daysFromLocalDate,
           Daily!Occasions!daysFromLocalDate, Occasions!CelebrationDays,
           Daily!Occasions!CelebrationDays, Occasions!MadeFor, Daily!Occasions!MadeFor,
           Occasions!LocalDay, Daily!Occasions!LocalDay, Occasions!PendingReminders,
           Daily!Occasions!PendingReminders, Occasions!Today, Daily!Occasions!Today,
           Occasions!IsCalendarDay, Daily!Occasions!IsCalendarDay, Occasions!Least,
           Daily!Occasions!Least, Occasions!MadeForOn, Daily!Occasions!MadeForOn, Occasions!UtcDay,
           Daily!Occasions!UtcDay
  <1>3. Occasions!EachOccasionOnce <=> Daily!Occasions!EachOccasionOnce
    BY DEF Occasions!EachOccasionOnce, Daily!Occasions!EachOccasionOnce, Occasions!UtcDay,
           Daily!Occasions!UtcDay, Occasions!CelebrationDays, Daily!Occasions!CelebrationDays,
           Occasions!InHorizon, Daily!Occasions!InHorizon, Occasions!Candidates,
           Daily!Occasions!Candidates, Occasions!SameOccasion, Daily!Occasions!SameOccasion,
           Occasions!Before, Daily!Occasions!Before, Occasions!Today, Daily!Occasions!Today,
           Occasions!IsCalendarDay, Daily!Occasions!IsCalendarDay, Occasions!Least,
           Daily!Occasions!Least, Occasions!Recurring, Daily!Occasions!Recurring,
           Occasions!CelebrationsAhead, Daily!Occasions!CelebrationsAhead,
           Occasions!ReminderCandidates, Daily!Occasions!ReminderCandidates,
           Occasions!typePriority, Daily!Occasions!typePriority, Occasions!LocalDay,
           Daily!Occasions!LocalDay, Occasions!Candidate, Daily!Occasions!Candidate,
           Occasions!daysFromLocalDate, Daily!Occasions!daysFromLocalDate, Occasions!MadeFor,
           Daily!Occasions!MadeFor, Occasions!PendingReminders, Daily!Occasions!PendingReminders,
           Occasions!MadeForOn, Daily!Occasions!MadeForOn
  <1>. QED  BY <1>1, <1>2, <1>3 DEF Occasions!dateVars, Daily!Occasions!dateVars

\* A game.
LEMMA GameIsPart ==
    /\ Game!Init <=> Parts!Game!Init
    /\ Game!Next <=> Parts!Game!Next
    /\ Game!PaidOncePerEnd <=> Parts!Game!PaidOncePerEnd
    /\ UNCHANGED Game!gameVars <=> UNCHANGED Parts!Game!gameVars
  <1>1. Game!Init <=> Parts!Game!Init
    BY DEF Game!Init, Parts!Game!Init, Game!Nil, Parts!Game!Nil, Game!Waiting, Parts!Game!Waiting
  <1>2. Game!Next <=> Parts!Game!Next
    BY DEF Game!Next, Parts!Game!Next, Game!ReadSession, Parts!Game!ReadSession, Game!Accept,
           Parts!Game!Accept, Game!Submit, Parts!Game!Submit, Game!CountResponses,
           Parts!Game!CountResponses, Game!Cardinality, Parts!Game!Cardinality, Game!Review,
           Parts!Game!Review, Game!Advance, Parts!Game!Advance, Game!ClaimScene,
           Parts!Game!ClaimScene, Game!CompleteScene, Parts!Game!CompleteScene, Game!ReleaseScene,
           Parts!Game!ReleaseScene, Game!ClaimDebrief, Parts!Game!ClaimDebrief,
           Game!CompleteDebrief, Parts!Game!CompleteDebrief, Game!ReleaseDebrief,
           Parts!Game!ReleaseDebrief, Game!Lose, Parts!Game!Lose, Game!Tick, Parts!Game!Tick,
           Game!Overdue, Parts!Game!Overdue, Game!MayBegin, Parts!Game!MayBegin, Game!Nil,
           Parts!Game!Nil, Game!Reopens, Parts!Game!Reopens, Game!Finished, Parts!Game!Finished,
           Game!Goes, Parts!Game!Goes, Game!getNextState, Parts!Game!getNextState, Game!Claimable,
           Parts!Game!Claimable, Game!Narrating, Parts!Game!Narrating, Game!Debriefing,
           Parts!Game!Debriefing, Game!Expirable, Parts!Game!Expirable, Game!Stale,
           Parts!Game!Stale, Game!Waiting, Parts!Game!Waiting
  <1>3. Game!PaidOncePerEnd <=> Parts!Game!PaidOncePerEnd
    BY DEF Game!PaidOncePerEnd, Parts!Game!PaidOncePerEnd
  <1>. QED  BY <1>1, <1>2, <1>3 DEF Game!gameVars, Parts!Game!gameVars

\* Two gates.
LEMMA GatesArePart ==
    /\ Gating!Init <=> Parts!Gating!Init
    /\ Gating!Next <=> Parts!Gating!Next
    /\ Gating!GateTellsTruth <=> Parts!Gating!GateTellsTruth
    /\ Gating!GatesAreApart <=> Parts!Gating!GatesAreApart
    /\ UNCHANGED Gating!gateVars <=> UNCHANGED Parts!Gating!gateVars
  <1>1. Gating!Init <=> Parts!Gating!Init
    BY DEF Gating!Init, Parts!Gating!Init, Gating!NotLaunched, Parts!Gating!NotLaunched
  <1>2. Gating!Next <=> Parts!Gating!Next
    BY DEF Gating!Next, Parts!Gating!Next, Gating!LockForProvision, Parts!Gating!LockForProvision,
           Gating!Rotate, Parts!Gating!Rotate, Gating!Probe, Parts!Gating!Probe, Gating!Publish,
           Parts!Gating!Publish, Gating!ProvisionFails, Parts!Gating!ProvisionFails, Gating!Launch,
           Parts!Gating!Launch, Gating!StartGate, Parts!Gating!StartGate, Gating!LoseLauncher,
           Parts!Gating!LoseLauncher, Gating!Tidy, Parts!Gating!Tidy, Gating!AcquireLock,
           Parts!Gating!AcquireLock, Gating!PrepareWorkspace, Parts!Gating!PrepareWorkspace,
           Gating!CreateWorktree, Parts!Gating!CreateWorktree, Gating!Reserve,
           Parts!Gating!Reserve, Gating!CreateDatabase, Parts!Gating!CreateDatabase,
           Gating!VerifyCandidate, Parts!Gating!VerifyCandidate, Gating!VerifyDatabaseBoundaries,
           Parts!Gating!VerifyDatabaseBoundaries, Gating!ProveFreshCoolifyBackup,
           Parts!Gating!ProveFreshCoolifyBackup, Gating!CreateIndependentBackup,
           Parts!Gating!CreateIndependentBackup, Gating!RestoreBackup, Parts!Gating!RestoreBackup,
           Gating!MigrateCandidate, Parts!Gating!MigrateCandidate, Gating!ValidatePrisma,
           Parts!Gating!ValidatePrisma, Gating!VerifyZeroDrift, Parts!Gating!VerifyZeroDrift,
           Gating!VerifyReleaseInvariants, Parts!Gating!VerifyReleaseInvariants, Gating!Proved,
           Parts!Gating!Proved, Gating!CleanUp, Parts!Gating!CleanUp, Gating!Report,
           Parts!Gating!Report, Gating!Interrupt, Parts!Gating!Interrupt, Gating!Kill,
           Parts!Gating!Kill, Gating!LockIsFree, Parts!Gating!LockIsFree, Gating!Provision,
           Parts!Gating!Provision, Gating!restOfGate, Parts!Gating!restOfGate, Gating!restOfHost,
           Parts!Gating!restOfHost, Gating!At, Parts!Gating!At, Gating!Lockable,
           Parts!Gating!Lockable, Gating!Go, Parts!Gating!Go, Gating!Next1, Parts!Gating!Next1,
           Gating!Failed, Parts!Gating!Failed, Gating!restOfLocks, Parts!Gating!restOfLocks,
           Gating!RememberedWorktree, Parts!Gating!RememberedWorktree, Gating!Allowed,
           Parts!Gating!Allowed, Gating!Command, Parts!Gating!Command, Gating!Steps,
           Parts!Gating!Steps, Gating!Ended, Parts!Gating!Ended, Gating!CleanUpOrder,
           Parts!Gating!CleanUpOrder, Gating!Exit, Parts!Gating!Exit, Gating!Receipt,
           Parts!Gating!Receipt, Gating!UsesDatabase, Parts!Gating!UsesDatabase,
           Gating!NotLaunched, Parts!Gating!NotLaunched
  <1>3. Gating!GateTellsTruth <=> Parts!Gating!GateTellsTruth
    BY DEF Gating!GateTellsTruth, Parts!Gating!GateTellsTruth
  <1>4. Gating!GatesAreApart <=> Parts!Gating!GatesAreApart
    BY DEF Gating!GatesAreApart, Parts!Gating!GatesAreApart
  <1>. QED  BY <1>1, <1>2, <1>3, <1>4 DEF Gating!gateVars, Parts!Gating!gateVars

\* The page of today, with a quest.
LEMMA QuestIsPart ==
    /\ Quested!Init <=> Daily!Viewing!Init
    /\ Quested!Next <=> Daily!Viewing!Next
    /\ Quested!LoggedOnce <=> Daily!Viewing!LoggedOnce
    /\ UNCHANGED Quested!cockpitVars <=> UNCHANGED Daily!Viewing!cockpitVars
  <1>1. Quested!Init <=> Daily!Viewing!Init
    BY DEF Quested!Init, Daily!Viewing!Init, Quested!Loading, Daily!Viewing!Loading,
           Quested!Closed, Daily!Viewing!Closed, Quested!Panels, Daily!Viewing!Panels,
           Quested!Load, Daily!Viewing!Load
  <1>2. Quested!Next <=> Daily!Viewing!Next
    BY DEF Quested!Next, Daily!Viewing!Next, Quested!Retry, Daily!Viewing!Retry,
           Quested!GenerateBrief, Daily!Viewing!GenerateBrief, Quested!CompleteReminder,
           Daily!Viewing!CompleteReminder, Quested!OpenQuest, Daily!Viewing!OpenQuest,
           Quested!CloseQuest, Daily!Viewing!CloseQuest, Quested!Submit, Daily!Viewing!Submit,
           Quested!SubmitFeedback, Daily!Viewing!SubmitFeedback, Quested!Write,
           Daily!Viewing!Write, Quested!Serve, Daily!Viewing!Serve, Quested!TakeBrief,
           Daily!Viewing!TakeBrief, Quested!TakeReminders, Daily!Viewing!TakeReminders,
           Quested!LoadFails, Daily!Viewing!LoadFails, Quested!EndGenerate,
           Daily!Viewing!EndGenerate, Quested!EndFeedback, Daily!Viewing!EndFeedback,
           Quested!EndReminder, Daily!Viewing!EndReminder, Quested!EndLog, Daily!Viewing!EndLog,
           Quested!EndComplete, Daily!Viewing!EndComplete, Quested!Room, Daily!Viewing!Room,
           Quested!Failure, Daily!Viewing!Failure, Quested!Loading, Daily!Viewing!Loading,
           Quested!Send, Daily!Viewing!Send, Quested!Load, Daily!Viewing!Load, Quested!NotReady,
           Daily!Viewing!NotReady, Quested!Ready, Daily!Viewing!Ready, Quested!Closed,
           Daily!Viewing!Closed, Quested!Keep, Daily!Viewing!Keep, Quested!Complete,
           Daily!Viewing!Complete, Quested!KeyFor, Daily!Viewing!KeyFor, Quested!Handled,
           Daily!Viewing!Handled, Quested!Data, Daily!Viewing!Data, Quested!Once,
           Daily!Viewing!Once, Quested!After, Daily!Viewing!After, Quested!Answered,
           Daily!Viewing!Answered, Quested!Mark, Daily!Viewing!Mark, Quested!Overtaken,
           Daily!Viewing!Overtaken, Quested!Pending, Daily!Viewing!Pending, Quested!Ends,
           Daily!Viewing!Ends, Quested!Over, Daily!Viewing!Over, Quested!Resolve,
           Daily!Viewing!Resolve, Quested!Reload, Daily!Viewing!Reload, Quested!Panels,
           Daily!Viewing!Panels, Quested!Known, Daily!Viewing!Known
  <1>3. Quested!LoggedOnce <=> Daily!Viewing!LoggedOnce
    BY DEF Quested!LoggedOnce, Daily!Viewing!LoggedOnce
  <1>. QED  BY <1>1, <1>2, <1>3 DEF Quested!cockpitVars, Daily!Viewing!cockpitVars

\* The form of an interaction of a contact.
LEMMA LogIsPart ==
    /\ Logging!Init <=> Parts!Editing!Init
    /\ Logging!Next <=> Parts!Editing!Next
    /\ Logging!FormLogsOnce <=> Parts!Editing!FormLogsOnce
    /\ UNCHANGED Logging!contactPagesVars <=> UNCHANGED Parts!Editing!contactPagesVars
  <1>1. Logging!Init <=> Parts!Editing!Init
    BY DEF Logging!Init, Parts!Editing!Init, Logging!Contact, Parts!Editing!Contact,
           Logging!Nobody, Parts!Editing!Nobody, Logging!NoDraft, Parts!Editing!NoDraft,
           Logging!Load, Parts!Editing!Load
  <1>2. Logging!Next <=> Parts!Editing!Next
    BY DEF Logging!Next, Parts!Editing!Next, Logging!Cardinality, Parts!Editing!Cardinality,
           Logging!Retry, Parts!Editing!Retry, Logging!OpenCreate, Parts!Editing!OpenCreate,
           Logging!CloseCreate, Parts!Editing!CloseCreate, Logging!SubmitCreate,
           Parts!Editing!SubmitCreate, Logging!CloseProfile, Parts!Editing!CloseProfile,
           Logging!StartEdit, Parts!Editing!StartEdit, Logging!CancelEdit,
           Parts!Editing!CancelEdit, Logging!EditMethods, Parts!Editing!EditMethods, Logging!Save,
           Parts!Editing!Save, Logging!OpenForm, Parts!Editing!OpenForm, Logging!CloseForm,
           Parts!Editing!CloseForm, Logging!Log, Parts!Editing!Log, Logging!Ask, Parts!Editing!Ask,
           Logging!Elsewhere, Parts!Editing!Elsewhere, Logging!OpenProfile,
           Parts!Editing!OpenProfile, Logging!Serve, Parts!Editing!Serve, Logging!TakeList,
           Parts!Editing!TakeList, Logging!FailList, Parts!Editing!FailList, Logging!EndCreate,
           Parts!Editing!EndCreate, Logging!TakeDetail, Parts!Editing!TakeDetail,
           Logging!FailDetail, Parts!Editing!FailDetail, Logging!EndSave, Parts!Editing!EndSave,
           Logging!EndLog, Parts!Editing!EndLog, Logging!Room, Parts!Editing!Room,
           Logging!WithLoad, Parts!Editing!WithLoad, Logging!Closed, Parts!Editing!Closed,
           Logging!Nobody, Parts!Editing!Nobody, Logging!NewDraft, Parts!Editing!NewDraft,
           Logging!NoDraft, Parts!Editing!NoDraft, Logging!SendsMethods,
           Parts!Editing!SendsMethods, Logging!KeyOf, Parts!Editing!KeyOf, Logging!Has,
           Parts!Editing!Has, Logging!The, Parts!Editing!The, Logging!Replace,
           Parts!Editing!Replace, Logging!Changed, Parts!Editing!Changed, Logging!Outdated,
           Parts!Editing!Outdated, Logging!IdsOf, Parts!Editing!IdsOf, Logging!Detail,
           Parts!Editing!Detail, Logging!Listed, Parts!Editing!Listed, Logging!Contact,
           Parts!Editing!Contact, Logging!Answer, Parts!Editing!Answer, Logging!Under,
           Parts!Editing!Under, Logging!Bounded, Parts!Editing!Bounded, Logging!Ended,
           Parts!Editing!Ended, Logging!Done, Parts!Editing!Done, Logging!Fails,
           Parts!Editing!Fails, Logging!Mounted, Parts!Editing!Mounted, Logging!Shows,
           Parts!Editing!Shows, Logging!Reloads, Parts!Editing!Reloads, Logging!Load,
           Parts!Editing!Load, Logging!Matching, Parts!Editing!Matching, Logging!Over,
           Parts!Editing!Over, Logging!Refreshed, Parts!Editing!Refreshed
  <1>3. Logging!FormLogsOnce <=> Parts!Editing!FormLogsOnce
    BY DEF Logging!FormLogsOnce, Parts!Editing!FormLogsOnce
  <1>. QED  BY <1>1, <1>2, <1>3 DEF Logging!contactPagesVars, Parts!Editing!contactPagesVars

-----------------------------------------------------------------------------
(* The constants of the run are as the proofs assume.                      *)
\* Every activation asks for a switch, and backups are expired after they are missed.
LEMMA SwitchesAre == Parts!RequestsSwitchOn
  BY DEF Parts!RequestsSwitchOn, Parts!Switching!Switches

LEMMA AgesAre == Others!AgesAssumption
  BY DEF Others!AgesAssumption

\* A gate is no provisioning, and neither is the one that holds no lock.
Meant == nobody \notin {1, 2, 11, 12}

LEMMA GatesAre == ASSUME Meant PROVE Others!GateAssumption /\ Parts!GateAssumption
  BY DEF Meant, Others!GateAssumption, Parts!GateAssumption

\* There are so many contacts and dates.
LEMMA BriefIs == Daily!BriefAssumption
  <1>1. IsFiniteSet({1}) /\ IsFiniteSet({2}) /\ {1, 2} = {1} \cup {2}
    BY FS_Singleton
  <1>2. IsFiniteSet({1, 2})
    BY <1>1, FS_Union
  <1>. QED  BY <1>1, <1>2 DEF Daily!BriefAssumption, Daily!IsFiniteSet, IsFiniteSet

\* The rows of each type have an id of their own.
LEMMA DatesAre == Daily!DatesAssumption
  <1>1. ASSUME NEW b, NEW c, NEW f, NEW o, NEW r, NEW s \in DateRows(b, c, f, o, r)
        PROVE  /\ s.type \in Daily!Occasions!Types /\ s.id \in Nat
               /\ \A other \in DateRows(b, c, f, o, r) : other.id = s.id => other = s
    BY DEF DateRows, Date, Daily!Occasions!Types
  <1>2. ASSUME NEW S \in RowsOfRuns
        PROVE  \E b, c, f, o, r : S = DateRows(b, c, f, o, r)
    BY DEF RowsOfRuns
  <1>3. ASSUME NEW S \in RowsOfRuns, NEW s \in S
        PROVE  /\ s.type \in Daily!Occasions!Types /\ s.id \in Nat
               /\ \A other \in S : other.id = s.id => other = s
    <2>1. PICK b, c, f, o, r : S = DateRows(b, c, f, o, r)
      BY <1>2
    <2>. QED  BY <1>1, <2>1
  <1>. QED  BY <1>3 DEF Daily!DatesAssumption

-----------------------------------------------------------------------------
(* The scenes.                                                             *)
\* The scene that is on stays on.
LEMMA SceneStays == [SceneNext]_sceneVars => UNCHANGED scene
  BY DEF SceneNext, Only, sceneVars

\* A step is of the scene that is on.
LEMMA OnlyScene == ASSUME SceneNext  PROVE Only(scene)
  <1>1. PICK s : Only(s)
    BY DEF SceneNext
  <1>. QED  BY <1>1 DEF Only

\* A sync creates what it has not found.
LEMMA SyncsHold ==
    SceneSpec => [][scene = "syncs" => Syncing!KeepsCount]_sceneVars
  <1>1. Parts!Assisting!Spec
           => [][Parts!Assisting!KeepsCount]_(Parts!Assisting!assistantVars)
    BY Parts!AssistantsKeepCount
  <1>2. SceneInit => (scene = "syncs" => Parts!Assisting!Init)
    BY SyncsArePart DEF SceneInit
  <1>3. [SceneNext]_sceneVars /\ scene = "syncs"
           => [Parts!Assisting!Next]_(Parts!Assisting!assistantVars)
    BY SyncsArePart DEF SceneNext, Only, sceneVars, assistVars, toolCallVars, switchVars,
           gateVars, fileVars, pageVars, feedbackVars, Syncing!assistantVars
  <1>4. [SceneNext]_sceneVars => ((scene = "syncs")' <=> scene = "syncs")
    BY SceneStays
  <1>5. ASSUME [SceneNext]_sceneVars,
                scene = "syncs" => [Parts!Assisting!KeepsCount]_(Parts!Assisting!assistantVars)
        PROVE  [scene = "syncs" => Syncing!KeepsCount]_sceneVars
    <2>1. scene = "syncs" /\ SceneNext /\ UNCHANGED Syncing!assistantVars => UNCHANGED sceneVars
      BY OnlyScene DEF Only, Pages, Today, sceneVars, assistVars, toolCallVars,
             switchVars, gateVars, fileVars, pageVars, feedbackVars, Syncing!assistantVars
    <2>. QED  BY <2>1, <1>5, SyncsArePart
  <1>. QED  BY <1>1, <1>2, <1>3, <1>4, <1>5, PTL DEF SceneSpec, Parts!Assisting!Spec

\* A refresh leaves the scores of what it has read.
LEMMA ScoresHold ==
    SceneSpec => [][scene = "scores" => Scoring!KeepsCount]_sceneVars
  <1>1. Others!Assisting!Spec
           => [][Others!Assisting!KeepsCount]_(Others!Assisting!assistantVars)
    BY Others!AssistantsKeepCount
  <1>2. SceneInit => (scene = "scores" => Others!Assisting!Init)
    BY ScoresArePart DEF SceneInit
  <1>3. [SceneNext]_sceneVars /\ scene = "scores"
           => [Others!Assisting!Next]_(Others!Assisting!assistantVars)
    BY ScoresArePart DEF SceneNext, Only, sceneVars, assistVars, toolCallVars, switchVars,
           gateVars, fileVars, pageVars, feedbackVars, Scoring!assistantVars
  <1>4. [SceneNext]_sceneVars => ((scene = "scores")' <=> scene = "scores")
    BY SceneStays
  <1>5. ASSUME [SceneNext]_sceneVars,
                scene = "scores" => [Others!Assisting!KeepsCount]_(Others!Assisting!assistantVars)
        PROVE  [scene = "scores" => Scoring!KeepsCount]_sceneVars
    <2>1. scene = "scores" /\ SceneNext /\ UNCHANGED Scoring!assistantVars => UNCHANGED sceneVars
      BY OnlyScene DEF Only, Pages, Today, sceneVars, assistVars, toolCallVars,
             switchVars, gateVars, fileVars, pageVars, feedbackVars, Scoring!assistantVars
    <2>. QED  BY <2>1, <1>5, ScoresArePart
  <1>. QED  BY <1>1, <1>2, <1>3, <1>4, <1>5, PTL DEF SceneSpec, Others!Assisting!Spec

\* A call is served on a credential that is good.
LEMMA CallsHold ==
    SceneSpec => [][scene = "tools" => AgentCalls!ServedInForce]_sceneVars
  <1>1. Parts!Calls!Spec
           => [][Parts!Calls!ServedInForce]_(Parts!Calls!toolVars)
    BY Parts!ServedInForceOnly
  <1>2. SceneInit => (scene = "tools" => Parts!Calls!Init)
    BY CallsArePart DEF SceneInit
  <1>3. [SceneNext]_sceneVars /\ scene = "tools" => [Parts!Calls!Next]_(Parts!Calls!toolVars)
    BY CallsArePart DEF SceneNext, Only, sceneVars, assistVars, toolCallVars, switchVars,
           gateVars, fileVars, pageVars, feedbackVars, AgentCalls!toolVars,
           AgentCalls!domainVars
  <1>4. [SceneNext]_sceneVars => ((scene = "tools")' <=> scene = "tools")
    BY SceneStays
  <1>5. ASSUME [SceneNext]_sceneVars,
                scene = "tools" => [Parts!Calls!ServedInForce]_(Parts!Calls!toolVars)
        PROVE  [scene = "tools" => AgentCalls!ServedInForce]_sceneVars
    <2>1. scene = "tools" /\ SceneNext /\ UNCHANGED AgentCalls!toolVars => UNCHANGED sceneVars
      BY OnlyScene DEF Only, Pages, Today, sceneVars, assistVars, toolCallVars,
             switchVars, gateVars, fileVars, pageVars, feedbackVars, AgentCalls!toolVars,
             AgentCalls!domainVars
    <2>. QED  BY <2>1, <1>5, CallsArePart
  <1>. QED  BY <1>1, <1>2, <1>3, <1>4, <1>5, PTL DEF SceneSpec, Parts!Calls!Spec

\* A receipt is of what was done.
LEMMA SwitchesHold ==
    SceneSpec => [][scene = "switches" => Switching!ReceiptsHold]_sceneVars
  <1>1. Parts!Switching!Spec
           => [][Parts!Switching!ReceiptsHold]_(Parts!Switching!activationVars)
    BY Parts!ReceiptsAreTrue, SwitchesAre
  <1>2. SceneInit => (scene = "switches" => Parts!Switching!Init)
    BY SwitchesArePart DEF SceneInit
  <1>3. [SceneNext]_sceneVars /\ scene = "switches"
           => [Parts!Switching!Next]_(Parts!Switching!activationVars)
    BY SwitchesArePart DEF SceneNext, Only, sceneVars, assistVars, toolCallVars, switchVars,
           gateVars, fileVars, pageVars, feedbackVars, Switching!activationVars
  <1>4. [SceneNext]_sceneVars => ((scene = "switches")' <=> scene = "switches")
    BY SceneStays
  <1>5. ASSUME [SceneNext]_sceneVars,
                scene = "switches"
                     => [Parts!Switching!ReceiptsHold]_(Parts!Switching!activationVars)
        PROVE  [scene = "switches" => Switching!ReceiptsHold]_sceneVars
    <2>1. scene = "switches" /\ SceneNext /\ UNCHANGED Switching!activationVars
           => UNCHANGED sceneVars
      BY OnlyScene DEF Only, Pages, Today, sceneVars, assistVars, toolCallVars,
             switchVars, gateVars, fileVars, pageVars, feedbackVars,
             Switching!activationVars
    <2>. QED  BY <2>1, <1>5, SwitchesArePart
  <1>. QED  BY <1>1, <1>2, <1>3, <1>4, <1>5, PTL DEF SceneSpec, Parts!Switching!Spec

\* Passwords change when no gate uses them.
LEMMA ProvisionHolds ==
    ASSUME Meant
    PROVE  SceneSpec => [][scene = "provision" => Provisioning!CredentialsStay]_sceneVars
  <1>1. Others!Gating!Spec
           => [][Others!Gating!CredentialsStay]_(Others!Gating!gateVars)
    BY Others!CredentialsStand, GatesAre
  <1>2. SceneInit => (scene = "provision" => Others!Gating!Init)
    BY ProvisionIsPart DEF SceneInit
  <1>3. [SceneNext]_sceneVars /\ scene = "provision"
           => [Others!Gating!Next]_(Others!Gating!gateVars)
    BY ProvisionIsPart DEF SceneNext, Only, sceneVars, assistVars, toolCallVars, switchVars,
           gateVars, fileVars, pageVars, feedbackVars, Provisioning!gateVars
  <1>4. [SceneNext]_sceneVars => ((scene = "provision")' <=> scene = "provision")
    BY SceneStays
  <1>5. ASSUME [SceneNext]_sceneVars,
                scene = "provision" => [Others!Gating!CredentialsStay]_(Others!Gating!gateVars)
        PROVE  [scene = "provision" => Provisioning!CredentialsStay]_sceneVars
    <2>1. scene = "provision" /\ SceneNext /\ UNCHANGED Provisioning!gateVars
           => UNCHANGED sceneVars
      BY OnlyScene DEF Only, Pages, Today, sceneVars, assistVars, toolCallVars,
             switchVars, gateVars, fileVars, pageVars, feedbackVars, Provisioning!gateVars
    <2>. QED  BY <2>1, <1>5, ProvisionIsPart
  <1>. QED  BY <1>1, <1>2, <1>3, <1>4, <1>5, PTL DEF SceneSpec, Others!Gating!Spec

\* A command is settled once.
LEMMA ProcessHolds ==
    SceneSpec => [][scene = "process" => Gating!SettledOnce]_sceneVars
  <1>1. Parts!Gating!RunInit /\ [][Parts!Gating!RunNext]_process
           => [][Parts!Gating!SettledOnce]_process
    BY Parts!CommandsEnd
  <1>2. SceneInit => (scene = "process" => Parts!Gating!RunInit)
    BY ProcessIsPart DEF SceneInit
  <1>3. [SceneNext]_sceneVars /\ scene = "process" => [Parts!Gating!RunNext]_process
    BY ProcessIsPart DEF SceneNext, Only, sceneVars, assistVars, toolCallVars, switchVars,
           gateVars, fileVars, pageVars, feedbackVars
  <1>4. [SceneNext]_sceneVars => ((scene = "process")' <=> scene = "process")
    BY SceneStays
  <1>5. ASSUME [SceneNext]_sceneVars, scene = "process" => [Parts!Gating!SettledOnce]_process
        PROVE  [scene = "process" => Gating!SettledOnce]_sceneVars
    <2>1. scene = "process" /\ SceneNext /\ UNCHANGED process => UNCHANGED sceneVars
      BY OnlyScene DEF Only, Pages, Today, sceneVars, assistVars, toolCallVars,
             switchVars, gateVars, fileVars, pageVars, feedbackVars
    <2>. QED  BY <2>1, <1>5, ProcessIsPart
  <1>. QED  BY <1>1, <1>2, <1>3, <1>4, <1>5, PTL DEF SceneSpec

\* A backup off the host goes when another one is safe.
LEMMA ShippingHolds ==
    SceneSpec => [][scene = "shipping" => Shipping!OffHostStays]_sceneVars
  <1>1. Others!Saving!Spec
           => [][Others!Saving!OffHostStays]_(Others!Saving!backupVars)
    BY Others!BackupsAreSafe, AgesAre
  <1>2. SceneInit => (scene = "shipping" => Others!Saving!Init)
    BY ShippingIsPart DEF SceneInit
  <1>3. [SceneNext]_sceneVars /\ scene = "shipping"
           => [Others!Saving!Next]_(Others!Saving!backupVars)
    BY ShippingIsPart DEF SceneNext, Only, sceneVars, assistVars, toolCallVars, switchVars,
           gateVars, fileVars, pageVars, feedbackVars, Shipping!backupVars
  <1>4. [SceneNext]_sceneVars => ((scene = "shipping")' <=> scene = "shipping")
    BY SceneStays
  <1>5. ASSUME [SceneNext]_sceneVars,
                scene = "shipping" => [Others!Saving!OffHostStays]_(Others!Saving!backupVars)
        PROVE  [scene = "shipping" => Shipping!OffHostStays]_sceneVars
    <2>1. scene = "shipping" /\ SceneNext /\ UNCHANGED Shipping!backupVars => UNCHANGED sceneVars
      BY OnlyScene DEF Only, Pages, Today, sceneVars, assistVars, toolCallVars,
             switchVars, gateVars, fileVars, pageVars, feedbackVars, Shipping!backupVars
    <2>. QED  BY <2>1, <1>5, ShippingIsPart
  <1>. QED  BY <1>1, <1>2, <1>3, <1>4, <1>5, PTL DEF SceneSpec, Others!Saving!Spec

\* A receipt never goes back.
LEMMA ApprovalsHold ==
    SceneSpec => [][scene = "approvals" => Approving!ReceiptNeverBack]_sceneVars
  <1>1. Parts!Approving!Spec
           => [][Parts!Approving!ReceiptNeverBack]_(Parts!Approving!approvalsVars)
    BY Parts!ReceiptsOfRecord
  <1>2. SceneInit => (scene = "approvals" => Parts!Approving!Init)
    BY ApprovalsArePart DEF SceneInit
  <1>3. [SceneNext]_sceneVars /\ scene = "approvals"
           => [Parts!Approving!Next]_(Parts!Approving!approvalsVars)
    BY ApprovalsArePart DEF SceneNext, Only, sceneVars, assistVars, toolCallVars,
           switchVars, gateVars, fileVars, pageVars, feedbackVars, Approving!approvalsVars
  <1>4. [SceneNext]_sceneVars => ((scene = "approvals")' <=> scene = "approvals")
    BY SceneStays
  <1>5. ASSUME [SceneNext]_sceneVars,
                scene = "approvals"
                     => [Parts!Approving!ReceiptNeverBack]_(Parts!Approving!approvalsVars)
        PROVE  [scene = "approvals" => Approving!ReceiptNeverBack]_sceneVars
    <2>1. scene = "approvals" /\ SceneNext /\ UNCHANGED Approving!approvalsVars
           => UNCHANGED sceneVars
      BY OnlyScene DEF Only, Pages, Today, sceneVars, assistVars, toolCallVars,
             switchVars, gateVars, fileVars, pageVars, feedbackVars,
             Approving!approvalsVars
    <2>. QED  BY <2>1, <1>5, ApprovalsArePart
  <1>. QED  BY <1>1, <1>2, <1>3, <1>4, <1>5, PTL DEF SceneSpec, Parts!Approving!Spec

\* An edit that says nothing of the ways to reach a person leaves them.
LEMMA EditsHold ==
    SceneSpec => [][scene = "edit" => Editing!MethodsStay]_sceneVars
  <1>1. Others!Editing!Spec
           => [][Others!Editing!MethodsStay]_(Others!Editing!contactPagesVars)
    BY Others!EditsAreKept
  <1>2. SceneInit => (scene = "edit" => Others!Editing!Init)
    BY EditsArePart DEF SceneInit
  <1>3. [SceneNext]_sceneVars /\ scene = "edit"
           => [Others!Editing!Next]_(Others!Editing!contactPagesVars)
    BY EditsArePart DEF SceneNext, Only, sceneVars, assistVars, toolCallVars, switchVars,
           gateVars, fileVars, pageVars, feedbackVars, Editing!contactPagesVars
  <1>4. [SceneNext]_sceneVars => ((scene = "edit")' <=> scene = "edit")
    BY SceneStays
  <1>5. ASSUME [SceneNext]_sceneVars,
                scene = "edit" => [Others!Editing!MethodsStay]_(Others!Editing!contactPagesVars)
        PROVE  [scene = "edit" => Editing!MethodsStay]_sceneVars
    <2>1. scene = "edit" /\ SceneNext /\ UNCHANGED Editing!contactPagesVars => UNCHANGED sceneVars
      BY OnlyScene DEF Only, Pages, Today, sceneVars, assistVars, toolCallVars,
             switchVars, gateVars, fileVars, pageVars, feedbackVars,
             Editing!contactPagesVars
    <2>. QED  BY <2>1, <1>5, EditsArePart
  <1>. QED  BY <1>1, <1>2, <1>3, <1>4, <1>5, PTL DEF SceneSpec, Others!Editing!Spec

\* A key decides on an item once.
LEMMA FeedbackHolds ==
    SceneSpec => [][scene = "feedback" => Answering!FeedbackKeepsPromise]_sceneVars
  <1>1. Answering!Spec
           => [][Answering!FeedbackKeepsPromise]_(Answering!feedbackVars)
    <2>1. Answering!FeedbackInv /\ [Answering!Next]_(Answering!feedbackVars)
             => Answering!FeedbackKeepsPromise
      BY Answering!StepKeepsPromise DEF Answering!FeedbackKeepsPromise
    <2>. QED  BY <2>1, Answering!FeedbackInvariant, PTL DEF Answering!Spec
  <1>2. SceneInit => (scene = "feedback" => Answering!Init)
    BY DEF SceneInit
  <1>3. [SceneNext]_sceneVars /\ scene = "feedback" => [Answering!Next]_(Answering!feedbackVars)
    BY DEF SceneNext, Only, sceneVars, assistVars, toolCallVars, switchVars, gateVars,
           fileVars, pageVars, feedbackVars, Answering!feedbackVars
  <1>4. [SceneNext]_sceneVars => ((scene = "feedback")' <=> scene = "feedback")
    BY SceneStays
  <1>5. ASSUME [SceneNext]_sceneVars,
                scene = "feedback" => [Answering!FeedbackKeepsPromise]_(Answering!feedbackVars)
        PROVE  [scene = "feedback" => Answering!FeedbackKeepsPromise]_sceneVars
    <2>1. scene = "feedback" /\ SceneNext /\ UNCHANGED Answering!feedbackVars
           => UNCHANGED sceneVars
      BY OnlyScene DEF Only, Pages, Today, sceneVars, assistVars, toolCallVars,
             switchVars, gateVars, fileVars, pageVars, feedbackVars,
             Answering!feedbackVars
    <2>. QED  BY <2>1, <1>5
  <1>. QED  BY <1>1, <1>2, <1>3, <1>4, <1>5, PTL DEF SceneSpec, Answering!Spec

\* One quest is open of a kind, and who was put off is left in peace.
LEMMA BriefHolds ==
    SceneSpec => [](scene = "brief" => Brief!OneOpenQuest /\ Brief!RestIsKept)
  <1>1. Daily!Briefing!Spec
           => [](Daily!Briefing!OneOpenQuest /\ Daily!Briefing!RestIsKept)
    BY Daily!OneQuestOpen, BriefIs DEF Daily!Keys
  <1>2. SceneInit => (scene = "brief" => Daily!Briefing!Init)
    BY BriefIsPart DEF SceneInit
  <1>3. [SceneNext]_sceneVars /\ scene = "brief" => [Daily!Briefing!Next]_(Daily!Briefing!briefVars)
    BY BriefIsPart DEF SceneNext, Only, sceneVars, briefVars, dateVars, gameVars,
           assistVars, toolCallVars, switchVars, gateVars, fileVars, pageVars, todayVars,
           feedbackVars, Brief!briefVars
  <1>4. [SceneNext]_sceneVars => ((scene = "brief")' <=> scene = "brief")
    BY SceneStays
  <1>6. Daily!Briefing!OneOpenQuest /\ Daily!Briefing!RestIsKept => Brief!OneOpenQuest /\ Brief!RestIsKept
    BY BriefIsPart
  <1>. QED  BY <1>1, <1>2, <1>3, <1>4, <1>6, PTL DEF SceneSpec, Daily!Briefing!Spec

\* An occasion has one entry.
LEMMA OccasionsHold ==
    SceneSpec => [](scene = "occasions" => Occasions!EachOccasionOnce)
  <1>1. Daily!Occasions!Spec
           => []Daily!Occasions!EachOccasionOnce
    BY Daily!OccasionsShownOnce, DatesAre DEF Daily!Keys
  <1>2. SceneInit => (scene = "occasions" => Daily!Occasions!Init)
    BY OccasionsArePart DEF SceneInit
  <1>3. [SceneNext]_sceneVars /\ scene = "occasions" => [Daily!Occasions!Next]_(Daily!Occasions!dateVars)
    BY OccasionsArePart DEF SceneNext, Only, sceneVars, briefVars, dateVars, gameVars,
           assistVars, toolCallVars, switchVars, gateVars, fileVars, pageVars, todayVars,
           feedbackVars, Occasions!dateVars
  <1>4. [SceneNext]_sceneVars => ((scene = "occasions")' <=> scene = "occasions")
    BY SceneStays
  <1>6. Daily!Occasions!EachOccasionOnce => Occasions!EachOccasionOnce
    BY OccasionsArePart
  <1>. QED  BY <1>1, <1>2, <1>3, <1>4, <1>6, PTL DEF SceneSpec, Daily!Occasions!Spec

\* An end of a game is paid once.
LEMMA GameHolds ==
    SceneSpec => [](scene = "game" => Game!PaidOncePerEnd)
  <1>1. Parts!Game!Spec
           => []Parts!Game!PaidOncePerEnd
    BY Parts!SessionsPaidOnce
  <1>2. SceneInit => (scene = "game" => Parts!Game!Init)
    BY GameIsPart DEF SceneInit
  <1>3. [SceneNext]_sceneVars /\ scene = "game" => [Parts!Game!Next]_(Parts!Game!gameVars)
    BY GameIsPart DEF SceneNext, Only, sceneVars, briefVars, dateVars, gameVars, assistVars,
           toolCallVars, switchVars, gateVars, fileVars, pageVars, todayVars, feedbackVars,
           Game!gameVars
  <1>4. [SceneNext]_sceneVars => ((scene = "game")' <=> scene = "game")
    BY SceneStays
  <1>6. Parts!Game!PaidOncePerEnd => Game!PaidOncePerEnd
    BY GameIsPart
  <1>. QED  BY <1>1, <1>2, <1>3, <1>4, <1>6, PTL DEF SceneSpec, Parts!Game!Spec

\* One gate is at work, and what is said of it is so.
LEMMA GatesHold ==
    ASSUME Meant
    PROVE  SceneSpec => [](scene = "gates" => Gating!GateTellsTruth /\ Gating!GatesAreApart)
  <1>1. Parts!Gating!Spec
           => [](Parts!Gating!GateTellsTruth /\ Parts!Gating!GatesAreApart)
    BY Parts!GatesTellTruth, GatesAre
  <1>2. SceneInit => (scene = "gates" => Parts!Gating!Init)
    BY GatesArePart DEF SceneInit
  <1>3. [SceneNext]_sceneVars /\ scene = "gates" => [Parts!Gating!Next]_(Parts!Gating!gateVars)
    BY GatesArePart DEF SceneNext, Only, sceneVars, briefVars, dateVars, gameVars,
           assistVars, toolCallVars, switchVars, gateVars, fileVars, pageVars, todayVars,
           feedbackVars, Gating!gateVars
  <1>4. [SceneNext]_sceneVars => ((scene = "gates")' <=> scene = "gates")
    BY SceneStays
  <1>6. Parts!Gating!GateTellsTruth /\ Parts!Gating!GatesAreApart => Gating!GateTellsTruth /\ Gating!GatesAreApart
    BY GatesArePart
  <1>. QED  BY <1>1, <1>2, <1>3, <1>4, <1>6, PTL DEF SceneSpec, Parts!Gating!Spec

\* What is written in a dialog is logged once.
LEMMA QuestHolds ==
    SceneSpec => [](scene = "quest" => Quested!LoggedOnce)
  <1>1. Daily!Viewing!Spec
           => []Daily!Viewing!LoggedOnce
    BY Daily!LogsOnce DEF Daily!Keys
  <1>2. SceneInit => (scene = "quest" => Daily!Viewing!Init)
    BY QuestIsPart DEF SceneInit
  <1>3. [SceneNext]_sceneVars /\ scene = "quest" => [Daily!Viewing!Next]_(Daily!Viewing!cockpitVars)
    BY QuestIsPart DEF SceneNext, Only, sceneVars, briefVars, dateVars, gameVars,
           assistVars, toolCallVars, switchVars, gateVars, fileVars, pageVars, todayVars,
           feedbackVars, Quested!cockpitVars
  <1>4. [SceneNext]_sceneVars => ((scene = "quest")' <=> scene = "quest")
    BY SceneStays
  <1>6. Daily!Viewing!LoggedOnce => Quested!LoggedOnce
    BY QuestIsPart
  <1>. QED  BY <1>1, <1>2, <1>3, <1>4, <1>6, PTL DEF SceneSpec, Daily!Viewing!Spec

\* What is written in a form is logged once.
LEMMA LogHolds ==
    SceneSpec => [](scene = "log" => Logging!FormLogsOnce)
  <1>1. Parts!Editing!Spec
           => /\ []Parts!Editing!FormLogsOnce
              /\ [][Parts!Editing!MethodsStay]_(Parts!Editing!contactPagesVars)
    BY Parts!EditsAreKept
  <1>2. SceneInit => (scene = "log" => Parts!Editing!Init)
    BY LogIsPart DEF SceneInit
  <1>3. [SceneNext]_sceneVars /\ scene = "log" => [Parts!Editing!Next]_(Parts!Editing!contactPagesVars)
    BY LogIsPart DEF SceneNext, Only, sceneVars, briefVars, dateVars, gameVars, assistVars,
           toolCallVars, switchVars, gateVars, fileVars, pageVars, todayVars, feedbackVars,
           Logging!contactPagesVars
  <1>4. [SceneNext]_sceneVars => ((scene = "log")' <=> scene = "log")
    BY SceneStays
  <1>6. Parts!Editing!FormLogsOnce => Logging!FormLogsOnce
    BY LogIsPart
  <1>. QED  BY <1>1, <1>2, <1>3, <1>4, <1>6, PTL DEF SceneSpec, Parts!Editing!Spec

-----------------------------------------------------------------------------
(* What holds of the run.                                                  *)
\* Whatever the scene, what a step decides on holds when it is taken: a sync
\* creates what it looked for and did not find, a refresh leaves the scores of
\* what it read, a call is served on a credential that is still good, a
\* receipt is written of what was done, passwords change when no gate uses
\* them, what became of a command is said once, a backup goes when a newer one
\* is safe, a receipt never goes back, an edit leaves what it says nothing of,
\* and a key decides on an item once.
THEOREM StepsStaySound == ASSUME Meant PROVE SceneSpec => StepsAreSound
  BY SyncsHold, ScoresHold, CallsHold, SwitchesHold, ProvisionHolds, ProcessHolds,
     ShippingHolds, ApprovalsHold, EditsHold, FeedbackHolds, PTL DEF StepsAreSound

\* What may be done once is done once: a brief leaves one quest open for a kind
\* and the one who was put off in peace, an occasion has one entry, the end of a
\* game is paid once, no two gates are at work and what is said of one is so,
\* and what is written in a dialog or a form is logged once.
THEOREM OnceHolds == ASSUME Meant PROVE SceneSpec => []OnceOnly
  BY BriefHolds, OccasionsHold, GameHolds, GatesHold, QuestHolds, LogHolds, PTL DEF OnceOnly

=============================================================================
