----------------------------- MODULE ItemFeedback -----------------------------
(* Feedback on the items of a daily brief, under idempotency keys          *)
(* (modules/briefs/brief-feedback.service).  People call it with a         *)
(* transaction of its own and look again when that loses a race; agents    *)
(* call it in the transaction of their tool call, which fails as a whole.  *)
(* The rows of BriefFeedback are shared with the completions of quests     *)
(* (Rewards), so that a key may belong to either.  Serializable            *)
(* transactions commit at once or do nothing.                              *)
EXTENDS Integers, TLAPS

CONSTANTS
    Items,         \* BriefItem ids of one owner
    QuestIds,      \* quests that are completed under the same keys
    FeedbackKeys,  \* idempotency keys of the owner
    Askers,        \* concurrent calls
    Agents,        \* those of them that agents make
    Reasons,       \* of a dismissal; Nil is one: it may be left out
    SnoozeLimit,   \* NINETY_DAYS_MS
    MaxTime        \* bound on the clock

VARIABLES
    item,      \* status and snoozedUntil of each item
    resource,  \* the items whose contact or event is still there
    feedback,  \* the request of the BriefFeedback row of each key
    asking,    \* local state of each call
    time,
    latest     \* history: the key that decided on each item last, {} before

feedbackVars == <<item, resource, feedback, asking, time, latest>>

Nil == 0
StatusAfter == [accept |-> "accepted", snooze |-> "snoozed", dismiss |-> "dismissed"]

Untils == 0 .. MaxTime + SnoozeLimit

\* What hashCanonical tells apart: the operation, its target and all it says.
Request == [operation : {"item-feedback", "quest-completion", "none"},
            target : Items \cup QuestIds \cup {Nil}, action : DOMAIN StatusAfter \cup {"complete"},
            reason : Reasons \cup {Nil}, until : Untils \cup {Nil}]
NoRequest ==
    [operation |-> "none", target |-> Nil, action |-> "complete", reason |-> Nil, until |-> Nil]
ItemRequest(i, action, reason, until) ==
    [operation |-> "item-feedback", target |-> i, action |-> action, reason |-> reason,
     until |-> until]
QuestRequest(q) == [NoRequest EXCEPT !.operation = "quest-completion", !.target = q]

Resting == [stage |-> "idle", key |-> Nil, request |-> NoRequest]

TypeOK ==
    /\ item \in [Items -> [status : {"pending", "accepted", "snoozed", "dismissed"},
                            until : Untils \cup {Nil}]]
    /\ resource \subseteq Items
    /\ feedback \in [FeedbackKeys -> Request]
    /\ asking \in [Askers -> [stage : {"idle", "asked", "race", "check", "answer"},
                               key : FeedbackKeys \cup {Nil}, request : Request]]
    /\ latest \in [Items -> SUBSET FeedbackKeys]

Init ==
    /\ item = [i \in Items |-> [status |-> "pending", until |-> Nil]]
    /\ resource = Items
    /\ feedback = [k \in FeedbackKeys |-> NoRequest]
    /\ asking = [a \in Askers |-> Resting]
    /\ time = 0
    /\ latest = [i \in Items |-> {}]

Move(a, stage) == asking' = [asking EXCEPT ![a].stage = stage]
Leave(a) == asking' = [asking EXCEPT ![a] = Resting]

-----------------------------------------------------------------------------
\* validateItemFeedback: a time is that of a snooze, ahead but not too far, and only a
\* dismissal has a reason.  A retry is validated anew.
Valid(r) ==
    /\ IF r.action = "snooze" THEN time < r.until /\ r.until <= time + SnoozeLimit
       ELSE r.until = Nil
    /\ r.action # "dismiss" => r.reason = Nil

Ask(a) ==
    /\ asking[a].stage = "idle"
    /\ \E k \in FeedbackKeys, i \in Items, action \in DOMAIN StatusAfter, reason \in Reasons,
          until \in Untils :
          LET r == ItemRequest(i, action, reason, until)
          IN  /\ Valid(r)
              /\ asking' = [asking EXCEPT ![a] = [stage |-> "asked", key |-> k, request |-> r]]
    /\ UNCHANGED <<item, resource, feedback, time, latest>>

Said(a) == asking[a].request
Stored(a) == feedback[asking[a].key]
Standing(a) == Said(a).target \in resource
SameRequest(a) == Stored(a) = Said(a)
Fresh(a) == Stored(a) = NoRequest

\* What was dismissed or accepted is not accepted again.
Acceptable(a) ==
    Said(a).action = "accept" => item[Said(a).target].status \in {"pending", "snoozed"}

Decide(a) ==
    item' = [item EXCEPT ![Said(a).target] =
                 [status |-> StatusAfter[Said(a).action], until |-> Said(a).until]]

\* The item is updated and its feedback stored.
Record(a) ==
    /\ asking[a].stage = "asked"
    /\ Fresh(a) /\ Standing(a) /\ Acceptable(a)
    /\ Decide(a)
    /\ feedback' = [feedback EXCEPT ![asking[a].key] = Said(a)]
    /\ latest' = [latest EXCEPT ![Said(a).target] = {asking[a].key}]
    /\ Move(a, "answer")
    /\ UNCHANGED <<resource, time>>

\* Mutant: a retry decides again.
ReplayAgain(a) ==
    /\ asking[a].stage = "asked"
    /\ SameRequest(a) /\ Standing(a)
    /\ Decide(a)
    /\ Move(a, "answer")
    /\ UNCHANGED <<resource, feedback, time, latest>>

\* The result is that of the stored feedback, whatever became of the item since.
Replay(a) ==
    /\ asking[a].stage = "asked"
    /\ SameRequest(a) /\ Standing(a)
    /\ Move(a, "answer")
    /\ UNCHANGED <<item, resource, feedback, time, latest>>

\* The key belongs to another request, nothing is left to decide on, or it is too late.
Refuse(a) ==
    /\ asking[a].stage = "asked"
    /\ IF Fresh(a) THEN ~Standing(a) \/ ~Acceptable(a) ELSE ~SameRequest(a) \/ ~Standing(a)
    /\ Leave(a)
    /\ UNCHANGED <<item, resource, feedback, time, latest>>

\* P2002 or P2034, and all that the transaction did is undone.
LoseRace(a) ==
    /\ asking[a].stage = "asked"
    /\ IF a \in Agents THEN Leave(a) ELSE Move(a, "race")
    /\ UNCHANGED <<item, resource, feedback, time, latest>>

\* The feedback under the key is looked for once more, and then its item.
LookAgain(a) ==
    /\ asking[a].stage = "race"
    /\ IF SameRequest(a) THEN Move(a, "check") ELSE Leave(a)
    /\ UNCHANGED <<item, resource, feedback, time, latest>>

CheckItem(a) ==
    /\ asking[a].stage = "check"
    /\ IF Standing(a) THEN Move(a, "answer") ELSE Leave(a)
    /\ UNCHANGED <<item, resource, feedback, time, latest>>

\* The answer arrives; or the call dies, before its commit or after it.
Finish(a) ==
    /\ asking[a].stage # "idle"
    /\ Leave(a)
    /\ UNCHANGED <<item, resource, feedback, time, latest>>

-----------------------------------------------------------------------------
\* A quest is completed under one of the keys.
CompleteQuest(k, q) ==
    /\ feedback[k] = NoRequest
    /\ feedback' = [feedback EXCEPT ![k] = QuestRequest(q)]
    /\ UNCHANGED <<item, resource, asking, time, latest>>

\* The contact or event of an item is removed.
RemoveResource(i) ==
    /\ i \in resource
    /\ resource' = resource \ {i}
    /\ UNCHANGED <<item, feedback, asking, time, latest>>

Pass ==
    /\ time < MaxTime
    /\ time' = time + 1
    /\ UNCHANGED <<item, resource, feedback, asking, latest>>

AskerStep(a) ==
    \/ Ask(a) \/ Record(a) \/ Replay(a) \/ Refuse(a)
    \/ LoseRace(a) \/ LookAgain(a) \/ CheckItem(a) \/ Finish(a)

Next ==
    \/ \E a \in Askers : AskerStep(a)
    \/ \E k \in FeedbackKeys, q \in QuestIds : CompleteQuest(k, q)
    \/ \E i \in Items : RemoveResource(i)
    \/ Pass

Spec == Init /\ [][Next]_feedbackVars

-----------------------------------------------------------------------------
\* Every item is as the feedback that was stored last for it says: a retry that comes
\* late, or whose answer was lost, takes no later decision back.
DecisionsHold ==
    \A i \in Items :
        /\ latest[i] = {} => item[i] = [status |-> "pending", until |-> Nil]
        /\ \A k \in latest[i] :
              /\ feedback[k].operation = "item-feedback" /\ feedback[k].target = i
              /\ item[i] = [status |-> StatusAfter[feedback[k].action], until |-> feedback[k].until]

Decisions == [k \in FeedbackKeys |->
                IF feedback[k] = NoRequest THEN {}
                ELSE {[at |-> 0, request |-> feedback[k], result |-> feedback[k].action]}]
AnswerTo(a) ==
    [key |-> asking[a].key, request |-> asking[a].request, result |-> asking[a].request.action]

\* A key decides once, and a call is answered as its own request was, by whichever of
\* the transaction and the look after a race.
Promise == INSTANCE OncePerKey WITH
    Keys <- FeedbackKeys, TTL <- 1, effects <- Decisions,
    telling <- {AnswerTo(a) : a \in {b \in Askers : asking[b].stage = "answer"}}
FeedbackOncePerKey == Promise!Spec
FeedbackKeepsPromise == [Promise!Next]_(Promise!vars)

-----------------------------------------------------------------------------
(* Proofs, for any number of items, keys and calls, of people and of       *)
(* agents: a key belongs to one request for ever, so that what was decided *)
(* under it can be answered again at any time, and an item follows the     *)
(* last decision however late older ones are retried.                      *)

\* What a call asks for is feedback on an item.
AsksForItem(a) ==
    /\ asking[a].key \in FeedbackKeys
    /\ Said(a).operation = "item-feedback"
    /\ Said(a).target \in Items
    /\ Said(a).action \in DOMAIN StatusAfter
    /\ Said(a).until \in Untils

\* A call that is to be answered has its request under its key.
CallsSound ==
    \A a \in Askers : asking[a].stage # "idle" =>
        /\ AsksForItem(a)
        /\ asking[a].stage \in {"check", "answer"} => SameRequest(a)

FeedbackInv == TypeOK /\ CallsSound /\ DecisionsHold

\* The rows of the keys that were used stay.
Stays == \A k \in FeedbackKeys : feedback[k] # NoRequest => feedback'[k] = feedback[k]

\* What other calls rely on stays while the rows do.
LEMMA OthersSound ==
    ASSUME FeedbackInv, Stays, NEW a \in Askers,
           \A b \in Askers \ {a} : asking'[b] = asking[b]
    PROVE  \A b \in Askers \ {a} : asking'[b].stage # "idle" =>
               AsksForItem(b)' /\ (asking'[b].stage \in {"check", "answer"} => SameRequest(b)')
  <1> SUFFICES ASSUME NEW b \in Askers \ {a}, asking'[b].stage # "idle"
      PROVE  AsksForItem(b)' /\ (asking'[b].stage \in {"check", "answer"} => SameRequest(b)')
    OBVIOUS
  <1>1. asking'[b] = asking[b] /\ AsksForItem(b)
    BY DEF FeedbackInv, CallsSound
  <1>2. AsksForItem(b)'
    BY <1>1 DEF AsksForItem, Said
  <1>3. ASSUME asking[b].stage \in {"check", "answer"}  PROVE  SameRequest(b)'
    <2>1. SameRequest(b)  BY <1>1, <1>3 DEF FeedbackInv, CallsSound
    <2>2. feedback[asking[b].key] # NoRequest
      BY <1>1, <2>1 DEF SameRequest, Stored, AsksForItem, NoRequest, Said
    <2> QED BY <1>1, <2>1, <2>2 DEF SameRequest, Stored, Said, Stays, AsksForItem
  <1> QED BY <1>1, <1>2, <1>3

\* A call that leaves disturbs nobody.
LEMMA LeaveInv ==
    ASSUME FeedbackInv, NEW a \in Askers, Leave(a), UNCHANGED <<item, feedback, latest>>,
           resource' \subseteq Items
    PROVE  FeedbackInv'
  <1>1. /\ asking'[a] = Resting
        /\ \A b \in Askers \ {a} : asking'[b] = asking[b]
    BY DEF FeedbackInv, TypeOK, Leave
  <1>2. TypeOK'
    BY DEF FeedbackInv, TypeOK, Leave, Resting, NoRequest, Request
  <1>3. CallsSound'
    BY <1>1, OthersSound DEF CallsSound, Resting, Stays
  <1>4. DecisionsHold'
    BY DEF FeedbackInv, DecisionsHold
  <1> QED BY <1>2, <1>3, <1>4 DEF FeedbackInv

\* A call that goes on without a change of the rows is answered only with what it asked.
LEMMA MoveInv ==
    ASSUME FeedbackInv, NEW a \in Askers, NEW stage \in {"race", "check", "answer"},
           Move(a, stage), asking[a].stage # "idle",
           stage \in {"check", "answer"} => SameRequest(a),
           UNCHANGED <<item, resource, feedback, latest>>
    PROVE  FeedbackInv'
  <1>1. /\ asking'[a] = [asking[a] EXCEPT !.stage = stage]
        /\ \A b \in Askers \ {a} : asking'[b] = asking[b]
    BY DEF FeedbackInv, TypeOK, Move
  <1>2. TypeOK'
    BY <1>1 DEF FeedbackInv, TypeOK, Move
  <1>3. asking'[a].stage = stage /\ asking'[a].key = asking[a].key /\ Said(a)' = Said(a)
    BY <1>1 DEF FeedbackInv, TypeOK, Said
  <1>4. AsksForItem(a)' /\ (asking'[a].stage \in {"check", "answer"} => SameRequest(a)')
    BY <1>3 DEF FeedbackInv, CallsSound, AsksForItem, SameRequest, Stored
  <1>5. CallsSound'
    BY <1>1, <1>4, OthersSound DEF CallsSound, Stays
  <1>6. DecisionsHold'
    BY DEF FeedbackInv, DecisionsHold
  <1> QED BY <1>2, <1>5, <1>6 DEF FeedbackInv


\* A call that asks has decided nothing.
LEMMA AskInv ==
    ASSUME FeedbackInv, NEW a \in Askers, Ask(a)
    PROVE  FeedbackInv'
  <1>1. PICK k \in FeedbackKeys, i \in Items, action \in DOMAIN StatusAfter,
             reason \in Reasons, until \in Untils :
           asking' = [asking EXCEPT ![a] =
             [stage |-> "asked", key |-> k, request |-> ItemRequest(i, action, reason, until)]]
    BY DEF Ask
  <1> DEFINE r == ItemRequest(i, action, reason, until)
  <1>2. /\ r \in Request /\ r.operation = "item-feedback" /\ r.target = i
        /\ r.action = action /\ r.until = until
    BY DEF ItemRequest, Request
  <1> HIDE DEF r
  <1>3. /\ asking'[a] = [stage |-> "asked", key |-> k, request |-> r]
        /\ \A b \in Askers \ {a} : asking'[b] = asking[b]
    BY <1>1 DEF FeedbackInv, TypeOK, r
  <1>4. TypeOK'
    BY <1>1, <1>2 DEF FeedbackInv, TypeOK, Ask, r
  <1>5. AsksForItem(a)' /\ asking'[a].stage \notin {"check", "answer"}
    BY <1>2, <1>3 DEF AsksForItem, Said
  <1>6. CallsSound'
    BY <1>3, <1>5, OthersSound DEF CallsSound, Stays, Ask
  <1>7. DecisionsHold'
    BY DEF FeedbackInv, DecisionsHold, Ask
  <1> QED BY <1>4, <1>6, <1>7 DEF FeedbackInv

\* Decisions hold when the row of an unused key is filled: no item follows that key yet.
LEMMA FreshKeyKeeps ==
    ASSUME FeedbackInv, NEW k \in FeedbackKeys, feedback[k] = NoRequest,
           NEW i \in Items, item'[i] = item[i], latest'[i] = latest[i],
           \A l \in FeedbackKeys \ {k} : feedback'[l] = feedback[l]
    PROVE  /\ latest'[i] = {} => item'[i] = [status |-> "pending", until |-> Nil]
           /\ \A l \in latest'[i] :
                 /\ feedback'[l].operation = "item-feedback" /\ feedback'[l].target = i
                 /\ item'[i] = [status |-> StatusAfter[feedback'[l].action],
                                until |-> feedback'[l].until]
  <1>1. latest[i] \subseteq FeedbackKeys  BY DEF FeedbackInv, TypeOK
  <1>2. k \notin latest[i]
    <2>1. NoRequest.operation # "item-feedback"  BY DEF NoRequest
    <2>2. \A l \in latest[i] : feedback[l].operation = "item-feedback"
      BY DEF FeedbackInv, DecisionsHold
    <2> QED BY <2>1, <2>2
  <1> QED BY <1>1, <1>2 DEF FeedbackInv, DecisionsHold

\* The decision of a call under an unused key.
LEMMA RecordInv ==
    ASSUME FeedbackInv, NEW a \in Askers, Record(a)
    PROVE  FeedbackInv'
  <1> DEFINE k == asking[a].key
             i == Said(a).target
             after == [status |-> StatusAfter[Said(a).action], until |-> Said(a).until]
  <1>1. /\ k \in FeedbackKeys /\ i \in Items /\ feedback[k] = NoRequest
        /\ Said(a) \in Request /\ Said(a).operation = "item-feedback"
        /\ Said(a).action \in DOMAIN StatusAfter /\ Said(a).until \in Untils
    BY DEF FeedbackInv, TypeOK, CallsSound, AsksForItem, Record, Fresh, Stored, Said
  <1>2. after \in [status : {"pending", "accepted", "snoozed", "dismissed"},
                   until : Untils \cup {Nil}]
    BY <1>1 DEF StatusAfter
  <1>3. /\ item'[i] = after /\ \A j \in Items \ {i} : item'[j] = item[j]
        /\ feedback'[k] = Said(a) /\ \A l \in FeedbackKeys \ {k} : feedback'[l] = feedback[l]
        /\ latest'[i] = {k} /\ \A j \in Items \ {i} : latest'[j] = latest[j]
    BY <1>1 DEF FeedbackInv, TypeOK, Record, Decide
  <1>4. /\ asking'[a] = [asking[a] EXCEPT !.stage = "answer"]
        /\ \A b \in Askers \ {a} : asking'[b] = asking[b]
    BY DEF FeedbackInv, TypeOK, Record, Move
  <1>5. asking'[a].key = k /\ Said(a)' = Said(a)
    BY <1>4 DEF FeedbackInv, TypeOK, Said
  <1>6. TypeOK'
    <2>1. item' \in [Items -> [status : {"pending", "accepted", "snoozed", "dismissed"},
                               until : Untils \cup {Nil}]]
      <3> HIDE DEF after
      <3>1. item' = [item EXCEPT ![i] = after]  BY DEF Record, Decide, after
      <3> QED BY <1>1, <1>2, <3>1 DEF FeedbackInv, TypeOK
    <2>2. feedback' \in [FeedbackKeys -> Request]
      BY <1>1 DEF FeedbackInv, TypeOK, Record
    <2>3. asking' \in [Askers -> [stage : {"idle", "asked", "race", "check", "answer"},
                                  key : FeedbackKeys \cup {Nil}, request : Request]]
      BY DEF FeedbackInv, TypeOK, Record, Move
    <2>4. latest' \in [Items -> SUBSET FeedbackKeys] /\ resource' \subseteq Items
      BY <1>1 DEF FeedbackInv, TypeOK, Record
    <2> QED BY <2>1, <2>2, <2>3, <2>4 DEF TypeOK
  <1>7. CallsSound'
    <2>1. Stays  BY <1>1, <1>3 DEF Stays
    <2>2. AsksForItem(a)'
      BY <1>1, <1>5 DEF AsksForItem
    <2>3. SameRequest(a)'  BY <1>3, <1>5 DEF SameRequest, Stored
    <2> QED BY <1>4, <2>1, <2>2, <2>3, OthersSound DEF CallsSound
  <1>8. DecisionsHold'
    <2>1. ASSUME NEW j \in Items \ {i}
          PROVE  /\ latest'[j] = {} => item'[j] = [status |-> "pending", until |-> Nil]
                 /\ \A l \in latest'[j] :
                       /\ feedback'[l].operation = "item-feedback" /\ feedback'[l].target = j
                       /\ item'[j] = [status |-> StatusAfter[feedback'[l].action],
                                      until |-> feedback'[l].until]
      BY <1>1, <1>3, <2>1, FreshKeyKeeps
    <2>2. /\ latest'[i] # {} 
          /\ \A l \in latest'[i] :
                /\ feedback'[l].operation = "item-feedback" /\ feedback'[l].target = i
                /\ item'[i] = [status |-> StatusAfter[feedback'[l].action],
                               until |-> feedback'[l].until]
      BY <1>1, <1>3
    <2> QED BY <2>1, <2>2 DEF DecisionsHold
  <1> QED BY <1>6, <1>7, <1>8 DEF FeedbackInv

\* A quest completed elsewhere takes its item along.
LEMMA CompleteQuestInv ==
    ASSUME FeedbackInv, NEW k \in FeedbackKeys, NEW q \in QuestIds, CompleteQuest(k, q)
    PROVE  FeedbackInv'
  <1>1. QuestRequest(q) \in Request
    BY DEF QuestRequest, NoRequest, Request
  <1>2. /\ feedback[k] = NoRequest
        /\ \A l \in FeedbackKeys \ {k} : feedback'[l] = feedback[l]
        /\ UNCHANGED <<item, resource, asking, latest>>
    BY DEF FeedbackInv, TypeOK, CompleteQuest
  <1>3. TypeOK'
    BY <1>1 DEF FeedbackInv, TypeOK, CompleteQuest
  <1>4. CallsSound'
    <2> SUFFICES ASSUME NEW a \in Askers, asking[a].stage # "idle"
        PROVE  AsksForItem(a)' /\ (asking[a].stage \in {"check", "answer"} => SameRequest(a)')
      BY <1>2 DEF CallsSound
    <2>1. AsksForItem(a) /\ (asking[a].stage \in {"check", "answer"} => SameRequest(a))
      BY DEF FeedbackInv, CallsSound
    <2>2. SameRequest(a) => asking[a].key # k
      BY <1>2, <2>1 DEF SameRequest, Stored, AsksForItem, NoRequest, Said
    <2> QED BY <1>2, <2>1, <2>2 DEF AsksForItem, SameRequest, Stored, Said
  <1>5. DecisionsHold'
    BY <1>2, FreshKeyKeeps DEF DecisionsHold
  <1> QED BY <1>3, <1>4, <1>5 DEF FeedbackInv

\* What the rows do not tell may change.
LEMMA QuietInv ==
    ASSUME FeedbackInv, UNCHANGED <<item, feedback, asking, latest>>, resource' \subseteq resource
    PROVE  FeedbackInv'
  <1>1. TypeOK'  BY DEF FeedbackInv, TypeOK
  <1>2. CallsSound'
    BY DEF FeedbackInv, CallsSound, AsksForItem, SameRequest, Stored, Said
  <1>3. DecisionsHold'  BY DEF FeedbackInv, DecisionsHold
  <1> QED BY <1>1, <1>2, <1>3 DEF FeedbackInv

\* At first nothing is asked or stored.
LEMMA InitInv == Init => FeedbackInv
  <1> SUFFICES ASSUME Init  PROVE FeedbackInv
    OBVIOUS
  <1>1. TypeOK
    BY DEF Init, TypeOK, Resting, NoRequest, Request
  <1>2. CallsSound  BY DEF Init, CallsSound, Resting
  <1>3. DecisionsHold  BY DEF Init, DecisionsHold
  <1> QED BY <1>1, <1>2, <1>3 DEF FeedbackInv

\* Every step keeps the invariant.
LEMMA StepInv ==
    ASSUME FeedbackInv, [Next]_feedbackVars
    PROVE  FeedbackInv'
  <1>0. resource \subseteq Items  BY DEF FeedbackInv, TypeOK
  <1>1. ASSUME NEW a \in Askers, AskerStep(a)  PROVE FeedbackInv'
    <2>1. CASE Ask(a)  BY <2>1, AskInv
    <2>2. CASE Record(a)  BY <2>2, RecordInv
    <2>3. CASE Replay(a)  BY <2>3, MoveInv DEF Replay
    <2>4. CASE Refuse(a)  BY <1>0, <2>4, LeaveInv DEF Refuse
    <2>5. CASE LoseRace(a)  BY <1>0, <2>5, LeaveInv, MoveInv DEF LoseRace
    <2>6. CASE LookAgain(a)  BY <1>0, <2>6, LeaveInv, MoveInv DEF LookAgain
    <2>7. CASE CheckItem(a)
      <3>1. SameRequest(a)  BY <2>7 DEF CheckItem, FeedbackInv, CallsSound
      <3> QED BY <1>0, <2>7, <3>1, LeaveInv, MoveInv DEF CheckItem
    <2>8. CASE Finish(a)  BY <1>0, <2>8, LeaveInv DEF Finish
    <2> QED BY <1>1, <2>1, <2>2, <2>3, <2>4, <2>5, <2>6, <2>7, <2>8 DEF AskerStep
  <1>2. ASSUME NEW k \in FeedbackKeys, NEW q \in QuestIds, CompleteQuest(k, q)
        PROVE  FeedbackInv'
    BY <1>2, CompleteQuestInv
  <1>3. ASSUME NEW i \in Items, RemoveResource(i)  PROVE FeedbackInv'
    BY <1>3, QuietInv DEF RemoveResource
  <1>4. CASE Pass  BY <1>4, QuietInv DEF Pass
  <1>5. CASE UNCHANGED feedbackVars  BY <1>5, QuietInv DEF feedbackVars
  <1> QED BY <1>1, <1>2, <1>3, <1>4, <1>5 DEF Next

\* Every call that is on its way to an answer has its request under its key, and every
\* item follows its last decision.
THEOREM FeedbackInvariant == Spec => []FeedbackInv
  BY InitInv, StepInv, PTL DEF Spec

\* A retry, a lost race, or a call that comes late takes no later decision on an item
\* back (recordItemFeedbackInTransaction, resolveItemReplay).
THEOREM LaterDecisionsStand == Spec => []DecisionsHold
  <1>1. FeedbackInv => DecisionsHold  BY DEF FeedbackInv
  <1> QED BY <1>1, FeedbackInvariant, PTL

-----------------------------------------------------------------------------
(* The promise of OncePerKey.                                              *)
Answers == {AnswerTo(a) : a \in {b \in Askers : asking[b].stage = "answer"}}

\* A step of one call adds its answer at most.
LEMMA AnswersGrow ==
    ASSUME NEW a \in Askers, \A b \in Askers \ {a} : asking'[b] = asking[b]
    PROVE  /\ asking'[a].stage # "answer" => Answers' \subseteq Answers
           /\ Answers' \subseteq Answers \cup {AnswerTo(a)'}
  BY DEF Answers, AnswerTo

\* No answer is added, and no decision made.
LEMMA SilenceKept ==
    ASSUME Answers' \subseteq Answers, feedback' = feedback
    PROVE  Promise!Next
  BY DEF Promise!Next, Promise!Silence, Answers, Decisions

\* A row is filled: something is done under its key, which did nothing before.
LEMMA FillApplies ==
    ASSUME FeedbackInv, NEW k \in FeedbackKeys, feedback[k] = NoRequest,
           NEW r \in Request, r # NoRequest, feedback' = [feedback EXCEPT ![k] = r],
           Answers' \subseteq Answers \cup {[key |-> k, request |-> r, result |-> r.action]}
    PROVE  Promise!Next
  <1> DEFINE e == [at |-> 0, request |-> r, result |-> r.action]
  <1>1. feedback'[k] = r /\ \A l \in FeedbackKeys \ {k} : feedback'[l] = feedback[l]
    BY DEF FeedbackInv, TypeOK
  <1>2. Decisions[k] = {} /\ Decisions'[k] = {e}
    BY <1>1 DEF Decisions
  <1>3. Decisions' = [Decisions EXCEPT ![k] = @ \cup {e}]
    BY <1>1, <1>2 DEF Decisions
  <1>4. Promise!AnswerOf(k, e) = [key |-> k, request |-> r, result |-> r.action]
    BY DEF Promise!AnswerOf
  <1> HIDE DEF e
  <1>5. Promise!Apply(k)
    <2>1. e \in Decisions'[k] /\ \A f \in Decisions[k] : e.at >= f.at + 1  BY <1>2
    <2> QED BY <1>3, <1>4, <2>1 DEF Promise!Apply, Answers
  <1> QED BY <1>5 DEF Promise!Next

\* A call is answered with the row of its key.
LEMMA RowAnswers ==
    ASSUME FeedbackInv, NEW a \in Askers, asking[a].stage # "idle", SameRequest(a),
           Move(a, "answer"), feedback' = feedback
    PROVE  Promise!Next
  <1>1. PICK k \in FeedbackKeys :
           k = asking[a].key /\ feedback[k] # NoRequest /\ feedback[k] = Said(a)
    BY DEF FeedbackInv, CallsSound, AsksForItem, SameRequest, Stored, NoRequest
  <1> DEFINE e == [at |-> 0, request |-> feedback[k], result |-> feedback[k].action]
  <1>2. /\ asking'[a] = [asking[a] EXCEPT !.stage = "answer"]
        /\ \A b \in Askers \ {a} : asking'[b] = asking[b]
    BY DEF FeedbackInv, TypeOK, Move
  <1>3. AnswerTo(a)' = Promise!AnswerOf(k, e)
    BY <1>1, <1>2 DEF FeedbackInv, TypeOK, AnswerTo, Promise!AnswerOf, Said
  <1>4. e \in Decisions[k] /\ Decisions' = Decisions
    BY <1>1 DEF Decisions
  <1> HIDE DEF e
  <1>5. Promise!Answer(k)
    BY <1>2, <1>3, <1>4, AnswersGrow DEF Promise!Answer, Answers
  <1> QED BY <1>1, <1>5 DEF Promise!Next

\* Every step is one of the promise, or leaves what it sees alone.
LEMMA StepKeepsPromise ==
    ASSUME FeedbackInv, [Next]_feedbackVars
    PROVE  Promise!Next
  <1>1. ASSUME NEW a \in Askers, AskerStep(a)  PROVE Promise!Next
    <2>1. ASSUME NEW b \in Askers, NEW stage \in {"race", "check"}, Move(b, stage),
                 feedback' = feedback
          PROVE  Promise!Next
      <3>1. asking'[b].stage = stage /\ \A c \in Askers \ {b} : asking'[c] = asking[c]
        BY <2>1 DEF FeedbackInv, TypeOK, Move
      <3> QED BY <2>1, <3>1, AnswersGrow, SilenceKept
    <2>2. ASSUME NEW b \in Askers, Leave(b), feedback' = feedback
          PROVE  Promise!Next
      <3>1. asking'[b].stage = "idle" /\ \A c \in Askers \ {b} : asking'[c] = asking[c]
        BY <2>2 DEF FeedbackInv, TypeOK, Leave, Resting
      <3> QED BY <2>2, <3>1, AnswersGrow, SilenceKept
    <2>3. CASE Ask(a)
      <3>1. asking'[a].stage = "asked" /\ \A c \in Askers \ {a} : asking'[c] = asking[c]
        BY <2>3 DEF FeedbackInv, TypeOK, Ask
      <3> QED BY <2>3, <3>1, AnswersGrow, SilenceKept DEF Ask
    <2>4. CASE Record(a)
      <3>1. /\ asking[a].key \in FeedbackKeys /\ feedback[asking[a].key] = NoRequest
            /\ Said(a) \in Request /\ Said(a) # NoRequest
        BY <2>4 DEF FeedbackInv, TypeOK, CallsSound, AsksForItem, Record, Fresh, Stored, Said,
                    NoRequest
      <3>2. /\ asking'[a] = [asking[a] EXCEPT !.stage = "answer"]
            /\ \A b \in Askers \ {a} : asking'[b] = asking[b]
        BY <2>4 DEF FeedbackInv, TypeOK, Record, Move
      <3>3. AnswerTo(a)' = [key |-> asking[a].key, request |-> Said(a),
                            result |-> Said(a).action]
        BY <3>2 DEF FeedbackInv, TypeOK, AnswerTo, Said
      <3>4. feedback' = [feedback EXCEPT ![asking[a].key] = Said(a)]
        BY <2>4 DEF Record
      <3> QED BY <3>1, <3>2, <3>3, <3>4, AnswersGrow, FillApplies
    <2>5. CASE Replay(a)  BY <2>5, RowAnswers DEF Replay
    <2>6. CASE Refuse(a)  BY <2>2, <2>6 DEF Refuse
    <2>7. CASE LoseRace(a)  BY <2>1, <2>2, <2>7 DEF LoseRace
    <2>8. CASE LookAgain(a)  BY <2>1, <2>2, <2>8 DEF LookAgain
    <2>9. CASE CheckItem(a)
      <3>1. SameRequest(a)  BY <2>9 DEF CheckItem, FeedbackInv, CallsSound
      <3> QED BY <2>2, <2>9, <3>1, RowAnswers DEF CheckItem
    <2>10. CASE Finish(a)  BY <2>2, <2>10 DEF Finish
    <2> QED BY <1>1, <2>3, <2>4, <2>5, <2>6, <2>7, <2>8, <2>9, <2>10 DEF AskerStep
  <1>2. ASSUME NEW k \in FeedbackKeys, NEW q \in QuestIds, CompleteQuest(k, q)
        PROVE  Promise!Next
    <2>1. QuestRequest(q) \in Request /\ QuestRequest(q) # NoRequest
      BY DEF QuestRequest, NoRequest, Request
    <2>2. Answers' = Answers  BY <1>2 DEF Answers, AnswerTo, CompleteQuest
    <2> QED BY <1>2, <2>1, <2>2, FillApplies DEF CompleteQuest
  <1>3. ASSUME UNCHANGED <<feedback, asking>>  PROVE Promise!Next
    <2>1. Answers' = Answers  BY <1>3 DEF Answers, AnswerTo
    <2> QED BY <1>3, <2>1, SilenceKept
  <1> QED BY <1>1, <1>2, <1>3 DEF Next, RemoveResource, Pass, feedbackVars

\* Feedback keeps the promise of an idempotency key: one decision for each key, and no
\* answer but that of a decision on this very request, for people who look again after a
\* lost race as for agents, and although quests use the same keys.
THEOREM FeedbackImplementsOncePerKey == Spec => FeedbackOncePerKey
  <1>1. Init => Promise!Init
    BY DEF Init, Promise!Init, Decisions, Resting
  <1>2. FeedbackInv /\ [Next]_feedbackVars => [Promise!Next]_(Promise!vars)
    BY StepKeepsPromise
  <1> QED BY <1>1, <1>2, FeedbackInvariant, PTL DEF Spec, FeedbackOncePerKey, Promise!Spec
===============================================================================
