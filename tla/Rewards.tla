------------------------------- MODULE Rewards -------------------------------
(* What the owner earns: interactions with a contact                       *)
(* (modules/interactions), quests of the daily brief (modules/briefs/      *)
(* brief-feedback.service.ts) and daily check-ins (modules/gamification),  *)
(* all of which write the XP of one User row.                              *)
(*                                                                         *)
(* Interactions are logged under an idempotency key of the owner (common/  *)
(* human-idempotency.service.ts): a Serializable transaction that takes    *)
(* its snapshot before it waits for the lock on the key, and is tried      *)
(* three times.  Completing a quest is a Serializable transaction as well. *)
(* Postgres aborts a transaction that would write a row somebody wrote     *)
(* since its snapshot, so what commits happens at once.  A check-in is     *)
(* several statements on their own.  Time is counted in days.              *)
EXTENDS Integers, FiniteSets, FiniteSetsExt, TLC

CONSTANTS
    Interactions,  \* ids of interactions
    Quests,        \* ids of quests
    LogKeys,       \* idempotency keys of logged interactions
    QuestKeys,     \* idempotency keys of completed quests
    Calls,         \* concurrent requests of the owner
    None,          \* no interaction, no quest
    RecordTTL,     \* DEFAULT_TTL_MS of a HumanIdempotencyRecord
    MaxAttempts,   \* MAX_TRANSACTION_ATTEMPTS
    InteractionXp, FirstXp, QuestXp, CheckInXp, StreakBonus, StreakXp,
    StreakTarget,  \* length of a streak that pays
    MaxClock       \* bound on the clock

Keys == LogKeys \cup QuestKeys

ASSUME ConstantsAssumption ==
    /\ LogKeys \cap QuestKeys = {} /\ Keys # {}
    /\ None \notin Interactions \cup Quests \cup Keys
    /\ {InteractionXp, CheckInXp, RecordTTL, MaxAttempts, StreakTarget, MaxClock} \subseteq Nat \ {0}
    /\ {FirstXp, QuestXp, StreakBonus, StreakXp} \subseteq Nat

VARIABLES
    user,          \* the User row
    interaction,   \* the Interaction rows: the day each occurred, 0 if there is none
    lastContacted, \* Contact.lastContactedAt
    achieved,      \* the UserAchievement rows
    ledger,        \* the sources of the XpTransaction rows
    quest,         \* the Quest rows
    feedback,      \* the BriefFeedback rows, by key
    record,        \* the HumanIdempotencyRecord rows, by key
    call,          \* local state of each request
    clock,         \* today
    effects,       \* history: what each key did, see OncePerKey
    checkIns,      \* history: the days of which a check-in is on record
    paid,          \* history: the payments for check-ins, numbered
    overlapped,    \* history: days paid while another check-in was under way
    awarded,       \* history: was the XP of the streak's achievement added?
    dropped        \* history: did a request end before it added that XP?

vars == <<user, interaction, lastContacted, achieved, ledger, quest, feedback, record, call,
          clock, effects, checkIns, paid, overlapped, awarded, dropped>>
logged == <<interaction, lastContacted, record, effects>>
quested == <<quest, feedback>>
checked == <<checkIns, paid, overlapped, awarded, dropped>>

Days == 1 .. MaxClock
Achievements == {"first_interaction", "streak_starter"}

\* lastActiveAt is 0 for null.
User == [xp : Nat, streak : Nat, lastActive : Nat]
Quest == [status : {"none", "pending", "completed"}, createdAt : Nat]

\* An interaction of a day, or a quest with its evidence.
Request == [day : Nat, quest : Quests \cup {None}, evidence : Interactions \cup {None}]
Record == [request : Request, result : Interactions \cup {None}, expiresAt : Nat]
Payment == [day : Days, long : BOOLEAN, nth : Nat]
Feedback == [quest : Quests \cup {None}, evidence : Interactions \cup {None}]

Call == [pc : {"idle", "waiting", "locked", "race", "checkin", "unlock", "award", "answer"},
         key : Keys \cup {None}, request : Request, since : Nat, now : Nat, attempt : Nat, user : User,
         records : [LogKeys -> Record], result : Interactions \cup Quests \cup {None}]

TypeOK ==
    /\ user \in User
    /\ interaction \in [Interactions -> Nat] /\ lastContacted \in Nat
    /\ achieved \in SUBSET Achievements
    /\ ledger \in SUBSET (Interactions \cup Quests \cup Achievements)
    /\ quest \in [Quests -> Quest]
    /\ feedback \in [QuestKeys -> Feedback]
    /\ record \in [LogKeys -> Record]
    /\ call \in [Calls -> Call]
    /\ clock \in Nat
    /\ checkIns \in SUBSET Days /\ paid \in SUBSET Payment /\ overlapped \in SUBSET Days
    /\ awarded \in BOOLEAN /\ dropped \in BOOLEAN

-----------------------------------------------------------------------------
NoRequest == [day |-> 0, quest |-> None, evidence |-> None]
NoRecord == [request |-> NoRequest, result |-> None, expiresAt |-> 0]
NoFeedback == [quest |-> None, evidence |-> None]
NewUser == [xp |-> 0, streak |-> 0, lastActive |-> 0]
NoCall == [pc |-> "idle", key |-> None, request |-> NoRequest, since |-> 0,
           now |-> 0, attempt |-> 0, user |-> NewUser,
           records |-> [k \in LogKeys |-> NoRecord], result |-> None]

Init ==
    /\ user = NewUser
    /\ interaction = [i \in Interactions |-> 0] /\ lastContacted = 0
    /\ achieved = {} /\ ledger = {}
    /\ quest = [q \in Quests |-> [status |-> "none", createdAt |-> 0]]
    /\ feedback = [k \in QuestKeys |-> NoFeedback]
    /\ record = [k \in LogKeys |-> NoRecord]
    /\ call = [c \in Calls |-> NoCall]
    /\ clock = 1
    /\ effects = [k \in LogKeys |-> {}]
    /\ checkIns = {} /\ paid = {} /\ overlapped = {} /\ awarded = FALSE /\ dropped = FALSE

Logged == {i \in Interactions : interaction[i] # 0}
Completed == {q \in Quests : quest[q].status = "completed"}

Leave(c) == call' = [call EXCEPT ![c] = NoCall]
Tell(c, result) ==
    call' = [call EXCEPT ![c] = [NoCall EXCEPT !.pc = "answer", !.key = call[c].key,
                                    !.request = call[c].request, !.since = call[c].since,
                                    !.result = result]]

-----------------------------------------------------------------------------
(* Logging an interaction: HumanIdempotencyService.execute around          *)
(* createForAgentInTransaction.                                            *)

\* An attempt begins: the snapshot, and the wait for the lock.
Attempt(c, k, request, since, n) ==
    call' = [call EXCEPT ![c] = [NoCall EXCEPT !.pc = "waiting", !.key = k, !.request = request,
                                    !.since = since, !.attempt = n, !.user = user,
                                    !.records = record]]

Begin(c) ==
    /\ call[c].pc = "idle"
    /\ \E k \in LogKeys, day \in 1 .. clock : Attempt(c, k, [NoRequest EXCEPT !.day = day], clock, 1)
    /\ UNCHANGED <<user, logged, achieved, ledger, quested, clock, checked>>

\* pg_advisory_xact_lock returns; now is read.
Lock(c) ==
    /\ call[c].pc = "waiting"
    /\ \A d \in Calls : call[d].pc = "locked" => call[d].key # call[c].key
    /\ call' = [call EXCEPT ![c].pc = "locked", ![c].now = clock]
    /\ UNCHANGED <<user, logged, achieved, ledger, quested, clock, checked>>

Seen(c) == call[c].records[call[c].key]
Live(c) == Seen(c).expiresAt > call[c].now
SameRequest(c) == Seen(c).request = call[c].request

\* Records of other keys the transaction deletes, of the few it sees that have expired.
Expired(c) == {l \in LogKeys \ {call[c].key} : /\ call[c].records[l] # NoRecord
                                               /\ call[c].records[l].expiresAt <= call[c].now}

Cleaned(c) == [l \in LogKeys |-> IF l \in Expired(c) THEN NoRecord ELSE record[l]]

\* Mutant: READ COMMITTED, and no unique index.
NeverConflicts(c) == TRUE

\* Nobody wrote what the transaction writes since its snapshot: no P2002, no P2034.
Unwritten(c) ==
    /\ \A l \in Expired(c) : record[l] = call[c].records[l]
    /\ ~Live(c) => record[call[c].key] = Seen(c) /\ user = call[c].user

\* The stored response is the answer.
Replay(c) ==
    /\ call[c].pc = "locked" /\ Live(c) /\ SameRequest(c) /\ Unwritten(c)
    /\ record' = Cleaned(c)
    /\ Tell(c, Seen(c).result)
    /\ UNCHANGED <<user, interaction, lastContacted, achieved, ledger, quested, clock, effects,
                   checked>>

\* The key belongs to a different request.
RefuseKey(c) ==
    /\ call[c].pc = "locked" /\ Live(c) /\ ~SameRequest(c)
    /\ Leave(c)
    /\ UNCHANGED <<user, logged, achieved, ledger, quested, clock, checked>>

\* Mutant: the contact's date follows what was logged last.
LatestLogged(day) == day

\* The updateMany on the contact: only a later day is news.
Advanced(day) == IF lastContacted < day THEN day ELSE lastContacted

\* The first interaction unlocks an achievement.
Unlocks == {"first_interaction"} \ achieved

\* The transaction commits: interaction, contact, ledger, achievement, user, record.
Log(c) ==
    /\ call[c].pc = "locked" /\ ~Live(c) /\ Unwritten(c)
    /\ \E i \in Interactions \ Logged, activityAt \in call[c].now .. clock :
          LET day == call[c].request.day
              first == IF Unlocks # {} THEN FirstXp ELSE 0
          IN /\ interaction' = [interaction EXCEPT ![i] = day]
             /\ lastContacted' = Advanced(day)
             /\ achieved' = achieved \cup Unlocks
             /\ ledger' = ledger \cup {i} \cup Unlocks
             /\ user' = [user EXCEPT !.xp = @ + InteractionXp + first, !.lastActive = activityAt]
             /\ record' = [Cleaned(c) EXCEPT ![call[c].key] =
                             [request |-> call[c].request, result |-> i,
                              expiresAt |-> call[c].now + RecordTTL]]
             /\ effects' = [effects EXCEPT ![call[c].key] =
                              @ \cup {[at |-> call[c].now, request |-> call[c].request,
                                       result |-> i]}]
             /\ Tell(c, i)
    /\ UNCHANGED <<quested, clock, checked>>

\* P2002 or P2034: another attempt, or a 409 after the last.
Retry(c) ==
    /\ call[c].pc = "locked" /\ ~Unwritten(c)
    /\ IF call[c].attempt < MaxAttempts
       THEN Attempt(c, call[c].key, call[c].request, call[c].since, call[c].attempt + 1)
       ELSE Leave(c)
    /\ UNCHANGED <<user, logged, achieved, ledger, quested, clock, checked>>

-----------------------------------------------------------------------------
\* Quests.

\* A brief has a quest for the contact unless one is pending.
NewQuest(q) ==
    /\ quest[q].status = "none"
    /\ \A p \in Quests : quest[p].status # "pending"
    /\ quest' = [quest EXCEPT ![q] = [status |-> "pending", createdAt |-> clock]]
    /\ UNCHANGED <<user, logged, achieved, ledger, feedback, call, clock, checked>>

\* verifyQuestEvidence.
Evidence(q, i) == i \in Logged /\ interaction[i] >= quest[q].createdAt

QuestRequest(q, i) == [NoRequest EXCEPT !.quest = q, !.evidence = i]
QuestCall(pc, k, request, result) ==
    [NoCall EXCEPT !.pc = pc, !.key = k, !.request = request, !.since = clock, !.result = result]

\* completeQuestInTransaction commits.
CompleteQuest(c) ==
    /\ call[c].pc = "idle"
    /\ \E q \in Quests, k \in QuestKeys, i \in Interactions :
          /\ feedback[k] = NoFeedback
          /\ quest[q].status = "pending" /\ Evidence(q, i) /\ q \notin ledger
          /\ quest' = [quest EXCEPT ![q].status = "completed"]
          /\ ledger' = ledger \cup {q}
          /\ user' = [user EXCEPT !.xp = @ + QuestXp, !.lastActive = clock]
          /\ feedback' = [feedback EXCEPT ![k] = [quest |-> q, evidence |-> i]]
          /\ call' = [call EXCEPT ![c] = QuestCall("answer", k, QuestRequest(q, i), q)]
    /\ UNCHANGED <<logged, achieved, clock, checked>>

\* resolveQuestReplay: the feedback of the key is of this very request.
Answers(k, request) ==
    /\ feedback[k] # NoFeedback
    /\ feedback[k] = [quest |-> request.quest, evidence |-> request.evidence]
    /\ request.quest \in Completed \cap ledger

ReplayQuest(c) ==
    /\ call[c].pc = "idle"
    /\ \E q \in Quests, k \in QuestKeys, i \in Interactions :
          /\ Answers(k, QuestRequest(q, i))
          /\ call' = [call EXCEPT ![c] = QuestCall("answer", k, QuestRequest(q, i), q)]
    /\ UNCHANGED <<user, logged, achieved, ledger, quested, clock, checked>>

\* Mutant: what was done before the race was lost is not undone.
LoseRaceHalfway(c) ==
    /\ call[c].pc = "idle"
    /\ \E q \in Quests, k \in QuestKeys, i \in Interactions :
          /\ quest[q].status # "none" /\ feedback[k] = NoFeedback
          /\ feedback' = [feedback EXCEPT ![k] = [quest |-> q, evidence |-> i]]
          /\ call' = [call EXCEPT ![c] = QuestCall("race", k, QuestRequest(q, i), None)]
    /\ UNCHANGED <<user, logged, achieved, ledger, quest, clock, checked>>

\* The transaction loses a race, and all it did is undone.
LoseRace(c) ==
    /\ call[c].pc = "idle"
    /\ \E q \in Quests, k \in QuestKeys, i \in Interactions :
          /\ quest[q].status # "none"
          /\ call' = [call EXCEPT ![c] = QuestCall("race", k, QuestRequest(q, i), None)]
    /\ UNCHANGED <<user, logged, achieved, ledger, quested, clock, checked>>

\* Mutant: completed is completed, whoever did it.
ResolveByQuest(c) ==
    /\ call[c].pc = "race"
    /\ IF call[c].request.quest \in Completed THEN Tell(c, call[c].request.quest) ELSE Leave(c)
    /\ UNCHANGED <<user, logged, achieved, ledger, quested, clock, checked>>

\* resolveCompletionRace looks again: a replay, or an error.
ResolveRace(c) ==
    /\ call[c].pc = "race"
    /\ IF Answers(call[c].key, call[c].request) THEN Tell(c, call[c].request.quest) ELSE Leave(c)
    /\ UNCHANGED <<user, logged, achieved, ledger, quested, clock, checked>>

-----------------------------------------------------------------------------
\* checkIn, and checkStreakAchievements.

\* Mutant: active at this very moment, not on this day.
NeverToday == FALSE

ActiveToday == user.lastActive = clock

\* The user is read; who was active today has nothing to check in.
ReadUser(c) ==
    /\ call[c].pc = "idle"
    /\ IF ActiveToday
       THEN checkIns' = checkIns \cup {clock} /\ UNCHANGED call
       ELSE /\ call' = [call EXCEPT ![c] = [NoCall EXCEPT !.pc = "checkin", !.since = clock,
                                               !.now = clock, !.user = user]]
            /\ UNCHANGED checkIns
    /\ UNCHANGED <<user, logged, achieved, ledger, quested, clock, paid, overlapped, awarded, dropped>>

\* Mutant: a missed day costs one day of the streak.
DecayingStreak(c) ==
    LET seen == call[c].user IN
    IF seen.lastActive # 0 /\ seen.lastActive = call[c].now - 1 THEN seen.streak + 1
    ELSE seen.streak - 1

NewStreak(c) ==
    LET seen == call[c].user IN
    IF seen.lastActive # 0 /\ seen.lastActive = call[c].now - 1 THEN seen.streak + 1 ELSE 1

Award(streak) == CheckInXp + IF streak >= StreakTarget THEN StreakBonus ELSE 0

\* Mutant: the XP the check-in has read, and more.
XpSeen(c, xp) == call[c].user.xp + xp

XpAfter(c, xp) == user.xp + xp

\* The streak is written, and the XP incremented.
CheckIn(c) ==
    /\ call[c].pc = "checkin"
    /\ LET streak == NewStreak(c) IN
       /\ user' = [xp |-> XpAfter(c, Award(streak)), streak |-> streak,
                   lastActive |-> call[c].now]
       /\ paid' = paid \cup {[day |-> call[c].now, long |-> streak >= StreakTarget,
                              nth |-> Cardinality(paid) + 1]}
       /\ overlapped' = IF \E d \in Calls \ {c} : call[d].pc = "checkin"
                        THEN overlapped \cup {call[c].now} ELSE overlapped
       /\ checkIns' = checkIns \cup {call[c].now}
       /\ IF streak >= StreakTarget
          THEN call' = [call EXCEPT ![c] = [NoCall EXCEPT !.pc = "unlock", !.since = call[c].since]]
          ELSE Leave(c)
    /\ UNCHANGED <<logged, achieved, ledger, quested, clock, awarded, dropped>>

\* The achievement, unless it is there: a second row violates the unique index.
UnlockStreak(c) ==
    /\ call[c].pc = "unlock"
    /\ IF "streak_starter" \in achieved THEN Leave(c) /\ UNCHANGED achieved
       ELSE /\ achieved' = achieved \cup {"streak_starter"}
            /\ call' = [call EXCEPT ![c].pc = "award"]
    /\ UNCHANGED <<user, logged, ledger, quested, clock, checked>>

AwardStreak(c) ==
    /\ call[c].pc = "award"
    /\ user' = [user EXCEPT !.xp = @ + StreakXp]
    /\ awarded' = TRUE
    /\ Leave(c)
    /\ UNCHANGED <<logged, achieved, ledger, quested, clock, checkIns, paid, overlapped, dropped>>

-----------------------------------------------------------------------------
\* The owner gets the answer; or the process dies, the connection is lost: before the
\* commit nothing has happened, after it nobody is told.  A check-in stays half done.
Finish(c) ==
    /\ call[c].pc # "idle"
    /\ dropped' = (dropped \/ call[c].pc = "award")
    /\ Leave(c)
    /\ UNCHANGED <<user, logged, achieved, ledger, quested, clock, checkIns, paid, overlapped,
                   awarded>>

\* No request takes a day.
Tick ==
    /\ clock < MaxClock
    /\ \A c \in Calls : call[c].pc # "idle" => call[c].since = clock
    /\ clock' = clock + 1
    /\ UNCHANGED <<user, logged, achieved, ledger, quested, call, checked>>

CallStep(c) ==
    \/ Begin(c) \/ Lock(c) \/ Replay(c) \/ RefuseKey(c) \/ Log(c) \/ Retry(c)
    \/ CompleteQuest(c) \/ ReplayQuest(c) \/ LoseRace(c) \/ ResolveRace(c)
    \/ ReadUser(c) \/ CheckIn(c) \/ UnlockStreak(c) \/ AwardStreak(c) \/ Finish(c)

Next == (\E c \in Calls : CallStep(c)) \/ (\E q \in Quests : NewQuest(q)) \/ Tick

Spec == Init /\ [][Next]_vars

-----------------------------------------------------------------------------
\* What it is for.

\* What the check-ins are worth.
CheckInsWorth ==
    CheckInXp * Cardinality(paid) + StreakBonus * Cardinality({p \in paid : p.long})
    + (IF awarded THEN StreakXp ELSE 0)

\* The XP is that of the interactions, quests, achievements and payments, each once.
XpAddsUp ==
    user.xp = InteractionXp * Cardinality(Logged) + QuestXp * Cardinality(Completed)
              + (IF "first_interaction" \in achieved THEN FirstXp ELSE 0) + CheckInsWorth

\* A day is paid twice only if it was paid while another check-in was under way.
PaidOnceADay == \A p, q \in paid : p.day = q.day /\ p # q => p.day \in overlapped

\* The XP of the streak's achievement goes with its row, unless the request that wrote the
\* row is still to add it, or ended before.
StreakIsRewarded ==
    /\ awarded => "streak_starter" \in achieved
    /\ "streak_starter" \in achieved /\ ~awarded => dropped \/ \E c \in Calls : call[c].pc = "award"

\* The XP of the owner is explained by the rows, whatever overlaps or is retried: nothing
\* is counted twice or lost, except what overlapping check-ins pay twice and a streak's XP
\* that a dying request leaves behind.
XpExplained == XpAddsUp /\ PaidOnceADay /\ StreakIsRewarded

\* The append-only ledger has one row for every interaction, completed quest and
\* interaction achievement, and a quest is completed under one key.
LedgerFollowsFacts ==
    /\ ledger = Logged \cup Completed \cup (achieved \cap {"first_interaction"})
    /\ \A k \in QuestKeys : feedback[k] # NoFeedback => feedback[k].quest \in Completed
    /\ \A q \in Completed : \E k \in QuestKeys : \A l \in QuestKeys : feedback[l].quest = q <=> k = l

\* The contact shows the latest day something happened, in whatever order it is logged.
LastContactIsLatest == lastContacted = Max({0} \cup {interaction[i] : i \in Interactions})

Answering(S) == {[key |-> call[c].key, request |-> call[c].request, result |-> call[c].result] :
                   c \in {d \in Calls : call[d].pc = "answer" /\ call[d].key \in S}}

\* Logging keeps what an idempotency key promises, through waits on the lock, stale
\* snapshots, retries and records that run out.
LogsKeepPromise == INSTANCE OncePerKey WITH
    Keys <- LogKeys, TTL <- RecordTTL, telling <- Answering(LogKeys)
LogsOncePerKey == LogsKeepPromise!Spec

\* So does completing a quest, whose key is never forgotten.
QuestsKeepPromise == INSTANCE OncePerKey WITH
    Keys <- QuestKeys, TTL <- 1, telling <- Answering(QuestKeys),
    effects <- [k \in QuestKeys |->
                  IF feedback[k] = NoFeedback THEN {}
                  ELSE {[at |-> 0, result |-> feedback[k].quest,
                         request |-> QuestRequest(feedback[k].quest, feedback[k].evidence)]}]
QuestsOncePerKey == QuestsKeepPromise!Spec

\* The length of the row of days in S that ends with its last.
Row(S) == Cardinality({d \in S : d .. Max(S) \subseteq S})

\* The rules in the comment on checkIn: the streak is the length of the row of days
\* with a check-in, and a day's check-in is paid once.
CheckInRules ==
    (\A c \in Calls : call[c].pc \notin {"checkin", "unlock", "award"}) =>
        /\ checkIns # {} => user.streak = Row(checkIns)
        /\ \A p, q \in paid : p.day = q.day => p = q

\* For the model checker: which row is which makes no difference.
Symmetry == Permutations(Interactions) \cup Permutations(Quests) \cup Permutations(Calls)
            \cup Permutations(LogKeys) \cup Permutations(QuestKeys)

=============================================================================
