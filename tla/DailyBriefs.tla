------------------------------ MODULE DailyBriefs ------------------------------
(* The daily brief of one owner (modules/briefs/brief-scheduler.service,   *)
(* brief-generator.service, relationship-health, brief-feedback.service).  *)
(* A run, of the scheduler or of a request, reads contacts, dates, open    *)
(* quests and earlier answers one after the other, ranks and plans, and    *)
(* writes the brief of the day it began in with its quests in one          *)
(* Serializable transaction.  Runs overlap each other, midnight and the    *)
(* owner's answers.  Time is counted in the owner's local days.            *)
EXTENDS Integers, Sequences, FiniteSets

CONSTANTS
    People,         \* contacts: 1 .. n, in the order of their ids
    Importance,     \* Contact.importance, by contact
    Cadence,        \* Contact.preferredCadenceDays
    Tasked,         \* the contacts with a pending task
    Dates,          \* what ImportantDates collects, in its order: [person, type, source, day]
    Generators,     \* runs of generateForOwner
    PersonLimit, DateLimit, QuestLimit,   \* PERSON_ITEM_LIMIT, DATE_ITEM_LIMIT, QUEST_LIMIT
    Horizon,        \* DATE_HORIZON_DAYS
    Cooldown,       \* DISMISS_COOLDOWN_MS in days
    MaxRetries,     \* SERIALIZATION_RETRY_LIMIT
    Met,            \* bound: the contacts the owner meets
    MaxToday, MaxAnswers   \* bounds on days and on answers

VARIABLES
    today,       \* the local date of `now`
    contacted,   \* lastContactedAt of each contact
    done,        \* when each reminder was completed
    brief,       \* the ready BriefBatch of each day: its BriefItems
    quests,      \* the Quest rows: [target, brief, day, status]
    answers,     \* the BriefFeedback rows on items
    generator    \* local state of each run

briefVars == <<today, contacted, done, brief, quests, answers, generator>>

Nil == -1
NoBrief == <<>>
Reminders == {Dates[i].source : i \in {i \in DOMAIN Dates : Dates[i].type = "reminder"}}
Resting == [stage |-> "idle", day |-> Nil, retries |-> 0, seen |-> Nil, plan |-> <<>>]

Init ==
    /\ today = 0
    /\ contacted = [p \in People |-> Nil]
    /\ done = [r \in Reminders |-> Nil]
    /\ brief = [d \in 0 .. MaxToday |-> NoBrief]
    /\ quests = {}
    /\ answers = {}
    /\ generator = [g \in Generators |-> Resting]

(* Health and rank of a contact, in the rounding of Math.round.            *)
Clamp(n) == IF n < 0 THEN 0 ELSE IF n > 100 THEN 100 ELSE n

HealthScore(last, cadence, day) ==
    IF last = Nil THEN 35
    ELSE LET days == IF day > last THEN day - last ELSE 0
         IN  Clamp((200 * cadence - 100 * days + cadence) \div (2 * cadence))

DateBoost(away) == CASE away = Nil -> 0 [] away \in 0 .. 7 -> 20 [] away \in 8 .. 14 -> 10 [] OTHER -> 0

RankScore(health, importance, away, tasked) ==
    Clamp((100 - health + 2 * (8 * importance + DateBoost(away) + (IF tasked THEN 15 ELSE 0)) + 1) \div 2)

(* What is at some places of a sequence, in its order. *)
At(s, places) ==
    [n \in 1 .. Cardinality(places) |->
        s[CHOOSE i \in places : Cardinality({j \in places : j < i}) = n - 1]]

(* What collect returns: the dates in the horizon, reminders while pending. *)
Upcoming(day, completed) ==
    At(Dates, {i \in DOMAIN Dates : /\ Dates[i].day \in day .. day + Horizon
                                    /\ Dates[i].type = "reminder" => completed[Dates[i].source] = Nil})

ScoreOf(p, seen, day) ==
    LET near == At(seen.dates, {i \in DOMAIN seen.dates : seen.dates[i].person = p})
    IN  RankScore(HealthScore(seen.contacted[p], Cadence[p], day), Importance[p],
                  IF near = <<>> THEN Nil ELSE near[1].day - day, p \in Tasked)

(* People in the order of their scores. *)
RankedPeople(people, seen, day) ==
    LET Above(p, q) ==
          \/ ScoreOf(p, seen, day) > ScoreOf(q, seen, day)
          \/ /\ ScoreOf(p, seen, day) = ScoreOf(q, seen, day)
             /\ \/ Importance[p] > Importance[q]
                \/ Importance[p] = Importance[q] /\ p < q
    IN  {order \in [1 .. Cardinality(people) -> people] :
            /\ \A p \in people : \E i \in DOMAIN order : order[i] = p
            /\ \A i, j \in DOMAIN order : i < j => Above(order[i], order[j])}

(* A run.  A snoozed contact rests until its time, a dismissed one for the *)
(* cooldown.                                                               *)
Excluded(day) ==
    {a.person : a \in {a \in answers : \/ a.action = "snooze" /\ a.until > day
                                       \/ a.action = "dismiss" /\ a.day >= day - Cooldown}}

PendingTargets == {q.target : q \in {q \in quests : q.status = "pending"}}

Target(type, id) == [type |-> type, id |-> id]

Take(s, n) == [i \in {i \in DOMAIN s : i <= n} |-> s[i]]

PlanItems(people, dates, pending) ==
    LET Person(p) ==
          [kind |-> "person", person |-> p, status |-> "pending",
           quest |-> {Target("interaction", p)} \ pending]
        Date(d) ==
          [kind |-> "date", person |-> d.person, status |-> "pending",
           quest |-> IF d.type = "reminder" THEN {Target("reminder", d.source)} \ pending ELSE {}]
    IN  [i \in DOMAIN people |-> Person(people[i])] \o [i \in DOMAIN dates |-> Date(dates[i])]

Read(day) ==
    [contacted |-> contacted, dates |-> Upcoming(day, done), pending |-> PendingTargets]

(* The contacts, the dates and the open quests are read side by side.  A   *)
(* ready brief is returned as it is.                                       *)
BeginBrief(g) ==
    /\ generator[g].stage = "idle"
    /\ brief[today] = NoBrief
    /\ generator' = [generator EXCEPT ![g] =
           [Resting EXCEPT !.stage = "plan", !.day = today, !.seen = Read(today)]]
    /\ UNCHANGED <<today, contacted, done, brief, quests, answers>>

ReadAgain(g) ==
    LET day == generator[g].day
    IN  /\ generator[g].stage = "again"
        /\ generator' = IF brief[day] # NoBrief
                        THEN [generator EXCEPT ![g] = Resting]
                        ELSE [generator EXCEPT ![g].stage = "plan", ![g].seen = Read(day)]
        /\ UNCHANGED <<today, contacted, done, brief, quests, answers>>

PlanBrief(g) ==
    LET r == generator[g]
    IN  /\ r.stage = "plan"
        /\ \E ranked \in RankedPeople(People \ Excluded(r.day), r.seen, r.day) :
              generator' = [generator EXCEPT ![g].stage = "write", ![g].seen = Nil, ![g].plan =
                  PlanItems(Take(ranked, PersonLimit), Take(r.seen.dates, DateLimit), r.seen.pending)]
        /\ UNCHANGED <<today, contacted, done, brief, quests, answers>>

(* The open quests are read again in the transaction that writes new ones. *)
AsPlanned(g) == {}

PendingAtWrite(g) == PendingTargets
NewQuests(g) ==
    LET plan == generator[g].plan
        wanted == {i \in DOMAIN plan : plan[i].quest \ PendingAtWrite(g) # {}}
        first == {i \in wanted : Cardinality({j \in wanted : j < i}) < QuestLimit}
    IN  {[target |-> t, brief |-> generator[g].day, day |-> today, status |-> "pending"] :
            t \in UNION {plan[i].quest : i \in first}}

(* A unique conflict on the day answers with the brief of the winner. *)
WriteBrief(g) ==
    LET day == generator[g].day
    IN  /\ generator[g].stage = "write"
        /\ generator' = [generator EXCEPT ![g] = Resting]
        /\ IF brief[day] # NoBrief
           THEN UNCHANGED <<brief, quests>>
           ELSE /\ brief' = [brief EXCEPT ![day] = generator[g].plan]
                /\ quests' = quests \cup NewQuests(g)
        /\ UNCHANGED <<today, contacted, done, answers>>

(* A serialization conflict: the whole attempt again, for the same `now`. *)
RetryBrief(g) ==
    /\ generator[g].stage = "write"
    /\ generator' = [generator EXCEPT ![g] =
           IF @.retries = MaxRetries THEN Resting
           ELSE [@ EXCEPT !.stage = "again", !.plan = <<>>, !.retries = generator[g].retries + 1]]
    /\ UNCHANGED <<today, contacted, done, brief, quests, answers>>

AbandonBrief(g) ==
    /\ generator[g].stage # "idle"
    /\ generator' = [generator EXCEPT ![g] = Resting]
    /\ UNCHANGED <<today, contacted, done, brief, quests, answers>>

(* The owner answers items, logs interactions, completes reminders and     *)
(* quests.                                                                 *)
StatusAfter == [accept |-> "accepted", snooze |-> "snoozed", dismiss |-> "dismissed"]

AnswerItem(day, i, action, until) ==
    LET item == brief[day][i]
    IN  /\ Cardinality(answers) < MaxAnswers
        /\ action = "accept" => item.status \in {"pending", "snoozed"}
        /\ action = "snooze" => until > today
        /\ brief' = [brief EXCEPT ![day][i].status = StatusAfter[action]]
        /\ answers' = answers \cup
               {[person |-> item.person, action |-> action, day |-> today,
                 until |-> IF action = "snooze" THEN until ELSE Nil]}
        /\ UNCHANGED <<today, contacted, done, quests, generator>>

Interact(p) ==
    /\ contacted[p] < today
    /\ contacted' = [contacted EXCEPT ![p] = today]
    /\ UNCHANGED <<today, done, brief, quests, answers, generator>>

CompleteReminder(r) ==
    /\ done[r] = Nil
    /\ done' = [done EXCEPT ![r] = today]
    /\ UNCHANGED <<today, contacted, brief, quests, answers, generator>>

Proven(q) ==
    IF q.target.type = "interaction" THEN contacted[q.target.id] >= q.day
    ELSE done[q.target.id] >= q.day

CompleteQuest(q) ==
    /\ q.status = "pending"
    /\ Proven(q)
    /\ quests' = (quests \ {q}) \cup {[q EXCEPT !.status = "completed"]}
    /\ UNCHANGED <<today, contacted, done, brief, answers, generator>>

NextDay ==
    /\ today < MaxToday
    /\ today' = today + 1
    /\ UNCHANGED <<contacted, done, brief, quests, answers, generator>>

Next ==
    \/ \E g \in Generators : \/ BeginBrief(g) \/ ReadAgain(g) \/ PlanBrief(g)
                             \/ WriteBrief(g) \/ RetryBrief(g) \/ AbandonBrief(g)
    \/ \E day \in 0 .. MaxToday : \E i \in DOMAIN brief[day] :
           \E action \in DOMAIN StatusAfter : \E until \in 1 .. MaxToday + 1 :
               AnswerItem(day, i, action, until)
    \/ \E p \in Met : Interact(p)
    \/ \E r \in Reminders : CompleteReminder(r)
    \/ \E q \in quests : CompleteQuest(q)
    \/ NextDay

Spec == Init /\ [][Next]_briefVars

(* Whatever runs overlap, and across midnight, the owner never has two     *)
(* open quests for one interaction or one reminder.                        *)
OneOpenQuest ==
    \A q, r \in quests :
        q.status = "pending" /\ r.status = "pending" /\ q.target = r.target => q = r

(* A contact that was snoozed or dismissed on an earlier day is in no      *)
(* brief until its rest is over.                                           *)
RestIsKept ==
    \A day \in 0 .. MaxToday : \A i \in DOMAIN brief[day] : \A a \in answers :
        /\ brief[day][i].kind = "person"
        /\ a.person = brief[day][i].person
        /\ a.day < day
        => /\ a.action = "snooze" => a.until <= day
           /\ a.action = "dismiss" => a.day + Cooldown < day
================================================================================
