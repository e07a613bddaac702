------------------------------ MODULE AiAgent ------------------------------
(* The tools that advise (ai-agent.service.ts, summary-agent.ts,           *)
(* suggestion-agent.ts): what each makes of the contacts it read, and what *)
(* the language models (anthropic.service.ts, llm.service.ts) then change  *)
(* of the words, whether they answer, refuse, fail or say too little.      *)
EXTENDS Integers, FiniteSets, Sequences

CONSTANTS
    Advised,        \* contacts, not demo
    Kinds,          \* what may be recorded of one: days since it was last met, or Never; day of
                    \* the birthday, or NoDay; score, recent interactions, and tags and labels
    Celebrations,   \* of one: whether there is any, in how many days, and whether but once
    Days,           \* days of the year it may be
    YearLength

VARIABLES
    person,         \* what is recorded of each contact
    advice          \* the tool that is used, what it read, and what it says

adviceVars == <<person, advice>>

Never == -1
NoDay == -1
Tools == {"suggest", "remind", "health", "note", "summary", "meet", "improve"}
Text(by, of) == [by |-> by, of |-> of]
Unsaid == Text("nobody", 0)

Idle == [tool |-> "none", stage |-> "idle"]

Init ==
    /\ person \in [Advised -> Kinds]
    /\ advice = Idle

TypeOK ==
    /\ person \in [Advised -> Kinds]
    /\ advice.stage \in {"idle", "anthropic", "openrouter", "done"}
    /\ advice.stage # "idle" => advice.tool \in Tools /\ Len(advice.words) = Len(advice.listed)

-----------------------------------------------------------------------------
(* Figures.  A moment is a day and whether midnight is past.               *)

Min2(a, b) == IF a < b THEN a ELSE b
Max2(a, b) == IF a > b THEN a ELSE b

\* The next midnight of the day that is not past, and the whole days until then.
Ahead(birthday, now) ==
    birthday - now.day
       + IF birthday < now.day \/ (birthday = now.day /\ now.late) THEN YearLength ELSE 0
DaysUntil(birthday, now) == Ahead(birthday, now) - IF now.late THEN 1 ELSE 0
BirthdaySoon(p, now) == p.birthday # NoDay /\ DaysUntil(p.birthday, now) <= 30

\* Seven times the points, which are of two weeks.
StalePoints(p) == IF p.last = Never THEN 280 ELSE Min2(280, 20 * p.last)
BirthdayPoints(p, now) ==
    IF BirthdaySoon(p, now) THEN 7 * Max2(0, 30 - DaysUntil(p.birthday, now)) ELSE 0
ScorePoints(p) == 7 * ((3 * p.score + 5) \div 10)
Total(p, now) == StalePoints(p) + BirthdayPoints(p, now) + ScorePoints(p)

\* One who was never met is not stale.
Passes(p, reason, now) ==
    CASE reason = "stale" -> p.last > 14
      [] reason = "birthday" -> BirthdaySoon(p, now)
      [] reason = "score" -> p.score < 50
      [] OTHER -> TRUE

Clamp(n) == Max2(0, Min2(100, n))

Recency(p) ==
    CASE p.last = Never -> -30
      [] p.last > 60 -> -20
      [] p.last \in 31 .. 60 -> -10
      [] p.last \in 15 .. 30 -> 0
      [] p.last \in 8 .. 14 -> 10
      [] OTHER -> 20

Health(p) ==
    Clamp(50 + Recency(p) + Min2(20, 3 * p.count) + IF p.count >= 2 THEN 10 ELSE 0)

-----------------------------------------------------------------------------
(* Tools.                                                                  *)

\* Those of the highest rank, in its order; of equals, any.
Ranked(rank, limit) ==
    LET ids == DOMAIN rank
        count == Cardinality(ids)
    IN {[i \in 1 .. Min2(limit, count) |-> order[i]] :
          order \in {o \in [1 .. count -> ids] :
                        /\ \A id \in ids : \E i \in 1 .. count : o[i] = id
                        /\ \A i, j \in 1 .. count : i < j => rank[o[i]] >= rank[o[j]]}}

Suggested(seen, reason, now, limit) ==
    Ranked([id \in {id \in Advised : Passes(seen[id], reason, now)} |-> Total(seen[id], now)], limit)

\* Whom to meet: not met for two weeks, with marks of another who was met, but not since.
Similar(seen, id) ==
    {other \in Advised \ {id} : seen[other].last >= 14 /\ seen[other].marks \cap seen[id].marks # {}}
Shared(seen, id) == UNION {seen[other].marks \cap seen[id].marks : other \in Similar(seen, id)}
ToMeet(seen, limit) ==
    Ranked([id \in {id \in Advised : seen[id].last \notin 0 .. 13 /\ Similar(seen, id) # {}} |->
               10 * Cardinality(Shared(seen, id))
                  + IF seen[id].score = 0 THEN 50 ELSE seen[id].score], limit)
ToImprove(seen, limit) ==
    Ranked([id \in {id \in Advised : seen[id].score < 50} |-> -seen[id].score], limit)

\* What a reminder is of, in how many days it comes, and how it recurs.  A day that has begun
\* is over.
Reminder(p, celebration, now) ==
    CASE BirthdaySoon(p, now) ->
            [of |-> "birthday", days |-> Ahead(p.birthday, now), recurs |-> "yearly"]
      [] p.birthday = NoDay /\ celebration.there ->
            IF celebration.days > 0
            THEN [of |-> "celebration", days |-> celebration.days,
                  recurs |-> IF celebration.full THEN "none" ELSE "yearly"]
            ELSE [of |-> "followup", days |-> 7, recurs |-> "none"]
      [] p.birthday # NoDay \/ p.last > 30 -> [of |-> "followup", days |-> 7, recurs |-> "none"]
      [] p.last \in 15 .. 30 -> [of |-> "stale", days |-> 3, recurs |-> "none"]
      [] OTHER -> [of |-> "followup", days |-> 14, recurs |-> "weekly"]

\* Where a text is asked for first, if anywhere: models are those with a key.
FirstModel(tool, models, content) ==
    CASE tool \in {"remind", "meet", "improve"} -> "done"
      [] tool = "summary" -> IF content /\ "openrouter" \in models THEN "openrouter" ELSE "done"
      [] OTHER -> IF "anthropic" \in models THEN "anthropic"
                  ELSE IF "openrouter" \in models THEN "openrouter" ELSE "done"

Templates(ids) == [i \in DOMAIN ids |-> Text("template", ids[i])]

Begin(tool, now, ids, said) ==
    /\ \E content \in BOOLEAN, models \in SUBSET {"anthropic", "openrouter"} :
          LET stage == IF ids = << >> THEN "done" ELSE FirstModel(tool, models, content)
          IN advice' = [tool |-> tool, now |-> now, seen |-> person, listed |-> ids,
                        said |-> said, words |-> Templates(ids), stage |-> stage,
                        models |-> IF stage = "done" THEN {} ELSE models]
    /\ UNCHANGED person

AskForMany(now, limit) ==
    /\ advice.stage = "idle"
    /\ \/ \E reason \in {"all", "stale", "birthday", "score"} :
             \E ids \in Suggested(person, reason, now, limit) : Begin("suggest", now, ids, reason)
       \/ \E ids \in ToMeet(person, limit) : Begin("meet", now, ids, "all")
       \/ \E ids \in ToImprove(person, limit) : Begin("improve", now, ids, "all")

AskOfOne(id, now) ==
    /\ advice.stage = "idle"
    /\ \/ \E celebration \in Celebrations :
             Begin("remind", now, <<id>>, Reminder(person[id], celebration, now))
       \/ Begin("health", now, <<id, id>>, Health(person[id]))
       \/ Begin("note", now, <<id>>, "none")
       \/ Begin("summary", now, <<id>>, "none")

-----------------------------------------------------------------------------
(* Models.  A reply is of lines, each about a contact; none may be there.  *)

\* Lines are taken by where they stand, not by what they are about.
Worded(words, lines) ==
    [i \in DOMAIN words |-> IF i \in DOMAIN lines THEN lines[i] ELSE words[i]]

Lines(ids) == [i \in DOMAIN ids |-> Text("model", ids[i])]

\* A line may be left out, or each be said.
Reply(lines) ==
    /\ advice.stage \in {"anthropic", "openrouter"}
    /\ advice' = [advice EXCEPT !.stage = "done", !.words = Worded(@, lines)]
    /\ UNCHANGED person

Replies ==
    \/ Reply(Lines(advice.listed))
    \/ advice.tool = "suggest" /\ Len(advice.listed) > 1 /\ Reply(Lines(Tail(advice.listed)))
    \/ advice.tool = "health" /\ Reply(<<Text("template", advice.listed[1]),
                                        Text("model", advice.listed[1])>>)

KeptTemplates(words) == words

\* Refused, failed, or an empty reply: callLlm asks the other model, a note does not.
NoReply ==
    /\ advice.stage \in {"anthropic", "openrouter"}
    /\ advice' = IF advice.stage = "anthropic" /\ "openrouter" \in advice.models /\ advice.tool # "note"
                 THEN [advice EXCEPT !.stage = "openrouter"]
                 ELSE [advice EXCEPT !.stage = "done", !.words = KeptTemplates(@)]
    /\ UNCHANGED person

\* The summary of an empty reply is empty: only one that is missing is replaced.
EmptySummary ==
    /\ advice.stage = "openrouter" /\ advice.tool = "summary"
    /\ advice' = [advice EXCEPT !.stage = "done", !.words = <<Unsaid>>]
    /\ UNCHANGED person

Next ==
    \/ \E day \in Days, late \in BOOLEAN :
          LET now == [day |-> day, late |-> late]
          IN \/ \E limit \in 1 .. 2 : AskForMany(now, limit)
             \/ \E id \in Advised : AskOfOne(id, now)
    \/ Replies \/ NoReply \/ EmptySummary

Spec == Init /\ [][Next]_adviceVars

-----------------------------------------------------------------------------
Done(tool) == advice.tool = tool /\ advice.stage = "done"
Listed == {advice.listed[i] : i \in DOMAIN advice.listed}

\* Nobody who is left out of the suggestions has a birthday that comes sooner than that of
\* one who is listed, and is no less neglected and no less close; and of those whose score is
\* low, the lowest are listed.  Whoever was met within two weeks is nobody to meet again.
MostUrgentListed ==
    /\ Done("suggest") =>
          \A id \in Listed, out \in Advised \ Listed :
             LET p == advice.seen[out] q == advice.seen[id]
             IN ~ /\ Passes(p, advice.said, advice.now) /\ BirthdaySoon(p, advice.now)
                  /\ \/ q.birthday = NoDay
                     \/ Ahead(q.birthday, advice.now) > Ahead(p.birthday, advice.now)
                  /\ p.last = Never \/ p.last >= 14 \/ (q.last # Never /\ p.last >= q.last)
                  /\ p.score >= q.score /\ DaysUntil(p.birthday, advice.now) < 30
    /\ Done("improve") =>
          \A id \in Listed, out \in Advised \ Listed :
             advice.seen[out].score >= advice.seen[id].score
    /\ Done("meet") => \A id \in Listed : advice.seen[id].last \notin 0 .. 13

\* A reminder that is suggested is ahead, within the year, and recurs with what does; and one
\* who was met later and more often is in no worse health.
AdviceIsSound ==
    /\ Done("remind") =>
          /\ advice.said.days >= 0 /\ advice.said.days <= YearLength
          /\ advice.said.days = 0 => ~advice.now.late
          /\ advice.said.recurs = "yearly" => advice.said.of \in {"birthday", "celebration"}
    /\ \A a, b \in Advised :
          LET p == person[a] q == person[b]
          IN p.last # Never /\ (q.last = Never \/ q.last >= p.last) /\ p.count >= q.count =>
                Health(p) >= Health(q)

\* Whatever becomes of the models, each line is there, and in the words of the template it is
\* about the one it is for.  (A reply that leaves a line out puts its words to others; and a
\* summary may be empty.)
AdviceIsWorded ==
    advice.stage = "done" =>
       \A i \in DOMAIN advice.listed :
          /\ advice.tool # "summary" => advice.words[i].by # "nobody"
          /\ advice.words[i].by = "template" => advice.words[i].of = advice.listed[i]

=============================================================================
