-------------------------- MODULE EventRecommendation --------------------------
(* Which public events the owner is recommended (modules/events/           *)
(* event-recommendation.service.ts, event-ranking.ts): three at most, by a *)
(* score of time, distance, interests, company and what the owner said to  *)
(* earlier ones, and none that collides with the calendar.                 *)
(*                                                                         *)
(* What the owner has said (BriefFeedback rows) and the calendar grow over *)
(* days; each recommendation reads both.                                   *)
EXTENDS Integers, FiniteSets

CONSTANTS
    Events,        \* DiscoveredEvent rows: [id, startAt, endAt, category, distance, tags,
                   \*   weight, contacts], the last three as what they match of the owner's
    MaxDistance,   \* maxDistanceKm of the owner
    Travel,        \* travel time and buffer around an event, in days, by distance
    DismissalLasts, \* how long a rejection counts, 30 days
    Remembered,    \* how long feedback is read, 90 days
    BusyDays,      \* days on which the calendar may hold something
    MaxSnooze,     \* bound on how long an event is put off
    MaxSaid,       \* bound on the feedback given
    MaxDay         \* bound on the clock

VARIABLES
    said,       \* the BriefFeedback rows of events
    busy,       \* the days that opaque, accepted events of selected calendars take
    resync,     \* whether a selected calendar is to be listed in full
    advised,    \* what the last recommendation returned, best first
    day         \* the time `now`

recommendationVars == <<said, busy, resync, advised, day>>

Feedback == [event : Events, action : {"accept", "dismiss", "snooze"}, at : Nat, until : Nat]

TypeOK ==
    /\ said \subseteq Feedback
    /\ busy \in SUBSET BusyDays /\ resync \in BOOLEAN
    /\ advised \in UNION {[1 .. n -> Events] : n \in 0 .. 3}
    /\ day \in 0 .. MaxDay

Init ==
    /\ said = {} /\ busy \in SUBSET BusyDays /\ resync = FALSE
    /\ advised = << >> /\ day = 0

Least(a, b) == IF a < b THEN a ELSE b

-----------------------------------------------------------------------------
\* rankEventCandidates.

Heard == {f \in said : day - Remembered <= f.at}

\* isExcludedByFeedback: put off, turned down, or of a kind that was turned down twice.
IsExcluded(e) ==
    \/ \E f \in Heard : f.event = e /\ f.until > day
    \/ \E f \in Heard : f.event = e /\ f.action = "dismiss" /\ day - DismissalLasts <= f.at
    \/ Cardinality({f \in Heard : /\ f.action = "dismiss" /\ day - DismissalLasts <= f.at
                                  /\ e.category # "" /\ f.event.category = e.category}) >= 2

\* resolveDistance: an event of unknown distance is not too far.
Eligible(e) == e.distance <= MaxDistance

TimeScore(e) ==
    IF e.startAt - day <= 2 THEN 25 ELSE IF e.startAt - day <= 7 THEN 20
    ELSE IF e.startAt - day <= 14 THEN 15 ELSE 0

DistanceScore(e) ==
    IF e.distance < 0 THEN 0 ELSE (25 * (MaxDistance - e.distance) + MaxDistance \div 2) \div MaxDistance

SocialScore(e) ==
    Least(15, e.weight + IF e.category \in {"social", "networking", "community"} THEN 5 ELSE 0)

NoveltyScore(e) ==
    IF \E f \in Heard : f.event.category = e.category /\ e.category # "" /\ day - DismissalLasts <= f.at
    THEN 2 ELSE 5

FeedbackScore(e) ==
    LET Of(action) == Cardinality({f \in Heard : /\ f.event.category = e.category
                                                 /\ e.category # "" /\ f.action = action})
        score == 3 + Of("accept") - Of("dismiss")
    IN IF score < 0 THEN 0 ELSE Least(5, score)

Score(e) ==
    Least(100, TimeScore(e) + DistanceScore(e) + Least(15, 5 * e.tags) + SocialScore(e)
               + Least(10, 2 * e.contacts) + NoveltyScore(e) + FeedbackScore(e))

\* compareRankedEvents.
Before(a, b) ==
    \/ Score(a) > Score(b)
    \/ Score(a) = Score(b) /\ a.startAt < b.startAt
    \/ Score(a) = Score(b) /\ a.startAt = b.startAt /\ a.id < b.id

Ranked == {e \in Events : e.endAt > day /\ ~IsExcluded(e) /\ Eligible(e)}

-----------------------------------------------------------------------------
\* hasCalendarConflict: the way there and back belongs to the event; an event whose
\* distance is unknown takes only the buffer.
HasConflict(e) ==
    LET padding == Travel[IF e.distance < 0 THEN 0 ELSE e.distance]
    IN \E d \in busy : e.startAt - padding <= d /\ d < e.endAt + padding

\* Mutant: looks at the best three and drops those that collide.
BestClear ==
    LET ranked == Ranked
    IN {e \in ranked : Cardinality({r \in ranked : Before(r, e)}) < 3 /\ ~HasConflict(e)}

\* The loop of recommend.
Clear ==
    LET going == {e \in Ranked : ~HasConflict(e)}
    IN {e \in going : Cardinality({r \in going : Before(r, e)}) < 3}

\* recommend: nothing while a calendar is not up to date.
Recommend ==
    /\ advised' = IF resync THEN << >>
                  ELSE LET clear == Clear
                       IN [n \in 1 .. Cardinality(clear) |->
                              CHOOSE e \in clear :
                                  Cardinality({r \in clear : Before(r, e)}) = n - 1]
    /\ UNCHANGED <<said, busy, resync, day>>

\* The owner answers a recommendation that a brief has shown.
Say(e, action) ==
    /\ \E n \in DOMAIN advised : advised[n] = e
    /\ Cardinality(said) < MaxSaid
    /\ \E until \in IF action = "snooze" THEN day + 1 .. day + MaxSnooze ELSE {0} :
          said' = said \cup {[event |-> e, action |-> action, at |-> day, until |-> until]}
    /\ UNCHANGED <<busy, resync, advised, day>>

\* The calendar synchronisation.
ChangeCalendar ==
    /\ \E d \in BusyDays : busy' \in {busy \cup {d}, busy \ {d}}
    /\ resync' \in BOOLEAN
    /\ UNCHANGED <<said, advised, day>>

NextDay ==
    /\ day < MaxDay
    /\ day' = day + 1
    /\ UNCHANGED <<said, busy, resync, advised>>

Next ==
    \/ Recommend \/ ChangeCalendar \/ NextDay
    \/ \E e \in Events, action \in {"accept", "dismiss", "snooze"} : Say(e, action)

-----------------------------------------------------------------------------
\* A recommendation names, best first, events the owner can go to and has not turned down
\* or put off, and misses one that is better than what it names only because the owner
\* has no time for it; it names fewer than three only when there are no others.
GoodAdvice ==
    LET advice == {advised'[n] : n \in DOMAIN advised'}
        Told(e, f) == /\ f.event = e
                      /\ f.until > day \/ (f.action = "dismiss" /\ f.at >= day - DismissalLasts)
        Going(e) == /\ e.endAt > day
                    /\ \A d \in busy : d < e.startAt \/ d >= e.endAt
    IN ~resync =>
          /\ \A e \in advice : Going(e) /\ ~\E f \in said : Told(e, f)
          /\ \A n, m \in DOMAIN advised' : n < m => /\ advised'[n] # advised'[m]
                                                    /\ Score(advised'[n]) >= Score(advised'[m])
          /\ \A e \in Events \ advice :
                \/ e \notin Ranked \/ HasConflict(e)
                \/ Cardinality(advice) = 3 /\ (\A a \in advice : Score(a) >= Score(e))

=============================================================================
