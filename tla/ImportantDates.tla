---------------------------- MODULE ImportantDates ----------------------------
(* The dates of a daily brief (modules/briefs/important-dates.service.ts,  *)
(* brief-time.ts): birthdays and anniversaries, celebrations and pending   *)
(* reminders of one contact in the next days of the owner, in order and    *)
(* each occasion of a day once.  A celebration may have a reminder of its  *)
(* own, made for midnight UTC of its date, which in a zone west of         *)
(* Greenwich is the day before.                                            *)
(*                                                                         *)
(* A date is the number of its day; a year has YearDays days, the last of  *)
(* which exists in every LeapYears-th year only.  A day has DayLength      *)
(* units of time and a time zone shifts the clock by some of them.         *)
EXTENDS Integers, FiniteSets

CONSTANTS
    YearDays, LeapYears, DayLength,
    Horizon,       \* horizonDays
    YearsAhead,    \* how many years a celebration is searched for: 8
    Sources,       \* the candidates of a run, see Source
    Offsets,       \* time zones
    Nows           \* when collect is called

VARIABLES
    sources,       \* the rows read: dates, celebrations and pending reminders
    offset, now,
    dates,         \* what collect returns, None before
    collected

dateVars == <<sources, offset, now, dates, collected>>

Types == {"birthday", "anniversary", "celebration", "reminder"}
typePriority == [birthday |-> 0, anniversary |-> 1, celebration |-> 2, reminder |-> 3]

(* A row: `at` is the day in the year of a birthday, an anniversary or a   *)
(* celebration, the day of a dated one if `full`, the time of a reminder.  *)
Source == [type : Types, id : Nat, occasion : STRING, at : Nat, full : BOOLEAN]

Init ==
    /\ sources \in Sources
    /\ offset \in Offsets
    /\ now \in Nows
    /\ dates = <<>>
    /\ collected = FALSE

LocalDay(t) == (t + offset) \div DayLength
UtcDay(t) == t \div DayLength
Today == LocalDay(now)

(* Occurrences.                                                            *)
IsCalendarDay(year, day) == day < YearDays - 1 \/ year % LeapYears = 0

Least(S) == CHOOSE n \in S : \A k \in S : n <= k

daysFromLocalDate(day) ==
    LET this == Today \div YearDays
        years == {y \in this .. this + LeapYears + 1 :
                    IsCalendarDay(y, day) /\ y * YearDays + day >= Today}
    IN  Least(years) * YearDays + day

(* The first of the celebration's dates from today on, if there is one. *)
CelebrationDays(c) ==
    IF c.full THEN {c.at} \cap {d \in {c.at} : d \div YearDays = Today \div YearDays /\ d >= Today}
    ELSE LET this == Today \div YearDays
             days == {y * YearDays + c.at : y \in {y \in this .. this + YearsAhead : IsCalendarDay(y, c.at)}}
             ahead == {d \in days : d >= Today}
         IN  IF ahead = {} THEN {} ELSE {Least(ahead)}

InHorizon(day) == day \in Today .. Today + Horizon

Candidate(s, occasion, day) == [type |-> s.type, id |-> s.id, occasion |-> occasion, day |-> day]

Recurring ==
    {Candidate(s, s.type, daysFromLocalDate(s.at)) :
        s \in {s \in sources : s.type \in {"birthday", "anniversary"}}}

CelebrationsAhead ==
    {c \in UNION {{Candidate(s, s.occasion, d) : d \in CelebrationDays(s)} :
                     s \in {s \in sources : s.type = "celebration"}} : InHorizon(c.day)}

(* The celebration a reminder was made for: the same title, on its local   *)
(* day or else on its UTC day.                                             *)
MadeForOn(r, day) == {c \in CelebrationsAhead : c.occasion = r.occasion /\ c.day = day}

MadeFor(r) ==
    LET local == MadeForOn(r, LocalDay(r.at))
    IN  IF local # {} THEN local ELSE MadeForOn(r, UtcDay(r.at))

PendingReminders ==
    {r \in sources : /\ r.type = "reminder"
                     /\ r.at >= now /\ r.at <= now + (Horizon + 2) * DayLength}

ReminderCandidates ==
    {Candidate(r, r.occasion,
               IF MadeFor(r) = {} THEN LocalDay(r.at) ELSE (CHOOSE c \in MadeFor(r) : TRUE).day) :
        r \in PendingReminders}

Candidates == {c \in Recurring \cup CelebrationsAhead \cup ReminderCandidates : InHorizon(c.day)}

(* By day, then type, then id; of each occasion of a day, the first.       *)
Before(c, d) ==
    \/ c.day < d.day
    \/ c.day = d.day /\ typePriority[c.type] < typePriority[d.type]
    \/ c.day = d.day /\ c.type = d.type /\ c.id < d.id

SameOccasion(c, d) == c.day = d.day /\ c.occasion = d.occasion

Firsts == {c \in Candidates : \A d \in Candidates : SameOccasion(d, c) => ~ Before(d, c)}

Collect ==
    /\ ~ collected
    /\ collected' = TRUE
    /\ \E list \in [1 .. Cardinality(Firsts) -> Firsts] :
           /\ \A c \in Firsts : \E i \in DOMAIN list : list[i] = c
           /\ \A i, j \in DOMAIN list : i < j => Before(list[i], list[j])
           /\ dates' = list
    /\ UNCHANGED <<sources, offset, now>>

Next == Collect

Spec == Init /\ [][Next]_dateVars

(* In every time zone, a celebration of the next days is shown once, on    *)
(* its own day, though a reminder for midnight UTC of that day is pending; *)
(* and nothing of the next days is dropped but for something else of the   *)
(* same occasion on the same day.                                          *)
EachOccasionOnce ==
    collected =>
        /\ \A c, r \in sources :
               /\ c.type = "celebration" /\ r.type = "reminder" /\ r.occasion = c.occasion
               /\ r.at % DayLength = 0
               /\ UtcDay(r.at) \in CelebrationDays(c) /\ r.at >= now
               /\ InHorizon(UtcDay(r.at))
               => \E i \in DOMAIN dates : /\ dates[i].occasion = c.occasion
                                          /\ dates[i].day = UtcDay(r.at)
                                          /\ \A j \in DOMAIN dates : dates[j].id # r.id
        /\ \A c \in Candidates : \E i \in DOMAIN dates : SameOccasion(dates[i], c)
        /\ \A i, j \in DOMAIN dates : i < j => Before(dates[i], dates[j])
===============================================================================
