------------------------------ MODULE Celebrations ------------------------------
(* Celebrations and the contacts they are kept for                         *)
(* (modules/celebrations/celebrations.service.ts).  The system ships packs *)
(* of celebrations, the owner makes others; an attachment says that a      *)
(* contact keeps one, and whether to be reminded of it.  Attaching reads   *)
(* before it writes.  A request for notifications lists what is near, then *)
(* tells the owner of one after another.                                   *)
(*                                                                         *)
(* Time is counted in half days, so that a day is past from its noon on,   *)
(* and years all have the slots of a leap year.                            *)
EXTENDS Integers, FiniteSets

CONSTANTS
    Contacts,      \* ids of Contact rows that are not for demonstration
    System, Own,   \* ids of Celebration rows of the system and of the owner
    YearDays,      \* slots for days in a year
    LeapDay,       \* the slot of February 29
    Dates,         \* [kind, day]: of each year, of the moon's year, or of one year alone
    ReminderWindow,        \* days ahead a reminder looks, 14
    MaxListed,     \* reminders listed, 50
    MaxToday       \* bound on the clock

VARIABLES
    celebration,  \* the Celebration rows: their date, or none
    attachment,   \* the ContactCelebration rows
    attaching,    \* a request to attach: what it is for and what it has read
    telling,      \* a request for notifications: the attachments left to tell of
    today         \* the time `new Date()` returns

celebrationVars == <<celebration, attachment, attaching, telling, today>>

None == [kind |-> "none", day |-> 0]
Pairs == Contacts \X (System \cup Own)
Unattached == [status |-> "none", remind |-> FALSE]
Attachment == [status : {"none", "active", "ignored"}, remind : BOOLEAN]
Idle == [pc |-> "idle", pair |-> CHOOSE p \in Pairs : TRUE, existing |-> Unattached]

TypeOK ==
    /\ celebration \in [System \cup Own -> Dates \cup {None}]
    /\ attachment \in [Pairs -> Attachment]
    /\ attaching \in [pc : {"idle", "read"}, pair : Pairs, existing : Attachment]
    /\ telling \in SUBSET Pairs
    /\ today \in Nat

Init ==
    /\ celebration \in {f \in [System \cup Own -> Dates \cup {None}] :
                           \A k \in System \cup Own : f[k] = None <=> k \in Own}
    /\ attachment = [p \in Pairs |-> Unattached]
    /\ attaching = Idle /\ telling = {} /\ today = 0

-----------------------------------------------------------------------------
\* getGregorianDateForCelebration.

Year(time) == time \div (2 * YearDays)
Midnight(year, slot) == 2 * (year * YearDays + slot)
IsLeap(year) == year % 2 = 1

\* lunarToGregorian: a day earlier every year.
LunarToGregorian(day, year) == Midnight(year, (day - year) % YearDays)

\* The midnights a date falls on in a year: one, or none on a day the year has not.
Gregorian(date, year) ==
    CASE date.kind = "full" -> {2 * date.day}
      [] date.kind = "lunar" -> {LunarToGregorian(date.day, year)}
      [] date.kind = "fixed" -> IF date.day = LeapDay /\ ~IsLeap(year) THEN {}
                                ELSE {Midnight(year, date.day)}

\* Mutant: lets what has passed this year rest.
ThisYear(date, now) == {d \in Gregorian(date, Year(now)) : now <= d /\ d <= now + 2 * ReminderWindow}

\* getReminderCelebrations: the day to remind of, or none.
ToRemind(date, now) ==
    {d \in Gregorian(date, Year(now)) : now <= d /\ d <= now + 2 * ReminderWindow}
    \cup {d \in Gregorian(date, Year(now) + 1) :
             /\ \E past \in Gregorian(date, Year(now)) : past < now
             /\ d <= now + 2 * ReminderWindow}

Due == {p \in Pairs : /\ attachment[p].status = "active" /\ attachment[p].remind
                      /\ ToRemind(celebration[p[2]], today) # {}}
Occurrence(p) == CHOOSE d \in ToRemind(celebration[p[2]], today) : TRUE

-----------------------------------------------------------------------------
\* createCelebration and updateCelebration, in packs of the owner's only.
WriteCelebration(k, date) ==
    /\ k \in Own
    /\ celebration' = [celebration EXCEPT ![k] = date]
    /\ UNCHANGED <<attachment, attaching, telling, today>>

\* deleteCelebration for one, deletePack for all; attachments go with them.
DeleteCelebrations ==
    /\ \E gone \in {{k} : k \in Own} \cup {Own} :
          /\ celebration' = [k \in DOMAIN celebration |->
                                IF k \in gone THEN None ELSE celebration[k]]
          /\ attachment' = [p \in Pairs |-> IF p[2] \in gone THEN Unattached ELSE attachment[p]]
    /\ UNCHANGED <<attaching, telling, today>>

\* attachToContact reads the celebration and the row that may exist.
BeginAttach(p) ==
    /\ attaching.pc = "idle" /\ celebration[p[2]] # None
    /\ attaching' = [pc |-> "read", pair |-> p, existing |-> attachment[p]]
    /\ UNCHANGED <<celebration, attachment, telling, today>>

\* It creates the row, or updates the one it has read: an error when another request has
\* made it or removed it, or when the celebration is gone.
EndAttach(status, remind) ==
    LET p == attaching.pair
    IN /\ attaching.pc = "read"
       /\ attachment' =
             IF \/ celebration[p[2]] = None
                \/ (attachment[p] = Unattached) # (attaching.existing = Unattached)
             THEN attachment
             ELSE [attachment EXCEPT ![p] = [status |-> status, remind |-> remind]]
       /\ attaching' = Idle
       /\ UNCHANGED <<celebration, telling, today>>

\* updateContactCelebration and detachFromContact.
UpdateAttachment(p, status, remind) ==
    /\ attachment[p] # Unattached
    /\ attachment' = [attachment EXCEPT ![p] = [status |-> status, remind |-> remind]]
    /\ UNCHANGED <<celebration, attaching, telling, today>>

Detach(p) ==
    /\ attachment[p] # Unattached
    /\ attachment' = [attachment EXCEPT ![p] = Unattached]
    /\ UNCHANGED <<celebration, attaching, telling, today>>

\* setGlobalStatus: the rows there are, which a request to attach may yet add to.
SetGlobalStatus(k, status) ==
    /\ celebration[k] # None
    /\ attachment' = [p \in Pairs |-> IF p[2] = k /\ attachment[p] # Unattached
                                      THEN [attachment[p] EXCEPT !.status = status]
                                      ELSE attachment[p]]
    /\ UNCHANGED <<celebration, attaching, telling, today>>

\* sendCelebrationNotifications lists the nearest, then tells the owner, who may be told
\* in vain; nothing is kept of it, and the next request tells them again.
BeginTelling ==
    /\ telling = {}
    /\ \E listed \in SUBSET Due :
          /\ Cardinality(listed) = IF Cardinality(Due) < MaxListed THEN Cardinality(Due)
                                   ELSE MaxListed
          /\ \A p \in listed, q \in Due \ listed : Occurrence(p) <= Occurrence(q)
          /\ telling' = listed
    /\ UNCHANGED <<celebration, attachment, attaching, today>>

Tell(p) ==
    /\ p \in telling
    /\ telling' = telling \ {p}
    /\ UNCHANGED <<celebration, attachment, attaching, today>>

Midday ==
    /\ today < MaxToday
    /\ today' = today + 1
    /\ UNCHANGED <<celebration, attachment, attaching, telling>>

Next ==
    \/ \E k \in System \cup Own : \/ \E date \in Dates : WriteCelebration(k, date)
                                  \/ \E s \in {"active", "ignored"} : SetGlobalStatus(k, s)
    \/ DeleteCelebrations
    \/ \E p \in Pairs : \/ BeginAttach(p) \/ Detach(p) \/ Tell(p)
                        \/ \E s \in {"active", "ignored"}, r \in BOOLEAN :
                              EndAttach(s, r) \/ UpdateAttachment(p, s, r)
    \/ BeginTelling \/ Midday

-----------------------------------------------------------------------------
\* An active attachment is due for reminding exactly when the first day its celebration
\* falls on from now, in whatever year, is within the window, and with that very day.  A
\* day of leap years is never listed wrongly; the date of a single year is listed again
\* and again once it is past, and nothing is said of it here.
RemindsOfTheNext ==
    \A p \in Pairs :
        LET date == celebration[p[2]]
            all == UNION {Gregorian(date, y) : y \in Year(today) .. Year(today) + 2}
            near == {d \in all : today <= d /\ d <= today + 2 * ReminderWindow}
        IN attachment[p].status = "active" =>
              /\ date # None
              /\ date.kind # "full" => ToRemind(date, today) \subseteq near
              /\ date.kind = "fixed" /\ date.day # LeapDay =>
                    ToRemind(date, today) = {d \in near : \A other \in near : d <= other}

=============================================================================
