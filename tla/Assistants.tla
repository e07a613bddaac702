------------------------------ MODULE Assistants ------------------------------
(* What the assistants write (modules/agents, strategies reminder-agent    *)
(* and relationship-agent): reminders of the celebrations attached to      *)
(* contacts, by looking for a reminder and creating it in two queries, and *)
(* the health scores kept with the contacts, from a list of them read      *)
(* before.  Any number of requests may be at it, and meanwhile the owner   *)
(* completes reminders and talks to people.                                *)
EXTENDS Integers, FiniteSets

CONSTANTS
    Contacts,
    Attached,       \* attachments: [contact, custom, full, date, lunar], -1 where null
    Born,           \* contacts with a birthday
    CadenceDays,    \* preferredCadenceDays
    Syncs,          \* requests to create reminders
    Refreshes,      \* requests to refresh the scores
    YearLength,     \* days of a year
    Lookahead,      \* the 30 days of syncCelebrationReminders
    MaxDays,        \* bound on time, in days
    MaxRows         \* bound on reminders

VARIABLES
    agenda,       \* the reminders of type birthday: [id, contact, at, recurring, status]
    syncing,    \* local state of each sync
    lastMet,    \* lastContactedAt of each contact, or Never
    score,      \* relationshipScore
    scoring,    \* local state of each refresh
    date        \* now, a time within this day

assistantVars == <<agenda, syncing, lastMet, score, scoring, date>>

Never == -1
NotSyncing == [phase |-> "idle", today |-> 0, todo |-> {}, of |-> {}, known |-> {}]
NotScoring == [phase |-> "idle", today |-> 0, read |-> {}, alone |-> TRUE]

Min2(a, b) == IF a < b THEN a ELSE b

\* assessRelationship: 35 for who was never contacted, else from 100 down by the cadence.
Assess(last, now) ==
    IF last = Never THEN 35
    ELSE 100 - Min2(100, ((now - last) * 50) \div CadenceDays)

TypeOK ==
    /\ agenda \in SUBSET [id : 1 .. MaxRows, contact : Contacts, at : Nat, recurring : BOOLEAN,
                        status : {"pending", "completed"}]
    /\ \A s \in Syncs : /\ syncing[s].phase \in {"idle", "looking", "missing"}
                        /\ syncing[s].todo \subseteq Attached /\ syncing[s].of \subseteq Attached
    /\ lastMet \in [Contacts -> {Never} \cup Nat] /\ score \in [Contacts -> 0 .. 100]
    /\ \A f \in Refreshes : scoring[f].phase \in {"idle", "writing"}
    /\ date \in Nat

Init ==
    /\ agenda = {}
    /\ syncing = [s \in Syncs |-> NotSyncing]
    /\ lastMet = [c \in Contacts |-> Never]
    /\ score = [c \in Contacts |-> 50]
    /\ scoring = [f \in Refreshes |-> NotScoring]
    /\ date = 0

-----------------------------------------------------------------------------
\* syncCelebrationReminders.

\* calculateCelebrationDate: a custom or full date is taken as it is, a day of the year
\* next comes today or later.
CelebrationDate(a, today) ==
    IF a.custom # -1 THEN a.custom
    ELSE IF a.full # -1 THEN a.full
    ELSE CHOOSE d \in today .. today + YearLength - 1 : d % YearLength = a.date

\* The midnight of today is before now.
Soon(a, today) ==
    /\ ~(a.lunar /\ a.contact \notin Born)
    /\ today < CelebrationDate(a, today) /\ CelebrationDate(a, today) <= today + Lookahead

StartSync(s) ==
    /\ syncing[s].phase = "idle"
    /\ syncing' = [syncing EXCEPT ![s] = [NotSyncing EXCEPT !.phase = "looking", !.today = date,
                                              !.todo = {a \in Attached : Soon(a, date)}]]
    /\ UNCHANGED <<agenda, lastMet, score, scoring, date>>

RowsFor(a, today) == {r \in agenda : r.contact = a.contact /\ r.at = CelebrationDate(a, today)}

\* Mutant: only reminders still to come are looked for.
PendingRows(a, today) == {r \in RowsFor(a, today) : r.status = "pending"}

\* findFirst: a reminder of any status.
Existing(a, today) == RowsFor(a, today)

Look(s) ==
    /\ syncing[s].phase = "looking"
    /\ \E a \in syncing[s].todo :
          LET rest == [syncing[s] EXCEPT !.todo = @ \ {a}]
          IN syncing' = [syncing EXCEPT ![s] =
                IF Existing(a, rest.today) # {} THEN rest
                ELSE [rest EXCEPT !.phase = "missing", !.of = {a}, !.known = agenda]]
    /\ UNCHANGED <<agenda, lastMet, score, scoring, date>>

NewRow(contact, at, recurring) ==
    [id |-> Cardinality(agenda) + 1, contact |-> contact, at |-> at, recurring |-> recurring,
     status |-> "pending"]

CreateMissing(s) ==
    /\ syncing[s].phase = "missing" /\ Cardinality(agenda) < MaxRows
    /\ \E a \in syncing[s].of :
          agenda' = agenda \cup {NewRow(a.contact, CelebrationDate(a, syncing[s].today), a.full = -1)}
    /\ syncing' = [syncing EXCEPT ![s].phase = "looking", ![s].of = {}, ![s].known = {}]
    /\ UNCHANGED <<lastMet, score, scoring, date>>

EndSync(s) ==
    /\ syncing[s].phase = "looking" /\ syncing[s].todo = {}
    /\ syncing' = [syncing EXCEPT ![s] = NotSyncing]
    /\ UNCHANGED <<agenda, lastMet, score, scoring, date>>

\* A query fails: what was created stays.
FailSync(s) ==
    /\ syncing[s].phase # "idle"
    /\ syncing' = [syncing EXCEPT ![s] = NotSyncing]
    /\ UNCHANGED <<agenda, lastMet, score, scoring, date>>

\* The owner completes a reminder; a yearly one gets its next.
CompleteRow(r) ==
    /\ r.status = "pending"
    /\ r.recurring => Cardinality(agenda) < MaxRows
    /\ agenda' = (agenda \ {r}) \cup {[r EXCEPT !.status = "completed"]} \cup
               (IF r.recurring THEN {NewRow(r.contact, r.at + YearLength, TRUE)} ELSE {})
    /\ UNCHANGED <<syncing, lastMet, score, scoring, date>>

-----------------------------------------------------------------------------
\* refreshScores.

StartRefresh(f) ==
    /\ scoring[f].phase = "idle"
    /\ LET others == {g \in Refreshes \ {f} : scoring[g].phase # "idle"}
       IN scoring' = [g \in Refreshes |->
             IF g = f THEN [phase |-> "writing", today |-> date, alone |-> others = {},
                            read |-> {[contact |-> c, last |-> lastMet[c], score |-> score[c]] :
                                         c \in Contacts}]
             ELSE [scoring[g] EXCEPT !.alone = FALSE]]
    /\ UNCHANGED <<agenda, syncing, lastMet, score, date>>

\* Mutant: who was never contacted keeps the score of a new contact.
MetAndChanged(r, today) == r.last # Never /\ Assess(r.last, today) # r.score

\* A score is written if it is not the one that was read.
Changed(r, today) == Assess(r.last, today) # r.score

WriteScore(f) ==
    /\ scoring[f].phase = "writing"
    /\ \E r \in scoring[f].read :
          /\ score' = IF Changed(r, scoring[f].today)
                      THEN [score EXCEPT ![r.contact] = Assess(r.last, scoring[f].today)]
                      ELSE score
          /\ scoring' = [scoring EXCEPT ![f].read = @ \ {r}]
    /\ UNCHANGED <<agenda, syncing, lastMet, date>>

\* At the end of the list, or when a query fails.
EndRefresh(f) ==
    /\ scoring[f].phase = "writing"
    /\ scoring' = [scoring EXCEPT ![f] = NotScoring]
    /\ UNCHANGED <<agenda, syncing, lastMet, score, date>>

\* The owner talks to a person: no other code touches the score.
Meet(c) ==
    /\ lastMet' = [lastMet EXCEPT ![c] = date]
    /\ scoring' = [f \in Refreshes |-> [scoring[f] EXCEPT !.alone = FALSE]]
    /\ UNCHANGED <<agenda, syncing, score, date>>

NextDay ==
    /\ date < MaxDays
    /\ date' = date + 1
    /\ UNCHANGED <<agenda, syncing, lastMet, score, scoring>>

Next ==
    \/ \E s \in Syncs : StartSync(s) \/ Look(s) \/ CreateMissing(s) \/ EndSync(s) \/ FailSync(s)
    \/ \E r \in agenda : CompleteRow(r)
    \/ \E f \in Refreshes : StartRefresh(f) \/ WriteScore(f) \/ EndRefresh(f)
    \/ \E c \in Contacts : Meet(c)
    \/ NextDay

Spec == Init /\ [][Next]_assistantVars

-----------------------------------------------------------------------------
\* A second reminder of a celebration comes only from a reminder that appeared after a
\* sync had looked for one, or from completing the one of last year late: a completed
\* reminder is not created again by the next sync.  And what a refresh leaves behind,
\* if nobody was talked to and no other refresh ran meanwhile, is the health of every
\* contact on the day that it began.
KeepsCount ==
    /\ \A s \in Syncs :
          syncing[s].phase = "missing" /\ syncing'[s].phase # "missing" =>
             \A r \in agenda' \ agenda :
                ~\E q \in syncing[s].known : q.contact = r.contact /\ q.at = r.at
    /\ \A f \in Refreshes :
          /\ scoring[f].phase = "writing" /\ scoring'[f].phase = "idle"
          /\ scoring[f].read = {} /\ scoring[f].alone
          =>
             \A c \in Contacts : score[c] = Assess(lastMet[c], scoring[f].today)

=============================================================================
