------------------------------ MODULE Reminders ------------------------------
(* The reminders of one owner (modules/reminders/reminders.service.ts) and *)
(* the two cron jobs that watch them (modules/notifications/               *)
(* notification-scheduler.service.ts): one tells the owner of what became  *)
(* due since its last run, the other marks what is overdue.                *)
(*                                                                         *)
(* Every process of the API runs the jobs, so that runs may overlap.  A    *)
(* run starts at its full hour or within MaxDelay after it.                *)
EXTENDS Integers, FiniteSets, TLC

CONSTANTS
    Reminders,   \* ids of rows
    Checks,      \* concurrent runs of handleDueReminders
    CheckEvery,  \* EVERY_5_MINUTES, and the window a run looks back
    MarkEvery,   \* EVERY_30_MINUTES
    Interval,    \* what repeatInterval adds to scheduledAt
    MaxDelay,    \* bound on the delay of a cron job
    MaxSchedule, \* bound on the times the owner asks for
    MaxClock     \* bound on the clock

ASSUME ConstantsAssumption ==
    /\ {CheckEvery, MarkEvery, Interval} \subseteq Nat \ {0}
    /\ {MaxDelay, MaxSchedule, MaxClock} \subseteq Nat
    /\ MaxDelay < CheckEvery

VARIABLES
    reminder,   \* the Reminder rows
    check,      \* local state of each run of handleDueReminders
    checked,    \* the last slot whose due reminders were looked for
    marked,     \* the last slot in which overdue reminders were marked
    clock,      \* the time `new Date()` returns
    noticed,    \* history: reminders a run has picked up
    successor,  \* history: the reminders that completing a reminder created
    shifted     \* history: reminders written when they were due already, or moved

vars == <<reminder, check, checked, marked, clock, noticed, successor, shifted>>
history == <<noticed, successor, shifted>>
crons == <<check, checked, marked>>

Row == [status : {"none", "pending", "overdue", "completed"}, scheduledAt : Nat,
        recurring : BOOLEAN, completedAt : Nat]

\* What is completed has the time it was, and nothing else has.
Reminder == {row \in Row : row.status = "completed" <=> row.completedAt # 0}

TypeOK ==
    /\ reminder \in [Reminders -> Reminder]
    /\ check \in [Checks -> SUBSET Reminders]
    /\ checked \in Nat /\ marked \in Nat /\ clock \in Nat \ {0}
    /\ noticed \in SUBSET Reminders
    /\ successor \in [Reminders -> SUBSET Reminders]
    /\ shifted \in SUBSET Reminders

Init ==
    /\ reminder = [r \in Reminders |-> [status |-> "none", scheduledAt |-> 0,
                                        recurring |-> FALSE, completedAt |-> 0]]
    /\ check = [c \in Checks |-> {}]
    /\ checked = 0 /\ marked = 0 /\ clock = 1
    /\ noticed = {} /\ shifted = {}
    /\ successor = [r \in Reminders |-> {}]

Pending(at, recurring) ==
    [status |-> "pending", scheduledAt |-> at, recurring |-> recurring, completedAt |-> 0]

Unused(r) == reminder[r].status = "none"

\* The slot of a job that runs every n: where it began, if the clock is no later than
\* MaxDelay after it.
InSlot(n) == clock % n <= MaxDelay

Slot(n) == clock - (clock % n)

-----------------------------------------------------------------------------
\* The owner, and agents for the owner.

\* create, createForAgent: any time will do, past ones too.
Create(r) ==
    /\ Unused(r)
    /\ \E at \in 1 .. MaxSchedule, recurring \in BOOLEAN :
          /\ reminder' = [reminder EXCEPT ![r] = Pending(at, recurring)]
          /\ shifted' = IF at <= clock THEN shifted \cup {r} ELSE shifted
    /\ UNCHANGED <<crons, clock, noticed, successor>>

\* update: the row is found by its owner and written by its id, whatever its status.
Update(r) ==
    /\ ~Unused(r)
    /\ \E at \in 1 .. MaxSchedule, recurring \in BOOLEAN :
          reminder' = [reminder EXCEPT ![r].scheduledAt = at, ![r].recurring = recurring]
    /\ shifted' = shifted \cup {r}
    /\ UNCHANGED <<crons, clock, noticed, successor>>

\* Mutant: a status nobody compares.
AnyStatus(r) == ~Unused(r)

\* The claim of complete.
Completable(r) == reminder[r].status = "pending"

\* complete: a Serializable transaction claims the row and, if it repeats, creates
\* the next one.
Complete(r) ==
    /\ Completable(r)
    /\ LET done == [reminder EXCEPT ![r].status = "completed", ![r].completedAt = clock]
           next == reminder[r].scheduledAt + Interval
       IN IF reminder[r].recurring
          THEN \E s \in Reminders :
                  /\ Unused(s)
                  /\ reminder' = [done EXCEPT ![s] = Pending(next, TRUE)]
                  /\ successor' = [successor EXCEPT ![r] = @ \cup {s}]
                  /\ shifted' = IF next <= clock THEN shifted \cup {s} ELSE shifted
          ELSE reminder' = done /\ UNCHANGED <<successor, shifted>>
    /\ UNCHANGED <<crons, clock, noticed>>

-----------------------------------------------------------------------------
\* The cron jobs.

\* Mutant: what is due at this very time is left to the next run.
OpenDue(now) == {r \in Reminders : /\ reminder[r].status = "pending"
                                   /\ reminder[r].scheduledAt >= now - CheckEvery
                                   /\ reminder[r].scheduledAt < now}

Due(now) == {r \in Reminders : /\ reminder[r].status = "pending"
                               /\ reminder[r].scheduledAt >= now - CheckEvery
                               /\ reminder[r].scheduledAt <= now}

\* handleDueReminders reads what is due.
FindDue(c) ==
    /\ check[c] = {} /\ InSlot(CheckEvery)
    /\ check' = [check EXCEPT ![c] = Due(clock)]
    /\ checked' = Slot(CheckEvery)
    /\ noticed' = noticed \cup Due(clock)
    /\ UNCHANGED <<reminder, marked, clock, successor, shifted>>

\* The owner is told of one, or the providers fail; no run tries again.  The reminder
\* may be completed meanwhile.
Notify(c) ==
    /\ \E r \in check[c] : check' = [check EXCEPT ![c] = @ \ {r}]
    /\ UNCHANGED <<reminder, checked, marked, clock, history>>

\* Mutant: what is completed is overdue too.
LateAtAll(now) == {r \in Reminders : ~Unused(r) /\ reminder[r].scheduledAt < now}

Late(now) == {r \in Reminders : /\ reminder[r].status = "pending"
                                /\ reminder[r].scheduledAt < now}

\* markOverdueReminders.
MarkOverdue ==
    /\ InSlot(MarkEvery)
    /\ reminder' = [r \in Reminders |-> IF r \in Late(clock)
                                        THEN [reminder[r] EXCEPT !.status = "overdue"]
                                        ELSE reminder[r]]
    /\ marked' = Slot(MarkEvery)
    /\ UNCHANGED <<check, checked, clock, history>>

\* Time does not pass a slot before its jobs have run.
Tick ==
    /\ clock < MaxClock
    /\ clock % CheckEvery = MaxDelay => checked = Slot(CheckEvery)
    /\ clock % MarkEvery = MaxDelay => marked = Slot(MarkEvery)
    /\ clock' = clock + 1
    /\ UNCHANGED <<reminder, crons, history>>

-----------------------------------------------------------------------------
Next ==
    \/ \E r \in Reminders : Create(r) \/ Update(r) \/ Complete(r)
    \/ \E c \in Checks : FindDue(c) \/ Notify(c)
    \/ MarkOverdue \/ Tick

Spec == Init /\ [][Next]_vars

-----------------------------------------------------------------------------
\* What it is for.

\* However often a reminder is completed, moved or marked, a repeating one gets one
\* successor when it is completed, and a reminder succeeds one other at most.
OneSuccessor ==
    /\ \A r \in Reminders :
          /\ successor[r] # {} => reminder[r].status = "completed"
          /\ Cardinality(successor[r]) <= 1
    /\ \A r, s \in Reminders : successor[r] \cap successor[s] # {} => r = s

\* Why: rows are never used twice.
SuccessorsExist ==
    \A r \in Reminders : \A s \in successor[r] : s \in Reminders /\ ~Unused(s)

RemindersInv == TypeOK /\ OneSuccessor /\ SuccessorsExist

\* A completed reminder stays completed, at the time it was: quests pay for it.
CompletedForGood ==
    [][\A r \in Reminders : reminder[r].status = "completed" =>
          /\ reminder'[r].status = "completed"
          /\ reminder'[r].completedAt = reminder[r].completedAt]_vars

\* The windows of the runs leave no gap: a reminder set for a full slot in time, and
\* never moved, is picked up by a run if it is still pending when the next has passed.
DueIsNoticed ==
    \A r \in Reminders \ shifted :
        /\ reminder[r].status = "pending"
        /\ reminder[r].scheduledAt % CheckEvery = 0
        /\ reminder[r].scheduledAt + CheckEvery < clock
        => r \in noticed

\* What the comment on markOverdueReminders says of it, that the status is for the
\* display: the owner can still complete what is not completed.
OverdueIsForDisplay ==
    \A r \in Reminders : reminder[r].status \in {"pending", "overdue"} => Completable(r)

\* For the model checker: which row is which makes no difference.
Symmetry == Permutations(Reminders) \cup Permutations(Checks)

=============================================================================
