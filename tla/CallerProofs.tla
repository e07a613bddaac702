----------------------------- MODULE CallerProofs -----------------------------
(* Proofs about what people, agents, commands and the clock do, for any    *)
(* number of the processes and rows in it.  First the reminders, which TLC *)
(* checks on their own (Reminders), then small modules that it checks as   *)
(* scenes of MCCallers: the game (DungeonMaster), the stays in cities      *)
(* (CityStays), the deletion of the owner's context (ContextDeletion), the *)
(* change of a key (KeyRotation), the calls of agents (AgentTools), the    *)
(* switches of integrations (Activation), bundles (Backups), the gate      *)
(* before a release (RestoreGate), the assistants (Assistants) and the     *)
(* pages of proposals and of contacts (ApprovalsPage, ContactPages).  Each *)
(* section gives the invariant of one module and says why it is needed.    *)
EXTENDS Reminders, Sequences, FiniteSetTheorems, SequenceTheorems, WellFoundedInduction, TLAPS

\* The fields of a reminder.
LEMMA ReminderFields ==
    ASSUME TypeOK, NEW r \in Reminders
    PROVE  /\ reminder[r] \in Reminder /\ successor[r] \in SUBSET Reminders
           /\ reminder[r].scheduledAt \in Nat
  BY DEF TypeOK, Reminder, Row

\* A reminder that is set is a reminder.
LEMMA PendingType ==
    ASSUME NEW at \in Nat, NEW recurring \in BOOLEAN
    PROVE  Pending(at, recurring) \in Reminder
  BY DEF Pending, Reminder, Row

\* The step of one of the owner's requests keeps the types.
LEMMA OwnerType ==
    ASSUME TypeOK, NEW r \in Reminders, Create(r) \/ Update(r) \/ Complete(r)
    PROVE  TypeOK'
  <1> USE DEF crons
  <1>1. CASE Create(r)
    BY <1>1, PendingType DEF Create, TypeOK
  <1>2. CASE Update(r)
    <2>1. PICK at \in 1 .. MaxSchedule, recurring \in BOOLEAN :
             reminder' = [reminder EXCEPT ![r].scheduledAt = at, ![r].recurring = recurring]
      BY <1>2 DEF Update
    <2>2. at \in Nat  BY ConstantsAssumption
    <2>3. [reminder[r] EXCEPT !.scheduledAt = at, !.recurring = recurring] \in Reminder
      BY <2>2, ReminderFields DEF Reminder, Row
    <2>4. reminder' = [reminder EXCEPT ![r] = [@ EXCEPT !.scheduledAt = at, !.recurring = recurring]]
      BY <2>1
    <2>5. reminder' \in [Reminders -> Reminder]
      BY <2>3, <2>4 DEF TypeOK
    <2> QED BY <1>2, <2>5 DEF Update, TypeOK
  <1>3. CASE Complete(r)
    <2> DEFINE done == [reminder EXCEPT ![r].status = "completed", ![r].completedAt = clock]
               next == reminder[r].scheduledAt + Interval
    <2>1. done \in [Reminders -> Reminder] /\ next \in Nat
      <3>1. [reminder[r] EXCEPT !.status = "completed", !.completedAt = clock] \in Reminder
        <4>1. reminder[r] \in Reminder /\ clock \in Nat \ {0}  BY DEF TypeOK
        <4> QED BY <4>1 DEF Reminder, Row
      <3>2. done = [reminder EXCEPT ![r] = [@ EXCEPT !.status = "completed", !.completedAt = clock]]
        OBVIOUS
      <3>3. Interval \in Nat  BY ConstantsAssumption
      <3> QED BY <3>1, <3>2, <3>3, ReminderFields DEF TypeOK
    <2>2. CASE ~reminder[r].recurring
      BY <1>3, <2>1, <2>2 DEF Complete, TypeOK
    <2>3. CASE reminder[r].recurring
      <3>1. PICK s \in Reminders :
               /\ reminder' = [done EXCEPT ![s] = Pending(next, TRUE)]
               /\ successor' = [successor EXCEPT ![r] = @ \cup {s}]
               /\ shifted' = IF next <= clock THEN shifted \cup {s} ELSE shifted
        BY <1>3, <2>3 DEF Complete
      <3>2. reminder' \in [Reminders -> Reminder]
        BY <2>1, <3>1, PendingType
      <3>3. successor' \in [Reminders -> SUBSET Reminders] /\ shifted' \in SUBSET Reminders
        BY <3>1 DEF TypeOK
      <3> QED BY <1>3, <3>2, <3>3 DEF Complete, TypeOK
    <2> QED BY <2>2, <2>3
  <1> QED BY <1>1, <1>2, <1>3

\* The step of a job, or of time, keeps the types.
LEMMA JobType ==
    ASSUME TypeOK, (\E c \in Checks : FindDue(c) \/ Notify(c)) \/ MarkOverdue \/ Tick
    PROVE  TypeOK'
  <1> USE DEF crons, history
  <1>1. ASSUME NEW n \in Nat \ {0} PROVE Slot(n) \in Nat
    BY <1>1 DEF Slot, TypeOK
  <1>2. ASSUME NEW c \in Checks, FindDue(c) PROVE TypeOK'
    <2>1. checked' \in Nat  BY <1>1, <1>2, ConstantsAssumption DEF FindDue
    <2>2. Due(clock) \in SUBSET Reminders  BY DEF Due
    <2> QED BY <1>2, <2>1, <2>2 DEF FindDue, TypeOK
  <1>3. ASSUME NEW c \in Checks, Notify(c) PROVE TypeOK'
    BY <1>3 DEF Notify, TypeOK
  <1>4. CASE MarkOverdue
    <2>1. marked' \in Nat  BY <1>1, <1>4, ConstantsAssumption DEF MarkOverdue
    <2>2. reminder' \in [Reminders -> Reminder]
      BY <1>4 DEF MarkOverdue, Late, TypeOK, Reminder, Row
    <2> QED BY <1>4, <2>1, <2>2 DEF MarkOverdue, TypeOK
  <1>5. CASE Tick  BY <1>5 DEF Tick, TypeOK
  <1> QED BY <1>2, <1>3, <1>4, <1>5

-----------------------------------------------------------------------------
\* If no row comes back to life and no successor is added, nothing changes.
LEMMA SuccessorsKept ==
    ASSUME RemindersInv, successor' = successor,
           \A r \in Reminders :
              /\ reminder[r].status = "completed" => reminder'[r].status = "completed"
              /\ reminder'[r].status = "none" => reminder[r].status = "none"
    PROVE  OneSuccessor' /\ SuccessorsExist'
  BY DEF RemindersInv, OneSuccessor, SuccessorsExist, Unused

\* A completed reminder has the one successor it has just set, if it recurs.
LEMMA CompleteInv ==
    ASSUME RemindersInv, NEW r \in Reminders, Complete(r)
    PROVE  OneSuccessor' /\ SuccessorsExist'
  <1> DEFINE done == [reminder EXCEPT ![r].status = "completed", ![r].completedAt = clock]
  <1>0. TypeOK /\ reminder[r].status = "pending"
    BY DEF RemindersInv, Complete, Completable
  <1>1. CASE ~reminder[r].recurring
    <2>1. reminder' = done /\ successor' = successor
      BY <1>1 DEF Complete
    <2> QED BY <1>0, <2>1, SuccessorsKept DEF TypeOK, Reminder, Row
  <1>2. CASE reminder[r].recurring
    <2>1. PICK s \in Reminders :
             /\ Unused(s)
             /\ reminder' = [done EXCEPT ![s] = Pending(reminder[r].scheduledAt + Interval, TRUE)]
             /\ successor' = [successor EXCEPT ![r] = @ \cup {s}]
      BY <1>2 DEF Complete
    <2>2. s # r /\ successor[r] = {} /\ successor[s] = {}
      BY <1>0, <2>1 DEF Unused, RemindersInv, OneSuccessor, TypeOK
    <2>3. successor'[r] = {s} /\ \A q \in Reminders \ {r} : successor'[q] = successor[q]
      BY <1>0, <2>1, <2>2 DEF TypeOK
    <2>4. /\ reminder'[r].status = "completed" /\ reminder'[s].status = "pending"
          /\ \A q \in Reminders \ {r, s} : reminder'[q] = reminder[q]
      BY <1>0, <2>1, <2>2 DEF TypeOK, Reminder, Row, Pending
    <2>5. \A q \in Reminders : s \notin successor[q]
      BY <2>1 DEF RemindersInv, SuccessorsExist
    <2>6. \A q \in Reminders : /\ successor'[q] # {} => reminder'[q].status = "completed"
                               /\ Cardinality(successor'[q]) <= 1
      <3>1. Cardinality({s}) = 1  BY FS_Singleton
      <3> SUFFICES ASSUME NEW q \in Reminders
                   PROVE  /\ successor'[q] # {} => reminder'[q].status = "completed"
                          /\ Cardinality(successor'[q]) <= 1
        OBVIOUS
      <3>2. CASE q = r  BY <2>3, <2>4, <3>1, <3>2
      <3>3. CASE q = s
        <4>1. successor'[q] = {}  BY <2>2, <2>3, <3>3
        <4> QED BY <4>1, FS_EmptySet
      <3>4. CASE q \notin {r, s}
        BY <2>3, <2>4, <3>4 DEF RemindersInv, OneSuccessor
      <3> QED BY <3>2, <3>3, <3>4
    <2>7. \A p, q \in Reminders : successor'[p] \cap successor'[q] # {} => p = q
      BY <2>3, <2>5 DEF RemindersInv, OneSuccessor
    <2>8. SuccessorsExist'
      BY <2>2, <2>3, <2>4 DEF RemindersInv, SuccessorsExist, Unused
    <2> QED BY <2>6, <2>7, <2>8 DEF OneSuccessor
  <1> QED BY <1>1, <1>2

\* Every step keeps the invariant.
LEMMA StepInv ==
    ASSUME RemindersInv, [Next]_vars
    PROVE  RemindersInv'
  <1> USE DEF crons, history
  <1>0. TypeOK  BY DEF RemindersInv
  <1>1. ASSUME NEW r \in Reminders, Create(r) PROVE RemindersInv'
    <2>1. PICK at \in 1 .. MaxSchedule, recurring \in BOOLEAN :
             reminder' = [reminder EXCEPT ![r] = Pending(at, recurring)]
      BY <1>1 DEF Create
    <2>2. \A q \in Reminders :
             \/ q = r /\ reminder'[q].status = "pending"
             \/ reminder'[q] = reminder[q]
      BY <1>0, <2>1 DEF TypeOK, Pending
    <2>3. reminder[r].status = "none" /\ successor' = successor
      BY <1>1 DEF Create, Unused
    <2> QED BY <1>0, <1>1, <2>2, <2>3, OwnerType, SuccessorsKept DEF RemindersInv
  <1>2. ASSUME NEW r \in Reminders, Update(r) PROVE RemindersInv'
    <2>1. PICK at \in 1 .. MaxSchedule, recurring \in BOOLEAN :
             reminder' = [reminder EXCEPT ![r].scheduledAt = at, ![r].recurring = recurring]
      BY <1>2 DEF Update
    <2>2. \A q \in Reminders : reminder'[q].status = reminder[q].status
      BY <1>0, <2>1 DEF TypeOK, Reminder, Row
    <2>3. successor' = successor  BY <1>2 DEF Update
    <2> QED BY <1>0, <1>2, <2>2, <2>3, OwnerType, SuccessorsKept DEF RemindersInv
  <1>3. ASSUME NEW r \in Reminders, Complete(r) PROVE RemindersInv'
    BY <1>0, <1>3, OwnerType, CompleteInv DEF RemindersInv
  <1>4. ASSUME NEW c \in Checks, FindDue(c) \/ Notify(c) PROVE RemindersInv'
    <2>1. reminder' = reminder /\ successor' = successor
      BY <1>4 DEF FindDue, Notify
    <2> QED BY <1>0, <1>4, <2>1, JobType, SuccessorsKept DEF RemindersInv
  <1>5. CASE MarkOverdue
    <2>1. successor' = successor  BY <1>5 DEF MarkOverdue
    <2>2. \A q \in Reminders :
             \/ reminder'[q] = reminder[q]
             \/ reminder[q].status = "pending" /\ reminder'[q].status = "overdue"
      BY <1>0, <1>5 DEF MarkOverdue, Late, TypeOK, Reminder, Row
    <2> QED BY <1>0, <1>5, <2>1, <2>2, JobType, SuccessorsKept DEF RemindersInv
  <1>6. CASE Tick
    <2>1. reminder' = reminder /\ successor' = successor
      BY <1>6 DEF Tick
    <2> QED BY <1>0, <1>6, <2>1, JobType, SuccessorsKept DEF RemindersInv
  <1>7. CASE UNCHANGED vars
    BY <1>7 DEF vars, RemindersInv, TypeOK, OneSuccessor, SuccessorsExist, Unused
  <1> QED BY <1>1, <1>2, <1>3, <1>4, <1>5, <1>6, <1>7 DEF Next

-----------------------------------------------------------------------------
(* The windows of handleDueReminders: no slot is left out while the jobs   *)
(* run in time, and what is due when a run looks, it finds.                *)

\* The runs keep up with time.
SlotsServed ==
    /\ checked <= clock
    /\ \A at \in Nat : at % CheckEvery = 0 /\ at + MaxDelay < clock => at <= checked

\* What was due in a slot that has been looked at is noticed.
Punctual ==
    \A r \in Reminders \ shifted :
        /\ reminder[r].status = "pending"
        /\ reminder[r].scheduledAt % CheckEvery = 0
        /\ reminder[r].scheduledAt <= checked
        => r \in noticed

\* A run that is late by less than a period is late for its own slot.
LEMMA SlotOf ==
    ASSUME NEW n \in Nat \ {0}, NEW at \in Nat, NEW delay \in Nat, at % n = 0, delay < n
    PROVE  (at + delay) % n = delay
  OBVIOUS

\* A full slot that is over or has begun is not after the slot of now.
LEMMA LastSlot ==
    ASSUME NEW n \in Nat \ {0}, NEW at \in Nat, NEW now \in Nat, at % n = 0, at <= now
    PROVE  at <= now - (now % n)
  <1> DEFINE p == at \div n
             q == now \div n
  <1>1. now % n \in 0 .. (n - 1) /\ q \in Nat /\ now = n * q + (now % n)  OBVIOUS
  <1>2. p \in Nat /\ at = n * p  OBVIOUS
  <1>3. n * p \in Nat /\ n * q \in Nat  BY <1>1, <1>2
  <1>4. p >= q + 1 => n * p >= n * q + n
    <2> HIDE DEF p, q
    <2> QED BY <1>1, <1>2
  <1>5. p <= q => n * p <= n * q
    <2> HIDE DEF p, q
    <2> QED BY <1>1, <1>2
  <1> QED BY <1>1, <1>2, <1>3, <1>4, <1>5

\* Steps that notice nothing: what is pending was so before, or is for later.
LEMMA RowsKept ==
    ASSUME TypeOK, SlotsServed, Punctual, shifted \subseteq shifted',
           UNCHANGED <<clock, checked, noticed>>,
           \A r \in Reminders \ shifted' : reminder'[r].status = "pending" =>
              \/ /\ reminder[r].status = "pending"
                 /\ reminder'[r].scheduledAt = reminder[r].scheduledAt
              \/ reminder'[r].scheduledAt \in Nat /\ reminder'[r].scheduledAt > clock
    PROVE  SlotsServed' /\ Punctual'
  BY DEF SlotsServed, Punctual, TypeOK

\* What the owner does while the jobs wait leaves their promise alone.
LEMMA OwnerPunctual ==
    ASSUME TypeOK, SlotsServed, Punctual, NEW r \in Reminders, Create(r) \/ Update(r) \/ Complete(r)
    PROVE  SlotsServed' /\ Punctual'
  <1> USE DEF crons
  <1>1. CASE Create(r)
    <2>1. PICK at \in 1 .. MaxSchedule, recurring \in BOOLEAN :
             /\ reminder' = [reminder EXCEPT ![r] = Pending(at, recurring)]
             /\ shifted' = IF at <= clock THEN shifted \cup {r} ELSE shifted
      BY <1>1 DEF Create
    <2>2. /\ reminder'[r].scheduledAt = at /\ at \in Nat /\ clock \in Nat
          /\ \A q \in Reminders \ {r} : reminder'[q] = reminder[q]
      BY <2>1, ConstantsAssumption DEF TypeOK, Pending
    <2> QED BY <1>1, <2>1, <2>2, RowsKept DEF Create
  <1>2. CASE Update(r)
    <2>1. \A q \in Reminders \ {r} : reminder'[q] = reminder[q]
      BY <1>2 DEF Update, TypeOK
    <2>2. shifted' = shifted \cup {r}
      BY <1>2 DEF Update
    <2> QED BY <1>2, <2>1, <2>2, RowsKept DEF Update
  <1>3. CASE Complete(r)
    <2> DEFINE done == [reminder EXCEPT ![r].status = "completed", ![r].completedAt = clock]
               next == reminder[r].scheduledAt + Interval
    <2>1. /\ done[r].status = "completed" /\ \A q \in Reminders \ {r} : done[q] = reminder[q]
          /\ next \in Nat /\ clock \in Nat
      BY ReminderFields, ConstantsAssumption DEF TypeOK, Reminder, Row
    <2>2. CASE ~reminder[r].recurring
      <3>1. reminder' = done /\ shifted' = shifted
        BY <1>3, <2>2 DEF Complete
      <3> QED BY <1>3, <2>1, <3>1, RowsKept DEF Complete
    <2>3. CASE reminder[r].recurring
      <3>1. PICK s \in Reminders :
               /\ reminder' = [done EXCEPT ![s] = Pending(next, TRUE)]
               /\ shifted' = IF next <= clock THEN shifted \cup {s} ELSE shifted
        BY <1>3, <2>3 DEF Complete
      <3>2. /\ reminder'[s].scheduledAt = next
            /\ \A q \in Reminders \ {s} : reminder'[q] = done[q]
        <4>1. DOMAIN done = Reminders  BY DEF TypeOK
        <4> HIDE DEF done, next
        <4> QED BY <3>1, <4>1 DEF Pending
      <3> HIDE DEF done, next
      <3>3. shifted \subseteq shifted'  BY <3>1
      <3>4. \A q \in Reminders \ shifted' : reminder'[q].status = "pending" =>
               \/ /\ reminder[q].status = "pending"
                  /\ reminder'[q].scheduledAt = reminder[q].scheduledAt
               \/ reminder'[q].scheduledAt \in Nat /\ reminder'[q].scheduledAt > clock
        <4>1. ASSUME NEW q \in Reminders \ {s}, reminder'[q].status = "pending"
              PROVE  /\ reminder[q].status = "pending"
                     /\ reminder'[q].scheduledAt = reminder[q].scheduledAt
          BY <2>1, <3>2, <4>1
        <4>2. s \notin shifted' => next > clock
          BY <2>1, <3>1
        <4> QED BY <2>1, <3>2, <4>1, <4>2
      <3> QED BY <1>3, <3>3, <3>4, RowsKept DEF Complete
    <2> QED BY <2>2, <2>3
  <1> QED BY <1>1, <1>2, <1>3

\* A run finds what is due, for its window reaches back to the slot before.
LEMMA FindDuePunctual ==
    ASSUME TypeOK, SlotsServed, Punctual, NEW c \in Checks, FindDue(c)
    PROVE  SlotsServed' /\ Punctual'
  <1> DEFINE slot == Slot(CheckEvery)
  <1>0. /\ CheckEvery \in Nat \ {0} /\ MaxDelay \in Nat /\ MaxDelay < CheckEvery /\ clock \in Nat
        /\ checked \in Nat
    BY ConstantsAssumption DEF TypeOK
  <1>1. /\ checked' = slot /\ noticed' = noticed \cup Due(clock)
        /\ UNCHANGED <<reminder, clock, shifted>>
    BY DEF FindDue
  <1>2. slot \in Nat /\ slot <= clock
    BY <1>0 DEF Slot
  <1>3. \A at \in Nat : at % CheckEvery = 0 /\ at <= clock => at <= slot
    BY <1>0, LastSlot DEF Slot
  <1> HIDE DEF slot
  <1>4. SlotsServed'
    <2>1. ASSUME NEW at \in Nat, at % CheckEvery = 0, at + MaxDelay < clock
          PROVE  at <= slot
      <3>1. at <= clock  BY <1>0, <2>1
      <3> QED BY <1>3, <2>1, <3>1
    <2> QED BY <1>1, <1>2, <2>1 DEF SlotsServed
  <1>5. ASSUME NEW r \in Reminders \ shifted, reminder[r].status = "pending",
               reminder[r].scheduledAt % CheckEvery = 0, reminder[r].scheduledAt <= slot
        PROVE  r \in noticed'
    <2> DEFINE at == reminder[r].scheduledAt
    <2>1. at \in Nat  BY ReminderFields
    <2>2. CASE at <= checked
      BY <1>1, <1>5, <2>2 DEF Punctual
    <2>3. CASE at > checked
      <3>1. ~(at + MaxDelay < clock)
        BY <1>0, <1>5, <2>1, <2>3 DEF SlotsServed
      <3>2. at >= clock - CheckEvery /\ at <= clock
        <4> HIDE DEF at
        <4>1. at <= slot  BY <1>5 DEF at
        <4> QED BY <1>0, <1>2, <2>1, <3>1, <4>1
      <3> QED BY <1>1, <1>5, <3>2 DEF Due
    <2> QED BY <1>0, <2>1, <2>2, <2>3
  <1> QED BY <1>1, <1>4, <1>5 DEF Punctual

\* Time waits for a run that has to start.
LEMMA TickPunctual ==
    ASSUME TypeOK, SlotsServed, Punctual, Tick
    PROVE  SlotsServed' /\ Punctual'
  <1>0. /\ CheckEvery \in Nat \ {0} /\ MaxDelay \in Nat /\ MaxDelay < CheckEvery /\ clock \in Nat
        /\ checked \in Nat
    BY ConstantsAssumption DEF TypeOK
  <1>1. /\ clock' = clock + 1 /\ UNCHANGED <<reminder, checked, noticed, shifted>>
        /\ clock % CheckEvery = MaxDelay => checked = Slot(CheckEvery)
    BY DEF Tick, crons, history
  <1>2. ASSUME NEW at \in Nat, at % CheckEvery = 0, at + MaxDelay < clock + 1
        PROVE  at <= checked
    <2>1. CASE at + MaxDelay < clock
      BY <1>2, <2>1 DEF SlotsServed
    <2>2. CASE at + MaxDelay = clock
      <3>1. clock % CheckEvery = MaxDelay
        BY <1>0, <1>2, <2>2, SlotOf
      <3>2. checked = clock - MaxDelay
        BY <1>1, <3>1 DEF Slot
      <3> QED BY <1>0, <2>2, <3>2
    <2> QED BY <1>0, <1>2, <2>1, <2>2
  <1> QED BY <1>0, <1>1, <1>2 DEF SlotsServed, Punctual

\* Every step keeps the jobs punctual.
LEMMA StepPunctual ==
    ASSUME TypeOK, SlotsServed, Punctual, [Next]_vars
    PROVE  SlotsServed' /\ Punctual'
  <1>1. ASSUME NEW r \in Reminders, Create(r) \/ Update(r) \/ Complete(r)
        PROVE  SlotsServed' /\ Punctual'
    BY <1>1, OwnerPunctual
  <1>2. ASSUME NEW c \in Checks, FindDue(c) PROVE SlotsServed' /\ Punctual'
    BY <1>2, FindDuePunctual
  <1>3. CASE MarkOverdue
    <2>1. \A q \in Reminders : \/ reminder'[q] = reminder[q]
                               \/ reminder'[q].status = "overdue"
      BY <1>3 DEF MarkOverdue, TypeOK, Reminder, Row
    <2>2. UNCHANGED <<clock, checked, noticed, shifted>>
      BY <1>3 DEF MarkOverdue, history
    <2> QED BY <2>1, <2>2, RowsKept
  <1>4. CASE (\E c \in Checks : Notify(c)) \/ UNCHANGED vars
    <2>1. UNCHANGED <<reminder, clock, checked, noticed, shifted>>
      BY <1>4 DEF Notify, vars, history
    <2> QED BY <2>1, RowsKept
  <1>5. CASE Tick  BY <1>5, TickPunctual
  <1> QED BY <1>1, <1>2, <1>3, <1>4, <1>5 DEF Next

-----------------------------------------------------------------------------
\* A reminder has one successor at most and succeeds one other at most, for any number of
\* reminders, runs of the jobs, and any periods.
THEOREM RemindersInvariant == Spec => []RemindersInv
  <1>1. Init => RemindersInv
    <2> SUFFICES ASSUME Init PROVE RemindersInv  OBVIOUS
    <2>1. TypeOK  BY DEF Init, TypeOK, Reminder, Row
    <2>2. \A r \in Reminders : successor[r] = {}  BY DEF Init
    <2>3. Cardinality({}) = 0  BY FS_EmptySet
    <2> QED BY <2>1, <2>2, <2>3 DEF RemindersInv, OneSuccessor, SuccessorsExist
  <1> QED BY <1>1, StepInv, PTL DEF Spec

\* The property of the runs.
THEOREM SucceededOnce == Spec => []OneSuccessor
  <1>1. RemindersInv => OneSuccessor  BY DEF RemindersInv
  <1> QED BY <1>1, RemindersInvariant, PTL

\* No request, job or race of the two changes what is completed.
THEOREM CompletionFinal == Spec => CompletedForGood
  <1> DEFINE Kept == \A r \in Reminders : reminder[r].status = "completed" =>
                        /\ reminder'[r].status = "completed"
                        /\ reminder'[r].completedAt = reminder[r].completedAt
  <1>1. ASSUME TypeOK, [Next]_vars PROVE Kept
    <2> USE DEF crons, history
    <2> SUFFICES ASSUME NEW q \in Reminders, reminder[q].status = "completed"
                 PROVE  /\ reminder'[q].status = "completed"
                        /\ reminder'[q].completedAt = reminder[q].completedAt
      OBVIOUS
    <2>1. ASSUME NEW r \in Reminders, Create(r) PROVE reminder'[q] = reminder[q]
      BY <1>1, <2>1 DEF Create, Unused, TypeOK
    <2>2. ASSUME NEW r \in Reminders, Update(r)
          PROVE  /\ reminder'[q].status = reminder[q].status
                 /\ reminder'[q].completedAt = reminder[q].completedAt
      BY <1>1, <2>2 DEF Update, TypeOK, Reminder, Row
    <2>3. ASSUME NEW r \in Reminders, Complete(r) PROVE reminder'[q] = reminder[q]
      BY <1>1, <2>3 DEF Complete, Completable, Unused, TypeOK
    <2>4. ASSUME NEW c \in Checks, FindDue(c) \/ Notify(c) PROVE reminder' = reminder
      BY <2>4 DEF FindDue, Notify
    <2>5. CASE MarkOverdue
      BY <1>1, <2>5 DEF MarkOverdue, Late, TypeOK
    <2>6. CASE Tick \/ UNCHANGED vars
      BY <2>6 DEF Tick, vars
    <2> QED BY <1>1, <2>1, <2>2, <2>3, <2>4, <2>5, <2>6 DEF Next
  <1>2. RemindersInv => TypeOK  BY DEF RemindersInv
  <1> QED BY <1>1, <1>2, RemindersInvariant, PTL DEF Spec, CompletedForGood

\* Every variable keeps its type.
THEOREM RemindersTypes == Spec => []TypeOK
  <1>1. RemindersInv => TypeOK  BY DEF RemindersInv
  <1> QED BY <1>1, RemindersInvariant, PTL

\* handleDueReminders: if no slot passes without a run, nothing set in time for a full slot
\* goes unnoticed, whatever the periods and delays of the jobs.
THEOREM NothingDueIsMissed == Spec => []DueIsNoticed
  <1>1. Init => SlotsServed /\ Punctual
    <2> SUFFICES ASSUME Init PROVE SlotsServed /\ Punctual  OBVIOUS
    <2>1. MaxDelay \in Nat /\ CheckEvery \in Nat \ {0}  BY ConstantsAssumption
    <2> QED BY <2>1 DEF Init, SlotsServed, Punctual
  <1>2. RemindersInv => TypeOK  BY DEF RemindersInv
  <1>3. TypeOK /\ SlotsServed /\ Punctual => DueIsNoticed
    <2> SUFFICES ASSUME TypeOK, SlotsServed, Punctual, NEW r \in Reminders \ shifted,
                        reminder[r].status = "pending", reminder[r].scheduledAt % CheckEvery = 0,
                        reminder[r].scheduledAt + CheckEvery < clock
                 PROVE  r \in noticed
      BY DEF DueIsNoticed
    <2>1. /\ reminder[r].scheduledAt \in Nat /\ clock \in Nat /\ CheckEvery \in Nat
          /\ MaxDelay \in Nat /\ MaxDelay < CheckEvery
      BY ReminderFields, ConstantsAssumption DEF TypeOK
    <2>2. reminder[r].scheduledAt <= checked
      BY <2>1 DEF SlotsServed
    <2> QED BY <2>2 DEF Punctual
  <1>4. TypeOK /\ SlotsServed /\ Punctual /\ [Next]_vars => SlotsServed' /\ Punctual'
    BY StepPunctual
  <1> QED BY <1>1, <1>2, <1>3, <1>4, RemindersInvariant, PTL DEF Spec

-----------------------------------------------------------------------------
(* The game.  A session is paid for when it is completed, and only then:   *)
(* so many times as it was completed, which is once more than it was       *)
(* reopened while it is.                                                   *)
CONSTANTS Players, GameRequests, TotalScenes, SceneDeadline, ClaimTimeout,
          MaxGameClock, MaxScene, MaxAwards
VARIABLES session, responses, request, gameClock, awards, reopened
Game == INSTANCE DungeonMaster

Statuses == {"waiting", "active", "scene_processing", "scene_submission", "scene_review", "debrief",
             "debrief_processing", "completed", "expired"}
Stages == {"idle", "accept", "begin", "submit", "count", "review", "advance", "narrate", "debrief",
           "judge"}
Session == [status : Statuses, scene : Int, narrative : Int, sceneStartedAt : Int,
            debriefStartedAt : Int, deadline : Int]
GameRequest == [stage : Stages, player : Players \cup {1}, status : Statuses, scene : Int, claim : Int]

Payments == awards = reopened + (IF session.status = "completed" THEN 1 ELSE 0)

GameInv ==
    /\ session \in Session /\ request \in [GameRequests -> GameRequest]
    /\ gameClock \in Int /\ awards \in Nat /\ reopened \in Nat
    /\ Payments
    /\ session.status = "scene_submission" => session.narrative = session.scene
    /\ \A r \in GameRequests : request[r].stage \in {"begin", "debrief"} => request[r].status # "completed"

\* A request that reads, waits or ends writes nothing.
LEMMA RequestsTyped ==
    ASSUME GameInv, NEW r \in GameRequests
    PROVE  /\ Game!Finished(r) =>
                 /\ request' \in [GameRequests -> GameRequest]
                 /\ \A q \in GameRequests : request'[q].stage \in {"begin", "debrief"} =>
                        request'[q].status # "completed"
           /\ \A stage \in {"count", "review"} : Game!Goes(r, stage) =>
                 /\ request' \in [GameRequests -> GameRequest]
                 /\ \A q \in GameRequests : request'[q].stage \in {"begin", "debrief"} =>
                        request'[q].status # "completed"
  BY DEF GameInv, GameRequest, Statuses, Stages, Game!Finished, Game!Goes, Game!Waiting, Game!Nil

\* Every step keeps the invariant of the game.
LEMMA GameStep ==
    ASSUME SceneDeadline \in Int, GameInv, [Game!Next]_(Game!gameVars)
    PROVE  GameInv'
  <1>0. PICK nil \in Int, deadline \in Int : nil = Game!Nil /\ deadline = gameClock + SceneDeadline
    BY DEF GameInv, Game!Nil
  <1>. USE DEF GameInv
  <1>1. ASSUME NEW r \in GameRequests, NEW player \in Players,
               NEW stage \in {"accept", "begin", "submit", "advance", "debrief"},
               Game!ReadSession(r, stage, player)
        PROVE  GameInv'
    <2>1. CASE Game!Overdue
      <3>1. session' = [session EXCEPT !.status = "expired"] /\ session.status # "completed"
        BY <1>1, <2>1 DEF Game!ReadSession, Game!Overdue, Game!Expirable
      <3>2. session' \in Session /\ session'.status = "expired"
        BY <3>1 DEF Session, Statuses
      <3>. QED  BY <1>1, <2>1, <3>1, <3>2 DEF Game!ReadSession, Payments
    <2>2. CASE ~Game!Overdue
      <3>1. /\ Game!MayBegin(stage, player)
            /\ request' = [request EXCEPT ![r] = [stage |-> stage, player |-> player,
                              status |-> session.status, scene |-> session.scene, claim |-> Game!Nil]]
            /\ UNCHANGED <<session, responses, gameClock, awards, reopened>>
        BY <1>1, <2>2 DEF Game!ReadSession
      <3>2. stage \in {"begin", "debrief"} => session.status # "completed"
        BY <3>1 DEF Game!MayBegin
      <3>3. request' \in [GameRequests -> GameRequest]
        BY <3>1 DEF GameRequest, Statuses, Stages, Session, Statuses, Game!Nil
      <3>. QED  BY <3>1, <3>2, <3>3 DEF Payments
    <2>. QED  BY <2>1, <2>2
  <1>2. ASSUME NEW r \in GameRequests, Game!Accept(r)  PROVE GameInv'
    <2>1. session' \in Session /\ session'.status = "active"
      <3>1. session' = [session EXCEPT !.status = "active", !.deadline = deadline]
        BY <1>0, <1>2 DEF Game!Accept
      <3>. QED  BY <3>1 DEF Session, Statuses
    <2>. QED  BY <1>2, <2>1, RequestsTyped DEF Game!Accept, Game!Reopens, Payments
  <1>3. ASSUME NEW r \in GameRequests, Game!Review(r)  PROVE GameInv'
    <2>1. session' \in Session /\ session'.status = "scene_review"
      BY <1>3 DEF Game!Review, Session, Statuses
    <2>. QED  BY <1>3, <2>1, RequestsTyped DEF Game!Review, Game!Reopens, Payments
  <1>4. ASSUME NEW r \in GameRequests, Game!Advance(r)  PROVE GameInv'
    <2>1. session' \in Session /\ session'.status \in {"debrief", "active"}
      <3>1. request[r].scene \in Int
        BY DEF GameRequest, Statuses, Stages
      <3>2. PICK scene \in Int : scene = request[r].scene + 1
        BY <3>1
      <3>3. \/ session' = [session EXCEPT !.status = "debrief", !.scene = scene, !.deadline = nil]
            \/ session' = [session EXCEPT !.status = "active", !.scene = scene, !.narrative = nil]
        BY <1>0, <1>4, <3>2 DEF Game!Advance
      <3>. QED  BY <1>0, <3>3 DEF Session, Statuses
    <2>. QED  BY <1>4, <2>1, RequestsTyped DEF Game!Advance, Game!Reopens, Payments
  <1>5. ASSUME NEW r \in GameRequests, Game!Submit(r) \/ Game!CountResponses(r) \/ Game!Lose(r)
        PROVE  GameInv'
    BY <1>5, RequestsTyped DEF Game!Submit, Game!CountResponses, Game!Lose, Payments
  <1>6. ASSUME NEW r \in GameRequests, Game!ClaimScene(r)  PROVE GameInv'
    <2>1. CASE UNCHANGED session /\ Game!Finished(r)
      BY <1>6, <2>1, RequestsTyped DEF Game!ClaimScene, Payments
    <2>2. CASE /\ session.status = request[r].status
               /\ session' = [session EXCEPT !.status = "scene_processing", !.sceneStartedAt = gameClock]
               /\ request' = [request EXCEPT ![r].stage = "narrate", ![r].claim = gameClock]
      <3>1. session' \in Session /\ session'.status = "scene_processing" /\ session.status # "completed"
        BY <1>6, <2>2 DEF Game!ClaimScene, Session, Statuses
      <3>2. request' \in [GameRequests -> GameRequest] /\ request'[r].stage = "narrate"
            /\ \A q \in GameRequests \ {r} : request'[q] = request[q]
        <4>1. PICK next : next = [request[r] EXCEPT !.stage = "narrate", !.claim = gameClock]
          OBVIOUS
        <4>2. next \in GameRequest /\ next.stage = "narrate"
          BY <4>1 DEF GameRequest, Stages
        <4>3. request' = [request EXCEPT ![r] = next]
          BY <2>2, <4>1
        <4>. QED  BY <4>2, <4>3
      <3>. QED  BY <1>6, <3>1, <3>2 DEF Game!ClaimScene, Payments
    <2>. QED  BY <1>6, <2>1, <2>2 DEF Game!ClaimScene, Game!Claimable
  <1>7. ASSUME NEW r \in GameRequests, Game!CompleteScene(r)  PROVE GameInv'
    <2>1. CASE UNCHANGED session
      BY <1>7, <2>1, RequestsTyped DEF Game!CompleteScene, Payments
    <2>2. CASE Game!Narrating(r)
      <3>1. request[r].scene \in Int
        BY DEF GameRequest, Statuses, Stages
      <3>2. /\ session' \in Session /\ session'.status = "scene_submission"
            /\ session'.narrative = request[r].scene /\ session'.scene = session.scene
        <4>1. PICK narrative \in Int : narrative = request[r].scene
          BY <3>1
        <4>2. session' = [session EXCEPT !.status = "scene_submission", !.sceneStartedAt = nil,
                             !.narrative = narrative, !.deadline = deadline]
          BY <1>0, <1>7, <2>2, <4>1 DEF Game!CompleteScene
        <4>. QED  BY <1>0, <4>1, <4>2 DEF Session, Statuses
      <3>. QED  BY <1>7, <2>2, <3>2, RequestsTyped DEF Game!CompleteScene, Game!Narrating, Payments
    <2>. QED  BY <1>7, <2>1, <2>2 DEF Game!CompleteScene
  <1>8. ASSUME NEW r \in GameRequests, Game!ReleaseScene(r)  PROVE GameInv'
    <2>1. CASE UNCHANGED session
      BY <1>8, <2>1, RequestsTyped DEF Game!ReleaseScene, Payments
    <2>2. CASE Game!Narrating(r)
      <3>1. session' \in Session /\ session'.status = "active"
        <4>1. session' = [session EXCEPT !.status = "active", !.sceneStartedAt = nil]
          BY <1>0, <1>8, <2>2 DEF Game!ReleaseScene
        <4>. QED  BY <1>0, <4>1 DEF Session, Statuses
      <3>. QED  BY <1>8, <2>2, <3>1, RequestsTyped DEF Game!ReleaseScene, Game!Narrating, Payments
    <2>. QED  BY <1>8, <2>1, <2>2 DEF Game!ReleaseScene
  <1>9. ASSUME NEW r \in GameRequests, Game!ClaimDebrief(r)  PROVE GameInv'
    <2>1. CASE UNCHANGED session /\ Game!Finished(r)
      BY <1>9, <2>1, RequestsTyped DEF Game!ClaimDebrief, Payments
    <2>2. CASE /\ session.status = request[r].status
               /\ session' = [session EXCEPT !.status = "debrief_processing", !.debriefStartedAt = gameClock]
               /\ request' = [request EXCEPT ![r].stage = "judge", ![r].claim = gameClock]
      <3>1. session' \in Session /\ session'.status = "debrief_processing" /\ session.status # "completed"
        BY <1>9, <2>2 DEF Game!ClaimDebrief, Session, Statuses
      <3>2. request' \in [GameRequests -> GameRequest] /\ request'[r].stage = "judge"
            /\ \A q \in GameRequests \ {r} : request'[q] = request[q]
        <4>1. PICK next : next = [request[r] EXCEPT !.stage = "judge", !.claim = gameClock]
          OBVIOUS
        <4>2. next \in GameRequest /\ next.stage = "judge"
          BY <4>1 DEF GameRequest, Stages
        <4>3. request' = [request EXCEPT ![r] = next]
          BY <2>2, <4>1
        <4>. QED  BY <4>2, <4>3
      <3>. QED  BY <1>9, <3>1, <3>2 DEF Game!ClaimDebrief, Payments
    <2>. QED  BY <1>9, <2>1, <2>2 DEF Game!ClaimDebrief, Game!Claimable
  <1>10. ASSUME NEW r \in GameRequests, Game!CompleteDebrief(r)  PROVE GameInv'
    <2>1. CASE UNCHANGED <<session, awards>>
      BY <1>10, <2>1, RequestsTyped DEF Game!CompleteDebrief, Payments
    <2>2. CASE Game!Debriefing(r)
      <3>1. /\ session' \in Session /\ session'.status = "completed"
            /\ session.status = "debrief_processing" /\ awards' = awards + 1
        <4>1. session' = [session EXCEPT !.status = "completed", !.debriefStartedAt = nil]
          BY <1>0, <1>10, <2>2 DEF Game!CompleteDebrief
        <4>2. session' \in Session /\ session'.status = "completed"
          BY <1>0, <4>1 DEF Session, Statuses
        <4>. QED  BY <1>10, <2>2, <4>2 DEF Game!CompleteDebrief, Game!Debriefing
      <3>. QED  BY <1>10, <3>1, RequestsTyped DEF Game!CompleteDebrief, Payments
    <2>. QED  BY <1>10, <2>1, <2>2 DEF Game!CompleteDebrief
  <1>11. ASSUME NEW r \in GameRequests, Game!ReleaseDebrief(r)  PROVE GameInv'
    <2>1. CASE UNCHANGED session
      BY <1>11, <2>1, RequestsTyped DEF Game!ReleaseDebrief, Payments
    <2>2. CASE Game!Debriefing(r)
      <3>1. session' \in Session /\ session'.status = "debrief"
        <4>1. session' = [session EXCEPT !.status = "debrief", !.debriefStartedAt = nil]
          BY <1>0, <1>11, <2>2 DEF Game!ReleaseDebrief
        <4>. QED  BY <1>0, <4>1 DEF Session, Statuses
      <3>. QED  BY <1>11, <2>2, <3>1, RequestsTyped DEF Game!ReleaseDebrief, Game!Debriefing, Payments
    <2>. QED  BY <1>11, <2>1, <2>2 DEF Game!ReleaseDebrief
  <1>12. CASE Game!Tick \/ UNCHANGED Game!gameVars
    BY <1>12 DEF Game!Tick, Game!gameVars, Payments
  <1>. QED  BY <1>1, <1>2, <1>3, <1>4, <1>5, <1>6, <1>7, <1>8, <1>9, <1>10, <1>11, <1>12 DEF Game!Next

\* However debriefs are claimed, taken over, lost and retried, a session is paid for once
\* per end; the narrative participants answer is that of their scene.
THEOREM SessionsPaidOnce ==
    ASSUME SceneDeadline \in Int
    PROVE  Game!Spec => []Game!PaidOncePerEnd
  <1>1. Game!Init => GameInv
    BY DEF Game!Init, GameInv, Session, GameRequest, Statuses, Stages, Payments, Game!Waiting, Game!Nil
  <1>2. GameInv /\ [Game!Next]_(Game!gameVars) => GameInv'
    BY GameStep
  <1>3. GameInv => Game!PaidOncePerEnd
    BY DEF GameInv, Payments, Game!PaidOncePerEnd
  <1>. QED  BY <1>1, <1>2, <1>3, PTL DEF Game!Spec

-----------------------------------------------------------------------------
(* The stays in cities.  A transaction that has rebuilt holds the owner's  *)
(* lock, so that names and events are as it has seen them until it is      *)
(* over; what it has not seen is a selection, which is owed.               *)
CONSTANTS Aliases, Macs, Cities, StayEvents, StayWriters, Nobody, MaxWrites
VARIABLES alias, place, selected, stays, writer, lock, owed, writes
Stays == INSTANCE CityStays

WriterFields == {"stage", "kind", "id", "new", "place", "selects", "stays"}

\* What a transaction would commit is what would follow from it.
UpToDate(w) ==
    writer[w].stays = Stays!StaysOf(Stays!AliasSeen(w), Stays!PlaceSeen(w), selected)

WriterOK(w) ==
    /\ DOMAIN writer[w] = WriterFields
    /\ writer[w].stage \in {"locked", "rebuilt"} => lock = w
    /\ writer[w].stage = "rebuilt" => owed \/ UpToDate(w)

StaysInv ==
    /\ DOMAIN writer = StayWriters /\ \A w \in StayWriters : WriterOK(w)
    /\ owed \in BOOLEAN
    /\ Stays!StaysFollow

\* What others do under another lock, or none, leaves a transaction as it is.
LEMMA OthersUpToDate ==
    ASSUME StaysInv, NEW v \in StayWriters, writer'[v] = writer[v],
           writer[v].stage \in {"locked", "rebuilt"} => lock' = lock /\ UNCHANGED <<alias, place>>,
           UNCHANGED <<selected, owed>> \/ owed'
    PROVE  WriterOK(v)'
  <1>1. WriterOK(v)
    BY DEF StaysInv
  <1>2. ASSUME writer'[v].stage = "rebuilt", UNCHANGED <<selected, owed>>
        PROVE  UpToDate(v) => UpToDate(v)'
    <2>1. alias' = alias /\ place' = place /\ selected' = selected
      BY <1>2
    <2>2. Stays!AliasSeen(v)' = Stays!AliasSeen(v) /\ Stays!PlaceSeen(v)' = Stays!PlaceSeen(v)
      BY <2>1 DEF Stays!AliasSeen, Stays!PlaceSeen
    <2>. QED  BY <2>1, <2>2 DEF UpToDate, Stays!StaysOf
  <1>. QED  BY <1>1, <1>2 DEF WriterOK

\* Every step keeps the invariant of the stays.
LEMMA StaysStep ==
    ASSUME Nobody \notin StayWriters, StaysInv, [Stays!Next]_(Stays!stayVars)
    PROVE  StaysInv'
  <1>. DEFINE Quiets(w) == writer' = [writer EXCEPT ![w] = Stays!Quiet]
  <1>1. ASSUME NEW w \in StayWriters, NEW next, DOMAIN next = WriterFields,
               writer' = [writer EXCEPT ![w] = next]
        PROVE  /\ writer'[w] = next /\ DOMAIN writer' = StayWriters
               /\ \A v \in StayWriters \ {w} : writer'[v] = writer[v]
    BY <1>1 DEF StaysInv
  <1>2. ASSUME NEW w \in StayWriters, NEW next, DOMAIN next = WriterFields, next.stage = "wait",
               writer' = [writer EXCEPT ![w] = next], UNCHANGED <<alias, place, stays, lock>>,
               UNCHANGED <<selected, owed>> \/ owed' = TRUE
        PROVE  StaysInv'
    <2>1. /\ writer'[w] = next /\ DOMAIN writer' = StayWriters
          /\ \A v \in StayWriters \ {w} : writer'[v] = writer[v]
      BY <1>1, <1>2
    <2>2. \A v \in StayWriters \ {w} : WriterOK(v)'
      BY <1>2, <2>1, OthersUpToDate
    <2>3. WriterOK(w)'
      BY <1>2, <2>1 DEF WriterOK
    <2>4. owed' \in BOOLEAN /\ Stays!StaysFollow'
      BY <1>2 DEF StaysInv, Stays!StaysFollow
    <2>. QED  BY <2>1, <2>2, <2>3, <2>4 DEF StaysInv
  <1>3. \A w \in StayWriters : ~\E v \in StayWriters \ {w} :
            /\ writer[w].stage \in {"locked", "rebuilt"}
            /\ writer[v].stage \in {"locked", "rebuilt"}
    BY DEF StaysInv, WriterOK
  <1>4. Stays!Quiet.stage = "idle" /\ DOMAIN Stays!Quiet = WriterFields
    BY DEF Stays!Quiet, WriterFields
  <1>5. ASSUME NEW w \in StayWriters, writer' = [writer EXCEPT ![w] = Stays!Quiet],
               lock' = IF lock = w THEN Nobody ELSE lock,
               UNCHANGED <<alias, place, selected, stays, owed>>
        PROVE  StaysInv'
    <2>1. /\ writer'[w] = Stays!Quiet /\ DOMAIN writer' = StayWriters
          /\ \A v \in StayWriters \ {w} : writer'[v] = writer[v]
      BY <1>1, <1>4, <1>5
    <2>2. ASSUME NEW v \in StayWriters \ {w}  PROVE WriterOK(v)'
      <3>1. writer[v].stage \in {"locked", "rebuilt"} => lock = v
        BY DEF StaysInv, WriterOK
      <3>. QED  BY <1>5, <2>1, <3>1, OthersUpToDate
    <2>3. WriterOK(w)'
      BY <1>4, <2>1 DEF WriterOK
    <2>4. owed' \in BOOLEAN /\ Stays!StaysFollow'
      BY <1>5 DEF StaysInv, Stays!StaysFollow
    <2>. QED  BY <2>1, <2>2, <2>3, <2>4 DEF StaysInv
  <1>6. ASSUME NEW w \in StayWriters, NEW e \in StayEvents, NEW mac \in Macs \cup {Stays!Nil},
               Stays!BeginSync(w, e, mac)
        PROVE  StaysInv'
    <2>1. PICK next : next = [Stays!Quiet EXCEPT !.stage = "wait", !.kind = "sync", !.id = e,
                                                 !.place = mac]
      OBVIOUS
    <2>2. DOMAIN next = WriterFields /\ next.stage = "wait"
      BY <2>1 DEF Stays!Quiet, WriterFields
    <2>. QED  BY <1>2, <1>6, <2>1, <2>2 DEF Stays!BeginSync
  <1>7. ASSUME NEW w \in StayWriters, NEW a \in Aliases, NEW new \in Stays!Alias,
               Stays!BeginAlias(w, a, new)
        PROVE  StaysInv'
    <2>1. PICK next : next = [Stays!Quiet EXCEPT !.stage = "wait", !.kind = "alias", !.id = a,
                                                 !.new = new]
      OBVIOUS
    <2>2. DOMAIN next = WriterFields /\ next.stage = "wait"
      BY <2>1 DEF Stays!Quiet, WriterFields
    <2>. QED  BY <1>2, <1>7, <2>1, <2>2 DEF Stays!BeginAlias
  <1>8. ASSUME NEW w \in StayWriters, Stays!Select(w)  PROVE StaysInv'
    <2>1. PICK next : next = [Stays!Quiet EXCEPT !.stage = "wait", !.kind = "select"]
      OBVIOUS
    <2>2. DOMAIN next = WriterFields /\ next.stage = "wait"
      BY <2>1 DEF Stays!Quiet, WriterFields
    <2>. QED  BY <1>2, <1>8, <2>1, <2>2 DEF Stays!Select
  <1>9. ASSUME NEW w \in StayWriters, Stays!Acquire(w)  PROVE StaysInv'
    <2>1. PICK next : next = [writer[w] EXCEPT !.stage = "locked"]
      OBVIOUS
    <2>2. DOMAIN next = WriterFields /\ next.stage = "locked"
      BY <2>1 DEF StaysInv, WriterOK, WriterFields
    <2>3. /\ writer'[w] = next /\ DOMAIN writer' = StayWriters
          /\ \A v \in StayWriters \ {w} : writer'[v] = writer[v]
      BY <1>1, <1>9, <2>1, <2>2 DEF Stays!Acquire
    <2>4. ASSUME NEW v \in StayWriters \ {w}  PROVE WriterOK(v)'
      <3>1. writer[v].stage \notin {"locked", "rebuilt"}
        BY <1>9 DEF StaysInv, WriterOK, Stays!Acquire, Stays!LockIsFree
      <3>. QED  BY <1>9, <2>3, <3>1, OthersUpToDate DEF Stays!Acquire
    <2>5. WriterOK(w)'
      BY <1>9, <2>2, <2>3 DEF WriterOK, Stays!Acquire
    <2>6. owed' \in BOOLEAN /\ Stays!StaysFollow'
      BY <1>9 DEF StaysInv, Stays!StaysFollow, Stays!Acquire
    <2>. QED  BY <2>3, <2>4, <2>5, <2>6 DEF StaysInv
  <1>10. ASSUME NEW w \in StayWriters, Stays!Rebuild(w)  PROVE StaysInv'
    <2>1. CASE ~Stays!Allowed(w)
      BY <1>5, <1>10, <2>1 DEF Stays!Rebuild
    <2>2. CASE Stays!Allowed(w)
      <3>1. PICK derived : derived = Stays!StaysOf(Stays!AliasSeen(w), Stays!PlaceSeen(w), selected)
        OBVIOUS
      <3>2. PICK next : next = [writer[w] EXCEPT !.stage = "rebuilt", !.stays = derived]
        OBVIOUS
      <3>3. /\ DOMAIN next = WriterFields /\ next.stage = "rebuilt" /\ next.stays = derived
            /\ next.kind = writer[w].kind /\ next.id = writer[w].id /\ next.new = writer[w].new
            /\ next.place = writer[w].place
        BY <3>2 DEF StaysInv, WriterOK, WriterFields
      <3>4. writer' = [writer EXCEPT ![w] = next]
        BY <1>10, <2>2, <3>1, <3>2 DEF Stays!Rebuild, StaysInv
      <3>5. /\ writer'[w] = next /\ DOMAIN writer' = StayWriters
            /\ \A v \in StayWriters \ {w} : writer'[v] = writer[v]
        BY <1>1, <3>3, <3>4
      <3>6. UNCHANGED <<alias, place, selected, stays, owed, lock>>
        BY <1>10, <2>2 DEF Stays!Rebuild
      <3>7. \A v \in StayWriters \ {w} : WriterOK(v)'
        BY <3>5, <3>6, OthersUpToDate
      <3>8. WriterOK(w)'
        <4>1. Stays!AliasSeen(w)' = Stays!AliasSeen(w) /\ Stays!PlaceSeen(w)' = Stays!PlaceSeen(w)
          BY <3>3, <3>5, <3>6 DEF Stays!AliasSeen, Stays!PlaceSeen
        <4>2. UpToDate(w)'
          BY <3>1, <3>3, <3>5, <3>6, <4>1 DEF UpToDate, Stays!StaysOf
        <4>3. lock = w
          BY <1>10 DEF Stays!Rebuild, StaysInv, WriterOK
        <4>. QED  BY <3>3, <3>5, <3>6, <4>2, <4>3 DEF WriterOK
      <3>9. owed' \in BOOLEAN /\ Stays!StaysFollow'
        BY <3>6 DEF StaysInv, Stays!StaysFollow
      <3>. QED  BY <3>5, <3>7, <3>8, <3>9 DEF StaysInv
    <2>. QED  BY <2>1, <2>2
  <1>11. ASSUME NEW w \in StayWriters, Stays!Commit(w)  PROVE StaysInv'
    <2>1. /\ writer'[w] = Stays!Quiet /\ DOMAIN writer' = StayWriters
          /\ \A v \in StayWriters \ {w} : writer'[v] = writer[v]
      BY <1>1, <1>4, <1>11 DEF Stays!Commit
    <2>2. ASSUME NEW v \in StayWriters \ {w}  PROVE WriterOK(v)'
      <3>1. writer[v].stage \notin {"locked", "rebuilt"}
        BY <1>3, <1>11 DEF Stays!Commit
      <3>. QED  BY <2>1, <3>1 DEF WriterOK, StaysInv
    <2>3. WriterOK(w)'
      BY <1>4, <2>1 DEF WriterOK
    <2>4. owed \/ UpToDate(w)
      BY <1>11 DEF Stays!Commit, StaysInv, WriterOK
    <2>5. owed' = (owed /\ ~UpToDate(w)) /\ stays' = writer[w].stays
      BY <1>11 DEF Stays!Commit, UpToDate
    <2>6. /\ alias' = Stays!AliasSeen(w) /\ place' = Stays!PlaceSeen(w) /\ selected' = selected
      BY <1>11 DEF Stays!Commit
    <2>7. Stays!StaysFollow'
      BY <2>4, <2>5, <2>6 DEF Stays!StaysFollow, UpToDate, Stays!StaysOf
    <2>. QED  BY <2>1, <2>2, <2>3, <2>5, <2>7 DEF StaysInv
  <1>12. ASSUME NEW w \in StayWriters, Stays!Abort(w)  PROVE StaysInv'
    BY <1>5, <1>12 DEF Stays!Abort
  <1>13. CASE UNCHANGED Stays!stayVars
    <2>1. UNCHANGED <<alias, place, selected, stays, writer, lock, owed>>
      BY <1>13 DEF Stays!stayVars
    <2>2. \A v \in StayWriters : WriterOK(v)'
      BY <2>1, OthersUpToDate
    <2>. QED  BY <2>1, <2>2 DEF StaysInv, Stays!StaysFollow
  <1>. QED  BY <1>6, <1>7, <1>8, <1>9, <1>10, <1>11, <1>12, <1>13 DEF Stays!Next

\* The stays are those of the committed names and events, whatever writers overlap, unless a
\* rebuild is owed (rebuildCalendarStaysInTransaction, acquireOwnerLocationLock).
THEOREM StaysFollowNames ==
    ASSUME Nobody \notin StayWriters
    PROVE  Stays!Spec => []Stays!StaysFollow
  <1>1. Stays!Init => StaysInv
    <2>. SUFFICES ASSUME Stays!Init  PROVE StaysInv
      OBVIOUS
    <2>1. \A w \in StayWriters : writer[w] = Stays!Quiet
      BY DEF Stays!Init
    <2>2. Stays!Quiet.stage = "idle" /\ DOMAIN Stays!Quiet = WriterFields
      BY DEF Stays!Quiet, WriterFields
    <2>3. Stays!StaysFollow
      BY DEF Stays!Init, Stays!StaysFollow, Stays!StaysOf
    <2>. QED  BY <2>1, <2>2, <2>3 DEF Stays!Init, StaysInv, WriterOK
  <1>2. StaysInv /\ [Stays!Next]_(Stays!stayVars) => StaysInv'
    BY StaysStep
  <1>3. StaysInv => Stays!StaysFollow
    BY DEF StaysInv
  <1>. QED  BY <1>1, <1>2, <1>3, PTL DEF Stays!Spec

-----------------------------------------------------------------------------
(* Deleting the owner's context.  A key that was used has an audit that    *)
(* stays; a row is of a setup later than the last deletion, or came late,  *)
(* and what is added under one that is still there is of the same setup.   *)
CONSTANTS DeletionKeys, DeletionCalls, Contributors, RetryLimit, MaxSetups
VARIABLES row, audit, deletion, contributor, setups, removed, told, before, late
Deletion == INSTANCE ContextDeletion

KeyOK(k) ==
    /\ ~audit[k].done => audit[k] = Deletion!NoAudit /\ removed[k] = 0 /\ told[k] = {}
    /\ audit[k].calendar + audit[k].location + audit[k].event = removed[k]
    /\ told[k] \subseteq {audit[k]}

CallOK(c) ==
    /\ DOMAIN deletion[c] = {"stage", "key", "attempt"}
    /\ deletion[c].stage \in {"idle", "delete", "stop"}
    /\ deletion[c].stage # "idle" => deletion[c].key \in DeletionKeys
    /\ deletion[c].stage = "stop" => audit[deletion[c].key].done

RowOfSetup(t) ==
    /\ row[t] \in 0 .. setups
    /\ row[t] \in 1 .. before => Deletion!CameLate(t, row[t])

WritesOf(w) ==
    /\ contributor[w].table \in {Deletion!NoTable} \cup DOMAIN Deletion!ReadOf
    /\ contributor[w].under \in 0 .. setups

DeletionInv ==
    /\ DOMAIN row = Deletion!Tables /\ \A t \in Deletion!Tables : RowOfSetup(t)
    /\ DOMAIN audit = DeletionKeys /\ DOMAIN removed = DeletionKeys /\ DOMAIN told = DeletionKeys
    /\ \A k \in DeletionKeys : KeyOK(k)
    /\ DOMAIN deletion = DeletionCalls /\ \A c \in DeletionCalls : CallOK(c)
    /\ DOMAIN contributor = Contributors
    /\ \A w \in Contributors : WritesOf(w)
    /\ setups \in Nat /\ before \in Nat /\ before <= setups

\* The rows of the three kinds of tables are all the rows there are.
LEMMA RowsOfAllTables ==
    /\ Deletion!Rows(Deletion!CalendarTables) \in Nat
    /\ Deletion!Rows(Deletion!LocationTables) \in Nat
    /\ Deletion!Rows(Deletion!EventTables) \in Nat
    /\ Deletion!Rows(Deletion!Tables)
           = Deletion!Rows(Deletion!CalendarTables) + Deletion!Rows(Deletion!LocationTables)
             + Deletion!Rows(Deletion!EventTables)
    /\ Deletion!Rows({}) = 0
  <1>. DEFINE Present(tables) == {t \in tables : row[t] # Deletion!Nil}
              Cal == Deletion!CalendarTables
              Loc == Deletion!LocationTables
              Ev == Deletion!EventTables
  <1>1. IsFiniteSet(Cal) /\ IsFiniteSet(Loc) /\ IsFiniteSet(Ev)
    <2>1. ASSUME NEW t1, NEW t2, NEW t3, NEW t4, NEW t5, NEW t6, NEW S, S = {t1, t2, t3, t4, t5, t6}
          PROVE  IsFiniteSet(S)
      <3>1. PICK A : A = (({} \cup {t1}) \cup {t2}) \cup {t3}
        OBVIOUS
      <3>2. S = ((A \cup {t4}) \cup {t5}) \cup {t6}
        BY <2>1, <3>1
      <3>3. IsFiniteSet(A)
        BY <3>1, FS_EmptySet, FS_AddElement
      <3>. QED  BY <3>2, <3>3, FS_AddElement
    <2>2. IsFiniteSet(Cal)
      BY <2>1 DEF Deletion!CalendarTables
    <2>3. Loc = {"LocationSample", "DerivedVisit", "LocationAlias", "LocationDevice",
                 "LocationDevice", "LocationDevice"}
      BY DEF Deletion!LocationTables
    <2>4. Ev = {"BriefFeedback", "BriefItem", "DiscoveredEvent", "EventSource", "EventPreference",
                "EventPreference"}
      BY DEF Deletion!EventTables
    <2>. HIDE DEF Cal, Loc, Ev
    <2>. QED  BY <2>1, <2>2, <2>3, <2>4
  <1>2. IsFiniteSet(Present(Cal)) /\ IsFiniteSet(Present(Loc)) /\ IsFiniteSet(Present(Ev))
    <2>1. Present(Cal) \in SUBSET Cal /\ Present(Loc) \in SUBSET Loc /\ Present(Ev) \in SUBSET Ev
      OBVIOUS
    <2>. HIDE DEF Cal, Loc, Ev, Present
    <2>. QED  BY <1>1, <2>1, FS_Subset
  <1>3. /\ Present(Cal) \cap Present(Loc) = {}
        /\ (Present(Cal) \cup Present(Loc)) \cap Present(Ev) = {}
    BY DEF Deletion!CalendarTables, Deletion!LocationTables, Deletion!EventTables
  <1>4. Present(Deletion!Tables) = (Present(Cal) \cup Present(Loc)) \cup Present(Ev)
    BY DEF Deletion!Tables
  <1>5. Present({}) = {}
    OBVIOUS
  <1>9. /\ Deletion!Rows(Cal) = Cardinality(Present(Cal))
        /\ Deletion!Rows(Loc) = Cardinality(Present(Loc))
        /\ Deletion!Rows(Ev) = Cardinality(Present(Ev))
        /\ Deletion!Rows({}) = Cardinality(Present({}))
        /\ Deletion!Rows(Deletion!Tables) = Cardinality(Present(Deletion!Tables))
    <2>1. ASSUME NEW tables  PROVE Deletion!Rows(tables) = Cardinality(Present(tables))
      BY DEF Deletion!Rows, Deletion!Cardinality, Cardinality
    <2>. HIDE DEF Cal, Loc, Ev, Present
    <2>. QED  BY <2>1
  <1>. HIDE DEF Cal, Loc, Ev, Present
  <1>6. /\ IsFiniteSet(Present(Cal) \cup Present(Loc))
        /\ Cardinality(Present(Cal) \cup Present(Loc))
               = Cardinality(Present(Cal)) + Cardinality(Present(Loc))
    BY <1>2, <1>3, FS_Union, FS_EmptySet, FS_CardinalityType
  <1>7. Cardinality(Present(Deletion!Tables))
            = Cardinality(Present(Cal) \cup Present(Loc)) + Cardinality(Present(Ev))
    <2>1. PICK S, T : S = Present(Cal) \cup Present(Loc) /\ T = Present(Ev)
      OBVIOUS
    <2>2. IsFiniteSet(S) /\ IsFiniteSet(T) /\ S \cap T = {}
      BY <1>2, <1>3, <1>6, <2>1
    <2>3. Cardinality(S \cup T) = Cardinality(S) + Cardinality(T) - Cardinality(S \cap T)
      BY <2>2, FS_Union
    <2>4. Cardinality(S) \in Nat /\ Cardinality(T) \in Nat /\ Cardinality(S \cap T) = 0
      BY <2>2, FS_CardinalityType, FS_EmptySet
    <2>5. Cardinality(S \cup T) = Cardinality(S) + Cardinality(T)
      BY <2>3, <2>4
    <2>. QED  BY <1>4, <2>1, <2>5
  <1>8. Cardinality(Present(Cal)) \in Nat /\ Cardinality(Present(Loc)) \in Nat
        /\ Cardinality(Present(Ev)) \in Nat /\ Cardinality(Present({})) = 0
    BY <1>2, <1>5, FS_EmptySet, FS_CardinalityType
  <1>10. Deletion!Rows(Deletion!Tables) = Deletion!Rows(Cal) + Deletion!Rows(Loc) + Deletion!Rows(Ev)
    BY <1>6, <1>7, <1>9
  <1>. QED  BY <1>8, <1>9, <1>10 DEF Cal, Loc, Ev

\* A request that is over has told what the audit tells, or nothing.
LEMMA OverStep ==
    ASSUME DeletionInv, NEW c \in DeletionCalls, NEW k \in DeletionKeys,
           deletion' = [deletion EXCEPT ![c] = Deletion!Unasked],
           UNCHANGED <<row, audit, contributor, setups, removed, before, late>>,
           UNCHANGED told \/ (audit[k].done /\ told' = [told EXCEPT ![k] = @ \cup {audit[k]}])
    PROVE  DeletionInv'
  <1>1. /\ DOMAIN told' = DeletionKeys
        /\ \A l \in DeletionKeys : told'[l] = told[l] \/ (l = k /\ audit[k].done /\ told'[k] = told[k] \cup {audit[k]})
    BY DEF DeletionInv
  <1>2. \A l \in DeletionKeys : KeyOK(l)'
    BY <1>1 DEF DeletionInv, KeyOK
  <1>3. \A d \in DeletionCalls : CallOK(d)'
    BY DEF DeletionInv, CallOK, Deletion!Unasked
  <1>. QED  BY <1>1, <1>2, <1>3
    DEF DeletionInv, RowOfSetup, WritesOf, Deletion!CameLate

\* The deletion itself.
LEMMA DeleteStep ==
    ASSUME DeletionInv, NEW c \in DeletionCalls, Deletion!deleteInTransaction(c),
           ~audit[deletion[c].key].done
    PROVE  DeletionInv'
  <1>. DEFINE k == deletion[c].key
  <1>1. k \in DeletionKeys /\ CallOK(c) /\ KeyOK(k)
    BY DEF DeletionInv, CallOK, Deletion!deleteInTransaction
  <1>2. PICK new : new = [calendar |-> Deletion!Rows(Deletion!CalendarTables),
                          location |-> Deletion!Rows(Deletion!LocationTables),
                          event |-> Deletion!Rows(Deletion!EventTables), done |-> TRUE]
    OBVIOUS
  <1>3. /\ Deletion!CalendarTables \cap Deletion!DeletedTables = Deletion!CalendarTables
        /\ Deletion!LocationTables \cap Deletion!DeletedTables = Deletion!LocationTables
        /\ Deletion!EventTables \cap Deletion!DeletedTables = Deletion!EventTables
        /\ Deletion!Tables \ Deletion!DeletedTables = {}
        /\ Deletion!Tables = Deletion!DeletedTables
    BY DEF Deletion!DeletedTables, Deletion!Tables
  <1>4. /\ row' = [t \in Deletion!Tables |-> Deletion!Nil]
        /\ before' = setups /\ setups' = setups /\ contributor' = contributor
        /\ audit' = [audit EXCEPT ![k] = new] /\ told' = told
        /\ removed' = [removed EXCEPT ![k] = @ + Deletion!Rows(Deletion!Tables) - Deletion!Rows({})]
        /\ deletion' = [deletion EXCEPT ![c].stage = "stop"]
    BY <1>2, <1>3 DEF Deletion!deleteInTransaction
  <1>5. removed[k] = 0 /\ told[k] = {}
    BY <1>1 DEF KeyOK
  <1>6. /\ removed'[k] = Deletion!Rows(Deletion!CalendarTables)
                         + Deletion!Rows(Deletion!LocationTables) + Deletion!Rows(Deletion!EventTables)
        /\ \A l \in DeletionKeys \ {k} : removed'[l] = removed[l]
        /\ DOMAIN removed' = DeletionKeys
    BY <1>1, <1>4, <1>5, RowsOfAllTables DEF DeletionInv
  <1>7. /\ audit'[k] = new /\ DOMAIN audit' = DeletionKeys
        /\ \A l \in DeletionKeys \ {k} : audit'[l] = audit[l]
    BY <1>1, <1>4 DEF DeletionInv
  <1>8. ASSUME NEW l \in DeletionKeys  PROVE KeyOK(l)'
    <2>1. CASE l = k
      <3>1. /\ new.calendar = Deletion!Rows(Deletion!CalendarTables)
            /\ new.location = Deletion!Rows(Deletion!LocationTables)
            /\ new.event = Deletion!Rows(Deletion!EventTables) /\ new.done
        BY <1>2
      <3>. QED  BY <1>4, <1>5, <1>6, <1>7, <2>1, <3>1 DEF KeyOK
    <2>2. CASE l # k
      BY <1>4, <1>6, <1>7, <2>2 DEF DeletionInv, KeyOK
    <2>. QED  BY <2>1, <2>2
  <1>9. \A t \in Deletion!Tables : RowOfSetup(t)'
    BY <1>4 DEF RowOfSetup, DeletionInv, Deletion!Nil
  <1>10. new.done
    BY <1>2
  <1>11. ASSUME NEW d \in DeletionCalls  PROVE CallOK(d)'
    <2>1. CASE d = c
      <3>1. DOMAIN deletion'[c] = {"stage", "key", "attempt"} /\ deletion'[c].stage = "stop"
            /\ deletion'[c].key = k
        BY <1>1, <1>4 DEF DeletionInv, CallOK
      <3>. QED  BY <1>1, <1>7, <1>10, <2>1, <3>1 DEF CallOK
    <2>2. CASE d # c
      BY <1>4, <1>7, <1>10, <2>2 DEF DeletionInv, CallOK
    <2>. QED  BY <2>1, <2>2
  <1>12. \A w \in Contributors : WritesOf(w)'
    BY <1>4 DEF DeletionInv, WritesOf
  <1>. QED  BY <1>4, <1>6, <1>7, <1>8, <1>9, <1>11, <1>12 DEF DeletionInv

\* What is written reads a table, and not a stay; what is read on a connection is written on it.
LEMMA WhatIsRead ==
    ASSUME NEW t \in DOMAIN Deletion!ReadOf
    PROVE  /\ t \in Deletion!Tables /\ Deletion!ReadOf[t] \in Deletion!Tables
           /\ Deletion!ReadOf[t] # "CityStay"
           /\ t \notin Deletion!Unheld /\ Deletion!ReadOf[t] \in Deletion!OnConnection
                 => t \in Deletion!OnConnection
  BY DEF Deletion!ReadOf, Deletion!Tables, Deletion!Unheld, Deletion!OnConnection,
     Deletion!CalendarTables, Deletion!LocationTables, Deletion!EventTables

\* Every step keeps the invariant of deletions.
LEMMA DeletionStep ==
    ASSUME DeletionInv, [Deletion!Next]_(Deletion!deletionVars)
    PROVE  DeletionInv'
  <1>1. ASSUME NEW t \in Deletion!OwnersOwn, Deletion!SetUp(t)  PROVE DeletionInv'
    <2>1. t \in Deletion!Tables /\ UNCHANGED <<audit, deletion, contributor, removed, told, before, late>>
      BY <1>1 DEF Deletion!OwnersOwn, Deletion!SetUp
    <2>2. /\ DOMAIN row' = Deletion!Tables /\ row'[t] = setups + 1 /\ setups' = setups + 1
          /\ \A u \in Deletion!Tables \ {t} : row'[u] = row[u]
      BY <1>1, <2>1 DEF Deletion!SetUp, DeletionInv
    <2>3. setups \in Nat /\ before \in Nat /\ before <= setups /\ before' = before
      BY <2>1 DEF DeletionInv
    <2>4. ASSUME NEW u \in Deletion!Tables  PROVE RowOfSetup(u)'
      <3>1. RowOfSetup(u)
        BY DEF DeletionInv
      <3>. QED  BY <2>1, <2>2, <2>3, <3>1 DEF RowOfSetup, Deletion!CameLate
    <2>5. \A k \in DeletionKeys : KeyOK(k)'
      BY <2>1 DEF DeletionInv, KeyOK
    <2>6. \A c \in DeletionCalls : CallOK(c)'
      BY <2>1 DEF DeletionInv, CallOK
    <2>7. \A w \in Contributors : WritesOf(w)'
      BY <2>1, <2>2, <2>3 DEF DeletionInv, WritesOf
    <2>. QED  BY <2>1, <2>2, <2>3, <2>4, <2>5, <2>6, <2>7 DEF DeletionInv
  <1>2. ASSUME NEW w \in Contributors, NEW t \in {Deletion!NoTable} \cup DOMAIN Deletion!ReadOf,
               NEW n \in 0 .. setups, contributor' = [contributor EXCEPT ![w] = [table |-> t, under |-> n]],
               DOMAIN row' = Deletion!Tables, \A u \in Deletion!Tables : RowOfSetup(u)',
               UNCHANGED <<audit, deletion, setups, removed, told, before>>
        PROVE  DeletionInv'
    <2>1. \A k \in DeletionKeys : KeyOK(k)'
      BY <1>2 DEF DeletionInv, KeyOK
    <2>2. \A c \in DeletionCalls : CallOK(c)'
      BY <1>2 DEF DeletionInv, CallOK
    <2>3. DOMAIN contributor' = Contributors /\ \A v \in Contributors : WritesOf(v)'
      BY <1>2 DEF DeletionInv, WritesOf
    <2>. QED  BY <1>2, <2>1, <2>2, <2>3 DEF DeletionInv
  <1>3. ASSUME NEW w \in Contributors, NEW t \in DOMAIN Deletion!ReadOf, Deletion!BeginContribution(w, t)
        PROVE  DeletionInv'
    <2>1. DOMAIN row' = Deletion!Tables /\ \A u \in Deletion!Tables : RowOfSetup(u)'
      BY <1>3 DEF DeletionInv, RowOfSetup, Deletion!BeginContribution, Deletion!CameLate
    <2>2. row[Deletion!ReadOf[t]] \in 0 .. setups
      BY WhatIsRead DEF DeletionInv, RowOfSetup
    <2>. QED  BY <1>2, <1>3, <2>1, <2>2 DEF Deletion!BeginContribution
  <1>4. ASSUME NEW w \in Contributors, Deletion!EndContribution(w)  PROVE DeletionInv'
    <2>. PICK t, n : t = contributor[w].table /\ n = contributor[w].under
      OBVIOUS
    <2>1. t \in DOMAIN Deletion!ReadOf /\ n \in 0 .. setups
      BY <1>4 DEF Deletion!EndContribution, DeletionInv, WritesOf
    <2>2. t \in Deletion!Tables /\ Deletion!ReadOf[t] \in Deletion!Tables
      BY <2>1, WhatIsRead
    <2>3. UNCHANGED <<audit, deletion, setups, removed, told, before>> /\ late \subseteq late'
      BY <1>4 DEF Deletion!EndContribution
    <2>4. DOMAIN row' = Deletion!Tables
      BY <1>4 DEF Deletion!EndContribution, DeletionInv
    <2>5. ASSUME NEW u \in Deletion!Tables  PROVE RowOfSetup(u)'
      <3>1. CASE row'[u] = row[u]
        BY <2>3, <3>1 DEF DeletionInv, RowOfSetup, Deletion!CameLate
      <3>2. CASE row'[u] # row[u]
        <4>1. u = t /\ row'[u] = n /\ (t \in Deletion!Unheld \/ row[Deletion!ReadOf[t]] = n)
          BY <1>4, <3>2 DEF Deletion!EndContribution, DeletionInv
        <4>2. CASE t \in Deletion!Unheld
          <5>1. n <= before => <<t, n>> \in late'
            BY <1>4, <4>2 DEF Deletion!EndContribution
          <5>2. <<t, n>> \in late' => Deletion!CameLate(t, n)'
            BY <4>2 DEF Deletion!Unheld, Deletion!CameLate, Deletion!OnConnection, Deletion!CalendarTables
          <5>. QED  BY <2>1, <2>3, <4>1, <5>1, <5>2 DEF DeletionInv, RowOfSetup, Deletion!CameLate
        <4>3. CASE t \notin Deletion!Unheld
          <5>1. n \in 1 .. before => Deletion!CameLate(Deletion!ReadOf[t], n)
            BY <2>2, <4>1, <4>3 DEF DeletionInv, RowOfSetup
          <5>2. Deletion!CameLate(Deletion!ReadOf[t], n) => Deletion!CameLate(t, n)'
            BY <2>1, <2>3, <4>3, WhatIsRead DEF Deletion!CameLate
          <5>. QED  BY <2>1, <2>3, <4>1, <5>1, <5>2 DEF RowOfSetup, Deletion!CameLate
        <4>. QED  BY <4>2, <4>3
      <3>. QED  BY <3>1, <3>2
    <2>6. contributor' = [contributor EXCEPT ![w] = [table |-> Deletion!NoTable, under |-> Deletion!Nil]]
      BY <1>4 DEF Deletion!EndContribution
    <2>7. Deletion!Nil \in 0 .. setups
      BY DEF DeletionInv, Deletion!Nil
    <2>. QED  BY <1>2, <2>3, <2>4, <2>5, <2>6, <2>7
  <1>5. ASSUME NEW c \in DeletionCalls, NEW next, DOMAIN next = {"stage", "key", "attempt"},
               next.stage = "delete", next.key \in DeletionKeys,
               deletion' = [deletion EXCEPT ![c] = next],
               UNCHANGED <<row, audit, contributor, setups, removed, told, before, late>>
        PROVE  DeletionInv'
    <2>1. DOMAIN deletion' = DeletionCalls /\ \A d \in DeletionCalls : CallOK(d)'
      BY <1>5 DEF DeletionInv, CallOK
    <2>2. \A k \in DeletionKeys : KeyOK(k)'
      BY <1>5 DEF DeletionInv, KeyOK
    <2>. QED  BY <1>5, <2>1, <2>2 DEF DeletionInv, RowOfSetup, WritesOf, Deletion!CameLate
  <1>6. ASSUME NEW c \in DeletionCalls, NEW k \in DeletionKeys, Deletion!Ask(c, k)  PROVE DeletionInv'
    <2>1. CASE audit[k].done
      BY <1>6, <2>1, OverStep DEF Deletion!Ask, Deletion!Answer
    <2>2. CASE ~audit[k].done
      BY <1>5, <1>6, <2>2 DEF Deletion!Ask
    <2>. QED  BY <2>1, <2>2
  <1>7. ASSUME NEW c \in DeletionCalls  PROVE CallOK(c)
    BY DEF DeletionInv
  <1>8. ASSUME NEW c \in DeletionCalls, Deletion!deleteInTransaction(c)  PROVE DeletionInv'
    <2>1. deletion[c].key \in DeletionKeys
      BY <1>7, <1>8 DEF CallOK, Deletion!deleteInTransaction
    <2>2. CASE audit[deletion[c].key].done
      BY <1>8, <2>1, <2>2, OverStep DEF Deletion!deleteInTransaction, Deletion!Answer
    <2>. QED  BY <1>8, <2>2, DeleteStep
  <1>9. ASSUME NEW c \in DeletionCalls, Deletion!StopPrepared(c)  PROVE DeletionInv'
    <2>1. deletion[c].key \in DeletionKeys /\ audit[deletion[c].key].done
      BY <1>7, <1>9 DEF CallOK, Deletion!StopPrepared
    <2>. QED  BY <1>9, <2>1, OverStep DEF Deletion!StopPrepared, Deletion!Answer
  <1>10. ASSUME NEW c \in DeletionCalls, Deletion!Conflict(c)  PROVE DeletionInv'
    <2>1. deletion[c].key \in DeletionKeys
      BY <1>7, <1>10 DEF CallOK, Deletion!Conflict
    <2>2. CASE audit[deletion[c].key].done
      BY <1>10, <2>1, <2>2, OverStep DEF Deletion!Conflict, Deletion!Answer
    <2>3. CASE ~audit[deletion[c].key].done
      <3>1. UNCHANGED <<row, audit, contributor, setups, removed, told, before, late>>
        BY <1>10, <2>3 DEF Deletion!Conflict
      <3>2. CASE deletion[c].attempt < RetryLimit
        <4>1. PICK next : next = [deletion[c] EXCEPT !.attempt = @ + 1]
          OBVIOUS
        <4>2. DOMAIN next = {"stage", "key", "attempt"} /\ next.stage = deletion[c].stage
              /\ next.key = deletion[c].key
          BY <1>7, <4>1 DEF CallOK
        <4>3. deletion' = [deletion EXCEPT ![c] = next] /\ deletion[c].stage = "delete"
          BY <1>10, <2>3, <3>2, <4>1 DEF Deletion!Conflict, DeletionInv
        <4>. QED  BY <1>5, <2>1, <3>1, <4>2, <4>3
      <3>3. CASE ~(deletion[c].attempt < RetryLimit)
        <4>1. deletion' = [deletion EXCEPT ![c] = Deletion!Unasked]
          BY <1>10, <2>3, <3>3 DEF Deletion!Conflict
        <4>. QED  BY <2>1, <3>1, <4>1, OverStep
      <3>. QED  BY <3>2, <3>3
    <2>. QED  BY <2>2, <2>3
  <1>11. ASSUME NEW c \in DeletionCalls, Deletion!Crash(c)  PROVE DeletionInv'
    <2>1. deletion[c].key \in DeletionKeys
      BY <1>7, <1>11 DEF CallOK, Deletion!Crash
    <2>. QED  BY <1>11, <2>1, OverStep DEF Deletion!Crash
  <1>12. CASE UNCHANGED Deletion!deletionVars
    <2>1. UNCHANGED <<row, audit, deletion, contributor, setups, removed, told, before, late>>
      BY <1>12 DEF Deletion!deletionVars
    <2>. QED  BY <2>1 DEF DeletionInv, RowOfSetup, KeyOK, CallOK, WritesOf, Deletion!CameLate
  <1>. QED  BY <1>1, <1>3, <1>4, <1>6, <1>8, <1>9, <1>10, <1>11, <1>12 DEF Deletion!Next

\* A key deletes once, and every answer to it tells how much; nothing the owner had set up
\* before a deletion stays, or comes back with what was under way, except a stay and a
\* connection, with what hangs on it, which no row holds (deletePersonalContext,
\* deleteInTransaction, rebuildCalendarStaysInTransaction, create of a connection).
THEOREM DeletesAsTold == Deletion!Spec => []Deletion!DeletedAsTold
  <1>1. Deletion!Init => DeletionInv
    BY DEF Deletion!Init, DeletionInv, RowOfSetup, WritesOf, KeyOK, CallOK, Deletion!NoAudit,
       Deletion!Unasked, Deletion!Nil
  <1>2. DeletionInv /\ [Deletion!Next]_(Deletion!deletionVars) => DeletionInv'
    BY DeletionStep
  <1>3. DeletionInv => Deletion!DeletedAsTold
    <2>. SUFFICES ASSUME DeletionInv  PROVE Deletion!DeletedAsTold
      OBVIOUS
    <2>1. \A t \in Deletion!Tables : row[t] \in 1 .. before => Deletion!CameLate(t, row[t])
      BY DEF DeletionInv, RowOfSetup
    <2>. QED  BY <2>1 DEF DeletionInv, KeyOK, Deletion!DeletedAsTold
  <1>. QED  BY <1>1, <1>2, <1>3, PTL DEF Deletion!Spec

-----------------------------------------------------------------------------
(* The change of a key.                                                    *)
CONSTANTS Envelopes, Processes, BatchSize, MaxVersion
VARIABLES envelope, keyring, phase, command, written
Keys == INSTANCE KeyRotation

\* A set of numbers has a least one.
LEMMA Earliest ==
    ASSUME NEW T, T \subseteq Nat, T # {}
    PROVE  \E t \in T : \A u \in T : t <= u
  <1>. DEFINE Less == {p \in Nat \X Nat : p[1] < p[2]}
  <1>1. Less = OpToRel(<, Nat)
    BY DEF OpToRel
  <1>2. IsWellFoundedOn(Less, Nat)
    BY <1>1, NatLessThanWellFounded
  <1>3. PICK t \in T : \A u \in T : <<u, t>> \notin Less
    <2>. HIDE DEF Less
    <2>. QED  BY <1>2, WFMin
  <1>4. ASSUME NEW u \in T  PROVE t <= u
    <2>1. <<u, t>> \notin Less /\ u \in Nat /\ t \in Nat
      BY <1>3
    <2>. QED  BY <2>1
  <1>. QED  BY <1>4

KeyConstants ==
    /\ \E n \in Nat : Envelopes = 1 .. n
    /\ BatchSize \in Nat \ {0}

Previous == [old |-> "old", known |-> "old", active |-> "known", done |-> "active"]

FromRow(e) == envelope[e].key = Keys!From

Ids == {r[1] : r \in command.page}

\* A row the command has still to do is on its page, or after it.
PageOK ==
    /\ Ids \subseteq Envelopes
    /\ \A r \in command.page : FromRow(r[1]) => envelope[r[1]].value = r[2]
    /\ \A e \in Envelopes : FromRow(e) =>
          \/ e \in Ids
          \/ ~(Keys!Cardinality(command.page) < BatchSize) /\ \A f \in Ids : f < e
    /\ Keys!Cardinality(command.page) < BatchSize \/ Ids # {}

CommandOK ==
    /\ DOMAIN command = {"stage", "after", "page"}
    /\ command.stage \in {"idle", "find", "replace", "finished"}
    /\ command.after \in Nat
    /\ command.stage # "idle" =>
          phase \in {"active", "done"} /\ \A p \in Processes : keyring[p].active = Keys!To
    /\ command.stage \in {"find", "replace"} =>
          \A e \in Envelopes : FromRow(e) => e > command.after
    /\ command.stage = "replace" => PageOK
    /\ command.stage = "finished" => Keys!NoneLeft

RowsOK ==
    /\ DOMAIN envelope = Envelopes /\ DOMAIN written = Envelopes
    /\ \A e \in Envelopes : /\ envelope[e].key \in {Keys!From, Keys!To}
                            /\ envelope[e].value = written[e]

RingsOK ==
    /\ DOMAIN keyring = Processes
    /\ \A p \in Processes : keyring[p] \in {Keys!Ring(phase), Keys!Ring(Previous[phase])}

KeysInv ==
    /\ phase \in {"old", "known", "active", "done"}
    /\ phase \in {"old", "known"} => command.stage = "idle" /\ \A e \in Envelopes : FromRow(e)
    /\ phase = "done" => command.stage = "finished"
    /\ RowsOK /\ RingsOK /\ CommandOK

\* The keys a process has in each phase.
LEMMA RingOf ==
    /\ Keys!Ring("old") = [keys |-> {1}, active |-> 1]
    /\ Keys!Ring("known") = [keys |-> {1, 2}, active |-> 1]
    /\ Keys!Ring("active") = [keys |-> {1, 2}, active |-> 2]
    /\ Keys!Ring("done") = [keys |-> {2}, active |-> 2]
    /\ Keys!From = 1 /\ Keys!To = 2
  BY DEF Keys!Ring, Keys!From, Keys!To

\* The module counts as the library does.
LEMMA SameCardinality == \A S : Keys!Cardinality(S) = Cardinality(S)
  BY DEF Keys!Cardinality, Cardinality

\* A page of rows: the first ones, all of them if they are fewer than a page may have.
LEMMA FirstRows ==
    ASSUME NEW rows \in SUBSET Nat, IsFiniteSet(rows), NEW B \in Nat \ {0}, NEW first,
           first = {e \in rows : Keys!Below(e, rows) < B}
    PROVE  /\ \A e \in rows \ first, f \in first : f < e
           /\ Cardinality(first) < B => first = rows
           /\ IsFiniteSet(first)
  <1>1. ASSUME NEW e \in rows
        PROVE  /\ IsFiniteSet({f \in rows : f < e})
               /\ Cardinality({f \in rows : f < e}) \in Nat
               /\ Keys!Below(e, rows) = Cardinality({f \in rows : f < e})
    <2>1. {f \in rows : f < e} \in SUBSET rows
      OBVIOUS
    <2>2. IsFiniteSet({f \in rows : f < e})
      BY <2>1, FS_Subset
    <2>. QED  BY <2>2, FS_CardinalityType, SameCardinality DEF Keys!Below
  <1>2. ASSUME NEW e \in rows \ first, NEW f \in first  PROVE f < e
    <2>1. f # e /\ f \in rows /\ f \in Nat /\ e \in Nat
      OBVIOUS
    <2>2. Keys!Below(f, rows) < B /\ ~(Keys!Below(e, rows) < B)
      OBVIOUS
    <2>3. SUFFICES ASSUME e < f  PROVE FALSE
      BY <2>1
    <2>6. \A g \in rows : g < e => g < f
      BY <2>1, <2>3
    <2>4. {g \in rows : g < e} \in SUBSET {g \in rows : g < f}
      BY <2>6
    <2>5. Cardinality({g \in rows : g < e}) <= Cardinality({g \in rows : g < f})
      BY <1>1, <2>1, <2>4, FS_Subset
    <2>. QED  BY <1>1, <2>1, <2>2, <2>5
  <1>3. first \in SUBSET rows /\ IsFiniteSet(first) /\ Cardinality(first) \in Nat
    <2>1. first \in SUBSET rows
      OBVIOUS
    <2>. QED  BY <2>1, FS_Subset, FS_CardinalityType
  <1>4. ASSUME Cardinality(first) < B, rows \ first # {}  PROVE FALSE
    <2>1. PICK e \in rows \ first : \A f \in rows \ first : e <= f
      BY <1>4, Earliest
    <2>5. ASSUME NEW f \in rows, f < e  PROVE f \in first
      BY <2>1, <2>5
    <2>2. {f \in rows : f < e} \in SUBSET first
      BY <2>5
    <2>3. Cardinality({f \in rows : f < e}) <= Cardinality(first)
      BY <1>3, <2>2, FS_Subset
    <2>4. Keys!Below(e, rows) < B
      BY <1>1, <1>3, <1>4, <2>3
    <2>. QED  BY <2>1, <2>4
  <1>. QED  BY <1>2, <1>3, <1>4

\* A page has as many entries as rows.
LEMMA PageSize ==
    ASSUME NEW first, IsFiniteSet(first), NEW rows,
           NEW page, page = {<<e, rows[e].value>> : e \in first}
    PROVE  Keys!Cardinality(page) = Cardinality(first)
  <1>. DEFINE entry == [e \in first |-> <<e, rows[e].value>>]
  <1>1. entry \in Bijection(first, page)
    <2>1. entry \in [first -> page] /\ \A r \in page : \E e \in first : entry[e] = r
      OBVIOUS
    <2>2. \A d, e \in first : entry[d] = entry[e] => d = e
      OBVIOUS
    <2>. HIDE DEF entry
    <2>. QED  BY <2>1, <2>2 DEF Bijection, Injection, Surjection, IsInjective
  <1>. QED  BY <1>1, FS_Bijection, SameCardinality DEF ExistsBijection

\* The last row of a page.
LEMMA LastOf ==
    ASSUME NEW n \in Nat, NEW ids \in SUBSET (1 .. n), ids # {}
    PROVE  \E e \in ids : \A f \in ids : f <= e
  <1>. DEFINE Bounds == {u \in Nat : \A f \in ids : f <= u}
  <1>1. n \in Bounds
    OBVIOUS
  <1>2. PICK u \in Bounds : \A v \in Bounds : u <= v
    BY <1>1, Earliest
  <1>3. u \in ids
    <2>. SUFFICES ASSUME u \notin ids  PROVE FALSE
      OBVIOUS
    <2>3. ids \subseteq Nat \ {0}
      OBVIOUS
    <2>0. PICK f \in ids : f \in Nat \ {0}
      BY <2>3
    <2>1. f <= u /\ f \in Nat \ {0}
      BY <1>2, <2>0
    <2>2. u - 1 \in Nat /\ \A g \in ids : g <= u - 1
      BY <1>2, <2>1
    <2>. QED  BY <1>2, <2>0, <2>2
  <1>. QED  BY <1>2, <1>3

\* What the rows may do while the command is at work: none takes the old key again.
OnlyReplaced ==
    \A e \in Envelopes : FromRow(e)' => FromRow(e) /\ envelope'[e] = envelope[e]

\* A page stays right while nobody writes under the old key.
LEMMA CommandKept ==
    ASSUME CommandOK, command' = command, command.stage # "idle" => OnlyReplaced,
           command.stage # "idle" =>
               phase' \in {"active", "done"} /\ \A p \in Processes : keyring'[p].active = Keys!To
    PROVE  CommandOK'
  <1>1. ASSUME command.stage = "replace"  PROVE PageOK'
    <2>1. PageOK /\ Ids' = Ids /\ OnlyReplaced
      BY <1>1 DEF CommandOK, Ids
    <2>2. \A r \in command.page : r[1] \in Envelopes
      BY <2>1 DEF PageOK, Ids
    <2>3. \A r \in command.page : FromRow(r[1])' => envelope'[r[1]].value = r[2]
      BY <2>1, <2>2 DEF PageOK, OnlyReplaced
    <2>. QED  BY <2>1, <2>3 DEF PageOK, OnlyReplaced
  <1>2. ASSUME command.stage = "finished"  PROVE Keys!NoneLeft'
    BY <1>2 DEF CommandOK, OnlyReplaced, Keys!NoneLeft, FromRow
  <1>3. ASSUME command.stage \in {"find", "replace"}
        PROVE  \A e \in Envelopes : FromRow(e)' => e > command.after
    BY <1>3 DEF CommandOK, OnlyReplaced
  <1>. QED  BY <1>1, <1>2, <1>3 DEF CommandOK

\* A process writes under a key that every process has.
LEMMA WriteStep ==
    ASSUME KeysInv, NEW p \in Processes, NEW e \in Envelopes, Keys!Write(p, e)
    PROVE  KeysInv'
  <1>1. PICK key : key = keyring[p].active
    OBVIOUS
  <1>2. UNCHANGED <<keyring, phase, command>>
    BY DEF Keys!Write
  <1>3. /\ DOMAIN envelope' = Envelopes /\ DOMAIN written' = Envelopes
        /\ envelope'[e].key = key /\ envelope'[e].value = written'[e]
        /\ \A d \in Envelopes \ {e} : envelope'[d] = envelope[d] /\ written'[d] = written[d]
    BY <1>1 DEF Keys!Write, KeysInv, RowsOK
  <1>4. phase \in {"old", "known"} => key = Keys!From
    BY <1>1, RingOf DEF KeysInv, RingsOK, Previous
  <1>5. key \in {Keys!From, Keys!To}
    BY <1>1, RingOf DEF KeysInv, RingsOK, Previous
  <1>6. command.stage # "idle" => key = Keys!To
    BY <1>1 DEF KeysInv, CommandOK
  <1>7. RowsOK'
    BY <1>3, <1>5 DEF RowsOK, KeysInv
  <1>8. command.stage # "idle" => OnlyReplaced
    BY <1>3, <1>6, RingOf DEF OnlyReplaced, FromRow
  <1>9. CommandOK'
    BY <1>2, <1>8, CommandKept DEF KeysInv, CommandOK
  <1>10. phase \in {"old", "known"} => \A d \in Envelopes : FromRow(d)'
    BY <1>3, <1>4 DEF KeysInv, FromRow
  <1>. QED  BY <1>2, <1>7, <1>9, <1>10 DEF KeysInv, RingsOK

\* The operator restarts processes and goes on to the next phase when all have its keys.
LEMMA OperatorStep ==
    ASSUME KeysInv, Keys!NextPhase \/ \E p \in Processes : Keys!Restart(p)
    PROVE  KeysInv'
  <1>1. ASSUME NEW p \in Processes, Keys!Restart(p)  PROVE KeysInv'
    <2>1. UNCHANGED <<envelope, phase, command, written>>
      BY <1>1 DEF Keys!Restart
    <2>2. /\ DOMAIN keyring' = Processes /\ keyring'[p] = Keys!Ring(phase)
          /\ \A q \in Processes \ {p} : keyring'[q] = keyring[q]
      BY <1>1 DEF Keys!Restart, KeysInv, RingsOK
    <2>3. RingsOK'
      BY <2>1, <2>2 DEF RingsOK, KeysInv
    <2>4. command.stage # "idle" => \A q \in Processes : keyring'[q].active = Keys!To
      BY <2>2, RingOf DEF KeysInv, CommandOK
    <2>5. OnlyReplaced
      BY <2>1 DEF OnlyReplaced, FromRow
    <2>6. CommandOK'
      BY <2>1, <2>4, <2>5, CommandKept DEF KeysInv, CommandOK
    <2>. QED  BY <2>1, <2>3, <2>6 DEF KeysInv, RowsOK, FromRow
  <1>2. ASSUME Keys!NextPhase  PROVE KeysInv'
    <2>1. UNCHANGED <<envelope, keyring, command, written>> /\ phase' = Keys!Following[phase]
          /\ \A p \in Processes : keyring[p] = Keys!Ring(phase)
      BY <1>2 DEF Keys!NextPhase, Keys!AllStartedWith
    <2>2. phase \in {"old", "known", "active"}
      BY <1>2 DEF KeysInv, Keys!NextPhase
    <2>3. phase' \in {"known", "active", "done"} /\ Previous[phase'] = phase
          /\ (phase = "active" <=> phase' = "done") /\ (phase = "old" <=> phase' = "known")
      BY <2>1, <2>2 DEF Keys!Following, Previous
    <2>4. phase = "active" => command.stage = "finished"
      BY <1>2 DEF Keys!NextPhase
    <2>5. RingsOK'
      BY <2>1, <2>3 DEF RingsOK, KeysInv
    <2>6. OnlyReplaced
      BY <2>1 DEF OnlyReplaced, FromRow
    <2>7. command.stage # "idle" => phase' = "done"
      BY <2>2, <2>3 DEF KeysInv
    <2>8. CommandOK'
      BY <2>1, <2>6, <2>7, CommandKept DEF KeysInv, CommandOK
    <2>9. phase' = "known" => command.stage = "idle" /\ \A e \in Envelopes : FromRow(e)'
      BY <2>1, <2>2, <2>3 DEF KeysInv, FromRow
    <2>. QED  BY <2>1, <2>3, <2>4, <2>5, <2>8, <2>9 DEF KeysInv, RowsOK
  <1>. QED  BY <1>1, <1>2

\* The page that is found is the first of what is left.
LEMMA FindStep ==
    ASSUME KeyConstants, KeysInv, Keys!FindPage
    PROVE  CommandOK'
  <1>1. PICK n \in Nat : Envelopes = 1 .. n
    BY DEF KeyConstants
  <1>2. BatchSize \in Nat \ {0}
    BY DEF KeyConstants
  <1>3. PICK first : first = {e \in Keys!FromRows : Keys!Below(e, Keys!FromRows) < BatchSize}
    OBVIOUS
  <1>4. PICK page : page = {<<e, envelope[e].value>> : e \in first}
    OBVIOUS
  <1>5. command' = [command EXCEPT !.stage = "replace", !.page = page] /\ command.stage = "find"
    BY <1>3, <1>4 DEF Keys!FindPage
  <1>6. /\ DOMAIN command' = DOMAIN command /\ command'.stage = "replace" /\ command'.page = page
        /\ command'.after = command.after /\ UNCHANGED <<envelope, keyring, phase>>
    BY <1>5 DEF KeysInv, CommandOK, Keys!FindPage
  <1>7. Keys!FromRows \in SUBSET Nat /\ IsFiniteSet(Keys!FromRows)
    <2>1. Keys!FromRows \in SUBSET (1 .. n)
      BY <1>1 DEF Keys!FromRows
    <2>2. IsFiniteSet(1 .. n)
      BY FS_Interval
    <2>3. Keys!FromRows \in SUBSET Nat
      BY <1>1 DEF Keys!FromRows
    <2>. QED  BY <2>1, <2>2, <2>3, FS_Subset
  <1>8. /\ \A e \in Keys!FromRows \ first, f \in first : f < e
        /\ Cardinality(first) < BatchSize => first = Keys!FromRows
        /\ IsFiniteSet(first)
    BY <1>2, <1>3, <1>7, FirstRows
  <1>9. Keys!Cardinality(page) = Cardinality(first)
    BY <1>4, <1>8, PageSize
  <1>10. Ids' = first
    <2>1. Ids' = {r[1] : r \in page}
      BY <1>6 DEF Ids
    <2>2. \A r \in page : r[1] \in first
      BY <1>4
    <2>3. \A e \in first : <<e, envelope[e].value>> \in page /\ <<e, envelope[e].value>>[1] = e
      BY <1>4
    <2>. QED  BY <2>1, <2>2, <2>3
  <1>11. first \subseteq Keys!FromRows /\ Keys!FromRows \subseteq Envelopes
    BY <1>3 DEF Keys!FromRows
  <1>12. \A e \in Envelopes : FromRow(e) => e \in Keys!FromRows
    BY <1>5 DEF KeysInv, CommandOK, FromRow, Keys!FromRows
  <1>13. \A r \in page : r[2] = envelope[r[1]].value
    BY <1>4
  <1>14. ASSUME NEW e \in Envelopes, FromRow(e), e \notin first
         PROVE  ~(Keys!Cardinality(page) < BatchSize) /\ \A f \in first : f < e
    BY <1>8, <1>9, <1>12, <1>14
  <1>15. Keys!Cardinality(page) < BatchSize \/ first # {}
    BY <1>2, <1>9, FS_EmptySet
  <1>16. PageOK'
    BY <1>6, <1>10, <1>11, <1>13, <1>14, <1>15 DEF PageOK, FromRow
  <1>17. \A e \in Envelopes : FromRow(e)' => e > command'.after
    BY <1>5, <1>6 DEF KeysInv, CommandOK, FromRow
  <1>. QED  BY <1>5, <1>6, <1>16, <1>17 DEF KeysInv, CommandOK

\* A row of the page is replaced if it is still what was read.
LEMMA ReplaceStep ==
    ASSUME KeyConstants, KeysInv, Keys!CompareAndSet
    PROVE  RowsOK' /\ CommandOK'
  <1>. DEFINE page == command.page
  <1>1. PICK n \in Nat : Envelopes = 1 .. n
    BY DEF KeyConstants
  <1>2. command.stage = "replace" /\ PageOK /\ UNCHANGED <<keyring, phase, written>>
    BY DEF KeysInv, CommandOK, Keys!CompareAndSet
  <1>3. envelope' = [e \in Envelopes |->
            IF e \in Ids /\ FromRow(e)
            THEN [value |-> (CHOOSE r \in page : r[1] = e)[2], key |-> Keys!To] ELSE envelope[e]]
    BY DEF Keys!CompareAndSet, Keys!Unchanged, Ids, FromRow
  <1>4. ASSUME NEW e \in Ids, FromRow(e)
        PROVE  (CHOOSE r \in page : r[1] = e)[2] = envelope[e].value
    <2>1. (CHOOSE r \in page : r[1] = e) \in page /\ (CHOOSE r \in page : r[1] = e)[1] = e
      BY DEF Ids
    <2>. QED  BY <1>2, <1>4, <2>1 DEF PageOK
  <1>5. ASSUME NEW e \in Envelopes
        PROVE  /\ envelope'[e].key \in {Keys!From, Keys!To}
               /\ envelope'[e].value = written[e]
               /\ FromRow(e)' => FromRow(e) /\ e \notin Ids
    <2>1. envelope[e].key \in {Keys!From, Keys!To} /\ envelope[e].value = written[e]
      BY DEF KeysInv, RowsOK
    <2>2. CASE e \in Ids /\ FromRow(e)
      <3>1. envelope'[e].key = Keys!To /\ envelope'[e].value = envelope[e].value
        BY <1>3, <1>4, <2>2
      <3>. QED  BY <2>1, <3>1, RingOf DEF FromRow
    <2>3. CASE ~(e \in Ids /\ FromRow(e))
      <3>1. envelope'[e] = envelope[e]
        BY <1>3, <2>3
      <3>. QED  BY <2>1, <2>3, <3>1 DEF FromRow
    <2>. QED  BY <2>2, <2>3
  <1>6. RowsOK'
    BY <1>2, <1>3, <1>5 DEF RowsOK, KeysInv
  <1>7. \A p \in Processes : keyring'[p].active = Keys!To
    BY <1>2 DEF KeysInv, CommandOK
  <1>8. phase' \in {"active", "done"}
    BY <1>2 DEF KeysInv, CommandOK
  <1>9. CASE Keys!Cardinality(page) < BatchSize
    <2>1. command' = [command EXCEPT !.stage = "finished", !.page = {}]
      BY <1>9 DEF Keys!CompareAndSet
    <2>2. DOMAIN command' = DOMAIN command /\ command'.stage = "finished"
          /\ command'.after = command.after
      BY <2>1 DEF KeysInv, CommandOK
    <2>3. Keys!NoneLeft'
      BY <1>2, <1>5, <1>9 DEF PageOK, Keys!NoneLeft, FromRow
    <2>. QED  BY <1>6, <1>7, <1>8, <2>2, <2>3 DEF CommandOK, KeysInv
  <1>10. CASE ~(Keys!Cardinality(page) < BatchSize)
    <2>1. PICK last : last = (CHOOSE e \in Ids : \A f \in Ids : f <= e)
      OBVIOUS
    <2>2. command' = [stage |-> "find", page |-> {}, after |-> last]
      BY <1>10, <2>1 DEF Keys!CompareAndSet, Ids
    <2>3. Ids \in SUBSET (1 .. n) /\ Ids # {}
      BY <1>1, <1>2, <1>10 DEF PageOK
    <2>4. last \in Ids /\ last \in Nat
      <3>1. \E e \in Ids : \A f \in Ids : f <= e
        BY <2>3, LastOf
      <3>2. last \in Ids
        BY <2>1, <3>1
      <3>. QED  BY <2>3, <3>2
    <2>5. ASSUME NEW e \in Envelopes, FromRow(e)'  PROVE e > last
      <3>1. last < e /\ e \in Nat
        BY <1>1, <1>2, <1>5, <2>4, <2>5 DEF PageOK
      <3>. QED  BY <2>4, <3>1
    <2>. QED  BY <1>6, <1>7, <1>8, <2>2, <2>4, <2>5 DEF CommandOK
  <1>. QED  BY <1>6, <1>9, <1>10

\* Every step keeps the invariant of the keys.
LEMMA KeysStep ==
    ASSUME KeyConstants, KeysInv, [Keys!Next]_(Keys!keyVars)
    PROVE  KeysInv'
  <1>1. ASSUME phase \in {"active", "done"}, UNCHANGED <<keyring, phase>>, RowsOK', CommandOK',
               phase = "done" => command'.stage = "finished"
        PROVE  KeysInv'
    BY <1>1 DEF KeysInv, RingsOK
  <1>2. command.stage # "idle" => phase \in {"active", "done"}
    BY DEF KeysInv, CommandOK
  <1>3. ASSUME command' = [Keys!Stopped EXCEPT !.stage = "find"] \/ command' = Keys!Stopped,
               UNCHANGED <<envelope, keyring, phase, written>>,
               phase = "active", command'.stage # "idle" => Keys!AllStartedWith(Keys!Ring("active"))
        PROVE  KeysInv'
    <2>1. /\ DOMAIN command' = {"stage", "after", "page"} /\ command'.after = 0
          /\ command'.stage \in {"idle", "find"}
      BY <1>3 DEF Keys!Stopped
    <2>2. command'.stage # "idle" => \A p \in Processes : keyring'[p].active = Keys!To
      BY <1>3, RingOf DEF Keys!AllStartedWith
    <2>3. \A e \in Envelopes : e > 0
      BY DEF KeyConstants
    <2>4. CommandOK'
      BY <1>3, <2>1, <2>2, <2>3 DEF CommandOK
    <2>. QED  BY <1>1, <1>3, <2>4 DEF KeysInv, RowsOK
  <1>4. ASSUME Keys!Start  PROVE KeysInv'
    BY <1>3, <1>4 DEF Keys!Start
  <1>5. ASSUME Keys!FindPage  PROVE KeysInv'
    <2>1. CommandOK' /\ phase = "active"
      BY <1>2, <1>5, FindStep DEF Keys!FindPage, KeysInv
    <2>. QED  BY <1>1, <1>5, <2>1 DEF Keys!FindPage, KeysInv, RowsOK
  <1>6. ASSUME Keys!CompareAndSet  PROVE KeysInv'
    <2>1. phase = "active"
      BY <1>2, <1>6 DEF Keys!CompareAndSet, KeysInv
    <2>. QED  BY <1>1, <1>6, <2>1, ReplaceStep DEF Keys!CompareAndSet
  <1>7. ASSUME Keys!Interrupt  PROVE KeysInv'
    <2>1. phase = "active" /\ Keys!Stopped.stage = "idle"
      BY <1>2, <1>7 DEF Keys!Interrupt, Keys!Stopped
    <2>. QED  BY <1>3, <1>7, <2>1 DEF Keys!Interrupt
  <1>8. CASE UNCHANGED Keys!keyVars
    <2>1. UNCHANGED <<envelope, keyring, phase, command, written>>
      BY <1>8 DEF Keys!keyVars
    <2>2. CommandOK'
      BY <2>1, CommandKept DEF KeysInv, CommandOK, OnlyReplaced, FromRow
    <2>. QED  BY <2>1, <2>2 DEF KeysInv, RowsOK, RingsOK, FromRow
  <1>. QED  BY <1>4, <1>5, <1>6, <1>7, <1>8, WriteStep, OperatorStep DEF Keys!Next

\* While the key is changed every row can be read by every process and has the value that was
\* written last, and a command that finishes leaves no row behind, however often it dies
\* (rekey-personal-data.ts, PersonalDataCipherService).
THEOREM KeysChangeReadably ==
    ASSUME KeyConstants
    PROVE  Keys!Spec => []Keys!ReadableThroughout
  <1>1. Keys!Init => KeysInv
    <2>. SUFFICES ASSUME Keys!Init  PROVE KeysInv
      OBVIOUS
    <2>1. CommandOK
      BY DEF Keys!Init, CommandOK, Keys!Stopped
    <2>2. RowsOK /\ RingsOK
      BY DEF Keys!Init, RowsOK, RingsOK
    <2>. QED  BY <2>1, <2>2 DEF Keys!Init, KeysInv, FromRow, Keys!Stopped
  <1>2. KeysInv /\ [Keys!Next]_(Keys!keyVars) => KeysInv'
    BY KeysStep
  <1>3. KeysInv => Keys!ReadableThroughout
    <2>. SUFFICES ASSUME KeysInv, NEW e \in Envelopes, NEW p \in Processes
         PROVE  envelope[e].key \in keyring[p].keys
      BY DEF KeysInv, RowsOK, CommandOK, Keys!ReadableThroughout
    <2>1. /\ keyring[p] \in {Keys!Ring(phase), Keys!Ring(Previous[phase])}
          /\ envelope[e].key \in {1, 2}
      BY RingOf DEF KeysInv, RingsOK, RowsOK
    <2>2. CASE phase \in {"old", "known"}
      BY <2>1, <2>2, RingOf DEF KeysInv, FromRow, Previous
    <2>3. CASE phase = "active"
      BY <2>1, <2>3, RingOf DEF Previous
    <2>4. CASE phase = "done"
      <3>1. envelope[e].key = 2
        BY <2>1, <2>4, RingOf DEF KeysInv, CommandOK, Keys!NoneLeft
      <3>. QED  BY <2>1, <2>4, <3>1, RingOf DEF Previous
    <2>. QED  BY <2>2, <2>3, <2>4 DEF KeysInv
  <1>. QED  BY <1>1, <1>2, <1>3, PTL DEF Keys!Spec

-----------------------------------------------------------------------------
(* Calls of agents.  What a call asks for is fixed when it is found, so    *)
(* that the records and changes that refer to applied calls say for ever   *)
(* what they were made for; and a record outlives every change under its   *)
(* key by the life of a key.                                               *)
CONSTANTS Tools, Granted, ToolCalls, ToolKeys, Inputs, MaxCredentials, KeyTTL, MaxToolClock
VARIABLES clientStatus, credential, toolCall, keyRecord, applied, changed, auditLog, toolClock
Calls == INSTANCE AgentTools

CallFields == {"phase", "tool", "key", "input", "credential", "now", "outcome", "answer"}
Credential == [revoked : BOOLEAN, expiresAt : Nat]

\* A call for the same was applied.
Done(tool, key, input) ==
    \E d \in applied : /\ toolCall[d].tool = tool /\ toolCall[d].key = key
                       /\ toolCall[d].input = input

\* What may be said of a call in a phase, given what it is known to ask for.
Sound(call) ==
    /\ DOMAIN call = CallFields
    /\ call.phase \in Calls!Phases
    /\ call.phase # "new" /\ call.tool \notin Calls!ReadTools =>
          call.tool \in Tools /\ call.key \in ToolKeys
    /\ call.answer = "ok" /\ call.tool \notin Calls!ReadTools => Done(call.tool, call.key, call.input)
    /\ call.phase \in {"committed", "replayed"} => Done(call.tool, call.key, call.input)
    /\ call.phase = "failed" => call.outcome \in Calls!Errors
    /\ call.phase = "new" => call.answer = "none"

RecordSound(s) ==
    /\ DOMAIN keyRecord[s] = {"by", "until"}
    /\ keyRecord[s].until \in Nat
    /\ \A d \in keyRecord[s].by : d \in applied /\ Calls!Slot(d) = s

ChangeSound(x) ==
    /\ DOMAIN x = {"call", "at"}
    /\ x.call \in applied
    /\ Calls!Slot(x.call) \in Tools \X ToolKeys
    /\ x.at \in Nat /\ x.at <= toolClock
    /\ keyRecord[Calls!Slot(x.call)].until >= x.at + KeyTTL

Succeeded == {x.call : x \in {x \in auditLog : x.outcome = "succeeded" /\ ~x.replayed}}

\* Changes under one key are as far apart as the life of a key, and different for the domain.
FarApart(x, y) ==
    x.call # y.call /\ Calls!Slot(x.call) = Calls!Slot(y.call) /\ x.at <= y.at =>
        /\ y.at >= x.at + KeyTTL
        /\ toolCall[x.call].tool \in Calls!DomainKeyed =>
              toolCall[x.call].input # toolCall[y.call].input

CallsInv ==
    /\ DOMAIN toolCall = ToolCalls /\ \A c \in ToolCalls : Sound(toolCall[c])
    /\ applied \subseteq ToolCalls
    /\ \A c \in applied : toolCall[c].phase \in {"committed", "done"}
    /\ DOMAIN keyRecord = Tools \X ToolKeys /\ \A s \in Tools \X ToolKeys : RecordSound(s)
    /\ \A x \in changed : ChangeSound(x)
    /\ \A x, y \in changed : FarApart(x, y)
    /\ Succeeded = applied
    /\ toolClock \in Nat

CredentialsInv ==
    /\ credential \in Seq(Credential)
    /\ clientStatus \in {"active", "revoked"}
    /\ \A i, j \in DOMAIN credential : Calls!Valid(i) /\ Calls!Valid(j) => i = j
    /\ clientStatus = "active" <=> \E i \in DOMAIN credential : Calls!Valid(i)

\* A step of a call that commits nothing.
LEMMA CallStep ==
    ASSUME CallsInv, NEW c \in ToolCalls, NEW next, toolCall' = [toolCall EXCEPT ![c] = next],
           UNCHANGED <<keyRecord, applied, changed, toolClock>>, Succeeded' = Succeeded,
           Sound(next),
           c \in applied => /\ next.phase \in {"committed", "done"} /\ next.tool = toolCall[c].tool
                            /\ next.key = toolCall[c].key /\ next.input = toolCall[c].input
    PROVE  CallsInv'
  <1>1. /\ DOMAIN toolCall' = ToolCalls /\ toolCall'[c] = next
        /\ \A b \in ToolCalls \ {c} : toolCall'[b] = toolCall[b]
    BY DEF CallsInv
  <1>2. applied' = applied /\ applied \subseteq ToolCalls /\ keyRecord' = keyRecord
        /\ changed' = changed /\ toolClock' = toolClock
    BY DEF CallsInv
  <1>3. ASSUME NEW d \in applied
        PROVE  /\ toolCall'[d].tool = toolCall[d].tool /\ toolCall'[d].key = toolCall[d].key
               /\ toolCall'[d].input = toolCall[d].input /\ Calls!Slot(d)' = Calls!Slot(d)
    BY <1>1, <1>2 DEF Calls!Slot
  <1>4. ASSUME NEW tool, NEW key, NEW input, Done(tool, key, input)
        PROVE  Done(tool, key, input)'
    BY <1>2, <1>3, <1>4 DEF Done
  <1>5. ASSUME NEW b \in ToolCalls  PROVE Sound(toolCall[b])'
    <2>1. Sound(toolCall'[b])
      BY <1>1 DEF CallsInv
    <2>. QED  BY <1>4, <2>1 DEF Sound
  <1>6. \A b \in applied : toolCall'[b].phase \in {"committed", "done"}
    BY <1>1, <1>2 DEF CallsInv
  <1>7. \A s \in Tools \X ToolKeys : RecordSound(s)'
    BY <1>2, <1>3 DEF CallsInv, RecordSound
  <1>8. \A x \in changed : ChangeSound(x)'
    BY <1>2, <1>3 DEF CallsInv, ChangeSound
  <1>9. ASSUME NEW x \in changed, NEW y \in changed  PROVE FarApart(x, y)'
    BY <1>2, <1>3 DEF CallsInv, ChangeSound, FarApart
  <1>. QED  BY <1>1, <1>2, <1>5, <1>6, <1>7, <1>8, <1>9 DEF CallsInv

\* What a step that commits nothing may make of a call that was found.
Follows(c, next) ==
    /\ DOMAIN next = CallFields
    /\ next.tool = toolCall[c].tool /\ next.key = toolCall[c].key /\ next.input = toolCall[c].input
    /\ next.phase \in Calls!Phases \ {"new"}
    /\ c \in applied => next.phase \in {"committed", "done"}
    /\ \/ next.answer = toolCall[c].answer \/ next.answer # "ok"
       \/ toolCall[c].tool \in Calls!ReadTools \/ toolCall[c].phase \in {"committed", "replayed"}
    /\ next.phase \in {"committed", "replayed"}
          => Done(toolCall[c].tool, toolCall[c].key, toolCall[c].input)
    /\ next.phase = "failed" => next.outcome \in Calls!Errors

\* A step that changes one call, and commits nothing.
LEMMA FollowingStep ==
    ASSUME CallsInv, NEW c \in ToolCalls, NEW next, toolCall[c].phase # "new", Follows(c, next),
           toolCall' = [toolCall EXCEPT ![c] = next],
           UNCHANGED <<keyRecord, applied, changed, toolClock>>, Succeeded' = Succeeded
    PROVE  CallsInv'
  <1>1. Sound(toolCall[c])
    BY DEF CallsInv
  <1>2. Sound(next)
    BY <1>1 DEF Sound, Follows
  <1>3. c \in applied => /\ next.phase \in {"committed", "done"} /\ next.tool = toolCall[c].tool
                         /\ next.key = toolCall[c].key /\ next.input = toolCall[c].input
    BY DEF Follows
  <1>. QED  BY <1>2, <1>3, CallStep

\* A commit.  The call had not been applied, and whatever changed under its key before has
\* outlived its record.
LEMMA CommitStep ==
    ASSUME CallsInv, KeyTTL \in Nat \ {0}, NEW c \in ToolCalls, Calls!Commit(c)
    PROVE  CallsInv'
  <1>1. PICK next : next = [toolCall[c] EXCEPT !.phase = "committed"]
    OBVIOUS
  <1>2. Sound(toolCall[c]) /\ toolCall[c].phase = "handling" /\ toolCall[c].tool \notin Calls!ReadTools
    BY DEF CallsInv, Calls!Commit
  <1>3. /\ DOMAIN next = CallFields /\ next.phase = "committed" /\ next.tool = toolCall[c].tool
        /\ next.key = toolCall[c].key /\ next.input = toolCall[c].input
        /\ next.outcome = toolCall[c].outcome /\ next.answer = toolCall[c].answer
    BY <1>1, <1>2 DEF Sound, CallFields
  <1>4. toolCall' = [toolCall EXCEPT ![c] = next] /\ toolClock' = toolClock
    BY <1>1 DEF CallsInv, Calls!Commit, Calls!To
  <1>5. /\ DOMAIN toolCall' = ToolCalls /\ toolCall'[c] = next
        /\ \A b \in ToolCalls \ {c} : toolCall'[b] = toolCall[b]
    BY <1>4 DEF CallsInv
  <1>6. c \notin applied /\ applied' = applied \cup {c} /\ applied \subseteq ToolCalls
    BY <1>2 DEF CallsInv, Calls!Commit
  <1>7. ASSUME NEW d \in ToolCalls
        PROVE  /\ toolCall'[d].tool = toolCall[d].tool /\ toolCall'[d].key = toolCall[d].key
               /\ toolCall'[d].input = toolCall[d].input /\ Calls!Slot(d)' = Calls!Slot(d)
    BY <1>3, <1>5 DEF Calls!Slot
  <1>8. ASSUME NEW tool, NEW key, NEW input, Done(tool, key, input)
        PROVE  Done(tool, key, input)'
    BY <1>6, <1>7, <1>8 DEF Done
  <1>9. ASSUME NEW b \in ToolCalls  PROVE Sound(toolCall[b])'
    <2>1. CASE b = c
      <3>1. Done(next.tool, next.key, next.input)'
        BY <1>3, <1>5, <1>6 DEF Done
      <3>2. next.tool \in Tools /\ next.key \in ToolKeys
        BY <1>2, <1>3 DEF Sound
      <3>. QED  BY <1>3, <1>5, <2>1, <3>1, <3>2 DEF Sound, Calls!Phases
    <2>2. CASE b # c
      <3>1. Sound(toolCall[b]) /\ toolCall'[b] = toolCall[b]
        BY <1>5, <2>2 DEF CallsInv
      <3>. QED  BY <1>8, <3>1 DEF Sound
    <2>. QED  BY <2>1, <2>2
  <1>10. Calls!Slot(c) \in Tools \X ToolKeys
    BY <1>2 DEF Sound, Calls!Slot
  <1>11. PICK record : record = [by |-> {c}, until |-> toolClock + KeyTTL]
    OBVIOUS
  <1>12. /\ DOMAIN keyRecord' = Tools \X ToolKeys /\ keyRecord'[Calls!Slot(c)] = record
         /\ \A s \in (Tools \X ToolKeys) \ {Calls!Slot(c)} : keyRecord'[s] = keyRecord[s]
    BY <1>10, <1>11 DEF CallsInv, Calls!Commit
  <1>13. toolClock \in Nat /\ KeyTTL \in Nat \ {0}
    BY DEF CallsInv
  <1>14. ASSUME NEW s \in Tools \X ToolKeys  PROVE RecordSound(s)'
    <2>1. CASE s = Calls!Slot(c)
      BY <1>6, <1>7, <1>11, <1>12, <1>13, <2>1 DEF RecordSound
    <2>2. CASE s # Calls!Slot(c)
      BY <1>6, <1>7, <1>12, <2>2 DEF CallsInv, RecordSound
    <2>. QED  BY <2>1, <2>2
  <1>15. ASSUME NEW x \in changed
         PROVE  /\ ChangeSound(x) /\ x.call \in ToolCalls /\ x.call # c /\ x.at \in Nat
                /\ Calls!Slot(x.call)' = Calls!Slot(x.call)
    BY <1>6, <1>7 DEF CallsInv, ChangeSound
  <1>16. ASSUME NEW x \in changed, Calls!Slot(x.call) = Calls!Slot(c)
         PROVE  x.at + KeyTTL <= toolClock
    <2>1. ~(keyRecord[Calls!Slot(c)].until > toolClock)
      BY DEF Calls!Commit, Calls!Recorded
    <2>2. keyRecord[Calls!Slot(c)].until \in Nat
      BY <1>10 DEF CallsInv, RecordSound
    <2>. QED  BY <1>13, <1>15, <1>16, <2>1, <2>2 DEF ChangeSound
  <1>17. PICK new : new = [call |-> c, at |-> toolClock]
    OBVIOUS
  <1>18. changed' = changed \/ (changed' = changed \cup {new} /\ ~Calls!KnownToDomain(c))
    BY <1>17 DEF Calls!Commit
  <1>19. ASSUME NEW x \in changed  PROVE ChangeSound(x)'
    <2>1. CASE Calls!Slot(x.call) = Calls!Slot(c)
      <3>1. record.until >= x.at + KeyTTL
        BY <1>11, <1>13, <1>15 DEF ChangeSound
      <3>. QED  BY <1>4, <1>6, <1>12, <1>15, <2>1, <3>1 DEF ChangeSound
    <2>2. CASE Calls!Slot(x.call) # Calls!Slot(c)
      BY <1>4, <1>6, <1>12, <1>15, <2>2 DEF ChangeSound
    <2>. QED  BY <2>1, <2>2
  <1>20. ChangeSound(new)'
    BY <1>4, <1>6, <1>7, <1>10, <1>11, <1>12, <1>13, <1>17 DEF ChangeSound
  <1>21. ASSUME NEW x \in changed, NEW y \in changed  PROVE FarApart(x, y)'
    BY <1>7, <1>15 DEF CallsInv, FarApart
  <1>22. ASSUME NEW x \in changed, ~Calls!KnownToDomain(c)  PROVE FarApart(x, new)' /\ FarApart(new, x)'
    <2>1. /\ Calls!Slot(x.call)' = Calls!Slot(x.call) /\ Calls!Slot(c)' = Calls!Slot(c)
          /\ x.at \in Nat /\ x.at <= toolClock /\ toolClock \in Nat
      BY <1>7, <1>13, <1>15 DEF ChangeSound
    <2>2. toolCall'[x.call].input = toolCall[x.call].input /\ toolCall'[c].input = toolCall[c].input
          /\ toolCall'[x.call].tool = toolCall[x.call].tool /\ toolCall'[c].tool = toolCall[c].tool
      BY <1>7, <1>15
    <2>3. ASSUME Calls!Slot(x.call) = Calls!Slot(c)
          PROVE  /\ toolCall[x.call].tool = toolCall[c].tool
                 /\ toolCall[c].tool \in Calls!DomainKeyed => toolCall[x.call].input # toolCall[c].input
      BY <1>22, <2>3 DEF Calls!KnownToDomain, Calls!Slot
    <2>4. Calls!Slot(x.call) = Calls!Slot(c) => ~(toolClock <= x.at)
      BY <1>13, <1>16, <2>1
    <2>5. new.call = c /\ new.at = toolClock
      BY <1>17
    <2>6. FarApart(x, new)'
      BY <1>16, <2>1, <2>2, <2>3, <2>5 DEF FarApart
    <2>7. FarApart(new, x)'
      BY <2>1, <2>4, <2>5 DEF FarApart
    <2>. QED  BY <2>6, <2>7
  <1>23. FarApart(new, new)'
    BY DEF FarApart
  <1>24. \A x \in changed' : ChangeSound(x)'
    BY <1>18, <1>19, <1>20
  <1>25. \A x, y \in changed' : FarApart(x, y)'
    BY <1>18, <1>21, <1>22, <1>23
  <1>26. Succeeded' = applied'
    <2>1. auditLog' = auditLog \cup {[call |-> c, outcome |-> "succeeded", replayed |-> FALSE]}
      BY DEF Calls!Commit, Calls!SuccessAudit
    <2>3. PICK entry : entry = [call |-> c, outcome |-> "succeeded", replayed |-> FALSE]
      OBVIOUS
    <2>4. /\ entry.call = c /\ entry.outcome = "succeeded" /\ ~entry.replayed
          /\ auditLog' = auditLog \cup {entry}
      BY <2>1, <2>3
    <2>5. {x \in auditLog' : x.outcome = "succeeded" /\ ~x.replayed}
              = {x \in auditLog : x.outcome = "succeeded" /\ ~x.replayed} \cup {entry}
      BY <2>4
    <2>2. Succeeded' = Succeeded \cup {c}
      BY <2>4, <2>5 DEF Succeeded
    <2>. QED  BY <1>6, <2>2 DEF CallsInv
  <1>27. \A b \in applied' : toolCall'[b].phase \in {"committed", "done"}
    BY <1>3, <1>5, <1>6 DEF CallsInv
  <1>28. applied' \subseteq ToolCalls /\ toolClock' \in Nat
    BY <1>4, <1>6, <1>13
  <1>. QED  BY <1>5, <1>9, <1>12, <1>14, <1>24, <1>25, <1>26, <1>27, <1>28 DEF CallsInv

\* Every step keeps the invariant of the calls.
LEMMA CallsStep ==
    ASSUME CallsInv, KeyTTL \in Nat \ {0}, [Calls!Next]_(Calls!toolVars)
    PROVE  CallsInv'
  <1>1. ASSUME NEW c \in ToolCalls  PROVE Sound(toolCall[c])
    BY DEF CallsInv
  <1>2. ASSUME NEW c \in ToolCalls  PROVE DOMAIN toolCall[c] = CallFields
    BY <1>1 DEF Sound
  <1>3. ASSUME NEW c \in ToolCalls, NEW answer, toolCall[c].phase # "new",
               \/ toolCall[c].tool \in Calls!ReadTools \/ answer # "ok"
               \/ toolCall[c].phase \in {"committed", "replayed"},
               Calls!Respond(c, answer), Succeeded' = Succeeded,
               UNCHANGED <<keyRecord, applied, changed, toolClock>>
        PROVE  CallsInv'
    <2>1. PICK given : given = IF toolCall[c].answer = "none" THEN answer ELSE toolCall[c].answer
      OBVIOUS
    <2>2. PICK next : next = [toolCall[c] EXCEPT !.phase = "done", !.outcome = "none", !.answer = given]
      OBVIOUS
    <2>3. toolCall' = [toolCall EXCEPT ![c] = next]
      BY <1>2, <1>3, <2>1, <2>2 DEF CallsInv, Calls!Respond, CallFields
    <2>4. /\ DOMAIN next = CallFields /\ next.phase = "done" /\ next.answer = given
          /\ next.tool = toolCall[c].tool /\ next.key = toolCall[c].key /\ next.input = toolCall[c].input
      BY <1>2, <2>2 DEF CallFields
    <2>5. Follows(c, next)
      BY <1>3, <2>1, <2>4 DEF Follows, Calls!Phases
    <2>. QED  BY <1>3, <2>3, <2>5, FollowingStep
  <1>4. ASSUME auditLog' = auditLog  PROVE Succeeded' = Succeeded
    BY <1>4 DEF Succeeded
  <1>5. ASSUME NEW c \in ToolCalls, NEW stage \in Calls!Phases \ {"new"}, Calls!To(c, stage),
               UNCHANGED <<keyRecord, applied, changed, toolClock, auditLog>>,
               toolCall[c].phase # "new", c \notin applied, stage # "failed",
               \/ stage \notin {"committed", "replayed"}
               \/ Done(toolCall[c].tool, toolCall[c].key, toolCall[c].input)
        PROVE  CallsInv'
    <2>1. PICK next : next = [toolCall[c] EXCEPT !.phase = stage]
      OBVIOUS
    <2>2. toolCall' = [toolCall EXCEPT ![c] = next]
      BY <1>5, <2>1 DEF Calls!To, CallsInv
    <2>3. /\ DOMAIN next = CallFields /\ next.phase = stage /\ next.answer = toolCall[c].answer
          /\ next.tool = toolCall[c].tool /\ next.key = toolCall[c].key /\ next.input = toolCall[c].input
      BY <1>2, <2>1 DEF CallFields
    <2>4. Follows(c, next)
      BY <1>5, <2>3 DEF Follows
    <2>. QED  BY <1>4, <1>5, <2>2, <2>4, FollowingStep
  <1>6. ASSUME NEW c \in ToolCalls, NEW code \in Calls!Errors, Calls!Fail(c, code),
               UNCHANGED <<keyRecord, applied, changed, toolClock, auditLog>>,
               toolCall[c].phase # "new", c \notin applied
        PROVE  CallsInv'
    <2>1. PICK next : next = [toolCall[c] EXCEPT !.phase = "failed", !.outcome = code]
      OBVIOUS
    <2>2. toolCall' = [toolCall EXCEPT ![c] = next]
      BY <1>2, <1>6, <2>1 DEF Calls!Fail, CallsInv, CallFields
    <2>3. /\ DOMAIN next = CallFields /\ next.phase = "failed" /\ next.answer = toolCall[c].answer
          /\ next.outcome = code
          /\ next.tool = toolCall[c].tool /\ next.key = toolCall[c].key /\ next.input = toolCall[c].input
      BY <1>2, <2>1 DEF CallFields
    <2>4. Follows(c, next)
      BY <1>6, <2>3 DEF Follows, Calls!Phases
    <2>. QED  BY <1>4, <1>6, <2>2, <2>4, FollowingStep
  <1>7. \A c \in ToolCalls : toolCall[c].phase \notin {"committed", "done"} => c \notin applied
    BY DEF CallsInv
  <1>8. auditLog' = auditLog => Succeeded' = Succeeded
    BY DEF Succeeded
  <1>9. ASSUME NEW c \in ToolCalls, Calls!Find(c)  PROVE CallsInv'
    <2>1. PICK t \in Tools, i \in DOMAIN credential :
          \E k \in IF t \in Calls!ReadTools THEN {0} ELSE ToolKeys,
             x \in IF t \in Calls!ReadTools THEN {0} ELSE Inputs, known \in BOOLEAN :
             toolCall' = [toolCall EXCEPT ![c] =
                [phase |-> IF known THEN "found" ELSE "done", tool |-> t, key |-> k,
                 input |-> x, credential |-> i, now |-> toolClock, outcome |-> "none",
                 answer |-> IF known THEN "none" ELSE "unauthorized"]]
      BY <1>9 DEF Calls!Find
    <2>2. PICK k \in IF t \in Calls!ReadTools THEN {0} ELSE ToolKeys,
               x \in IF t \in Calls!ReadTools THEN {0} ELSE Inputs, known \in BOOLEAN :
             toolCall' = [toolCall EXCEPT ![c] =
                [phase |-> IF known THEN "found" ELSE "done", tool |-> t, key |-> k,
                 input |-> x, credential |-> i, now |-> toolClock, outcome |-> "none",
                 answer |-> IF known THEN "none" ELSE "unauthorized"]]
      BY <2>1
    <2>3. PICK next : next = [phase |-> IF known THEN "found" ELSE "done", tool |-> t, key |-> k,
                 input |-> x, credential |-> i, now |-> toolClock, outcome |-> "none",
                 answer |-> IF known THEN "none" ELSE "unauthorized"]
      OBVIOUS
    <2>4. DOMAIN next = CallFields /\ next.phase \in {"found", "done"} /\ next.tool = t /\ next.key = k
          /\ next.answer \in {"none", "unauthorized"}
      BY <2>3 DEF CallFields
    <2>5. Sound(next)
      BY <2>2, <2>4 DEF Sound, Calls!Phases
    <2>6. UNCHANGED <<keyRecord, applied, changed, toolClock, auditLog>> /\ toolCall[c].phase = "new"
      BY <1>9 DEF Calls!Find, Calls!domainVars
    <2>7. c \notin applied /\ toolCall' = [toolCall EXCEPT ![c] = next]
      BY <1>7, <2>2, <2>3, <2>6
    <2>. QED  BY <1>8, <2>5, <2>6, <2>7, CallStep
  <1>10. ASSUME NEW c \in ToolCalls, Calls!Claim(c)  PROVE CallsInv'
    <2>1. UNCHANGED <<keyRecord, applied, changed, toolClock, auditLog>> /\ toolCall[c].phase = "found"
      BY <1>10 DEF Calls!Claim, Calls!domainVars
    <2>2. CASE Calls!Claimable(c)
      <3>1. PICK next : next = [toolCall[c] EXCEPT !.phase = "serving", !.credential = 0, !.now = 0]
        OBVIOUS
      <3>2. toolCall' = [toolCall EXCEPT ![c] = next]
        BY <1>2, <1>10, <2>2, <3>1 DEF Calls!Claim, CallsInv, CallFields
      <3>3. /\ DOMAIN next = CallFields /\ next.phase = "serving" /\ next.answer = toolCall[c].answer
            /\ next.tool = toolCall[c].tool /\ next.key = toolCall[c].key
            /\ next.input = toolCall[c].input
        BY <1>2, <3>1 DEF CallFields
      <3>4. Follows(c, next)
        BY <1>7, <2>1, <3>3 DEF Follows, Calls!Phases
      <3>. QED  BY <1>8, <2>1, <3>2, <3>4, FollowingStep
    <2>3. CASE ~Calls!Claimable(c)
      BY <1>3, <1>8, <1>10, <2>1, <2>3 DEF Calls!Claim
    <2>. QED  BY <2>2, <2>3
  <1>11. ASSUME NEW c \in ToolCalls, Calls!RefuseRequest(c)  PROVE CallsInv'
    BY <1>3, <1>8, <1>11 DEF Calls!RefuseRequest, Calls!domainVars
  <1>12. ASSUME NEW c \in ToolCalls, Calls!Handle(c)  PROVE CallsInv'
    <2>1. "handling" \in Calls!Phases \ {"new"}
      BY DEF Calls!Phases
    <2>2. UNCHANGED <<keyRecord, applied, changed, toolClock, auditLog>> /\ toolCall[c].phase = "serving"
      BY <1>12 DEF Calls!Handle, Calls!domainVars
    <2>3. CASE Calls!Registered(c)
      BY <1>5, <1>7, <1>12, <2>1, <2>2, <2>3 DEF Calls!Handle
    <2>4. CASE ~Calls!Registered(c)
      BY <1>3, <1>8, <1>12, <2>2, <2>4 DEF Calls!Handle
    <2>. QED  BY <2>3, <2>4
  <1>13. ASSUME NEW c \in ToolCalls, Calls!Timeout(c)  PROVE CallsInv'
    <2>1. UNCHANGED <<keyRecord, applied, changed, toolClock, auditLog>>
      BY <1>13 DEF Calls!Timeout, Calls!domainVars
    <2>2. PICK stage : stage = IF toolCall[c].phase = "serving" THEN "done" ELSE toolCall[c].phase
      OBVIOUS
    <2>3. PICK next : next = [toolCall[c] EXCEPT !.phase = stage, !.answer = "timeout"]
      OBVIOUS
    <2>4. toolCall' = [toolCall EXCEPT ![c] = next]
      BY <1>2, <1>13, <2>2, <2>3 DEF Calls!Timeout, CallsInv, CallFields
    <2>5. /\ DOMAIN next = CallFields /\ next.phase = stage /\ next.answer = "timeout"
          /\ next.outcome = toolCall[c].outcome
          /\ next.tool = toolCall[c].tool /\ next.key = toolCall[c].key /\ next.input = toolCall[c].input
      BY <1>2, <2>3 DEF CallFields
    <2>6. Sound(toolCall[c]) /\ toolCall[c].phase # "new" /\ stage \in Calls!Phases \ {"new"}
      BY <1>1, <1>13, <2>2 DEF Calls!Timeout, Calls!Phases, Sound
    <2>7. c \in applied => stage \in {"committed", "done"}
      BY <1>7, <2>2
    <2>8. Follows(c, next)
      BY <2>2, <2>5, <2>6, <2>7 DEF Follows, Sound
    <2>. QED  BY <1>8, <2>1, <2>4, <2>6, <2>8, FollowingStep
  <1>14. ASSUME NEW c \in ToolCalls, Calls!Read(c)  PROVE CallsInv'
    BY <1>3, <1>8, <1>14 DEF Calls!Read, Calls!domainVars
  <1>15. ASSUME NEW c \in ToolCalls, Calls!ReplayOrConflict(c)  PROVE CallsInv'
    <2>1. /\ UNCHANGED <<keyRecord, applied, changed, toolClock, auditLog>>
          /\ toolCall[c].phase = "handling" /\ toolCall[c].tool \notin Calls!ReadTools
      BY <1>15 DEF Calls!ReplayOrConflict, Calls!domainVars
    <2>2. CASE Calls!SameInput(c)
      <3>1. Calls!Slot(c) \in Tools \X ToolKeys
        BY <1>1, <2>1 DEF Sound, Calls!Slot
      <3>2. PICK d \in keyRecord[Calls!Slot(c)].by : toolCall[d].input = toolCall[c].input
        BY <2>2 DEF Calls!SameInput
      <3>3. d \in applied /\ Calls!Slot(d) = Calls!Slot(c)
        BY <3>1, <3>2 DEF CallsInv, RecordSound
      <3>4. Done(toolCall[c].tool, toolCall[c].key, toolCall[c].input)
        BY <3>2, <3>3 DEF Done, Calls!Slot
      <3>5. "replayed" \in Calls!Phases \ {"new"}
        BY DEF Calls!Phases
      <3>6. Calls!To(c, "replayed") /\ c \notin applied
        BY <1>7, <1>15, <2>1, <2>2 DEF Calls!ReplayOrConflict
      <3>. QED  BY <1>5, <2>1, <3>4, <3>5, <3>6
    <2>3. CASE ~Calls!SameInput(c)
      <3>1. Calls!Fail(c, "IDEMPOTENCY_CONFLICT")
        BY <1>15, <2>3 DEF Calls!ReplayOrConflict
      <3>2. c \notin applied
        BY <1>7, <2>1
      <3>. QED  BY <1>6, <2>1, <3>1, <3>2 DEF Calls!Errors
    <2>. QED  BY <2>2, <2>3
  <1>16. ASSUME NEW c \in ToolCalls, Calls!RollBack(c)  PROVE CallsInv'
    BY <1>6, <1>7, <1>16 DEF Calls!RollBack, Calls!domainVars
  <1>17. ASSUME NEW c \in ToolCalls, Calls!AfterAudit(c)  PROVE CallsInv'
    <2>1. UNCHANGED <<keyRecord, applied, changed, toolClock>> /\ toolCall[c].phase \in {"replayed", "failed"}
      BY <1>17 DEF Calls!AfterAudit, Calls!domainVars
    <2> DEFINE replayed == toolCall[c].phase = "replayed"
               outcome == IF replayed THEN "succeeded"
                          ELSE IF toolCall[c].outcome = "NOT_FOUND" THEN "rejected" ELSE "failed"
    <2>2. auditLog' \in {auditLog, auditLog \cup {[call |-> c, outcome |-> outcome, replayed |-> replayed]}}
      BY <1>17 DEF Calls!AfterAudit
    <2>3. Succeeded' = Succeeded
      <3>1. PICK entry : entry = [call |-> c, outcome |-> outcome, replayed |-> replayed]
        OBVIOUS
      <3>2. ~(entry.outcome = "succeeded" /\ ~entry.replayed)
        BY <3>1
      <3>3. auditLog' \in {auditLog, auditLog \cup {entry}}
        BY <2>2, <3>1
      <3>4. {x \in auditLog' : x.outcome = "succeeded" /\ ~x.replayed}
                = {x \in auditLog : x.outcome = "succeeded" /\ ~x.replayed}
        BY <3>2, <3>3
      <3>. QED  BY <3>4 DEF Succeeded
    <2>4. CASE toolCall[c].phase = "replayed"
      <3>1. Calls!Respond(c, "ok")
        BY <1>17, <2>4 DEF Calls!AfterAudit
      <3>. QED  BY <1>3, <2>1, <2>3, <2>4, <3>1
    <2>5. CASE toolCall[c].phase = "failed"
      <3>1. Calls!Respond(c, toolCall[c].outcome)
        BY <1>17, <2>5 DEF Calls!AfterAudit
      <3>2. toolCall[c].outcome # "ok"
        BY <1>1, <2>5 DEF Sound, Calls!Errors
      <3>. QED  BY <1>3, <2>1, <2>3, <2>5, <3>1, <3>2
    <2>. QED  BY <2>1, <2>4, <2>5
  <1>18. ASSUME NEW c \in ToolCalls, Calls!Answer(c)  PROVE CallsInv'
    BY <1>3, <1>8, <1>18 DEF Calls!Answer, Calls!domainVars
  <1>19. ASSUME UNCHANGED <<toolCall, keyRecord, applied, changed, auditLog>>,
                toolClock' \in Nat, toolClock <= toolClock'
         PROVE  CallsInv'
    <2>1. \A c \in ToolCalls : Sound(toolCall[c])'
      BY <1>19 DEF CallsInv, Sound, Done
    <2>2. \A s \in Tools \X ToolKeys : RecordSound(s)'
      BY <1>19 DEF CallsInv, RecordSound, Calls!Slot
    <2>3. ASSUME NEW x \in changed  PROVE ChangeSound(x)'
      <3>1. ChangeSound(x) /\ toolClock \in Nat /\ Calls!Slot(x.call)' = Calls!Slot(x.call)
        BY <1>19 DEF CallsInv, Calls!Slot
      <3>. QED  BY <1>19, <3>1 DEF ChangeSound
    <2>4. \A x, y \in changed : FarApart(x, y)'
      BY <1>19 DEF CallsInv, FarApart, Calls!Slot
    <2>. QED  BY <1>19, <2>1, <2>2, <2>3, <2>4 DEF CallsInv, Succeeded
  <1>20. ASSUME Calls!Rotate \/ Calls!Revoke \/ Calls!Tick \/ UNCHANGED Calls!toolVars  PROVE CallsInv'
    <2>1. UNCHANGED <<toolCall, keyRecord, applied, changed, auditLog>>
      BY <1>20 DEF Calls!Rotate, Calls!Revoke, Calls!Tick, Calls!toolVars, Calls!domainVars
    <2>2. toolClock \in Nat /\ (toolClock' = toolClock \/ toolClock' = toolClock + 1)
      BY <1>20 DEF Calls!Rotate, Calls!Revoke, Calls!Tick, Calls!toolVars, CallsInv
    <2>. QED  BY <1>19, <2>1, <2>2
  <1>. QED  BY <1>9, <1>10, <1>11, <1>12, <1>13, <1>14, <1>15, <1>16, <1>17, <1>18, <1>20,
              CommitStep DEF Calls!Next

\* Every step keeps the invariant of the tokens.
LEMMA CredentialsStep ==
    ASSUME CredentialsInv, [Calls!Next]_(Calls!toolVars)
    PROVE  CredentialsInv'
  <1>. DEFINE gone == [j \in DOMAIN credential |-> Calls!Revoked(j)]
  <1>1. /\ gone \in Seq(Credential) /\ Len(gone) = Len(credential)
        /\ \A j \in 1 .. Len(credential) : gone[j].revoked
    <2>1. ASSUME NEW j \in DOMAIN credential
          PROVE  Calls!Revoked(j) \in Credential /\ Calls!Revoked(j).revoked
      <3>1. credential[j] \in Credential
        BY DEF CredentialsInv
      <3>. QED  BY <3>1 DEF Calls!Revoked, Credential
    <2>2. DOMAIN credential = 1 .. Len(credential) /\ Len(credential) \in Nat
      BY DEF CredentialsInv
    <2>. QED  BY <2>1, <2>2
  <1>2. ASSUME Calls!Rotate  PROVE CredentialsInv'
    <2>1. PICK i \in DOMAIN credential : Calls!Valid(i) /\ credential' = Append(gone, credential[i])
      BY <1>2 DEF Calls!Rotate
    <2>2. clientStatus' = "active"
      BY <1>2 DEF Calls!Rotate
    <2>3. credential[i] \in Credential /\ ~credential[i].revoked
      BY <2>1 DEF CredentialsInv, Calls!Valid
    <2>. HIDE DEF gone
    <2>4. /\ credential' \in Seq(Credential) /\ Len(credential') = Len(gone) + 1
          /\ credential'[Len(gone) + 1] = credential[i]
          /\ \A j \in 1 .. Len(gone) : credential'[j] = gone[j]
      BY <1>1, <2>1, <2>3
    <2>5. DOMAIN credential' = 1 .. Len(gone) + 1 /\ Len(gone) \in Nat
      BY <1>1, <2>4
    <2>6. \A j \in DOMAIN credential' : Calls!Valid(j)' <=> j = Len(gone) + 1
      BY <1>1, <2>3, <2>4, <2>5 DEF Calls!Valid
    <2>. QED  BY <2>2, <2>4, <2>5, <2>6 DEF CredentialsInv
  <1>3. ASSUME Calls!Revoke  PROVE CredentialsInv'
    <2>1. clientStatus' = "revoked" /\ credential' = gone
      BY <1>3 DEF Calls!Revoke
    <2>2. DOMAIN credential' = 1 .. Len(credential)
      BY <1>1, <2>1
    <2>3. \A j \in DOMAIN credential' : ~Calls!Valid(j)'
      BY <1>1, <2>1, <2>2 DEF Calls!Valid
    <2>. QED  BY <1>1, <2>1, <2>3 DEF CredentialsInv
  <1>4. ASSUME UNCHANGED <<clientStatus, credential>>  PROVE CredentialsInv'
    BY <1>4 DEF CredentialsInv, Calls!Valid
  <1>. QED  BY <1>2, <1>3, <1>4 DEF Calls!Next, Calls!toolVars, Calls!authVars, Calls!Tick,
              Calls!Find, Calls!Claim, Calls!RefuseRequest, Calls!Handle, Calls!Timeout, Calls!Read,
              Calls!Commit, Calls!ReplayOrConflict, Calls!RollBack, Calls!AfterAudit, Calls!Answer

\* At first nothing was called.
LEMMA CallsInit == Calls!Init => CallsInv
  <1>. SUFFICES ASSUME Calls!Init  PROVE CallsInv
    OBVIOUS
  <1>1. ASSUME NEW c \in ToolCalls  PROVE Sound(toolCall[c])
    <2>1. toolCall[c] = Calls!Fresh
      BY DEF Calls!Init
    <2>2. /\ DOMAIN Calls!Fresh = CallFields /\ Calls!Fresh.phase = "new"
          /\ Calls!Fresh.answer = "none"
      BY DEF Calls!Fresh, CallFields
    <2>. QED  BY <2>1, <2>2 DEF Sound, Calls!Phases
  <1>2. ASSUME NEW s \in Tools \X ToolKeys  PROVE RecordSound(s)
    BY DEF Calls!Init, Calls!NoRecord, RecordSound
  <1>3. Succeeded = {} /\ applied = {} /\ changed = {} /\ toolClock \in Nat
    BY DEF Calls!Init, Succeeded
  <1>4. DOMAIN toolCall = ToolCalls /\ DOMAIN keyRecord = Tools \X ToolKeys
    BY DEF Calls!Init
  <1>. QED  BY <1>1, <1>2, <1>3, <1>4 DEF CallsInv

\* The calls are sound in every state.
LEMMA CallsInvariant == ASSUME KeyTTL \in Nat \ {0}  PROVE Calls!Spec => []CallsInv
  <1>1. CallsInv /\ [Calls!Next]_(Calls!toolVars) => CallsInv'
    BY CallsStep
  <1>. QED  BY <1>1, CallsInit, PTL DEF Calls!Spec

\* What the audit says succeeded is what was committed, whatever timed out; who is told ok can
\* count on the change; and a change is made again under its key only when the record has run
\* out, under a key of the domain never (ToolRegistry.call, AgentIdempotencyService.execute).
THEOREM CallsAccounted ==
    ASSUME KeyTTL \in Nat \ {0}
    PROVE  Calls!Spec => []Calls!CallsAreAccountedFor
  <1>1. ASSUME CallsInv  PROVE Calls!CallsAreAccountedFor
    <2>1. {x.call : x \in {x \in auditLog : x.outcome = "succeeded" /\ ~x.replayed}} = applied
      BY <1>1 DEF CallsInv, Succeeded
    <2>2. ASSUME NEW c \in ToolCalls, toolCall[c].answer = "ok", toolCall[c].tool \notin Calls!ReadTools
          PROVE  \E d \in applied : Calls!Slot(d) = Calls!Slot(c) /\ toolCall[d].input = toolCall[c].input
      BY <1>1, <2>2 DEF CallsInv, Sound, Done, Calls!Slot
    <2>3. ASSUME NEW x \in changed, NEW y \in changed  PROVE FarApart(x, y)
      BY <1>1 DEF CallsInv
    <2>. QED  BY <2>1, <2>2, <2>3 DEF Calls!CallsAreAccountedFor, FarApart
  <1>. QED  BY <1>1, CallsInvariant, PTL

\* One credential of an active client is good, and none of a revoked one; a call is served on
\* one that was still good after it had been checked, whatever was rotated or revoked meanwhile
\* (authenticate, rotateClient, revokeClient).
THEOREM ServedInForceOnly ==
    ASSUME MaxToolClock \in Nat, KeyTTL \in Nat \ {0}
    PROVE  Calls!Spec => [][Calls!ServedInForce]_(Calls!toolVars)
  <1>1. Calls!Init => CredentialsInv
    <2>. SUFFICES ASSUME Calls!Init  PROVE CredentialsInv
      OBVIOUS
    <2>1. PICK x \in {1, MaxToolClock + 1} : credential = <<[revoked |-> FALSE, expiresAt |-> x]>>
      BY DEF Calls!Init
    <2>5. x \in Nat
      OBVIOUS
    <2>2. PICK first \in Credential : first = [revoked |-> FALSE, expiresAt |-> x]
      BY <2>5 DEF Credential
    <2>3. credential = <<first>> /\ ~first.revoked
      BY <2>1, <2>2
    <2>4. credential \in Seq(Credential) /\ DOMAIN credential = {1} /\ credential[1] = first
      BY <2>2, <2>3
    <2>. QED  BY <2>3, <2>4 DEF CredentialsInv, Calls!Init, Calls!Valid
  <1>2. CredentialsInv /\ [Calls!Next]_(Calls!toolVars) => CredentialsInv'
    BY CredentialsStep
  <1>3. CredentialsInv /\ CallsInv /\ Calls!Next => Calls!ServedInForce
    <2>. SUFFICES ASSUME CredentialsInv, CallsInv, Calls!Next  PROVE Calls!ServedInForce
      OBVIOUS
    <2>. DEFINE Good == {i \in DOMAIN credential : Calls!Valid(i)}
    <2>1. Calls!Cardinality(Good) = IF clientStatus = "active" THEN 1 ELSE 0
      <3>1. Calls!Cardinality(Good) = Cardinality(Good)
        BY DEF Calls!Cardinality, Cardinality
      <3>2. CASE clientStatus = "active"
        <4>1. PICK i \in DOMAIN credential : Calls!Valid(i)
          BY <3>2 DEF CredentialsInv
        <4>2. Good = {i}
          BY <4>1 DEF CredentialsInv
        <4>. HIDE DEF Good
        <4>. QED  BY <3>1, <3>2, <4>2, FS_Singleton
      <3>3. CASE clientStatus # "active"
        <4>1. Good = {}
          BY <3>3 DEF CredentialsInv
        <4>. HIDE DEF Good
        <4>. QED  BY <3>1, <3>3, <4>1, FS_EmptySet
      <3>. QED  BY <3>2, <3>3
    <2>2. ASSUME NEW c \in ToolCalls, toolCall[c].phase = "found", toolCall'[c].phase = "serving"
          PROVE  clientStatus = "active" /\ Calls!Valid(toolCall[c].credential)
      <3>1. ASSUME Calls!Claim(c)  PROVE Calls!Claimable(c)
        <4>1. Sound(toolCall[c]) /\ DOMAIN toolCall = ToolCalls
          BY DEF CallsInv
        <4>2. ASSUME ~Calls!Claimable(c)  PROVE FALSE
          <5>1. toolCall'[c].phase = "done"
            BY <3>1, <4>1, <4>2 DEF Calls!Claim, Calls!Respond, Sound, CallFields
          <5>. QED  BY <2>2, <5>1
        <4>. QED  BY <4>2
      <3>2. ASSUME NEW d \in ToolCalls, d # c,
                   \/ Calls!Find(d) \/ Calls!Claim(d) \/ Calls!RefuseRequest(d) \/ Calls!Handle(d)
                   \/ Calls!Timeout(d) \/ Calls!Read(d) \/ Calls!Commit(d)
                   \/ Calls!ReplayOrConflict(d) \/ Calls!RollBack(d) \/ Calls!AfterAudit(d)
                   \/ Calls!Answer(d)
            PROVE  toolCall'[c] = toolCall[c]
        <4>1. DOMAIN toolCall = ToolCalls
          BY DEF CallsInv
        <4>2. CASE Calls!Find(d)
          BY <3>2, <4>1, <4>2 DEF Calls!Find
        <4>3. CASE \/ Calls!Claim(d) \/ Calls!RefuseRequest(d) \/ Calls!Handle(d) \/ Calls!Timeout(d)
          BY <3>2, <4>1, <4>3 DEF Calls!Claim, Calls!RefuseRequest, Calls!Handle, Calls!Timeout,
             Calls!Respond, Calls!To
        <4>4. CASE \/ Calls!Read(d) \/ Calls!Commit(d) \/ Calls!ReplayOrConflict(d)
          BY <3>2, <4>1, <4>4 DEF Calls!Read, Calls!Commit, Calls!ReplayOrConflict, Calls!Respond,
             Calls!To, Calls!Fail
        <4>5. CASE \/ Calls!RollBack(d) \/ Calls!AfterAudit(d) \/ Calls!Answer(d)
          BY <3>2, <4>1, <4>5 DEF Calls!RollBack, Calls!AfterAudit, Calls!Answer, Calls!Respond,
             Calls!Fail
        <4>. QED  BY <3>2, <4>2, <4>3, <4>4, <4>5
      <3>3. ~( \/ Calls!Find(c) \/ Calls!RefuseRequest(c) \/ Calls!Handle(c) \/ Calls!Timeout(c)
               \/ Calls!Read(c) \/ Calls!Commit(c) \/ Calls!ReplayOrConflict(c) \/ Calls!RollBack(c)
               \/ Calls!AfterAudit(c) \/ Calls!Answer(c) )
        BY <2>2 DEF Calls!Find, Calls!RefuseRequest, Calls!Handle, Calls!Timeout, Calls!Read,
           Calls!Commit, Calls!ReplayOrConflict, Calls!RollBack, Calls!AfterAudit, Calls!Answer
      <3>4. ~(Calls!Rotate \/ Calls!Revoke \/ Calls!Tick)
        BY <2>2 DEF Calls!Rotate, Calls!Revoke, Calls!Tick
      <3>5. Calls!Claim(c)
        BY <2>2, <3>2, <3>3, <3>4 DEF Calls!Next
      <3>. QED  BY <3>1, <3>5 DEF Calls!Claimable
    <2>. QED  BY <2>1, <2>2 DEF Calls!ServedInForce
  <1>. QED  BY <1>1, <1>2, <1>3, CallsInvariant, PTL DEF Calls!Spec

-----------------------------------------------------------------------------
(* The switches.  What a run may write is known from the moment it has     *)
(* looked at the environment: the one it found, or that with its operation *)
(* on, which has what it needs there.                                      *)
CONSTANTS Runs, Requests, MaxBackups, MaxDeployments
VARIABLES stored, pinned, live, executions, deployments, run
Switching == INSTANCE Activation

SwitchFields == {"phase", "request", "known", "backup", "snapshot", "attempted", "undoing",
              "deployment", "receipt"}
Ordered(env) == env \in Switching!Environments /\ Switching!InOrder(env)
Deployment ==
    [state : {"queued", "running", "finished", "failed"}, env : Switching!Environments,
     commit : Runs \cup {0}]

\* Only switching on is asked for, with values that stand for secrets.
RequestsSwitchOn ==
    Requests # {} /\ \A q \in Requests : q.operation \in Switching!Switches /\ q.value \in {1, 2}

\* What a run found is in order, and once it has looked, what its operation needs is on there.
RunSound(local) ==
    /\ DOMAIN local = SwitchFields
    /\ local.request \in Requests
    /\ local.attempted \in BOOLEAN
    /\ Ordered(local.snapshot)
    /\ local.phase \in {"patch", "verify", "deploy", "await", "smoke"} \/ local.attempted =>
          \A n \in Switching!Needs[local.request.operation] : local.snapshot[n] # 0

SwitchesInv ==
    /\ Ordered(stored) /\ DOMAIN live = {"env", "commit"} /\ Ordered(live.env)
    /\ pinned \in Runs \cup {0}
    /\ deployments \in Seq(Deployment)
    /\ \A i \in DOMAIN deployments : Ordered(deployments[i].env)
    /\ DOMAIN run = Runs /\ \A r \in Runs : RunSound(run[r])

\* An environment in order stays so when what has its needs is switched on.
LEMMA SwitchedOn ==
    ASSUME NEW env, Ordered(env), NEW op \in Switching!Switches, NEW value \in {1, 2},
           \A n \in Switching!Needs[op] : env[n] # 0
    PROVE  Ordered([env EXCEPT ![op] = value])
  <1>. DEFINE next == [env EXCEPT ![op] = value]
  <1>1. env \in [Switching!Switches -> 0 .. 2] /\ \A s \in Switching!Switches :
            env[s] # 0 => \A n \in Switching!Needs[s] : env[n] # 0
    BY DEF Ordered, Switching!Environments, Switching!InOrder
  <1>2. next \in [Switching!Switches -> 0 .. 2] /\ next[op] = value
        /\ \A s \in Switching!Switches \ {op} : next[s] = env[s]
    BY <1>1
  <1>3. \A s \in Switching!Switches : Switching!Needs[s] \subseteq Switching!Switches
    BY DEF Switching!Switches, Switching!Needs
  <1>4. value # 0
    OBVIOUS
  <1>. HIDE DEF next
  <1>5. ASSUME NEW s \in Switching!Switches, next[s] # 0, NEW n \in Switching!Needs[s]
        PROVE  next[n] # 0
    <2>1. n \in Switching!Switches
      BY <1>3
    <2>2. n = op \/ next[n] = env[n]
      BY <1>2, <2>1
    <2>3. n = op \/ env[n] # 0
      BY <1>1, <1>2, <1>5
    <2>. QED  BY <1>2, <1>4, <2>2, <2>3
  <1>6. Ordered(next)
    BY <1>2, <1>5 DEF Ordered, Switching!Environments, Switching!InOrder
  <1>. QED  BY <1>6 DEF next

\* A run that has not begun is sound.
LEMMA RunNotBegun ==
    ASSUME RequestsSwitchOn
    PROVE  /\ RunSound(Switching!NotBegun) /\ Switching!NotBegun.phase = "idle"
           /\ DOMAIN Switching!NotBegun = SwitchFields /\ Switching!NotBegun.attempted = FALSE
           /\ Ordered(Switching!NotBegun.snapshot) /\ Switching!NotBegun.request \in Requests
  <1>1. PICK q : q = CHOOSE x \in Requests : TRUE
    OBVIOUS
  <1>2. q \in Requests
    BY <1>1 DEF RequestsSwitchOn
  <1>3. PICK off : off = [s \in Switching!Switches |-> 0]
    OBVIOUS
  <1>4. Ordered(off)
    BY <1>3 DEF Ordered, Switching!Environments, Switching!InOrder
  <1>5. Switching!NotBegun = [phase |-> "idle", request |-> q, known |-> 0, backup |-> 0,
             snapshot |-> off, attempted |-> FALSE, undoing |-> FALSE,
             deployment |-> 0, receipt |-> "none"]
    BY <1>1, <1>3 DEF Switching!NotBegun
  <1>. QED  BY <1>2, <1>4, <1>5 DEF RunSound, SwitchFields

\* A step of a run that leaves Coolify alone.
LEMMA SwitchStep ==
    ASSUME SwitchesInv, NEW r \in Runs, NEW next, RunSound(next), run' = [run EXCEPT ![r] = next]
    PROVE  DOMAIN run' = Runs /\ \A q \in Runs : RunSound(run'[q])
  BY DEF SwitchesInv

\* A run that ends is sound.
LEMMA EndStep ==
    ASSUME SwitchesInv, RequestsSwitchOn, NEW r \in Runs, NEW receipt, Switching!End(r, receipt)
    PROVE  DOMAIN run' = Runs /\ \A q \in Runs : RunSound(run'[q])
  <1>1. PICK next : next = [Switching!NotBegun EXCEPT !.phase = "done", !.receipt = receipt]
    OBVIOUS
  <1>2. /\ DOMAIN next = SwitchFields /\ next.phase = "done" /\ next.attempted = FALSE
        /\ Ordered(next.snapshot) /\ next.request \in Requests
    BY <1>1, RunNotBegun DEF SwitchFields
  <1>3. RunSound(next)
    BY <1>2 DEF RunSound
  <1>. QED  BY <1>1, <1>3, SwitchStep DEF Switching!End

\* A run that fails ends, or undoes what it has attempted.
LEMMA FailStep ==
    ASSUME SwitchesInv, RequestsSwitchOn, NEW r \in Runs, Switching!Fail(r)
    PROVE  DOMAIN run' = Runs /\ \A q \in Runs : RunSound(run'[q])
  <1>1. CASE run[r].undoing
    BY <1>1, EndStep DEF Switching!Fail
  <1>2. CASE ~run[r].undoing /\ run[r].attempted
    <2>1. RunSound(run[r]) /\ DOMAIN run = Runs
      BY DEF SwitchesInv
    <2>2. PICK next : next = [run[r] EXCEPT !.phase = "patch", !.undoing = TRUE, !.deployment = 0]
      OBVIOUS
    <2>3. /\ DOMAIN next = SwitchFields /\ next.request = run[r].request
          /\ next.attempted = run[r].attempted /\ next.snapshot = run[r].snapshot
      BY <2>1, <2>2 DEF RunSound, SwitchFields
    <2>4. RunSound(next)
      BY <1>2, <2>1, <2>3 DEF RunSound
    <2>5. run' = [run EXCEPT ![r] = next]
      BY <1>2, <2>1, <2>2 DEF Switching!Fail, RunSound, SwitchFields
    <2>. QED  BY <2>4, <2>5, SwitchStep
  <1>3. CASE ~run[r].undoing /\ ~run[r].attempted
    BY <1>3, EndStep DEF Switching!Fail
  <1>. QED  BY <1>1, <1>2, <1>3

\* A step that may not have been allowed in another phase.
LEMMA ToStep ==
    ASSUME SwitchesInv, NEW r \in Runs, NEW stage, Switching!To(r, stage),
           \/ stage \notin {"patch", "verify", "deploy", "await", "smoke"}
           \/ run[r].phase \in {"patch", "verify", "deploy", "await", "smoke"}
    PROVE  DOMAIN run' = Runs /\ \A q \in Runs : RunSound(run'[q])
  <1>1. RunSound(run[r]) /\ DOMAIN run = Runs
    BY DEF SwitchesInv
  <1>2. PICK next : next = [run[r] EXCEPT !.phase = stage]
    OBVIOUS
  <1>3. /\ DOMAIN next = SwitchFields /\ next.request = run[r].request /\ next.phase = stage
        /\ next.attempted = run[r].attempted /\ next.snapshot = run[r].snapshot
    BY <1>1, <1>2 DEF RunSound, SwitchFields
  <1>4. RunSound(next)
    BY <1>1, <1>3 DEF RunSound
  <1>5. run' = [run EXCEPT ![r] = next]
    BY <1>1, <1>2 DEF Switching!To
  <1>. QED  BY <1>4, <1>5, SwitchStep

\* What a run writes is in order.
LEMMA TargetOrdered ==
    ASSUME SwitchesInv, RequestsSwitchOn, NEW r \in Runs, run[r].phase = "patch"
    PROVE  Ordered(Switching!Target(r))
  <1>1. RunSound(run[r])
    BY DEF SwitchesInv
  <1>2. /\ run[r].request.operation \in Switching!Switches /\ run[r].request.value \in {1, 2}
        /\ Ordered(run[r].snapshot)
        /\ \A n \in Switching!Needs[run[r].request.operation] : run[r].snapshot[n] # 0
    BY <1>1 DEF RunSound, RequestsSwitchOn
  <1>3. Ordered([run[r].snapshot EXCEPT ![run[r].request.operation] = run[r].request.value])
    BY <1>2, SwitchedOn
  <1>. QED  BY <1>2, <1>3 DEF Switching!Target

\* Every step keeps the invariant of the switches.
LEMMA SwitchesStep ==
    ASSUME SwitchesInv, RequestsSwitchOn, [Switching!Next]_(Switching!activationVars)
    PROVE  SwitchesInv'
  <1>. DEFINE RunsSound == DOMAIN run' = Runs /\ \A q \in Runs : RunSound(run'[q])
  <1>1. ASSUME UNCHANGED <<stored, live, deployments>>, pinned' \in Runs \cup {0}, RunsSound
        PROVE  SwitchesInv'
    BY <1>1 DEF SwitchesInv, Ordered, RunSound
  <1>2. pinned \in Runs \cup {0} /\ DOMAIN run = Runs /\ \A q \in Runs : RunSound(run[q])
    BY DEF SwitchesInv
  <1>3. run' = run => RunsSound
    BY <1>2
  <1>4. ASSUME \/ Switching!ScheduledBackup \/ Switching!EndBackup
               \/ UNCHANGED Switching!activationVars
        PROVE  SwitchesInv'
    <2>1. UNCHANGED <<stored, live, deployments, pinned, run>>
      BY <1>4 DEF Switching!ScheduledBackup, Switching!EndBackup, Switching!activationVars
    <2>. QED  BY <1>1, <1>2, <1>3, <2>1
  <1>5. ASSUME Switching!StartDeployment  PROVE SwitchesInv'
    <2>1. PICK i \in DOMAIN deployments :
              deployments' = [deployments EXCEPT
                                ![i] = [state |-> "running", env |-> stored, commit |-> pinned]]
      BY <1>5 DEF Switching!StartDeployment
    <2>2. PICK started \in Deployment :
              started = [state |-> "running", env |-> stored, commit |-> pinned]
      BY DEF SwitchesInv, Deployment, Ordered
    <2>3. deployments' = [deployments EXCEPT ![i] = started] /\ started.env = stored
      BY <2>1, <2>2
    <2>4. deployments' \in Seq(Deployment)
      BY <2>3 DEF SwitchesInv
    <2>5. \A j \in DOMAIN deployments' : Ordered(deployments'[j].env)
      BY <2>3 DEF SwitchesInv
    <2>6. UNCHANGED <<stored, pinned, live, run>>
      BY <1>5 DEF Switching!StartDeployment
    <2>. QED  BY <2>4, <2>5, <2>6 DEF SwitchesInv
  <1>6. ASSUME Switching!EndDeployment  PROVE SwitchesInv'
    <2>1. PICK i \in DOMAIN deployments, end \in {"finished", "failed"} :
              /\ deployments' = [deployments EXCEPT ![i].state = end]
              /\ live' = IF end = "finished"
                         THEN [env |-> deployments[i].env, commit |-> deployments[i].commit] ELSE live
      BY <1>6 DEF Switching!EndDeployment
    <2>2. deployments[i] \in Deployment /\ Ordered(deployments[i].env)
      BY DEF SwitchesInv
    <2>3. PICK ended \in Deployment : ended = [deployments[i] EXCEPT !.state = end]
      BY <2>2 DEF Deployment
    <2>4. deployments' = [deployments EXCEPT ![i] = ended] /\ ended.env = deployments[i].env
      BY <2>1, <2>2, <2>3 DEF Deployment
    <2>5. deployments' \in Seq(Deployment)
      BY <2>4 DEF SwitchesInv
    <2>6. \A j \in DOMAIN deployments' : Ordered(deployments'[j].env)
      BY <2>2, <2>4 DEF SwitchesInv
    <2>7. DOMAIN live' = {"env", "commit"} /\ Ordered(live'.env)
      BY <2>1, <2>2 DEF SwitchesInv
    <2>8. UNCHANGED <<stored, pinned, run>>
      BY <1>6 DEF Switching!EndDeployment
    <2>. QED  BY <2>5, <2>6, <2>7, <2>8 DEF SwitchesInv
  <1>7. ASSUME NEW r \in Runs, Switching!Begin(r)  PROVE SwitchesInv'
    <2>1. PICK q \in Requests :
              run' = [run EXCEPT ![r] = [Switching!NotBegun EXCEPT !.phase = "pin", !.request = q]]
      BY <1>7 DEF Switching!Begin
    <2>2. PICK next : next = [Switching!NotBegun EXCEPT !.phase = "pin", !.request = q]
      OBVIOUS
    <2>3. /\ DOMAIN next = SwitchFields /\ next.phase = "pin" /\ next.attempted = FALSE
          /\ Ordered(next.snapshot) /\ next.request \in Requests
      BY <2>2, RunNotBegun DEF SwitchFields
    <2>4. RunSound(next)
      BY <2>3 DEF RunSound
    <2>5. RunsSound
      BY <2>1, <2>2, <2>4, SwitchStep
    <2>6. UNCHANGED <<stored, live, deployments, pinned>>
      BY <1>7 DEF Switching!Begin, Switching!coolifyVars
    <2>. QED  BY <1>1, <1>2, <2>5, <2>6
  <1>8. ASSUME NEW r \in Runs, \/ Switching!RequestFails(r) \/ Switching!Kill(r) \/ Switching!Smoke(r)
        PROVE  SwitchesInv'
    <2>1. UNCHANGED <<stored, live, deployments, pinned>>
      BY <1>8 DEF Switching!RequestFails, Switching!Kill, Switching!Smoke, Switching!coolifyVars
    <2>2. RunsSound
      BY <1>8, EndStep, FailStep DEF Switching!RequestFails, Switching!Kill, Switching!Smoke
    <2>. QED  BY <1>1, <1>2, <2>1, <2>2
  <1>9. ASSUME NEW r \in Runs, Switching!Pin(r)  PROVE SwitchesInv'
    <2>1. UNCHANGED <<stored, live, deployments>> /\ pinned' \in Runs \cup {0}
      BY <1>2, <1>9 DEF Switching!Pin
    <2>2. RunsSound
      BY <1>9, ToStep, FailStep DEF Switching!Pin
    <2>. QED  BY <1>1, <2>1, <2>2
  <1>10. ASSUME NEW r \in Runs, Switching!ReadPin(r)  PROVE SwitchesInv'
    <2>1. UNCHANGED <<stored, live, deployments, pinned>>
      BY <1>10 DEF Switching!ReadPin, Switching!coolifyVars
    <2>2. CASE pinned = r
      <3>1. PICK next : next = [run[r] EXCEPT !.phase = "backup", !.known = Len(executions)]
        OBVIOUS
      <3>2. run' = [run EXCEPT ![r] = next]
        BY <1>2, <1>10, <2>2, <3>1 DEF Switching!ReadPin, RunSound, SwitchFields
      <3>3. /\ DOMAIN next = SwitchFields /\ next.request = run[r].request /\ next.phase = "backup"
            /\ next.attempted = run[r].attempted /\ next.snapshot = run[r].snapshot
        BY <1>2, <3>1 DEF RunSound, SwitchFields
      <3>4. RunSound(next)
        BY <1>2, <3>3 DEF RunSound
      <3>. QED  BY <1>1, <1>2, <2>1, <3>2, <3>4, SwitchStep
    <2>3. CASE pinned # r
      <3>1. RunsSound
        BY <1>10, <2>3, FailStep DEF Switching!ReadPin
      <3>. QED  BY <1>1, <1>2, <2>1, <3>1
    <2>. QED  BY <2>2, <2>3
  <1>11. ASSUME NEW r \in Runs, Switching!AskForBackup(r)  PROVE SwitchesInv'
    <2>1. UNCHANGED <<stored, live, deployments, pinned>> /\ run[r].phase = "backup"
      BY <1>11 DEF Switching!AskForBackup, Switching!Going
    <2>2. PICK next : next = [run[r] EXCEPT !.backup = Len(executions) + 1]
      OBVIOUS
    <2>3. run' = [run EXCEPT ![r] = next]
      BY <1>2, <1>11, <2>2 DEF Switching!AskForBackup
    <2>4. /\ DOMAIN next = SwitchFields /\ next.request = run[r].request /\ next.phase = run[r].phase
          /\ next.attempted = run[r].attempted /\ next.snapshot = run[r].snapshot
      BY <1>2, <2>2 DEF RunSound, SwitchFields
    <2>5. RunSound(next)
      BY <1>2, <2>4 DEF RunSound
    <2>. QED  BY <1>1, <1>2, <2>1, <2>3, <2>5, SwitchStep
  <1>12. ASSUME NEW r \in Runs, Switching!PollBackup(r)  PROVE SwitchesInv'
    <2>1. UNCHANGED <<stored, live, deployments, pinned>>
      BY <1>12 DEF Switching!PollBackup, Switching!coolifyVars
    <2>2. PICK i : \/ run' = [run EXCEPT ![r].phase = "parse", ![r].backup = i]
                   \/ Switching!Fail(r)
      BY <1>12 DEF Switching!PollBackup
    <2>3. CASE run' = [run EXCEPT ![r].phase = "parse", ![r].backup = i]
      <3>1. PICK next : next = [run[r] EXCEPT !.phase = "parse", !.backup = i]
        OBVIOUS
      <3>2. run' = [run EXCEPT ![r] = next]
        BY <1>2, <2>3, <3>1 DEF RunSound, SwitchFields
      <3>3. /\ DOMAIN next = SwitchFields /\ next.request = run[r].request /\ next.phase = "parse"
            /\ next.attempted = run[r].attempted /\ next.snapshot = run[r].snapshot
        BY <1>2, <3>1 DEF RunSound, SwitchFields
      <3>4. RunSound(next)
        BY <1>2, <3>3 DEF RunSound
      <3>. QED  BY <1>1, <1>2, <2>1, <3>2, <3>4, SwitchStep
    <2>4. CASE Switching!Fail(r)
      BY <1>1, <1>2, <2>1, <2>4, FailStep
    <2>. QED  BY <2>2, <2>3, <2>4
  <1>13. ASSUME NEW r \in Runs, Switching!Parse(r)  PROVE SwitchesInv'
    <2>1. UNCHANGED <<stored, live, deployments, pinned>>
      BY <1>13 DEF Switching!Parse, Switching!coolifyVars
    <2>2. CASE \A n \in Switching!Needs[run[r].request.operation] : stored[n] # 0
      <3>1. PICK next : next = [run[r] EXCEPT !.phase = "patch", !.snapshot = stored]
        OBVIOUS
      <3>2. run' = [run EXCEPT ![r] = next]
        BY <1>2, <1>13, <2>2, <3>1 DEF Switching!Parse, RunSound, SwitchFields
      <3>3. /\ DOMAIN next = SwitchFields /\ next.request = run[r].request
            /\ next.attempted = run[r].attempted /\ next.snapshot = stored
        BY <1>2, <3>1 DEF RunSound, SwitchFields
      <3>4. RunSound(next)
        BY <1>2, <2>2, <3>3 DEF RunSound, SwitchesInv
      <3>. QED  BY <1>1, <1>2, <2>1, <3>2, <3>4, SwitchStep
    <2>3. CASE ~(\A n \in Switching!Needs[run[r].request.operation] : stored[n] # 0)
      <3>1. RunsSound
        BY <1>13, <2>3, FailStep DEF Switching!Parse
      <3>. QED  BY <1>1, <1>2, <2>1, <3>1
    <2>. QED  BY <2>2, <2>3
  <1>14. ASSUME NEW r \in Runs, Switching!Patch(r)  PROVE SwitchesInv'
    <2>1. /\ stored' \in {stored, Switching!Target(r)} /\ run[r].phase = "patch"
          /\ UNCHANGED <<pinned, live, deployments>>
      BY <1>14 DEF Switching!Patch, Switching!Going
    <2>2. Ordered(stored')
      BY <2>1, TargetOrdered DEF SwitchesInv
    <2>3. ASSUME NEW stage, NEW undoing, NEW next,
                 next = [run[r] EXCEPT !.phase = stage, !.undoing = undoing, !.attempted = TRUE],
                 run' = [run EXCEPT ![r] = next]
          PROVE  RunsSound
      <3>1. /\ DOMAIN next = SwitchFields /\ next.request = run[r].request
            /\ next.attempted = TRUE /\ next.snapshot = run[r].snapshot
        BY <1>2, <2>3 DEF RunSound, SwitchFields
      <3>2. RunSound(next)
        BY <1>2, <2>1, <3>1 DEF RunSound
      <3>. QED  BY <2>3, <3>2, SwitchStep
    <2>4. ASSUME run' = [run EXCEPT ![r].phase = "verify", ![r].attempted = TRUE]  PROVE RunsSound
      <3>1. PICK next : next = [run[r] EXCEPT !.phase = "verify", !.undoing = run[r].undoing,
                                              !.attempted = TRUE]
        OBVIOUS
      <3>2. run' = [run EXCEPT ![r] = next]
        BY <1>2, <2>4, <3>1 DEF RunSound, SwitchFields
      <3>. QED  BY <2>3, <3>1, <3>2
    <2>5. ASSUME run' = [run EXCEPT ![r].phase = "patch", ![r].undoing = TRUE, ![r].attempted = TRUE]
          PROVE  RunsSound
      <3>1. PICK next : next = [run[r] EXCEPT !.phase = "patch", !.undoing = TRUE, !.attempted = TRUE]
        OBVIOUS
      <3>2. run' = [run EXCEPT ![r] = next]
        BY <1>2, <2>5, <3>1 DEF RunSound, SwitchFields
      <3>. QED  BY <2>3, <3>1, <3>2
    <2>6. RunsSound
      <3>1. \/ run' = [run EXCEPT ![r].phase = "verify", ![r].attempted = TRUE]
            \/ run' = [run EXCEPT ![r].phase = "patch", ![r].undoing = TRUE, ![r].attempted = TRUE]
            \/ Switching!Fail(r)
        BY <1>14 DEF Switching!Patch
      <3>. QED  BY <2>4, <2>5, <3>1, FailStep
    <2>. QED  BY <2>1, <2>2, <2>6 DEF SwitchesInv
  <1>15. ASSUME NEW r \in Runs, Switching!Verify(r) \/ Switching!PollDeployment(r)  PROVE SwitchesInv'
    <2>1. UNCHANGED <<stored, live, deployments, pinned>> /\ run[r].phase \in {"verify", "await"}
      BY <1>15 DEF Switching!Verify, Switching!PollDeployment, Switching!coolifyVars, Switching!Going
    <2>2. Switching!To(r, "deploy") \/ Switching!To(r, "smoke") \/ Switching!Fail(r)
      BY <1>15 DEF Switching!Verify, Switching!PollDeployment
    <2>3. RunsSound
      BY <2>1, <2>2, ToStep, FailStep
    <2>. QED  BY <1>1, <1>2, <2>1, <2>3
  <1>16. ASSUME NEW r \in Runs, Switching!Deploy(r)  PROVE SwitchesInv'
    <2>1. /\ UNCHANGED <<stored, live, pinned>> /\ run[r].phase = "deploy"
          /\ deployments' = Append(deployments, [state |-> "queued", env |-> stored, commit |-> pinned])
      BY <1>16 DEF Switching!Deploy, Switching!Going
    <2>2. PICK queued \in Deployment :
              queued = [state |-> "queued", env |-> stored, commit |-> pinned]
      BY DEF SwitchesInv, Deployment, Ordered
    <2>3. deployments' = Append(deployments, queued) /\ queued.env = stored /\ Ordered(stored)
      BY <2>1, <2>2 DEF SwitchesInv
    <2>4. deployments' \in Seq(Deployment) /\ \A i \in DOMAIN deployments' : Ordered(deployments'[i].env)
      BY <2>3 DEF SwitchesInv
    <2>5. RunsSound
      <3>1. CASE run' = [run EXCEPT ![r].phase = "await", ![r].deployment = Len(deployments) + 1]
        <4>1. PICK next : next = [run[r] EXCEPT !.phase = "await", !.deployment = Len(deployments) + 1]
          OBVIOUS
        <4>2. run' = [run EXCEPT ![r] = next]
          BY <1>2, <3>1, <4>1 DEF RunSound, SwitchFields
        <4>3. /\ DOMAIN next = SwitchFields /\ next.request = run[r].request
              /\ next.attempted = run[r].attempted /\ next.snapshot = run[r].snapshot
          BY <1>2, <4>1 DEF RunSound, SwitchFields
        <4>4. RunSound(next)
          BY <1>2, <2>1, <4>3 DEF RunSound
        <4>. QED  BY <4>2, <4>4, SwitchStep
      <3>2. CASE Switching!Fail(r)
        BY <3>2, FailStep
      <3>. QED  BY <1>16, <3>1, <3>2 DEF Switching!Deploy
    <2>. QED  BY <2>1, <2>4, <2>5 DEF SwitchesInv
  <1>. QED  BY <1>4, <1>5, <1>6, <1>7, <1>8, <1>9, <1>10, <1>11, <1>12, <1>13, <1>14, <1>15, <1>16
       DEF Switching!Next

\* At the start nothing is on without what it needs.
LEMMA SwitchesStart ==
    ASSUME RequestsSwitchOn, Switching!Init
    PROVE  SwitchesInv
  <1>1. Ordered(stored)
    BY DEF Switching!Init, Ordered, Switching!Environments
  <1>2. /\ live = [env |-> stored, commit |-> 0] /\ pinned = 0 /\ deployments = << >>
        /\ run = [r \in Runs |-> Switching!NotBegun]
    BY DEF Switching!Init
  <1>3. \A r \in Runs : RunSound(run[r])
    BY <1>2, RunNotBegun
  <1>. QED  BY <1>1, <1>2, <1>3 DEF SwitchesInv

\* Nothing is ever on without what it needs, in the environment that is stored, in any deployment
\* and in the application that runs, whatever fails or is killed and however often somebody tries
\* (requireDependencies, targetValues and the rollback of scripts/coolify-activate.mjs).
THEOREM SwitchesInOrder ==
    ASSUME RequestsSwitchOn
    PROVE  Switching!Spec => []Switching!FlagsInOrder
  <1>1. Switching!Init => SwitchesInv
    BY SwitchesStart
  <1>2. SwitchesInv /\ [Switching!Next]_(Switching!activationVars) => SwitchesInv'
    BY SwitchesStep
  <1>3. SwitchesInv => Switching!FlagsInOrder
    BY DEF SwitchesInv, Ordered, Switching!FlagsInOrder
  <1>. QED  BY <1>1, <1>2, <1>3, PTL DEF Switching!Spec

-----------------------------------------------------------------------------
(* The receipts.  Runs follow each other, so the one that goes on is the   *)
(* only one that writes and deploys.  Its deployment is the last, starts   *)
(* when all others are over, and with what is stored by then: once it is   *)
(* finished the application runs what the run has verified.                *)

\* It acts on the environment, a backup having been made.
Acts == {"patch", "verify", "deploy", "await", "smoke"}

\* targetValues of a run.
Aim(local) ==
    IF local.undoing THEN local.snapshot
    ELSE [local.snapshot EXCEPT ![local.request.operation] = local.request.value]

\* What may be said of a run, the environment env that is stored, the backups, the queue of
\* deployments and the application.
RunTrue(r, local, env, backups, queue, app) ==
    /\ local.phase # "done" => local.receipt = "none"
    /\ local.phase \notin Acts => ~local.attempted
    /\ local.phase \in Acts \cup {"parse"} =>
          /\ local.backup \in DOMAIN backups /\ local.backup > local.known
          /\ backups[local.backup] = "success"
    /\ local.phase \in {"deploy", "await", "smoke"} => env = Aim(local)
    /\ local.phase \in {"await", "smoke"} =>
          /\ local.deployment = Len(queue) /\ local.deployment \in DOMAIN queue
          /\ queue[local.deployment].state # "queued" => queue[local.deployment].env = Aim(local)
          /\ queue[local.deployment].state = "finished" =>
                app = [env |-> Aim(local), commit |-> queue[local.deployment].commit]
    /\ local.phase = "smoke" =>
          queue[local.deployment].state = "finished" /\ queue[local.deployment].commit = r

InQueue(queue) ==
    \A i, j \in DOMAIN queue :
        i < j /\ queue[j].state # "queued" => queue[i].state \in {"finished", "failed"}

ReceiptsInv ==
    /\ executions \in Seq({"running", "success", "failed"})
    /\ InQueue(deployments)
    /\ \A q, r \in Runs : q < r /\ run[r].phase # "idle" => run[q].phase = "done"
    /\ \A r \in Runs : RunTrue(r, run[r], stored, executions, deployments, live)

\* What ReceiptsHold says of one run, whose record afterwards is next.
Tells(r, next) ==
    LET runs(env) == stored = env /\ live = [env |-> env, commit |-> r]
        ends(receipt) == run[r].phase # "done" /\ next.receipt = receipt
    IN /\ ends("succeeded") =>
             runs([run[r].snapshot EXCEPT ![run[r].request.operation] = run[r].request.value])
       /\ ends("rolled back") => runs(run[r].snapshot)
       /\ ends("failed") => stored' = stored /\ ~run[r].attempted
       /\ stored' # stored /\ next # run[r] =>
             run[r].backup > run[r].known /\ executions[run[r].backup] = "success"

\* A step of Coolify, or of the run that goes on, before which all others are over or not begun.
LEMMA CoolifyStep ==
    ASSUME ReceiptsInv, run' = run, stored' = stored,
           executions' \in Seq({"running", "success", "failed"}), InQueue(deployments'),
           \A r \in Runs : RunTrue(r, run[r], stored, executions', deployments', live')
    PROVE  ReceiptsInv' /\ Switching!ReceiptsHold
  <1>1. ReceiptsInv'
    <2>1. \A r \in Runs : RunTrue(r, run'[r], stored', executions', deployments', live')
      OBVIOUS
    <2>2. \A q, r \in Runs : q < r /\ run'[r].phase # "idle" => run'[q].phase = "done"
      BY DEF ReceiptsInv
    <2>. QED  BY <2>1, <2>2 DEF ReceiptsInv, RunTrue, InQueue, Aim, Acts
  <1>2. Switching!ReceiptsHold
    BY DEF ReceiptsInv, RunTrue, Switching!ReceiptsHold
  <1>. QED  BY <1>1, <1>2

\* A step of the run that goes on, of which all that is said is so afterwards.
LEMMA GoingStep ==
    ASSUME Runs \subseteq Int, SwitchesInv, ReceiptsInv, NEW r \in Runs, NEW next,
           run' = [run EXCEPT ![r] = next], run[r].phase # "done", next.phase # "idle",
           run[r].phase = "idle" => \A q \in Runs : q < r => run[q].phase = "done",
           executions' \in Seq({"running", "success", "failed"}), InQueue(deployments'),
           RunTrue(r, next, stored', executions', deployments', live'), Tells(r, next)
    PROVE  ReceiptsInv' /\ Switching!ReceiptsHold
  <1>1. /\ run'[r] = next
        /\ \A q \in Runs \ {r} : run'[q] = run[q]
    BY DEF SwitchesInv
  <1>2. ASSUME NEW q \in Runs, q < r  PROVE run[q].phase = "done"
    BY <1>2 DEF ReceiptsInv
  <1>3. ASSUME NEW q \in Runs, r < q  PROVE run[q].phase = "idle"
    BY <1>3 DEF ReceiptsInv
  <1>4. ASSUME NEW q \in Runs \ {r}
        PROVE  RunTrue(q, run'[q], stored', executions', deployments', live')
    <2>1. run[q].phase \in {"idle", "done"}
      BY <1>2, <1>3, <1>4
    <2>2. RunTrue(q, run[q], stored, executions, deployments, live)
      BY DEF ReceiptsInv
    <2>. QED  BY <1>1, <2>1, <2>2 DEF RunTrue, Acts
  <1>5. ASSUME NEW p \in Runs, NEW q \in Runs, p < q, run'[q].phase # "idle"
        PROVE  run'[p].phase = "done"
    <2>1. CASE q = r
      BY <1>1, <1>2, <1>5, <2>1
    <2>2. CASE p = r
      BY <1>1, <1>3, <1>5, <2>2
    <2>3. CASE p # r /\ q # r
      BY <1>1, <1>5, <2>3 DEF ReceiptsInv
    <2>. QED  BY <2>1, <2>2, <2>3
  <1>6. ReceiptsInv'
    <2>1. \A q \in Runs : RunTrue(q, run'[q], stored', executions', deployments', live')
      BY <1>1, <1>4
    <2>2. \A p, q \in Runs : p < q /\ run'[q].phase # "idle" => run'[p].phase = "done"
      BY <1>5
    <2>. QED  BY <2>1, <2>2 DEF ReceiptsInv, RunTrue, InQueue, Aim, Acts
  <1>7. ASSUME NEW q \in Runs  PROVE Tells(q, run'[q])
    <2>1. CASE q = r
      BY <1>1, <2>1
    <2>2. CASE q # r
      BY ZenonT(60), <1>1, <2>2 DEF Tells, ReceiptsInv, RunTrue
    <2>. QED  BY <2>1, <2>2
  <1>8. Switching!ReceiptsHold
    BY <1>7 DEF Tells, Switching!ReceiptsHold
  <1>. QED  BY <1>6, <1>8

\* A run that goes on and writes nothing, or fails.
LEMMA RestStep ==
    ASSUME Runs \subseteq Int, SwitchesInv, RequestsSwitchOn, ReceiptsInv, NEW r \in Runs,
           run[r].phase \notin {"idle", "done"},
           stored' = stored, executions' = executions, InQueue(deployments')
    PROVE  /\ \A receipt \in {"killed", "failed", "not rolled back"} :
                 Switching!End(r, receipt) /\ (receipt = "failed" => ~run[r].attempted)
                    => ReceiptsInv' /\ Switching!ReceiptsHold
           /\ Switching!Fail(r) => ReceiptsInv' /\ Switching!ReceiptsHold
  <1>. DEFINE Goal == ReceiptsInv' /\ Switching!ReceiptsHold
  <1>1. /\ RunTrue(r, run[r], stored, executions, deployments, live)
        /\ DOMAIN run = Runs /\ DOMAIN run[r] = SwitchFields
        /\ executions' \in Seq({"running", "success", "failed"})
    BY DEF ReceiptsInv, SwitchesInv, RunSound
  <1>2. ASSUME NEW receipt \in {"killed", "failed", "not rolled back"}, Switching!End(r, receipt),
               receipt = "failed" => ~run[r].attempted
        PROVE  Goal
    <2>1. PICK next : next = [Switching!NotBegun EXCEPT !.phase = "done", !.receipt = receipt]
      OBVIOUS
    <2>2. next.phase = "done" /\ next.receipt = receipt /\ ~next.attempted
      BY <2>1, RunNotBegun DEF SwitchFields
    <2>3. RunTrue(r, next, stored', executions', deployments', live')
      BY <2>2 DEF RunTrue, Acts
    <2>4. Tells(r, next)
      BY <1>2, <2>2 DEF Tells
    <2>5. run' = [run EXCEPT ![r] = next]
      BY <1>2, <2>1 DEF Switching!End
    <2>. HIDE DEF Goal
    <2>6. ReceiptsInv' /\ Switching!ReceiptsHold
      BY <1>1, <2>2, <2>3, <2>4, <2>5, GoingStep
    <2>. QED  BY <2>6 DEF Goal
  <1>3. ASSUME Switching!Fail(r)  PROVE Goal
    <2>1. CASE run[r].undoing
      BY <1>2, <1>3, <2>1 DEF Switching!Fail
    <2>2. CASE ~run[r].undoing /\ run[r].attempted
      <3>1. PICK next : next = [run[r] EXCEPT !.phase = "patch", !.undoing = TRUE, !.deployment = 0]
        OBVIOUS
      <3>2. /\ next.phase = "patch" /\ next.receipt = run[r].receipt
            /\ next.attempted = run[r].attempted /\ next.backup = run[r].backup
            /\ next.known = run[r].known
        BY <1>1, <3>1 DEF SwitchFields
      <3>3. run' = [run EXCEPT ![r] = next]
        BY <1>1, <1>3, <2>2, <3>1 DEF Switching!Fail, SwitchFields
      <3>4. RunTrue(r, next, stored', executions', deployments', live')
        BY <1>1, <2>2, <3>2 DEF RunTrue, Acts
      <3>5. Tells(r, next)
        BY <1>1, <3>2 DEF Tells, RunTrue
      <3>. HIDE DEF Goal
      <3>6. ReceiptsInv' /\ Switching!ReceiptsHold
        BY <1>1, <3>2, <3>3, <3>4, <3>5, GoingStep
      <3>. QED  BY <3>6 DEF Goal
    <2>3. CASE ~run[r].undoing /\ ~run[r].attempted
      BY <1>2, <1>3, <2>3 DEF Switching!Fail
    <2>. QED  BY <2>1, <2>2, <2>3
  <1>. QED  BY <1>2, <1>3

\* Every step keeps the invariant of the receipts, and writes no receipt that is not true.
LEMMA ReceiptsStep ==
    ASSUME Runs \subseteq Int, SwitchesInv, RequestsSwitchOn, ReceiptsInv,
           [Switching!Next]_(Switching!activationVars)
    PROVE  ReceiptsInv' /\ Switching!ReceiptsHold
  <1>. DEFINE Goal == ReceiptsInv' /\ Switching!ReceiptsHold
  <1>1. /\ \A r \in Runs : /\ RunTrue(r, run[r], stored, executions, deployments, live)
                           /\ RunSound(run[r]) /\ DOMAIN run[r] = SwitchFields
        /\ DOMAIN run = Runs /\ deployments \in Seq(Deployment)
        /\ executions \in Seq({"running", "success", "failed"}) /\ InQueue(deployments)
    BY DEF ReceiptsInv, SwitchesInv, RunSound
  <1>2. ASSUME Switching!ScheduledBackup  PROVE Goal
    <2>1. /\ executions' = Append(executions, "running")
          /\ UNCHANGED <<stored, pinned, live, deployments, run>>
      BY <1>2 DEF Switching!ScheduledBackup
    <2>2. executions' \in Seq({"running", "success", "failed"})
      BY <1>1, <2>1
    <2>3. \A i \in DOMAIN executions : i \in DOMAIN executions' /\ executions'[i] = executions[i]
      BY <1>1, <2>1
    <2>4. ASSUME NEW r \in Runs  PROVE RunTrue(r, run[r], stored, executions', deployments', live')
      BY <1>1, <2>1, <2>3 DEF RunTrue
    <2>. QED  BY <1>1, <2>1, <2>2, <2>4, CoolifyStep
  <1>3. ASSUME Switching!EndBackup  PROVE Goal
    <2>1. PICK i \in DOMAIN executions, end \in {"success", "failed"} :
              executions[i] = "running" /\ executions' = [executions EXCEPT ![i] = end]
      BY <1>3 DEF Switching!EndBackup
    <2>2. UNCHANGED <<stored, pinned, live, deployments, run>>
      BY <1>3 DEF Switching!EndBackup
    <2>3. executions' \in Seq({"running", "success", "failed"})
      BY <1>1, <2>1
    <2>4. \A j \in DOMAIN executions :
              j \in DOMAIN executions' /\ (executions[j] = "success" => executions'[j] = "success")
      BY <1>1, <2>1
    <2>5. ASSUME NEW r \in Runs  PROVE RunTrue(r, run[r], stored, executions', deployments', live')
      BY <1>1, <2>2, <2>4 DEF RunTrue
    <2>. QED  BY <1>1, <2>2, <2>3, <2>5, CoolifyStep
  <1>4. ASSUME Switching!StartDeployment  PROVE Goal
    <2>1. PICK i \in DOMAIN deployments :
              /\ deployments[i].state = "queued"
              /\ \A j \in 1 .. i - 1 : deployments[j].state \in {"finished", "failed"}
              /\ deployments' = [deployments EXCEPT
                                ![i] = [state |-> "running", env |-> stored, commit |-> pinned]]
      BY <1>4 DEF Switching!StartDeployment
    <2>2. UNCHANGED <<stored, pinned, live, executions, run>>
      BY <1>4 DEF Switching!StartDeployment
    <2>3. PICK started : started = [state |-> "running", env |-> stored, commit |-> pinned]
      OBVIOUS
    <2>4. /\ DOMAIN deployments' = DOMAIN deployments /\ Len(deployments') = Len(deployments)
          /\ deployments'[i] = started
          /\ \A j \in DOMAIN deployments \ {i} : deployments'[j] = deployments[j]
          /\ started.state = "running" /\ started.env = stored
          /\ DOMAIN deployments = 1 .. Len(deployments)
      BY <1>1, <2>1, <2>3
    <2>5. InQueue(deployments')
      <3>1. SUFFICES ASSUME NEW j \in DOMAIN deployments, NEW k \in DOMAIN deployments, j < k,
                            deployments'[k].state # "queued"
                     PROVE  deployments'[j].state \in {"finished", "failed"}
        BY <2>4 DEF InQueue
      <3>2. CASE k = i
        BY <2>1, <2>4, <3>1, <3>2
      <3>3. CASE k # i
        <4>1. deployments[j].state \in {"finished", "failed"}
          BY <1>1, <2>4, <3>1, <3>3 DEF InQueue
        <4>. QED  BY <2>1, <2>4, <4>1
      <3>. QED  BY <3>2, <3>3
    <2>6. ASSUME NEW r \in Runs  PROVE RunTrue(r, run[r], stored, executions', deployments', live')
      <3>1. RunTrue(r, run[r], stored, executions, deployments, live)
        BY <1>1
      <3>2. CASE run[r].phase \in {"await", "smoke"}
        <4>1. /\ run[r].deployment \in DOMAIN deployments /\ run[r].deployment = Len(deployments)
              /\ stored = Aim(run[r])
          BY <3>1, <3>2 DEF RunTrue
        <4>2. PICK k : k = run[r].deployment
          OBVIOUS
        <4>3. /\ deployments'[k].state # "queued" => deployments'[k].env = Aim(run[r])
              /\ deployments'[k].state = "finished" =>
                    live = [env |-> Aim(run[r]), commit |-> deployments'[k].commit]
              /\ run[r].phase = "smoke" =>
                    deployments'[k].state = "finished" /\ deployments'[k].commit = r
          <5>1. CASE k = i
            BY <2>1, <2>4, <3>1, <4>1, <4>2, <5>1 DEF RunTrue
          <5>2. CASE k # i
            BY <2>4, <3>1, <3>2, <4>1, <4>2, <5>2 DEF RunTrue
          <5>. QED  BY <5>1, <5>2
        <4>. QED  BY <2>2, <2>4, <3>1, <4>1, <4>2, <4>3 DEF RunTrue
      <3>3. CASE run[r].phase \notin {"await", "smoke"}
        BY <2>2, <3>1, <3>3 DEF RunTrue
      <3>. QED  BY <3>2, <3>3
    <2>. QED  BY <1>1, <2>2, <2>5, <2>6, CoolifyStep
  <1>5. ASSUME Switching!EndDeployment  PROVE Goal
    <2>1. PICK i \in DOMAIN deployments, end \in {"finished", "failed"} :
              /\ deployments[i].state = "running"
              /\ deployments' = [deployments EXCEPT ![i].state = end]
              /\ live' = IF end = "finished"
                         THEN [env |-> deployments[i].env, commit |-> deployments[i].commit] ELSE live
      BY <1>5 DEF Switching!EndDeployment
    <2>2. UNCHANGED <<stored, pinned, executions, run>>
      BY <1>5 DEF Switching!EndDeployment
    <2>3. PICK ended : ended = [deployments[i] EXCEPT !.state = end]
      OBVIOUS
    <2>4. deployments[i] \in Deployment
      BY <1>1
    <2>5. /\ DOMAIN deployments' = DOMAIN deployments /\ Len(deployments') = Len(deployments)
          /\ deployments'[i] = ended
          /\ \A j \in DOMAIN deployments \ {i} : deployments'[j] = deployments[j]
          /\ ended.state = end /\ ended.env = deployments[i].env /\ ended.commit = deployments[i].commit
          /\ DOMAIN deployments = 1 .. Len(deployments)
      BY <1>1, <2>1, <2>3, <2>4 DEF Deployment
    <2>6. InQueue(deployments')
      <3>1. SUFFICES ASSUME NEW j \in DOMAIN deployments, NEW k \in DOMAIN deployments, j < k,
                            deployments'[k].state # "queued"
                     PROVE  deployments'[j].state \in {"finished", "failed"}
        BY <2>5 DEF InQueue
      <3>2. deployments[k].state # "queued"
        BY <2>1, <2>5, <3>1
      <3>3. deployments[j].state \in {"finished", "failed"}
        BY <1>1, <3>1, <3>2 DEF InQueue
      <3>. QED  BY <2>5, <3>3
    <2>7. ASSUME NEW r \in Runs  PROVE RunTrue(r, run[r], stored, executions', deployments', live')
      <3>1. RunTrue(r, run[r], stored, executions, deployments, live)
        BY <1>1
      <3>2. CASE run[r].phase \in {"await", "smoke"}
        <4>1. /\ run[r].deployment \in DOMAIN deployments /\ run[r].deployment = Len(deployments)
          BY <3>1, <3>2 DEF RunTrue
        <4>2. PICK k : k = run[r].deployment
          OBVIOUS
        <4>3. i \in 1 .. k /\ k \in DOMAIN deployments
          BY <1>1, <2>5, <4>1, <4>2
        \* Another one that is running is before, so that of the run is not yet begun.
        <4>4. i # k => deployments[k].state = "queued"
          BY <1>1, <2>1, <2>5, <4>3 DEF InQueue
        <4>5. /\ deployments'[k].state # "queued" => deployments'[k].env = Aim(run[r])
              /\ deployments'[k].state = "finished" =>
                    live' = [env |-> Aim(run[r]), commit |-> deployments'[k].commit]
              /\ run[r].phase = "smoke" =>
                    deployments'[k].state = "finished" /\ deployments'[k].commit = r
          <5>1. CASE k = i
            BY <2>1, <2>5, <3>1, <3>2, <4>1, <4>2, <5>1 DEF RunTrue
          <5>2. CASE k # i
            BY <2>1, <2>5, <3>1, <3>2, <4>1, <4>2, <4>4, <5>2 DEF RunTrue
          <5>. QED  BY <5>1, <5>2
        <4>. QED  BY <2>2, <2>5, <3>1, <4>1, <4>2, <4>5 DEF RunTrue
      <3>3. CASE run[r].phase \notin {"await", "smoke"}
        BY <2>2, <3>1, <3>3 DEF RunTrue
      <3>. QED  BY <3>2, <3>3
    <2>. QED  BY <1>1, <2>2, <2>6, <2>7, CoolifyStep
  <1>6. ASSUME UNCHANGED Switching!activationVars  PROVE Goal
    BY <1>1, <1>6, CoolifyStep DEF Switching!activationVars

  \* A run whose record changes, but not what Coolify keeps of deployments.
  <1>7. ASSUME NEW r \in Runs, NEW next, run[r].phase # "done", next.phase # "idle",
               run[r].phase = "idle" => \A q \in Runs : q < r => run[q].phase = "done",
               run' = [run EXCEPT ![r] = next], next.receipt = "none",
               stored' = stored, executions' \in Seq({"running", "success", "failed"}),
               deployments' = deployments,
               RunTrue(r, next, stored, executions', deployments, live')
        PROVE  Goal
    <2>1. Tells(r, next)
      BY <1>7 DEF Tells
    <2>. HIDE DEF Goal
    <2>2. InQueue(deployments')
      BY <1>1, <1>7
    <2>3. RunTrue(r, next, stored', executions', deployments', live')
      BY <1>7
    <2>4. ReceiptsInv' /\ Switching!ReceiptsHold
      BY <1>7, <2>1, <2>2, <2>3, GoingStep
    <2>. QED  BY <2>4 DEF Goal
  <1>8. ASSUME NEW r \in Runs, Switching!Fail(r), run[r].phase \notin {"idle", "done"},
               UNCHANGED <<stored, executions, deployments>>
        PROVE  Goal
    BY <1>1, <1>8, RestStep
  <1>9. ASSUME NEW r \in Runs, NEW stage, Switching!To(r, stage), stage \notin {"idle", "done"},
               run[r].phase \notin {"idle", "done"},
               UNCHANGED <<stored, executions, deployments, live>>,
               stage # "parse", stage \in Acts <=> run[r].phase \in Acts,
               stage \in {"deploy", "await", "smoke"} => stored = Aim(run[r]),
               stage \in {"await", "smoke"} =>
                  /\ run[r].deployment = Len(deployments) /\ run[r].deployment \in DOMAIN deployments
                  /\ deployments[run[r].deployment].state # "queued" =>
                        deployments[run[r].deployment].env = Aim(run[r])
                  /\ deployments[run[r].deployment].state = "finished" =>
                        live = [env |-> Aim(run[r]), commit |-> deployments[run[r].deployment].commit],
               stage = "smoke" => /\ deployments[run[r].deployment].state = "finished"
                                  /\ deployments[run[r].deployment].commit = r
        PROVE  Goal
    <2>1. PICK next : next = [run[r] EXCEPT !.phase = stage]
      OBVIOUS
    <2>2. /\ next.phase = stage /\ next.receipt = run[r].receipt /\ next.attempted = run[r].attempted
          /\ next.backup = run[r].backup /\ next.known = run[r].known
          /\ next.undoing = run[r].undoing /\ next.snapshot = run[r].snapshot
          /\ next.request = run[r].request /\ next.deployment = run[r].deployment
      BY <1>1, <2>1 DEF SwitchFields
    <2>3. run' = [run EXCEPT ![r] = next]
      BY <1>1, <1>9, <2>1 DEF Switching!To
    <2>4. Aim(next) = Aim(run[r])
      BY <2>2 DEF Aim
    <2>5. RunTrue(r, run[r], stored, executions, deployments, live)
      BY <1>1
    <2>6. RunTrue(r, next, stored, executions', deployments, live')
      BY <1>9, <2>2, <2>4, <2>5 DEF RunTrue
    <2>7. next.receipt = "none"
      BY <1>9, <2>2, <2>5 DEF RunTrue
    <2>. HIDE DEF Goal
    <2>. QED  BY <1>1, <1>7, <1>9, <2>2, <2>3, <2>6, <2>7
  <1>10. ASSUME NEW r \in Runs, Switching!Begin(r)  PROVE Goal
    <2>1. PICK q \in Requests :
              run' = [run EXCEPT ![r] = [Switching!NotBegun EXCEPT !.phase = "pin", !.request = q]]
      BY <1>10 DEF Switching!Begin
    <2>2. PICK next : next = [Switching!NotBegun EXCEPT !.phase = "pin", !.request = q]
      OBVIOUS
    <2>3. next.phase = "pin" /\ next.receipt = "none" /\ ~next.attempted
      BY <2>2, RunNotBegun DEF SwitchFields, Switching!NotBegun
    <2>4. /\ UNCHANGED <<stored, live, deployments, executions>>
          /\ run[r].phase = "idle" /\ \A p \in Runs : p < r => run[p].phase = "done"
      BY <1>10 DEF Switching!Begin, Switching!coolifyVars, Switching!Going
    <2>5. RunTrue(r, next, stored, executions', deployments, live')
      BY <2>3 DEF RunTrue, Acts
    <2>. HIDE DEF Goal
    <2>. QED  BY <1>1, <1>7, <2>1, <2>2, <2>3, <2>4, <2>5
  <1>11. ASSUME NEW r \in Runs, Switching!RequestFails(r)  PROVE Goal
    <2>1. /\ UNCHANGED <<stored, executions, deployments>> /\ Switching!Fail(r)
          /\ run[r].phase \notin {"idle", "done"}
      BY <1>11 DEF Switching!RequestFails, Switching!coolifyVars
    <2>. QED  BY <1>8, <2>1
  <1>12. ASSUME NEW r \in Runs, Switching!Kill(r)  PROVE Goal
    <2>1. /\ UNCHANGED <<stored, executions, deployments>> /\ Switching!End(r, "killed")
          /\ run[r].phase \notin {"idle", "done"}
      BY <1>12 DEF Switching!Kill, Switching!coolifyVars
    <2>. QED  BY <1>1, <2>1, RestStep
  <1>13. ASSUME NEW r \in Runs, Switching!Pin(r)  PROVE Goal
    <2>1. UNCHANGED <<stored, live, deployments, executions>> /\ run[r].phase = "pin"
      BY <1>13 DEF Switching!Pin, Switching!Going
    <2>2. Switching!To(r, "pinned") \/ Switching!Fail(r)
      BY <1>13 DEF Switching!Pin
    <2>. HIDE DEF Goal
    <2>3. CASE Switching!To(r, "pinned")
      BY <1>9, <2>1, <2>3 DEF Acts
    <2>. QED  BY <1>8, <2>1, <2>2, <2>3
  <1>14. ASSUME NEW r \in Runs, Switching!ReadPin(r)  PROVE Goal
    <2>1. UNCHANGED <<stored, live, deployments, executions>> /\ run[r].phase = "pinned"
      BY <1>14 DEF Switching!ReadPin, Switching!coolifyVars, Switching!Going
    <2>2. RunTrue(r, run[r], stored, executions, deployments, live)
      BY <1>1
    <2>3. CASE run' = [run EXCEPT ![r].phase = "backup", ![r].known = Len(executions)]
      <3>1. PICK next : next = [run[r] EXCEPT !.phase = "backup", !.known = Len(executions)]
        OBVIOUS
      <3>2. run' = [run EXCEPT ![r] = next]
        BY <1>1, <2>3, <3>1 DEF SwitchFields
      <3>3. /\ next.phase = "backup" /\ next.receipt = run[r].receipt
            /\ next.attempted = run[r].attempted
        BY <1>1, <3>1 DEF SwitchFields
      <3>4. RunTrue(r, next, stored, executions', deployments, live')
        BY <2>1, <2>2, <3>3 DEF RunTrue, Acts
      <3>5. next.receipt = "none"
        BY <2>1, <2>2, <3>3 DEF RunTrue
      <3>. HIDE DEF Goal
      <3>. QED  BY <1>1, <1>7, <2>1, <3>2, <3>3, <3>4, <3>5
    <2>. HIDE DEF Goal
    <2>4. \/ run' = [run EXCEPT ![r].phase = "backup", ![r].known = Len(executions)]
          \/ Switching!Fail(r)
      BY <1>14 DEF Switching!ReadPin
    <2>. QED  BY <1>8, <2>1, <2>3, <2>4
  <1>15. ASSUME NEW r \in Runs, Switching!AskForBackup(r)  PROVE Goal
    <2>1. /\ UNCHANGED <<stored, live, deployments>> /\ run[r].phase = "backup"
          /\ executions' = Append(executions, "running")
          /\ run' = [run EXCEPT ![r].backup = Len(executions) + 1]
      BY <1>15 DEF Switching!AskForBackup, Switching!Going
    <2>2. RunTrue(r, run[r], stored, executions, deployments, live)
      BY <1>1
    <2>3. PICK next : next = [run[r] EXCEPT !.backup = Len(executions) + 1]
      OBVIOUS
    <2>4. run' = [run EXCEPT ![r] = next]
      BY <1>1, <2>1, <2>3
    <2>5. /\ next.phase = "backup" /\ next.receipt = run[r].receipt
          /\ next.attempted = run[r].attempted
      BY <1>1, <2>1, <2>3 DEF SwitchFields
    <2>6. RunTrue(r, next, stored, executions', deployments, live')
      BY <2>1, <2>2, <2>5 DEF RunTrue, Acts
    <2>7. next.receipt = "none" /\ executions' \in Seq({"running", "success", "failed"})
      BY <1>1, <2>1, <2>2, <2>5 DEF RunTrue
    <2>. HIDE DEF Goal
    <2>. QED  BY <1>1, <1>7, <2>1, <2>4, <2>5, <2>6, <2>7
  <1>16. ASSUME NEW r \in Runs, Switching!PollBackup(r)  PROVE Goal
    <2>1. UNCHANGED <<stored, live, deployments, executions>> /\ run[r].phase = "backup"
      BY <1>16 DEF Switching!PollBackup, Switching!coolifyVars, Switching!Going
    <2>2. RunTrue(r, run[r], stored, executions, deployments, live)
      BY <1>1
    <2>3. ASSUME NEW i \in Switching!Added(r), executions[i] = "success",
                 run' = [run EXCEPT ![r].phase = "parse", ![r].backup = i]
          PROVE  Goal
      <3>1. PICK next : next = [run[r] EXCEPT !.phase = "parse", !.backup = i]
        OBVIOUS
      <3>2. run' = [run EXCEPT ![r] = next]
        BY <1>1, <2>3, <3>1 DEF SwitchFields
      <3>3. /\ next.phase = "parse" /\ next.receipt = run[r].receipt
            /\ next.attempted = run[r].attempted /\ next.backup = i /\ next.known = run[r].known
        BY <1>1, <3>1 DEF SwitchFields
      <3>4. RunTrue(r, next, stored, executions', deployments, live')
        BY <2>1, <2>2, <2>3, <3>3 DEF RunTrue, Acts, Switching!Added
      <3>5. next.receipt = "none"
        BY <2>1, <2>2, <3>3 DEF RunTrue
      <3>. HIDE DEF Goal
      <3>. QED  BY <1>1, <1>7, <2>1, <3>2, <3>3, <3>4, <3>5
    <2>4. PICK i \in Switching!Added(r) :
              \/ /\ executions[i] = "success"
                 /\ run' = [run EXCEPT ![r].phase = "parse", ![r].backup = i]
              \/ Switching!Fail(r)
      BY <1>16 DEF Switching!PollBackup
    <2>. HIDE DEF Goal
    <2>. QED  BY <1>8, <2>1, <2>3, <2>4
  <1>17. ASSUME NEW r \in Runs, Switching!Parse(r)  PROVE Goal
    <2>1. UNCHANGED <<stored, live, deployments, executions>> /\ run[r].phase = "parse"
      BY <1>17 DEF Switching!Parse, Switching!coolifyVars, Switching!Going
    <2>2. RunTrue(r, run[r], stored, executions, deployments, live)
      BY <1>1
    <2>3. CASE run' = [run EXCEPT ![r].phase = "patch", ![r].snapshot = stored]
      <3>1. PICK next : next = [run[r] EXCEPT !.phase = "patch", !.snapshot = stored]
        OBVIOUS
      <3>2. run' = [run EXCEPT ![r] = next]
        BY <1>1, <2>3, <3>1 DEF SwitchFields
      <3>3. /\ next.phase = "patch" /\ next.receipt = run[r].receipt
            /\ next.backup = run[r].backup /\ next.known = run[r].known
        BY <1>1, <3>1 DEF SwitchFields
      <3>4. RunTrue(r, next, stored, executions', deployments, live')
        BY <2>1, <2>2, <3>3 DEF RunTrue, Acts
      <3>5. next.receipt = "none"
        BY <2>1, <2>2, <3>3 DEF RunTrue
      <3>. HIDE DEF Goal
      <3>. QED  BY <1>1, <1>7, <2>1, <3>2, <3>3, <3>4, <3>5
    <2>4. \/ run' = [run EXCEPT ![r].phase = "patch", ![r].snapshot = stored]
          \/ Switching!Fail(r)
      BY <1>17 DEF Switching!Parse
    <2>. HIDE DEF Goal
    <2>. QED  BY <1>8, <2>1, <2>3, <2>4

  \* The only step that writes the environment, behind the backup.
  <1>18. ASSUME NEW r \in Runs, Switching!Patch(r)  PROVE Goal
    <2>1. /\ UNCHANGED <<live, deployments, executions>> /\ run[r].phase = "patch"
      BY <1>18 DEF Switching!Patch, Switching!Going
    <2>2. RunTrue(r, run[r], stored, executions, deployments, live)
      BY <1>1
    <2>3. ASSUME NEW next, run' = [run EXCEPT ![r] = next], next.phase \in {"patch", "verify"},
                 next.receipt = "none", next.backup = run[r].backup, next.known = run[r].known
          PROVE  Goal
      <3>1. RunTrue(r, next, stored', executions', deployments', live')
        BY <2>1, <2>2, <2>3 DEF RunTrue, Acts
      <3>2. Tells(r, next)
        BY <2>1, <2>2, <2>3 DEF Tells, RunTrue, Acts
      <3>3. InQueue(deployments') /\ executions' \in Seq({"running", "success", "failed"})
        BY <1>1, <2>1
      <3>. HIDE DEF Goal
      <3>4. ReceiptsInv' /\ Switching!ReceiptsHold
        BY <2>1, <2>3, <3>1, <3>2, <3>3, GoingStep
      <3>. QED  BY <3>4 DEF Goal
    <2>4. CASE run' = [run EXCEPT ![r].phase = "verify", ![r].attempted = TRUE]
      <3>1. PICK next : next = [run[r] EXCEPT !.phase = "verify", !.attempted = TRUE]
        OBVIOUS
      <3>2. run' = [run EXCEPT ![r] = next]
        BY <1>1, <2>4, <3>1 DEF SwitchFields
      <3>3. /\ next.phase = "verify" /\ next.receipt = run[r].receipt
            /\ next.backup = run[r].backup /\ next.known = run[r].known
        BY <1>1, <3>1 DEF SwitchFields
      <3>4. next.receipt = "none"
        BY <2>1, <2>2, <3>3 DEF RunTrue
      <3>. HIDE DEF Goal
      <3>. QED  BY <2>3, <3>2, <3>3, <3>4
    <2>5. CASE run' = [run EXCEPT ![r].phase = "patch", ![r].undoing = TRUE, ![r].attempted = TRUE]
      <3>1. PICK next : next = [run[r] EXCEPT !.phase = "patch", !.undoing = TRUE, !.attempted = TRUE]
        OBVIOUS
      <3>2. run' = [run EXCEPT ![r] = next]
        BY <1>1, <2>5, <3>1 DEF SwitchFields
      <3>3. /\ next.phase = "patch" /\ next.receipt = run[r].receipt
            /\ next.backup = run[r].backup /\ next.known = run[r].known
        BY <1>1, <3>1 DEF SwitchFields
      <3>4. next.receipt = "none"
        BY <2>1, <2>2, <3>3 DEF RunTrue
      <3>. HIDE DEF Goal
      <3>. QED  BY <2>3, <3>2, <3>3, <3>4
    <2>6. CASE Switching!End(r, "not rolled back")
      <3>1. PICK next : next = [Switching!NotBegun EXCEPT !.phase = "done", !.receipt = "not rolled back"]
        OBVIOUS
      <3>2. next.phase = "done" /\ next.receipt = "not rolled back" /\ ~next.attempted
        BY <3>1, RunNotBegun DEF SwitchFields
      <3>3. RunTrue(r, next, stored', executions', deployments', live')
        BY <3>2 DEF RunTrue, Acts
      <3>4. Tells(r, next)
        BY <2>1, <2>2, <3>2 DEF Tells, RunTrue, Acts
      <3>5. run' = [run EXCEPT ![r] = next]
        BY <2>6, <3>1 DEF Switching!End
      <3>6. InQueue(deployments') /\ executions' \in Seq({"running", "success", "failed"})
        BY <1>1, <2>1
      <3>. HIDE DEF Goal
      <3>7. ReceiptsInv' /\ Switching!ReceiptsHold
        BY <2>1, <3>2, <3>3, <3>4, <3>5, <3>6, GoingStep
      <3>. QED  BY <3>7 DEF Goal
    <2>7. \/ run' = [run EXCEPT ![r].phase = "verify", ![r].attempted = TRUE]
          \/ run' = [run EXCEPT ![r].phase = "patch", ![r].undoing = TRUE, ![r].attempted = TRUE]
          \/ run[r].undoing /\ Switching!Fail(r)
      BY <1>18 DEF Switching!Patch, Switching!Attempted
    <2>8. run[r].undoing /\ Switching!Fail(r) => Switching!End(r, "not rolled back")
      BY DEF Switching!Fail
    <2>. HIDE DEF Goal
    <2>. QED  BY <2>4, <2>5, <2>6, <2>7, <2>8
  <1>19. ASSUME NEW r \in Runs, Switching!Verify(r)  PROVE Goal
    <2>1. UNCHANGED <<stored, live, deployments, executions>> /\ run[r].phase = "verify"
      BY <1>19 DEF Switching!Verify, Switching!coolifyVars, Switching!Going
    <2>2. \/ stored = Switching!Target(r) /\ Switching!To(r, "deploy")
          \/ Switching!Fail(r)
      BY <1>19 DEF Switching!Verify
    <2>3. Switching!Target(r) = Aim(run[r])
      BY DEF Switching!Target, Aim
    <2>. HIDE DEF Goal
    <2>4. CASE stored = Switching!Target(r) /\ Switching!To(r, "deploy")
      BY <1>9, <2>1, <2>3, <2>4 DEF Acts
    <2>. QED  BY <1>8, <2>1, <2>2, <2>4

  \* The deployment that is asked for is the last of the queue.
  <1>20. ASSUME NEW r \in Runs, Switching!Deploy(r)  PROVE Goal
    <2>1. /\ UNCHANGED <<stored, live, executions>> /\ run[r].phase = "deploy"
          /\ deployments' =
                Append(deployments, [state |-> "queued", env |-> stored, commit |-> pinned])
      BY <1>20 DEF Switching!Deploy, Switching!Going
    <2>2. RunTrue(r, run[r], stored, executions, deployments, live)
      BY <1>1
    <2>3. PICK asked : asked = [state |-> "queued", env |-> stored, commit |-> pinned]
      OBVIOUS
    <2>4. /\ asked.state = "queued" /\ Len(deployments) \in Nat
          /\ DOMAIN deployments = 1 .. Len(deployments)
          /\ Len(deployments') = Len(deployments) + 1
          /\ DOMAIN deployments' = 1 .. Len(deployments) + 1
          /\ deployments'[Len(deployments) + 1] = asked
          /\ \A i \in DOMAIN deployments : deployments'[i] = deployments[i]
      BY <1>1, <2>1, <2>3
    <2>5. InQueue(deployments')
      BY <1>1, <2>4 DEF InQueue
    <2>6. CASE run' = [run EXCEPT ![r].phase = "await", ![r].deployment = Len(deployments) + 1]
      <3>1. PICK next : next = [run[r] EXCEPT !.phase = "await", !.deployment = Len(deployments) + 1]
        OBVIOUS
      <3>2. run' = [run EXCEPT ![r] = next]
        BY <1>1, <2>6, <3>1 DEF SwitchFields
      <3>3. /\ next.phase = "await" /\ next.receipt = run[r].receipt
            /\ next.backup = run[r].backup /\ next.known = run[r].known
            /\ next.undoing = run[r].undoing /\ next.snapshot = run[r].snapshot
            /\ next.request = run[r].request /\ next.deployment = Len(deployments) + 1
        BY <1>1, <3>1 DEF SwitchFields
      <3>4. Aim(next) = Aim(run[r])
        BY <3>3 DEF Aim
      <3>5. RunTrue(r, next, stored', executions', deployments', live')
        BY <2>1, <2>2, <2>4, <3>3, <3>4 DEF RunTrue, Acts
      <3>6. next.receipt = "none"
        BY <2>1, <2>2, <3>3 DEF RunTrue
      <3>7. Tells(r, next)
        BY <2>1, <3>6 DEF Tells
      <3>8. executions' \in Seq({"running", "success", "failed"})
        BY <1>1, <2>1
      <3>. HIDE DEF Goal
      <3>9. ReceiptsInv' /\ Switching!ReceiptsHold
        BY <2>1, <2>5, <3>2, <3>3, <3>5, <3>7, <3>8, GoingStep
      <3>. QED  BY <3>9 DEF Goal
    <2>7. CASE Switching!Fail(r)
      <3>1. /\ run[r].phase \notin {"idle", "done"}
            /\ stored' = stored /\ executions' = executions
        BY <2>1
      <3>. HIDE DEF Goal
      <3>2. ReceiptsInv' /\ Switching!ReceiptsHold
        BY <2>5, <2>7, <3>1, RestStep
      <3>. QED  BY <3>2 DEF Goal
    <2>. HIDE DEF Goal
    <2>8. \/ run' = [run EXCEPT ![r].phase = "await", ![r].deployment = Len(deployments) + 1]
          \/ Switching!Fail(r)
      BY <1>20 DEF Switching!Deploy
    <2>. QED  BY <2>6, <2>7, <2>8
  <1>21. ASSUME NEW r \in Runs, Switching!PollDeployment(r)  PROVE Goal
    <2>1. UNCHANGED <<stored, live, deployments, executions>> /\ run[r].phase = "await"
      BY <1>21 DEF Switching!PollDeployment, Switching!coolifyVars, Switching!Going
    <2>2. RunTrue(r, run[r], stored, executions, deployments, live)
      BY <1>1
    <2>3. \/ /\ deployments[run[r].deployment].state = "finished"
             /\ deployments[run[r].deployment].commit = r
             /\ Switching!To(r, "smoke")
          \/ Switching!Fail(r)
      BY <1>21 DEF Switching!PollDeployment
    <2>4. CASE /\ deployments[run[r].deployment].state = "finished"
               /\ deployments[run[r].deployment].commit = r
               /\ Switching!To(r, "smoke")
      <3>1. /\ run[r].deployment = Len(deployments) /\ run[r].deployment \in DOMAIN deployments
            /\ deployments[run[r].deployment].state # "queued" =>
                  deployments[run[r].deployment].env = Aim(run[r])
            /\ deployments[run[r].deployment].state = "finished" =>
                  live = [env |-> Aim(run[r]), commit |-> deployments[run[r].deployment].commit]
            /\ stored = Aim(run[r])
        BY <2>1, <2>2 DEF RunTrue
      <3>. HIDE DEF Goal
      <3>. QED  BY <1>9, <2>1, <2>4, <3>1 DEF Acts
    <2>. HIDE DEF Goal
    <2>. QED  BY <1>8, <2>1, <2>3, <2>4
  <1>22. ASSUME NEW r \in Runs, Switching!Smoke(r)  PROVE Goal
    <2>1. /\ UNCHANGED <<stored, live, deployments, executions>> /\ run[r].phase = "smoke"
          /\ Switching!End(r, IF run[r].undoing THEN "rolled back" ELSE "succeeded")
      BY <1>22 DEF Switching!Smoke, Switching!coolifyVars, Switching!Going
    <2>2. /\ stored = Aim(run[r])
          /\ live = [env |-> Aim(run[r]), commit |-> r]
      BY <1>1, <2>1 DEF RunTrue
    <2>3. PICK receipt \in {"rolled back", "succeeded"} :
              receipt = IF run[r].undoing THEN "rolled back" ELSE "succeeded"
      OBVIOUS
    <2>4. PICK next : next = [Switching!NotBegun EXCEPT !.phase = "done", !.receipt = receipt]
      OBVIOUS
    <2>5. next.phase = "done" /\ next.receipt = receipt /\ ~next.attempted
      BY <2>4, RunNotBegun DEF SwitchFields
    <2>6. RunTrue(r, next, stored', executions', deployments', live')
      BY <2>5 DEF RunTrue, Acts
    <2>7. Tells(r, next)
      BY <2>1, <2>2, <2>3, <2>5 DEF Tells, Aim
    <2>8. run' = [run EXCEPT ![r] = next]
      BY <2>1, <2>3, <2>4 DEF Switching!End
    <2>9. InQueue(deployments') /\ executions' \in Seq({"running", "success", "failed"})
      BY <1>1, <2>1
    <2>. HIDE DEF Goal
    <2>10. ReceiptsInv' /\ Switching!ReceiptsHold
      BY <2>1, <2>5, <2>6, <2>7, <2>8, <2>9, GoingStep
    <2>. QED  BY <2>10 DEF Goal
  <1>. HIDE DEF Goal
  <1>23. ASSUME Switching!Next  PROVE Goal
    BY <1>2, <1>3, <1>4, <1>5, <1>10, <1>11, <1>12, <1>13, <1>14, <1>15, <1>16, <1>17, <1>18,
       <1>19, <1>20, <1>21, <1>22, <1>23 DEF Switching!Next
  <1>24. Goal
    BY <1>6, <1>23
  <1>. QED  BY <1>24 DEF Goal

\* A receipt of success or of a rollback says what the application runs, one of a failure
\* that the environment was not touched; and nothing is written before a backup that began
\* after the run did.
THEOREM ReceiptsAreTrue ==
    ASSUME RequestsSwitchOn, Runs \subseteq Int
    PROVE  Switching!Spec => [][Switching!ReceiptsHold]_(Switching!activationVars)
  <1>. DEFINE Inv == SwitchesInv /\ ReceiptsInv
  <1>1. ASSUME Switching!Init  PROVE Inv
    <2>1. SwitchesInv
      BY <1>1, SwitchesStart
    <2>2. /\ executions = << >> /\ deployments = << >>
          /\ \A r \in Runs : run[r] = Switching!NotBegun
      BY <1>1 DEF Switching!Init
    <2>3. \A r \in Runs : run[r].phase = "idle" /\ run[r].receipt = "none" /\ ~run[r].attempted
      BY <2>2, RunNotBegun DEF Switching!NotBegun
    <2>4. executions \in Seq({"running", "success", "failed"}) /\ InQueue(deployments)
      BY <2>2 DEF InQueue
    <2>. QED  BY <2>1, <2>3, <2>4 DEF ReceiptsInv, RunTrue, Acts
  <1>2. ASSUME Inv, [Switching!Next]_(Switching!activationVars)
        PROVE  Inv' /\ Switching!ReceiptsHold
    BY <1>2, SwitchesStep, ReceiptsStep
  <1>. HIDE DEF Inv
  <1>. QED  BY <1>1, <1>2, PTL DEF Switching!Spec

-----------------------------------------------------------------------------
(* Bundles.  The step of a run says which files it has given their names,  *)
(* and what is taken away again goes dump first.                           *)
CONSTANTS Dumps, Copies, Verifiers, MinAge, MaxAge, Retention, MaxContent, MaxHour
VARIABLES content, hour, backup, local, remote, shipping, verifier, restored
Saving == INSTANCE Backups

BackupFields == {"stage", "snapshot", "dump", "metadata", "born", "step", "complete"}
BackupStages == {"none", "dump", "count", "publish", "cleanup", "over"}

\* What may be said of a backup and its files.  A dump that has its name has its sidecars,
\* which are of the same snapshot.
FilesSound(record, files) ==
    /\ DOMAIN record = BackupFields
    /\ record.stage \in BackupStages
    /\ record.step \in 1 .. 4
    /\ "dump" \in files => Saving!Bundle \subseteq files /\ record.dump = record.metadata
    /\ record.stage \in {"none", "dump", "count"} => files \cap Saving!Bundle = {} /\ record.step = 1
    /\ record.stage \in {"count", "publish"} => record.dump = record.snapshot
    /\ record.stage = "publish" =>
          /\ record.metadata = record.snapshot
          /\ record.step >= 2 => "metadata" \in files
          /\ record.step >= 3 => "checksum" \in files

BundlesInv ==
    /\ DOMAIN backup = Saving!Ids /\ DOMAIN local = Saving!Ids
    /\ \A b \in Saving!Ids : FilesSound(backup[b], local[b])

\* A step of one backup.
LEMMA BackupStep ==
    ASSUME BundlesInv, NEW b \in Saving!Ids, NEW next, NEW files, FilesSound(next, files),
           backup' = [backup EXCEPT ![b] = next] \/ (backup' = backup /\ next = backup[b]),
           local' = [local EXCEPT ![b] = files] \/ (local' = local /\ files = local[b])
    PROVE  BundlesInv'
  <1>1. /\ DOMAIN backup' = Saving!Ids /\ DOMAIN local' = Saving!Ids
        /\ backup'[b] = next /\ local'[b] = files
        /\ \A c \in Saving!Ids \ {b} : backup'[c] = backup[c] /\ local'[c] = local[c]
    BY DEF BundlesInv
  <1>2. ASSUME NEW c \in Saving!Ids  PROVE FilesSound(backup'[c], local'[c])
    BY <1>1 DEF BundlesInv
  <1>. QED  BY <1>1, <1>2 DEF BundlesInv, FilesSound

\* There are no files at first.
LEMMA BundlesInit == Saving!Init => BundlesInv
  <1>1. ASSUME Saving!Init  PROVE BundlesInv
    <2>1. ASSUME NEW b \in Saving!Ids  PROVE FilesSound(backup[b], local[b])
      BY <1>1 DEF Saving!Init, FilesSound, BackupFields, BackupStages
    <2>. QED  BY <1>1, <2>1 DEF Saving!Init, BundlesInv
  <1>. QED  BY <1>1

\* Every step keeps the invariant of the bundles.
LEMMA BundlesStep ==
    ASSUME BundlesInv, [Saving!Next]_(Saving!backupVars)
    PROVE  BundlesInv'
  <1>1. ASSUME NEW b \in Saving!Ids  PROVE FilesSound(backup[b], local[b]) /\ DOMAIN backup[b] = BackupFields
    BY DEF BundlesInv, FilesSound
  <1>2. DOMAIN backup = Saving!Ids /\ DOMAIN local = Saving!Ids
    BY DEF BundlesInv
  <1>3. Dumps \subseteq Saving!Ids /\ Copies \subseteq Saving!Ids
    BY DEF Saving!Ids
  <1>4. Saving!Bundle = {"metadata", "checksum", "dump"}
    BY DEF Saving!Bundle
  \* Only the stage changes, to one that says nothing of the files.
  <1>5. ASSUME NEW b \in Saving!Ids, NEW stage \in {"cleanup", "over"}, NEW complete,
               backup' = [backup EXCEPT ![b] = [backup[b] EXCEPT !.stage = stage, !.complete = complete]],
               local' = local
        PROVE  BundlesInv'
    <2>1. PICK next : next = [backup[b] EXCEPT !.stage = stage, !.complete = complete]
      OBVIOUS
    <2>2. /\ DOMAIN next = BackupFields /\ next.stage = stage /\ next.step = backup[b].step
          /\ next.dump = backup[b].dump /\ next.metadata = backup[b].metadata
      BY <1>1, <2>1 DEF BackupFields
    <2>3. FilesSound(next, local[b])
      BY <1>1, <2>2 DEF FilesSound, BackupStages
    <2>. QED  BY <1>5, <2>1, <2>3, BackupStep
  <1>6. ASSUME NEW b \in Saving!Ids, NEW stage \in {"cleanup", "over"},
               backup' = [backup EXCEPT ![b].stage = stage], local' = local
        PROVE  BundlesInv'
    <2>1. backup' = [backup EXCEPT ![b] = [backup[b] EXCEPT !.stage = stage,
                                                            !.complete = backup[b].complete]]
      BY <1>1, <1>2, <1>6 DEF BackupFields
    <2>. QED  BY <1>5, <1>6, <2>1
  <1>7. ASSUME NEW b \in Dumps, Saving!ExportSnapshot(b)  PROVE BundlesInv'
    <2>1. PICK next : next = [backup[b] EXCEPT !.stage = "dump", !.snapshot = content, !.born = hour]
      OBVIOUS
    <2>2. /\ DOMAIN next = BackupFields /\ next.stage = "dump" /\ next.step = backup[b].step
      BY <1>1, <1>3, <2>1 DEF BackupFields
    <2>3. backup' = [backup EXCEPT ![b] = next] /\ local' = [local EXCEPT ![b] = {"work"}]
      BY <1>1, <1>2, <1>3, <1>7, <2>1 DEF Saving!ExportSnapshot, BackupFields
    <2>4. backup[b].step = 1
      BY <1>1, <1>3, <1>7 DEF Saving!ExportSnapshot, FilesSound
    <2>5. FilesSound(next, {"work"})
      BY <1>4, <2>2, <2>4 DEF FilesSound, BackupStages
    <2>. QED  BY <1>3, <2>3, <2>5, BackupStep
  <1>8. ASSUME NEW b \in Dumps, Saving!DumpDatabase(b)  PROVE BundlesInv'
    <2>1. PICK next : next = [backup[b] EXCEPT !.stage = "count", !.dump = backup[b].snapshot,
                                               !.born = hour]
      OBVIOUS
    <2>2. /\ DOMAIN next = BackupFields /\ next.stage = "count" /\ next.step = backup[b].step
          /\ next.dump = backup[b].snapshot /\ next.snapshot = backup[b].snapshot
      BY <1>1, <1>3, <2>1 DEF BackupFields
    <2>3. backup' = [backup EXCEPT ![b] = next] /\ local' = local
      BY <1>1, <1>2, <1>3, <1>8, <2>1 DEF Saving!DumpDatabase, Saving!restOfBackups, BackupFields
    <2>4. backup[b].step = 1 /\ local[b] \cap Saving!Bundle = {}
      BY <1>1, <1>3, <1>8 DEF Saving!DumpDatabase, FilesSound
    <2>5. FilesSound(next, local[b])
      BY <1>4, <2>2, <2>4 DEF FilesSound, BackupStages
    <2>. QED  BY <1>3, <2>3, <2>5, BackupStep
  <1>9. ASSUME NEW b \in Dumps, Saving!CountRows(b)  PROVE BundlesInv'
    <2>1. PICK next : next = [backup[b] EXCEPT !.stage = "publish", !.metadata = backup[b].snapshot]
      OBVIOUS
    <2>2. /\ DOMAIN next = BackupFields /\ next.stage = "publish" /\ next.step = backup[b].step
          /\ next.dump = backup[b].dump /\ next.snapshot = backup[b].snapshot
          /\ next.metadata = backup[b].snapshot
      BY <1>1, <1>3, <2>1 DEF BackupFields
    <2>3. backup' = [backup EXCEPT ![b] = next] /\ local' = local
      BY <1>1, <1>2, <1>3, <1>9, <2>1 DEF Saving!CountRows, Saving!Counted, Saving!restOfBackups,
         BackupFields
    <2>4. backup[b].step = 1 /\ local[b] \cap Saving!Bundle = {} /\ backup[b].dump = backup[b].snapshot
      BY <1>1, <1>3, <1>9 DEF Saving!CountRows, FilesSound
    <2>5. FilesSound(next, local[b])
      BY <1>4, <2>2, <2>4 DEF FilesSound, BackupStages
    <2>. QED  BY <1>3, <2>3, <2>5, BackupStep
  <1>10. ASSUME NEW b \in Dumps, Saving!Publish(b)  PROVE BundlesInv'
    <2>1. PICK step : step = backup[b].step
      OBVIOUS
    <2>2. step \in 1 .. 3 /\ backup[b].stage = "publish"
      BY <1>10, <2>1 DEF Saving!Publish, Saving!PublishOrder
    <2>3. PICK next : next = [backup[b] EXCEPT !.step = step + 1]
      OBVIOUS
    <2>4. /\ DOMAIN next = BackupFields /\ next.stage = "publish" /\ next.step = step + 1
          /\ next.dump = backup[b].dump /\ next.snapshot = backup[b].snapshot
          /\ next.metadata = backup[b].metadata
      BY <1>1, <1>3, <2>2, <2>3 DEF BackupFields
    <2>5. PICK file : file = Saving!PublishOrder[step]
      OBVIOUS
    <2>6. /\ step = 1 => file = "metadata"
          /\ step = 2 => file = "checksum"
          /\ step = 3 => file = "dump"
      BY <2>5 DEF Saving!PublishOrder
    <2>7. PICK files : files = (local[b] \cup {file}) \ (IF file = "dump" THEN {"work"} ELSE {})
      OBVIOUS
    <2>8. backup' = [backup EXCEPT ![b] = next] /\ local' = [local EXCEPT ![b] = files]
      BY <1>1, <1>2, <1>3, <1>10, <2>1, <2>3, <2>5, <2>7 DEF Saving!Publish, BackupFields
    <2>9. /\ FilesSound(backup[b], local[b]) /\ backup[b].metadata = backup[b].snapshot
          /\ backup[b].dump = backup[b].snapshot
      BY <1>1, <1>3, <2>2 DEF FilesSound
    <2>10. \A f \in Saving!Bundle : f \in files <=> f \in local[b] \/ f = file
      BY <1>4, <2>7
    <2>11. /\ step + 1 >= 2 => "metadata" \in files
           /\ step + 1 >= 3 => "checksum" \in files
      BY <1>4, <2>1, <2>2, <2>6, <2>9, <2>10 DEF FilesSound
    <2>12. "dump" \in files => Saving!Bundle \subseteq files
      <3>1. CASE step = 3
        BY <1>4, <2>6, <2>10, <2>11, <3>1
      <3>2. CASE step # 3
        BY <1>4, <2>2, <2>6, <2>9, <2>10, <3>2 DEF FilesSound
      <3>. QED  BY <3>1, <3>2
    <2>13. step + 1 \in 1 .. 4
      BY <2>2
    <2>14. FilesSound(next, files)
      BY <2>4, <2>9, <2>11, <2>12, <2>13 DEF FilesSound, BackupStages
    <2>. QED  BY <1>3, <2>8, <2>14, BackupStep
  <1>11. ASSUME NEW b \in Dumps, Saving!CompleteBackup(b)  PROVE BundlesInv'
    <2>1. /\ backup' = [backup EXCEPT ![b] = [backup[b] EXCEPT !.stage = "cleanup", !.complete = TRUE]]
          /\ local' = local
      BY <1>1, <1>2, <1>3, <1>11 DEF Saving!CompleteBackup, BackupFields
    <2>. QED  BY <1>3, <1>5, <2>1
  <1>12. ASSUME NEW b \in Dumps, Saving!StopBackup(b) \/ Saving!KillBackup(b)  PROVE BundlesInv'
    BY <1>3, <1>6, <1>12 DEF Saving!StopBackup, Saving!KillBackup
  <1>13. ASSUME NEW b \in Dumps, Saving!CleanUpIncomplete(b)  PROVE BundlesInv'
    <2>1. backup[b].stage = "cleanup" /\ b \in Saving!Ids
      BY <1>3, <1>13 DEF Saving!CleanUpIncomplete
    <2>2. CASE backup' = [backup EXCEPT ![b].stage = "over"] /\ local' = local
      BY <1>6, <2>1, <2>2
    <2>3. ASSUME NEW i \in Saving!Left(b), \A j \in Saving!Left(b) : i <= j,
                 local' = [local EXCEPT ![b] = local[b] \ {Saving!RemovalOrder(b)[i]}],
                 backup' = backup
          PROVE  BundlesInv'
      <3>1. PICK file : file = Saving!RemovalOrder(b)[i]
        OBVIOUS
      <3>2. PICK files : files = local[b] \ {file}
        OBVIOUS
      <3>3. "dump" \in files => file \notin Saving!Bundle
        <4>1. CASE backup[b].complete
          <5>1. Saving!RemovalOrder(b) = <<"work">>
            BY <4>1 DEF Saving!RemovalOrder
          <5>2. file = "work"
            BY <2>3, <3>1, <5>1 DEF Saving!Left
          <5>. QED  BY <1>4, <5>2
        <4>2. CASE ~backup[b].complete
          <5>1. Saving!RemovalOrder(b) = <<"work", "dump", "metadata", "checksum">>
            BY <4>2 DEF Saving!RemovalOrder
          <5>2. "dump" \in files => 2 \in Saving!Left(b)
            BY <3>2, <5>1 DEF Saving!Left
          <5>3. i \in 1 .. 4
            BY <2>3, <5>1 DEF Saving!Left
          <5>4. "dump" \in files => i = 1 \/ i = 2
            BY <2>3, <5>2, <5>3
          <5>5. i = 1 => file = "work"
            BY <3>1, <5>1
          <5>6. i = 2 => file = "dump"
            BY <3>1, <5>1
          <5>. QED  BY <1>4, <3>2, <5>4, <5>5, <5>6
        <4>. QED  BY <4>1, <4>2
      <3>4. "dump" \in files => Saving!Bundle \subseteq files /\ backup[b].dump = backup[b].metadata
        BY <1>1, <1>4, <2>1, <3>2, <3>3 DEF FilesSound
      <3>5. local' = [local EXCEPT ![b] = files]
        BY <2>3, <3>1, <3>2
      <3>6. FilesSound(backup[b], files)
        BY <1>1, <2>1, <3>4 DEF FilesSound, BackupStages
      <3>. QED  BY <2>1, <2>3, <3>5, <3>6, BackupStep
    <2>. QED  BY <1>13, <2>2, <2>3 DEF Saving!CleanUpIncomplete
  <1>14. ASSUME NEW b \in Saving!Ids, Saving!Prune(b)  PROVE BundlesInv'
    <2>1. local' = [local EXCEPT ![b] = {}] /\ backup' = backup /\ backup[b].stage = "over"
      BY <1>14 DEF Saving!Prune
    <2>2. FilesSound(backup[b], {})
      BY <1>1, <2>1 DEF FilesSound, BackupStages
    <2>. QED  BY <2>1, <2>2, BackupStep
  <1>15. ASSUME NEW c \in Copies, Saving!CoolifyBackup(c)  PROVE BundlesInv'
    <2>1. PICK next : next = [backup[c] EXCEPT !.stage = "over", !.born = hour]
      OBVIOUS
    <2>2. /\ DOMAIN next = BackupFields /\ next.stage = "over" /\ next.step = backup[c].step
      BY <1>1, <1>3, <2>1 DEF BackupFields
    <2>3. backup' = [backup EXCEPT ![c] = next] /\ local' = [local EXCEPT ![c] = {"dmp"}]
      BY <1>1, <1>2, <1>3, <1>15, <2>1 DEF Saving!CoolifyBackup, BackupFields
    <2>4. backup[c].step \in 1 .. 4
      BY <1>1, <1>3 DEF FilesSound
    <2>5. FilesSound(next, {"dmp"})
      BY <2>2, <2>4 DEF FilesSound, BackupStages
    <2>. QED  BY <1>3, <2>3, <2>5, BackupStep
  <1>16. ASSUME UNCHANGED <<backup, local>>  PROVE BundlesInv'
    BY <1>16 DEF BundlesInv, FilesSound
  <1>17. ASSUME \/ Saving!WriteContent \/ Saving!PassHour \/ Saving!StartShipping
                \/ Saving!CheckBundles \/ Saving!CheckRecent \/ Saving!CryptCheck \/ Saving!DeleteFile
                \/ Saving!EndShipping \/ Saving!AbortShipping \/ UNCHANGED Saving!backupVars
         PROVE  BundlesInv'
    BY <1>16, <1>17 DEF Saving!WriteContent, Saving!PassHour, Saving!StartShipping,
       Saving!CheckBundles, Saving!CheckRecent, Saving!CryptCheck, Saving!DeleteFile,
       Saving!EndShipping, Saving!AbortShipping, Saving!backupVars, Saving!restOfShipping
  <1>18. ASSUME NEW b \in Saving!Ids,
                \/ Saving!ExpireCopy(b) \/ Saving!ExpireBundle(b)
                \/ \E f \in Saving!Bundle \cup {"work", "dmp"} : Saving!CopyFile(b, f)
         PROVE  BundlesInv'
    BY <1>16, <1>18 DEF Saving!ExpireCopy, Saving!ExpireBundle, Saving!CopyFile, Saving!restOfShipping
  <1>19. ASSUME NEW v \in Verifiers,
                \/ \E b \in Dumps, keep \in BOOLEAN : Saving!StartVerifying(v, b, keep)
                \/ Saving!CreateDatabase(v) \/ Saving!MarkCreated(v) \/ Saving!Restore(v)
                \/ Saving!Compare(v) \/ Saving!KeepDatabase(v) \/ Saving!DropDatabase(v)
                \/ Saving!TellVerified(v) \/ Saving!StopVerifying(v) \/ Saving!CleanUpVerifying(v)
                \/ Saving!KillVerifying(v)
         PROVE  BundlesInv'
    BY <1>16, <1>19 DEF Saving!StartVerifying, Saving!CreateDatabase, Saving!MarkCreated,
       Saving!Restore, Saving!Compare, Saving!KeepDatabase, Saving!DropDatabase, Saving!TellVerified,
       Saving!StopVerifying, Saving!CleanUpVerifying, Saving!KillVerifying, Saving!restOfVerifying
  <1>. QED  BY <1>7, <1>8, <1>9, <1>10, <1>11, <1>12, <1>13, <1>14, <1>15, <1>17, <1>18, <1>19
       DEF Saving!Next

\* Whatever fails and whenever a run is killed, a dump that has its name has both sidecars, and
\* they say what is in it, though the application writes all the time (the renames and
\* cleanup_incomplete of scripts/backup-postgres.sh).
THEOREM BundlesStayWhole == Saving!Spec => []Saving!BundlesAreWhole
  <1>1. Saving!Init => BundlesInv
    BY BundlesInit
  <1>2. BundlesInv /\ [Saving!Next]_(Saving!backupVars) => BundlesInv'
    BY BundlesStep
  <1>3. BundlesInv => Saving!BundlesAreWhole
    BY DEF BundlesInv, FilesSound, Saving!BundlesAreWhole, Saving!Ids
  <1>. QED  BY <1>1, <1>2, <1>3, PTL DEF Saving!Spec

-----------------------------------------------------------------------------
Past == {"publish", "cleanup", "over"}

\* What a step does to a backup and its files.  One that is published keeps its contents and its
\* age, one that is over stays as it ended, and the files of one are taken away when they are
\* old, or when it had given its dump its name but was stopped.
Moves(old, files, new, left) ==
    /\ old.stage \in Past =>
          /\ new.stage \in Past /\ new.dump = old.dump
          /\ new.metadata = old.metadata /\ new.born = old.born
    /\ old.stage \in {"cleanup", "over"} =>
          new.stage \in {"cleanup", "over"} /\ new.step = old.step /\ new.complete = old.complete
    /\ old.stage = "over" => new.stage = "over"
    /\ new.born \in {old.born, hour}
    /\ old.step = 4 => new.step = 4
    /\ "dmp" \in left => "dmp" \in files \/ new.stage = "over"
    /\ "dump" \in left => "dump" \in files \/ new.step = 4

\* What is taken away of a whole backup.
Taken(b, old, files, left) ==
    Saving!IsWhole(files) /\ ~Saving!IsWhole(left) =>
        \/ Saving!Age(b) >= MaxAge
        \/ "dmp" \in files /\ old.stage # "over"
        \/ old.stage = "cleanup" /\ ~old.complete /\ b \in Dumps

\* What has become of a backup whose record or files alone change.
LEMMA OneMoves ==
    ASSUME BundlesInv, NEW b \in Saving!Ids, NEW next, NEW files,
           Moves(backup[b], local[b], next, files), Taken(b, backup[b], local[b], files),
           backup' = [backup EXCEPT ![b] = next] \/ (backup' = backup /\ next = backup[b]),
           local' = [local EXCEPT ![b] = files] \/ (local' = local /\ files = local[b])
    PROVE  \A c \in Saving!Ids : /\ Moves(backup[c], local[c], backup'[c], local'[c])
                                 /\ Taken(c, backup[c], local[c], local'[c])
  <1>1. /\ backup'[b] = next /\ local'[b] = files
        /\ \A c \in Saving!Ids \ {b} : backup'[c] = backup[c] /\ local'[c] = local[c]
    BY DEF BundlesInv
  <1>2. ASSUME NEW c \in Saving!Ids
        PROVE  /\ Moves(backup[c], local[c], backup[c], local[c])
               /\ Taken(c, backup[c], local[c], local[c])
    BY DEF Moves, Taken, Past
  <1>. QED  BY <1>1, <1>2

\* Every step moves every backup on, or leaves it, or takes it away.
LEMMA BackupMoves ==
    ASSUME BundlesInv, [Saving!Next]_(Saving!backupVars)
    PROVE  \A b \in Saving!Ids : /\ Moves(backup[b], local[b], backup'[b], local'[b])
                                 /\ Taken(b, backup[b], local[b], local'[b])
  <1>. DEFINE Goal == \A c \in Saving!Ids : /\ Moves(backup[c], local[c], backup'[c], local'[c])
                                            /\ Taken(c, backup[c], local[c], local'[c])
  <1>1. ASSUME NEW b \in Saving!Ids  PROVE FilesSound(backup[b], local[b]) /\ DOMAIN backup[b] = BackupFields
    BY DEF BundlesInv, FilesSound
  <1>2. DOMAIN backup = Saving!Ids /\ DOMAIN local = Saving!Ids
    BY DEF BundlesInv
  <1>3. Dumps \subseteq Saving!Ids /\ Copies \subseteq Saving!Ids
    BY DEF Saving!Ids
  <1>4. Saving!Bundle = {"metadata", "checksum", "dump"}
    BY DEF Saving!Bundle
  <1>5. ASSUME NEW b \in Dumps, Saving!ExportSnapshot(b)  PROVE Goal
    <2>1. PICK next : next = [backup[b] EXCEPT !.stage = "dump", !.snapshot = content, !.born = hour]
      OBVIOUS
    <2>2. /\ next.stage = "dump" /\ next.step = backup[b].step /\ next.born = hour
      BY <1>1, <1>3, <2>1 DEF BackupFields
    <2>3. backup' = [backup EXCEPT ![b] = next] /\ local' = [local EXCEPT ![b] = {"work"}]
      BY <1>1, <1>2, <1>3, <1>5, <2>1 DEF Saving!ExportSnapshot, BackupFields
    <2>4. backup[b].stage = "none" /\ local[b] \cap Saving!Bundle = {}
      BY <1>1, <1>3, <1>5 DEF Saving!ExportSnapshot, FilesSound
    <2>5. Moves(backup[b], local[b], next, {"work"})
      BY <2>2, <2>4 DEF Moves, Past
    <2>6. Taken(b, backup[b], local[b], {"work"})
      BY <1>4, <2>4 DEF Taken, Saving!IsWhole
    <2>. QED  BY <1>3, <2>3, <2>5, <2>6, OneMoves
  <1>6. ASSUME NEW b \in Dumps, Saving!DumpDatabase(b)  PROVE Goal
    <2>1. PICK next : next = [backup[b] EXCEPT !.stage = "count", !.dump = backup[b].snapshot,
                                               !.born = hour]
      OBVIOUS
    <2>2. /\ next.stage = "count" /\ next.step = backup[b].step /\ next.born = hour
      BY <1>1, <1>3, <2>1 DEF BackupFields
    <2>3. backup' = [backup EXCEPT ![b] = next] /\ local' = local
      BY <1>1, <1>2, <1>3, <1>6, <2>1 DEF Saving!DumpDatabase, Saving!restOfBackups, BackupFields
    <2>4. backup[b].stage = "dump"
      BY <1>6 DEF Saving!DumpDatabase
    <2>5. Moves(backup[b], local[b], next, local[b])
      BY <2>2, <2>4 DEF Moves, Past
    <2>6. Taken(b, backup[b], local[b], local[b])
      BY DEF Taken
    <2>. QED  BY <1>3, <2>3, <2>5, <2>6, OneMoves
  <1>7. ASSUME NEW b \in Dumps, Saving!CountRows(b)  PROVE Goal
    <2>1. PICK next : next = [backup[b] EXCEPT !.stage = "publish", !.metadata = backup[b].snapshot]
      OBVIOUS
    <2>2. /\ next.stage = "publish" /\ next.step = backup[b].step /\ next.born = backup[b].born
      BY <1>1, <1>3, <2>1 DEF BackupFields
    <2>3. backup' = [backup EXCEPT ![b] = next] /\ local' = local
      BY <1>1, <1>2, <1>3, <1>7, <2>1 DEF Saving!CountRows, Saving!Counted, Saving!restOfBackups,
         BackupFields
    <2>4. backup[b].stage = "count"
      BY <1>7 DEF Saving!CountRows
    <2>5. Moves(backup[b], local[b], next, local[b])
      BY <2>2, <2>4 DEF Moves, Past
    <2>6. Taken(b, backup[b], local[b], local[b])
      BY DEF Taken
    <2>. QED  BY <1>3, <2>3, <2>5, <2>6, OneMoves
  <1>8. ASSUME NEW b \in Dumps, Saving!Publish(b)  PROVE Goal
    <2>1. PICK step : step = backup[b].step
      OBVIOUS
    <2>2. step \in 1 .. 3 /\ backup[b].stage = "publish"
      BY <1>8, <2>1 DEF Saving!Publish, Saving!PublishOrder
    <2>3. PICK next : next = [backup[b] EXCEPT !.step = step + 1]
      OBVIOUS
    <2>4. /\ next.stage = "publish" /\ next.step = step + 1 /\ next.born = backup[b].born
          /\ next.dump = backup[b].dump /\ next.metadata = backup[b].metadata
      BY <1>1, <1>3, <2>2, <2>3 DEF BackupFields
    <2>5. PICK file : file = Saving!PublishOrder[step]
      OBVIOUS
    <2>6. file \in Saving!Bundle /\ (file = "dump" => step = 3)
      BY <1>4, <2>2, <2>5 DEF Saving!PublishOrder
    <2>7. PICK files : files = (local[b] \cup {file}) \ (IF file = "dump" THEN {"work"} ELSE {})
      OBVIOUS
    <2>8. backup' = [backup EXCEPT ![b] = next] /\ local' = [local EXCEPT ![b] = files]
      BY <1>1, <1>2, <1>3, <1>8, <2>1, <2>3, <2>5, <2>7 DEF Saving!Publish, BackupFields
    <2>9. /\ "dmp" \in files <=> "dmp" \in local[b]
          /\ "dump" \in files => "dump" \in local[b] \/ file = "dump"
          /\ Saving!Bundle \cap local[b] \subseteq files
      BY <1>4, <2>6, <2>7
    <2>10. Moves(backup[b], local[b], next, files)
      BY <2>1, <2>2, <2>4, <2>6, <2>9 DEF Moves, Past
    <2>11. Taken(b, backup[b], local[b], files)
      BY <2>9 DEF Taken, Saving!IsWhole
    <2>. QED  BY <1>3, <2>8, <2>10, <2>11, OneMoves
  \* Only the stage changes, and what is said of completeness.
  <1>9. ASSUME NEW b \in Saving!Ids, NEW stage, NEW complete,
               \/ /\ backup[b].stage \in {"dump", "count", "publish"}
                  /\ stage \in {"cleanup", "over"}
               \/ backup[b].stage = "cleanup" /\ stage = "over" /\ complete = backup[b].complete,
               backup' = [backup EXCEPT ![b] = [backup[b] EXCEPT !.stage = stage, !.complete = complete]],
               local' = local
        PROVE  Goal
    <2>1. PICK next : next = [backup[b] EXCEPT !.stage = stage, !.complete = complete]
      OBVIOUS
    <2>2. /\ next.stage = stage /\ next.step = backup[b].step /\ next.born = backup[b].born
          /\ next.dump = backup[b].dump /\ next.metadata = backup[b].metadata
          /\ next.complete = complete
      BY <1>1, <2>1 DEF BackupFields
    <2>3. Moves(backup[b], local[b], next, local[b])
      BY <1>9, <2>2 DEF Moves, Past
    <2>4. Taken(b, backup[b], local[b], local[b])
      BY DEF Taken
    <2>. QED  BY <1>9, <2>1, <2>3, <2>4, OneMoves
  <1>10. ASSUME NEW b \in Saving!Ids, NEW stage,
                \/ /\ backup[b].stage \in {"dump", "count", "publish"}
                   /\ stage \in {"cleanup", "over"}
                \/ backup[b].stage = "cleanup" /\ stage = "over",
                backup' = [backup EXCEPT ![b].stage = stage], local' = local
         PROVE  Goal
    <2>1. backup' = [backup EXCEPT ![b] = [backup[b] EXCEPT !.stage = stage,
                                                            !.complete = backup[b].complete]]
      BY <1>1, <1>2, <1>10 DEF BackupFields
    <2>2. PICK complete : complete = backup[b].complete
      OBVIOUS
    <2>3. /\ backup' = [backup EXCEPT ![b] = [backup[b] EXCEPT !.stage = stage, !.complete = complete]]
          /\ local' = local
      BY <1>10, <2>1, <2>2
    <2>4. \/ /\ backup[b].stage \in {"dump", "count", "publish"}
             /\ stage \in {"cleanup", "over"}
          \/ backup[b].stage = "cleanup" /\ stage = "over" /\ complete = backup[b].complete
      BY <1>10, <2>2
    <2>. HIDE DEF Goal
    <2>. QED  BY <1>9, <2>3, <2>4
  <1>11. ASSUME NEW b \in Dumps, Saving!CompleteBackup(b)  PROVE Goal
    <2>1. /\ backup' = [backup EXCEPT ![b] = [backup[b] EXCEPT !.stage = "cleanup", !.complete = TRUE]]
          /\ local' = local /\ backup[b].stage = "publish"
      BY <1>1, <1>2, <1>3, <1>11 DEF Saving!CompleteBackup, BackupFields
    <2>. QED  BY <1>3, <1>9, <2>1
  <1>12. ASSUME NEW b \in Dumps, Saving!StopBackup(b) \/ Saving!KillBackup(b)  PROVE Goal
    <2>1. backup[b].stage \in BackupStages
      BY <1>1, <1>3 DEF FilesSound
    <2>2. PICK stage \in {"cleanup", "over"} :
             /\ backup' = [backup EXCEPT ![b].stage = stage] /\ local' = local
             /\ \/ backup[b].stage \in {"dump", "count", "publish"}
                \/ backup[b].stage = "cleanup" /\ stage = "over"
      BY <1>12, <2>1 DEF Saving!StopBackup, Saving!KillBackup, BackupStages
    <2>. QED  BY <1>3, <1>10, <2>2
  <1>13. ASSUME NEW b \in Dumps, Saving!CleanUpIncomplete(b)  PROVE Goal
    <2>1. backup[b].stage = "cleanup" /\ b \in Saving!Ids
      BY <1>3, <1>13 DEF Saving!CleanUpIncomplete
    <2>2. CASE backup' = [backup EXCEPT ![b].stage = "over"] /\ local' = local
      BY <1>10, <2>1, <2>2
    <2>3. ASSUME NEW i \in Saving!Left(b),
                 local' = [local EXCEPT ![b] = local[b] \ {Saving!RemovalOrder(b)[i]}],
                 backup' = backup
          PROVE  Goal
      <3>1. PICK files : files = local[b] \ {Saving!RemovalOrder(b)[i]}
        OBVIOUS
      <3>2. Moves(backup[b], local[b], backup[b], files)
        BY <3>1 DEF Moves, Past
      <3>3. backup[b].complete => (Saving!IsWhole(local[b]) => Saving!IsWhole(files))
        <4>1. SUFFICES ASSUME backup[b].complete  PROVE Saving!IsWhole(local[b]) => Saving!IsWhole(files)
          OBVIOUS
        <4>2. Saving!RemovalOrder(b) = <<"work">>
          BY <4>1 DEF Saving!RemovalOrder
        <4>3. files = local[b] \ {"work"}
          BY <2>3, <3>1, <4>2 DEF Saving!Left
        <4>. QED  BY <1>4, <4>3 DEF Saving!IsWhole
      <3>4. Taken(b, backup[b], local[b], files)
        BY <2>1, <3>3 DEF Taken
      <3>. QED  BY <2>1, <2>3, <3>1, <3>2, <3>4, OneMoves
    <2>. QED  BY <1>13, <2>2, <2>3 DEF Saving!CleanUpIncomplete
  <1>14. ASSUME NEW b \in Saving!Ids, Saving!Prune(b)  PROVE Goal
    <2>1. local' = [local EXCEPT ![b] = {}] /\ backup' = backup /\ Saving!Age(b) >= MaxAge
      BY <1>14 DEF Saving!Prune
    <2>2. Moves(backup[b], local[b], backup[b], {})
      BY DEF Moves, Past
    <2>3. Taken(b, backup[b], local[b], {})
      BY <2>1 DEF Taken
    <2>. QED  BY <2>1, <2>2, <2>3, OneMoves
  <1>15. ASSUME NEW c \in Copies, Saving!CoolifyBackup(c)  PROVE Goal
    <2>1. PICK next : next = [backup[c] EXCEPT !.stage = "over", !.born = hour]
      OBVIOUS
    <2>2. /\ next.stage = "over" /\ next.step = backup[c].step /\ next.born = hour
      BY <1>1, <1>3, <2>1 DEF BackupFields
    <2>3. backup' = [backup EXCEPT ![c] = next] /\ local' = [local EXCEPT ![c] = {"dmp"}]
      BY <1>1, <1>2, <1>3, <1>15, <2>1 DEF Saving!CoolifyBackup, BackupFields
    <2>4. backup[c].stage = "none"
      BY <1>15 DEF Saving!CoolifyBackup
    <2>5. Moves(backup[c], local[c], next, {"dmp"})
      BY <2>2, <2>4 DEF Moves, Past
    <2>6. Taken(c, backup[c], local[c], {"dmp"})
      BY DEF Taken, Saving!IsWhole
    <2>. QED  BY <1>3, <2>3, <2>5, <2>6, OneMoves
  <1>16. ASSUME UNCHANGED <<backup, local>>  PROVE Goal
    BY <1>16 DEF Moves, Taken, Past
  <1>17. ASSUME \/ Saving!WriteContent \/ Saving!PassHour \/ Saving!StartShipping
                \/ Saving!CheckBundles \/ Saving!CheckRecent \/ Saving!CryptCheck \/ Saving!DeleteFile
                \/ Saving!EndShipping \/ Saving!AbortShipping \/ UNCHANGED Saving!backupVars
         PROVE  Goal
    <2>1. UNCHANGED <<backup, local>>
      BY <1>17 DEF Saving!WriteContent, Saving!PassHour, Saving!StartShipping,
         Saving!CheckBundles, Saving!CheckRecent, Saving!CryptCheck, Saving!DeleteFile,
         Saving!EndShipping, Saving!AbortShipping, Saving!backupVars, Saving!restOfShipping
    <2>. QED  BY <1>16, <2>1
  <1>18. ASSUME NEW b \in Saving!Ids,
                \/ Saving!ExpireCopy(b) \/ Saving!ExpireBundle(b)
                \/ \E f \in Saving!Bundle \cup {"work", "dmp"} : Saving!CopyFile(b, f)
         PROVE  Goal
    <2>1. UNCHANGED <<backup, local>>
      BY <1>18 DEF Saving!ExpireCopy, Saving!ExpireBundle, Saving!CopyFile, Saving!restOfShipping
    <2>. QED  BY <1>16, <2>1
  <1>19. ASSUME NEW v \in Verifiers,
                \/ \E b \in Dumps, keep \in BOOLEAN : Saving!StartVerifying(v, b, keep)
                \/ Saving!CreateDatabase(v) \/ Saving!MarkCreated(v) \/ Saving!Restore(v)
                \/ Saving!Compare(v) \/ Saving!KeepDatabase(v) \/ Saving!DropDatabase(v)
                \/ Saving!TellVerified(v) \/ Saving!StopVerifying(v) \/ Saving!CleanUpVerifying(v)
                \/ Saving!KillVerifying(v)
         PROVE  Goal
    <2>1. UNCHANGED <<backup, local>>
      BY <1>19 DEF Saving!StartVerifying, Saving!CreateDatabase, Saving!MarkCreated,
         Saving!Restore, Saving!Compare, Saving!KeepDatabase, Saving!DropDatabase, Saving!TellVerified,
         Saving!StopVerifying, Saving!CleanUpVerifying, Saving!KillVerifying, Saving!restOfVerifying
    <2>. QED  BY <1>16, <2>1
  <1>. HIDE DEF Goal
  <1>20. Goal
    BY <1>5, <1>6, <1>7, <1>8, <1>11, <1>12, <1>13, <1>14, <1>15, <1>17, <1>18, <1>19
       DEF Saving!Next
  <1>. QED  BY <1>20 DEF Goal


\* Once a run has given its dump its name and was stopped before it said so, that is so for ever.
LEMMA TakenBackStays ==
    ASSUME BundlesInv, [Saving!Next]_(Saving!backupVars), Saving!TakenBack
    PROVE  Saving!TakenBack'
  <1>1. PICK b \in Dumps : /\ backup[b].stage \in {"cleanup", "over"} /\ ~backup[b].complete
                           /\ backup[b].step \notin DOMAIN Saving!PublishOrder
    BY DEF Saving!TakenBack
  <1>2. Moves(backup[b], local[b], backup'[b], local'[b])
    BY BackupMoves DEF Saving!Ids
  <1>3. /\ backup'[b].stage \in {"cleanup", "over"} /\ ~backup'[b].complete
        /\ backup'[b].step \notin DOMAIN Saving!PublishOrder
    BY <1>1, <1>2 DEF Moves
  <1>. QED  BY <1>3 DEF Saving!TakenBack

-----------------------------------------------------------------------------
(* What is told of a bundle that was restored.  A run verifies the contents *)
(* of a backup that is published, which do not change any more.            *)

VerifierFields == {"stage", "of", "keep", "created", "told"}

\* What may be said of a verification and its database.
Verifying(record, database) ==
    /\ DOMAIN record = VerifierFields
    /\ record.stage # "none" =>
          /\ record.of \in Dumps
          /\ backup[record.of].stage \in Past
          /\ backup[record.of].dump = backup[record.of].metadata
    /\ record.stage = "drop" => database = backup[record.of].metadata
    /\ record.stage = "dropped" => database = Saving!Nil
    /\ record.told # "nothing" => record.stage = "over"
    /\ record.told = "verified" => database = Saving!Nil
    /\ record.told = "retained" => database = backup[record.of].metadata

VerifiersInv ==
    /\ DOMAIN verifier = Verifiers /\ DOMAIN restored = Verifiers
    /\ \A v \in Verifiers : Verifying(verifier[v], restored[v])

\* What is said of a verification stays so whatever backups do.
LEMMA VerifyingStays ==
    ASSUME BundlesInv, [Saving!Next]_(Saving!backupVars), NEW record, NEW database,
           Verifying(record, database)
    PROVE  Verifying(record, database)'
  <1>1. CASE record.stage = "none"
    BY <1>1 DEF Verifying, Saving!Nil
  <1>2. CASE record.stage # "none"
    <2>1. record.of \in Saving!Ids
      BY <1>2 DEF Verifying, Saving!Ids
    <2>2. /\ backup'[record.of].stage \in Past
          /\ backup'[record.of].dump = backup[record.of].dump
          /\ backup'[record.of].metadata = backup[record.of].metadata
      BY <1>2, <2>1, BackupMoves DEF Moves, Verifying
    <2>. QED  BY <1>2, <2>2 DEF Verifying, Past, Saving!Nil
  <1>. QED  BY <1>1, <1>2

\* A step of one verification, in which backups stay.
LEMMA VerifierStep ==
    ASSUME VerifiersInv, NEW v \in Verifiers, NEW next, NEW database, Verifying(next, database),
           backup' = backup, verifier' = [verifier EXCEPT ![v] = next],
           restored' = [restored EXCEPT ![v] = database] \/ (restored' = restored /\ database = restored[v])
    PROVE  VerifiersInv'
  <1>1. /\ DOMAIN verifier' = Verifiers /\ DOMAIN restored' = Verifiers
        /\ verifier'[v] = next /\ restored'[v] = database
        /\ \A c \in Verifiers \ {v} : verifier'[c] = verifier[c] /\ restored'[c] = restored[c]
    BY DEF VerifiersInv
  <1>2. ASSUME NEW c \in Verifiers  PROVE Verifying(verifier'[c], restored'[c])
    BY <1>1 DEF VerifiersInv
  <1>3. ASSUME NEW c \in Verifiers  PROVE Verifying(verifier[c], restored[c])'
    BY <1>2 DEF Verifying, Past, Saving!Nil
  <1>. QED  BY <1>1, <1>3 DEF VerifiersInv

\* Every step keeps what is said of verifications.
LEMMA VerifiersStep ==
    ASSUME BundlesInv, VerifiersInv, [Saving!Next]_(Saving!backupVars)
    PROVE  VerifiersInv'
  \* The database of v holds this afterwards, which fits the stage it goes to.
  <1>. DEFINE Holds(v, database) ==
                 \/ restored' = [restored EXCEPT ![v] = database]
                 \/ restored' = restored /\ database = restored[v]
              Fits(v, stage, database) ==
                 \/ stage \in {"created", "compare", "cleanup", "over"}
                 \/ stage = "drop" /\ database = backup[verifier[v].of].metadata
                 \/ stage = "dropped" /\ database = Saving!Nil
  <1>1. ASSUME NEW v \in Verifiers  PROVE Verifying(verifier[v], restored[v]) /\ DOMAIN verifier[v] = VerifierFields
    BY DEF VerifiersInv, Verifying
  <1>2. DOMAIN verifier = Verifiers /\ DOMAIN restored = Verifiers
    BY DEF VerifiersInv
  <1>3. ASSUME UNCHANGED <<verifier, restored>>  PROVE VerifiersInv'
    <2>1. ASSUME NEW v \in Verifiers  PROVE Verifying(verifier[v], restored[v])'
      <3>1. Verifying(verifier[v], restored[v])
        BY <1>1
      <3>2. PICK record : record = verifier[v]
        OBVIOUS
      <3>3. PICK database : database = restored[v]
        OBVIOUS
      <3>4. Verifying(record, database)'
        BY <3>1, <3>2, <3>3, VerifyingStays
      <3>. QED  BY <1>3, <3>2, <3>3, <3>4 DEF Verifying, Past, Saving!Nil
    <2>. QED  BY <1>2, <1>3, <2>1 DEF VerifiersInv
  \* Only the stage changes, and what was restored is not looked at.
  <1>4. ASSUME NEW v \in Verifiers, NEW stage, NEW database,
               backup' = backup, verifier[v].stage \notin {"none", "over"},
               verifier' = [verifier EXCEPT ![v].stage = stage],
               Holds(v, database), Fits(v, stage, database)
        PROVE  VerifiersInv'
    <2>1. PICK next : next = [verifier[v] EXCEPT !.stage = stage]
      OBVIOUS
    <2>2. /\ DOMAIN next = VerifierFields /\ next.stage = stage /\ next.of = verifier[v].of
          /\ next.told = verifier[v].told
      BY <1>1, <2>1 DEF VerifierFields
    <2>3. verifier[v].told = "nothing" /\ stage # "none"
      BY <1>1, <1>4 DEF Verifying
    <2>4. Verifying(next, database)
      BY <1>1, <1>4, <2>2, <2>3 DEF Verifying
    <2>5. verifier' = [verifier EXCEPT ![v] = next]
      BY <1>2, <1>4, <2>1
    <2>. QED  BY <1>4, <2>4, <2>5, VerifierStep
  <1>5. ASSUME NEW v \in Verifiers, NEW b \in Dumps, NEW keep \in BOOLEAN,
               Saving!StartVerifying(v, b, keep)
        PROVE  VerifiersInv'
    <2>1. PICK next : next = [verifier[v] EXCEPT !.stage = "create", !.of = b, !.keep = keep]
      OBVIOUS
    <2>2. /\ DOMAIN next = VerifierFields /\ next.stage = "create" /\ next.of = b
          /\ next.told = verifier[v].told
      BY <1>1, <2>1 DEF VerifierFields
    <2>3. verifier[v].told = "nothing"
      BY <1>1, <1>5 DEF Verifying, Saving!StartVerifying
    <2>4. FilesSound(backup[b], local[b]) /\ Saving!Bundle \subseteq local[b]
      BY <1>5 DEF BundlesInv, Saving!Ids, Saving!StartVerifying
    <2>5. backup[b].stage \in Past /\ backup[b].dump = backup[b].metadata
      BY <2>4 DEF FilesSound, BackupStages, Past, Saving!Bundle
    <2>6. Verifying(next, restored[v])
      BY <2>2, <2>3, <2>5 DEF Verifying
    <2>7. verifier' = [verifier EXCEPT ![v] = next] /\ backup' = backup /\ restored' = restored
      BY <1>1, <1>2, <1>5, <2>1 DEF Saving!StartVerifying, Saving!restOfVerifying, VerifierFields
    <2>. QED  BY <2>6, <2>7, VerifierStep
  <1>6. ASSUME NEW v \in Verifiers, Saving!CreateDatabase(v)  PROVE VerifiersInv'
    <2>1. /\ backup' = backup /\ verifier[v].stage = "create"
          /\ verifier' = [verifier EXCEPT ![v].stage = "created"]
          /\ restored' = [restored EXCEPT ![v] = 0]
      BY <1>6 DEF Saving!CreateDatabase, Saving!restOfVerifying, Saving!Goes
    <2>2. Holds(v, 0) /\ Fits(v, "created", 0)
      BY <2>1
    <2>. HIDE DEF Holds, Fits
    <2>. QED  BY <1>4, <2>1, <2>2
  <1>7. ASSUME NEW v \in Verifiers, Saving!MarkCreated(v)  PROVE VerifiersInv'
    <2>1. PICK next : next = [verifier[v] EXCEPT !.stage = "restore", !.created = TRUE]
      OBVIOUS
    <2>2. /\ DOMAIN next = VerifierFields /\ next.stage = "restore" /\ next.of = verifier[v].of
          /\ next.told = verifier[v].told
      BY <1>1, <2>1 DEF VerifierFields
    <2>3. verifier[v].stage = "created" /\ backup' = backup /\ restored' = restored
          /\ verifier' = [verifier EXCEPT ![v] = next]
      BY <1>1, <1>2, <1>7, <2>1 DEF Saving!MarkCreated, Saving!restOfVerifying, VerifierFields
    <2>4. Verifying(next, restored[v])
      BY <1>1, <2>2, <2>3 DEF Verifying
    <2>. QED  BY <2>3, <2>4, VerifierStep
  <1>8. ASSUME NEW v \in Verifiers, Saving!Restore(v)  PROVE VerifiersInv'
    <2>1. /\ backup' = backup /\ verifier[v].stage = "restore"
          /\ verifier' = [verifier EXCEPT ![v].stage = "compare"]
          /\ restored' = [restored EXCEPT ![v] = backup[verifier[v].of].dump]
      BY <1>8 DEF Saving!Restore, Saving!restOfVerifying, Saving!Goes
    <2>2. PICK database : database = backup[verifier[v].of].dump
      OBVIOUS
    <2>3. Holds(v, database) /\ Fits(v, "compare", database)
      BY <2>1, <2>2
    <2>. HIDE DEF Holds, Fits
    <2>. QED  BY <1>4, <2>1, <2>3
  <1>9. ASSUME NEW v \in Verifiers, Saving!Compare(v)  PROVE VerifiersInv'
    <2>1. PICK stage : stage = IF /\ "metadata" \in local[verifier[v].of]
                                  /\ backup[verifier[v].of].metadata = restored[v]
                               THEN "drop" ELSE "cleanup"
      OBVIOUS
    <2>2. /\ backup' = backup /\ verifier[v].stage = "compare"
          /\ verifier' = [verifier EXCEPT ![v].stage = stage] /\ restored' = restored
      BY <1>9, <2>1 DEF Saving!Compare, Saving!restOfVerifying, Saving!Goes
    <2>3. Holds(v, restored[v]) /\ Fits(v, stage, restored[v])
      BY <2>1, <2>2
    <2>. HIDE DEF Holds, Fits
    <2>. QED  BY <1>4, <2>2, <2>3
  \* It is over, and what is told of it is so.
  <1>10. ASSUME NEW v \in Verifiers, NEW created, NEW word, NEW database,
                backup' = backup, verifier[v].stage \notin {"none", "over"},
                verifier' = [verifier EXCEPT ![v] = [verifier[v] EXCEPT !.stage = "over",
                                                        !.created = created, !.told = word]],
                Holds(v, database),
                \/ word = "failed"
                \/ word = "verified" /\ database = Saving!Nil
                \/ word = "retained" /\ database = backup[verifier[v].of].metadata
         PROVE  VerifiersInv'
    <2>1. PICK next : next = [verifier[v] EXCEPT !.stage = "over", !.created = created, !.told = word]
      OBVIOUS
    <2>2. /\ DOMAIN next = VerifierFields /\ next.stage = "over" /\ next.of = verifier[v].of
          /\ next.told = word
      BY <1>1, <2>1 DEF VerifierFields
    <2>3. Verifying(next, database)
      BY <1>1, <1>10, <2>2 DEF Verifying
    <2>. QED  BY <1>10, <2>1, <2>3, VerifierStep
  <1>11. ASSUME NEW v \in Verifiers, Saving!KeepDatabase(v)  PROVE VerifiersInv'
    <2>1. /\ backup' = backup /\ verifier[v].stage = "drop" /\ restored' = restored
          /\ verifier' = [verifier EXCEPT ![v] = [verifier[v] EXCEPT !.stage = "over",
                                                        !.created = FALSE, !.told = "retained"]]
      BY <1>1, <1>2, <1>11 DEF Saving!KeepDatabase, Saving!restOfVerifying, VerifierFields
    <2>2. restored[v] = backup[verifier[v].of].metadata
      BY <1>1, <2>1 DEF Verifying
    <2>3. Holds(v, restored[v])
      BY <2>1
    <2>. HIDE DEF Holds
    <2>. QED  BY <1>10, <2>1, <2>2, <2>3
  <1>12. ASSUME NEW v \in Verifiers, Saving!DropDatabase(v)  PROVE VerifiersInv'
    <2>1. /\ backup' = backup /\ verifier[v].stage = "drop"
          /\ verifier' = [verifier EXCEPT ![v].stage = "dropped"]
          /\ restored' = [restored EXCEPT ![v] = Saving!Nil]
      BY <1>12 DEF Saving!DropDatabase, Saving!restOfVerifying, Saving!Goes
    <2>2. Holds(v, Saving!Nil) /\ Fits(v, "dropped", Saving!Nil)
      BY <2>1
    <2>. HIDE DEF Holds, Fits
    <2>. QED  BY <1>4, <2>1, <2>2
  <1>13. ASSUME NEW v \in Verifiers, Saving!TellVerified(v)  PROVE VerifiersInv'
    <2>1. /\ backup' = backup /\ verifier[v].stage = "dropped" /\ restored' = restored
          /\ verifier' = [verifier EXCEPT ![v] = [verifier[v] EXCEPT !.stage = "over",
                                                        !.created = FALSE, !.told = "verified"]]
      BY <1>1, <1>2, <1>13 DEF Saving!TellVerified, Saving!restOfVerifying, VerifierFields
    <2>2. restored[v] = Saving!Nil
      BY <1>1, <2>1 DEF Verifying
    <2>3. Holds(v, restored[v])
      BY <2>1
    <2>. HIDE DEF Holds
    <2>. QED  BY <1>10, <2>1, <2>2, <2>3
  <1>14. ASSUME NEW v \in Verifiers, Saving!StopVerifying(v) \/ Saving!KillVerifying(v)
         PROVE  VerifiersInv'
    <2>1. PICK stage \in {"cleanup", "over"} :
             /\ backup' = backup /\ verifier[v].stage \notin {"none", "over"}
             /\ verifier' = [verifier EXCEPT ![v].stage = stage] /\ restored' = restored
      BY <1>14 DEF Saving!StopVerifying, Saving!KillVerifying, Saving!restOfVerifying, Saving!Goes
    <2>2. Holds(v, restored[v]) /\ Fits(v, stage, restored[v])
      BY <2>1
    <2>. HIDE DEF Holds, Fits
    <2>. QED  BY <1>4, <2>1, <2>2
  <1>15. ASSUME NEW v \in Verifiers, Saving!CleanUpVerifying(v)  PROVE VerifiersInv'
    <2>1. /\ backup' = backup /\ verifier[v].stage = "cleanup"
          /\ restored' = restored \/ restored' = [restored EXCEPT ![v] = Saving!Nil]
          /\ verifier' = [verifier EXCEPT ![v] = [verifier[v] EXCEPT !.stage = "over",
                                  !.created = verifier[v].created, !.told = "failed"]]
      BY <1>1, <1>2, <1>15 DEF Saving!CleanUpVerifying, Saving!restOfVerifying, VerifierFields
    <2>2. PICK created : created = verifier[v].created
      OBVIOUS
    <2>3. PICK database : Holds(v, database)
      BY <2>1
    <2>. QED  BY <1>10, <2>1, <2>2, <2>3
  <1>16. ASSUME \/ Saving!WriteContent \/ Saving!PassHour \/ Saving!StartShipping
                \/ Saving!CheckBundles \/ Saving!CheckRecent \/ Saving!CryptCheck \/ Saving!DeleteFile
                \/ Saving!EndShipping \/ Saving!AbortShipping \/ UNCHANGED Saving!backupVars
         PROVE  VerifiersInv'
    <2>1. UNCHANGED <<verifier, restored>>
      BY <1>16 DEF Saving!WriteContent, Saving!PassHour, Saving!StartShipping,
         Saving!CheckBundles, Saving!CheckRecent, Saving!CryptCheck, Saving!DeleteFile,
         Saving!EndShipping, Saving!AbortShipping, Saving!backupVars, Saving!restOfShipping
    <2>. QED  BY <1>3, <2>1
  <1>17. ASSUME NEW b \in Saving!Ids,
                \/ Saving!ExpireCopy(b) \/ Saving!ExpireBundle(b) \/ Saving!Prune(b)
                \/ \E f \in Saving!Bundle \cup {"work", "dmp"} : Saving!CopyFile(b, f)
         PROVE  VerifiersInv'
    <2>1. UNCHANGED <<verifier, restored>>
      BY <1>17 DEF Saving!ExpireCopy, Saving!ExpireBundle, Saving!CopyFile, Saving!restOfShipping,
         Saving!Prune, Saving!restOfBackups
    <2>. QED  BY <1>3, <2>1
  <1>18. ASSUME NEW b,
                \/ Saving!ExportSnapshot(b) \/ Saving!DumpDatabase(b) \/ Saving!CountRows(b)
                \/ Saving!Publish(b) \/ Saving!CompleteBackup(b) \/ Saving!StopBackup(b)
                \/ Saving!CleanUpIncomplete(b) \/ Saving!KillBackup(b) \/ Saving!CoolifyBackup(b)
         PROVE  VerifiersInv'
    <2>1. UNCHANGED <<verifier, restored>>
      BY <1>18 DEF Saving!ExportSnapshot, Saving!DumpDatabase, Saving!CountRows, Saving!Publish,
         Saving!CompleteBackup, Saving!StopBackup, Saving!CleanUpIncomplete, Saving!KillBackup,
         Saving!CoolifyBackup, Saving!restOfBackups
    <2>. QED  BY <1>3, <2>1
  <1>. QED  BY <1>5, <1>6, <1>7, <1>8, <1>9, <1>11, <1>12, <1>13, <1>14, <1>15, <1>16, <1>17, <1>18
       DEF Saving!Next

-----------------------------------------------------------------------------
(* The copies off the host.  From the check that there is a recent backup  *)
(* on, that one is whole on the host, which it is as long as it is not     *)
(* old or taken back; once all was compared it is off the host as well,    *)
(* and only older ones are expired.                                        *)

ShippingFields == {"stage", "at", "step", "told"}
AgesAssumption ==
    /\ MinAge \in Int /\ MaxAge \in Int /\ Retention \in Int
    /\ MaxAge <= Retention

\* What may be said of the age of a backup and of its files on the host and off it.
Aged(record, files, away) ==
    /\ record.born \in Int
    /\ "dmp" \in files \cup away => record.stage = "over"
    /\ "dump" \in files => record.step = 4
    /\ away \cap Saving!Bundle # {} => record.stage \in Past

AgesInv ==
    /\ hour \in Int /\ DOMAIN remote = Saving!Ids
    /\ \A b \in Saving!Ids : Aged(backup[b], local[b], remote[b])

Fresh(b) ==
    /\ Saving!Age(b) >= MinAge /\ Saving!Age(b) < MaxAge
    /\ Saving!IsWhole(local[b])
Safe(b) == Saving!Age(b) < Retention /\ Saving!IsWhole(remote[b])

ShippingInv ==
    /\ DOMAIN shipping = ShippingFields
    /\ shipping.at # Saving!Nil =>
          /\ shipping.stage = "expire" /\ shipping.at \in Saving!Ids
          /\ backup[shipping.at].stage \in Past /\ Saving!Age(shipping.at) >= Retention
    /\ shipping.told = "verified" => shipping.stage = "idle"
    /\ shipping.stage = "copy" => Saving!TakenBack \/ \E b \in Saving!Ids : Fresh(b)
    /\ shipping.stage = "expire" \/ shipping.told = "verified" =>
          Saving!TakenBack \/ \E b \in Saving!Ids : Safe(b)

\* What a step does to the copies of a backup: what is copied is there, and what is whole and
\* younger than what expires stays so.
LEMMA CopiesKept ==
    ASSUME AgesAssumption, AgesInv, ShippingInv, [Saving!Next]_(Saving!backupVars),
           NEW b \in Saving!Ids
    PROVE  /\ remote'[b] \subseteq remote[b] \cup local[b]
           /\ /\ Saving!IsWhole(remote[b])
              /\ shipping.stage # "expire" \/ Saving!Age(b) < Retention
              => Saving!IsWhole(remote'[b])
  <1>. DEFINE Goal == /\ remote'[b] \subseteq remote[b] \cup local[b]
                      /\ /\ Saving!IsWhole(remote[b])
                         /\ shipping.stage # "expire" \/ Saving!Age(b) < Retention
                         => Saving!IsWhole(remote'[b])
  <1>1. DOMAIN remote = Saving!Ids /\ Saving!Age(b) \in Int /\ Retention \in Int
    BY DEF AgesInv, Aged, Saving!Age, AgesAssumption
  <1>2. ASSUME remote' = remote  PROVE Goal
    BY <1>1, <1>2
  <1>3. ASSUME NEW c \in Saving!Ids, NEW f, Saving!CopyFile(c, f)  PROVE Goal
    <2>1. f \in local[c] /\ remote' = [remote EXCEPT ![c] = @ \cup {f}]
      BY <1>3 DEF Saving!CopyFile, Saving!ToCopy
    <2>2. remote'[b] \subseteq remote[b] \cup local[b] /\ remote[b] \subseteq remote'[b]
      BY <1>1, <2>1
    <2>. QED  BY <1>1, <2>1, <2>2 DEF Saving!IsWhole
  <1>4. ASSUME NEW c \in Saving!Ids, Saving!ExpireCopy(c)  PROVE Goal
    <2>1. /\ remote' = [remote EXCEPT ![c] = @ \ {"dmp"}] /\ shipping.stage = "expire"
          /\ Saving!Age(c) >= Retention
      BY <1>4 DEF Saving!ExpireCopy, Saving!Expired
    <2>2. c = b => ~(Saving!Age(b) < Retention)
      BY <1>1, <2>1
    <2>3. remote'[b] \subseteq remote[b] /\ (c # b => remote'[b] = remote[b])
      BY <1>1, <2>1
    <2>. QED  BY <1>1, <2>1, <2>2, <2>3
  <1>5. ASSUME Saving!DeleteFile, remote' # remote  PROVE Goal
    <2>1. PICK c : c = shipping.at
      OBVIOUS
    <2>2. PICK file : /\ remote' = [remote EXCEPT ![c] = @ \ {file}]
                      /\ shipping.stage = "expire" /\ c # Saving!Nil
      BY <1>5, <2>1 DEF Saving!DeleteFile
    <2>3. c \in Saving!Ids /\ Saving!Age(c) >= Retention
      BY <2>1, <2>2 DEF ShippingInv
    <2>4. c = b => ~(Saving!Age(b) < Retention)
      BY <1>1, <2>3
    <2>5. remote'[b] \subseteq remote[b] /\ (c # b => remote'[b] = remote[b])
      BY <1>1, <2>2, <2>3
    <2>. QED  BY <1>1, <2>2, <2>4, <2>5
  <1>6. ASSUME \/ Saving!WriteContent \/ Saving!PassHour \/ Saving!StartShipping
               \/ Saving!CheckBundles \/ Saving!CheckRecent \/ Saving!CryptCheck
               \/ Saving!EndShipping \/ Saving!AbortShipping \/ UNCHANGED Saving!backupVars
        PROVE  Goal
    <2>1. remote' = remote
      BY <1>6 DEF Saving!WriteContent, Saving!PassHour, Saving!StartShipping, Saving!CheckBundles,
         Saving!CheckRecent, Saving!CryptCheck, Saving!EndShipping, Saving!AbortShipping,
         Saving!backupVars
    <2>. QED  BY <1>2, <2>1
  <1>7. ASSUME NEW c \in Saving!Ids, Saving!ExpireBundle(c) \/ Saving!Prune(c)  PROVE Goal
    <2>1. remote' = remote
      BY <1>7 DEF Saving!ExpireBundle, Saving!Prune, Saving!restOfBackups
    <2>. QED  BY <1>2, <2>1
  <1>8. ASSUME NEW c,
               \/ Saving!ExportSnapshot(c) \/ Saving!DumpDatabase(c) \/ Saving!CountRows(c)
               \/ Saving!Publish(c) \/ Saving!CompleteBackup(c) \/ Saving!StopBackup(c)
               \/ Saving!CleanUpIncomplete(c) \/ Saving!KillBackup(c) \/ Saving!CoolifyBackup(c)
        PROVE  Goal
    <2>1. remote' = remote
      BY <1>8 DEF Saving!ExportSnapshot, Saving!DumpDatabase, Saving!CountRows, Saving!Publish,
         Saving!CompleteBackup, Saving!StopBackup, Saving!CleanUpIncomplete, Saving!KillBackup,
         Saving!CoolifyBackup, Saving!restOfBackups
    <2>. QED  BY <1>2, <2>1
  <1>9. ASSUME NEW v \in Verifiers,
               \/ \E c \in Dumps, keep \in BOOLEAN : Saving!StartVerifying(v, c, keep)
               \/ Saving!CreateDatabase(v) \/ Saving!MarkCreated(v) \/ Saving!Restore(v)
               \/ Saving!Compare(v) \/ Saving!KeepDatabase(v) \/ Saving!DropDatabase(v)
               \/ Saving!TellVerified(v) \/ Saving!StopVerifying(v) \/ Saving!CleanUpVerifying(v)
               \/ Saving!KillVerifying(v)
        PROVE  Goal
    <2>1. remote' = remote
      BY <1>9 DEF Saving!StartVerifying, Saving!CreateDatabase, Saving!MarkCreated,
         Saving!Restore, Saving!Compare, Saving!KeepDatabase, Saving!DropDatabase, Saving!TellVerified,
         Saving!StopVerifying, Saving!CleanUpVerifying, Saving!KillVerifying, Saving!restOfVerifying
    <2>. QED  BY <1>2, <2>1
  <1>. HIDE DEF Goal
  <1>10. Goal
    BY <1>2, <1>3, <1>4, <1>5, <1>6, <1>7, <1>8, <1>9 DEF Saving!Next
  <1>. QED  BY <1>10 DEF Goal

\* When nothing is shipped a step may let time pass, otherwise it does not; and it is of the same
\* backups.
LEMMA HoursPass ==
    ASSUME AgesInv, [Saving!Next]_(Saving!backupVars)
    PROVE  /\ hour' = hour \/ (hour' \in Int /\ shipping' = Saving!NotShipping)
           /\ DOMAIN remote' = DOMAIN remote
  <1>1. ASSUME Saving!PassHour  PROVE hour' \in Int /\ shipping' = Saving!NotShipping /\ remote' = remote
    BY <1>1 DEF Saving!PassHour, AgesInv
  <1>2. ASSUME \/ Saving!WriteContent \/ Saving!StartShipping
               \/ Saving!CheckBundles \/ Saving!CheckRecent \/ Saving!CryptCheck \/ Saving!DeleteFile
               \/ Saving!EndShipping \/ Saving!AbortShipping \/ UNCHANGED Saving!backupVars
        PROVE  hour' = hour /\ DOMAIN remote' = DOMAIN remote
    BY <1>2 DEF Saving!WriteContent, Saving!StartShipping, Saving!CheckBundles,
       Saving!CheckRecent, Saving!CryptCheck, Saving!DeleteFile, Saving!EndShipping,
       Saving!AbortShipping, Saving!backupVars, Saving!restOfShipping
  <1>3. ASSUME NEW c \in Saving!Ids,
               \/ Saving!ExpireCopy(c) \/ Saving!ExpireBundle(c) \/ Saving!Prune(c)
               \/ \E f \in Saving!Bundle \cup {"work", "dmp"} : Saving!CopyFile(c, f)
        PROVE  hour' = hour /\ DOMAIN remote' = DOMAIN remote
    BY <1>3 DEF Saving!ExpireCopy, Saving!ExpireBundle, Saving!Prune, Saving!CopyFile,
       Saving!restOfBackups, Saving!restOfShipping
  <1>4. ASSUME NEW c,
               \/ Saving!ExportSnapshot(c) \/ Saving!DumpDatabase(c) \/ Saving!CountRows(c)
               \/ Saving!Publish(c) \/ Saving!CompleteBackup(c) \/ Saving!StopBackup(c)
               \/ Saving!CleanUpIncomplete(c) \/ Saving!KillBackup(c) \/ Saving!CoolifyBackup(c)
        PROVE  hour' = hour /\ DOMAIN remote' = DOMAIN remote
    BY <1>4 DEF Saving!ExportSnapshot, Saving!DumpDatabase, Saving!CountRows, Saving!Publish,
       Saving!CompleteBackup, Saving!StopBackup, Saving!CleanUpIncomplete, Saving!KillBackup,
       Saving!CoolifyBackup, Saving!restOfBackups
  <1>5. ASSUME NEW v \in Verifiers,
               \/ \E c \in Dumps, keep \in BOOLEAN : Saving!StartVerifying(v, c, keep)
               \/ Saving!CreateDatabase(v) \/ Saving!MarkCreated(v) \/ Saving!Restore(v)
               \/ Saving!Compare(v) \/ Saving!KeepDatabase(v) \/ Saving!DropDatabase(v)
               \/ Saving!TellVerified(v) \/ Saving!StopVerifying(v) \/ Saving!CleanUpVerifying(v)
               \/ Saving!KillVerifying(v)
        PROVE  hour' = hour /\ DOMAIN remote' = DOMAIN remote
    BY <1>5 DEF Saving!StartVerifying, Saving!CreateDatabase, Saving!MarkCreated,
       Saving!Restore, Saving!Compare, Saving!KeepDatabase, Saving!DropDatabase, Saving!TellVerified,
       Saving!StopVerifying, Saving!CleanUpVerifying, Saving!KillVerifying, Saving!restOfVerifying
  <1>. QED  BY <1>1, <1>2, <1>3, <1>4, <1>5 DEF Saving!Next

\* Every step keeps the ages of what is kept on the host and off it.
LEMMA AgesStep ==
    ASSUME AgesAssumption, BundlesInv, AgesInv, ShippingInv, [Saving!Next]_(Saving!backupVars)
    PROVE  AgesInv'
  <1>1. hour' \in Int
    BY HoursPass DEF AgesInv
  <1>2. ASSUME NEW b \in Saving!Ids  PROVE Aged(backup'[b], local'[b], remote'[b])
    <2>1. Moves(backup[b], local[b], backup'[b], local'[b])
      BY BackupMoves
    <2>2. remote'[b] \subseteq remote[b] \cup local[b]
      BY CopiesKept
    <2>3. Aged(backup[b], local[b], remote[b]) /\ hour \in Int
      BY DEF AgesInv
    <2>4. local[b] \cap Saving!Bundle # {} => backup[b].stage \in Past
      BY DEF BundlesInv, FilesSound, BackupStages, Past
    <2>5. backup'[b].born \in Int
      BY <2>1, <2>3 DEF Moves, Aged
    <2>6. "dmp" \in local'[b] \cup remote'[b] => backup'[b].stage = "over"
      BY <2>1, <2>2, <2>3 DEF Moves, Aged
    <2>7. "dump" \in local'[b] => backup'[b].step = 4
      BY <2>1, <2>3 DEF Moves, Aged
    <2>8. remote'[b] \cap Saving!Bundle # {} => backup'[b].stage \in Past
      BY <2>1, <2>2, <2>3, <2>4 DEF Moves, Aged
    <2>. QED  BY <2>5, <2>6, <2>7, <2>8 DEF Aged
  <1>3. DOMAIN remote' = Saving!Ids
    BY HoursPass DEF AgesInv
  <1>. QED  BY <1>1, <1>2, <1>3 DEF AgesInv, Aged, Past, Saving!Ids, Saving!Bundle

\* A backup that is whole off the host, or whole and recent on it, is so after a step in which no
\* time passes, unless it is taken back.
LEMMA StaysSafe ==
    ASSUME AgesAssumption, BundlesInv, AgesInv, ShippingInv, [Saving!Next]_(Saving!backupVars),
           hour' = hour, NEW b \in Saving!Ids
    PROVE  /\ backup[b].stage \in Past => Saving!Age(b)' = Saving!Age(b) /\ backup'[b].stage \in Past
           /\ Safe(b) => Safe(b)'
           /\ Fresh(b) => Fresh(b)' \/ Saving!TakenBack
  <1>1. Moves(backup[b], local[b], backup'[b], local'[b]) /\ Taken(b, backup[b], local[b], local'[b])
    BY BackupMoves
  <1>2. Aged(backup[b], local[b], remote[b])
    BY DEF AgesInv
  <1>3. FilesSound(backup[b], local[b])
    BY DEF BundlesInv
  <1>4. backup[b].stage \in Past => Saving!Age(b)' = Saving!Age(b) /\ backup'[b].stage \in Past
    BY <1>1 DEF Moves, Saving!Age
  <1>5. Saving!Bundle = {"metadata", "checksum", "dump"}
    BY DEF Saving!Bundle
  <1>6. ASSUME Safe(b)  PROVE Safe(b)'
    <2>1. backup[b].stage \in Past
      BY <1>2, <1>5, <1>6 DEF Safe, Saving!IsWhole, Aged, Past
    <2>2. Saving!IsWhole(remote'[b])
      BY <1>6, CopiesKept DEF Safe
    <2>. QED  BY <1>4, <1>6, <2>1, <2>2 DEF Safe, Saving!IsWhole, Saving!Bundle
  <1>7. ASSUME Fresh(b)  PROVE Fresh(b)' \/ Saving!TakenBack
    <2>1. backup[b].stage \in Past
      BY <1>2, <1>3, <1>5, <1>7 DEF Fresh, Saving!IsWhole, Aged, FilesSound, BackupStages, Past
    <2>2. CASE Saving!IsWhole(local'[b])
      BY <1>4, <1>7, <2>1, <2>2 DEF Fresh, Saving!IsWhole, Saving!Bundle
    <2>3. CASE ~Saving!IsWhole(local'[b])
      <3>1. ~(Saving!Age(b) >= MaxAge)
        BY <1>2, <1>7 DEF Fresh, Saving!Age, AgesInv, Aged, AgesAssumption
      <3>2. "dmp" \in local[b] => backup[b].stage = "over"
        BY <1>2 DEF Aged
      <3>3. backup[b].stage = "cleanup" /\ ~backup[b].complete /\ b \in Dumps
        BY <1>1, <1>7, <2>3, <3>1, <3>2 DEF Taken, Fresh
      <3>4. backup[b].step = 4
        BY <1>2, <1>5, <1>7, <3>2, <3>3 DEF Fresh, Saving!IsWhole, Aged
      <3>. QED  BY <3>3, <3>4 DEF Saving!TakenBack, Saving!PublishOrder
    <2>. QED  BY <2>2, <2>3
  <1>. QED  BY <1>4, <1>6, <1>7

\* What a step of the off-host job makes of its record.
LEMMA ShippingMoves ==
    ASSUME DOMAIN shipping = ShippingFields
    PROVE  /\ \A stage : Saving!Ships(stage) =>
                 /\ DOMAIN shipping' = ShippingFields /\ shipping'.stage = stage
                 /\ shipping'.at = shipping.at /\ shipping'.told = shipping.told
           /\ \A said : Saving!Stopped(said) =>
                 /\ DOMAIN shipping' = ShippingFields /\ shipping'.stage = "idle"
                 /\ shipping'.at = Saving!Nil /\ shipping'.told = said
           /\ DOMAIN Saving!NotShipping = ShippingFields
           /\ Saving!NotShipping.stage = "idle" /\ Saving!NotShipping.told = "nothing"
           /\ Saving!NotShipping.at = Saving!Nil
  BY DEF ShippingFields, Saving!Ships, Saving!Stopped, Saving!NotShipping

\* Every step keeps what the off-host job knows, and takes no copy away unless a newer one is safe.
LEMMA ShippingStep ==
    ASSUME AgesAssumption, BundlesInv, AgesInv, ShippingInv, [Saving!Next]_(Saving!backupVars)
    PROVE  ShippingInv'
  <1>1. DOMAIN shipping = ShippingFields
    BY DEF ShippingInv
  <1>2. CASE hour' # hour
    <2>1. shipping' = Saving!NotShipping
      BY <1>2, HoursPass
    <2>. QED  BY <1>1, <2>1, ShippingMoves DEF ShippingInv
  <1>3. ASSUME hour' = hour  PROVE ShippingInv'
    <2>1. Saving!TakenBack => Saving!TakenBack'
      BY TakenBackStays
    <2>2. \A b \in Saving!Ids :
             /\ backup[b].stage \in Past => Saving!Age(b)' = Saving!Age(b) /\ backup'[b].stage \in Past
             /\ Safe(b) => Safe(b)'
             /\ Fresh(b) => Fresh(b)' \/ Saving!TakenBack
      BY <1>3, StaysSafe
    <2>3. (Saving!TakenBack \/ \E b \in Saving!Ids : Safe(b)) =>
             (Saving!TakenBack \/ \E b \in Saving!Ids : Safe(b))'
      BY <2>1, <2>2 DEF Saving!Ids
    <2>4. (Saving!TakenBack \/ \E b \in Saving!Ids : Fresh(b)) =>
             (Saving!TakenBack \/ \E b \in Saving!Ids : Fresh(b))'
      BY <2>1, <2>2 DEF Saving!Ids
    \* The stage goes on, and what it needs is so.
    <2>5. ASSUME NEW new, shipping' = new, DOMAIN new = ShippingFields,
                 new.at # Saving!Nil =>
                    /\ new.stage = "expire" /\ new.at \in Saving!Ids
                    /\ backup[new.at].stage \in Past /\ Saving!Age(new.at) >= Retention,
                 new.told = "verified" => new.stage = "idle",
                 new.stage = "copy" => (Saving!TakenBack \/ \E b \in Saving!Ids : Fresh(b)),
                 new.stage = "expire" \/ new.told = "verified" =>
                    (Saving!TakenBack \/ \E b \in Saving!Ids : Safe(b))
          PROVE  ShippingInv'
      <3>1. new.at # Saving!Nil =>
               /\ backup'[new.at].stage \in Past /\ hour' - backup'[new.at].born >= Retention
        BY <2>2, <2>5 DEF Saving!Age
      <3>2. /\ DOMAIN shipping' = ShippingFields
            /\ shipping'.at # Saving!Nil =>
                  /\ shipping'.stage = "expire" /\ shipping'.at \in Saving!Ids
                  /\ backup'[shipping'.at].stage \in Past
                  /\ hour' - backup'[shipping'.at].born >= Retention
            /\ shipping'.told = "verified" => shipping'.stage = "idle"
        BY <2>5, <3>1
      <3>3. shipping'.stage = "copy" => (Saving!TakenBack \/ \E b \in Saving!Ids : Fresh(b))'
        BY <2>4, <2>5
      <3>4. shipping'.stage = "expire" \/ shipping'.told = "verified" =>
               (Saving!TakenBack \/ \E b \in Saving!Ids : Safe(b))'
        BY <2>3, <2>5
      <3>. QED  BY <3>2, <3>3, <3>4 DEF ShippingInv, ShippingFields, Saving!Nil, Saving!Ids, Saving!Age, Past
    <2>6. ASSUME shipping' = shipping  PROVE ShippingInv'
      <3>1. PICK new : new = shipping
        OBVIOUS
      <3>. QED  BY <2>5, <2>6, <3>1 DEF ShippingInv
    \* The run is over, and says nothing that needs a proof, or says what was so before.
    <2>7. ASSUME NEW said, Saving!Stopped(said),
                 said # "verified" \/ Saving!TakenBack \/ \E b \in Saving!Ids : Safe(b)
          PROVE  ShippingInv'
      <3>1. PICK new : new = shipping'
        OBVIOUS
      <3>2. /\ DOMAIN new = ShippingFields /\ new.stage = "idle"
            /\ new.at = Saving!Nil /\ new.told = said
        BY <1>1, <2>7, <3>1, ShippingMoves
      <3>. QED  BY <2>5, <2>7, <3>1, <3>2
    <2>8. ASSUME NEW stage \in {"recent", "copy", "expire"}, Saving!Ships(stage),
                 shipping.stage \in {"bundles", "recent", "copy"},
                 stage = "copy" => (Saving!TakenBack \/ \E b \in Saving!Ids : Fresh(b)),
                 stage = "expire" => (Saving!TakenBack \/ \E b \in Saving!Ids : Safe(b))
          PROVE  ShippingInv'
      <3>1. PICK new : new = shipping'
        OBVIOUS
      <3>2. /\ DOMAIN new = ShippingFields /\ new.stage = stage
            /\ new.at = shipping.at /\ new.told = shipping.told
        BY <1>1, <2>8, <3>1, ShippingMoves
      <3>3. shipping.at = Saving!Nil /\ shipping.told # "verified"
        BY <2>8 DEF ShippingInv
      <3>. QED  BY <2>5, <2>8, <3>1, <3>2, <3>3
    <2>9. ASSUME Saving!StartShipping  PROVE ShippingInv'
      <3>1. PICK new : new = [Saving!NotShipping EXCEPT !.stage = "bundles"]
        OBVIOUS
      <3>2. /\ DOMAIN new = ShippingFields /\ new.stage = "bundles" /\ new.told = "nothing"
            /\ new.at = Saving!Nil /\ shipping' = new
        BY <2>9, <3>1 DEF Saving!NotShipping, ShippingFields, Saving!StartShipping
      <3>. QED  BY <2>5, <3>2
    <2>10. ASSUME Saving!CheckBundles  PROVE ShippingInv'
      <3>1. Saving!Stopped("failed") \/ (Saving!Ships("recent") /\ shipping.stage = "bundles")
        BY <2>10 DEF Saving!CheckBundles
      <3>. QED  BY <2>7, <2>8, <3>1
    <2>11. ASSUME Saving!CheckRecent  PROVE ShippingInv'
      <3>1. \/ Saving!Stopped("failed")
            \/ Saving!Ships("copy") /\ shipping.stage = "recent" /\ Saving!Recent
        BY <2>11 DEF Saving!CheckRecent
      <3>2. Saving!Recent => \E b \in Saving!Ids : Fresh(b)
        BY DEF Saving!Recent, Fresh, Saving!IsWhole
      <3>. QED  BY <2>7, <2>8, <3>1, <3>2
    <2>12. ASSUME Saving!CryptCheck  PROVE ShippingInv'
      <3>1. CASE Saving!Stopped("failed")
        BY <2>7, <3>1
      <3>2. CASE ~Saving!Stopped("failed")
        <4>1. /\ Saving!Ships("expire") /\ shipping.stage = "copy"
              /\ \A b \in Saving!Ids : Saving!ToCopy(b) \subseteq remote[b]
          BY <2>12, <3>2 DEF Saving!CryptCheck
        <4>2. ASSUME NEW b \in Saving!Ids, Fresh(b)  PROVE Safe(b)
          <5>1. Saving!Age(b) < Retention
            BY <4>2 DEF Fresh, Saving!Age, AgesInv, Aged, AgesAssumption
          <5>2. Saving!ToCopy(b) \subseteq remote[b]
            BY <4>1
          <5>3. \A f \in local[b] : f \in remote[b]
            BY <4>2, <5>2 DEF Saving!ToCopy, Fresh
          <5>. QED  BY <4>2, <5>1, <5>3 DEF Fresh, Safe, Saving!IsWhole
        <4>3. Saving!TakenBack \/ \E b \in Saving!Ids : Safe(b)
          BY <4>1, <4>2 DEF ShippingInv
        <4>. QED  BY <2>8, <4>1, <4>3
      <3>. QED  BY <3>1, <3>2
    <2>13. ASSUME NEW c \in Saving!Ids, Saving!ExpireBundle(c)  PROVE ShippingInv'
      <3>1. PICK new : new = [shipping EXCEPT !.at = c, !.step = 1]
        OBVIOUS
      <3>2. /\ DOMAIN new = ShippingFields /\ new.stage = shipping.stage
            /\ new.at = c /\ new.told = shipping.told
        BY <1>1, <3>1 DEF ShippingFields
      <3>3. /\ shipping' = new /\ shipping.stage = "expire" /\ Saving!Age(c) >= Retention
            /\ "dump" \in remote[c]
        BY <2>13, <3>1 DEF Saving!ExpireBundle, Saving!Expired
      <3>4. backup[c].stage \in Past
        BY <3>3 DEF AgesInv, Aged, Saving!Bundle
      <3>5. shipping.told # "verified" /\ (Saving!TakenBack \/ \E b \in Saving!Ids : Safe(b))
        BY <3>3 DEF ShippingInv
      <3>. QED  BY <2>5, <3>2, <3>3, <3>4, <3>5
    <2>14. ASSUME Saving!DeleteFile  PROVE ShippingInv'
      <3>1. CASE Saving!Stopped("failed")
        BY <2>7, <3>1
      <3>2. CASE ~Saving!Stopped("failed")
        <4>1. PICK new : /\ shipping' = new /\ shipping.stage = "expire"
                         /\ \/ new = [shipping EXCEPT !.at = Saving!Nil, !.step = 1]
                            \/ new = [shipping EXCEPT !.step = @ + 1]
          BY <2>14, <3>2 DEF Saving!DeleteFile
        <4>2. /\ DOMAIN new = ShippingFields /\ new.stage = "expire"
              /\ new.at \in {shipping.at, Saving!Nil} /\ new.told = shipping.told
          BY <1>1, <4>1 DEF ShippingFields
        <4>3. /\ shipping.told # "verified" /\ (Saving!TakenBack \/ \E b \in Saving!Ids : Safe(b))
              /\ shipping.at # Saving!Nil =>
                    /\ shipping.at \in Saving!Ids /\ backup[shipping.at].stage \in Past
                    /\ Saving!Age(shipping.at) >= Retention
          BY <4>1 DEF ShippingInv
        <4>4. new.at # Saving!Nil =>
                    /\ new.at \in Saving!Ids /\ backup[new.at].stage \in Past
                    /\ Saving!Age(new.at) >= Retention
          BY <4>2, <4>3
        <4>. QED  BY <2>5, <4>1, <4>2, <4>3, <4>4
      <3>. QED  BY <3>1, <3>2
    <2>15. ASSUME Saving!EndShipping  PROVE ShippingInv'
      <3>1. PICK said : Saving!Stopped(said) /\ shipping.stage = "expire"
        BY <2>15 DEF Saving!EndShipping
      <3>2. Saving!TakenBack \/ \E b \in Saving!Ids : Safe(b)
        BY <3>1 DEF ShippingInv
      <3>. QED  BY <2>7, <3>1, <3>2
    <2>16. ASSUME Saving!AbortShipping  PROVE ShippingInv'
      BY <2>7, <2>16 DEF Saving!AbortShipping
    <2>17. ASSUME NEW c \in Saving!Ids,
                  \/ Saving!ExpireCopy(c) \/ Saving!Prune(c)
                  \/ \E f \in Saving!Bundle \cup {"work", "dmp"} : Saving!CopyFile(c, f)
           PROVE  ShippingInv'
      <3>1. shipping' = shipping
        BY <2>17 DEF Saving!ExpireCopy, Saving!Prune, Saving!CopyFile, Saving!restOfBackups
      <3>. QED  BY <2>6, <3>1
    <2>18. ASSUME NEW c,
                  \/ Saving!ExportSnapshot(c) \/ Saving!DumpDatabase(c) \/ Saving!CountRows(c)
                  \/ Saving!Publish(c) \/ Saving!CompleteBackup(c) \/ Saving!StopBackup(c)
                  \/ Saving!CleanUpIncomplete(c) \/ Saving!KillBackup(c) \/ Saving!CoolifyBackup(c)
           PROVE  ShippingInv'
      <3>1. shipping' = shipping
        BY <2>18 DEF Saving!ExportSnapshot, Saving!DumpDatabase, Saving!CountRows, Saving!Publish,
           Saving!CompleteBackup, Saving!StopBackup, Saving!CleanUpIncomplete, Saving!KillBackup,
           Saving!CoolifyBackup, Saving!restOfBackups
      <3>. QED  BY <2>6, <3>1
    <2>19. ASSUME NEW v \in Verifiers,
                  \/ \E c \in Dumps, keep \in BOOLEAN : Saving!StartVerifying(v, c, keep)
                  \/ Saving!CreateDatabase(v) \/ Saving!MarkCreated(v) \/ Saving!Restore(v)
                  \/ Saving!Compare(v) \/ Saving!KeepDatabase(v) \/ Saving!DropDatabase(v)
                  \/ Saving!TellVerified(v) \/ Saving!StopVerifying(v) \/ Saving!CleanUpVerifying(v)
                  \/ Saving!KillVerifying(v)
           PROVE  ShippingInv'
      <3>1. shipping' = shipping
        BY <2>19 DEF Saving!StartVerifying, Saving!CreateDatabase, Saving!MarkCreated,
           Saving!Restore, Saving!Compare, Saving!KeepDatabase, Saving!DropDatabase,
           Saving!TellVerified, Saving!StopVerifying, Saving!CleanUpVerifying,
           Saving!KillVerifying, Saving!restOfVerifying
      <3>. QED  BY <2>6, <3>1
    <2>20. ASSUME Saving!WriteContent \/ UNCHANGED Saving!backupVars  PROVE ShippingInv'
      <3>1. shipping' = shipping
        BY <2>20 DEF Saving!WriteContent, Saving!backupVars
      <3>. QED  BY <2>6, <3>1
    <2>21. ASSUME Saving!PassHour  PROVE ShippingInv'
      <3>1. PICK new : new = Saving!NotShipping
        OBVIOUS
      <3>. QED  BY <1>1, <2>5, <2>21, <3>1, ShippingMoves DEF Saving!PassHour
    <2>. QED  BY <2>9, <2>10, <2>11, <2>12, <2>13, <2>14, <2>15, <2>16, <2>17, <2>18, <2>19,
         <2>20, <2>21 DEF Saving!Next
  <1>. QED  BY <1>2, <1>3

\* A backup is whole, what is said of it when it was verified or shipped is so, and once there is
\* one off the host there always is, whatever fails, is killed or overlaps, as long as the job
\* keeps copies no shorter than it calls a backup recent, and unless it met one that is taken back
\* (cleanup of scripts/verify-postgres-backup.sh, the cryptcheck before the deletions in
\* scripts/offsite-backup.sh).
THEOREM BackupsAreSafe ==
    ASSUME AgesAssumption
    PROVE  Saving!Spec => []Saving!BackupsTellTruth /\ [][Saving!OffHostStays]_(Saving!backupVars)
  <1>. DEFINE Inv == BundlesInv /\ VerifiersInv /\ AgesInv /\ ShippingInv
  <1>1. ASSUME Saving!Init  PROVE Inv
    <2>1. BundlesInv
      BY <1>1, BundlesInit
    <2>2. VerifiersInv
      BY <1>1 DEF Saving!Init, VerifiersInv, Verifying, VerifierFields
    <2>3. AgesInv
      BY <1>1 DEF Saving!Init, AgesInv, Aged, Saving!Nil
    <2>4. shipping = Saving!NotShipping
      BY <1>1 DEF Saving!Init
    <2>5. ShippingInv
      BY <2>4 DEF ShippingInv, ShippingFields, Saving!NotShipping
    <2>. QED  BY <2>1, <2>2, <2>3, <2>5
  <1>2. Inv /\ [Saving!Next]_(Saving!backupVars) => Inv'
    BY BundlesStep, VerifiersStep, AgesStep, ShippingStep
  <1>3. Inv => Saving!BackupsTellTruth
    <2>1. SUFFICES ASSUME Inv  PROVE Saving!BackupsTellTruth
      OBVIOUS
    <2>2. ASSUME NEW v \in Verifiers
          PROVE  /\ verifier[v].told = "verified" =>
                       /\ restored[v] = Saving!Nil
                       /\ backup[verifier[v].of].dump = backup[verifier[v].of].metadata
                 /\ verifier[v].told = "retained" => restored[v] = backup[verifier[v].of].metadata
      BY <2>1 DEF VerifiersInv, Verifying
    <2>3. shipping.told = "verified" /\ ~Saving!TakenBack =>
             \E b \in Saving!Ids : Saving!Age(b) < Retention /\ Saving!IsWhole(remote[b])
      BY <2>1 DEF ShippingInv, Safe
    <2>. QED  BY <2>2, <2>3 DEF Saving!BackupsTellTruth
  <1>4. Inv /\ [Saving!Next]_(Saving!backupVars) => [Saving!OffHostStays]_(Saving!backupVars)
    <2>1. SUFFICES ASSUME Inv, [Saving!Next]_(Saving!backupVars), ~Saving!TakenBack,
                          NEW b \in Saving!Ids, Saving!IsWhole(remote[b])
                   PROVE  \E c \in Saving!Ids : Saving!IsWhole(remote'[c])
      BY DEF Saving!OffHostStays
    <2>2. CASE shipping.stage # "expire"
      BY <2>1, <2>2, CopiesKept
    <2>3. CASE shipping.stage = "expire"
      <3>1. PICK c \in Saving!Ids : Safe(c)
        BY <2>1, <2>3 DEF ShippingInv
      <3>. QED  BY <2>1, <3>1, CopiesKept DEF Safe
    <2>. QED  BY <2>2, <2>3
  <1>. HIDE DEF Inv
  <1>. QED  BY <1>1, <1>2, <1>3, <1>4, PTL DEF Saving!Spec

-----------------------------------------------------------------------------
(* The release gate.  Who holds updater.lock is alone with the passwords:  *)
(* a launcher that lives, or a provisioning between its lock and the       *)
(* environment.  The lock of a gate that remembers it is its own; until    *)
(* something goes wrong in the cleanup, all that is there of a gate is     *)
(* remembered, so what is left when it says how it ended is the runner.    *)
CONSTANTS Gates, Provisions, NoHolder
VARIABLES updater, gateLock, passwords, published, left, gate, provision, process
Gating == INSTANCE RestoreGate

\* Runs have ids of their own, and none is nobody.
GateAssumption == Gates \cap Provisions = {} /\ NoHolder \notin Gates \cup Provisions

GateFields ==
    {"phase", "launcher", "at", "have", "credentials", "outcome", "dirty", "aborted", "told"}

Cleaned == {"database", "worktree", "workspace", "lock"}

\* What may be said of a gate, what is there, and who has the lock.
GateTrue(g, mine, things, held) ==
    /\ DOMAIN mine = GateFields
    /\ mine.phase \in {"idle", "prepare", "working", "cleanup", "tidy", "over"}
    /\ mine.have \subseteq Cleaned /\ mine.dirty \in BOOLEAN
    /\ "lock" \in mine.have => held = g
    /\ mine.phase \in {"idle", "prepare"} =>
          mine.at = 1 /\ mine.have = {} /\ ~mine.dirty /\ mine.outcome = "none"
    /\ mine.phase = "working" =>
          /\ mine.at \in 1 .. 15 /\ ~mine.dirty /\ mine.outcome = "none"
          /\ mine.at = 1 => mine.have = {}
          /\ mine.at > 8 => "database" \in mine.have
    /\ mine.phase \in {"tidy", "over"} => mine.have = {} /\ ~mine.dirty
    /\ ~(mine.dirty \/ (mine.phase \in {"tidy", "over"}
                            /\ mine.outcome \notin {"passed", "failed"}))
          => /\ \A x \in things : x[1] = g /\ x[2] # "runner" => x[2] \in mine.have
             /\ held = g => "lock" \in mine.have
    /\ mine.told = "passed" =>
          mine.phase = "over" /\ mine.outcome = "passed" /\ \A x \in things : x[1] # g

GateInv ==
    /\ left \subseteq Gates \X (Cleaned \cup {"runner"})
    /\ DOMAIN gate = Gates
    /\ \A g \in Gates : GateTrue(g, gate[g], left, gateLock)

\* Who may change the passwords, and who may count on them.
LockInv ==
    /\ DOMAIN gate = Gates /\ \A g \in Gates : DOMAIN gate[g] = GateFields
    /\ DOMAIN provision = Provisions
    /\ \A g \in Gates : gate[g].launcher = "up" => updater = g
    /\ \A g \in Gates : gate[g].phase \in {"prepare", "tidy"} => gate[g].launcher = "up"
    /\ \A p \in Provisions :
          /\ provision[p] \in {"locked", "staged", "verified"} => updater = p
          /\ provision[p] = "verified" => passwords = p

-----------------------------------------------------------------------------
\* The steps of a gate, and the things that are cleaned up.
LEMMA GateSteps ==
    /\ Len(Gating!Steps) = 14
    /\ \A i \in 1 .. 14 : /\ Gating!Steps[i] = "lock" => i = 1
                          /\ Gating!Steps[i] = "create" => i > 8
                          /\ i > 7 /\ i <= 8 => Gating!Steps[i] = "reserve"
    /\ DOMAIN Gating!CleanUpOrder = 1 .. 4
    /\ \A k \in 1 .. 4 : Gating!CleanUpOrder[k] \in Cleaned
    /\ \A x \in Cleaned : \E k \in 1 .. 4 : Gating!CleanUpOrder[k] = x
  <1>1. Len(Gating!Steps) = 14
    BY DEF Gating!Steps
  <1>2. \A i \in 1 .. 14 : /\ Gating!Steps[i] = "lock" => i = 1
                           /\ Gating!Steps[i] = "create" => i > 8
                           /\ i > 7 /\ i <= 8 => Gating!Steps[i] = "reserve"
    BY DEF Gating!Steps
  <1>3. DOMAIN Gating!CleanUpOrder = 1 .. 4
    BY DEF Gating!CleanUpOrder
  <1>4. \A k \in 1 .. 4 : Gating!CleanUpOrder[k] \in Cleaned
    BY DEF Gating!CleanUpOrder, Cleaned
  <1>5. \A x \in Cleaned : \E k \in 1 .. 4 : Gating!CleanUpOrder[k] = x
    BY DEF Gating!CleanUpOrder, Cleaned
  <1>. QED  BY <1>1, <1>2, <1>3, <1>4, <1>5

\* A step of a gate that leaves what is there of the others.
LEMMA GateStep ==
    ASSUME GateInv, NEW g \in Gates, NEW mine, gate' = [gate EXCEPT ![g] = mine],
           left' \subseteq Gates \X (Cleaned \cup {"runner"}),
           \A x : x[1] # g => (x \in left' <=> x \in left),
           gateLock' = gateLock \/ (gateLock \in {g, NoHolder} /\ gateLock' \in {g, NoHolder}),
           GateAssumption,
           GateTrue(g, mine, left', gateLock')
    PROVE  GateInv'
  <1>1. DOMAIN gate' = Gates /\ gate'[g] = mine /\ \A h \in Gates \ {g} : gate'[h] = gate[h]
    BY DEF GateInv
  <1>2. ASSUME NEW h \in Gates \ {g}  PROVE GateTrue(h, gate'[h], left', gateLock')
    <2>1. gateLock' = h <=> gateLock = h
      BY DEF GateAssumption
    <2>2. \A x : x[1] = h => (x \in left' <=> x \in left)
      BY <1>2
    <2>. QED  BY <1>1, <2>1, <2>2 DEF GateInv, GateTrue
  <1>. QED  BY <1>1, <1>2 DEF GateInv

\* What a gate has become, without its record.
LEMMA GateFieldsOf ==
    ASSUME GateInv, NEW g \in Gates
    PROVE  /\ DOMAIN gate[g] = GateFields
           /\ \A how : /\ DOMAIN Gating!Ended(g, how) = GateFields
                       /\ Gating!Ended(g, how).phase = "cleanup"
                       /\ Gating!Ended(g, how).outcome = how
                       /\ Gating!Ended(g, how).have = gate[g].have
                       /\ Gating!Ended(g, how).dirty = gate[g].dirty
                       /\ Gating!Ended(g, how).told = gate[g].told
           /\ /\ DOMAIN Gating!Next1(g) = GateFields
              /\ Gating!Next1(g).phase = gate[g].phase /\ Gating!Next1(g).at = gate[g].at + 1
              /\ Gating!Next1(g).have = gate[g].have /\ Gating!Next1(g).dirty = gate[g].dirty
              /\ Gating!Next1(g).outcome = gate[g].outcome /\ Gating!Next1(g).told = gate[g].told
  <1>1. DOMAIN gate[g] = GateFields
    BY DEF GateInv, GateTrue
  <1>. QED  BY <1>1 DEF GateFields, Gating!Ended, Gating!Next1

\* The launcher and the operator.
LEMMA LauncherStep ==
    ASSUME GateAssumption, GateInv, NEW g \in Gates,
           \/ Gating!Launch(g) \/ Gating!StartGate(g) \/ Gating!LoseLauncher(g) \/ Gating!Tidy(g)
    PROVE  GateInv'
  <1>1. GateTrue(g, gate[g], left, gateLock) /\ DOMAIN gate[g] = GateFields
    BY DEF GateInv, GateTrue
  <1>2. CASE Gating!Launch(g)
    <2>1. PICK mine, some : /\ gate' = [gate EXCEPT ![g] = mine] /\ left' = left \cup some
                            /\ DOMAIN mine = GateFields /\ mine.phase \in {"prepare", "over"}
                            /\ mine.outcome = gate[g].outcome /\ mine.at = gate[g].at
                            /\ mine.have = gate[g].have /\ mine.dirty = gate[g].dirty
                            /\ mine.told \in {gate[g].told, "failed"}
                            /\ some \in {{<<g, "runner">>}, {}}
      <3>1. CASE updater = NoHolder
        <4>1. PICK mine : mine = [gate[g] EXCEPT !.phase = "prepare", !.launcher = "up"]
          OBVIOUS
        <4>2. gate' = [gate EXCEPT ![g] = mine] /\ left' = left \cup {<<g, "runner">>}
          BY <1>2, <3>1, <4>1 DEF Gating!Launch
        <4>3. /\ DOMAIN mine = GateFields /\ mine.phase \in {"prepare", "over"}
              /\ mine.outcome = gate[g].outcome /\ mine.at = gate[g].at
              /\ mine.have = gate[g].have /\ mine.dirty = gate[g].dirty
              /\ mine.told \in {gate[g].told, "failed"}
          BY <1>1, <4>1 DEF GateFields
        <4>. QED  BY <4>2, <4>3
      <3>2. CASE updater # NoHolder
        <4>1. PICK mine : mine = [gate[g] EXCEPT !.phase = "over", !.told = "failed"]
          OBVIOUS
        <4>2. gate' = [gate EXCEPT ![g] = mine] /\ left' = left \cup {}
          BY <1>2, <3>2, <4>1 DEF Gating!Launch
        <4>3. /\ DOMAIN mine = GateFields /\ mine.phase \in {"prepare", "over"}
              /\ mine.outcome = gate[g].outcome /\ mine.at = gate[g].at
              /\ mine.have = gate[g].have /\ mine.dirty = gate[g].dirty
              /\ mine.told \in {gate[g].told, "failed"}
          BY <1>1, <4>1 DEF GateFields
        <4>. QED  BY <4>2, <4>3
      <3>. QED  BY <3>1, <3>2
    <2>2. gate[g].phase = "idle" /\ gateLock' = gateLock
      BY <1>2 DEF Gating!Launch
    <2>3. GateTrue(g, mine, left', gateLock')
      BY <1>1, <2>1, <2>2 DEF GateTrue
    <2>4. /\ left' \subseteq Gates \X (Cleaned \cup {"runner"})
          /\ \A x : x[1] # g => (x \in left' <=> x \in left)
      BY <2>1 DEF GateInv
    <2>. QED  BY <2>1, <2>2, <2>3, <2>4, GateStep
  <1>3. CASE Gating!StartGate(g)
    <2>1. PICK mine : /\ gate' = [gate EXCEPT ![g] = mine] /\ DOMAIN mine = GateFields
                      /\ \/ mine.phase = "working" /\ mine.outcome = gate[g].outcome
                         \/ mine.phase = "tidy" /\ mine.outcome = "failed"
                      /\ mine.at = gate[g].at /\ mine.have = gate[g].have
                      /\ mine.dirty = gate[g].dirty /\ mine.told = gate[g].told
      <3>1. CASE gate' = [gate EXCEPT ![g].phase = "working", ![g].credentials = published]
        <4>1. PICK mine : mine = [gate[g] EXCEPT !.phase = "working", !.credentials = published]
          OBVIOUS
        <4>2. gate' = [gate EXCEPT ![g] = mine]
          BY <3>1, <4>1
        <4>3. /\ DOMAIN mine = GateFields /\ mine.phase = "working"
              /\ mine.outcome = gate[g].outcome /\ mine.at = gate[g].at
              /\ mine.have = gate[g].have /\ mine.dirty = gate[g].dirty
              /\ mine.told = gate[g].told
          BY <1>1, <4>1 DEF GateFields
        <4>. QED  BY <4>2, <4>3
      <3>2. CASE gate' = [gate EXCEPT ![g].phase = "tidy", ![g].outcome = "failed"]
        <4>1. PICK mine : mine = [gate[g] EXCEPT !.phase = "tidy", !.outcome = "failed"]
          OBVIOUS
        <4>2. gate' = [gate EXCEPT ![g] = mine]
          BY <3>2, <4>1
        <4>3. /\ DOMAIN mine = GateFields /\ mine.phase = "tidy" /\ mine.outcome = "failed"
              /\ mine.at = gate[g].at /\ mine.have = gate[g].have
              /\ mine.dirty = gate[g].dirty /\ mine.told = gate[g].told
          BY <1>1, <4>1 DEF GateFields
        <4>. QED  BY <4>2, <4>3
      <3>. QED  BY <1>3, <3>1, <3>2 DEF Gating!StartGate
    <2>2. gate[g].phase = "prepare" /\ gateLock' = gateLock /\ left' = left
      BY <1>3 DEF Gating!StartGate
    <2>3. GateTrue(g, mine, left', gateLock')
      BY <1>1, <2>1, <2>2 DEF GateTrue
    <2>. QED  BY <2>1, <2>2, <2>3, GateStep DEF GateInv
  <1>4. CASE Gating!LoseLauncher(g)
    <2>1. PICK mine : /\ gate' = [gate EXCEPT ![g] = mine] /\ DOMAIN mine = GateFields
                      /\ \/ gate[g].phase \in {"prepare", "tidy"} /\ mine.phase = "over"
                         \/ gate[g].phase \notin {"prepare", "tidy"} /\ mine.phase = gate[g].phase
                      /\ mine.outcome = gate[g].outcome /\ mine.at = gate[g].at
                      /\ mine.have = gate[g].have /\ mine.dirty = gate[g].dirty
                      /\ mine.told = "failed"
      <3>1. PICK mine : mine = [gate[g] EXCEPT !.launcher = "gone", !.told = "failed",
                   !.phase = IF @ \in {"prepare", "tidy"} THEN "over" ELSE @]
        OBVIOUS
      <3>2. gate' = [gate EXCEPT ![g] = mine]
        BY <1>4, <3>1 DEF Gating!LoseLauncher
      <3>3. /\ DOMAIN mine = GateFields
            /\ \/ gate[g].phase \in {"prepare", "tidy"} /\ mine.phase = "over"
               \/ gate[g].phase \notin {"prepare", "tidy"} /\ mine.phase = gate[g].phase
            /\ mine.outcome = gate[g].outcome /\ mine.at = gate[g].at
            /\ mine.have = gate[g].have /\ mine.dirty = gate[g].dirty /\ mine.told = "failed"
        BY <1>1, <3>1 DEF GateFields
      <3>. QED  BY <3>2, <3>3
    <2>2. gateLock' = gateLock /\ left' = left
      BY <1>4 DEF Gating!LoseLauncher
    <2>3. GateTrue(g, mine, left', gateLock')
      BY <1>1, <2>1, <2>2 DEF GateTrue
    <2>. QED  BY <2>1, <2>2, <2>3, GateStep DEF GateInv
  <1>5. CASE Gating!Tidy(g)
    <2>1. PICK tidied \in BOOLEAN, said \in {"passed", "failed"} :
             /\ said = "passed" => tidied /\ gate[g].outcome = "passed"
             /\ left' = IF tidied THEN left \ {<<g, "runner">>} ELSE left
             /\ gate' = [gate EXCEPT ![g].phase = "over", ![g].launcher = "none", ![g].told = said]
      BY <1>5 DEF Gating!Tidy
    <2>2. PICK mine : mine = [gate[g] EXCEPT !.phase = "over", !.launcher = "none", !.told = said]
      OBVIOUS
    <2>3. /\ gate' = [gate EXCEPT ![g] = mine] /\ DOMAIN mine = GateFields
          /\ mine.phase = "over" /\ mine.outcome = gate[g].outcome /\ mine.at = gate[g].at
          /\ mine.have = gate[g].have /\ mine.dirty = gate[g].dirty /\ mine.told = said
      BY <1>1, <2>1, <2>2 DEF GateFields
    <2>4. gate[g].phase = "tidy" /\ gateLock' = gateLock /\ left' \subseteq left
      BY <1>5, <2>1 DEF Gating!Tidy
    <2>5. \A x \in left : x[1] = g /\ x[2] = "runner" => x = <<g, "runner">>
      BY DEF GateInv
    <2>6. GateTrue(g, mine, left', gateLock')
      BY <1>1, <2>1, <2>3, <2>4, <2>5 DEF GateTrue
    <2>7. /\ left' \subseteq Gates \X (Cleaned \cup {"runner"})
          /\ \A x : x[1] # g => (x \in left' <=> x \in left)
      BY <2>1 DEF GateInv
    <2>. QED  BY <2>3, <2>4, <2>6, <2>7, GateStep
  <1>. QED  BY <1>2, <1>3, <1>4, <1>5

\* What is remembered, put another way.
LEMMA Remembering ==
    ASSUME NEW mine, DOMAIN mine = GateFields, NEW have
    PROVE  /\ DOMAIN [mine EXCEPT !.have = have] = GateFields
           /\ [mine EXCEPT !.have = have].have = have
           /\ [mine EXCEPT !.have = have].phase = mine.phase
           /\ [mine EXCEPT !.have = have].at = mine.at
           /\ [mine EXCEPT !.have = have].outcome = mine.outcome
           /\ [mine EXCEPT !.have = have].dirty = mine.dirty
           /\ [mine EXCEPT !.have = have].told = mine.told
  BY DEF GateFields

\* A phase goes on or fails, and remembers what it may have made.
Works(g, thing, mine) ==
    /\ gate[g].phase = "working" /\ gate' = [gate EXCEPT ![g] = mine]
    /\ DOMAIN mine = GateFields /\ mine.dirty = gate[g].dirty /\ mine.told = gate[g].told
    /\ \/ /\ mine.phase = "working" /\ mine.outcome = gate[g].outcome
          /\ gate[g].at \in 1 .. 14 /\ mine.at = gate[g].at + 1
          /\ gate[g].at = 8 => thing = "database" /\ thing \in mine.have
       \/ mine.phase = "cleanup"
    /\ mine.have \in {gate[g].have, gate[g].have \cup {thing}}
    /\ left' = left \/ (left' = left \cup {<<g, thing>>} /\ thing \in mine.have)

LEMMA WorkStep ==
    ASSUME GateAssumption, GateInv, NEW g \in Gates, NEW thing \in Cleaned, NEW mine,
           Works(g, thing, mine),
           \/ gateLock' = gateLock /\ (thing = "lock" => thing \notin mine.have)
           \/ gateLock = NoHolder /\ gateLock' = g /\ "lock" \in mine.have
    PROVE  GateInv'
  <1>1. GateTrue(g, gate[g], left, gateLock)
    BY DEF GateInv
  <1>2. gate[g].have \subseteq mine.have /\ mine.have \subseteq gate[g].have \cup {thing}
    BY DEF Works
  <1>3. mine.phase = "working" => /\ mine.at \in 1 .. 15 /\ mine.at # 1
                                  /\ mine.at > 8 => "database" \in mine.have
                                  /\ mine.outcome = "none"
    BY <1>1, <1>2 DEF GateTrue, Works
  <1>4. \A x \in left' : x[1] = g /\ x[2] # "runner" => x[2] \in mine.have
    BY <1>1, <1>2 DEF GateTrue, Works
  <1>5. gateLock' = g => "lock" \in mine.have
    BY <1>1, <1>2 DEF GateTrue, Works
  <1>6. "lock" \in mine.have => gateLock' = g
    BY <1>1, <1>2 DEF GateTrue
  <1>7. /\ mine.dirty = FALSE /\ mine.told # "passed" /\ mine.have \subseteq Cleaned
        /\ mine.phase \in {"working", "cleanup"} /\ DOMAIN mine = GateFields
    BY <1>1, <1>2 DEF GateTrue, Works
  <1>8. GateTrue(g, mine, left', gateLock')
    <2>1. mine.phase = "working" =>
             /\ mine.at \in 1 .. 15 /\ ~mine.dirty /\ mine.outcome = "none"
             /\ mine.at = 1 => mine.have = {}
             /\ mine.at > 8 => "database" \in mine.have
      BY <1>3, <1>7
    <2>2. mine.phase \notin {"idle", "prepare", "tidy", "over"}
      BY <1>7
    <2>3. mine.dirty \in BOOLEAN /\ mine.phase \in {"working", "cleanup"}
      BY <1>7
    <2>. QED  BY <1>4, <1>5, <1>6, <1>7, <2>1, <2>2, <2>3 DEF GateTrue
  <1>9. /\ left' \subseteq Gates \X (Cleaned \cup {"runner"})
        /\ \A x : x[1] # g => (x \in left' <=> x \in left)
    BY DEF GateInv, Works
  <1>. QED  BY <1>8, <1>9, GateStep DEF Works

\* The phases of a gate.
LEMMA PhaseStep ==
    ASSUME GateAssumption, GateInv, NEW g \in Gates,
           \/ Gating!AcquireLock(g) \/ Gating!PrepareWorkspace(g) \/ Gating!CreateWorktree(g)
           \/ Gating!Reserve(g) \/ Gating!CreateDatabase(g)
           \/ \E name \in {Gating!Steps[i] : i \in 1 .. 14} \ {"reserve", "create", "lock"} :
                 Gating!Command(g, name)
    PROVE  GateInv'
  <1>1. GateTrue(g, gate[g], left, gateLock) /\ DOMAIN gate[g] = GateFields
    BY DEF GateInv, GateTrue
  <1>2. PICK failed, further : failed = Gating!Failed(g) /\ further = Gating!Next1(g)
    OBVIOUS
  <1>3. /\ DOMAIN failed = GateFields /\ failed.phase = "cleanup" /\ failed.have = gate[g].have
        /\ failed.dirty = gate[g].dirty /\ failed.told = gate[g].told
        /\ DOMAIN further = GateFields /\ further.phase = gate[g].phase
        /\ further.at = gate[g].at + 1 /\ further.have = gate[g].have
        /\ further.dirty = gate[g].dirty /\ further.outcome = gate[g].outcome
        /\ further.told = gate[g].told
    BY <1>2, GateFieldsOf DEF Gating!Failed
  <1>4. ASSUME NEW name, Gating!At(g, name)
        PROVE  /\ gate[g].phase = "working" /\ gate[g].at \in 1 .. 14
               /\ Gating!Steps[gate[g].at] = name
    BY <1>1, <1>4, GateSteps DEF Gating!At, GateTrue
  <1>. HIDE DEF GateFields
  <1>5. CASE Gating!AcquireLock(g)
    <2>1. gate[g].phase = "working" /\ gate[g].at = 1 /\ gate[g].have = {} /\ left' = left
      BY <1>1, <1>4, <1>5, GateSteps DEF Gating!AcquireLock, GateTrue
    <2>2. CASE gateLock = NoHolder
      <3>1. PICK mine : mine = [further EXCEPT !.have = {"lock"}]
        OBVIOUS
      <3>2. gate' = [gate EXCEPT ![g] = mine] /\ gateLock' = g
        BY <1>2, <1>5, <2>2, <3>1 DEF Gating!AcquireLock, Gating!Lockable, Gating!Go
      <3>3. Works(g, "lock", mine) /\ "lock" \in Cleaned /\ "lock" \in mine.have
        BY <1>3, <2>1, <3>1, <3>2, Remembering DEF Works, Cleaned
      <3>. QED  BY <2>2, <3>2, <3>3, WorkStep
    <2>3. CASE gateLock # NoHolder
      <3>1. gate' = [gate EXCEPT ![g] = failed] /\ gateLock' = gateLock
        BY <1>2, <1>5, <2>3 DEF Gating!AcquireLock, Gating!Lockable, Gating!Go
      <3>2. Works(g, "lock", failed) /\ "lock" \in Cleaned /\ "lock" \notin failed.have
        BY <1>3, <2>1, <3>1 DEF Works, Cleaned
      <3>. QED  BY <3>1, <3>2, WorkStep
    <2>. QED  BY <2>2, <2>3
  <1>6. CASE Gating!PrepareWorkspace(g)
    <2>1. gate[g].phase = "working" /\ gate[g].at \in 1 .. 14 /\ gate[g].at # 8
          /\ gateLock' = gateLock
      BY <1>4, <1>6, GateSteps DEF Gating!PrepareWorkspace
    <2>2. PICK mine : mine = [further EXCEPT !.have = @ \cup {"workspace"}]
      OBVIOUS
    <2>3. \/ gate' = [gate EXCEPT ![g] = mine] /\ left' = left \cup {<<g, "workspace">>}
          \/ gate' = [gate EXCEPT ![g] = failed] /\ left' = left
      BY <1>2, <1>6, <2>2 DEF Gating!PrepareWorkspace, Gating!Go
    <2>4. /\ DOMAIN mine = GateFields /\ mine.have = gate[g].have \cup {"workspace"}
          /\ mine.phase = "working" /\ mine.at = gate[g].at + 1
          /\ mine.outcome = gate[g].outcome /\ mine.dirty = gate[g].dirty
          /\ mine.told = gate[g].told
      BY <1>3, <2>1, <2>2, Remembering
    <2>5. "workspace" \in Cleaned
      BY DEF Cleaned
    <2>6. CASE gate' = [gate EXCEPT ![g] = mine] /\ left' = left \cup {<<g, "workspace">>}
      <3>1. Works(g, "workspace", mine)
        BY <2>1, <2>4, <2>6 DEF Works
      <3>. QED  BY <2>1, <2>5, <3>1, WorkStep
    <2>7. CASE gate' = [gate EXCEPT ![g] = failed] /\ left' = left
      <3>1. Works(g, "workspace", failed)
        BY <1>3, <2>1, <2>7 DEF Works
      <3>. QED  BY <2>1, <2>5, <3>1, WorkStep
    <2>. QED  BY <2>3, <2>6, <2>7
  <1>7. CASE Gating!CreateWorktree(g)
    <2>1. gate[g].phase = "working" /\ gate[g].at \in 1 .. 14 /\ gate[g].at # 8
          /\ gateLock' = gateLock
      BY <1>4, <1>7, GateSteps DEF Gating!CreateWorktree
    <2>2. PICK ok \in BOOLEAN :
             /\ left' \in {left \cup {<<g, "worktree">>}} \cup IF ok THEN {} ELSE {left}
             /\ gate' = [gate EXCEPT ![g] = [(IF ok THEN further ELSE failed) EXCEPT
                                                !.have = @ \cup {"worktree"}]]
      BY <1>2, <1>7 DEF Gating!CreateWorktree, Gating!RememberedWorktree, Gating!Go
    <2>3. PICK base : base = IF ok THEN further ELSE failed
      OBVIOUS
    <2>4. PICK mine : mine = [base EXCEPT !.have = base.have \cup {"worktree"}]
      OBVIOUS
    <2>5. /\ DOMAIN base = GateFields /\ base.have = gate[g].have /\ base.dirty = gate[g].dirty
          /\ base.told = gate[g].told
          /\ \/ base.phase = "working" /\ base.at = gate[g].at + 1 /\ base.outcome = gate[g].outcome
             \/ base.phase = "cleanup"
      BY <1>3, <2>1, <2>3
    <2>6. gate' = [gate EXCEPT ![g] = mine]
      BY <2>2, <2>3, <2>4
    <2>7. /\ DOMAIN mine = GateFields /\ mine.have = gate[g].have \cup {"worktree"}
          /\ mine.phase = base.phase /\ mine.at = base.at /\ mine.outcome = base.outcome
          /\ mine.dirty = gate[g].dirty /\ mine.told = gate[g].told
      BY <2>4, <2>5, Remembering
    <2>8. "worktree" \in Cleaned
      BY DEF Cleaned
    <2>9. Works(g, "worktree", mine)
      BY <2>1, <2>2, <2>5, <2>6, <2>7 DEF Works
    <2>. QED  BY <2>1, <2>8, <2>9, WorkStep
  <1>8. CASE Gating!Reserve(g)
    <2>1. gate[g].phase = "working" /\ gate[g].at \in 1 .. 14 /\ gateLock' = gateLock /\ left' = left
      BY <1>4, <1>8 DEF Gating!Reserve
    <2>2. PICK mine : mine = [further EXCEPT !.have = @ \cup {"database"}]
      OBVIOUS
    <2>3. gate' = [gate EXCEPT ![g] = mine]
      BY <1>2, <1>8, <2>2 DEF Gating!Reserve, Gating!Go
    <2>4. /\ DOMAIN mine = GateFields /\ mine.have = gate[g].have \cup {"database"}
          /\ mine.phase = "working" /\ mine.at = gate[g].at + 1
          /\ mine.outcome = gate[g].outcome /\ mine.dirty = gate[g].dirty
          /\ mine.told = gate[g].told
      BY <1>3, <2>1, <2>2, Remembering
    <2>5. "database" \in Cleaned
      BY DEF Cleaned
    <2>6. Works(g, "database", mine)
      BY <2>1, <2>3, <2>4 DEF Works
    <2>. QED  BY <2>1, <2>5, <2>6, WorkStep
  <1>9. CASE Gating!CreateDatabase(g)
    <2>1. gate[g].phase = "working" /\ gate[g].at \in 1 .. 14 /\ gate[g].at > 8
          /\ gateLock' = gateLock /\ "database" \in gate[g].have
      BY <1>1, <1>4, <1>9, GateSteps DEF Gating!CreateDatabase, GateTrue
    <2>2. /\ left' \in {left, left \cup {<<g, "database">>}}
          /\ gate' = [gate EXCEPT ![g] = further] \/ gate' = [gate EXCEPT ![g] = failed]
      BY <1>2, <1>9 DEF Gating!CreateDatabase, Gating!Go
    <2>3. "database" \in Cleaned
      BY DEF Cleaned
    <2>4. Works(g, "database", further) \/ Works(g, "database", failed)
      BY <1>3, <2>1, <2>2 DEF Works
    <2>. QED  BY <2>1, <2>3, <2>4, WorkStep
  <1>10. ASSUME NEW name \in {Gating!Steps[i] : i \in 1 .. 14} \ {"reserve", "create", "lock"},
                Gating!Command(g, name)
         PROVE  GateInv'
    <2>1. gate[g].phase = "working" /\ gate[g].at \in 1 .. 14 /\ gate[g].at # 8
          /\ gateLock' = gateLock /\ left' = left
      BY <1>4, <1>10, GateSteps DEF Gating!Command
    <2>2. gate' = [gate EXCEPT ![g] = further] \/ gate' = [gate EXCEPT ![g] = failed]
      BY <1>2, <1>10 DEF Gating!Command, Gating!Go
    <2>3. "workspace" \in Cleaned
      BY DEF Cleaned
    <2>4. Works(g, "workspace", further) \/ Works(g, "workspace", failed)
      BY <1>3, <2>1, <2>2 DEF Works
    <2>. QED  BY <2>1, <2>3, <2>4, WorkStep
  <1>. QED  BY <1>5, <1>6, <1>7, <1>8, <1>9, <1>10

\* The process is over: what it says tells what is left, and a process that was killed says nothing.
LEMMA ExitStep ==
    ASSUME GateAssumption, GateInv, NEW g \in Gates, NEW outcome, Gating!Exit(g, outcome),
           gate[g].phase \in {"working", "cleanup"},
           outcome \in {"passed", "failed"} => gate[g].have = {} /\ ~gate[g].dirty
    PROVE  GateInv'
  <1>1. GateTrue(g, gate[g], left, gateLock)
    BY DEF GateInv
  <1>2. PICK mine :
           mine = [Gating!NotLaunched EXCEPT
                       !.phase = IF gate[g].launcher = "up" THEN "tidy" ELSE "over",
                       !.launcher = gate[g].launcher, !.outcome = outcome, !.told = gate[g].told]
    OBVIOUS
  <1>3. gate' = [gate EXCEPT ![g] = mine] /\ gateLock' = gateLock /\ left' = left
    BY <1>2 DEF Gating!Exit, Gating!Go
  <1>4. /\ DOMAIN mine = GateFields /\ mine.phase \in {"tidy", "over"} /\ mine.have = {}
        /\ mine.dirty = FALSE /\ mine.outcome = outcome /\ mine.told = gate[g].told
    BY <1>2 DEF Gating!NotLaunched, GateFields
  <1>5. mine.told # "passed"
    BY <1>1, <1>4 DEF GateTrue
  <1>6. outcome \in {"passed", "failed"} =>
           /\ \A x \in left' : x[1] = g /\ x[2] # "runner" => x[2] \in mine.have
           /\ gateLock' = g => "lock" \in mine.have
    BY <1>1, <1>3, <1>4 DEF GateTrue
  <1>. HIDE DEF GateFields
  <1>7. GateTrue(g, mine, left', gateLock')
    BY <1>4, <1>5, <1>6 DEF GateTrue
  <1>. QED  BY <1>3, <1>7, GateStep DEF GateInv

\* What is cleaned up is the first of what is remembered, and the rest is remembered still.
LEMMA CleanStep ==
    ASSUME GateAssumption, GateInv, NEW g \in Gates, Gating!CleanUp(g)
    PROVE  GateInv'
  <1>1. GateTrue(g, gate[g], left, gateLock) /\ DOMAIN gate[g] = GateFields
    BY DEF GateInv, GateTrue
  <1>2. gate[g].phase = "cleanup" /\ gate[g].have # {} /\ gate[g].have \subseteq Cleaned
    BY <1>1 DEF Gating!CleanUp, GateTrue
  <1>3. PICK k \in 1 .. 4 : /\ Gating!CleanUpOrder[k] \in gate[g].have
                            /\ \A j \in 1 .. k - 1 : Gating!CleanUpOrder[j] \notin gate[g].have
    <2>1. PICK n \in 1 .. 4 : Gating!CleanUpOrder[n] \in gate[g].have
      BY <1>2, GateSteps
    <2>. QED  BY <2>1
  <1>4. PICK i : i = CHOOSE m \in DOMAIN Gating!CleanUpOrder :
                        /\ Gating!CleanUpOrder[m] \in gate[g].have
                        /\ \A j \in 1 .. m - 1 : Gating!CleanUpOrder[j] \notin gate[g].have
    OBVIOUS
  <1>5. i \in 1 .. 4 /\ Gating!CleanUpOrder[i] \in gate[g].have
    BY <1>3, <1>4, GateSteps
  <1>6. PICK thing : thing = Gating!CleanUpOrder[i]
    OBVIOUS
  <1>7. thing \in gate[g].have /\ thing \in Cleaned
    BY <1>2, <1>5, <1>6
  <1>8. PICK rest : rest = [gate[g] EXCEPT !.have = gate[g].have \ {thing}]
    OBVIOUS
  <1>9. PICK mine : mine \in {rest, [rest EXCEPT !.dirty = TRUE]}
                     /\ gate' = [gate EXCEPT ![g] = mine]
                     /\ \/ /\ left' = left \ {<<g, thing>>}
                           /\ gateLock' = IF thing = "lock" THEN NoHolder ELSE gateLock
                        \/ /\ left' = left /\ gateLock' = gateLock
                           /\ mine = [rest EXCEPT !.dirty = TRUE]
    BY <1>4, <1>6, <1>8 DEF Gating!CleanUp, Gating!Go
  <1>10. /\ DOMAIN rest = GateFields /\ rest.have = gate[g].have \ {thing}
         /\ rest.phase = "cleanup" /\ rest.dirty = gate[g].dirty /\ rest.told = gate[g].told
    BY <1>1, <1>2, <1>8, Remembering
  <1>11. /\ DOMAIN mine = GateFields /\ mine.have = gate[g].have \ {thing}
         /\ mine.phase = "cleanup" /\ mine.told = gate[g].told
         /\ mine.dirty = gate[g].dirty \/ mine.dirty = TRUE
         /\ mine = [rest EXCEPT !.dirty = TRUE] => mine.dirty = TRUE
    BY <1>9, <1>10 DEF GateFields
  <1>. HIDE DEF GateFields
  <1>12. "lock" \in mine.have => gateLock' = g
    BY <1>1, <1>9, <1>11 DEF GateTrue
  <1>13. ASSUME ~mine.dirty
         PROVE  /\ \A x \in left' : x[1] = g /\ x[2] # "runner" => x[2] \in mine.have
                /\ gateLock' = g => "lock" \in mine.have
    <2>1. ~gate[g].dirty
      BY <1>1, <1>11, <1>13 DEF GateTrue
    <2>2. /\ \A x \in left : x[1] = g /\ x[2] # "runner" => x[2] \in gate[g].have
          /\ gateLock = g => "lock" \in gate[g].have
      BY <1>1, <1>2, <2>1 DEF GateTrue
    <2>3. /\ left' = left \ {<<g, thing>>}
          /\ gateLock' = IF thing = "lock" THEN NoHolder ELSE gateLock
      BY <1>9, <1>11, <1>13
    <2>4. \A x \in left : x[1] = g /\ x[2] = thing => x = <<g, thing>>
      BY DEF GateInv
    <2>5. gateLock' = g => "lock" \in mine.have
      BY <1>11, <2>2, <2>3 DEF GateAssumption
    <2>. QED  BY <1>11, <2>2, <2>3, <2>4, <2>5
  <1>14. mine.have \subseteq Cleaned /\ mine.told # "passed" /\ mine.dirty \in BOOLEAN
    BY <1>1, <1>2, <1>11 DEF GateTrue
  <1>15. GateTrue(g, mine, left', gateLock')
    BY <1>11, <1>12, <1>13, <1>14 DEF GateTrue
  <1>16. gateLock' = gateLock \/ (gateLock \in {g, NoHolder} /\ gateLock' \in {g, NoHolder})
    BY <1>1, <1>7, <1>9 DEF GateTrue
  <1>17. /\ left' \subseteq Gates \X (Cleaned \cup {"runner"})
         /\ \A x : x[1] # g => (x \in left' <=> x \in left)
    BY <1>9 DEF GateInv
  <1>. QED  BY <1>9, <1>15, <1>16, <1>17, GateStep

\* The end of a gate.
LEMMA GateEndStep ==
    ASSUME GateAssumption, GateInv, NEW g \in Gates,
           Gating!Proved(g) \/ Gating!Report(g) \/ Gating!Kill(g) \/ Gating!Interrupt(g)
    PROVE  GateInv'
  <1>1. GateTrue(g, gate[g], left, gateLock) /\ DOMAIN gate[g] = GateFields
    BY DEF GateInv, GateTrue
  <1>2. CASE Gating!Proved(g)
    <2>1. PICK mine : mine = Gating!Ended(g, "passed")
      OBVIOUS
    <2>2. /\ gate' = [gate EXCEPT ![g] = mine] /\ gateLock' = gateLock /\ left' = left
          /\ gate[g].phase = "working"
      BY <1>2, <2>1 DEF Gating!Proved, Gating!Go
    <2>3. /\ DOMAIN mine = GateFields /\ mine.phase = "cleanup" /\ mine.have = gate[g].have
          /\ mine.dirty = gate[g].dirty /\ mine.told = gate[g].told
      BY <2>1, GateFieldsOf
    <2>. HIDE DEF GateFields
    <2>4. GateTrue(g, mine, left', gateLock')
      BY <1>1, <2>2, <2>3 DEF GateTrue
    <2>. QED  BY <2>2, <2>4, GateStep DEF GateInv
  <1>3. CASE Gating!Report(g)
    <2>1. PICK outcome : outcome = Gating!Receipt(g)
      OBVIOUS
    <2>2. outcome \in {"passed", "failed"} => ~gate[g].dirty
      BY <2>1 DEF Gating!Receipt
    <2>. QED  BY <1>3, <2>1, <2>2, ExitStep DEF Gating!Report
  <1>4. CASE Gating!Kill(g)
    BY <1>4, ExitStep DEF Gating!Kill
  <1>5. CASE Gating!Interrupt(g)
    <2>1. PICK mine : mine = [gate[g] EXCEPT !.aborted = TRUE]
      OBVIOUS
    <2>2. /\ gate' = [gate EXCEPT ![g] = mine] /\ gateLock' = gateLock /\ left' = left
      BY <1>5, <2>1 DEF Gating!Interrupt, Gating!Go
    <2>3. /\ DOMAIN mine = GateFields /\ mine.phase = gate[g].phase /\ mine.have = gate[g].have
          /\ mine.dirty = gate[g].dirty /\ mine.told = gate[g].told /\ mine.at = gate[g].at
          /\ mine.outcome = gate[g].outcome
      BY <1>1, <2>1 DEF GateFields
    <2>. HIDE DEF GateFields
    <2>4. GateTrue(g, mine, left', gateLock')
      BY <1>1, <2>2, <2>3 DEF GateTrue
    <2>. QED  BY <2>2, <2>4, GateStep DEF GateInv
  <1>. QED  BY <1>2, <1>3, <1>4, <1>5

-----------------------------------------------------------------------------
\* Every step keeps what is said of the gates.
LEMMA GateNext ==
    ASSUME GateAssumption, GateInv, [Gating!Next]_(Gating!gateVars)
    PROVE  GateInv'
  <1>1. CASE UNCHANGED <<gate, left, gateLock>>
    BY <1>1 DEF GateInv
  <1>2. ASSUME NEW p \in Provisions,
               \/ Gating!LockForProvision(p) \/ Gating!Rotate(p) \/ Gating!Probe(p)
               \/ Gating!Publish(p) \/ Gating!ProvisionFails(p)
        PROVE  UNCHANGED <<gate, left, gateLock>>
    BY <1>2 DEF Gating!LockForProvision, Gating!Rotate, Gating!Probe, Gating!Publish,
                Gating!ProvisionFails, Gating!restOfGate
  <1>3. ASSUME NEW g \in Gates,
               \/ Gating!VerifyCandidate(g) \/ Gating!VerifyDatabaseBoundaries(g)
               \/ Gating!ProveFreshCoolifyBackup(g) \/ Gating!CreateIndependentBackup(g)
               \/ Gating!RestoreBackup(g) \/ Gating!MigrateCandidate(g) \/ Gating!ValidatePrisma(g)
               \/ Gating!VerifyZeroDrift(g) \/ Gating!VerifyReleaseInvariants(g)
        PROVE  GateInv'
    <2>1. {"candidate", "boundaries", "backup", "independent", "restore", "migrate", "validate",
           "drift", "invariants"} \subseteq
             {Gating!Steps[i] : i \in 1 .. 14} \ {"reserve", "create", "lock"}
      <3>1. /\ Gating!Steps[3] = "candidate" /\ Gating!Steps[5] = "boundaries"
            /\ Gating!Steps[6] = "backup" /\ Gating!Steps[7] = "independent"
            /\ Gating!Steps[10] = "restore" /\ Gating!Steps[11] = "migrate"
            /\ Gating!Steps[12] = "validate" /\ Gating!Steps[13] = "drift"
            /\ Gating!Steps[14] = "invariants"
        BY DEF Gating!Steps
      <3>. QED  BY <3>1
    <2>2. PICK name \in {Gating!Steps[i] : i \in 1 .. 14} \ {"reserve", "create", "lock"} :
             Gating!Command(g, name)
      BY <1>3, <2>1 DEF Gating!VerifyCandidate, Gating!VerifyDatabaseBoundaries,
            Gating!ProveFreshCoolifyBackup, Gating!CreateIndependentBackup, Gating!RestoreBackup,
            Gating!MigrateCandidate, Gating!ValidatePrisma, Gating!VerifyZeroDrift,
            Gating!VerifyReleaseInvariants
    <2>. QED  BY <2>2, PhaseStep
  <1>4. CASE UNCHANGED Gating!gateVars
    BY <1>1, <1>4 DEF Gating!gateVars
  <1>. QED  BY <1>1, <1>2, <1>3, <1>4, LauncherStep, PhaseStep, CleanStep, GateEndStep DEF Gating!Next

\* Whoever is told that a commit passed can rely on it, a gate that says how it failed left
\* nothing behind, and no two gates work at once.
THEOREM GatesTellTruth ==
    ASSUME GateAssumption
    PROVE  Gating!Spec => [](Gating!GateTellsTruth /\ Gating!GatesAreApart)
  <1>1. ASSUME Gating!Init  PROVE GateInv
    <2>1. DOMAIN gate = Gates /\ left = {} /\ gateLock = NoHolder
      BY <1>1 DEF Gating!Init
    <2>2. PICK mine : mine = Gating!NotLaunched
      OBVIOUS
    <2>3. /\ DOMAIN mine = GateFields /\ mine.phase = "idle" /\ mine.at = 1 /\ mine.have = {}
          /\ mine.outcome = "none" /\ mine.dirty = FALSE /\ mine.told = "waiting"
      BY <2>2 DEF Gating!NotLaunched, GateFields
    <2>4. \A g \in Gates : gate[g] = mine
      BY <1>1, <2>2 DEF Gating!Init
    <2>. HIDE DEF GateFields
    <2>5. ASSUME NEW g \in Gates  PROVE GateTrue(g, mine, left, gateLock)
      BY <2>1, <2>3 DEF GateTrue, GateAssumption
    <2>. QED  BY <2>1, <2>4, <2>5 DEF GateInv
  <1>2. ASSUME GateInv  PROVE Gating!GateTellsTruth
    <2>1. SUFFICES ASSUME NEW g \in Gates
                   PROVE  LET things == {x \in left : x[1] = g}
                          IN /\ gate[g].told = "passed" => gate[g].outcome = "passed" /\ things = {}
                             /\ gate[g].phase \in {"tidy", "over"}
                                /\ gate[g].outcome \in {"passed", "failed"} =>
                                   things \subseteq {<<g, "runner">>} /\ gateLock # g
      BY DEF Gating!GateTellsTruth
    <2>2. GateTrue(g, gate[g], left, gateLock)
      BY <1>2 DEF GateInv
    <2>3. \A x \in left : x[1] = g /\ x[2] = "runner" => x = <<g, "runner">>
      BY <1>2 DEF GateInv
    <2>. QED  BY <2>2, <2>3 DEF GateTrue
  <1>3. ASSUME GateInv  PROVE Gating!GatesAreApart
    BY <1>3 DEF GateInv, GateTrue, Gating!GatesAreApart
  <1>. QED  BY <1>1, <1>2, <1>3, GateNext, PTL DEF Gating!Spec

-----------------------------------------------------------------------------
(* The locks of the host: who launches and who provisions have the one     *)
(* lock, so the passwords wait for a launcher that lives.                  *)
\* Every step keeps who has the lock.
LEMMA LockNext ==
    ASSUME GateAssumption, LockInv, [Gating!Next]_(Gating!gateVars)
    PROVE  LockInv'
  <1>1. CASE UNCHANGED Gating!gateVars
    BY <1>1 DEF Gating!gateVars, LockInv
  <1>2. ASSUME NEW p \in Provisions,
               \/ Gating!LockForProvision(p) \/ Gating!Rotate(p) \/ Gating!Probe(p)
               \/ Gating!Publish(p) \/ Gating!ProvisionFails(p)
        PROVE  LockInv'
    <2>1. PICK to : /\ provision' = [provision EXCEPT ![p] = to] /\ gate' = gate
                    /\ \/ /\ to = "locked" /\ updater = NoHolder /\ updater' = p
                          /\ passwords' = passwords
                       \/ /\ provision[p] = "locked" /\ to = "staged" /\ updater' = updater
                       \/ /\ provision[p] = "staged" /\ to = "verified" /\ passwords = p
                          /\ updater' = updater /\ passwords' = passwords
                       \/ /\ provision[p] \in {"locked", "staged", "verified"}
                          /\ to \in {"ready", "failed"} /\ passwords' = passwords
                          /\ updater' = IF updater = p THEN NoHolder ELSE updater
      BY <1>2 DEF Gating!LockForProvision, Gating!Rotate, Gating!Probe, Gating!Publish,
                  Gating!ProvisionFails, Gating!restOfGate, Gating!Provision, Gating!LockIsFree
    <2>2. /\ DOMAIN provision' = Provisions /\ provision'[p] = to
          /\ \A q \in Provisions \ {p} : provision'[q] = provision[q]
      BY <2>1 DEF LockInv
    <2>3. \A g \in Gates : gate'[g].launcher = "up" => updater' = g
      BY <2>1 DEF LockInv, GateAssumption
    <2>4. ASSUME NEW q \in Provisions
          PROVE  /\ provision'[q] \in {"locked", "staged", "verified"} => updater' = q
                 /\ provision'[q] = "verified" => passwords' = q
      BY <2>1, <2>2 DEF LockInv, GateAssumption
    <2>. QED  BY <2>1, <2>2, <2>3, <2>4 DEF LockInv
  <1>3. ASSUME NEW g \in Gates, NEW mine, gate' = [gate EXCEPT ![g] = mine],
               DOMAIN mine = GateFields, UNCHANGED <<provision, passwords>>,
               \/ /\ updater' = updater /\ mine.launcher = gate[g].launcher
                  /\ mine.phase \in {"prepare", "tidy"} => mine.launcher = "up"
               \/ updater = NoHolder /\ updater' = g /\ mine.launcher = "up"
               \/ /\ gate[g].launcher = "up" /\ updater' = NoHolder /\ mine.launcher # "up"
                  /\ mine.phase \notin {"prepare", "tidy"}
        PROVE  LockInv'
    <2>1. DOMAIN gate' = Gates /\ gate'[g] = mine /\ \A h \in Gates \ {g} : gate'[h] = gate[h]
      BY <1>3 DEF LockInv
    <2>. HIDE DEF GateFields
    <2>2. /\ \A h \in Gates : gate'[h].launcher = "up" => updater' = h
          /\ \A h \in Gates : gate'[h].phase \in {"prepare", "tidy"} => gate'[h].launcher = "up"
          /\ \A h \in Gates : DOMAIN gate'[h] = GateFields
      BY <1>3, <2>1 DEF LockInv, GateAssumption
    <2>3. \A q \in Provisions :
             /\ provision'[q] \in {"locked", "staged", "verified"} => updater' = q
             /\ provision'[q] = "verified" => passwords' = q
      BY <1>3 DEF LockInv, GateAssumption
    <2>. QED  BY <1>3, <2>1, <2>2, <2>3 DEF LockInv
  <1>4. ASSUME NEW g \in Gates,
               Gating!Launch(g) \/ Gating!StartGate(g) \/ Gating!LoseLauncher(g) \/ Gating!Tidy(g)
        PROVE  LockInv'
    <2>1. DOMAIN gate[g] = GateFields
      BY DEF LockInv
    <2>2. CASE Gating!Launch(g)
      <3>1. PICK mine : /\ gate' = [gate EXCEPT ![g] = mine]
                        /\ \/ /\ mine = [gate[g] EXCEPT !.phase = "prepare", !.launcher = "up"]
                              /\ updater = NoHolder /\ updater' = g
                           \/ /\ mine = [gate[g] EXCEPT !.phase = "over", !.told = "failed"]
                              /\ updater' = updater
        BY <2>2 DEF Gating!Launch
      <3>2. /\ DOMAIN mine = GateFields
            /\ \/ updater = NoHolder /\ updater' = g /\ mine.launcher = "up"
               \/ /\ updater' = updater /\ mine.launcher = gate[g].launcher
                  /\ mine.phase = "over"
        BY <2>1, <3>1 DEF GateFields
      <3>3. UNCHANGED <<provision, passwords>>
        BY <2>2 DEF Gating!Launch, Gating!restOfHost
      <3>. QED  BY <1>3, <3>1, <3>2, <3>3
    <2>3. CASE Gating!StartGate(g)
      <3>1. PICK mine : /\ gate' = [gate EXCEPT ![g] = mine] /\ updater' = updater
                        /\ \/ mine = [gate[g] EXCEPT !.phase = "working", !.credentials = published]
                           \/ mine = [gate[g] EXCEPT !.phase = "tidy", !.outcome = "failed"]
        BY <2>3 DEF Gating!StartGate
      <3>2. DOMAIN mine = GateFields /\ mine.launcher = gate[g].launcher
        BY <2>1, <3>1 DEF GateFields
      <3>3. gate[g].launcher = "up" /\ UNCHANGED <<provision, passwords>>
        BY <2>3 DEF Gating!StartGate, Gating!restOfHost, LockInv
      <3>. QED  BY <1>3, <3>1, <3>2, <3>3
    <2>4. CASE Gating!LoseLauncher(g)
      <3>1. PICK mine : mine = [gate[g] EXCEPT !.launcher = "gone", !.told = "failed",
                                     !.phase = IF @ \in {"prepare", "tidy"} THEN "over" ELSE @]
        OBVIOUS
      <3>2. gate' = [gate EXCEPT ![g] = mine] /\ updater' = NoHolder
        BY <2>4, <3>1 DEF Gating!LoseLauncher
      <3>3. /\ DOMAIN mine = GateFields /\ mine.launcher = "gone"
            /\ mine.phase \notin {"prepare", "tidy"}
        BY <2>1, <3>1 DEF GateFields
      <3>4. gate[g].launcher = "up" /\ UNCHANGED <<provision, passwords>>
        BY <2>4 DEF Gating!LoseLauncher, Gating!restOfHost
      <3>. QED  BY <1>3, <3>2, <3>3, <3>4
    <2>5. CASE Gating!Tidy(g)
      <3>1. PICK mine : /\ gate' = [gate EXCEPT ![g] = mine] /\ updater' = NoHolder
                        /\ DOMAIN mine = GateFields /\ mine.phase = "over"
                        /\ mine.launcher = "none"
        <4>1. PICK said :
                 gate' = [gate EXCEPT ![g].phase = "over", ![g].launcher = "none", ![g].told = said]
          BY <2>5 DEF Gating!Tidy
        <4>2. PICK mine : mine = [gate[g] EXCEPT !.phase = "over", !.launcher = "none",
                                                   !.told = said]
          OBVIOUS
        <4>3. gate' = [gate EXCEPT ![g] = mine]
          BY <4>1, <4>2
        <4>4. DOMAIN mine = GateFields /\ mine.phase = "over" /\ mine.launcher = "none"
          BY <2>1, <4>2 DEF GateFields
        <4>. QED  BY <2>5, <4>3, <4>4 DEF Gating!Tidy
      <3>2. gate[g].launcher = "up" /\ UNCHANGED <<provision, passwords>>
        BY <2>5 DEF Gating!Tidy, Gating!restOfHost, LockInv
      <3>. QED  BY <1>3, <3>1, <3>2
    <2>. QED  BY <1>4, <2>2, <2>3, <2>4, <2>5
  <1>5. ASSUME NEW g \in Gates, NEW mine, gate' = [gate EXCEPT ![g] = mine],
               DOMAIN mine = GateFields, mine.launcher = gate[g].launcher,
               mine.phase \in {"working", "cleanup"}, UNCHANGED Gating!restOfLocks
        PROVE  LockInv'
    BY <1>3, <1>5 DEF Gating!restOfLocks, Gating!restOfHost
  <1>6. ASSUME NEW g \in Gates
        PROVE  /\ DOMAIN gate[g] = GateFields
               /\ DOMAIN Gating!Next1(g) = GateFields
               /\ Gating!Next1(g).launcher = gate[g].launcher
               /\ Gating!Next1(g).phase = gate[g].phase
               /\ \A how : /\ DOMAIN Gating!Ended(g, how) = GateFields
                           /\ Gating!Ended(g, how).launcher = gate[g].launcher
                           /\ Gating!Ended(g, how).phase = "cleanup"
    <2>1. DOMAIN gate[g] = GateFields
      BY DEF LockInv
    <2>. QED  BY <2>1 DEF GateFields, Gating!Next1, Gating!Ended
  <1>7. ASSUME NEW mine, DOMAIN mine = GateFields, NEW have
        PROVE  /\ DOMAIN [mine EXCEPT !.have = have] = GateFields
               /\ [mine EXCEPT !.have = have].launcher = mine.launcher
               /\ [mine EXCEPT !.have = have].phase = mine.phase
    BY <1>7 DEF GateFields
  <1>8. ASSUME NEW g \in Gates, gate[g].phase = "working", UNCHANGED Gating!restOfLocks,
               NEW base \in {Gating!Next1(g), Gating!Failed(g)}, NEW have,
               \/ gate' = [gate EXCEPT ![g] = base]
               \/ gate' = [gate EXCEPT ![g] = [base EXCEPT !.have = have]]
        PROVE  LockInv'
    <2>1. /\ DOMAIN base = GateFields /\ base.launcher = gate[g].launcher
          /\ base.phase \in {"working", "cleanup"}
      BY <1>6, <1>8 DEF Gating!Failed
    <2>2. CASE gate' = [gate EXCEPT ![g] = base]
      BY <1>5, <1>8, <2>1, <2>2
    <2>3. CASE gate' = [gate EXCEPT ![g] = [base EXCEPT !.have = have]]
      <3>1. PICK mine : mine = [base EXCEPT !.have = have]
        OBVIOUS
      <3>2. gate' = [gate EXCEPT ![g] = mine]
        BY <2>3, <3>1
      <3>3. /\ DOMAIN mine = GateFields /\ mine.launcher = gate[g].launcher
            /\ mine.phase \in {"working", "cleanup"}
        BY <1>7, <2>1, <3>1
      <3>. QED  BY <1>5, <1>8, <3>2, <3>3
    <2>. QED  BY <1>8, <2>2, <2>3
  <1>9. ASSUME NEW g \in Gates,
                \/ Gating!AcquireLock(g) \/ Gating!PrepareWorkspace(g) \/ Gating!CreateWorktree(g)
                \/ Gating!Reserve(g) \/ Gating!CreateDatabase(g)
                \/ \E name : Gating!Command(g, name)
         PROVE  LockInv'
    <2>1. gate[g].phase = "working" /\ UNCHANGED Gating!restOfLocks
      BY <1>9 DEF Gating!AcquireLock, Gating!PrepareWorkspace, Gating!CreateWorktree,
            Gating!Reserve, Gating!CreateDatabase, Gating!Command, Gating!At
    <2>2. CASE Gating!AcquireLock(g)
      <3>1. PICK base, failed, have : /\ base = Gating!Next1(g) /\ failed = Gating!Failed(g)
                                      /\ have = {"lock"}
        OBVIOUS
      <3>2. \/ gate' = [gate EXCEPT ![g] = [base EXCEPT !.have = have]]
            \/ gate' = [gate EXCEPT ![g] = failed]
        BY <2>2, <3>1 DEF Gating!AcquireLock, Gating!Go
      <3>. QED  BY <1>8, <2>1, <3>1, <3>2
    <2>3. CASE Gating!PrepareWorkspace(g)
      <3>1. PICK base, failed, have : /\ base = Gating!Next1(g) /\ failed = Gating!Failed(g)
                                      /\ have = base.have \cup {"workspace"}
        OBVIOUS
      <3>2. \/ gate' = [gate EXCEPT ![g] = [base EXCEPT !.have = have]]
            \/ gate' = [gate EXCEPT ![g] = failed]
        BY <2>3, <3>1 DEF Gating!PrepareWorkspace, Gating!Go
      <3>. QED  BY <1>8, <2>1, <3>1, <3>2
    <2>4. CASE Gating!CreateWorktree(g)
      <3>1. PICK ok \in BOOLEAN :
               gate' = [gate EXCEPT ![g] = [(IF ok THEN Gating!Next1(g) ELSE Gating!Failed(g))
                          EXCEPT !.have = @ \cup Gating!RememberedWorktree(g, ok)]]
        BY <2>4 DEF Gating!CreateWorktree, Gating!Go
      <3>2. PICK base : base = IF ok THEN Gating!Next1(g) ELSE Gating!Failed(g)
        OBVIOUS
      <3>3. PICK have : have = base.have \cup Gating!RememberedWorktree(g, ok)
        OBVIOUS
      <3>4. gate' = [gate EXCEPT ![g] = [base EXCEPT !.have = have]]
        BY <3>1, <3>2, <3>3
      <3>5. base \in {Gating!Next1(g), Gating!Failed(g)}
        BY <3>2
      <3>. QED  BY <1>8, <2>1, <3>4, <3>5
    <2>5. CASE Gating!Reserve(g)
      <3>1. PICK base, have : base = Gating!Next1(g) /\ have = base.have \cup {"database"}
        OBVIOUS
      <3>2. gate' = [gate EXCEPT ![g] = [base EXCEPT !.have = have]]
        BY <2>5, <3>1 DEF Gating!Reserve, Gating!Go
      <3>. QED  BY <1>8, <2>1, <3>1, <3>2
    <2>6. CASE Gating!CreateDatabase(g) \/ \E name : Gating!Command(g, name)
      <3>1. PICK base \in {Gating!Next1(g), Gating!Failed(g)} : gate' = [gate EXCEPT ![g] = base]
        BY <2>6 DEF Gating!CreateDatabase, Gating!Command, Gating!Go
      <3>. QED  BY <1>8, <2>1, <3>1
    <2>. QED  BY <1>9, <2>2, <2>3, <2>4, <2>5, <2>6
  <1>10. ASSUME NEW g \in Gates, Gating!Proved(g) \/ Gating!CleanUp(g) \/ Gating!Interrupt(g)
        PROVE  LockInv'
    <2>1. CASE Gating!Proved(g)
      BY <1>5, <1>6, <2>1 DEF Gating!Proved, Gating!Go
    <2>2. CASE Gating!CleanUp(g)
      <3>1. PICK rest, mine, have : /\ rest = [gate[g] EXCEPT !.have = have]
                                    /\ mine \in {rest, [rest EXCEPT !.dirty = TRUE]}
                                    /\ gate' = [gate EXCEPT ![g] = mine]
        BY <2>2 DEF Gating!CleanUp, Gating!Go
      <3>2. gate[g].phase = "cleanup" /\ UNCHANGED Gating!restOfLocks
        BY <2>2 DEF Gating!CleanUp
      <3>3. /\ DOMAIN rest = GateFields /\ rest.launcher = gate[g].launcher
            /\ rest.phase = "cleanup"
        BY <1>6, <1>7, <3>1, <3>2
      <3>4. /\ DOMAIN mine = GateFields /\ mine.launcher = gate[g].launcher
            /\ mine.phase = "cleanup"
        BY <3>1, <3>3 DEF GateFields
      <3>. QED  BY <1>5, <3>1, <3>2, <3>4
    <2>3. CASE Gating!Interrupt(g)
      <3>1. PICK mine : mine = [gate[g] EXCEPT !.aborted = TRUE]
        OBVIOUS
      <3>2. /\ gate' = [gate EXCEPT ![g] = mine] /\ gate[g].phase \in {"working", "cleanup"}
            /\ UNCHANGED Gating!restOfLocks
        BY <2>3, <3>1 DEF Gating!Interrupt, Gating!Go
      <3>3. /\ DOMAIN mine = GateFields /\ mine.launcher = gate[g].launcher
            /\ mine.phase = gate[g].phase
        BY <1>6, <3>1 DEF GateFields
      <3>. QED  BY <1>5, <3>2, <3>3
    <2>. QED  BY <1>10, <2>1, <2>2, <2>3
  <1>11. ASSUME NEW g \in Gates, NEW outcome, Gating!Exit(g, outcome)
         PROVE  LockInv'
    <2>1. PICK mine :
             mine = [Gating!NotLaunched EXCEPT
                         !.phase = IF gate[g].launcher = "up" THEN "tidy" ELSE "over",
                         !.launcher = gate[g].launcher, !.outcome = outcome, !.told = gate[g].told]
      OBVIOUS
    <2>2. gate' = [gate EXCEPT ![g] = mine] /\ UNCHANGED Gating!restOfLocks
      BY <1>11, <2>1 DEF Gating!Exit, Gating!Go
    <2>3. /\ DOMAIN mine = GateFields /\ mine.launcher = gate[g].launcher
          /\ mine.phase = IF gate[g].launcher = "up" THEN "tidy" ELSE "over"
      BY <2>1 DEF Gating!NotLaunched, GateFields
    <2>. QED  BY <1>3, <2>2, <2>3 DEF Gating!restOfLocks, Gating!restOfHost
  <1>12. ASSUME NEW g \in Gates, Gating!Report(g) \/ Gating!Kill(g)
         PROVE  LockInv'
    BY <1>11, <1>12 DEF Gating!Report, Gating!Kill
  <1>13. ASSUME NEW g \in Gates,
                \/ Gating!VerifyCandidate(g) \/ Gating!VerifyDatabaseBoundaries(g)
                \/ Gating!ProveFreshCoolifyBackup(g) \/ Gating!CreateIndependentBackup(g)
                \/ Gating!RestoreBackup(g) \/ Gating!MigrateCandidate(g) \/ Gating!ValidatePrisma(g)
                \/ Gating!VerifyZeroDrift(g) \/ Gating!VerifyReleaseInvariants(g)
         PROVE  \E name : Gating!Command(g, name)
    BY <1>13 DEF Gating!VerifyCandidate, Gating!VerifyDatabaseBoundaries,
          Gating!ProveFreshCoolifyBackup, Gating!CreateIndependentBackup, Gating!RestoreBackup,
          Gating!MigrateCandidate, Gating!ValidatePrisma, Gating!VerifyZeroDrift,
          Gating!VerifyReleaseInvariants
  <1>. QED  BY <1>1, <1>2, <1>4, <1>9, <1>10, <1>12, <1>13 DEF Gating!Next

\* The passwords and the environment file change only when no gate works under a launcher
\* that lives.
THEOREM CredentialsStand ==
    ASSUME GateAssumption
    PROVE  Gating!Spec => [][Gating!CredentialsStay]_(Gating!gateVars)
  <1>1. ASSUME Gating!Init  PROVE LockInv
    <2>1. /\ DOMAIN gate = Gates /\ DOMAIN provision = Provisions
          /\ \A p \in Provisions : provision[p] = "idle"
      BY <1>1 DEF Gating!Init
    <2>2. \A g \in Gates : gate[g] = Gating!NotLaunched
      BY <1>1 DEF Gating!Init
    <2>3. /\ DOMAIN Gating!NotLaunched = GateFields /\ Gating!NotLaunched.launcher = "none"
          /\ Gating!NotLaunched.phase = "idle"
      BY DEF Gating!NotLaunched, GateFields
    <2>. HIDE DEF GateFields
    <2>. QED  BY <2>1, <2>2, <2>3 DEF LockInv
  <1>2. ASSUME LockInv, [Gating!Next]_(Gating!gateVars)
        PROVE  [Gating!CredentialsStay]_(Gating!gateVars)
    <2>1. CASE UNCHANGED <<passwords, published>>
      BY <2>1 DEF Gating!CredentialsStay
    <2>2. CASE UNCHANGED Gating!gateVars
      BY <2>2
    <2>3. ASSUME NEW p \in Provisions, Gating!Rotate(p) \/ Gating!Publish(p)
          PROVE  Gating!CredentialsStay
      <3>1. /\ provision[p] \in {"locked", "verified"}
            /\ published' # published =>
                  published' = p /\ provision[p] = "verified" /\ passwords' = passwords
        BY <2>3 DEF Gating!Rotate, Gating!Publish
      <3>2. updater = p /\ (provision[p] = "verified" => passwords = p)
        BY <1>2, <3>1 DEF LockInv
      <3>3. \A g \in Gates : gate[g].launcher # "up"
        BY <1>2, <3>2 DEF LockInv, GateAssumption
      <3>. QED  BY <3>1, <3>2, <3>3 DEF Gating!CredentialsStay
    <2>4. ASSUME NEW p \in Provisions,
                 Gating!LockForProvision(p) \/ Gating!Probe(p) \/ Gating!ProvisionFails(p)
          PROVE  UNCHANGED <<passwords, published>>
      BY <2>4 DEF Gating!LockForProvision, Gating!Probe, Gating!ProvisionFails
    <2>5. ASSUME NEW g \in Gates,
                 \/ Gating!Launch(g) \/ Gating!StartGate(g) \/ Gating!LoseLauncher(g)
                 \/ Gating!Tidy(g) \/ Gating!AcquireLock(g) \/ Gating!PrepareWorkspace(g)
                 \/ Gating!CreateWorktree(g) \/ Gating!Reserve(g) \/ Gating!CreateDatabase(g)
                 \/ Gating!Proved(g) \/ Gating!CleanUp(g) \/ Gating!Report(g)
                 \/ Gating!Interrupt(g) \/ Gating!Kill(g)
                 \/ \E name : Gating!Command(g, name)
          PROVE  UNCHANGED <<passwords, published>>
      BY <2>5 DEF Gating!Launch, Gating!StartGate, Gating!LoseLauncher, Gating!Tidy,
            Gating!AcquireLock, Gating!PrepareWorkspace, Gating!CreateWorktree, Gating!Reserve,
            Gating!CreateDatabase, Gating!Proved, Gating!CleanUp, Gating!Report, Gating!Interrupt,
            Gating!Kill, Gating!Command, Gating!Exit, Gating!restOfLocks, Gating!restOfHost
    <2>6. ASSUME NEW g \in Gates,
                 \/ Gating!VerifyCandidate(g) \/ Gating!VerifyDatabaseBoundaries(g)
                 \/ Gating!ProveFreshCoolifyBackup(g) \/ Gating!CreateIndependentBackup(g)
                 \/ Gating!RestoreBackup(g) \/ Gating!MigrateCandidate(g)
                 \/ Gating!ValidatePrisma(g) \/ Gating!VerifyZeroDrift(g)
                 \/ Gating!VerifyReleaseInvariants(g)
          PROVE  \E name : Gating!Command(g, name)
      BY <2>6 DEF Gating!VerifyCandidate, Gating!VerifyDatabaseBoundaries,
            Gating!ProveFreshCoolifyBackup, Gating!CreateIndependentBackup, Gating!RestoreBackup,
            Gating!MigrateCandidate, Gating!ValidatePrisma, Gating!VerifyZeroDrift,
            Gating!VerifyReleaseInvariants
    <2>. QED  BY <1>2, <2>1, <2>2, <2>3, <2>4, <2>5, <2>6 DEF Gating!Next
  <1>. QED  BY <1>1, <1>2, LockNext, PTL DEF Gating!Spec

-----------------------------------------------------------------------------
(* A command: a child that has ended without the promise being settled     *)
(* has done well and waits for the end of its input alone.                 *)
ProcessFields == {"phase", "cleanup", "stdin", "broken", "overflow", "timedOut", "aborted", "ends",
                  "pending", "settled"}

ProcessTrue(p) ==
    /\ DOMAIN p = ProcessFields
    /\ {p.cleanup, p.broken, p.overflow, p.timedOut, p.aborted, p.pending} \subseteq BOOLEAN
    /\ p.settled \in {"no", "resolved", "rejected"}
    /\ p.settled = "resolved" => p.ends = "well" /\ p.stdin # "open" /\ ~p.overflow
    /\ p.pending => p.ends # "no"
    /\ p.phase = "idle" => p.ends = "no" /\ p.settled = "no"
    /\ p.ends # "no" /\ p.settled = "no" =>
          /\ p.pending /\ p.ends = "well" /\ p.stdin = "open"
          /\ ~p.broken /\ ~p.overflow /\ ~p.timedOut /\ ~(p.aborted /\ ~p.cleanup)

ProcessInv == ProcessTrue(process)

\* What a step of a command comes to, and what it keeps.
LEMMA ProcessStep ==
    ASSUME ProcessTrue(process), Gating!RunNext
    PROVE  ProcessTrue(process') /\ Gating!SettledOnce
  <1>. USE DEF ProcessTrue, Gating!SettledOnce, Gating!Interrupted, Gating!Settle, ProcessFields
  <1>1. CASE Gating!Spawn
    BY <1>1 DEF Gating!Spawn
  <1>2. CASE Gating!EndInput
    BY <1>2 DEF Gating!EndInput, Gating!Finish
  <1>3. CASE Gating!Overflow
    BY <1>3 DEF Gating!Overflow
  <1>4. CASE Gating!TimeOut
    BY <1>4 DEF Gating!TimeOut
  <1>5. CASE Gating!Abort
    BY <1>5 DEF Gating!Abort
  <1>6. CASE Gating!Close
    <2>1. PICK ends, after :
             /\ ends \in {"well", "badly"} /\ after = [process EXCEPT !.ends = ends]
             /\ process' = IF ~Gating!Success(after) THEN Gating!Settle(after, "rejected")
                           ELSE IF after.stdin = "open" THEN [after EXCEPT !.pending = TRUE]
                           ELSE Gating!Settle(after, "resolved")
      BY <1>6 DEF Gating!Close
    <2>2. /\ DOMAIN after = ProcessFields /\ after.ends = ends
          /\ after.phase = "running"
          /\ after.cleanup = process.cleanup /\ after.broken = process.broken
          /\ after.overflow = process.overflow /\ after.timedOut = process.timedOut
          /\ after.aborted = process.aborted /\ after.pending = process.pending
          /\ after.settled = process.settled /\ after.stdin = process.stdin
      BY <1>6, <2>1 DEF Gating!Close
    <2>3. process.ends = "no"
      BY <1>6 DEF Gating!Close
    <2>4. CASE ~Gating!Success(after)
      BY <2>1, <2>2, <2>3, <2>4
    <2>5. CASE Gating!Success(after) /\ after.stdin = "open"
      BY <2>1, <2>2, <2>3, <2>5 DEF Gating!Success
    <2>6. CASE Gating!Success(after) /\ after.stdin # "open"
      BY <2>1, <2>2, <2>3, <2>6 DEF Gating!Success
    <2>. QED  BY <2>4, <2>5, <2>6
  <1>. QED  BY <1>1, <1>2, <1>3, <1>4, <1>5, <1>6 DEF Gating!RunNext

\* What became of a command is said once, and a success is one.
THEOREM CommandsEnd ==
    Gating!RunInit /\ [][Gating!RunNext]_process =>
       []Gating!CommandsEndOnce /\ [][Gating!SettledOnce]_process
  <1>1. ASSUME Gating!RunInit  PROVE ProcessInv
    BY <1>1 DEF Gating!RunInit, Gating!Idle, ProcessInv, ProcessTrue, ProcessFields
  <1>2. ASSUME ProcessInv, [Gating!RunNext]_process
        PROVE  ProcessInv' /\ [Gating!SettledOnce]_process
    BY <1>2, ProcessStep DEF ProcessInv
  <1>3. ASSUME ProcessInv  PROVE Gating!CommandsEndOnce
    BY <1>3 DEF ProcessInv, ProcessTrue, Gating!CommandsEndOnce, Gating!Interrupted
  <1>. QED  BY <1>1, <1>2, <1>3, PTL

-----------------------------------------------------------------------------
(* The assistants.  A sync that has found nothing remembers what it looked *)
(* in, and nothing there is what it will create.  A refresh that is alone  *)
(* is the only one, and what it has still to look at is as it read it:     *)
(* everything else has the score it should have.                           *)
CONSTANTS Contacts, Attached, Born, CadenceDays, Syncs, Refreshes, YearLength, Lookahead, MaxDays,
          MaxRows
VARIABLES agenda, syncing, lastMet, score, scoring, date
Assisting == INSTANCE Assistants

SyncFields == {"phase", "today", "todo", "of", "known"}
ScoreFields == {"phase", "today", "read", "alone"}

\* What a sync knows while it has not created.
Missing(mine) ==
    /\ DOMAIN mine = SyncFields
    /\ mine.phase = "missing" =>
          \E a : /\ mine.of = {a}
                 /\ ~\E q \in mine.known : /\ q.contact = a.contact
                                            /\ q.at = Assisting!CelebrationDate(a, mine.today)

\* What is still to be looked at is as it was read, and what is not has its score.
Reading(c, last, scores) == [contact |-> c, last |-> last[c], score |-> scores[c]]

Refreshing(f, mine, last, scores) ==
    /\ DOMAIN mine = ScoreFields
    /\ mine.phase = "writing" /\ mine.alone =>
          /\ \A r \in mine.read : \E c \in Contacts : r = Reading(c, last, scores)
          /\ \A c \in Contacts : \/ Reading(c, last, scores) \in mine.read
                                 \/ scores[c] = Assisting!Assess(last[c], mine.today)

AssistantsInv ==
    /\ DOMAIN syncing = Syncs /\ DOMAIN scoring = Refreshes /\ DOMAIN score = Contacts
    /\ \A s \in Syncs : Missing(syncing[s])
    /\ \A f \in Refreshes : Refreshing(f, scoring[f], lastMet, score)
    /\ \A f, g \in Refreshes :
          /\ f # g /\ scoring[f].phase = "writing" /\ scoring[f].alone => scoring[g].phase = "idle"
          /\ scoring[f].phase \in {"idle", "writing"}

\* The steps of a sync.
LEMMA SyncStep ==
    ASSUME AssistantsInv, NEW s \in Syncs,
           \/ Assisting!StartSync(s) \/ Assisting!Look(s) \/ Assisting!CreateMissing(s)
           \/ Assisting!EndSync(s) \/ Assisting!FailSync(s)
    PROVE  AssistantsInv' /\ Assisting!KeepsCount
  <1>1. Missing(syncing[s]) /\ DOMAIN syncing[s] = SyncFields
    BY DEF AssistantsInv, Missing
  <1>2. UNCHANGED <<lastMet, score, scoring>>
    BY DEF Assisting!StartSync, Assisting!Look, Assisting!CreateMissing, Assisting!EndSync,
           Assisting!FailSync
  <1>3. ASSUME NEW next, syncing' = [syncing EXCEPT ![s] = next], Missing(next),
               syncing[s].phase = "missing" /\ next.phase # "missing" =>
                  \A r \in agenda' \ agenda :
                     ~\E q \in syncing[s].known : q.contact = r.contact /\ q.at = r.at
        PROVE  AssistantsInv' /\ Assisting!KeepsCount
    <2>1. DOMAIN syncing' = Syncs /\ \A t \in Syncs : syncing'[t] = IF t = s THEN next ELSE syncing[t]
      BY <1>3 DEF AssistantsInv
    <2>2. AssistantsInv'
      BY <1>2, <1>3, <2>1 DEF AssistantsInv, Refreshing, Assisting!Assess, Assisting!Never,
            Assisting!Min2
    <2>3. \A f \in Refreshes : ~(scoring[f].phase = "writing" /\ scoring'[f].phase = "idle")
      BY <1>2
    <2>. QED  BY <1>3, <2>1, <2>2, <2>3 DEF Assisting!KeepsCount
  <1>4. DOMAIN Assisting!NotSyncing = SyncFields /\ Assisting!NotSyncing.phase = "idle"
    BY DEF Assisting!NotSyncing, SyncFields
  <1>5. CASE Assisting!StartSync(s)
    <2>1. PICK next : next = [Assisting!NotSyncing EXCEPT !.phase = "looking", !.today = date,
                                 !.todo = {a \in Attached : Assisting!Soon(a, date)}]
      OBVIOUS
    <2>2. syncing' = [syncing EXCEPT ![s] = next] /\ syncing[s].phase = "idle"
      BY <1>5, <2>1 DEF Assisting!StartSync
    <2>3. Missing(next)
      BY <1>4, <2>1 DEF Missing, SyncFields
    <2>. QED  BY <1>3, <2>2, <2>3
  <1>6. CASE Assisting!Look(s)
    <2>1. PICK a \in syncing[s].todo :
             LET rest == [syncing[s] EXCEPT !.todo = @ \ {a}]
             IN syncing' = [syncing EXCEPT ![s] =
                   IF Assisting!Existing(a, rest.today) # {} THEN rest
                   ELSE [rest EXCEPT !.phase = "missing", !.of = {a}, !.known = agenda]]
      BY <1>6 DEF Assisting!Look
    <2>2. PICK rest : rest = [syncing[s] EXCEPT !.todo = @ \ {a}]
      OBVIOUS
    <2>3. /\ DOMAIN rest = SyncFields /\ rest.phase = "looking" /\ rest.today = syncing[s].today
          /\ syncing[s].phase = "looking"
      BY <1>1, <1>6, <2>2 DEF Assisting!Look, SyncFields
    <2>4. CASE Assisting!Existing(a, rest.today) # {}
      <3>1. syncing' = [syncing EXCEPT ![s] = rest]
        BY <2>1, <2>2, <2>4
      <3>. QED  BY <1>3, <2>3, <3>1 DEF Missing
    <2>5. CASE Assisting!Existing(a, rest.today) = {}
      <3>1. PICK next : next = [rest EXCEPT !.phase = "missing", !.of = {a}, !.known = agenda]
        OBVIOUS
      <3>2. syncing' = [syncing EXCEPT ![s] = next]
        BY <2>1, <2>2, <2>5, <3>1
      <3>3. /\ DOMAIN next = SyncFields /\ next.of = {a} /\ next.known = agenda
            /\ next.phase = "missing" /\ next.today = rest.today
        BY <2>3, <3>1 DEF SyncFields
      <3>4. ~\E q \in agenda : /\ q.contact = a.contact
                               /\ q.at = Assisting!CelebrationDate(a, rest.today)
        BY <2>5 DEF Assisting!Existing, Assisting!RowsFor
      <3>5. Missing(next)
        BY <3>3, <3>4 DEF Missing
      <3>. QED  BY <1>3, <2>3, <3>2, <3>5
    <2>. QED  BY <2>4, <2>5
  <1>7. CASE Assisting!CreateMissing(s)
    <2>1. PICK next : next = [syncing[s] EXCEPT !.phase = "looking", !.of = {}, !.known = {}]
      OBVIOUS
    <2>2. syncing' = [syncing EXCEPT ![s] = next]
      BY <1>7, <2>1 DEF Assisting!CreateMissing
    <2>3. DOMAIN next = SyncFields /\ next.phase = "looking"
      BY <1>1, <2>1 DEF SyncFields
    <2>4. PICK a \in syncing[s].of :
             agenda' = agenda \cup {Assisting!NewRow(a.contact,
                          Assisting!CelebrationDate(a, syncing[s].today), a.full = -1)}
      BY <1>7 DEF Assisting!CreateMissing
    <2>5. ~\E q \in syncing[s].known :
              /\ q.contact = a.contact
              /\ q.at = Assisting!CelebrationDate(a, syncing[s].today)
      BY <1>1, <1>7 DEF Missing, Assisting!CreateMissing
    <2>6. \A r \in agenda' \ agenda :
             r.contact = a.contact /\ r.at = Assisting!CelebrationDate(a, syncing[s].today)
      BY <2>4 DEF Assisting!NewRow
    <2>. QED  BY <1>3, <2>2, <2>3, <2>5, <2>6 DEF Missing
  <1>8. CASE Assisting!EndSync(s) \/ Assisting!FailSync(s)
    <2>1. syncing' = [syncing EXCEPT ![s] = Assisting!NotSyncing] /\ agenda' = agenda
      BY <1>8 DEF Assisting!EndSync, Assisting!FailSync
    <2>. QED  BY <1>3, <1>4, <2>1 DEF Missing
  <1>. QED  BY <1>5, <1>6, <1>7, <1>8

\* The steps of a refresh.
LEMMA RefreshStep ==
    ASSUME AssistantsInv, NEW f \in Refreshes,
           Assisting!StartRefresh(f) \/ Assisting!WriteScore(f) \/ Assisting!EndRefresh(f)
    PROVE  AssistantsInv' /\ Assisting!KeepsCount
  <1>1. /\ Refreshing(f, scoring[f], lastMet, score) /\ DOMAIN scoring[f] = ScoreFields
        /\ UNCHANGED <<agenda, syncing, lastMet>>
        /\ \A s \in Syncs : ~(syncing[s].phase = "missing" /\ syncing'[s].phase # "missing")
    BY DEF AssistantsInv, Refreshing, Assisting!StartRefresh, Assisting!WriteScore,
           Assisting!EndRefresh
  <1>2. \A s \in Syncs : Missing(syncing[s])'
    BY <1>1 DEF AssistantsInv, Missing, Assisting!CelebrationDate
  <1>3. CASE Assisting!StartRefresh(f)
    <2>1. PICK others, read, mine :
             /\ others = {g \in Refreshes \ {f} : scoring[g].phase # "idle"}
             /\ read = {[contact |-> c, last |-> lastMet[c], score |-> score[c]] : c \in Contacts}
             /\ mine = [phase |-> "writing", today |-> date, alone |-> others = {}, read |-> read]
      OBVIOUS
    <2>2. /\ DOMAIN scoring' = Refreshes /\ scoring'[f] = mine
          /\ \A g \in Refreshes \ {f} : scoring'[g] = [scoring[g] EXCEPT !.alone = FALSE]
          /\ score' = score /\ scoring[f].phase = "idle"
      BY <1>3, <2>1 DEF Assisting!StartRefresh
    <2>3. /\ DOMAIN mine = ScoreFields /\ mine.phase = "writing" /\ mine.read = read
          /\ mine.alone <=> others = {}
      BY <2>1 DEF ScoreFields
    <2>4. \A g \in Refreshes \ {f} : /\ DOMAIN scoring'[g] = ScoreFields /\ ~scoring'[g].alone
                                     /\ scoring'[g].phase = scoring[g].phase
      BY <2>2 DEF AssistantsInv, Refreshing, ScoreFields
    <2>5. Refreshing(f, mine, lastMet, score)
      BY <2>1, <2>3 DEF Refreshing, Reading
    <2>6. \A g \in Refreshes : Refreshing(g, scoring'[g], lastMet', score')
      BY <1>1, <2>2, <2>4, <2>5 DEF Refreshing
    <2>7. AssistantsInv'
      BY <1>1, <1>2, <2>1, <2>2, <2>3, <2>4, <2>6 DEF AssistantsInv
    <2>. QED  BY <1>1, <2>2, <2>3, <2>4, <2>7 DEF Assisting!KeepsCount
  <1>4. CASE Assisting!WriteScore(f)
    <2>1. PICK r \in scoring[f].read :
             /\ score' = IF Assisting!Changed(r, scoring[f].today)
                         THEN [score EXCEPT ![r.contact] = Assisting!Assess(r.last, scoring[f].today)]
                         ELSE score
             /\ scoring' = [scoring EXCEPT ![f].read = @ \ {r}]
      BY <1>4 DEF Assisting!WriteScore
    <2>2. PICK mine : mine = [scoring[f] EXCEPT !.read = @ \ {r}]
      OBVIOUS
    <2>3. /\ DOMAIN mine = ScoreFields /\ mine.read = scoring[f].read \ {r}
          /\ mine.phase = "writing" /\ mine.alone = scoring[f].alone
          /\ mine.today = scoring[f].today /\ scoring[f].phase = "writing"
      BY <1>1, <1>4, <2>2 DEF ScoreFields, Assisting!WriteScore
    <2>4. /\ DOMAIN scoring' = Refreshes /\ scoring'[f] = mine
          /\ \A g \in Refreshes \ {f} : scoring'[g] = scoring[g]
      BY <2>1, <2>2 DEF AssistantsInv
    <2>5. DOMAIN score' = Contacts
      BY <2>1 DEF AssistantsInv
    <2>6. ASSUME mine.alone
          PROVE  /\ \A q \in mine.read : \E c \in Contacts : q = Reading(c, lastMet, score')
                 /\ \A c \in Contacts :
                       \/ Reading(c, lastMet, score') \in mine.read
                       \/ score'[c] = Assisting!Assess(lastMet[c], scoring[f].today)
      <3>1. /\ \A q \in scoring[f].read : \E c \in Contacts : q = Reading(c, lastMet, score)
            /\ \A c \in Contacts :
                  \/ Reading(c, lastMet, score) \in scoring[f].read
                  \/ score[c] = Assisting!Assess(lastMet[c], scoring[f].today)
        BY <1>1, <2>3, <2>6 DEF Refreshing
      <3>2. PICK c \in Contacts : r = Reading(c, lastMet, score)
        BY <3>1
      <3>3. r.contact = c /\ r.last = lastMet[c] /\ r.score = score[c]
        BY <3>2 DEF Reading
      <3>4. /\ \A d \in Contacts \ {c} : score'[d] = score[d]
            /\ score'[c] = Assisting!Assess(lastMet[c], scoring[f].today)
        BY <2>1, <3>3 DEF AssistantsInv, Assisting!Changed
      <3>5. ASSUME NEW d \in Contacts \ {c}
            PROVE  /\ Reading(d, lastMet, score') = Reading(d, lastMet, score)
                   /\ Reading(d, lastMet, score) # r
        BY <3>3, <3>4 DEF Reading
      <3>6. \A q \in mine.read : \E d \in Contacts \ {c} : q = Reading(d, lastMet, score)
        BY <2>3, <3>1, <3>2
      <3>. QED  BY <2>3, <3>1, <3>4, <3>5, <3>6
    <2>7. \A g \in Refreshes \ {f} : mine.alone => scoring'[g].phase = "idle"
      BY <2>3, <2>4 DEF AssistantsInv
    <2>8. \A g \in Refreshes \ {f} : ~(scoring'[g].phase = "writing" /\ scoring'[g].alone)
      BY <2>3, <2>4 DEF AssistantsInv
    <2>9. \A g \in Refreshes : Refreshing(g, scoring'[g], lastMet', score')
      BY <1>1, <2>3, <2>4, <2>6, <2>8 DEF Refreshing, AssistantsInv
    <2>10. AssistantsInv'
      BY <1>1, <1>2, <2>3, <2>4, <2>5, <2>7, <2>8, <2>9 DEF AssistantsInv
    <2>. QED  BY <1>1, <2>3, <2>4, <2>10 DEF Assisting!KeepsCount
  <1>5. CASE Assisting!EndRefresh(f)
    <2>1. /\ DOMAIN scoring' = Refreshes /\ scoring'[f] = Assisting!NotScoring
          /\ \A g \in Refreshes \ {f} : scoring'[g] = scoring[g]
          /\ score' = score /\ scoring[f].phase = "writing"
      BY <1>5 DEF AssistantsInv, Assisting!EndRefresh
    <2>2. DOMAIN Assisting!NotScoring = ScoreFields /\ Assisting!NotScoring.phase = "idle"
      BY DEF Assisting!NotScoring, ScoreFields
    <2>3. AssistantsInv'
      BY <1>1, <1>2, <2>1, <2>2 DEF AssistantsInv, Refreshing, Reading
    <2>4. scoring[f].alone /\ scoring[f].read = {} =>
             \A c \in Contacts : score[c] = Assisting!Assess(lastMet[c], scoring[f].today)
      BY <1>1, <2>1 DEF Refreshing
    <2>5. \A g \in Refreshes \ {f} : ~(scoring[g].phase = "writing" /\ scoring'[g].phase = "idle")
      BY <2>1
    <2>. QED  BY <1>1, <2>3, <2>4, <2>5 DEF Assisting!KeepsCount
  <1>. QED  BY <1>3, <1>4, <1>5

\* A sync creates what it looked for and did not find, and a refresh that nobody disturbed
\* leaves the health of every contact.
THEOREM AssistantsKeepCount ==
    Assisting!Spec => [][Assisting!KeepsCount]_(Assisting!assistantVars)
  <1>1. ASSUME Assisting!Init  PROVE AssistantsInv
    <2>1. /\ DOMAIN Assisting!NotSyncing = SyncFields /\ Assisting!NotSyncing.phase = "idle"
          /\ DOMAIN Assisting!NotScoring = ScoreFields /\ Assisting!NotScoring.phase = "idle"
      BY DEF Assisting!NotSyncing, SyncFields, Assisting!NotScoring, ScoreFields
    <2>. QED  BY <1>1, <2>1 DEF Assisting!Init, AssistantsInv, Missing, Refreshing
  <1>2. ASSUME AssistantsInv, [Assisting!Next]_(Assisting!assistantVars)
        PROVE  AssistantsInv' /\ [Assisting!KeepsCount]_(Assisting!assistantVars)
    <2>1. CASE UNCHANGED Assisting!assistantVars
      <3>1. AssistantsInv'
        BY <1>2, <2>1 DEF Assisting!assistantVars, AssistantsInv
      <3>. QED  BY <2>1, <3>1
    <2>2. ASSUME UNCHANGED <<syncing, lastMet, score, scoring>>
          PROVE  AssistantsInv' /\ Assisting!KeepsCount
      <3>1. AssistantsInv'
        BY <1>2, <2>2 DEF AssistantsInv
      <3>. QED  BY <2>2, <3>1 DEF Assisting!KeepsCount
    <2>3. ASSUME NEW c \in Contacts, Assisting!Meet(c)
          PROVE  AssistantsInv' /\ Assisting!KeepsCount
      <3>1. /\ UNCHANGED <<syncing, score>> /\ DOMAIN scoring' = Refreshes
            /\ \A f \in Refreshes : scoring'[f] = [scoring[f] EXCEPT !.alone = FALSE]
        BY <2>3 DEF Assisting!Meet
      <3>2. \A f \in Refreshes : /\ DOMAIN scoring'[f] = ScoreFields /\ ~scoring'[f].alone
                                 /\ scoring'[f].phase = scoring[f].phase
        BY <1>2, <3>1 DEF AssistantsInv, Refreshing, ScoreFields
      <3>3. AssistantsInv'
        BY <1>2, <3>1, <3>2 DEF AssistantsInv, Refreshing
      <3>. QED  BY <3>1, <3>2, <3>3 DEF Assisting!KeepsCount
    <2>. QED  BY <1>2, <2>1, <2>2, <2>3, SyncStep, RefreshStep
              DEF Assisting!Next, Assisting!CompleteRow, Assisting!NextDay
  <1>. QED  BY <1>1, <1>2, PTL DEF Assisting!Spec

-----------------------------------------------------------------------------
(* Lists of anything: the requests of a page.                              *)
IsList(s) == \E S : s \in Seq(S)

\* A list that something is appended to.
LEMMA ListGrows ==
    ASSUME NEW s, IsList(s), NEW e
    PROVE  /\ IsList(Append(s, e)) /\ Len(s) \in Nat /\ DOMAIN s = 1 .. Len(s)
           /\ Len(Append(s, e)) = Len(s) + 1 /\ DOMAIN Append(s, e) = 1 .. Len(s) + 1
           /\ \A i \in 1 .. Len(s) : Append(s, e)[i] = s[i]
           /\ Append(s, e)[Len(s) + 1] = e
  <1>1. PICK S : s \in Seq(S)
    BY DEF IsList
  <1>2. s \in Seq(S \cup {e})
    BY <1>1, SeqMonotonic
  <1>3. Append(s, e) \in Seq(S \cup {e})
    BY <1>2
  <1>. QED  BY <1>2, <1>3 DEF IsList

\* A list with other elements in their places.
LEMMA ListChanges ==
    ASSUME NEW s, IsList(s), NEW t, DOMAIN t = DOMAIN s, t = [i \in DOMAIN t |-> t[i]]
    PROVE  IsList(t) /\ Len(t) = Len(s)
  <1>1. Len(s) \in Nat /\ DOMAIN s = 1 .. Len(s)
    BY ListGrows
  <1>2. t \in [1 .. Len(s) -> {t[i] : i \in DOMAIN t}]
    BY <1>1
  <1>3. t \in Seq({t[i] : i \in DOMAIN t})
    BY <1>1, <1>2, IsASeq
  <1>. QED  BY <1>1, <1>3 DEF IsList
-----------------------------------------------------------------------------
(* The page of proposals.  What is read of a proposal, in whatever list it *)
(* waits, is not ahead of what is recorded, and is it once it is decided:  *)
(* so what the page pins is of what was recorded, and what it replaces it  *)
(* by is of the same decision and not behind it.                           *)
CONSTANTS Proposals, MaxDecisions
VARIABLES server, page, requests
Approving == INSTANCE ApprovalsPage WITH MaxRequests <- MaxDecisions

Verdicts == {"approved", "rejected"}
Receipts == [id : Proposals, status : Verdicts \cup {"pending", "expired"}, execution : Nat]

\* What is known of a proposal that the records know at least as much of.
Behind(known, records) ==
    /\ known \in Receipts
    /\ known.execution <= records[known.id].execution
    /\ known.status # "pending" => known.status = records[known.id].status

ReadOf(list, records) ==
    /\ \A known \in list : Behind(known, records)
    /\ \A one, other \in list : one.id = other.id => one = other

Pinned(pin, records) ==
    pin = Approving!Nothing \/ (Behind(pin, records) /\ pin.status # "pending")

\* A request of the page, and what is not pinned before its answer is taken.
Requested(q, records, pin) ==
    q.stage # "over" =>
       /\ q.stage \in {"sent", "served"} /\ q.kind \in {"load", "decide"}
       /\ q.kind = "load" =>
             ReadOf(q.data, records) /\ DOMAIN q = {"kind", "stage", "filter", "signal", "data"}
       /\ q.kind = "decide" =>
             /\ DOMAIN q = {"kind", "stage", "reviewed", "decision", "filter", "ok"}
             /\ q.reviewed \in Receipts /\ q.decision \in Verdicts
             /\ q.stage = "served" /\ q.ok =>
                   /\ records[q.reviewed.id].status = q.decision
                   /\ pin = Approving!Nothing \/ pin.id # q.reviewed.id

\* Of two requests that decided, neither is of the proposal of the other.
Unlike(p, q) ==
    (/\ p.stage = "served" /\ p.kind = "decide" /\ p.ok
     /\ q.stage = "served" /\ q.kind = "decide" /\ q.ok) => p.reviewed.id # q.reviewed.id

RequestsFine(asked, records, pin) ==
    /\ \A r \in DOMAIN asked : Requested(asked[r], records, pin)
    /\ \A r, s \in DOMAIN asked : r # s => Unlike(asked[r], asked[s])

RecordsFine(records) ==
    records \in [Proposals -> Receipts] /\ \A id \in Proposals : records[id].id = id

ReceiptInv ==
    /\ RecordsFine(server)
    /\ DOMAIN page = {"filter", "list", "pin", "loading", "error", "busy"}
    /\ ReadOf(page.list, server) /\ Pinned(page.pin, server)
    /\ IsList(requests) /\ RequestsFine(requests, server, page.pin)

\* The records of a proposal only move on.
MovesOn(old, new) ==
    \A id \in Proposals : /\ old[id].execution <= new[id].execution
                          /\ old[id].status # "pending" => new[id].status = old[id].status

LEMMA RecordsMove ==
    ASSUME NEW old, RecordsFine(old), NEW new, RecordsFine(new), MovesOn(old, new)
    PROVE  /\ \A known : Behind(known, old) => Behind(known, new)
           /\ \A list : ReadOf(list, old) => ReadOf(list, new)
           /\ \A pin : Pinned(pin, old) => Pinned(pin, new)
           /\ \A q, pin : Requested(q, old, pin) => Requested(q, new, pin)
  <1>1. ASSUME NEW known, Behind(known, old)  PROVE Behind(known, new)
    <2>1. /\ known \in Receipts /\ known.id \in Proposals /\ known.execution \in Nat
          /\ known.execution <= old[known.id].execution
          /\ known.status # "pending" => known.status = old[known.id].status
      BY <1>1 DEF Behind, Receipts
    <2>2. /\ old[known.id].execution \in Nat /\ new[known.id].execution \in Nat
          /\ old[known.id].execution <= new[known.id].execution
          /\ old[known.id].status # "pending" => new[known.id].status = old[known.id].status
      BY <2>1 DEF RecordsFine, Receipts, MovesOn
    <2>. QED  BY <2>1, <2>2 DEF Behind
  <1>2. \A list : ReadOf(list, old) => ReadOf(list, new)
    BY <1>1 DEF ReadOf
  <1>3. \A pin : Pinned(pin, old) => Pinned(pin, new)
    BY <1>1 DEF Pinned
  <1>4. ASSUME NEW q, NEW pin, Requested(q, old, pin)  PROVE Requested(q, new, pin)
    <2>1. ASSUME q.stage # "over", q.kind = "decide", q.stage = "served", q.ok
          PROVE  new[q.reviewed.id].status = q.decision
      <3>1. /\ q.reviewed \in Receipts /\ q.decision \in Verdicts
            /\ old[q.reviewed.id].status = q.decision
        BY <1>4, <2>1 DEF Requested
      <3>2. q.reviewed.id \in Proposals /\ q.decision # "pending"
        BY <3>1 DEF Receipts, Verdicts
      <3>. QED  BY <3>1, <3>2 DEF MovesOn
    <2>. QED  BY <1>2, <1>4, <2>1 DEF Requested
  <1>. QED  BY <1>1, <1>2, <1>3, <1>4

\* What a pin is replaced by: itself, or what a list says of the same decision.
LEMMA HistoryOfPin ==
    ASSUME NEW records, RecordsFine(records), NEW list, ReadOf(list, records),
           NEW pin, Behind(pin, records)
    PROVE  /\ Approving!PinWithHistory(pin, list) \in list \cup {pin}
           /\ Behind(Approving!PinWithHistory(pin, list), records)
           /\ Approving!PinWithHistory(pin, list).id = pin.id
           /\ Approving!PinWithHistory(pin, list).status = pin.status
           /\ Approving!PinWithHistory(pin, list).execution >= pin.execution
  <1>. DEFINE durable == Approving!Durable(pin, list)
  <1>1. durable = {known \in list : known.id = pin.id /\ known.status = pin.status}
    BY DEF Approving!Durable
  <1>2. pin.execution \in Nat
    BY DEF Behind, Receipts
  <1>3. CASE \A known \in durable : known.execution < pin.execution
    <2>1. Approving!PinWithHistory(pin, list) = pin
      BY <1>3 DEF Approving!PinWithHistory
    <2>. QED  BY <1>2, <2>1
  <1>4. CASE ~\A known \in durable : known.execution < pin.execution
    <2>1. Approving!PinWithHistory(pin, list) = CHOOSE known \in durable : TRUE
      BY <1>4 DEF Approving!PinWithHistory
    <2>2. PICK known \in durable : ~(known.execution < pin.execution)
      BY <1>4
    <2>3. PICK chosen : chosen = Approving!PinWithHistory(pin, list)
      OBVIOUS
    <2>4. chosen \in durable
      BY <2>1, <2>2, <2>3
    <2>5. chosen = known
      BY <1>1, <2>2, <2>4 DEF ReadOf
    <2>6. Behind(known, records) /\ known.id = pin.id /\ known.status = pin.status /\ known \in list
      BY <1>1, <2>2 DEF ReadOf
    <2>7. known.execution \in Nat
      BY <2>6 DEF Behind, Receipts
    <2>8. known.execution >= pin.execution
      BY <1>2, <2>2, <2>7
    <2>. QED  BY <2>3, <2>5, <2>6, <2>8
  <1>. QED  BY <1>3, <1>4

\* What the page shows is of what was recorded.
LEMMA ShownIsRead ==
    ASSUME ReceiptInv
    PROVE  \A known \in Approving!Visible : Behind(known, server)
  <1>. DEFINE visible == {known \in page.list : Approving!Matches(known, page.filter)}
  <1>1. ReadOf(visible, server) /\ \A known \in visible : Behind(known, server)
    BY DEF ReceiptInv, ReadOf
  <1>2. CASE page.pin = Approving!Nothing \/ ~Approving!Matches(page.pin, page.filter)
    <2>1. Approving!Visible = visible
      BY <1>2 DEF Approving!Visible, Approving!Shown
    <2>. QED  BY <1>1, <2>1
  <1>3. CASE ~(page.pin = Approving!Nothing \/ ~Approving!Matches(page.pin, page.filter))
    <2>1. Approving!Visible = {known \in visible : known.id # page.pin.id}
                                 \cup {Approving!PinWithHistory(page.pin, visible)}
      BY <1>3 DEF Approving!Visible, Approving!Shown
    <2>2. Behind(page.pin, server)
      BY <1>3 DEF ReceiptInv, Pinned
    <2>3. Behind(Approving!PinWithHistory(page.pin, visible), server)
      BY <1>1, <2>2, HistoryOfPin DEF ReceiptInv
    <2>. QED  BY <1>1, <2>1, <2>3
  <1>. QED  BY <1>2, <1>3

\* What is asked more does not disturb what was asked, if it decides nothing.
Undecided(q) == ~(q.stage = "served" /\ q.kind = "decide" /\ q.ok)

LEMMA OneMore ==
    ASSUME NEW asked, IsList(asked), NEW records, NEW pin, RequestsFine(asked, records, pin),
           NEW q, Requested(q, records, pin), Undecided(q)
    PROVE  IsList(Append(asked, q)) /\ RequestsFine(Append(asked, q), records, pin)
  <1>. DEFINE more == Append(asked, q)
  <1>1. /\ IsList(more) /\ Len(asked) \in Nat /\ DOMAIN asked = 1 .. Len(asked)
        /\ DOMAIN more = 1 .. Len(asked) + 1
        /\ \A i \in 1 .. Len(asked) : more[i] = asked[i]
        /\ more[Len(asked) + 1] = q
    BY ListGrows
  <1>2. \A r \in DOMAIN more : \/ r \in DOMAIN asked /\ more[r] = asked[r]
                               \/ r \notin DOMAIN asked /\ r = Len(asked) + 1 /\ more[r] = q
    BY <1>1
  <1>3. \A r \in DOMAIN more : Requested(more[r], records, pin)
    BY <1>2 DEF RequestsFine
  <1>4. ASSUME NEW r \in DOMAIN more, NEW s \in DOMAIN more, r # s  PROVE Unlike(more[r], more[s])
    <2>1. CASE r \in DOMAIN asked /\ s \in DOMAIN asked
      BY <1>2, <1>4, <2>1 DEF RequestsFine
    <2>2. CASE more[r] = q \/ more[s] = q
      BY <2>2 DEF Unlike, Undecided
    <2>. QED  BY <1>2, <2>1, <2>2
  <1>. QED  BY <1>1, <1>3, <1>4 DEF RequestsFine

\* What some requests are replaced by, if it decides nothing.
LEMMA SomeLess ==
    ASSUME NEW asked, IsList(asked), NEW records, NEW pin, RequestsFine(asked, records, pin),
           NEW next, DOMAIN next = DOMAIN asked, next = [r \in DOMAIN next |-> next[r]],
           \A r \in DOMAIN asked : \/ next[r] = asked[r]
                                   \/ Requested(next[r], records, pin) /\ Undecided(next[r])
    PROVE  IsList(next) /\ RequestsFine(next, records, pin)
  <1>1. IsList(next)
    BY ListChanges
  <1>2. \A r \in DOMAIN next : Requested(next[r], records, pin)
    BY DEF RequestsFine
  <1>3. \A r, s \in DOMAIN next : r # s => Unlike(next[r], next[s])
    BY DEF RequestsFine, Unlike, Undecided
  <1>. QED  BY <1>1, <1>2, <1>3 DEF RequestsFine

LEMMA OverIsFine ==
    /\ Undecided(Approving!Over)
    /\ \A records, pin : Requested(Approving!Over, records, pin)
  BY DEF Undecided, Requested, Approving!Over

LEMMA LoadIsFine ==
    ASSUME NEW filter, NEW signal
    PROVE  /\ Undecided(Approving!Load(filter, signal))
           /\ \A records, pin : Requested(Approving!Load(filter, signal), records, pin)
  <1>1. PICK q : q = Approving!Load(filter, signal)
    OBVIOUS
  <1>2. /\ q.stage = "sent" /\ q.kind = "load" /\ q.data = {}
        /\ DOMAIN q = {"kind", "stage", "filter", "signal", "data"}
    BY <1>1 DEF Approving!Load
  <1>3. \A records : ReadOf(q.data, records)
    BY <1>2 DEF ReadOf
  <1>. QED  BY <1>1, <1>2, <1>3 DEF Undecided, Requested

LEMMA EndedIsFine ==
    ASSUME NEW records, NEW pin, IsList(requests), RequestsFine(requests, records, pin), NEW r
    PROVE  /\ IsList(Approving!Ended(r)) /\ RequestsFine(Approving!Ended(r), records, pin)
           /\ DOMAIN Approving!Ended(r) = DOMAIN requests
           /\ \A s \in DOMAIN requests :
                 Approving!Ended(r)[s] = IF s = r THEN Approving!Over ELSE requests[s]
  <1>1. /\ DOMAIN Approving!Ended(r) = DOMAIN requests
        /\ Approving!Ended(r) = [s \in DOMAIN Approving!Ended(r) |-> Approving!Ended(r)[s]]
        /\ \A s \in DOMAIN requests :
              Approving!Ended(r)[s] = IF s = r THEN Approving!Over ELSE requests[s]
    BY DEF Approving!Ended
  <1>2. /\ Undecided(Approving!Over)
        /\ Requested(Approving!Over, records, pin)
    BY OverIsFine
  <1>3. \A s \in DOMAIN requests :
           \/ Approving!Ended(r)[s] = requests[s]
           \/ /\ Requested(Approving!Ended(r)[s], records, pin)
              /\ Undecided(Approving!Ended(r)[s])
    BY <1>1, <1>2
  <1>. QED  BY <1>1, <1>3, SomeLess

LEMMA RefilterIsFine ==
    ASSUME NEW asked, IsList(asked), NEW records, NEW pin, RequestsFine(asked, records, pin),
           NEW filter
    PROVE  /\ IsList(Approving!Refilter(asked, filter))
           /\ RequestsFine(Approving!Refilter(asked, filter), records, pin)
  <1>. DEFINE given == [r \in DOMAIN asked |->
                           IF /\ asked[r].stage # "over" /\ asked[r].kind = "load"
                              /\ asked[r].signal
                           THEN Approving!Over ELSE asked[r]]
  <1>1. /\ DOMAIN given = DOMAIN asked
        /\ given = [r \in DOMAIN given |-> given[r]]
        /\ \A r \in DOMAIN asked : given[r] \in {asked[r], Approving!Over}
    OBVIOUS
  <1>2. \A r \in DOMAIN asked : \/ given[r] = asked[r]
                                \/ Requested(given[r], records, pin) /\ Undecided(given[r])
    BY <1>1, OverIsFine
  <1>3. IsList(given) /\ RequestsFine(given, records, pin)
    <2>. HIDE DEF given
    <2>. QED  BY <1>1, <1>2, SomeLess
  <1>4. Approving!Refilter(asked, filter) = Append(given, Approving!Load(filter, TRUE))
    BY DEF Approving!Refilter
  <1>5. /\ Undecided(Approving!Load(filter, TRUE))
        /\ Requested(Approving!Load(filter, TRUE), records, pin)
    BY LoadIsFine
  <1>. HIDE DEF given
  <1>. QED  BY <1>3, <1>4, <1>5, OneMore

\* The records move, and nothing else.
LEMMA OthersDecide ==
    ASSUME ReceiptInv, NEW id \in Proposals, Approving!Elsewhere(id)
    PROVE  ReceiptInv' /\ Approving!ReceiptNeverBack
  <1>1. PICK mine : mine = server[id]
    OBVIOUS
  <1>2. mine \in Receipts /\ mine.id = id /\ mine.status \in Verdicts \cup {"pending", "expired"}
        /\ mine.execution \in Nat
    BY <1>1 DEF ReceiptInv, RecordsFine, Receipts
  <1>3. RecordsFine(server') /\ MovesOn(server, server')
    <2>1. ASSUME NEW status \in Verdicts \cup {"expired"}, mine.status = "pending",
                 server' = [server EXCEPT ![id].status = status]
          PROVE  RecordsFine(server') /\ MovesOn(server, server')
      <3>1. PICK next : next = [mine EXCEPT !.status = status]
        OBVIOUS
      <3>2. next \in Receipts /\ next.id = id /\ next.execution = mine.execution
        BY <1>2, <3>1 DEF Receipts
      <3>3. server' = [server EXCEPT ![id] = next]
        BY <1>1, <2>1, <3>1
      <3>. QED  BY <1>1, <1>2, <2>1, <3>2, <3>3 DEF ReceiptInv, RecordsFine, MovesOn, Receipts
    <2>2. ASSUME mine.status = "approved", server' = [server EXCEPT ![id].execution = @ + 1]
          PROVE  RecordsFine(server') /\ MovesOn(server, server')
      <3>1. PICK next : next = [mine EXCEPT !.execution = @ + 1]
        OBVIOUS
      <3>2. /\ next \in Receipts /\ next.id = id /\ next.status = mine.status
            /\ next.execution = mine.execution + 1
        BY <1>2, <3>1 DEF Receipts
      <3>3. server' = [server EXCEPT ![id] = next]
        BY <1>1, <2>2, <3>1
      <3>. QED  BY <1>1, <1>2, <2>2, <3>2, <3>3 DEF ReceiptInv, RecordsFine, MovesOn, Receipts
    <2>3. \/ /\ mine.status = "pending"
             /\ \E status \in {"approved", "rejected", "expired"} :
                   server' = [server EXCEPT ![id].status = status]
          \/ mine.status = "approved" /\ server' = [server EXCEPT ![id].execution = @ + 1]
      BY <1>1 DEF Approving!Elsewhere
    <2>. QED  BY <2>1, <2>2, <2>3 DEF Verdicts
  <1>4. page' = page /\ requests' = requests
    BY DEF Approving!Elsewhere
  <1>5. /\ ReadOf(page'.list, server') /\ Pinned(page'.pin, server')
        /\ \A r \in DOMAIN requests : Requested(requests[r], server', page'.pin)
    BY <1>3, <1>4, RecordsMove DEF ReceiptInv, RequestsFine
  <1>6. ReceiptInv'
    BY <1>3, <1>4, <1>5 DEF ReceiptInv, RequestsFine
  <1>7. page.pin # Approving!Nothing => page'.pin.execution >= page.pin.execution
    BY <1>4 DEF ReceiptInv, Pinned, Behind, Receipts
  <1>. QED  BY <1>6, <1>7 DEF Approving!ReceiptNeverBack

\* A pin that stays as it is does not go back.
LEMMA SamePin ==
    ASSUME ReceiptInv, page'.pin = page.pin
    PROVE  Approving!ReceiptNeverBack
  BY DEF ReceiptInv, Pinned, Behind, Receipts, Approving!ReceiptNeverBack

LEMMA RequestServed ==
    ASSUME ReceiptInv, NEW r \in DOMAIN requests, Approving!Serve(r)
    PROVE  ReceiptInv' /\ Approving!ReceiptNeverBack
  <1>1. /\ page' = page /\ requests[r].stage = "sent"
        /\ requests[r].kind \in {"load", "decide"}
    BY DEF Approving!Serve
  <1>2. Requested(requests[r], server, page.pin)
    BY DEF ReceiptInv, RequestsFine
  <1>3. CASE requests[r].kind = "load"
    <2>1. PICK list : list = Approving!Listed(requests[r].filter)
      OBVIOUS
    <2>2. PICK next : next = [requests[r] EXCEPT !.stage = "served", !.data = list]
      OBVIOUS
    <2>3. server' = server /\ requests' = [requests EXCEPT ![r] = next]
      BY <1>3, <2>1, <2>2 DEF Approving!Serve
    <2>4. DOMAIN requests[r] = {"kind", "stage", "filter", "signal", "data"}
      BY <1>1, <1>2, <1>3 DEF Requested
    <2>5. /\ next.stage = "served" /\ next.kind = "load" /\ next.data = list
          /\ DOMAIN next = DOMAIN requests[r]
      BY <1>3, <2>2, <2>4
    <2>6. ReadOf(list, server)
      <3>1. list = {known \in {server[id] : id \in Proposals} :
                       Approving!Matches(known, requests[r].filter)}
        BY <2>1 DEF Approving!Listed
      <3>2. \A id \in Proposals : server[id] \in Receipts /\ server[id].id = id
        BY DEF ReceiptInv, RecordsFine
      <3>3. \A id \in Proposals : Behind(server[id], server)
        BY <3>2 DEF Behind, Receipts
      <3>. QED  BY <3>1, <3>2, <3>3 DEF ReadOf
    <2>7. Requested(next, server, page.pin) /\ Undecided(next)
      BY <2>4, <2>5, <2>6 DEF Requested, Undecided
    <2>8. IsList(requests') /\ RequestsFine(requests', server, page.pin)
      BY <2>3, <2>7, SomeLess DEF ReceiptInv
    <2>. QED  BY <1>1, <2>3, <2>8, SamePin DEF ReceiptInv
  <1>4. CASE requests[r].kind = "decide"
    <2>1. PICK id, ok : id = requests[r].reviewed.id /\ ok = (server[id].status = "pending")
      OBVIOUS
    <2>2. PICK next : next = [requests[r] EXCEPT !.stage = "served", !.ok = ok]
      OBVIOUS
    <2>3. requests' = [requests EXCEPT ![r] = next]
      BY <1>4, <2>1, <2>2 DEF Approving!Serve
    <2>4. server' = IF ok THEN [server EXCEPT ![id].status = requests[r].decision] ELSE server
      BY <1>4, <2>1 DEF Approving!Serve
    <2>5. /\ DOMAIN requests[r] = {"kind", "stage", "reviewed", "decision", "filter", "ok"}
          /\ requests[r].reviewed \in Receipts /\ requests[r].decision \in Verdicts
      BY <1>1, <1>2, <1>4 DEF Requested
    <2>6. /\ next.stage = "served" /\ next.kind = "decide" /\ next.ok = ok
          /\ next.reviewed = requests[r].reviewed /\ next.decision = requests[r].decision
          /\ DOMAIN next = DOMAIN requests[r]
      BY <1>4, <2>2, <2>5
    <2>7. id \in Proposals /\ DOMAIN requests' = DOMAIN requests
      BY <2>1, <2>3, <2>5 DEF Receipts
    <2>8. CASE ~ok
      <3>1. Requested(next, server, page.pin) /\ Undecided(next)
        BY <2>5, <2>6, <2>8 DEF Requested, Undecided
      <3>2. IsList(requests') /\ RequestsFine(requests', server, page.pin)
        BY <2>3, <3>1, SomeLess DEF ReceiptInv
      <3>. QED  BY <1>1, <2>4, <2>8, <3>2, SamePin DEF ReceiptInv
    <2>9. CASE ok
      <3>1. PICK mine : mine = server[id]
        OBVIOUS
      <3>2. mine \in Receipts /\ mine.id = id /\ mine.status = "pending"
        BY <2>1, <2>7, <2>9, <3>1 DEF ReceiptInv, RecordsFine
      <3>3. PICK now : now = [mine EXCEPT !.status = requests[r].decision]
        OBVIOUS
      <3>4. /\ now \in Receipts /\ now.id = id /\ now.execution = mine.execution
            /\ now.status = requests[r].decision
        BY <2>5, <3>2, <3>3 DEF Receipts
      <3>5. server' = [server EXCEPT ![id] = now]
        BY <2>4, <2>9, <3>1, <3>3
      <3>6. RecordsFine(server') /\ MovesOn(server, server')
        BY <2>7, <3>1, <3>2, <3>4, <3>5 DEF ReceiptInv, RecordsFine, MovesOn, Receipts
      <3>7. ReadOf(page.list, server') /\ Pinned(page.pin, server')
        BY <3>6, RecordsMove DEF ReceiptInv
      <3>8. page.pin = Approving!Nothing \/ page.pin.id # id
        BY <3>1, <3>2 DEF ReceiptInv, Pinned, Behind
      <3>9. server'[id].status = next.decision
        BY <2>6, <2>7, <3>4, <3>5 DEF ReceiptInv, RecordsFine
      <3>10. Requested(next, server', page.pin)
        BY <2>1, <2>5, <2>6, <3>8, <3>9 DEF Requested
      <3>11. \A s \in DOMAIN requests' : Requested(requests'[s], server', page.pin)
        BY <2>3, <2>7, <3>6, <3>10, RecordsMove DEF ReceiptInv, RequestsFine
      <3>12. ASSUME NEW s \in DOMAIN requests, s # r
             PROVE  Unlike(next, requests[s]) /\ Unlike(requests[s], next)
        <4>1. Requested(requests[s], server, page.pin)
          BY DEF ReceiptInv, RequestsFine
        <4>2. ASSUME requests[s].stage = "served", requests[s].kind = "decide", requests[s].ok
              PROVE  requests[s].reviewed.id # id
          <5>1. /\ requests[s].decision \in Verdicts
                /\ server[requests[s].reviewed.id].status = requests[s].decision
            BY <4>1, <4>2 DEF Requested
          <5>. QED  BY <3>1, <3>2, <5>1 DEF Verdicts
        <4>. QED  BY <2>1, <2>6, <4>2 DEF Unlike
      <3>13. \A p, q \in DOMAIN requests' : p # q => Unlike(requests'[p], requests'[q])
        BY <2>3, <2>7, <3>12 DEF ReceiptInv, RequestsFine
      <3>14. IsList(requests')
        BY <2>3, <2>7, ListChanges DEF ReceiptInv
      <3>. QED  BY <1>1, <3>6, <3>7, <3>11, <3>13, <3>14, SamePin DEF ReceiptInv, RequestsFine
    <2>. QED  BY <2>8, <2>9
  <1>. QED  BY <1>1, <1>3, <1>4

\* A step that leaves the pin and the list of the page, and asks what is fine.
LEMMA OnlyAsks ==
    ASSUME ReceiptInv, server' = server, page'.pin = page.pin, page'.list = page.list,
           DOMAIN page' = DOMAIN page, IsList(requests'), RequestsFine(requests', server, page.pin)
    PROVE  ReceiptInv' /\ Approving!ReceiptNeverBack
  BY SamePin DEF ReceiptInv

LEMMA LoadTaken ==
    ASSUME ReceiptInv, NEW r \in DOMAIN requests, Approving!TakeLoad(r)
    PROVE  ReceiptInv' /\ Approving!ReceiptNeverBack
  <1>1. PICK list : list = requests[r].data
    OBVIOUS
  <1>2. ReadOf(list, server)
    BY <1>1 DEF ReceiptInv, RequestsFine, Requested, Approving!TakeLoad, Approving!Under
  <1>3. /\ server' = server /\ requests' = Approving!Ended(r)
        /\ page' = [page EXCEPT !.list = list, !.loading = FALSE,
                       !.pin = IF @ = Approving!Nothing THEN @
                               ELSE Approving!PinWithHistory(@, list)]
    BY <1>1 DEF Approving!TakeLoad
  <1>. DEFINE pin == IF page.pin = Approving!Nothing THEN page.pin
                     ELSE Approving!PinWithHistory(page.pin, list)
  <1>4. /\ page'.pin \in {page.pin, pin} /\ page'.list \in {page.list, list}
        /\ DOMAIN page' = DOMAIN page
    BY <1>3
  <1>5. \/ page'.pin = page.pin
        \/ /\ page.pin # Approving!Nothing
           /\ page'.pin = Approving!PinWithHistory(page.pin, list)
    BY <1>4
  <1>6. /\ Pinned(page'.pin, server)
        /\ page'.pin = Approving!Nothing \/ page'.pin.id = page.pin.id
        /\ page.pin = Approving!Nothing => page'.pin = page.pin
        /\ page.pin # Approving!Nothing => page'.pin.execution >= page.pin.execution
    <2>1. CASE page'.pin = page.pin
      BY <2>1 DEF ReceiptInv, Pinned, Behind, Receipts
    <2>2. CASE page.pin # Approving!Nothing /\ page'.pin = Approving!PinWithHistory(page.pin, list)
      <3>1. Behind(page.pin, server) /\ page.pin.status # "pending" /\ RecordsFine(server)
        BY <2>2 DEF ReceiptInv, Pinned
      <3>2. /\ Behind(page'.pin, server) /\ page'.pin.id = page.pin.id
            /\ page'.pin.status = page.pin.status /\ page'.pin.execution >= page.pin.execution
        BY <1>2, <2>2, <3>1, HistoryOfPin
      <3>. QED  BY <2>2, <3>1, <3>2 DEF Pinned
    <2>. QED  BY <1>5, <2>1, <2>2
  <1>7. RequestsFine(requests, server, page'.pin)
    <2>1. \A s \in DOMAIN requests :
             Requested(requests[s], server, page.pin) => Requested(requests[s], server, page'.pin)
      BY <1>6 DEF Requested
    <2>. QED  BY <2>1 DEF ReceiptInv, RequestsFine
  <1>8. IsList(requests') /\ RequestsFine(requests', server, page'.pin)
    BY <1>3, <1>7, EndedIsFine DEF ReceiptInv
  <1>9. ReadOf(page'.list, server)
    BY <1>2, <1>4 DEF ReceiptInv
  <1>10. Approving!ReceiptNeverBack
    BY <1>6 DEF Approving!ReceiptNeverBack
  <1>. QED  BY <1>3, <1>4, <1>6, <1>8, <1>9, <1>10 DEF ReceiptInv

LEMMA DecisionSent ==
    ASSUME ReceiptInv, NEW id \in Proposals, NEW decision \in Verdicts,
           Approving!Decide(id, decision)
    PROVE  ReceiptInv' /\ Approving!ReceiptNeverBack
  <1>1. PICK known \in Approving!Visible :
           /\ known.status = "pending"
           /\ requests' = Append(requests,
                 [kind |-> "decide", stage |-> "sent", reviewed |-> known, decision |-> decision,
                  filter |-> page.filter, ok |-> FALSE])
    BY DEF Approving!Decide
  <1>2. PICK q : q = [kind |-> "decide", stage |-> "sent", reviewed |-> known,
                      decision |-> decision, filter |-> page.filter, ok |-> FALSE]
    OBVIOUS
  <1>3. known \in Receipts
    BY ShownIsRead DEF Behind
  <1>4. /\ q.stage = "sent" /\ q.kind = "decide" /\ q.reviewed = known /\ q.decision = decision
        /\ DOMAIN q = {"kind", "stage", "reviewed", "decision", "filter", "ok"}
    BY <1>2
  <1>5. Requested(q, server, page.pin) /\ Undecided(q)
    BY <1>3, <1>4 DEF Requested, Undecided
  <1>6. requests' = Append(requests, q)
    BY <1>1, <1>2
  <1>7. IsList(requests') /\ RequestsFine(requests', server, page.pin)
    BY <1>5, <1>6, OneMore DEF ReceiptInv
  <1>8. server' = server /\ page'.pin = page.pin /\ page'.list = page.list /\ DOMAIN page' = DOMAIN page
    BY DEF ReceiptInv, Approving!Decide
  <1>. QED  BY <1>7, <1>8, OnlyAsks

\* The receipt that is pinned is of the decision of a request, and of no other that is open.
LEMMA DecisionTaken ==
    ASSUME ReceiptInv, NEW r \in DOMAIN requests, Approving!Decided(r)
    PROVE  ReceiptInv' /\ Approving!ReceiptNeverBack
  <1>1. PICK known, decision : known = requests[r].reviewed /\ decision = requests[r].decision
    OBVIOUS
  <1>2. /\ requests[r].stage = "served" /\ requests[r].kind = "decide" /\ requests[r].ok
        /\ server' = server
    BY DEF Approving!Decided, Approving!Under
  <1>3. /\ known \in Receipts /\ decision \in Verdicts /\ server[known.id].status = decision
        /\ page.pin = Approving!Nothing \/ page.pin.id # known.id
    BY <1>1, <1>2 DEF ReceiptInv, RequestsFine, Requested
  <1>4. PICK pin : pin = [known EXCEPT !.status = decision, !.execution = 0]
    OBVIOUS
  <1>5. /\ pin \in Receipts /\ pin.id = known.id /\ pin.status = decision /\ pin.execution = 0
        /\ known.id \in Proposals
    BY <1>3, <1>4 DEF Receipts
  <1>6. page'.pin = pin /\ page'.list = page.list /\ DOMAIN page' = DOMAIN page
    <2>. DEFINE decided == [page EXCEPT !.busy = {},
                              !.pin = [requests[r].reviewed EXCEPT !.status = requests[r].decision,
                                                                   !.execution = 0]]
    <2>1. decided.pin = pin /\ decided.list = page.list /\ DOMAIN decided = DOMAIN page
      BY <1>1, <1>4 DEF ReceiptInv
    <2>2. PICK filter : page' \in {decided, Approving!Begun(decided),
                                  Approving!Begun([decided EXCEPT !.filter = filter])}
      BY DEF Approving!Decided
    <2>. HIDE DEF decided
    <2>. QED  BY <2>1, <2>2 DEF ReceiptInv, Approving!Begun
  <1>7. Pinned(pin, server)
    <2>1. server[known.id].execution \in Nat
      BY <1>5 DEF ReceiptInv, RecordsFine, Receipts
    <2>. QED  BY <1>3, <1>5, <2>1 DEF Pinned, Behind, Verdicts
  <1>8. RequestsFine(Approving!Ended(r), server, pin) /\ IsList(Approving!Ended(r))
    <2>1. /\ IsList(Approving!Ended(r)) /\ RequestsFine(Approving!Ended(r), server, page.pin)
          /\ DOMAIN Approving!Ended(r) = DOMAIN requests
          /\ \A s \in DOMAIN requests :
                Approving!Ended(r)[s] = IF s = r THEN Approving!Over ELSE requests[s]
      BY EndedIsFine DEF ReceiptInv
    <2>2. ASSUME NEW s \in DOMAIN requests, s # r  PROVE Requested(requests[s], server, pin)
      <3>1. Requested(requests[s], server, page.pin) /\ Unlike(requests[r], requests[s])
        BY <2>2 DEF ReceiptInv, RequestsFine
      <3>2. ASSUME requests[s].stage = "served", requests[s].kind = "decide", requests[s].ok
            PROVE  pin.id # requests[s].reviewed.id
        BY <1>1, <1>2, <1>5, <3>1, <3>2 DEF Unlike
      <3>. QED  BY <3>1, <3>2 DEF Requested
    <2>3. \A s \in DOMAIN requests : Requested(Approving!Ended(r)[s], server, pin)
      BY <2>1, <2>2, OverIsFine
    <2>. QED  BY <2>1, <2>3 DEF RequestsFine
  <1>9. IsList(requests') /\ RequestsFine(requests', server, pin)
    <2>1. PICK filter : \/ requests' = Append(Approving!Ended(r), Approving!Load(filter, FALSE))
                        \/ requests' = Approving!Refilter(Approving!Ended(r), filter)
                        \/ requests' = Approving!Ended(r)
      BY DEF Approving!Decided
    <2>2. CASE requests' = Append(Approving!Ended(r), Approving!Load(filter, FALSE))
      BY <1>8, <2>2, LoadIsFine, OneMore
    <2>3. CASE requests' = Approving!Refilter(Approving!Ended(r), filter)
      BY <1>8, <2>3, RefilterIsFine
    <2>4. CASE requests' = Approving!Ended(r)
      BY <1>8, <2>4
    <2>. QED  BY <2>1, <2>2, <2>3, <2>4
  <1>10. Approving!ReceiptNeverBack
    BY <1>3, <1>5, <1>6 DEF Approving!ReceiptNeverBack
  <1>. QED  BY <1>2, <1>6, <1>7, <1>9, <1>10 DEF ReceiptInv

LEMMA ReceiptStep ==
    ASSUME ReceiptInv, [Approving!Next]_(Approving!approvalsVars)
    PROVE  ReceiptInv' /\ [Approving!ReceiptNeverBack]_(Approving!approvalsVars)
  <1>1. CASE UNCHANGED Approving!approvalsVars
    BY <1>1 DEF Approving!approvalsVars, ReceiptInv
  <1>2. ASSUME NEW id \in Proposals, Approving!Elsewhere(id)
        PROVE  ReceiptInv' /\ Approving!ReceiptNeverBack
    BY <1>2, OthersDecide
  <1>3. ASSUME NEW filter, Approving!OpenFilter(filter)
        PROVE  ReceiptInv' /\ Approving!ReceiptNeverBack
    <2>1. /\ server' = server /\ requests' = Approving!Refilter(requests, filter)
          /\ page'.pin = page.pin /\ page'.list = page.list /\ DOMAIN page' = DOMAIN page
      BY <1>3 DEF ReceiptInv, Approving!OpenFilter, Approving!Begun
    <2>2. IsList(requests') /\ RequestsFine(requests', server, page.pin)
      BY <2>1, RefilterIsFine DEF ReceiptInv
    <2>. QED  BY <2>1, <2>2, OnlyAsks
  <1>4. ASSUME Approving!Retry  PROVE ReceiptInv' /\ Approving!ReceiptNeverBack
    <2>1. /\ server' = server
          /\ requests' = Append(requests, Approving!Load(page.filter, FALSE))
          /\ page'.pin = page.pin /\ page'.list = page.list /\ DOMAIN page' = DOMAIN page
      BY <1>4 DEF ReceiptInv, Approving!Retry, Approving!Begun
    <2>2. IsList(requests') /\ RequestsFine(requests', server, page.pin)
      BY <2>1, LoadIsFine, OneMore DEF ReceiptInv
    <2>. QED  BY <2>1, <2>2, OnlyAsks
  <1>5. ASSUME NEW id \in Proposals, NEW decision \in {"approved", "rejected"},
               Approving!Decide(id, decision)
        PROVE  ReceiptInv' /\ Approving!ReceiptNeverBack
    BY <1>5, DecisionSent DEF Verdicts
  <1>6. ASSUME NEW r \in DOMAIN requests,
               \/ Approving!Serve(r) \/ Approving!TakeLoad(r) \/ Approving!FailLoad(r)
               \/ Approving!Decided(r) \/ Approving!NotDecided(r)
        PROVE  ReceiptInv' /\ Approving!ReceiptNeverBack
    <2>1. CASE Approving!FailLoad(r) \/ Approving!NotDecided(r)
      <3>1. /\ server' = server /\ requests' = Approving!Ended(r)
            /\ page'.pin = page.pin /\ page'.list = page.list /\ DOMAIN page' = DOMAIN page
        BY <2>1 DEF ReceiptInv, Approving!FailLoad, Approving!NotDecided
      <3>2. IsList(requests') /\ RequestsFine(requests', server, page.pin)
        BY <3>1, EndedIsFine DEF ReceiptInv
      <3>. QED  BY <3>1, <3>2, OnlyAsks
    <2>. QED  BY <1>6, <2>1, RequestServed, LoadTaken, DecisionTaken
  <1>. QED  BY <1>1, <1>2, <1>3, <1>4, <1>5, <1>6 DEF Approving!Next

\* proposalsWithPinnedReceipt: what the invariant says of the receipt that the page shows.
LEMMA ReceiptShown ==
    ASSUME ReceiptInv  PROVE Approving!ReceiptIsTrue
  <1>. DEFINE shown == {known \in Approving!Visible : known.id = page.pin.id}
              visible == {known \in page.list : Approving!Matches(known, page.filter)}
  <1>1. page.pin # Approving!Nothing => Behind(page.pin, server) /\ page.pin.status # "pending"
    BY DEF ReceiptInv, Pinned
  <1>2. ASSUME page.pin # Approving!Nothing, Approving!Matches(page.pin, page.filter)
        PROVE  /\ Cardinality(shown) = 1
               /\ \A known \in shown : /\ known.status = page.pin.status
                                       /\ known.execution >= page.pin.execution
    <2>1. PICK receipt : receipt = Approving!PinWithHistory(page.pin, visible)
      OBVIOUS
    <2>2. ReadOf(visible, server)
      BY DEF ReceiptInv, ReadOf
    <2>3. /\ receipt.id = page.pin.id /\ receipt.status = page.pin.status
          /\ receipt.execution >= page.pin.execution
      BY <1>1, <1>2, <2>1, <2>2, HistoryOfPin DEF ReceiptInv
    <2>4. Approving!Visible = {known \in visible : known.id # page.pin.id} \cup {receipt}
      BY <1>2, <2>1 DEF Approving!Visible, Approving!Shown
    <2>5. shown = {receipt}
      BY <2>3, <2>4
    <2>6. Cardinality({receipt}) = 1
      BY FS_Singleton
    <2>. QED  BY <2>3, <2>5, <2>6
  <1>3. page.pin # Approving!Nothing =>
           /\ server[page.pin.id].status = page.pin.status
           /\ page.pin.execution <= server[page.pin.id].execution
    BY <1>1 DEF Behind
  <1>4. Approving!Cardinality(shown) = Cardinality(shown)
    BY DEF Approving!Cardinality, Cardinality
  <1>. HIDE DEF visible
  <1>. QED  BY <1>2, <1>3, <1>4 DEF Approving!ReceiptIsTrue

\* The page of proposals: whatever was decided elsewhere, however loads and decisions overlap
\* and whichever answers are lost, a receipt is of what was recorded, the page shows it once,
\* and it never goes back.
THEOREM ReceiptsOfRecord ==
    Approving!Spec => /\ []Approving!ReceiptIsTrue
                      /\ [][Approving!ReceiptNeverBack]_(Approving!approvalsVars)
  <1>1. ASSUME Approving!Init  PROVE ReceiptInv
    <2>1. RecordsFine(server)
      BY <1>1 DEF Approving!Init, Approving!Known, RecordsFine, Receipts
    <2>2. page.list = {} /\ page.pin = Approving!Nothing
          /\ DOMAIN page = {"filter", "list", "pin", "loading", "error", "busy"}
      BY <1>1 DEF Approving!Init
    <2>3. PICK q : q = Approving!Load("all", TRUE)
      OBVIOUS
    <2>4. requests = <<q>>
      BY <1>1, <2>3 DEF Approving!Init
    <2>5. requests \in Seq({q}) /\ DOMAIN requests = {1} /\ requests[1] = q
      BY <2>4
    <2>6. Requested(q, server, page.pin)
      BY <2>3, LoadIsFine
    <2>. QED  BY <2>1, <2>2, <2>5, <2>6 DEF ReceiptInv, ReadOf, Pinned, IsList, RequestsFine
  <1>. QED  BY <1>1, ReceiptStep, ReceiptShown, PTL DEF Approving!Spec

-----------------------------------------------------------------------------
(* The pages of contacts.  A save says of the methods what the owner did   *)
(* to them in the editor, and otherwise says nothing; what a form submits, *)
(* however often, has the key of the form.                                 *)
CONSTANTS People, Narrow, Limit, Forms, MaxRequests, MaxRevision
Editing == INSTANCE ContactPages

\* A request of the page, and one it makes of the server.
Says(q) ==
    /\ "kind" \in DOMAIN q
    /\ q.kind = "save" =>
          {"sendsMethods", "methods"} \subseteq DOMAIN q /\ (q.sendsMethods => q.methods = "this")
    /\ q.kind = "log" => {"key", "form"} \subseteq DOMAIN q /\ q.key = q.form

AllSay(rs) == IsList(rs) /\ \A r \in DOMAIN rs : Says(rs[r])

\* A contact of the server, and what is edited of one.
OneOf(c) == c = Editing!Contact(c.id, c.revision, c.methods) /\ c.revision \in Nat
DraftFields == {"methods", "dirty", "saving", "editor"}
Drafted(draft) ==
    DOMAIN draft = DraftFields /\ (draft.dirty => draft.methods = "this")

PageFields ==
    {"query", "items", "total", "loading", "error", "list", "old", "create", "open", "profile",
     "contact", "editing", "draft", "form", "logging"}
Edits(p) == DOMAIN p = PageFields /\ Drafted(p.draft)

Apart(contacts) ==
    /\ \A c \in contacts : OneOf(c)
    /\ \A c, d \in contacts : c.id = d.id => c = d

LogOfForms(logged) == \A e \in logged : \E form : e = [key |-> form, form |-> form]

ServerFields == {"contacts", "logged"}
ContactsInv ==
    /\ DOMAIN server = ServerFields /\ Apart(server.contacts) /\ LogOfForms(server.logged)
    /\ Edits(page) /\ AllSay(requests)

\* Requests that say what they said, or that say nothing of contacts.
LEMMA SaysAfter ==
    ASSUME NEW rs, AllSay(rs), NEW next, DOMAIN next = DOMAIN rs,
           next = [r \in DOMAIN next |-> next[r]],
           \A r \in DOMAIN rs : Says(next[r])
    PROVE  AllSay(next)
  BY ListChanges DEF AllSay

LEMMA SaysMore ==
    ASSUME NEW rs, AllSay(rs), NEW q, Says(q)
    PROVE  AllSay(Append(rs, q))
  <1>1. /\ IsList(Append(rs, q)) /\ Len(rs) \in Nat /\ DOMAIN rs = 1 .. Len(rs)
        /\ DOMAIN Append(rs, q) = 1 .. Len(rs) + 1
        /\ \A i \in 1 .. Len(rs) : Append(rs, q)[i] = rs[i]
        /\ Append(rs, q)[Len(rs) + 1] = q
    BY ListGrows DEF AllSay
  <1>2. \A r \in DOMAIN Append(rs, q) : r \in 1 .. Len(rs) \/ r = Len(rs) + 1
    BY <1>1
  <1>. QED  BY <1>1, <1>2 DEF AllSay

LEMMA SaysNothing ==
    /\ Says(Editing!Over)
    /\ \A query : Says(Editing!Load(query))
    /\ \A id, profile, then : Says(Editing!Detail(id, profile, then))
    /\ Says([kind |-> "create", stage |-> "sent", ok |-> FALSE])
  BY DEF Says, Editing!Over, Editing!Load, Editing!Detail

LEMMA EndedSays ==
    ASSUME NEW rs, AllSay(rs), NEW r
    PROVE  AllSay(Editing!Ended(rs, r))
  <1>1. Says(Editing!Over)
    BY SaysNothing
  <1>2. /\ DOMAIN Editing!Ended(rs, r) = DOMAIN rs
        /\ Editing!Ended(rs, r)
              = [s \in DOMAIN Editing!Ended(rs, r) |-> Editing!Ended(rs, r)[s]]
        /\ \A s \in DOMAIN rs : Editing!Ended(rs, r)[s] \in {rs[s], Editing!Over}
    BY DEF Editing!Ended
  <1>3. \A s \in DOMAIN rs : Says(Editing!Ended(rs, r)[s])
    BY <1>1, <1>2 DEF AllSay
  <1>. QED  BY <1>2, <1>3, SaysAfter

LEMMA OutdatedSays ==
    ASSUME NEW rs, AllSay(rs)
    PROVE  AllSay(Editing!Outdated(rs))
  <1>1. /\ DOMAIN Editing!Outdated(rs) = DOMAIN rs
        /\ Editing!Outdated(rs)
              = [s \in DOMAIN Editing!Outdated(rs) |-> Editing!Outdated(rs)[s]]
    BY DEF Editing!Outdated
  <1>2. ASSUME NEW s \in DOMAIN rs  PROVE Says(Editing!Outdated(rs)[s])
    <2>1. PICK old : old = [rs[s] EXCEPT !.old = TRUE]
      OBVIOUS
    <2>2. Says(rs[s])
      BY DEF AllSay
    <2>3. Editing!Outdated(rs)[s] = IF rs[s].kind = "list" /\ rs[s].stage = "served"
                                   THEN old ELSE rs[s]
      BY <2>1 DEF Editing!Outdated
    <2>4. CASE rs[s].kind = "list"
      <3>1. DOMAIN old = DOMAIN rs[s] /\ old.kind = "list"
        BY <2>1, <2>2, <2>4 DEF Says
      <3>2. Says(old)
        BY <2>2, <3>1 DEF Says
      <3>. QED  BY <2>2, <2>3, <3>2
    <2>. QED  BY <2>2, <2>3, <2>4
  <1>. QED  BY <1>1, <1>2, SaysAfter

\* WithLoad
LEMMA LoadBegins ==
    ASSUME NEW p, Edits(p), NEW rs, AllSay(rs), NEW query, Editing!WithLoad(p, rs, query)
    PROVE  Edits(page') /\ AllSay(requests')
  <1>1. Edits(page')
    BY DEF Editing!WithLoad, Edits
  <1>2. PICK base : /\ base \in {Editing!Ended(rs, p.list), rs}
                    /\ requests' = Append(base, Editing!Load(query))
    BY DEF Editing!WithLoad
  <1>3. AllSay(base) /\ Says(Editing!Load(query))
    BY <1>2, EndedSays, SaysNothing
  <1>. QED  BY <1>1, <1>2, <1>3, SaysMore

\* One contact is changed: it is the only one of which there is more.
LEMMA Replaced ==
    ASSUME NEW contacts, Apart(contacts), NEW old \in contacts, NEW new, OneOf(new),
           new.id = old.id
    PROVE  /\ Apart((contacts \ {old}) \cup {new})
           /\ \A c \in contacts, d \in (contacts \ {old}) \cup {new} :
                 c.id = d.id /\ d.revision > c.revision => c = old /\ d = new
  <1>1. ASSUME NEW c \in contacts, NEW d \in (contacts \ {old}) \cup {new}, c.id = d.id,
               d.revision > c.revision
        PROVE  c = old /\ d = new
    <2>1. CASE d = new
      BY <1>1, <2>1 DEF Apart
    <2>2. CASE d # new
      <3>1. d = c /\ c.revision \in Nat
        BY <1>1, <2>2 DEF Apart, OneOf
      <3>. QED  BY <1>1, <3>1
    <2>. QED  BY <2>1, <2>2
  <1>2. Apart((contacts \ {old}) \cup {new})
    BY DEF Apart
  <1>. QED  BY <1>1, <1>2

LEMMA ChangedOne ==
    ASSUME NEW c, OneOf(c), NEW methods
    PROVE  /\ OneOf(Editing!Changed(c, methods)) /\ Editing!Changed(c, methods).id = c.id
           /\ Editing!Changed(c, methods).methods = methods
  BY DEF OneOf, Editing!Changed, Editing!Contact

\* The(id)
LEMMA TheOne ==
    ASSUME ContactsInv, NEW id, Editing!Has(id)
    PROVE  /\ Editing!The(id) \in server.contacts /\ Editing!The(id).id = id
           /\ OneOf(Editing!The(id))
  <1>1. \E c \in server.contacts : c.id = id
    BY DEF Editing!Has, Editing!IdsOf
  <1>2. PICK one : one = Editing!The(id)
    OBVIOUS
  <1>3. one \in server.contacts /\ one.id = id
    BY <1>1, <1>2 DEF Editing!The
  <1>. QED  BY <1>2, <1>3 DEF ContactsInv, Apart

\* No contact is changed.
LEMMA NoneChanged ==
    ASSUME ContactsInv,
           \A d \in server'.contacts :
              d \in server.contacts \/ \A c \in server.contacts : c.id # d.id
    PROVE  Editing!MethodsStay
  <1>. SUFFICES ASSUME NEW c \in server.contacts, NEW d \in server'.contacts,
                       c.id = d.id, d.revision > c.revision
                PROVE  FALSE
    BY DEF Editing!MethodsStay
  <1>1. d = c /\ c.revision \in Nat
    BY DEF ContactsInv, Apart, OneOf
  <1>. QED  BY <1>1

\* A change of one contact by methods that are not the first ones, or that it had.
LEMMA OneChanged ==
    ASSUME ContactsInv, NEW id, Editing!Has(id), NEW methods,
           methods # "first" \/ methods = Editing!The(id).methods,
           DOMAIN server' = ServerFields,
           server'.contacts = (server.contacts \ {Editing!The(id)})
                                 \cup {Editing!Changed(Editing!The(id), methods)}
    PROVE  Apart(server'.contacts) /\ Editing!MethodsStay
  <1>1. PICK old : old = Editing!The(id)
    OBVIOUS
  <1>2. PICK new : new = Editing!Changed(old, methods)
    OBVIOUS
  <1>3. old \in server.contacts /\ OneOf(old)
    BY <1>1, TheOne
  <1>4. OneOf(new) /\ new.id = old.id /\ new.methods = methods
    BY <1>2, <1>3, ChangedOne
  <1>5. server'.contacts = (server.contacts \ {old}) \cup {new}
    BY <1>1, <1>2
  <1>6. /\ Apart(server'.contacts)
        /\ \A c \in server.contacts, d \in server'.contacts :
              c.id = d.id /\ d.revision > c.revision => c = old /\ d = new
    BY <1>3, <1>4, <1>5, Replaced DEF ContactsInv
  <1>. QED  BY <1>1, <1>4, <1>6 DEF Editing!MethodsStay

LEMMA OthersEdit ==
    ASSUME ContactsInv, NEW id, Editing!Elsewhere(id)
    PROVE  ContactsInv' /\ Editing!MethodsStay
  <1>1. AllSay(requests') /\ Edits(page')
    BY OutdatedSays DEF ContactsInv, Edits, Editing!Elsewhere
  <1>2. Editing!Has(id)
    BY DEF Editing!Elsewhere
  <1>3. CASE server' = [server EXCEPT !.contacts = @ \ {Editing!The(id)}]
    <2>1. /\ server'.contacts = server.contacts \ {Editing!The(id)}
          /\ server'.logged = server.logged /\ DOMAIN server' = ServerFields
      BY <1>3 DEF ContactsInv, ServerFields
    <2>2. Editing!MethodsStay
      BY <2>1, NoneChanged
    <2>. QED  BY <1>1, <2>1, <2>2 DEF ContactsInv, Apart
  <1>4. CASE server' = Editing!Replace(Editing!The(id), Editing!Changed(Editing!The(id), "other"))
    <2>1. /\ server'.contacts = (server.contacts \ {Editing!The(id)})
                                   \cup {Editing!Changed(Editing!The(id), "other")}
          /\ server'.logged = server.logged /\ DOMAIN server' = ServerFields
      BY <1>4 DEF ContactsInv, ServerFields, Editing!Replace
    <2>2. Apart(server'.contacts) /\ Editing!MethodsStay
      BY <1>2, <2>1, OneChanged
    <2>. QED  BY <1>1, <2>1, <2>2 DEF ContactsInv
  <1>. QED  BY <1>3, <1>4 DEF Editing!Elsewhere

\* A request that is answered says what it said.
LEMMA AnswersSay ==
    ASSUME AllSay(requests), NEW r \in DOMAIN requests, NEW ok, NEW data,
           \/ requests' = [requests EXCEPT ![r].stage = "served", ![r].ok = ok]
           \/ requests' = [requests EXCEPT ![r].stage = "served", ![r].data = data]
           \/ requests' = [requests EXCEPT ![r].stage = "served", ![r].ok = ok, ![r].data = data]
    PROVE  AllSay(requests')
  <1>1. PICK next : /\ \/ next = [requests[r] EXCEPT !.stage = "served", !.ok = ok]
                       \/ next = [requests[r] EXCEPT !.stage = "served", !.data = data]
                       \/ next = [requests[r] EXCEPT !.stage = "served", !.ok = ok, !.data = data]
                    /\ requests' = [requests EXCEPT ![r] = next]
    OBVIOUS
  <1>2. Says(requests[r])
    BY DEF AllSay
  <1>3. /\ DOMAIN next = DOMAIN requests[r]
        /\ \A f \in {"kind", "sendsMethods", "methods", "key", "form"} :
              f \in DOMAIN requests[r] => next[f] = requests[r][f]
    BY <1>1
  <1>4. Says(next)
    BY <1>2, <1>3 DEF Says
  <1>5. /\ DOMAIN requests' = DOMAIN requests /\ requests' = [s \in DOMAIN requests' |-> requests'[s]]
        /\ \A s \in DOMAIN requests : requests'[s] \in {next, requests[s]}
    BY <1>1
  <1>6. \A s \in DOMAIN requests : Says(requests'[s])
    BY <1>4, <1>5 DEF AllSay
  <1>. QED  BY <1>5, <1>6, SaysAfter

LEMMA PageServed ==
    ASSUME ContactsInv, NEW r \in DOMAIN requests, Editing!Serve(r)
    PROVE  ContactsInv' /\ Editing!MethodsStay
  <1>1. page' = page /\ Says(requests[r]) /\ AllSay(requests)
    BY DEF ContactsInv, AllSay, Editing!Serve
  <1>2. CASE requests[r].kind \in {"list", "detail"}
    <2>1. PICK ok, data :
             \/ requests' = [requests EXCEPT ![r].stage = "served", ![r].data = data]
             \/ requests' = [requests EXCEPT ![r].stage = "served", ![r].ok = ok, ![r].data = data]
      <3>1. CASE requests[r].kind = "list"
        BY <3>1 DEF Editing!Serve
      <3>2. CASE requests[r].kind = "detail"
        <4>1. PICK id, ok, data :
                 /\ id = requests[r].id /\ ok = Editing!Has(id)
                 /\ data = IF ok THEN Editing!The(id) ELSE Editing!Nobody
          OBVIOUS
        <4>2. requests' = [requests EXCEPT ![r].stage = "served", ![r].ok = ok, ![r].data = data]
          BY <3>2, <4>1 DEF Editing!Serve
        <4>. QED  BY <4>2
      <3>. QED  BY <1>2, <3>1, <3>2
    <2>2. AllSay(requests')
      <3>1. CASE requests' = [requests EXCEPT ![r].stage = "served", ![r].data = data]
        BY <1>1, <3>1, AnswersSay
      <3>2. CASE requests' = [requests EXCEPT ![r].stage = "served", ![r].ok = ok,
                                             ![r].data = data]
        BY <1>1, <3>2, AnswersSay
      <3>. QED  BY <2>1, <3>1, <3>2
    <2>3. server' = server
      BY <1>2 DEF Editing!Serve
    <2>4. Editing!MethodsStay
      BY <2>3, NoneChanged
    <2>. QED  BY <1>1, <2>2, <2>3, <2>4 DEF ContactsInv
  <1>3. CASE requests[r].kind = "create"
    <2>1. PICK id \in People \ Editing!IdsOf(server.contacts) :
             server' = [server EXCEPT !.contacts = @ \cup {Editing!Contact(id, 0, "first")}]
      BY <1>3 DEF Editing!Serve
    <2>2. PICK new : new = Editing!Contact(id, 0, "first")
      OBVIOUS
    <2>3. OneOf(new) /\ new.id = id
      BY <2>2 DEF OneOf, Editing!Contact
    <2>4. /\ server'.contacts = server.contacts \cup {new}
          /\ server'.logged = server.logged /\ DOMAIN server' = ServerFields
      BY <2>1, <2>2 DEF ContactsInv, ServerFields
    <2>5. \A c \in server.contacts : c.id # id
      BY <2>1 DEF Editing!IdsOf
    <2>6. Editing!MethodsStay
      BY <2>3, <2>4, <2>5, NoneChanged
    <2>7. Apart(server'.contacts)
      BY <2>3, <2>4, <2>5 DEF ContactsInv, Apart
    <2>8. AllSay(requests')
      BY <1>1, <1>3, AnswersSay DEF Editing!Serve, Editing!Answer
    <2>. QED  BY <1>1, <2>4, <2>6, <2>7, <2>8 DEF ContactsInv
  <1>4. CASE requests[r].kind = "save"
    <2>1. PICK id, methods :
             /\ id = requests[r].id
             /\ methods = IF requests[r].sendsMethods THEN requests[r].methods
                          ELSE Editing!The(id).methods
      OBVIOUS
    <2>2. methods # "first" \/ methods = Editing!The(id).methods
      BY <1>1, <1>4, <2>1 DEF Says
    <2>3. AllSay(requests')
      BY <1>1, <1>4, AnswersSay DEF Editing!Serve, Editing!Answer
    <2>4. server' = IF ~Editing!Has(id) THEN server
                    ELSE Editing!Replace(Editing!The(id), Editing!Changed(Editing!The(id), methods))
      BY <1>4, <2>1 DEF Editing!Serve
    <2>5. CASE ~Editing!Has(id)
      <3>1. Editing!MethodsStay
        BY <2>4, <2>5, NoneChanged
      <3>. QED  BY <1>1, <2>3, <2>4, <2>5, <3>1 DEF ContactsInv
    <2>6. CASE Editing!Has(id)
      <3>1. /\ server'.contacts = (server.contacts \ {Editing!The(id)})
                                     \cup {Editing!Changed(Editing!The(id), methods)}
            /\ server'.logged = server.logged /\ DOMAIN server' = ServerFields
        BY <2>4, <2>6 DEF ContactsInv, ServerFields, Editing!Replace
      <3>2. Apart(server'.contacts) /\ Editing!MethodsStay
        BY <2>2, <2>6, <3>1, OneChanged
      <3>. QED  BY <1>1, <2>3, <3>1, <3>2 DEF ContactsInv
    <2>. QED  BY <2>5, <2>6
  <1>5. CASE requests[r].kind = "log"
    <2>1. PICK id, entry : /\ id = requests[r].id
                           /\ entry = [key |-> requests[r].key, form |-> requests[r].form]
      OBVIOUS
    <2>2. requests[r].key = requests[r].form
      BY <1>1, <1>5 DEF Says
    <2>3. AllSay(requests')
      BY <1>1, <1>5, AnswersSay DEF Editing!Serve, Editing!Answer
    <2>4. \/ server' = server
          \/ /\ Editing!Has(id)
             /\ server' = [Editing!Replace(Editing!The(id), Editing!Changed(Editing!The(id),
                                                                Editing!The(id).methods))
                           EXCEPT !.logged = @ \cup {entry}]
      BY <1>5, <2>1 DEF Editing!Serve
    <2>5. CASE server' = server
      <3>1. Editing!MethodsStay
        BY <2>5, NoneChanged
      <3>. QED  BY <1>1, <2>3, <2>5, <3>1 DEF ContactsInv
    <2>6. CASE server' # server
      <3>1. PICK base : base = Editing!Replace(Editing!The(id), Editing!Changed(Editing!The(id),
                                                                Editing!The(id).methods))
        OBVIOUS
      <3>2. /\ base.contacts = (server.contacts \ {Editing!The(id)})
                                  \cup {Editing!Changed(Editing!The(id), Editing!The(id).methods)}
            /\ base.logged = server.logged /\ DOMAIN base = ServerFields
        BY <3>1 DEF ContactsInv, ServerFields, Editing!Replace
      <3>3. server' = [base EXCEPT !.logged = @ \cup {entry}] /\ Editing!Has(id)
        BY <2>4, <2>6, <3>1
      <3>4. /\ server'.contacts = base.contacts /\ server'.logged = server.logged \cup {entry}
            /\ DOMAIN server' = ServerFields
        BY <3>2, <3>3 DEF ServerFields
      <3>5. Apart(server'.contacts) /\ Editing!MethodsStay
        BY <3>2, <3>3, <3>4, OneChanged
      <3>6. LogOfForms(server'.logged)
        BY <2>1, <2>2, <3>4 DEF ContactsInv, LogOfForms
      <3>. QED  BY <1>1, <2>3, <3>4, <3>5, <3>6 DEF ContactsInv
    <2>. QED  BY <2>5, <2>6
  <1>. QED  BY <1>2, <1>3, <1>4, <1>5 DEF Editing!Serve

\* A step of the page itself.
LEMMA OnlyPage ==
    ASSUME ContactsInv, server' = server, Edits(page'), AllSay(requests')
    PROVE  ContactsInv' /\ Editing!MethodsStay
  BY NoneChanged DEF ContactsInv

LEMMA DraftsFine ==
    /\ Drafted(Editing!NoDraft)
    /\ \A contact : Drafted(Editing!NewDraft(contact))
  BY DEF Drafted, DraftFields, Editing!NoDraft, Editing!NewDraft

LEMMA FailsFine ==
    ASSUME AllSay(requests), NEW r, NEW p, Edits(p), Editing!Fails(r, p)
    PROVE  Edits(page') /\ AllSay(requests')
  BY EndedSays, OutdatedSays DEF Editing!Fails, Edits

LEMMA ReloadsFine ==
    ASSUME AllSay(requests), NEW r, NEW p, Edits(p), NEW then, Editing!Reloads(p, r, then)
    PROVE  Edits(page') /\ AllSay(requests')
  <1>1. PICK id, profile : Editing!WithLoad(p, Append(Editing!Ended(requests, r),
                                                      Editing!Detail(id, profile, then)), p.query)
    BY DEF Editing!Reloads, Editing!Refreshed
  <1>2. AllSay(Append(Editing!Ended(requests, r), Editing!Detail(id, profile, then)))
    BY EndedSays, SaysNothing, SaysMore
  <1>. QED  BY <1>1, <1>2, LoadBegins

LEMMA ContactsStep ==
    ASSUME ContactsInv, [Editing!Next]_(Editing!contactPagesVars)
    PROVE  ContactsInv' /\ [Editing!MethodsStay]_(Editing!contactPagesVars)
  <1>1. CASE UNCHANGED Editing!contactPagesVars
    BY <1>1 DEF Editing!contactPagesVars, ContactsInv
  <1>. DEFINE Fine == Edits(page') /\ AllSay(requests')
  <1>2. Edits(page) /\ AllSay(requests)
    BY DEF ContactsInv
  <1>3. ASSUME Editing!Retry \/ (\E query : Editing!Ask(query))  PROVE ContactsInv' /\ Editing!MethodsStay
    <2>1. server' = server /\ \E query : Editing!WithLoad(page, requests, query)
      BY <1>3 DEF Editing!Retry, Editing!Ask
    <2>. QED  BY <1>2, <2>1, LoadBegins, OnlyPage
  <1>4. ASSUME \/ Editing!OpenCreate \/ Editing!CloseCreate \/ Editing!CloseProfile
               \/ Editing!StartEdit \/ Editing!CancelEdit \/ Editing!EditMethods
               \/ Editing!OpenForm \/ Editing!CloseForm
        PROVE  ContactsInv' /\ Editing!MethodsStay
    <2>1. server' = server /\ requests' = requests
      BY <1>4 DEF Editing!OpenCreate, Editing!CloseCreate, Editing!CloseProfile, Editing!StartEdit,
                  Editing!CancelEdit, Editing!EditMethods, Editing!OpenForm, Editing!CloseForm
    <2>2. CASE Editing!OpenCreate \/ Editing!CloseCreate \/ Editing!OpenForm \/ Editing!CloseForm
      <3>1. DOMAIN page' = PageFields /\ page'.draft = page.draft
        BY <1>2, <2>2 DEF Editing!OpenCreate, Editing!CloseCreate, Editing!OpenForm,
                          Editing!CloseForm, Edits, PageFields
      <3>. QED  BY <1>2, <2>1, <3>1, OnlyPage DEF Edits
    <2>3. CASE Editing!CloseProfile \/ Editing!CancelEdit
      <3>1. DOMAIN page' = PageFields /\ page'.draft = Editing!NoDraft
        BY <1>2, <2>3 DEF Editing!CloseProfile, Editing!Closed, Editing!CancelEdit, Edits, PageFields
      <3>. QED  BY <1>2, <2>1, <3>1, DraftsFine, OnlyPage DEF Edits
    <2>4. CASE Editing!StartEdit
      <3>1. DOMAIN page' = PageFields /\ page'.draft = Editing!NewDraft(page.contact)
        BY <1>2, <2>4 DEF Editing!StartEdit, Edits, PageFields
      <3>. QED  BY <1>2, <2>1, <3>1, DraftsFine, OnlyPage DEF Edits
    <2>5. CASE Editing!EditMethods
      <3>1. PICK draft : draft = [page.draft EXCEPT !.dirty = TRUE, !.methods = "this"]
        OBVIOUS
      <3>2. page' = [page EXCEPT !.draft = draft]
        BY <2>5, <3>1 DEF Editing!EditMethods
      <3>3. Drafted(draft)
        BY <1>2, <3>1 DEF Edits, Drafted, DraftFields
      <3>4. DOMAIN page' = PageFields /\ page'.draft = draft
        BY <1>2, <3>2 DEF Edits, PageFields
      <3>. QED  BY <1>2, <2>1, <3>3, <3>4, OnlyPage DEF Edits
    <2>. QED  BY <1>4, <2>2, <2>3, <2>4, <2>5
  <1>5. ASSUME Editing!SubmitCreate  PROVE ContactsInv' /\ Editing!MethodsStay
    <2>1. /\ server' = server
          /\ requests' = Append(requests, [kind |-> "create", stage |-> "sent", ok |-> FALSE])
          /\ DOMAIN page' = PageFields /\ page'.draft = page.draft
      BY <1>2, <1>5 DEF Editing!SubmitCreate, Edits, PageFields
    <2>. QED  BY <1>2, <2>1, SaysNothing, SaysMore, OnlyPage DEF Edits
  <1>6. ASSUME Editing!Save  PROVE ContactsInv' /\ Editing!MethodsStay
    <2>1. PICK draft : draft = [page.draft EXCEPT !.saving = TRUE]
      OBVIOUS
    <2>2. page' = [page EXCEPT !.draft = draft]
      BY <1>6, <2>1 DEF Editing!Save
    <2>3. Drafted(draft)
      BY <1>2, <2>1 DEF Edits, Drafted, DraftFields
    <2>4. DOMAIN page' = PageFields /\ page'.draft = draft
      BY <1>2, <2>2 DEF Edits, PageFields
    <2>5. PICK q : q = [kind |-> "save", stage |-> "sent", id |-> page.open,
                        profile |-> page.profile, methods |-> page.draft.methods,
                        sendsMethods |-> Editing!SendsMethods(page.draft), ok |-> FALSE]
      OBVIOUS
    <2>6. server' = server /\ requests' = Append(requests, q)
      BY <1>6, <2>5 DEF Editing!Save
    <2>7. /\ q.kind = "save" /\ q.methods = page.draft.methods /\ q.sendsMethods = page.draft.dirty
          /\ {"kind", "sendsMethods", "methods"} \subseteq DOMAIN q
      BY <2>5 DEF Editing!SendsMethods
    <2>8. Says(q)
      BY <1>2, <2>7 DEF Says, Edits, Drafted
    <2>. QED  BY <1>2, <2>3, <2>4, <2>6, <2>8, SaysMore, OnlyPage DEF Edits
  <1>7. ASSUME Editing!Log  PROVE ContactsInv' /\ Editing!MethodsStay
    <2>1. PICK q : q = [kind |-> "log", stage |-> "sent", id |-> page.open,
                        profile |-> page.profile, form |-> page.form,
                        key |-> Editing!KeyOf(page.form), ok |-> FALSE]
      OBVIOUS
    <2>2. /\ server' = server /\ requests' = Append(requests, q)
          /\ DOMAIN page' = PageFields /\ page'.draft = page.draft
      BY <1>2, <1>7, <2>1 DEF Editing!Log, Edits, PageFields
    <2>3. q.kind = "log" /\ q.key = q.form /\ {"kind", "key", "form"} \subseteq DOMAIN q
      BY <2>1 DEF Editing!KeyOf
    <2>4. Says(q)
      BY <2>3 DEF Says
    <2>. QED  BY <1>2, <2>2, <2>4, SaysMore, OnlyPage DEF Edits
  <1>8. ASSUME NEW id, Editing!Elsewhere(id) \/ Editing!OpenProfile(id)
        PROVE  ContactsInv' /\ Editing!MethodsStay
    <2>1. CASE Editing!OpenProfile(id)
      <3>1. /\ server' = server
            /\ requests' = Append(requests, Editing!Detail(id, Len(requests) + 1, FALSE))
            /\ DOMAIN page' = PageFields /\ page'.draft = page.draft
        BY <1>2, <2>1 DEF Editing!OpenProfile, Edits, PageFields
      <3>. QED  BY <1>2, <3>1, SaysNothing, SaysMore, OnlyPage DEF Edits
    <2>. QED  BY <1>8, <2>1, OthersEdit
  <1>9. ASSUME NEW r \in DOMAIN requests, Editing!TakeList(r) \/ Editing!FailList(r)
        PROVE  ContactsInv' /\ Editing!MethodsStay
    <2>1. server' = server
      BY <1>9 DEF Editing!TakeList, Editing!FailList
    <2>2. \/ /\ requests' = Editing!Ended(requests, r)
             /\ DOMAIN page' = PageFields /\ page'.draft = page.draft
          \/ \E query : Editing!WithLoad(page, requests, query)
      BY <1>2, <1>9 DEF Editing!TakeList, Editing!FailList, Edits, PageFields
    <2>. QED  BY <1>2, <2>1, <2>2, EndedSays, LoadBegins, OnlyPage DEF Edits
  <1>10. ASSUME NEW r \in DOMAIN requests, Editing!EndCreate(r)
         PROVE  ContactsInv' /\ Editing!MethodsStay
    <2>1. \A create : Edits([page EXCEPT !.create = create])
      BY <1>2 DEF Edits, PageFields
    <2>2. /\ server' = server
          /\ \/ \E create, query : Editing!WithLoad([page EXCEPT !.create = create],
                                                    Editing!Ended(requests, r), query)
             \/ \E create : Editing!Fails(r, [page EXCEPT !.create = create])
      BY <1>10 DEF Editing!EndCreate
    <2>. QED  BY <1>2, <2>1, <2>2, EndedSays, LoadBegins, FailsFine, OnlyPage
  <1>11. ASSUME NEW r \in DOMAIN requests, Editing!TakeDetail(r) \/ Editing!FailDetail(r)
         PROVE  ContactsInv' /\ Editing!MethodsStay
    <2>1. server' = server /\ requests' = Editing!Ended(requests, r)
      BY <1>11 DEF Editing!TakeDetail, Editing!FailDetail
    <2>2. Edits(Editing!Closed(page))
      <3>1. /\ DOMAIN Editing!Closed(page) = PageFields
            /\ Editing!Closed(page).draft = Editing!NoDraft
        BY <1>2 DEF Editing!Closed, Edits, PageFields
      <3>. QED  BY <3>1, DraftsFine DEF Edits
    <2>3. ASSUME NEW contact, NEW then  PROVE Edits(Editing!Shows(contact, then))
      <3>1. PICK draft : draft = IF ~page.editing \/ then THEN Editing!NoDraft
                                 ELSE IF page.contact.revision = contact.revision THEN page.draft
                                 ELSE Editing!NewDraft(contact)
        OBVIOUS
      <3>2. Drafted(draft)
        BY <1>2, <3>1, DraftsFine DEF Edits
      <3>3. /\ DOMAIN Editing!Shows(contact, then) = PageFields
            /\ Editing!Shows(contact, then).draft = draft
        BY <1>2, <3>1 DEF Editing!Shows, Edits, PageFields
      <3>. QED  BY <3>2, <3>3 DEF Edits
    <2>4. Edits([page EXCEPT !.editing = FALSE, !.draft = Editing!NoDraft])
      BY <1>2, DraftsFine DEF Edits, PageFields
    <2>5. Edits(page')
      BY <1>2, <1>11, <2>2, <2>3, <2>4 DEF Editing!TakeDetail, Editing!FailDetail
    <2>. QED  BY <1>2, <2>1, <2>5, EndedSays, OnlyPage
  <1>12. ASSUME NEW r \in DOMAIN requests, Editing!EndSave(r)
         PROVE  ContactsInv' /\ Editing!MethodsStay
    <2>1. Edits([page EXCEPT !.draft.saving = FALSE])
      <3>1. PICK draft : draft = [page.draft EXCEPT !.saving = FALSE]
        OBVIOUS
      <3>2. Drafted(draft)
        BY <1>2, <3>1 DEF Edits, Drafted, DraftFields
      <3>. QED  BY <1>2, <3>1, <3>2 DEF Edits, PageFields
    <2>2. /\ server' = server
          /\ \/ Editing!Reloads(page, r, TRUE)
             \/ Editing!Fails(r, page) \/ Editing!Fails(r, [page EXCEPT !.draft.saving = FALSE])
      BY <1>12 DEF Editing!EndSave
    <2>. QED  BY <1>2, <2>1, <2>2, ReloadsFine, FailsFine, OnlyPage
  <1>13. ASSUME NEW r \in DOMAIN requests, Editing!EndLog(r)
         PROVE  ContactsInv' /\ Editing!MethodsStay
    <2>1. /\ Edits([page EXCEPT !.form = 0, !.logging = FALSE])
          /\ \A logging : Edits([page EXCEPT !.logging = logging])
      BY <1>2 DEF Edits, PageFields
    <2>2. /\ server' = server
          /\ \/ Editing!Reloads(page, r, FALSE)
             \/ Editing!Reloads([page EXCEPT !.form = 0, !.logging = FALSE], r, FALSE)
             \/ \E logging : Editing!Fails(r, [page EXCEPT !.logging = logging])
      BY <1>13 DEF Editing!EndLog
    <2>. QED  BY <1>2, <2>1, <2>2, ReloadsFine, FailsFine, OnlyPage
  <1>. QED  BY <1>1, <1>3, <1>4, <1>5, <1>6, <1>7, <1>8, <1>9, <1>10, <1>11, <1>12, <1>13,
               PageServed DEF Editing!Next

\* The pages of contacts: whatever others do, however loads, saves and forms overlap and
\* whichever answers are lost, a text is logged once in a form, and the methods of a contact
\* are not lost to a save of something else.
THEOREM EditsAreKept ==
    Editing!Spec => /\ []Editing!FormLogsOnce
                    /\ [][Editing!MethodsStay]_(Editing!contactPagesVars)
  <1>1. ASSUME Editing!Init  PROVE ContactsInv
    <2>1. PICK ids \in SUBSET People :
             server = [contacts |-> {Editing!Contact(id, 0, "first") : id \in ids}, logged |-> {}]
      BY <1>1 DEF Editing!Init
    <2>2. \A id : /\ OneOf(Editing!Contact(id, 0, "first"))
                  /\ Editing!Contact(id, 0, "first").id = id
      BY DEF OneOf, Editing!Contact
    <2>3. Apart({Editing!Contact(id, 0, "first") : id \in ids})
      BY <2>2 DEF Apart
    <2>4. DOMAIN page = PageFields /\ page.draft = Editing!NoDraft
      BY <1>1 DEF Editing!Init, PageFields
    <2>5. PICK q : q = Editing!Load([narrow |-> FALSE, offset |-> 0])
      OBVIOUS
    <2>6. requests = <<q>> /\ Says(q)
      BY <1>1, <2>5, SaysNothing DEF Editing!Init
    <2>7. requests \in Seq({q}) /\ DOMAIN requests = {1} /\ requests[1] = q
      BY <2>6
    <2>. QED  BY <2>1, <2>3, <2>4, <2>6, <2>7, DraftsFine
              DEF ContactsInv, ServerFields, LogOfForms, Edits, AllSay, IsList
  <1>2. ASSUME ContactsInv  PROVE Editing!FormLogsOnce
    <2>1. ASSUME NEW one \in server.logged, NEW other \in server.logged, one.form = other.form
          PROVE  one = other
      <3>1. PICK form : one = [key |-> form, form |-> form]
        BY <1>2 DEF ContactsInv, LogOfForms
      <3>2. PICK form2 : other = [key |-> form2, form |-> form2]
        BY <1>2 DEF ContactsInv, LogOfForms
      <3>. QED  BY <2>1, <3>1, <3>2
    <2>. QED  BY <2>1 DEF Editing!FormLogsOnce
  <1>. QED  BY <1>1, <1>2, ContactsStep, PTL DEF Editing!Spec

=============================================================================
