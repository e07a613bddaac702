---------------------------- MODULE RewardsProofs ----------------------------
(* Proofs about Rewards: what the owner earned is explained by what is on  *)
(* record, and the keys of interactions and quests keep the promise of     *)
(* OncePerKey, for any number of requests, interactions and quests.  Then  *)
(* what is shown to the owner each day: the dates of a brief               *)
(* (ImportantDates), the brief (DailyBriefs) and the page of today         *)
(* (Cockpit), each with its invariant.                                     *)
EXTENDS Rewards, Sequences, FiniteSetTheorems, SequenceTheorems, WellFoundedInduction, TLAPS

-----------------------------------------------------------------------------
(* The inductive invariant.                                                *)

Effect == [at : Nat, request : Request, result : Interactions]
EffectsOK == effects \in [LogKeys -> SUBSET Effect]

\* LastContactIsLatest, without a maximum.
LatestDay ==
    /\ lastContacted = 0 \/ \E i \in Interactions : interaction[i] = lastContacted
    /\ \A i \in Interactions : interaction[i] <= lastContacted

\* XpAddsUp, with what counting takes.
Countable == IsFiniteSet(Logged) /\ IsFiniteSet(Completed) /\ IsFiniteSet(paid)

\* What no call is about.
Books == Countable /\ XpAddsUp /\ LedgerFollowsFacts /\ LatestDay

\* A record tells of something that was done under its key.
Backed(k, row) ==
    row.expiresAt # 0 => \E e \in effects[k] : e.request = row.request /\ e.result = row.result

\* All that was done under a key is on a record which is still to run out, or was long ago.
Past(k, row, t) ==
    \A e \in effects[k] : e.at + RecordTTL <= row.expiresAt \/ e.at + RecordTTL <= t

RecordsSound == \A k \in LogKeys : Backed(k, record[k]) /\ Past(k, record[k], clock)

\* A snapshot is old or tells all that was done under the key: whoever logs an interaction
\* moves the XP of the owner, so that a snapshot with this XP has seen it.
SnapshotSound(c) ==
    call[c].pc \in {"waiting", "locked"} =>
        /\ call[c].key \in LogKeys /\ call[c].request.day # 0
        /\ \A k \in LogKeys : Backed(k, call[c].records[k])
        /\ call[c].user.xp <= user.xp
        /\ call[c].user.xp = user.xp =>
              Past(call[c].key, Seen(c), IF call[c].pc = "locked" THEN call[c].now ELSE clock)

CallSound(c) ==
    /\ call[c].pc \in {"locked", "checkin"} => call[c].now \in 1 .. clock
    /\ call[c].pc = "race" =>
          /\ call[c].key \in QuestKeys /\ call[c].request.quest \in Quests
          /\ call[c].request = QuestRequest(call[c].request.quest, call[c].request.evidence)

RewardsInv ==
    /\ TypeOK /\ EffectsOK /\ clock \in Days
    /\ Books
    /\ RecordsSound
    /\ \A c \in Calls : SnapshotSound(c) /\ CallSound(c)

\* Whoever was paid for today has been active today, unless the payments overlapped.  A
\* check-in under way pays for a day that was paid only if they did.  A log that saw the
\* XP of today's payment has read the time since.
PaymentsOK ==
    /\ \A p \in paid : p.day <= clock /\ p.nth <= Cardinality(paid)
    /\ \A p \in paid : p.day = clock => user.lastActive = clock \/ p.day \in overlapped
    /\ \A p \in paid, c \in Calls :
          /\ call[c].pc = "checkin" /\ call[c].now <= p.day => p.day \in overlapped
          /\ call[c].pc = "locked" /\ call[c].user.xp = user.xp /\ p.day = clock =>
                call[c].now = clock
    /\ PaidOnceADay

\* One call at a time adds the XP of the streak's achievement, and none did before.
AwardsOK ==
    /\ StreakIsRewarded
    /\ \A c \in Calls : call[c].pc = "award" =>
          /\ "streak_starter" \in achieved /\ ~awarded
          /\ \A d \in Calls : call[d].pc = "award" => d = c

CheckInsOK == PaymentsOK /\ AwardsOK

-----------------------------------------------------------------------------
\* The maximum of a set of numbers, if there is one.
LEMMA MaxIs ==
    ASSUME NEW S \in SUBSET Int, NEW m \in S, \A x \in S : m >= x
    PROVE  Max(S) = m
  <1>1. \A x \in S : x >= m => x = m  OBVIOUS
  <1>2. Max(S) \in S /\ \A y \in S : Max(S) >= y  BY DEF Max
  <1> QED BY <1>1, <1>2

\* The fields of a call.
LEMMA CallFields ==
    ASSUME TypeOK, NEW c \in Calls
    PROVE  /\ call[c] \in Call /\ call[c].now \in Nat /\ call[c].attempt \in Nat
           /\ call[c].user \in User /\ call[c].user.xp \in Nat
           /\ call[c].records \in [LogKeys -> Record]
           /\ call[c].request \in Request /\ call[c].request.day \in Nat
           /\ call[c].key \in Keys \cup {None}
           /\ call[c].result \in Interactions \cup Quests \cup {None}
           /\ call[c].pc \in {"idle", "waiting", "locked", "race", "checkin", "unlock", "award",
                              "answer"}
  BY DEF TypeOK, Call, User, Request

\* The fields of the owner.
LEMMA UserFields == ASSUME TypeOK PROVE user.xp \in Nat /\ user.streak \in Nat /\ user.lastActive \in Nat
  BY DEF TypeOK, User

\* The constants are numbers, and keys of logs are none of quests.
LEMMA Constants ==
    /\ {InteractionXp, CheckInXp, RecordTTL, MaxAttempts, StreakTarget, MaxClock} \subseteq Nat \ {0}
    /\ {FirstXp, QuestXp, StreakBonus, StreakXp} \subseteq Nat
    /\ LogKeys \cap QuestKeys = {} /\ None \notin Interactions /\ None \notin Quests
    /\ None \notin Keys
  BY ConstantsAssumption

\* What the constants of a call are worth.
LEMMA NoCallType ==
    /\ NoRequest \in Request /\ NoRecord \in Record /\ NewUser \in User /\ NoCall \in Call
    /\ NoCall.pc = "idle"
  <1>1. NoRequest \in Request /\ NewUser \in User
    BY DEF NoRequest, Request, NewUser, User
  <1>2. NoRecord \in Record  BY <1>1 DEF NoRecord, Record
  <1>3. [k \in LogKeys |-> NoRecord] \in [LogKeys -> Record]  BY <1>2
  <1>4. NoCall \in Call  BY <1>1, <1>3 DEF NoCall, Call
  <1> QED BY <1>1, <1>2, <1>4 DEF NoCall

-----------------------------------------------------------------------------
(* Calls that move while the rest stays, and the rest moving past calls.   *)

\* A step of one call leaves the others alone.
LEMMA CallSet ==
    ASSUME TypeOK, NEW c \in Calls, NEW new \in Call, call' = [call EXCEPT ![c] = new]
    PROVE  /\ call' \in [Calls -> Call] /\ call'[c] = new
           /\ \A d \in Calls \ {c} : call'[d] = call[d]
  BY DEF TypeOK

\* A call that stays is sound while XP, time and what was done only grow.
LEMMA OthersSound ==
    ASSUME RewardsInv, NEW d \in Calls, call'[d] = call[d],
           user'.xp \in Nat, user'.xp >= user.xp, clock' \in Nat, clock' >= clock,
           \A k \in LogKeys : effects[k] \subseteq effects'[k] /\ effects'[k] \subseteq Effect,
           effects' = effects \/ user'.xp > user.xp
    PROVE  SnapshotSound(d)' /\ CallSound(d)'
  <1>0. /\ TypeOK /\ SnapshotSound(d) /\ CallSound(d) /\ EffectsOK
        /\ call[d].user.xp \in Nat /\ user.xp \in Nat /\ clock \in Nat /\ RecordTTL \in Nat
    BY CallFields, UserFields, Constants DEF RewardsInv, TypeOK
  <1>1. CallSound(d)'  BY <1>0 DEF CallSound
  <1>2. SnapshotSound(d)'
    <2> SUFFICES ASSUME call[d].pc \in {"waiting", "locked"}
                 PROVE  /\ call[d].key \in LogKeys /\ call[d].request.day # 0
                        /\ \A k \in LogKeys : Backed(k, call[d].records[k])'
                        /\ call[d].user.xp <= user'.xp
                        /\ call[d].user.xp = user'.xp =>
                              Past(call[d].key, Seen(d),
                                   IF call[d].pc = "locked" THEN call[d].now ELSE clock)'
      BY DEF SnapshotSound
    <2>1. call[d].key \in LogKeys /\ call[d].request.day # 0 /\ call[d].user.xp <= user'.xp
      BY <1>0 DEF SnapshotSound
    <2>2. \A k \in LogKeys : Backed(k, call[d].records[k])'
      BY <1>0 DEF SnapshotSound, Backed
    <2>3. ASSUME call[d].user.xp = user'.xp
          PROVE  Past(call[d].key, Seen(d), IF call[d].pc = "locked" THEN call[d].now ELSE clock)'
      <3>1. effects' = effects /\ call[d].user.xp = user.xp
        BY <1>0, <2>1, <2>3 DEF SnapshotSound
      <3>2. Past(call[d].key, Seen(d), IF call[d].pc = "locked" THEN call[d].now ELSE clock)
        BY <1>0, <3>1 DEF SnapshotSound
      <3>3. \A e \in effects[call[d].key] : e.at \in Nat
        BY <1>0, <2>1 DEF EffectsOK, Effect
      <3>4. Seen(d)' = Seen(d)  BY DEF Seen
      <3> QED BY <1>0, <3>1, <3>2, <3>3, <3>4 DEF Past
    <2> QED BY <2>1, <2>2, <2>3
  <1> QED BY <1>1, <1>2

\* What check-ins are worth is a number.
LEMMA WorthIsNat == ASSUME IsFiniteSet(paid) PROVE CheckInsWorth \in Nat
  <1> DEFINE long == {p \in paid : p.long}
  <1>1. IsFiniteSet(long)
    BY FS_Subset
  <1>2. Cardinality(paid) \in Nat /\ Cardinality(long) \in Nat
    BY <1>1, FS_CardinalityType
  <1> HIDE DEF long
  <1>3. CheckInXp * Cardinality(paid) \in Nat /\ StreakBonus * Cardinality(long) \in Nat
    BY <1>2, Constants
  <1> QED BY <1>3, Constants DEF CheckInsWorth, long

\* A payment adds what it is worth.
LEMMA Paying ==
    ASSUME IsFiniteSet(paid), NEW new, new \notin paid, new.long \in BOOLEAN,
           paid' = paid \cup {new}, awarded' = awarded
    PROVE  /\ IsFiniteSet(paid') /\ Cardinality(paid') = Cardinality(paid) + 1
           /\ CheckInsWorth' = CheckInsWorth + (CheckInXp + IF new.long THEN StreakBonus ELSE 0)
  <1> DEFINE long == {p \in paid : p.long}
             after == {p \in paid \cup {new} : p.long}
             n == Cardinality(paid)
             m == Cardinality(long)
             more == IF awarded THEN StreakXp ELSE 0
  <1>1. IsFiniteSet(paid') /\ Cardinality(paid') = n + 1
    BY FS_AddElement
  <1>2. IsFiniteSet(long) /\ n \in Nat /\ m \in Nat
    BY FS_Subset, FS_CardinalityType
  <1>3. Cardinality(after) = IF new.long THEN m + 1 ELSE m
    <2>1. CASE new.long
      <3>1. after = long \cup {new} /\ new \notin long
        BY <2>1
      <3> QED BY <1>2, <2>1, <3>1, FS_AddElement
    <2>2. CASE ~new.long
      <3>1. after = long
        BY <2>2
      <3> QED BY <2>2, <3>1
    <2> QED BY <2>1, <2>2
  <1>4. /\ CheckInsWorth = CheckInXp * n + StreakBonus * m + more
        /\ CheckInsWorth' = CheckInXp * Cardinality(paid') + StreakBonus * Cardinality(after) + more
    BY DEF CheckInsWorth
  <1> HIDE DEF n, m, after, more, long
  <1>5. /\ CheckInXp * (n + 1) = CheckInXp * n + CheckInXp /\ CheckInXp * n \in Nat
        /\ StreakBonus * (m + 1) = StreakBonus * m + StreakBonus /\ StreakBonus * m \in Nat
        /\ more \in Nat
    BY <1>2, Constants DEF more
  <1>6. CheckInsWorth' = CheckInsWorth + (CheckInXp + IF new.long THEN StreakBonus ELSE 0)
    <2>1. PICK a \in Nat, b \in Nat : a = CheckInXp * n /\ b = StreakBonus * m
      BY <1>5
    <2>2. CheckInsWorth = a + b + more
      BY <1>4, <2>1
    <2>3. CheckInsWorth' = a + CheckInXp + (IF new.long THEN b + StreakBonus ELSE b) + more
      BY <1>1, <1>3, <1>4, <1>5, <2>1
    <2> QED BY <1>5, <2>2, <2>3, Constants
  <1> QED BY <1>1, <1>6 DEF n

\* Steps by which only check-ins earn leave the books as they are.
LEMMA BooksKept ==
    ASSUME Books, UNCHANGED <<interaction, quest, ledger, feedback, lastContacted>>,
           achieved' \cap {"first_interaction"} = achieved \cap {"first_interaction"},
           IsFiniteSet(paid'), NEW xp \in Nat, user.xp \in Nat, user'.xp = user.xp + xp,
           CheckInsWorth' = CheckInsWorth + xp
    PROVE  Books'
  <1>1. Logged' = Logged /\ Completed' = Completed  BY DEF Logged, Completed
  <1>2. ("first_interaction" \in achieved') <=> ("first_interaction" \in achieved)  OBVIOUS
  <1>3. XpAddsUp'
    <2> DEFINE earned == InteractionXp * Cardinality(Logged) + QuestXp * Cardinality(Completed)
                         + (IF "first_interaction" \in achieved THEN FirstXp ELSE 0)
    <2>1. user.xp = earned + CheckInsWorth  BY DEF Books, XpAddsUp
    <2>2. earned \in Int /\ CheckInsWorth \in Nat
      <3>1. Cardinality(Logged) \in Nat /\ Cardinality(Completed) \in Nat
        BY FS_CardinalityType DEF Books, Countable
      <3>2. InteractionXp * Cardinality(Logged) \in Nat /\ QuestXp * Cardinality(Completed) \in Nat
        BY <3>1, Constants
      <3>3. CheckInsWorth \in Nat
        BY WorthIsNat DEF Books, Countable
      <3> QED BY <3>2, <3>3, Constants
    <2>3. user'.xp = earned + CheckInsWorth'
      <3>1. PICK w \in Nat : w = CheckInsWorth
        BY <2>2
      <3>2. CheckInsWorth' = w + xp
        BY <3>1
      <3> HIDE DEF earned
      <3> QED BY <2>1, <2>2, <3>1, <3>2
    <2> QED BY <1>1, <1>2, <2>3 DEF XpAddsUp
  <1>4. LedgerFollowsFacts'
    BY <1>1 DEF Books, LedgerFollowsFacts
  <1> QED BY <1>1, <1>3, <1>4 DEF Books, Countable, LatestDay

\* Only a call moves, or a check-in stays half done.
LEMMA CallDrops ==
    ASSUME RewardsInv, NEW c \in Calls, NEW new \in Call, call' = [call EXCEPT ![c] = new],
           (SnapshotSound(c) /\ CallSound(c))', dropped' \in BOOLEAN,
           UNCHANGED <<user, logged, achieved, ledger, quested, clock, checkIns, paid, overlapped,
                       awarded>>
    PROVE  RewardsInv'
  <1> USE DEF logged, quested
  <1>0. TypeOK /\ user.xp \in Nat /\ clock \in Nat /\ EffectsOK
    BY UserFields DEF RewardsInv, TypeOK
  <1>1. call' \in [Calls -> Call] /\ call'[c] = new /\ \A d \in Calls \ {c} : call'[d] = call[d]
    BY <1>0, CallSet
  <1>2. TypeOK' /\ EffectsOK' /\ (clock \in Days)'
    BY <1>0, <1>1 DEF RewardsInv, TypeOK, EffectsOK
  <1>3. ASSUME NEW d \in Calls PROVE (SnapshotSound(d) /\ CallSound(d))'
    <2>1. CASE d = c  BY <2>1
    <2>2. CASE d # c
      BY <1>0, <1>1, <2>2, OthersSound DEF EffectsOK
    <2> QED BY <2>1, <2>2
  <1>4. Books'
    BY DEF RewardsInv, Books, Countable, XpAddsUp, CheckInsWorth, LedgerFollowsFacts, LatestDay,
       Logged, Completed
  <1>5. RecordsSound'
    BY DEF RewardsInv, RecordsSound, Backed, Past
  <1> QED BY <1>2, <1>3, <1>4, <1>5 DEF RewardsInv

\* Only a call moves.
LEMMA CallMoves ==
    ASSUME RewardsInv, NEW c \in Calls, NEW new \in Call, call' = [call EXCEPT ![c] = new],
           (SnapshotSound(c) /\ CallSound(c))',
           UNCHANGED <<user, logged, achieved, ledger, quested, clock, checked>>
    PROVE  RewardsInv'
  <1>1. /\ dropped' \in BOOLEAN
        /\ UNCHANGED <<user, logged, achieved, ledger, quested, clock, checkIns, paid, overlapped,
                       awarded>>
    BY DEF RewardsInv, TypeOK, checked
  <1> QED BY <1>1, CallDrops

\* A call that is neither waiting for the lock nor holding it, checking in or in a race.
LEMMA PlainCall ==
    ASSUME RewardsInv, NEW c \in Calls, NEW new \in Call, call' = [call EXCEPT ![c] = new],
           new.pc \in {"idle", "unlock", "award", "answer"}
    PROVE  (SnapshotSound(c) /\ CallSound(c))'
  BY CallSet DEF RewardsInv, SnapshotSound, CallSound

\* A call that leaves is free again.
LEMMA LeaveCall ==
    ASSUME TypeOK, NEW c \in Calls, Leave(c)
    PROVE  call' = [call EXCEPT ![c] = NoCall] /\ NoCall \in Call /\ NoCall.pc = "idle"
  BY NoCallType DEF Leave

\* A call that has its answer keeps its key and request.
LEMMA TellCall ==
    ASSUME TypeOK, NEW c \in Calls, NEW result \in Interactions \cup Quests \cup {None},
           Tell(c, result)
    PROVE  \E new \in Call : /\ call' = [call EXCEPT ![c] = new] /\ new.pc = "answer"
                             /\ new.key = call[c].key /\ new.request = call[c].request
                             /\ new.result = result
  <1> DEFINE new == [NoCall EXCEPT !.pc = "answer", !.key = call[c].key,
                       !.request = call[c].request, !.since = call[c].since, !.result = result]
  <1>1. new \in Call  BY NoCallType, CallFields DEF Call
  <1>2. /\ new.pc = "answer" /\ new.key = call[c].key /\ new.request = call[c].request
        /\ new.result = result
    BY NoCallType DEF NoCall
  <1>3. call' = [call EXCEPT ![c] = new]  BY DEF Tell
  <1> HIDE DEF new
  <1> QED BY <1>1, <1>2, <1>3

-----------------------------------------------------------------------------
(* Steps in which only a call moves.                                       *)

\* An attempt takes its snapshot, of records that tell the whole past.
LEMMA AttemptInv ==
    ASSUME RewardsInv, NEW c \in Calls, NEW k \in LogKeys, NEW request \in Request,
           NEW since \in Nat, NEW n \in Nat, request.day # 0, Attempt(c, k, request, since, n),
           UNCHANGED <<user, logged, achieved, ledger, quested, clock, checked>>
    PROVE  RewardsInv'
  <1> DEFINE new == [NoCall EXCEPT !.pc = "waiting", !.key = k, !.request = request, !.since = since,
                       !.attempt = n, !.user = user, !.records = record]
  <1>0. TypeOK /\ user \in User /\ record \in [LogKeys -> Record] /\ user.xp \in Nat
    BY UserFields DEF RewardsInv, TypeOK
  <1>1. new \in Call
    BY <1>0, NoCallType DEF Call, Keys
  <1>2. /\ new.pc = "waiting" /\ new.key = k /\ new.request = request /\ new.user = user
        /\ new.records = record
    BY NoCallType DEF NoCall
  <1>3. call' = [call EXCEPT ![c] = new]  BY DEF Attempt
  <1> HIDE DEF new
  <1>4. call'[c] = new  BY <1>0, <1>1, <1>3, CallSet
  <1>5. (SnapshotSound(c) /\ CallSound(c))'
    <2>1. CallSound(c)'  BY <1>2, <1>4 DEF CallSound
    <2>2. \A l \in LogKeys : Backed(l, record[l])' /\ Past(l, record[l], clock)'
      BY DEF RewardsInv, RecordsSound, Backed, Past, logged
    <2>3. Seen(c)' = record[k]  BY <1>2, <1>4 DEF Seen
    <2>4. clock' = clock /\ user' = user /\ effects' = effects /\ record' = record
      BY DEF logged
    <2>5. Past(k, Seen(c), clock)'  BY <2>2, <2>3, <2>4 DEF Past
    <2>6. \A l \in LogKeys : Backed(l, call[c].records[l])'
      BY <1>2, <1>4, <2>2, <2>4 DEF Backed
    <2>7. SnapshotSound(c)'
      BY <1>0, <1>2, <1>4, <2>4, <2>5, <2>6 DEF SnapshotSound
    <2> QED BY <2>1, <2>7
  <1> QED BY <1>1, <1>3, <1>5, CallMoves

\* A call that begins has read nothing.
LEMMA BeginInv ==
    ASSUME RewardsInv, NEW c \in Calls, Begin(c)
    PROVE  RewardsInv'
  <1>1. PICK k \in LogKeys, day \in 1 .. clock :
           Attempt(c, k, [NoRequest EXCEPT !.day = day], clock, 1)
    BY DEF Begin
  <1>2. clock \in Nat /\ day \in Nat /\ day # 0  BY DEF RewardsInv, TypeOK
  <1>3. /\ [NoRequest EXCEPT !.day = day] \in Request
        /\ [NoRequest EXCEPT !.day = day].day = day
    BY <1>2, NoCallType DEF Request, NoRequest
  <1> QED BY <1>1, <1>2, <1>3, AttemptInv DEF Begin

\* A call that has the lock of its key reads the time; no other has that lock.
LEMMA LockInv ==
    ASSUME RewardsInv, NEW c \in Calls, Lock(c)
    PROVE  RewardsInv'
  <1> DEFINE new == [call[c] EXCEPT !.pc = "locked", !.now = clock]
  <1>0. /\ TypeOK /\ call[c] \in Call /\ call[c].pc = "waiting" /\ clock \in Nat /\ clock \in Days
        /\ SnapshotSound(c)
        /\ UNCHANGED <<user, logged, achieved, ledger, quested, clock, checked>>
    BY CallFields DEF RewardsInv, TypeOK, Lock
  <1>1. /\ new \in Call /\ new.pc = "locked" /\ new.now = clock /\ new.key = call[c].key
        /\ new.request = call[c].request /\ new.user = call[c].user
        /\ new.records = call[c].records
    BY <1>0 DEF Call
  <1>2. call' = [call EXCEPT ![c] = new]
    BY <1>0 DEF Lock, TypeOK
  <1> HIDE DEF new
  <1>3. call'[c] = new  BY <1>0, <1>1, <1>2, CallSet
  <1>4. CallSound(c)'  BY <1>0, <1>1, <1>3 DEF CallSound, Days
  <1>5. SnapshotSound(c)'
    <2>1. Seen(c)' = Seen(c)  BY <1>1, <1>3 DEF Seen
    <2>2. effects' = effects /\ user' = user  BY <1>0 DEF logged
    <2> QED BY <1>0, <1>1, <1>3, <2>1, <2>2 DEF SnapshotSound, Backed, Past
  <1> QED BY <1>0, <1>1, <1>2, <1>4, <1>5, CallMoves

\* A transaction that failed has written nothing, and is tried again or given up.
LEMMA RetryInv ==
    ASSUME RewardsInv, NEW c \in Calls, Retry(c)
    PROVE  RewardsInv'
  <1>0. /\ TypeOK /\ SnapshotSound(c) /\ call[c].pc = "locked"
        /\ UNCHANGED <<user, logged, achieved, ledger, quested, clock, checked>>
        /\ call[c].attempt + 1 \in Nat /\ call[c].request \in Request /\ call[c].since \in Nat
    BY CallFields DEF RewardsInv, Retry, Call
  <1>1. CASE Leave(c)
    BY <1>0, <1>1, LeaveCall, PlainCall, CallMoves
  <1>2. CASE Attempt(c, call[c].key, call[c].request, call[c].since, call[c].attempt + 1)
    BY <1>0, <1>2, AttemptInv DEF SnapshotSound
  <1> QED BY <1>1, <1>2 DEF Retry

\* A call that is refused or answered leaves nothing behind.
LEMMA LeaveInv ==
    ASSUME RewardsInv, NEW c \in Calls, RefuseKey(c) \/ Finish(c)
    PROVE  RewardsInv'
  <1>1. /\ TypeOK /\ Leave(c) /\ dropped' \in BOOLEAN
        /\ UNCHANGED <<user, logged, achieved, ledger, quested, clock, checkIns, paid, overlapped,
                       awarded>>
    BY DEF RewardsInv, TypeOK, RefuseKey, Finish, checked
  <1> QED BY <1>1, LeaveCall, PlainCall, CallDrops

\* What a request to complete a quest looks like.
LEMMA QuestCallType ==
    ASSUME TypeOK, NEW q \in Quests, NEW k \in QuestKeys, NEW i \in Interactions,
           NEW pc \in {"race", "answer"}, NEW result \in Quests \cup {None}
    PROVE  LET new == QuestCall(pc, k, QuestRequest(q, i), result) IN
           /\ new \in Call /\ new.pc = pc /\ new.key = k /\ new.request = QuestRequest(q, i)
           /\ new.result = result
           /\ QuestRequest(q, i).quest = q /\ QuestRequest(q, i).evidence = i
           /\ QuestRequest(q, i) \in Request
  <1>1. /\ QuestRequest(q, i) \in Request /\ QuestRequest(q, i).quest = q
        /\ QuestRequest(q, i).evidence = i
    BY NoCallType DEF QuestRequest, Request, NoRequest
  <1>2. clock \in Nat  BY DEF TypeOK
  <1> QED BY <1>1, <1>2, NoCallType DEF QuestCall, Call, Keys, NoCall

\* A replay of a quest tells what is stored.
LEMMA ReplayQuestInv ==
    ASSUME RewardsInv, NEW c \in Calls, ReplayQuest(c)
    PROVE  RewardsInv'
  <1>0. TypeOK  BY DEF RewardsInv
  <1>1. PICK q \in Quests, k \in QuestKeys, i \in Interactions :
           call' = [call EXCEPT ![c] = QuestCall("answer", k, QuestRequest(q, i), q)]
    BY DEF ReplayQuest
  <1>2. QuestCall("answer", k, QuestRequest(q, i), q) \in Call
        /\ QuestCall("answer", k, QuestRequest(q, i), q).pc = "answer"
    BY <1>0, QuestCallType
  <1> QED BY <1>1, <1>2, PlainCall, CallMoves DEF ReplayQuest

\* A call that loses a race has written nothing.
LEMMA LoseRaceInv ==
    ASSUME RewardsInv, NEW c \in Calls, LoseRace(c)
    PROVE  RewardsInv'
  <1>0. TypeOK  BY DEF RewardsInv
  <1>1. PICK q \in Quests, k \in QuestKeys, i \in Interactions :
           call' = [call EXCEPT ![c] = QuestCall("race", k, QuestRequest(q, i), None)]
    BY DEF LoseRace
  <1> DEFINE new == QuestCall("race", k, QuestRequest(q, i), None)
  <1>2. /\ new \in Call /\ new.pc = "race" /\ new.key = k /\ new.request = QuestRequest(q, i)
        /\ new.request.quest = q /\ new.request.evidence = i
    BY <1>0, QuestCallType
  <1> HIDE DEF new
  <1>3. call'[c] = new  BY <1>0, <1>1, <1>2, CallSet DEF new
  <1>4. (SnapshotSound(c) /\ CallSound(c))'
    BY <1>2, <1>3 DEF SnapshotSound, CallSound
  <1>5. call' = [call EXCEPT ![c] = new]  BY <1>1 DEF new
  <1> QED BY <1>2, <1>4, <1>5, CallMoves DEF LoseRace

\* The loser of a race tells what the winner stored.
LEMMA ResolveRaceInv ==
    ASSUME RewardsInv, NEW c \in Calls, ResolveRace(c)
    PROVE  RewardsInv'
  <1>0. /\ TypeOK /\ CallSound(c) /\ call[c].pc = "race"
        /\ UNCHANGED <<user, logged, achieved, ledger, quested, clock, checked>>
    BY DEF RewardsInv, ResolveRace
  <1>1. CASE Leave(c)
    BY <1>0, <1>1, LeaveCall, PlainCall, CallMoves
  <1>2. CASE Tell(c, call[c].request.quest)
    BY <1>0, <1>2, TellCall, PlainCall, CallMoves DEF CallSound
  <1> QED BY <1>1, <1>2 DEF ResolveRace

-----------------------------------------------------------------------------
(* Steps that write records, and what the owner has done.                  *)

\* What a transaction deletes has run out.
LEMMA CleanedSound ==
    ASSUME RewardsInv, NEW c \in Calls, call[c].pc = "locked", Unwritten(c)
    PROVE  /\ Cleaned(c) \in [LogKeys -> Record]
           /\ \A k \in LogKeys : Backed(k, Cleaned(c)[k]) /\ Past(k, Cleaned(c)[k], clock)
  <1>0. /\ TypeOK /\ EffectsOK /\ RecordsSound /\ clock \in Nat /\ RecordTTL \in Nat
        /\ call[c].now \in Nat /\ call[c].now <= clock /\ record \in [LogKeys -> Record]
    BY CallFields, Constants DEF RewardsInv, TypeOK, CallSound
  <1>1. Cleaned(c) \in [LogKeys -> Record]
    BY <1>0, NoCallType DEF Cleaned
  <1>2. ASSUME NEW k \in LogKeys
        PROVE  Backed(k, Cleaned(c)[k]) /\ Past(k, Cleaned(c)[k], clock)
    <2>1. CASE k \in Expired(c)
      <3>1. Cleaned(c)[k] = NoRecord /\ record[k].expiresAt <= call[c].now
        BY <1>0, <2>1 DEF Cleaned, Expired, Unwritten
      <3>2. Backed(k, NoRecord)  BY DEF Backed, NoRecord
      <3>3. ASSUME NEW e \in effects[k] PROVE e.at + RecordTTL <= clock
        <4>1. e.at \in Nat  BY <1>0 DEF EffectsOK, Effect
        <4>2. record[k].expiresAt \in Nat  BY <1>0 DEF Record
        <4>3. e.at + RecordTTL <= record[k].expiresAt \/ e.at + RecordTTL <= clock
          BY <1>0 DEF RecordsSound, Past
        <4> QED BY <1>0, <3>1, <4>1, <4>2, <4>3
      <3> QED BY <3>1, <3>2, <3>3 DEF Past
    <2>2. CASE k \notin Expired(c)
      BY <1>0, <2>2 DEF Cleaned, RecordsSound
    <2> QED BY <2>1, <2>2
  <1> QED BY <1>1, <1>2

\* A replay of a log tells what is stored.
LEMMA ReplayInv ==
    ASSUME RewardsInv, NEW c \in Calls, Replay(c)
    PROVE  RewardsInv'
  <1> USE DEF quested, checked
  <1>0. /\ TypeOK /\ EffectsOK /\ SnapshotSound(c) /\ call[c].pc = "locked" /\ Unwritten(c)
        /\ user.xp \in Nat /\ clock \in Nat /\ clock \in Days
    BY UserFields DEF RewardsInv, Replay, TypeOK
  <1>1. /\ record' = Cleaned(c) /\ Tell(c, Seen(c).result)
        /\ UNCHANGED <<user, interaction, lastContacted, achieved, ledger, quest, feedback, clock,
                       effects, checkIns, paid, overlapped, awarded, dropped>>
    BY DEF Replay
  <1>2. Seen(c).result \in Interactions \cup Quests \cup {None}
    BY <1>0, CallFields DEF Seen, SnapshotSound, Record
  <1>3. PICK new \in Call : call' = [call EXCEPT ![c] = new] /\ new.pc = "answer"
    BY <1>0, <1>1, <1>2, TellCall
  <1>4. call' \in [Calls -> Call] /\ \A d \in Calls \ {c} : call'[d] = call[d]
    BY <1>0, <1>3, CallSet
  <1>5. TypeOK' /\ EffectsOK' /\ (clock \in Days)'
    BY <1>0, <1>1, <1>4, CleanedSound DEF TypeOK, EffectsOK
  <1>6. ASSUME NEW d \in Calls PROVE (SnapshotSound(d) /\ CallSound(d))'
    <2>1. CASE d = c  BY <1>3, <2>1, PlainCall
    <2>2. CASE d # c  BY <1>0, <1>1, <1>4, <2>2, OthersSound DEF EffectsOK
    <2> QED BY <2>1, <2>2
  <1>7. Books'
    BY <1>1 DEF RewardsInv, Books, Countable, XpAddsUp, CheckInsWorth, LedgerFollowsFacts, LatestDay,
                Logged, Completed
  <1>8. RecordsSound'
    BY <1>0, <1>1, CleanedSound DEF RecordsSound, Backed, Past
  <1> QED BY <1>5, <1>6, <1>7, <1>8 DEF RewardsInv

\* What a transaction that logs an interaction writes.
LEMMA LogWrites ==
    ASSUME RewardsInv, NEW c \in Calls, Log(c)
    PROVE  /\ call[c].pc = "locked" /\ ~Live(c) /\ Unwritten(c)
           /\ \E i \in Interactions \ Logged, activityAt \in Nat :
                 LET k == call[c].key
                     day == call[c].request.day
                     first == IF Unlocks # {} THEN FirstXp ELSE 0
                 IN /\ interaction' = [interaction EXCEPT ![i] = day]
                    /\ lastContacted' = Advanced(day)
                    /\ achieved' = achieved \cup Unlocks
                    /\ ledger' = ledger \cup {i} \cup Unlocks
                    /\ user' = [user EXCEPT !.xp = @ + InteractionXp + first, !.lastActive = activityAt]
                    /\ record' = [Cleaned(c) EXCEPT ![k] =
                                    [request |-> call[c].request, result |-> i,
                                     expiresAt |-> call[c].now + RecordTTL]]
                    /\ effects' = [effects EXCEPT ![k] =
                                     @ \cup {[at |-> call[c].now, request |-> call[c].request,
                                              result |-> i]}]
                    /\ Tell(c, i)
           /\ UNCHANGED <<quest, feedback, clock, checkIns, paid, overlapped, awarded, dropped>>
  <1>1. call[c].now \in Nat /\ clock \in Nat
    BY CallFields DEF RewardsInv, TypeOK
  <1>2. \A t \in call[c].now .. clock : t \in Nat
    BY <1>1
  <1> QED BY <1>2 DEF Log, quested, checked

\* What is logged is new: the books grow by one interaction.
LEMMA LogBooks ==
    ASSUME RewardsInv, NEW c \in Calls, call[c].pc = "locked",
           NEW i \in Interactions \ Logged, NEW first \in Nat,
           first = IF Unlocks # {} THEN FirstXp ELSE 0,
           interaction' = [interaction EXCEPT ![i] = call[c].request.day],
           lastContacted' = Advanced(call[c].request.day),
           achieved' = achieved \cup Unlocks, ledger' = ledger \cup {i} \cup Unlocks,
           user'.xp = user.xp + InteractionXp + first,
           UNCHANGED <<quest, feedback, paid, awarded>>
    PROVE  Books'
  <1> DEFINE day == call[c].request.day
  <1>0. /\ TypeOK /\ Books /\ SnapshotSound(c) /\ day \in Nat /\ day # 0
        /\ lastContacted \in Nat /\ CheckInsWorth \in Nat /\ achieved \in SUBSET Achievements
        /\ CheckInsWorth' = CheckInsWorth
    BY CallFields, WorthIsNat
       DEF RewardsInv, TypeOK, SnapshotSound, Books, Countable, CheckInsWorth
  <1>1. /\ interaction[i] = 0 /\ interaction'[i] = day
        /\ \A j \in Interactions \ {i} : interaction'[j] = interaction[j]
        /\ \A j \in Interactions : interaction[j] \in Nat
    BY <1>0 DEF TypeOK, Logged
  <1>2. Logged' = Logged \cup {i} /\ Completed' = Completed
    BY <1>0, <1>1 DEF Logged, Completed
  <1>3. IsFiniteSet(Logged') /\ Cardinality(Logged') = Cardinality(Logged) + 1
    BY <1>0, <1>2, FS_AddElement DEF Books, Countable
  <1>4. (IF "first_interaction" \in achieved' THEN FirstXp ELSE 0) =
        (IF "first_interaction" \in achieved THEN FirstXp ELSE 0) + first
    BY Constants DEF Unlocks
  <1>5. XpAddsUp'
    <2>1. Cardinality(Logged) \in Nat /\ Cardinality(Completed) \in Nat
      BY <1>0, FS_CardinalityType DEF Books, Countable
    <2>2. /\ InteractionXp * (Cardinality(Logged) + 1) =
             InteractionXp * Cardinality(Logged) + InteractionXp
          /\ InteractionXp * Cardinality(Logged) \in Nat /\ QuestXp * Cardinality(Completed) \in Nat
      BY <2>1, Constants
    <2>3. user.xp = InteractionXp * Cardinality(Logged) + QuestXp * Cardinality(Completed)
                    + (IF "first_interaction" \in achieved THEN FirstXp ELSE 0) + CheckInsWorth
      BY <1>0 DEF Books, XpAddsUp
    <2> DEFINE of == IF "first_interaction" \in achieved THEN FirstXp ELSE 0
               a == InteractionXp * Cardinality(Logged)
               b == QuestXp * Cardinality(Completed)
    <2>4. a \in Nat /\ b \in Nat /\ of \in Nat /\ InteractionXp \in Nat
      BY <2>2, Constants
    <2>5. user.xp = a + b + of + CheckInsWorth  BY <2>3
    <2>6. a + InteractionXp + b + (of + first) + CheckInsWorth = user'.xp
      <3> HIDE DEF a, b, of
      <3> QED BY <1>0, <2>4, <2>5
    <2>7. user'.xp = InteractionXp * Cardinality(Logged') + QuestXp * Cardinality(Completed')
                     + (IF "first_interaction" \in achieved' THEN FirstXp ELSE 0) + CheckInsWorth
      BY <1>2, <1>3, <1>4, <2>2, <2>6
    <2> QED BY <1>0, <2>7 DEF XpAddsUp
  <1>6. LedgerFollowsFacts'
    <2>1. (achieved' \cap {"first_interaction"}) = (achieved \cap {"first_interaction"}) \cup Unlocks
      BY DEF Unlocks
    <2> QED BY <1>0, <1>2, <2>1 DEF Books, LedgerFollowsFacts
  <1>7. LatestDay'
    <2>1. CASE lastContacted < day
      BY <1>0, <1>1, <2>1 DEF Books, LatestDay, Advanced
    <2>2. CASE ~(lastContacted < day)
      <3>1. lastContacted' = lastContacted  BY <2>2 DEF Advanced
      <3>2. lastContacted # 0  BY <1>0, <2>2
      <3>3. PICK j \in Interactions : interaction[j] = lastContacted
        BY <1>0, <3>2 DEF Books, LatestDay
      <3>4. j # i  BY <1>1, <3>2, <3>3
      <3> QED BY <1>0, <1>1, <2>2, <3>1, <3>3, <3>4 DEF Books, LatestDay
    <2> QED BY <2>1, <2>2
  <1> QED BY <1>0, <1>2, <1>3, <1>5, <1>6, <1>7 DEF Books, Countable

\* The owner who earns is an owner.
LEMMA EarnType ==
    ASSUME TypeOK, NEW xp \in Nat, NEW day \in Nat
    PROVE  /\ [user EXCEPT !.xp = xp, !.lastActive = day] \in User
           /\ [user EXCEPT !.xp = xp, !.lastActive = day].xp = xp
  BY DEF TypeOK, User

\* The time since what was done under the key has passed.
LEMMA LongAgo ==
    ASSUME RewardsInv, NEW c \in Calls, call[c].pc = "locked", ~Live(c), Unwritten(c)
    PROVE  \A e \in effects[call[c].key] : call[c].now >= e.at + RecordTTL
  <1>0. /\ TypeOK /\ EffectsOK /\ SnapshotSound(c) /\ call[c].now \in Nat /\ RecordTTL \in Nat
        /\ call[c].key \in LogKeys /\ call[c].user = user
    BY CallFields, Constants DEF RewardsInv, SnapshotSound, Unwritten
  <1>1. Past(call[c].key, Seen(c), call[c].now)
    BY <1>0 DEF SnapshotSound
  <1>2. Seen(c).expiresAt \in Nat /\ Seen(c).expiresAt <= call[c].now
    BY <1>0, CallFields DEF Seen, Live, Record
  <1> SUFFICES ASSUME NEW e \in effects[call[c].key] PROVE call[c].now >= e.at + RecordTTL
    OBVIOUS
  <1>3. e.at \in Nat  BY <1>0 DEF EffectsOK, Effect
  <1> QED BY <1>0, <1>1, <1>2, <1>3 DEF Past

\* A log adds its fact, its ledger rows and its XP together.
LEMMA LogInv ==
    ASSUME RewardsInv, NEW c \in Calls, Log(c)
    PROVE  RewardsInv'
  <1> DEFINE k == call[c].key
             now == call[c].now
             done(i) == [at |-> now, request |-> call[c].request, result |-> i]
             row(i) == [request |-> call[c].request, result |-> i, expiresAt |-> now + RecordTTL]
  <1>0. /\ TypeOK /\ EffectsOK /\ call[c].pc = "locked" /\ ~Live(c) /\ Unwritten(c)
        /\ clock \in Nat /\ clock \in Days
        /\ RecordTTL \in Nat \ {0} /\ InteractionXp \in Nat \ {0} /\ FirstXp \in Nat
    BY LogWrites, Constants DEF RewardsInv, TypeOK
  <1>a. SnapshotSound(c) /\ CallSound(c)  BY DEF RewardsInv
  <1>b. k \in LogKeys /\ now \in Nat /\ now <= clock
    BY <1>0, <1>a DEF SnapshotSound, CallSound
  <1>c. call[c].request \in Request /\ call[c].request.day \in Nat /\ user.xp \in Nat
    BY <1>0, CallFields, UserFields
  <1>1. PICK i \in Interactions \ Logged, activityAt \in Nat, first \in Nat :
           /\ first = IF Unlocks # {} THEN FirstXp ELSE 0
           /\ interaction' = [interaction EXCEPT ![i] = call[c].request.day]
           /\ lastContacted' = Advanced(call[c].request.day)
           /\ achieved' = achieved \cup Unlocks
           /\ ledger' = ledger \cup {i} \cup Unlocks
           /\ user' = [user EXCEPT !.xp = @ + InteractionXp + first, !.lastActive = activityAt]
           /\ record' = [Cleaned(c) EXCEPT ![k] = row(i)]
           /\ effects' = [effects EXCEPT ![k] = @ \cup {done(i)}]
           /\ Tell(c, i)
    BY <1>0, <1>b, <1>c, LogWrites
  <1>2. UNCHANGED <<quest, feedback, clock, checkIns, paid, overlapped, awarded, dropped>>
    BY LogWrites
  <1>3. user' \in User /\ user'.xp = user.xp + InteractionXp + first
    <2> DEFINE xp == user.xp + InteractionXp + first
    <2>1. xp \in Nat  BY <1>0, <1>c
    <2>2. user' = [user EXCEPT !.xp = xp, !.lastActive = activityAt]  BY <1>1
    <2> HIDE DEF xp
    <2>3. user' \in User /\ user'.xp = xp  BY <1>0, <2>1, <2>2, EarnType
    <2> QED BY <2>3 DEF xp
  <1>4. done(i) \in Effect /\ row(i) \in Record
    BY <1>0, <1>b, <1>c DEF Effect, Record
  <1>5. PICK new \in Call : call' = [call EXCEPT ![c] = new] /\ new.pc = "answer"
    BY <1>0, <1>b, <1>c, <1>1, TellCall
  <1>6. call' \in [Calls -> Call] /\ \A d \in Calls \ {c} : call'[d] = call[d]
    BY <1>0, <1>b, <1>c, <1>5, CallSet
  <1>7. /\ effects'[k] = effects[k] \cup {done(i)}
        /\ \A l \in LogKeys \ {k} : effects'[l] = effects[l]
        /\ effects' \in [LogKeys -> SUBSET Effect]
    BY <1>0, <1>b, <1>c, <1>1, <1>4 DEF EffectsOK
  <1>8. /\ record' \in [LogKeys -> Record] /\ record'[k] = row(i)
        /\ \A l \in LogKeys \ {k} : record'[l] = Cleaned(c)[l]
    BY <1>0, <1>b, <1>c, <1>1, <1>4, CleanedSound
  <1>9. TypeOK'
    <2>1. interaction' \in [Interactions -> Nat] /\ lastContacted' \in Nat
      BY <1>0, <1>b, <1>c, <1>1 DEF TypeOK, Advanced
    <2>2. achieved' \in SUBSET Achievements
      BY <1>0, <1>b, <1>c, <1>1 DEF TypeOK, Unlocks, Achievements
    <2>3. ledger' \in SUBSET (Interactions \cup Quests \cup Achievements)
      BY <1>0, <1>b, <1>c, <1>1 DEF TypeOK, Unlocks, Achievements
    <2> QED BY <1>0, <1>b, <1>c, <1>2, <1>3, <1>6, <1>8, <2>1, <2>2, <2>3 DEF TypeOK
  <1>10. Books'
    <2>1. UNCHANGED <<quest, feedback, paid, awarded>>  BY <1>2
    <2> QED BY <1>0, <1>b, <1>c, <1>1, <1>3, <2>1, LogBooks
  <1>11. RecordsSound'
    <2> SUFFICES ASSUME NEW l \in LogKeys
                 PROVE  (Backed(l, record[l]) /\ Past(l, record[l], clock))'
      BY DEF RecordsSound
    <2>1. CASE l = k
      <3>1. Backed(l, record[l])'
        <4>1. /\ done(i) \in effects'[l] /\ done(i).request = record'[l].request
              /\ done(i).result = record'[l].result
          BY <1>7, <1>8, <2>1
        <4> QED BY <4>1 DEF Backed
      <3>2. ASSUME NEW e \in effects[k]
            PROVE  e.at + RecordTTL <= clock
        <4>1. e.at \in Nat  BY <1>0, <1>b, <1>c DEF EffectsOK, Effect
        <4> QED BY <1>0, <1>b, <1>c, <4>1, LongAgo
      <3>3. Past(l, record[l], clock)'
        <4>1. record'[l].expiresAt = now + RecordTTL /\ done(i).at = now /\ clock' = clock
          BY <1>2, <1>8, <2>1
        <4>2. \A e \in effects'[l] : e \in effects[k] \/ e.at = now
          BY <1>7, <2>1, <4>1
        <4> QED BY <1>0, <1>b, <3>2, <4>1, <4>2 DEF Past
      <3> QED BY <3>1, <3>3
    <2>2. CASE l # k
      <3>1. Backed(l, Cleaned(c)[l]) /\ Past(l, Cleaned(c)[l], clock)
        BY <1>0, <1>b, <1>c, CleanedSound
      <3> QED BY <1>2, <1>7, <1>8, <2>2, <3>1 DEF Backed, Past
    <2> QED BY <2>1, <2>2
  <1>12. ASSUME NEW d \in Calls PROVE (SnapshotSound(d) /\ CallSound(d))'
    <2>1. CASE d = c  BY <1>5, <2>1, PlainCall
    <2>2. CASE d # c
      <3>1. /\ user'.xp \in Nat /\ user'.xp >= user.xp /\ user'.xp > user.xp
            /\ clock' \in Nat /\ clock' >= clock
        BY <1>0, <1>b, <1>c, <1>2, <1>3
      <3>2. \A l \in LogKeys : effects[l] \subseteq effects'[l] /\ effects'[l] \subseteq Effect
        BY <1>0, <1>b, <1>c, <1>7
      <3> QED BY <1>6, <2>2, <3>1, <3>2, OthersSound
    <2> QED BY <2>1, <2>2
  <1>13. EffectsOK' /\ (clock \in Days)'
    BY <1>0, <1>b, <1>c, <1>2, <1>7 DEF EffectsOK, Days
  <1> QED BY <1>9, <1>10, <1>11, <1>12, <1>13 DEF RewardsInv

-----------------------------------------------------------------------------
(* Quests, check-ins, and time.                                            *)

\* A quest is completed, paid and fed back together.
LEMMA CompleteQuestInv ==
    ASSUME RewardsInv, NEW c \in Calls, CompleteQuest(c)
    PROVE  RewardsInv'
  <1> USE DEF logged, checked
  <1>0. /\ TypeOK /\ EffectsOK /\ Books /\ user.xp \in Nat /\ user.streak \in Nat /\ clock \in Nat
        /\ QuestXp \in Nat /\ None \notin Quests
    BY UserFields, Constants DEF RewardsInv, TypeOK
  <1>1. PICK q \in Quests, k \in QuestKeys, i \in Interactions :
           /\ feedback[k] = NoFeedback /\ quest[q].status = "pending"
           /\ quest' = [quest EXCEPT ![q].status = "completed"]
           /\ ledger' = ledger \cup {q}
           /\ user' = [user EXCEPT !.xp = @ + QuestXp, !.lastActive = clock]
           /\ feedback' = [feedback EXCEPT ![k] = [quest |-> q, evidence |-> i]]
           /\ call' = [call EXCEPT ![c] = QuestCall("answer", k, QuestRequest(q, i), q)]
    BY DEF CompleteQuest
  <1>2. UNCHANGED <<interaction, lastContacted, record, effects, achieved, clock, checkIns, paid, overlapped, awarded, dropped>>
    BY DEF CompleteQuest
  <1> DEFINE new == QuestCall("answer", k, QuestRequest(q, i), q)
  <1>3. new \in Call /\ new.pc = "answer"
    BY <1>0, QuestCallType
  <1>4. call' = [call EXCEPT ![c] = new]  BY <1>1
  <1> HIDE DEF new
  <1>5. call' \in [Calls -> Call] /\ \A d \in Calls \ {c} : call'[d] = call[d]
    BY <1>0, <1>3, <1>4, CallSet
  <1>6. user' \in User /\ user'.xp = user.xp + QuestXp
    <2> DEFINE xp == user.xp + QuestXp
    <2>1. xp \in Nat  BY <1>0
    <2>2. user' = [user EXCEPT !.xp = xp, !.lastActive = clock]  BY <1>1
    <2> HIDE DEF xp
    <2>3. user' \in User /\ user'.xp = xp  BY <1>0, <2>1, <2>2, EarnType
    <2> QED BY <2>3 DEF xp
  <1>7. /\ quest' \in [Quests -> Quest] /\ quest'[q].status = "completed"
        /\ \A p \in Quests \ {q} : quest'[p] = quest[p]
    BY <1>0, <1>1 DEF TypeOK, Quest
  <1>8. /\ feedback' \in [QuestKeys -> Feedback] /\ feedback'[k] = [quest |-> q, evidence |-> i]
        /\ \A l \in QuestKeys \ {k} : feedback'[l] = feedback[l]
    BY <1>0, <1>1 DEF TypeOK, Feedback
  <1>9. TypeOK' /\ EffectsOK' /\ (clock \in Days)'
    BY <1>0, <1>1, <1>2, <1>5, <1>6, <1>7, <1>8 DEF RewardsInv, TypeOK, EffectsOK, Days
  <1>10. Completed' = Completed \cup {q} /\ q \notin Completed /\ Logged' = Logged
    BY <1>1, <1>2, <1>7 DEF Completed, Logged
  <1>11. IsFiniteSet(Completed') /\ Cardinality(Completed') = Cardinality(Completed) + 1
    BY <1>0, <1>10, FS_AddElement DEF Books, Countable
  <1>12. XpAddsUp'
    <2>1. Cardinality(Logged) \in Nat /\ Cardinality(Completed) \in Nat
      BY <1>0, FS_CardinalityType DEF Books, Countable
    <2> DEFINE of == IF "first_interaction" \in achieved THEN FirstXp ELSE 0
               a == InteractionXp * Cardinality(Logged)
               b == QuestXp * Cardinality(Completed)
    <2>2. /\ QuestXp * (Cardinality(Completed) + 1) = b + QuestXp
          /\ a \in Nat /\ b \in Nat /\ of \in Nat /\ CheckInsWorth \in Nat
          /\ CheckInsWorth' = CheckInsWorth
      BY <1>0, <1>2, <2>1, WorthIsNat, Constants DEF TypeOK, Books, Countable, CheckInsWorth
    <2>3. user.xp = a + b + of + CheckInsWorth
      BY <1>0 DEF Books, XpAddsUp
    <2>4. user'.xp = a + (b + QuestXp) + of + CheckInsWorth
      <3> HIDE DEF a, b, of
      <3> QED BY <1>0, <1>6, <2>2, <2>3
    <2> QED BY <1>2, <1>10, <1>11, <2>2, <2>4 DEF XpAddsUp
  <1>13. LedgerFollowsFacts'
    <2>1. ledger' = Logged' \cup Completed' \cup (achieved' \cap {"first_interaction"})
      BY <1>0, <1>1, <1>2, <1>10 DEF Books, LedgerFollowsFacts
    <2>2. \A l \in QuestKeys : feedback[l].quest = q => FALSE
      BY <1>0, <1>10 DEF Books, LedgerFollowsFacts, NoFeedback
    <2>3. \A l \in QuestKeys : feedback'[l] # NoFeedback => feedback'[l].quest \in Completed'
      BY <1>0, <1>8, <1>10 DEF Books, LedgerFollowsFacts
    <2>4. ASSUME NEW p \in Completed'
          PROVE  \E m \in QuestKeys : \A l \in QuestKeys : feedback'[l].quest = p <=> m = l
      <3>1. CASE p = q
        BY <1>8, <2>2, <3>1
      <3>2. CASE p # q
        <4>1. p \in Completed /\ p \in Quests  BY <1>10, <3>2 DEF Completed
        <4>2. PICK m \in QuestKeys : \A l \in QuestKeys : feedback[l].quest = p <=> m = l
          BY <1>0, <4>1 DEF Books, LedgerFollowsFacts
        <4>3. m # k  BY <1>0, <1>1, <4>1, <4>2 DEF NoFeedback
        <4> QED BY <1>8, <3>2, <4>2, <4>3
      <3> QED BY <3>1, <3>2
    <2> QED BY <2>1, <2>3, <2>4 DEF LedgerFollowsFacts
  <1>14. Books'
    BY <1>0, <1>2, <1>10, <1>11, <1>12, <1>13 DEF Books, Countable, LatestDay
  <1>15. ASSUME NEW d \in Calls PROVE (SnapshotSound(d) /\ CallSound(d))'
    <2>1. CASE d = c  BY <1>3, <1>4, <2>1, PlainCall
    <2>2. CASE d # c
      <3>1. /\ user'.xp \in Nat /\ user'.xp >= user.xp /\ clock' \in Nat /\ clock' >= clock
            /\ effects' = effects
        BY <1>0, <1>2, <1>6
      <3> QED BY <1>0, <1>5, <2>2, <3>1, OthersSound DEF EffectsOK
    <2> QED BY <2>1, <2>2
  <1>16. RecordsSound'
    BY <1>2 DEF RewardsInv, RecordsSound, Backed, Past
  <1> QED BY <1>9, <1>14, <1>15, <1>16 DEF RewardsInv

\* A new quest is open and has no row anywhere.
LEMMA NewQuestInv ==
    ASSUME RewardsInv, NEW q \in Quests, NewQuest(q)
    PROVE  RewardsInv'
  <1> USE DEF logged, checked
  <1>0. TypeOK /\ EffectsOK /\ Books /\ user.xp \in Nat /\ clock \in Nat
    BY UserFields DEF RewardsInv, TypeOK
  <1>1. /\ quest[q].status = "none"
        /\ quest' = [quest EXCEPT ![q] = [status |-> "pending", createdAt |-> clock]]
        /\ UNCHANGED <<user, interaction, lastContacted, record, effects, achieved, ledger, feedback,
                       call, clock, checkIns, paid, overlapped, awarded, dropped>>
    BY DEF NewQuest
  <1>2. /\ quest' \in [Quests -> Quest] /\ quest'[q].status = "pending"
        /\ \A p \in Quests \ {q} : quest'[p] = quest[p]
    BY <1>0, <1>1 DEF TypeOK, Quest
  <1>3. Completed' = Completed /\ Logged' = Logged
    BY <1>1, <1>2 DEF Completed, Logged
  <1>4. TypeOK' /\ EffectsOK' /\ (clock \in Days)'
    BY <1>0, <1>1, <1>2 DEF RewardsInv, TypeOK, EffectsOK, Days
  <1>5. Books'
    BY <1>0, <1>1, <1>3 DEF Books, Countable, XpAddsUp, CheckInsWorth, LedgerFollowsFacts, LatestDay
  <1>6. RecordsSound'
    BY <1>1 DEF RewardsInv, RecordsSound, Backed, Past
  <1>7. ASSUME NEW d \in Calls PROVE (SnapshotSound(d) /\ CallSound(d))'
    BY <1>0, <1>1, OthersSound DEF EffectsOK
  <1> QED BY <1>4, <1>5, <1>6, <1>7 DEF RewardsInv

\* The variables of check-ins keep their types.
CheckedType ==
    /\ checkIns \in SUBSET Days /\ paid \in SUBSET Payment /\ overlapped \in SUBSET Days
    /\ awarded \in BOOLEAN /\ dropped \in BOOLEAN

\* A step of a check-in: XP is paid, a day or an achievement put on record.
LEMMA CheckInMoves ==
    ASSUME RewardsInv, NEW c \in Calls, NEW new \in Call, call' = [call EXCEPT ![c] = new],
           (SnapshotSound(c) /\ CallSound(c))', NEW xp \in Nat,
           user' \in User, user'.xp = user.xp + xp,
           IsFiniteSet(paid'), CheckInsWorth' = CheckInsWorth + xp, CheckedType',
           achieved' \in SUBSET Achievements,
           achieved' \cap {"first_interaction"} = achieved \cap {"first_interaction"},
           UNCHANGED <<logged, ledger, quested, clock>>
    PROVE  RewardsInv'
  <1> USE DEF logged, quested
  <1>0. TypeOK /\ EffectsOK /\ Books /\ user.xp \in Nat /\ clock \in Nat
    BY UserFields DEF RewardsInv, TypeOK
  <1>1. call' \in [Calls -> Call] /\ \A d \in Calls \ {c} : call'[d] = call[d]
    BY <1>0, CallSet
  <1>2. user'.xp \in Nat /\ user'.xp >= user.xp
    BY <1>0
  <1>3. TypeOK' /\ EffectsOK' /\ (clock \in Days)'
    BY <1>0, <1>1 DEF RewardsInv, TypeOK, EffectsOK, Days, CheckedType
  <1>4. Books'
    BY <1>0, <1>2, BooksKept
  <1>5. RecordsSound'
    BY DEF RewardsInv, RecordsSound, Backed, Past
  <1>6. ASSUME NEW d \in Calls PROVE (SnapshotSound(d) /\ CallSound(d))'
    <2>1. CASE d = c  BY <2>1
    <2>2. CASE d # c
      BY <1>0, <1>1, <1>2, <2>2, OthersSound DEF EffectsOK
    <2> QED BY <2>1, <2>2
  <1> QED BY <1>3, <1>4, <1>5, <1>6 DEF RewardsInv

\* A step of a check-in that pays nothing.
LEMMA UnpaidMoves ==
    ASSUME RewardsInv, NEW c \in Calls, NEW new \in Call, call' = [call EXCEPT ![c] = new],
           (SnapshotSound(c) /\ CallSound(c))', CheckedType',
           achieved' \in SUBSET Achievements,
           achieved' \cap {"first_interaction"} = achieved \cap {"first_interaction"},
           UNCHANGED <<user, paid, awarded, logged, ledger, quested, clock>>
    PROVE  RewardsInv'
  <1>1. /\ user' \in User /\ user.xp \in Nat /\ IsFiniteSet(paid') /\ CheckInsWorth \in Nat
        /\ CheckInsWorth' = CheckInsWorth
    BY UserFields, WorthIsNat DEF RewardsInv, TypeOK, Books, Countable, CheckInsWorth
  <1>2. user'.xp = user.xp + 0 /\ CheckInsWorth' = CheckInsWorth + 0 /\ 0 \in Nat
    BY <1>1
  <1> QED BY <1>1, <1>2, CheckInMoves

\* A check-in reads the owner.
LEMMA ReadUserInv ==
    ASSUME RewardsInv, NEW c \in Calls, ReadUser(c)
    PROVE  RewardsInv'
  <1>0. TypeOK /\ clock \in Days /\ user \in User /\ user.xp \in Nat /\ clock \in Nat
    BY UserFields DEF RewardsInv, TypeOK
  <1>1. UNCHANGED <<user, logged, achieved, ledger, quested, clock, paid, overlapped, awarded, dropped>>
    BY DEF ReadUser
  <1>a. /\ achieved' \in SUBSET Achievements /\ (checkIns' \in SUBSET Days => CheckedType')
        /\ achieved' \cap {"first_interaction"} = achieved \cap {"first_interaction"}
        /\ UNCHANGED <<user, paid, awarded, logged, ledger, quested, clock>>
    BY <1>0, <1>1 DEF TypeOK, CheckedType
  <1>2. CASE ActiveToday
    <2>1. checkIns' = checkIns \cup {clock} /\ call' = call
      BY <1>2 DEF ReadUser
    <2>2. call' = [call EXCEPT ![c] = call[c]] /\ call[c] \in Call
      BY <1>0, <2>1 DEF TypeOK
    <2>3. (SnapshotSound(c) /\ CallSound(c))'
      BY <1>0, <1>1, <2>1, OthersSound DEF RewardsInv, EffectsOK, logged
    <2>4. checkIns' \in SUBSET Days  BY <1>0, <2>1 DEF TypeOK
    <2> QED BY <1>a, <2>2, <2>3, <2>4, UnpaidMoves
  <1>3. CASE ~ActiveToday
    <2> DEFINE new == [NoCall EXCEPT !.pc = "checkin", !.since = clock, !.now = clock, !.user = user]
    <2>1. call' = [call EXCEPT ![c] = new] /\ checkIns' = checkIns
      BY <1>3 DEF ReadUser
    <2>2. new \in Call /\ new.pc = "checkin" /\ new.now = clock
      BY <1>0, NoCallType DEF Call, NoCall
    <2> HIDE DEF new
    <2>3. call'[c] = new  BY <1>0, <2>1, <2>2, CallSet
    <2>4. (SnapshotSound(c) /\ CallSound(c))'
      BY <1>0, <1>1, <2>2, <2>3 DEF SnapshotSound, CallSound, Days
    <2>5. checkIns' \in SUBSET Days  BY <1>0, <2>1 DEF TypeOK
    <2> QED BY <1>a, <2>1, <2>2, <2>4, <2>5, UnpaidMoves
  <1> QED BY <1>2, <1>3

\* What a check-in computes are numbers.
LEMMA StreakType ==
    ASSUME TypeOK, NEW c \in Calls
    PROVE  /\ NewStreak(c) \in Nat /\ Award(NewStreak(c)) \in Nat \ {0}
           /\ (NewStreak(c) >= StreakTarget) \in BOOLEAN
  <1>1. call[c].user.streak \in Nat  BY CallFields DEF User
  <1>2. NewStreak(c) \in Nat  BY <1>1 DEF NewStreak
  <1> QED BY <1>2, Constants DEF Award

\* The payment that a check-in adds.
Paid(c) == [day |-> call[c].now, long |-> NewStreak(c) >= StreakTarget, nth |-> Cardinality(paid) + 1]

\* What a check-in writes.
LEMMA CheckInWrites ==
    ASSUME RewardsInv, CheckInsOK, NEW c \in Calls, CheckIn(c)
    PROVE  /\ call[c].pc = "checkin" /\ call[c].now \in Days /\ call[c].now <= clock
           /\ user' \in User /\ user'.xp = user.xp + Award(NewStreak(c))
           /\ user'.lastActive = call[c].now
           /\ Paid(c) \in Payment /\ Paid(c) \notin paid /\ Paid(c).day = call[c].now
           /\ Paid(c).nth = Cardinality(paid) + 1 /\ paid' = paid \cup {Paid(c)}
           /\ Cardinality(paid) \in Nat /\ Cardinality(paid') = Cardinality(paid) + 1
           /\ IsFiniteSet(paid') /\ CheckInsWorth' = CheckInsWorth + Award(NewStreak(c))
           /\ checkIns' = checkIns \cup {call[c].now}
           /\ overlapped' = IF \E d \in Calls \ {c} : call[d].pc = "checkin"
                            THEN overlapped \cup {call[c].now} ELSE overlapped
           /\ UNCHANGED <<logged, achieved, ledger, quested, clock, awarded, dropped>>
  <1> DEFINE streak == NewStreak(c)
             xp == Award(streak)
             now == call[c].now
  <1>0. /\ TypeOK /\ streak \in Nat /\ xp \in Nat /\ user.xp \in Nat /\ clock \in Nat /\ clock \in Days
        /\ call[c].pc = "checkin" /\ now \in Nat /\ (streak >= StreakTarget) \in BOOLEAN
        /\ IsFiniteSet(paid) /\ Cardinality(paid) \in Nat
    BY StreakType, UserFields, CallFields, FS_CardinalityType
       DEF RewardsInv, CheckIn, TypeOK, Books, Countable
  <1>1. now \in Days /\ now <= clock
    <2>1. now \in 1 .. clock /\ clock <= MaxClock /\ MaxClock \in Nat
      BY <1>0, Constants DEF RewardsInv, CallSound, Days
    <2> QED BY <1>0, <2>1 DEF Days
  <1>2. /\ user' = [xp |-> user.xp + xp, streak |-> streak, lastActive |-> now]
        /\ paid' = paid \cup {Paid(c)} /\ checkIns' = checkIns \cup {now}
        /\ overlapped' = IF \E d \in Calls \ {c} : call[d].pc = "checkin"
                         THEN overlapped \cup {now} ELSE overlapped
        /\ UNCHANGED <<logged, achieved, ledger, quested, clock, awarded, dropped>>
    BY DEF CheckIn, XpAfter, Paid
  <1>3. /\ Paid(c) \in Payment /\ Paid(c).day = now /\ Paid(c).nth = Cardinality(paid) + 1
        /\ Paid(c).long = (streak >= StreakTarget)
    BY <1>0, <1>1 DEF Paid, Payment
  <1>4. Paid(c) \notin paid
    BY <1>0, <1>3 DEF CheckInsOK, PaymentsOK
  <1>5. user' \in User /\ user'.xp = user.xp + xp /\ user'.lastActive = now
    <2> HIDE DEF streak, xp, now
    <2> QED BY <1>0, <1>2 DEF User
  <1>6. /\ IsFiniteSet(paid') /\ Cardinality(paid') = Cardinality(paid) + 1
        /\ CheckInsWorth' = CheckInsWorth + (CheckInXp + IF Paid(c).long THEN StreakBonus ELSE 0)
    <2>1. Paid(c).long \in BOOLEAN
      BY <1>0, <1>3
    <2> QED BY <1>0, <1>2, <1>4, <2>1, Paying
  <1>7. xp = CheckInXp + IF Paid(c).long THEN StreakBonus ELSE 0
    BY <1>3 DEF Award
  <1> QED BY <1>0, <1>1, <1>2, <1>3, <1>4, <1>5, <1>6, <1>7

\* A check-in pays for the day.
LEMMA CheckInInv ==
    ASSUME RewardsInv, CheckInsOK, NEW c \in Calls, CheckIn(c)
    PROVE  RewardsInv'
  <1> DEFINE xp == Award(NewStreak(c))
  <1>0. TypeOK /\ xp \in Nat
    BY StreakType DEF RewardsInv
  <1>1. \E new \in Call : call' = [call EXCEPT ![c] = new] /\ new.pc \in {"unlock", "idle"}
    <2>1. CASE Leave(c)  BY <1>0, <2>1, LeaveCall
    <2>2. CASE call' = [call EXCEPT ![c] = [NoCall EXCEPT !.pc = "unlock", !.since = call[c].since]]
      <3>1. /\ [NoCall EXCEPT !.pc = "unlock", !.since = call[c].since] \in Call
            /\ [NoCall EXCEPT !.pc = "unlock", !.since = call[c].since].pc = "unlock"
        BY <1>0, NoCallType, CallFields DEF Call, NoCall
      <3> QED BY <2>2, <3>1
    <2> QED BY <2>1, <2>2 DEF CheckIn
  <1>2. PICK new \in Call : call' = [call EXCEPT ![c] = new] /\ new.pc \in {"unlock", "idle"}
    BY <1>1
  <1>3. (SnapshotSound(c) /\ CallSound(c))'  BY <1>2, PlainCall
  <1>4. CheckedType' /\ achieved' \in SUBSET Achievements
    BY <1>0, CheckInWrites DEF TypeOK, CheckedType
  <1>5. /\ user' \in User /\ user'.xp = user.xp + xp /\ IsFiniteSet(paid')
        /\ CheckInsWorth' = CheckInsWorth + xp
        /\ UNCHANGED <<logged, achieved, ledger, quested, clock>>
    BY CheckInWrites
  <1> HIDE DEF xp
  <1> QED BY <1>0, <1>2, <1>3, <1>4, <1>5, CheckInMoves

\* An achievement is unlocked once.
LEMMA UnlockStreakInv ==
    ASSUME RewardsInv, NEW c \in Calls, UnlockStreak(c)
    PROVE  RewardsInv'
  <1>0. /\ TypeOK
        /\ UNCHANGED <<user, logged, ledger, quested, clock, paid, awarded>> /\ CheckedType'
    BY DEF RewardsInv, TypeOK, UnlockStreak, checked, CheckedType
  <1>1. \E new \in Call : call' = [call EXCEPT ![c] = new] /\ new.pc \in {"idle", "award"}
    <2>1. CASE Leave(c)  BY <1>0, <2>1, LeaveCall
    <2>2. CASE call' = [call EXCEPT ![c].pc = "award"]
      <3>1. /\ [call[c] EXCEPT !.pc = "award"] \in Call
            /\ [call[c] EXCEPT !.pc = "award"].pc = "award"
        BY <1>0, CallFields DEF Call
      <3> QED BY <1>0, <2>2, <3>1 DEF TypeOK
    <2> QED BY <2>1, <2>2 DEF UnlockStreak
  <1>2. PICK new \in Call : call' = [call EXCEPT ![c] = new] /\ new.pc \in {"idle", "award"}
    BY <1>1
  <1>3. /\ achieved' \in SUBSET Achievements
        /\ achieved' \cap {"first_interaction"} = achieved \cap {"first_interaction"}
    BY <1>0 DEF UnlockStreak, TypeOK, Achievements
  <1>4. (SnapshotSound(c) /\ CallSound(c))'  BY <1>2, PlainCall
  <1> QED BY <1>0, <1>2, <1>3, <1>4, UnpaidMoves

\* The bonus of an achievement follows its row.
LEMMA AwardStreakInv ==
    ASSUME RewardsInv, CheckInsOK, NEW c \in Calls, AwardStreak(c)
    PROVE  RewardsInv'
  <1>0. /\ TypeOK /\ user.xp \in Nat /\ StreakXp \in Nat /\ Leave(c) /\ call[c].pc = "award"
        /\ UNCHANGED <<logged, achieved, ledger, quested, clock, checkIns, paid, overlapped, dropped>>
        /\ awarded' = TRUE /\ user' = [user EXCEPT !.xp = @ + StreakXp]
    BY UserFields, Constants DEF RewardsInv, AwardStreak
  <1>1. user' \in User /\ user'.xp = user.xp + StreakXp
    BY <1>0 DEF TypeOK, User
  <1>2. (SnapshotSound(c) /\ CallSound(c))'  BY <1>0, LeaveCall, PlainCall
  <1>3. CheckedType' /\ achieved' \in SUBSET Achievements
    BY <1>0 DEF TypeOK, CheckedType
  <1>4. IsFiniteSet(paid') /\ CheckInsWorth' = CheckInsWorth + StreakXp
    <2> DEFINE n == CheckInXp * Cardinality(paid) + StreakBonus * Cardinality({p \in paid : p.long})
    <2>1. ~awarded /\ IsFiniteSet(paid) /\ CheckInsWorth \in Nat
      BY <1>0, WorthIsNat DEF CheckInsOK, AwardsOK, RewardsInv, Books, Countable
    <2>2. CheckInsWorth = n + 0 /\ CheckInsWorth' = n + StreakXp
      BY <1>0, <2>1 DEF CheckInsWorth
    <2>3. n \in Int
      <3> DEFINE long == {p \in paid : p.long}
      <3>1. IsFiniteSet(long)
        BY <2>1, FS_Subset
      <3>2. Cardinality(paid) \in Nat /\ Cardinality(long) \in Nat
        BY <2>1, <3>1, FS_CardinalityType
      <3> HIDE DEF long
      <3>3. CheckInXp * Cardinality(paid) \in Nat /\ StreakBonus * Cardinality(long) \in Nat
        BY <3>2, Constants
      <3>4. CheckInXp * Cardinality(paid) + StreakBonus * Cardinality(long) \in Int
        BY <3>3
      <3> QED BY <3>4 DEF long
    <2> HIDE DEF n
    <2> QED BY <1>0, <2>1, <2>2, <2>3
  <1> QED BY <1>0, <1>1, <1>2, <1>3, <1>4, LeaveCall, CheckInMoves

\* Records run out and everything else stays.
LEMMA TickInv ==
    ASSUME RewardsInv, Tick
    PROVE  RewardsInv'
  <1> USE DEF logged, quested, checked
  <1>0. TypeOK /\ EffectsOK /\ user.xp \in Nat /\ clock \in Nat /\ clock \in Days /\ MaxClock \in Nat
    BY UserFields, Constants DEF RewardsInv, TypeOK
  <1>1. /\ clock' = clock + 1 /\ clock < MaxClock
        /\ UNCHANGED <<user, interaction, lastContacted, record, effects, achieved, ledger, quest,
                       feedback, call, checkIns, paid, overlapped, awarded, dropped>>
    BY DEF Tick
  <1>2. clock' \in Nat /\ clock' >= clock /\ (clock \in Days)'
    BY <1>0, <1>1 DEF Days
  <1>3. TypeOK' /\ EffectsOK'
    BY <1>0, <1>1, <1>2 DEF TypeOK, EffectsOK
  <1>4. Books'
    BY <1>1 DEF RewardsInv, Books, Countable, XpAddsUp, CheckInsWorth, LedgerFollowsFacts, LatestDay,
                Logged, Completed
  <1>5. RecordsSound'
    <2> SUFFICES ASSUME NEW k \in LogKeys
                 PROVE  (Backed(k, record[k]) /\ Past(k, record[k], clock))'
      BY DEF RecordsSound
    <2>1. Backed(k, record[k])'  BY <1>1 DEF RewardsInv, RecordsSound, Backed
    <2>2. Past(k, record[k], clock)  BY DEF RewardsInv, RecordsSound
    <2>3. \A e \in effects[k] : e.at \in Nat  BY <1>0 DEF EffectsOK, Effect
    <2>4. RecordTTL \in Nat  BY Constants
    <2>5. Past(k, record[k], clock)'  BY <1>0, <1>1, <2>2, <2>3, <2>4 DEF Past
    <2> QED BY <2>1, <2>5
  <1>6. ASSUME NEW d \in Calls PROVE (SnapshotSound(d) /\ CallSound(d))'
    BY <1>0, <1>1, <1>2, OthersSound DEF EffectsOK
  <1> QED BY <1>2, <1>3, <1>4, <1>5, <1>6 DEF RewardsInv

-----------------------------------------------------------------------------
(* A day is paid once, and a streak rewarded.                              *)

\* A step of a log or of a quest: the call neither checks in nor awards, before or after,
\* and what it locks it locks now.
LEMMA OtherCalls ==
    ASSUME RewardsInv, NEW c \in Calls,
           \/ Begin(c) \/ Lock(c) \/ Replay(c) \/ RefuseKey(c) \/ Log(c) \/ Retry(c)
           \/ CompleteQuest(c) \/ ReplayQuest(c) \/ LoseRace(c) \/ ResolveRace(c)
    PROVE  /\ \A d \in Calls \ {c} : call'[d] = call[d]
           /\ call[c].pc # "award"
           /\ \/ call'[c].pc \in {"idle", "waiting", "race", "answer"}
              \/ call'[c].pc = "locked" /\ call'[c].now = clock
           /\ UNCHANGED <<checked, clock>>
  <1>0. call \in [Calls -> Call]
    BY DEF RewardsInv, TypeOK
  <1>1. ASSUME Leave(c) PROVE call'[c].pc = "idle" /\ \A d \in Calls \ {c} : call'[d] = call[d]
    BY <1>0, <1>1 DEF Leave, NoCall
  <1>2. ASSUME NEW z, Tell(c, z)
        PROVE  call'[c].pc = "answer" /\ \A d \in Calls \ {c} : call'[d] = call[d]
    BY <1>0, <1>2 DEF Tell, NoCall
  <1>3. ASSUME NEW k, NEW q, NEW t, NEW n, Attempt(c, k, q, t, n)
        PROVE  call'[c].pc = "waiting" /\ \A d \in Calls \ {c} : call'[d] = call[d]
    BY <1>0, <1>3 DEF Attempt, NoCall
  <1>4. ASSUME NEW pc, NEW k, NEW q, NEW z, call' = [call EXCEPT ![c] = QuestCall(pc, k, q, z)]
        PROVE  call'[c].pc = pc /\ \A d \in Calls \ {c} : call'[d] = call[d]
    BY <1>0, <1>4 DEF QuestCall, NoCall
  <1>5. CASE Begin(c) \/ Retry(c)
    BY <1>1, <1>3, <1>5 DEF Begin, Retry
  <1>6. CASE Lock(c)
    <2>1. call[c] \in Call
      BY <1>0
    <2>2. call' = [call EXCEPT ![c].pc = "locked", ![c].now = clock]
      BY <1>6 DEF Lock
    <2>3. call'[c].pc = "locked" /\ call'[c].now = clock
      BY <1>0, <2>1, <2>2 DEF Call
    <2> QED BY <1>0, <1>6, <2>2, <2>3 DEF Lock
  <1>7. CASE Replay(c) \/ Log(c)
    BY <1>2, <1>7 DEF Replay, Log
  <1>8. CASE RefuseKey(c)
    BY <1>1, <1>8 DEF RefuseKey
  <1>9. CASE CompleteQuest(c) \/ ReplayQuest(c) \/ LoseRace(c)
    BY <1>4, <1>9 DEF CompleteQuest, ReplayQuest, LoseRace, checked
  <1>10. CASE ResolveRace(c)
    BY <1>1, <1>2, <1>10 DEF ResolveRace
  <1> QED BY <1>5, <1>6, <1>7, <1>8, <1>9, <1>10

\* A step without a payment: whoever starts to check in was not active today.
LEMMA PaymentsKept ==
    ASSUME RewardsInv, PaymentsOK, UNCHANGED <<paid, overlapped, clock>>,
           user.xp <= user'.xp, user'.xp \in Nat,
           (\E p \in paid : p.day = clock) => user'.lastActive \in {user.lastActive, clock},
           \A d \in Calls : \/ call'[d] = call[d] \/ call'[d].pc \notin {"checkin", "locked"}
                            \/ call'[d].pc = "locked" /\ call'[d].now = clock
                            \/ /\ call'[d].pc = "checkin" /\ call'[d].now = clock
                               /\ user.lastActive # clock
    PROVE  PaymentsOK'
  <1>0. TypeOK /\ clock \in Nat /\ user.xp \in Nat /\ \A p \in paid : p.day \in Nat
    BY UserFields DEF RewardsInv, TypeOK, Payment, Days
  <1>1. \A p \in paid : /\ p.day <= clock /\ p.nth <= Cardinality(paid)
                        /\ p.day = clock => user'.lastActive = clock \/ p.day \in overlapped
    BY DEF PaymentsOK
  <1>2. ASSUME NEW p \in paid, NEW d \in Calls, call'[d].pc = "checkin", call'[d].now <= p.day
        PROVE  p.day \in overlapped
    <2>1. CASE call'[d] = call[d]
      BY <1>2, <2>1 DEF PaymentsOK
    <2>2. CASE call'[d].now = clock /\ user.lastActive # clock
      BY <1>0, <1>1, <1>2, <2>2 DEF PaymentsOK
    <2> QED BY <1>2, <2>1, <2>2
  <1>3. ASSUME NEW p \in paid, NEW d \in Calls, call'[d].pc = "locked",
               call'[d].user.xp = user'.xp, p.day = clock
        PROVE  call'[d].now = clock
    <2>1. CASE call'[d] = call[d]
      <3>1. call[d].user.xp <= user.xp /\ call[d].user.xp \in Nat
        BY <1>0, <1>3, <2>1, CallFields DEF RewardsInv, SnapshotSound
      <3>2. call[d].user.xp = user.xp
        BY <1>0, <1>3, <2>1, <3>1
      <3> QED BY <1>3, <2>1, <3>2 DEF PaymentsOK
    <2> QED BY <1>3, <2>1
  <1> QED BY <1>1, <1>2, <1>3 DEF PaymentsOK, PaidOnceADay

\* A step that neither unlocks nor awards.
LEMMA AwardsKept ==
    ASSUME AwardsOK, awarded' = awarded, dropped => dropped',
           "streak_starter" \in achieved' <=> "streak_starter" \in achieved,
           \A d \in Calls : call'[d].pc = "award" <=> call[d].pc = "award"
    PROVE  AwardsOK'
  BY DEF AwardsOK, StreakIsRewarded

\* Logs, quests and their replays.
LEMMA OthersKeepCheckIns ==
    ASSUME RewardsInv, CheckInsOK, NEW c \in Calls,
           \/ Begin(c) \/ Lock(c) \/ Replay(c) \/ RefuseKey(c) \/ Log(c) \/ Retry(c)
           \/ CompleteQuest(c) \/ ReplayQuest(c) \/ LoseRace(c) \/ ResolveRace(c)
    PROVE  CheckInsOK'
  <1>0. TypeOK /\ clock \in Nat /\ user.xp \in Nat /\ user \in User
    BY UserFields DEF RewardsInv, TypeOK
  <1>1. /\ \A d \in Calls \ {c} : call'[d] = call[d]
        /\ call[c].pc # "award"
        /\ \/ call'[c].pc \in {"idle", "waiting", "race", "answer"}
           \/ call'[c].pc = "locked" /\ call'[c].now = clock
        /\ UNCHANGED <<checked, clock>>
    BY OtherCalls
  <1>2. /\ user.xp <= user'.xp /\ user'.xp \in Nat
        /\ (\E p \in paid : p.day = clock) => user'.lastActive \in {user.lastActive, clock}
        /\ "streak_starter" \in achieved' <=> "streak_starter" \in achieved
    <2>1. CASE Log(c)
      <3>1. PICK t \in call[c].now .. clock, first \in Nat :
                /\ user' = [user EXCEPT !.xp = @ + InteractionXp + first, !.lastActive = t]
                /\ achieved' = achieved \cup Unlocks
        BY <2>1, Constants DEF Log
      <3>2. /\ InteractionXp \in Nat /\ call[c].pc = "locked" /\ call[c].user = user
            /\ call[c].now \in Nat
        BY <1>0, <2>1, Constants, CallFields DEF Log, Unwritten
      <3>3. user'.xp = user.xp + InteractionXp + first /\ user'.lastActive = t
        BY <1>0, <3>1 DEF User
      <3>4. (\E p \in paid : p.day = clock) => t = clock
        BY <1>0, <3>1, <3>2 DEF CheckInsOK, PaymentsOK
      <3> QED BY <1>0, <3>1, <3>2, <3>3, <3>4 DEF Unlocks
    <2>2. CASE CompleteQuest(c)
      <3>1. user' = [user EXCEPT !.xp = @ + QuestXp, !.lastActive = clock] /\ achieved' = achieved
        BY <2>2 DEF CompleteQuest
      <3>2. QuestXp \in Nat
        BY Constants
      <3>3. user'.xp = user.xp + QuestXp /\ user'.lastActive = clock
        BY <1>0, <3>1 DEF User
      <3> QED BY <1>0, <3>1, <3>2, <3>3
    <2>3. CASE ~Log(c) /\ ~CompleteQuest(c)
      <3>1. user' = user /\ achieved' = achieved
        BY <2>3 DEF Begin, Lock, Replay, RefuseKey, Retry, ReplayQuest, LoseRace, ResolveRace
      <3> QED BY <1>0, <3>1
    <2> QED BY <2>1, <2>2, <2>3
  <1>3. UNCHANGED <<paid, overlapped, awarded, dropped, clock>>
    BY <1>1 DEF checked
  <1>4. PaymentsOK'
    <2>1. \A d \in Calls : \/ call'[d] = call[d] \/ call'[d].pc \notin {"checkin", "locked"}
                           \/ call'[d].pc = "locked" /\ call'[d].now = clock
      BY <1>1
    <2> QED BY <1>2, <1>3, <2>1, PaymentsKept DEF CheckInsOK
  <1>5. AwardsOK'
    BY <1>1, <1>2, <1>3, AwardsKept DEF CheckInsOK
  <1> QED BY <1>4, <1>5 DEF CheckInsOK

\* A check-in begins only on a day of which nothing has been paid, or payments overlapped.
LEMMA ReadUserKeepsCheckIns ==
    ASSUME RewardsInv, CheckInsOK, NEW c \in Calls, ReadUser(c)
    PROVE  CheckInsOK'
  <1>0. TypeOK /\ user.xp \in Nat /\ call \in [Calls -> Call] /\ call[c].pc = "idle"
    BY UserFields DEF RewardsInv, TypeOK, ReadUser
  <1>1. UNCHANGED <<user, achieved, clock, paid, overlapped, awarded, dropped>>
    BY DEF ReadUser
  <1>2. \A d \in Calls : \/ call'[d] = call[d]
                         \/ /\ call'[d].pc = "checkin" /\ call'[d].now = clock
                            /\ user.lastActive # clock /\ call[d].pc = "idle"
    <2>1. CASE ActiveToday
      BY <2>1 DEF ReadUser
    <2>2. CASE ~ActiveToday
      <3>1. call'[c].pc = "checkin" /\ call'[c].now = clock /\ user.lastActive # clock
        BY <1>0, <2>2 DEF ReadUser, ActiveToday, NoCall
      <3>2. \A d \in Calls \ {c} : call'[d] = call[d]
        BY <1>0, <2>2 DEF ReadUser
      <3> QED BY <1>0, <3>1, <3>2
    <2> QED BY <2>1, <2>2
  <1>3. PaymentsOK'
    BY <1>0, <1>1, <1>2, PaymentsKept DEF CheckInsOK
  <1>4. AwardsOK'
    BY <1>1, <1>2, AwardsKept DEF CheckInsOK
  <1> QED BY <1>3, <1>4 DEF CheckInsOK

\* A check-in pays for its day.
LEMMA CheckInKeepsCheckIns ==
    ASSUME RewardsInv, CheckInsOK, NEW c \in Calls, CheckIn(c)
    PROVE  CheckInsOK'
  <1> DEFINE new == Paid(c)
             day == call[c].now
             n == Cardinality(paid)
  <1>0. /\ TypeOK /\ clock \in Nat /\ user.xp \in Nat /\ \A p \in paid : p.day \in Nat /\ p.nth \in Nat
        /\ call \in [Calls -> Call] /\ Award(NewStreak(c)) \in Nat \ {0}
    BY UserFields, StreakType DEF RewardsInv, TypeOK, Payment, Days
  <1>1. /\ call[c].pc = "checkin" /\ day \in Days /\ day <= clock
        /\ user'.xp = user.xp + Award(NewStreak(c)) /\ user'.lastActive = day
        /\ new.day = day /\ new.nth = n + 1 /\ paid' = paid \cup {new}
        /\ n \in Nat /\ Cardinality(paid') = n + 1
        /\ overlapped' = IF \E d \in Calls \ {c} : call[d].pc = "checkin"
                         THEN overlapped \cup {day} ELSE overlapped
        /\ UNCHANGED <<achieved, clock, awarded, dropped>>
    BY CheckInWrites
  <1>2. /\ call'[c].pc \in {"unlock", "idle"}
        /\ \A d \in Calls \ {c} : call'[d] = call[d]
    <2>1. CASE Leave(c)
      BY <1>0, <2>1 DEF Leave, NoCall
    <2>2. CASE call' = [call EXCEPT ![c] = [NoCall EXCEPT !.pc = "unlock", !.since = call[c].since]]
      BY <1>0, <2>2 DEF NoCall
    <2> QED BY <2>1, <2>2 DEF CheckIn
  <1> HIDE DEF new, day, n
  <1>3. overlapped \subseteq overlapped' /\ day \in Nat
    BY <1>1 DEF Days
  <1>4. \A p \in paid : day <= p.day => p.day \in overlapped
    BY <1>0, <1>1 DEF CheckInsOK, PaymentsOK, day
  <1>5. \A p \in paid' : p.day <= clock' /\ p.nth <= Cardinality(paid')
    <2>1. \A p \in paid : p.day <= clock /\ p.nth <= n
      BY DEF CheckInsOK, PaymentsOK, n
    <2> QED BY <1>0, <1>1, <2>1
  <1>6. \A p \in paid' : p.day = clock' => user'.lastActive = clock' \/ p.day \in overlapped'
    <2> SUFFICES ASSUME NEW p \in paid', p.day = clock
                 PROVE  day = clock \/ p.day \in overlapped
      BY <1>1, <1>3
    <2> QED BY <1>0, <1>1, <1>3, <1>4
  <1>7. ASSUME NEW p \in paid', NEW d \in Calls, call'[d].pc = "checkin", call'[d].now <= p.day
        PROVE  p.day \in overlapped'
    <2>1. d # c /\ call'[d] = call[d]
      BY <1>2, <1>7
    <2>2. CASE p = new
      BY <1>1, <1>7, <2>1, <2>2
    <2>3. CASE p \in paid
      BY <1>3, <1>7, <2>1, <2>3 DEF CheckInsOK, PaymentsOK
    <2> QED BY <1>1, <2>2, <2>3
  <1>8. ASSUME NEW d \in Calls, call'[d].pc = "locked"  PROVE call'[d].user.xp # user'.xp
    <2>1. d # c /\ call'[d] = call[d]
      BY <1>2, <1>8
    <2>2. call[d].user.xp <= user.xp /\ call[d].user.xp \in Nat
      BY <1>0, <1>8, <2>1, CallFields DEF RewardsInv, SnapshotSound
    <2> QED BY <1>0, <1>1, <2>1, <2>2
  <1>9. PaidOnceADay'
    <2> SUFFICES ASSUME NEW p \in paid', NEW q \in paid', p.day = q.day, p # q
                 PROVE  p.day \in overlapped'
      BY DEF PaidOnceADay
    <2>1. CASE p \in paid /\ q \in paid
      BY <1>3, <2>1 DEF CheckInsOK, PaymentsOK, PaidOnceADay
    <2>2. CASE p = new /\ q \in paid
      BY <1>0, <1>1, <1>3, <1>4, <2>2
    <2>3. CASE q = new /\ p \in paid
      BY <1>0, <1>1, <1>3, <1>4, <2>3
    <2> QED BY <1>1, <2>1, <2>2, <2>3
  <1>10. PaymentsOK'
    BY <1>5, <1>6, <1>7, <1>8, <1>9 DEF PaymentsOK
  <1>11. AwardsOK'
    <2>1. \A d \in Calls : call'[d].pc = "award" <=> call[d].pc = "award"
      BY <1>1, <1>2
    <2> QED BY <1>1, <2>1, AwardsKept DEF CheckInsOK
  <1> QED BY <1>10, <1>11 DEF CheckInsOK

\* The achievement's row, its XP, and what dies between the two.
LEMMA AwardsKeepCheckIns ==
    ASSUME RewardsInv, CheckInsOK, NEW c \in Calls, UnlockStreak(c) \/ AwardStreak(c) \/ Finish(c)
    PROVE  CheckInsOK'
  <1>0. TypeOK /\ user.xp \in Nat /\ user \in User /\ call \in [Calls -> Call] /\ call[c] \in Call
    BY UserFields DEF RewardsInv, TypeOK
  <1>1. UNCHANGED <<clock, paid, overlapped>> /\ (dropped => dropped')
    <2>1. CASE UnlockStreak(c) \/ AwardStreak(c)
      BY <2>1 DEF UnlockStreak, AwardStreak, checked
    <2>2. CASE Finish(c)
      BY <2>2 DEF Finish
    <2> QED BY <2>1, <2>2
  <1>2. /\ call'[c].pc \in {"idle", "award"}
        /\ call'[c].pc = "award" => UnlockStreak(c) /\ "streak_starter" \notin achieved
        /\ \A d \in Calls \ {c} : call'[d] = call[d]
    <2>1. CASE Leave(c)
      BY <1>0, <2>1 DEF Leave, NoCall
    <2>2. CASE UnlockStreak(c) /\ "streak_starter" \notin achieved
      BY <1>0, <2>2 DEF UnlockStreak, Call
    <2> QED BY <2>1, <2>2 DEF UnlockStreak, AwardStreak, Finish
  <1>3. user.xp <= user'.xp /\ user'.xp \in Nat /\ user'.lastActive = user.lastActive
    <2>1. CASE AwardStreak(c)
      <3>1. user' = [user EXCEPT !.xp = @ + StreakXp] /\ StreakXp \in Nat
        BY <2>1, Constants DEF AwardStreak
      <3>2. user'.xp = user.xp + StreakXp /\ user'.lastActive = user.lastActive
        BY <1>0, <3>1 DEF User
      <3> QED BY <1>0, <3>1, <3>2
    <2>2. CASE ~AwardStreak(c)
      <3>1. user' = user
        BY <2>2 DEF UnlockStreak, Finish
      <3> QED BY <1>0, <3>1
    <2> QED BY <2>1, <2>2
  <1>4. PaymentsOK'
    <2>1. \A d \in Calls : call'[d] = call[d] \/ call'[d].pc \notin {"checkin", "locked"}
      BY <1>2
    <2> QED BY <1>1, <1>3, <2>1, PaymentsKept DEF CheckInsOK
  <1>5. AwardsOK'
    <2>1. CASE UnlockStreak(c)
      <3>1. call[c].pc = "unlock" /\ awarded' = awarded /\ dropped' = dropped
        BY <2>1 DEF UnlockStreak, checked
      <3>2. CASE "streak_starter" \in achieved
        <4>1. achieved' = achieved /\ Leave(c)
          BY <2>1, <3>2 DEF UnlockStreak
        <4>2. \A d \in Calls : call'[d].pc = "award" <=> call[d].pc = "award"
          BY <1>2, <3>1, <3>2
        <4> QED BY <1>1, <3>1, <4>1, <4>2, AwardsKept DEF CheckInsOK
      <3>3. CASE "streak_starter" \notin achieved
        <4>1. "streak_starter" \in achieved' /\ call'[c].pc = "award"
          BY <1>0, <2>1, <3>3 DEF UnlockStreak, Call
        <4>2. ~awarded /\ \A d \in Calls : call[d].pc # "award"
          BY <3>3 DEF CheckInsOK, AwardsOK, StreakIsRewarded
        <4> QED BY <1>2, <3>1, <4>1, <4>2 DEF AwardsOK, StreakIsRewarded
      <3> QED BY <3>2, <3>3
    <2>2. CASE AwardStreak(c)
      <3>1. call[c].pc = "award" /\ awarded' /\ dropped' = dropped /\ achieved' = achieved
        BY <2>2 DEF AwardStreak
      <3>2. "streak_starter" \in achieved /\ \A d \in Calls : call[d].pc = "award" => d = c
        BY <3>1 DEF CheckInsOK, AwardsOK
      <3>3. \A d \in Calls : call'[d].pc # "award"
        <4>1. call'[c].pc = "idle"
          BY <1>0, <2>2 DEF AwardStreak, Leave, NoCall
        <4> QED BY <1>2, <3>2, <4>1
      <3> QED BY <3>1, <3>2, <3>3 DEF AwardsOK, StreakIsRewarded
    <2>3. CASE Finish(c)
      <3>1. /\ awarded' = awarded /\ dropped' = (dropped \/ call[c].pc = "award") /\ achieved' = achieved
            /\ call'[c].pc = "idle"
        BY <1>0, <2>3 DEF Finish, Leave, NoCall
      <3>2. CASE call[c].pc = "award"
        <4>1. "streak_starter" \in achieved /\ ~awarded /\ \A d \in Calls : call[d].pc = "award" => d = c
          BY <3>2 DEF CheckInsOK, AwardsOK
        <4>2. dropped' /\ \A d \in Calls : call'[d].pc # "award"
          BY <1>2, <3>1, <3>2, <4>1
        <4> QED BY <3>1, <4>1, <4>2 DEF AwardsOK, StreakIsRewarded
      <3>3. CASE call[c].pc # "award"
        <4>1. \A d \in Calls : call'[d].pc = "award" <=> call[d].pc = "award"
          BY <1>2, <3>1, <3>3
        <4> QED BY <1>1, <3>1, <4>1, AwardsKept DEF CheckInsOK
      <3> QED BY <3>2, <3>3
    <2> QED BY <2>1, <2>2, <2>3
  <1> QED BY <1>4, <1>5 DEF CheckInsOK

\* On a new day nothing is paid yet.
LEMMA TickKeepsCheckIns ==
    ASSUME RewardsInv, CheckInsOK, Tick
    PROVE  CheckInsOK'
  <1>1. /\ clock \in Nat /\ clock' = clock + 1
        /\ UNCHANGED <<user, achieved, call, paid, overlapped, awarded, dropped>>
    BY DEF RewardsInv, TypeOK, Tick, checked
  <1>2. \A p \in paid : p.day \in Nat /\ p.day <= clock
    BY DEF RewardsInv, TypeOK, Payment, Days, CheckInsOK, PaymentsOK
  <1>3. \A p \in paid : p.day <= clock' /\ p.day # clock'
    BY <1>1, <1>2
  <1>4. PaymentsOK'
    BY <1>1, <1>3 DEF CheckInsOK, PaymentsOK, PaidOnceADay
  <1>5. AwardsOK'
    BY <1>1, AwardsKept DEF CheckInsOK
  <1> QED BY <1>4, <1>5 DEF CheckInsOK

\* Every step keeps what check-ins promise.
LEMMA CheckInsStep ==
    ASSUME RewardsInv, CheckInsOK, [Next]_vars
    PROVE  CheckInsOK'
  <1>1. ASSUME NEW c \in Calls, CallStep(c) PROVE CheckInsOK'
    BY <1>1, OthersKeepCheckIns, ReadUserKeepsCheckIns, CheckInKeepsCheckIns, AwardsKeepCheckIns
       DEF CallStep
  <1>2. ASSUME NEW q \in Quests, NewQuest(q) PROVE CheckInsOK'
    BY <1>2 DEF NewQuest, checked, CheckInsOK, PaymentsOK, PaidOnceADay, AwardsOK, StreakIsRewarded
  <1>3. CASE UNCHANGED vars
    BY <1>3 DEF vars, CheckInsOK, PaymentsOK, PaidOnceADay, AwardsOK, StreakIsRewarded
  <1> QED BY <1>1, <1>2, <1>3, TickKeepsCheckIns DEF Next

-----------------------------------------------------------------------------
(* The theorems.                                                           *)

\* At first nothing is on record.
LEMMA InitInv == Init => RewardsInv /\ CheckInsOK
  <1> SUFFICES ASSUME Init PROVE RewardsInv /\ CheckInsOK  OBVIOUS
  <1>1. TypeOK /\ EffectsOK /\ clock \in Days
    <2>1. /\ checkIns \in SUBSET Days /\ paid \in SUBSET Payment /\ overlapped \in SUBSET Days
          /\ awarded \in BOOLEAN /\ dropped \in BOOLEAN
      BY DEF Init
    <2>2. EffectsOK /\ clock \in Days /\ clock \in Nat
      BY Constants DEF Init, EffectsOK, Days
    <2> QED BY <2>1, <2>2, NoCallType
            DEF Init, TypeOK, User, NewUser, Quest, Feedback, NoFeedback
  <1>2. Logged = {} /\ Completed = {}
    BY DEF Init, Logged, Completed
  <1>3. Countable
    BY <1>2, FS_EmptySet DEF Countable, Init
  <1>4. XpAddsUp
    <2>1. Cardinality(Logged) = 0 /\ Cardinality(Completed) = 0
      BY <1>2, FS_EmptySet
    <2>2. InteractionXp * 0 = 0 /\ QuestXp * 0 = 0 /\ CheckInXp * 0 = 0 /\ StreakBonus * 0 = 0
      BY Constants
    <2>3. paid = {} /\ {p \in paid : p.long} = {} /\ ~awarded
      BY DEF Init
    <2>4. CheckInsWorth = 0
      <3>1. Cardinality(paid) = 0 /\ Cardinality({p \in paid : p.long}) = 0
        BY <2>3, FS_EmptySet
      <3> QED BY <2>2, <2>3, <3>1 DEF CheckInsWorth
    <2> QED BY <2>1, <2>2, <2>4 DEF Init, XpAddsUp, NewUser
  <1>5. LedgerFollowsFacts /\ LatestDay
    BY <1>2 DEF Init, LedgerFollowsFacts, LatestDay
  <1>6. RecordsSound
    BY DEF Init, RecordsSound, Backed, Past, NoRecord
  <1>7. ASSUME NEW c \in Calls PROVE SnapshotSound(c) /\ CallSound(c)
    BY DEF Init, SnapshotSound, CallSound, NoCall
  <1>8. CheckInsOK
    BY DEF Init, NoCall, CheckInsOK, PaymentsOK, PaidOnceADay, AwardsOK, StreakIsRewarded
  <1> QED BY <1>1, <1>3, <1>4, <1>5, <1>6, <1>7, <1>8 DEF RewardsInv, Books

\* Every step keeps the invariant.
LEMMA StepInv ==
    ASSUME RewardsInv, CheckInsOK, [Next]_vars
    PROVE  RewardsInv'
  <1>1. ASSUME NEW c \in Calls, CallStep(c) PROVE RewardsInv'
    <2>1. CASE Begin(c) \/ Lock(c) \/ Retry(c)
      BY <2>1, BeginInv, LockInv, RetryInv
    <2>2. CASE Replay(c) \/ Log(c)
      BY <2>2, ReplayInv, LogInv
    <2>3. CASE RefuseKey(c) \/ Finish(c)
      BY <2>3, LeaveInv
    <2>4. CASE CompleteQuest(c) \/ ReplayQuest(c) \/ LoseRace(c) \/ ResolveRace(c)
      BY <2>4, CompleteQuestInv, ReplayQuestInv, LoseRaceInv, ResolveRaceInv
    <2>5. CASE ReadUser(c) \/ CheckIn(c) \/ UnlockStreak(c) \/ AwardStreak(c)
      BY <2>5, ReadUserInv, CheckInInv, UnlockStreakInv, AwardStreakInv
    <2> QED BY <1>1, <2>1, <2>2, <2>3, <2>4, <2>5 DEF CallStep
  <1>2. ASSUME NEW q \in Quests, NewQuest(q) PROVE RewardsInv'
    BY <1>2, NewQuestInv
  <1>3. CASE Tick  BY <1>3, TickInv
  <1>4. CASE UNCHANGED vars
    <2>1. \A d \in Calls : (SnapshotSound(d) /\ CallSound(d))'
      BY <1>4 DEF vars, RewardsInv, SnapshotSound, CallSound, Backed, Past, Seen
    <2>2. TypeOK' /\ EffectsOK' /\ (clock \in Days)'
      BY <1>4 DEF vars, RewardsInv, TypeOK, EffectsOK
    <2>3. Books' /\ RecordsSound'
      BY <1>4 DEF vars, RewardsInv, Books, Countable, XpAddsUp, CheckInsWorth, LedgerFollowsFacts, LatestDay,
                  Logged, Completed, RecordsSound, Backed, Past
    <2> QED BY <2>1, <2>2, <2>3 DEF RewardsInv
  <1> QED BY <1>1, <1>2, <1>3, <1>4 DEF Next

\* What is on record explains what was earned, and what is remembered of each key tells
\* what was done under it, through any overlap of requests.
THEOREM RewardsInvariant == Spec => [](RewardsInv /\ CheckInsOK)
  <1>1. RewardsInv /\ CheckInsOK /\ [Next]_vars => (RewardsInv /\ CheckInsOK)'
    BY StepInv, CheckInsStep
  <1> QED BY <1>1, InitInv, PTL DEF Spec

\* Every variable keeps its type.
THEOREM RewardsTypes == Spec => []TypeOK
  <1>1. RewardsInv => TypeOK  BY DEF RewardsInv
  <1> QED BY <1>1, RewardsInvariant, PTL

\* createInTransaction, completeQuestInTransaction, checkIn and checkStreakAchievements: the
\* XP is what the rows are worth; a day is paid twice only where check-ins overlapped, and
\* the XP of a streak is missing only where a request died before it added it.
THEOREM XpIsExplained == Spec => []XpExplained
  <1>1. RewardsInv /\ CheckInsOK => XpExplained
    BY DEF RewardsInv, Books, CheckInsOK, PaymentsOK, AwardsOK, XpExplained
  <1> QED BY <1>1, RewardsInvariant, PTL

\* The ledger has one row for each thing that is worth XP, and a quest one feedback.
THEOREM LedgerIsComplete == Spec => []LedgerFollowsFacts
  <1>1. RewardsInv => LedgerFollowsFacts  BY DEF RewardsInv, Books
  <1> QED BY <1>1, RewardsInvariant, PTL

\* The contact shows the latest day on record, in whatever order interactions are logged.
THEOREM LastContactFollows == Spec => []LastContactIsLatest
  <1>1. RewardsInv => LastContactIsLatest
    <2> SUFFICES ASSUME RewardsInv PROVE LastContactIsLatest  OBVIOUS
    <2> DEFINE S == {0} \cup {interaction[i] : i \in Interactions}
    <2>1. TypeOK /\ LatestDay  BY DEF RewardsInv, Books
    <2>2. S \in SUBSET Int /\ lastContacted \in S
      BY <2>1 DEF TypeOK, LatestDay
    <2>3. \A x \in S : lastContacted >= x
      BY <2>1 DEF TypeOK, LatestDay
    <2> HIDE DEF S
    <2>4. Max(S) = lastContacted  BY <2>2, <2>3, MaxIs
    <2> QED BY <2>4 DEF S, LastContactIsLatest
  <1> QED BY <1>1, RewardsInvariant, PTL

-----------------------------------------------------------------------------
(* What each step is to the caller of a key.                               *)

\* An answer on its way, as OncePerKey sees it.
Told(c) == [key |-> call[c].key, request |-> call[c].request, result |-> call[c].result]

\* A step at most adds the answer of the call that takes it.
LEMMA AnsweringGrows ==
    ASSUME NEW c \in Calls, \A d \in Calls \ {c} : call'[d] = call[d], NEW S
    PROVE  /\ Answering(S)' \subseteq Answering(S) \cup {Told(c)'}
           /\ call'[c].pc # "answer" \/ call'[c].key \notin S => Answering(S)' \subseteq Answering(S)
  BY DEF Answering, Told

\* The other steps tell nobody anything and do nothing under a key.
LEMMA QuietStep ==
    ASSUME TypeOK, NEW c \in Calls,
           \/ Begin(c) \/ Lock(c) \/ RefuseKey(c) \/ Retry(c) \/ LoseRace(c)
           \/ ReadUser(c) \/ CheckIn(c) \/ UnlockStreak(c) \/ AwardStreak(c) \/ Finish(c)
    PROVE  /\ \A d \in Calls \ {c} : call'[d] = call[d]
           /\ call'[c].pc # "answer"
           /\ UNCHANGED <<effects, feedback>>
  <1>1. UNCHANGED <<effects, feedback>>
    BY DEF Begin, Lock, RefuseKey, Retry, LoseRace, ReadUser, CheckIn, UnlockStreak, AwardStreak,
           Finish, logged, quested
  <1>2. CASE Leave(c)
    BY <1>1, <1>2, LeaveCall, CallSet
  <1>3. ASSUME NEW k, NEW request, NEW since, NEW n, Attempt(c, k, request, since, n)
        PROVE  call'[c].pc # "answer" /\ \A d \in Calls \ {c} : call'[d] = call[d]
    BY <1>3 DEF Attempt, TypeOK, Call, NoCall
  <1>4. CASE Begin(c) \/ Retry(c)
    BY <1>1, <1>2, <1>3, <1>4 DEF Begin, Retry
  <1>5. CASE Lock(c)
    BY <1>1, <1>5 DEF Lock, TypeOK, Call
  <1>6. CASE LoseRace(c)
    <2>1. PICK q \in Quests, k \in QuestKeys, i \in Interactions :
             call' = [call EXCEPT ![c] = QuestCall("race", k, QuestRequest(q, i), None)]
      BY <1>6 DEF LoseRace
    <2> DEFINE new == QuestCall("race", k, QuestRequest(q, i), None)
    <2>2. call' = [call EXCEPT ![c] = new] /\ new \in Call /\ new.pc = "race"
      BY <2>1, QuestCallType
    <2> HIDE DEF new
    <2> QED BY <1>1, <2>2, CallSet
  <1>7. CASE ReadUser(c)
    BY <1>1, <1>7 DEF ReadUser, TypeOK, Call, NoCall
  <1>8. CASE CheckIn(c)
    <2>1. CASE call' = [call EXCEPT ![c] = [NoCall EXCEPT !.pc = "unlock", !.since = call[c].since]]
      BY <1>1, <2>1 DEF TypeOK, Call, NoCall
    <2> QED BY <1>2, <1>8, <2>1 DEF CheckIn
  <1>9. CASE UnlockStreak(c)
    <2>1. CASE call' = [call EXCEPT ![c].pc = "award"]
      BY <1>1, <2>1 DEF TypeOK, Call
    <2> QED BY <1>2, <1>9, <2>1 DEF UnlockStreak
  <1>10. CASE RefuseKey(c) \/ AwardStreak(c) \/ Finish(c)
    BY <1>2, <1>10 DEF RefuseKey, AwardStreak, Finish
  <1> QED BY <1>4, <1>5, <1>6, <1>7, <1>8, <1>9, <1>10

\* Telling somebody something leaves the others alone.
LEMMA TellOnly ==
    ASSUME TypeOK, NEW c \in Calls, NEW result \in Interactions \cup Quests \cup {None},
           Tell(c, result)
    PROVE  /\ \A d \in Calls \ {c} : call'[d] = call[d]
           /\ call'[c].key = call[c].key
           /\ Told(c)' = [key |-> call[c].key, request |-> call[c].request, result |-> result]
  <1>1. PICK new \in Call : /\ call' = [call EXCEPT ![c] = new]
                            /\ new.key = call[c].key /\ new.request = call[c].request
                            /\ new.result = result
    BY TellCall
  <1> QED BY <1>1, CallSet DEF Told

\* A logged interaction is something done under its key.
LEMMA LogApplies ==
    ASSUME RewardsInv, NEW c \in Calls, Log(c)
    PROVE  LogsKeepPromise!Next /\ UNCHANGED feedback /\ Answering(QuestKeys)' \subseteq Answering(QuestKeys)
  <1> DEFINE k == call[c].key
  <1>0. /\ TypeOK /\ EffectsOK /\ SnapshotSound(c) /\ k \in LogKeys /\ k \notin QuestKeys
        /\ \A f \in effects[k] : call[c].now >= f.at + RecordTTL
    BY LogWrites, LongAgo, Constants DEF RewardsInv, SnapshotSound
  <1>1. PICK i \in Interactions :
           /\ effects' = [effects EXCEPT ![k] =
                            @ \cup {[at |-> call[c].now, request |-> call[c].request, result |-> i]}]
           /\ Tell(c, i)
    BY LogWrites
  <1> DEFINE e == [at |-> call[c].now, request |-> call[c].request, result |-> i]
  <1>2. e \in effects'[k] /\ effects' = [effects EXCEPT ![k] = @ \cup {e}]
    BY <1>0, <1>1 DEF EffectsOK
  <1>3. /\ \A d \in Calls \ {c} : call'[d] = call[d]
        /\ call'[c].key = k
        /\ Told(c)' = LogsKeepPromise!AnswerOf(k, e)
    BY <1>0, <1>1, TellOnly DEF LogsKeepPromise!AnswerOf
  <1>4. Answering(LogKeys)' \subseteq Answering(LogKeys) \cup {LogsKeepPromise!AnswerOf(k, e)}
    BY <1>3, AnsweringGrows
  <1>5. Answering(QuestKeys)' \subseteq Answering(QuestKeys)
    BY <1>0, <1>3, AnsweringGrows
  <1>6. e.at = call[c].now  OBVIOUS
  <1> HIDE DEF e, k
  <1>7. LogsKeepPromise!Apply(k)
    BY <1>0, <1>2, <1>4, <1>6 DEF LogsKeepPromise!Apply
  <1> QED BY <1>0, <1>5, <1>7, LogWrites DEF LogsKeepPromise!Next

\* A replay tells what was done under the key for this request.
LEMMA ReplayAnswers ==
    ASSUME RewardsInv, NEW c \in Calls, Replay(c)
    PROVE  LogsKeepPromise!Next /\ UNCHANGED feedback /\ Answering(QuestKeys)' \subseteq Answering(QuestKeys)
  <1> DEFINE k == call[c].key
  <1>0. /\ TypeOK /\ SnapshotSound(c) /\ k \in LogKeys /\ k \notin QuestKeys
        /\ Live(c) /\ SameRequest(c) /\ Tell(c, Seen(c).result) /\ UNCHANGED <<effects, feedback>>
    BY Constants DEF RewardsInv, SnapshotSound, Replay, quested
  <1>1. Seen(c) \in Record /\ call[c].now \in Nat
    BY <1>0, CallFields DEF Seen
  <1>2. Seen(c).expiresAt # 0 /\ Seen(c).result \in Interactions \cup {None}
    BY <1>0, <1>1 DEF Live, Record
  <1>3. Backed(k, Seen(c))
    BY <1>0 DEF SnapshotSound, Seen, Replay
  <1>4. PICK e \in effects[k] : e.request = call[c].request /\ e.result = Seen(c).result
    BY <1>0, <1>2, <1>3 DEF Backed, SameRequest
  <1>5. /\ \A d \in Calls \ {c} : call'[d] = call[d]
        /\ call'[c].key = k
        /\ Told(c)' = LogsKeepPromise!AnswerOf(k, e)
    BY <1>0, <1>2, <1>4, TellOnly DEF LogsKeepPromise!AnswerOf
  <1>6. Answering(LogKeys)' \subseteq Answering(LogKeys) \cup {LogsKeepPromise!AnswerOf(k, e)}
    BY <1>5, AnsweringGrows
  <1>7. Answering(QuestKeys)' \subseteq Answering(QuestKeys)
    BY <1>0, <1>5, AnsweringGrows
  <1> HIDE DEF k
  <1>8. LogsKeepPromise!Answer(k)
    BY <1>0, <1>6 DEF LogsKeepPromise!Answer
  <1> QED BY <1>0, <1>7, <1>8 DEF LogsKeepPromise!Next

\* What has been done under the key of a quest, as OncePerKey sees it.
Completions == [k \in QuestKeys |->
                  IF feedback[k] = NoFeedback THEN {}
                  ELSE {[at |-> 0, result |-> feedback[k].quest,
                         request |-> QuestRequest(feedback[k].quest, feedback[k].evidence)]}]

\* A completed quest is the one thing done under its key.
LEMMA QuestApplies ==
    ASSUME RewardsInv, NEW c \in Calls, CompleteQuest(c)
    PROVE  QuestsKeepPromise!Next /\ UNCHANGED effects /\ Answering(LogKeys)' \subseteq Answering(LogKeys)
  <1>0. TypeOK  BY DEF RewardsInv
  <1>1. PICK q \in Quests, k \in QuestKeys, i \in Interactions :
           /\ feedback[k] = NoFeedback
           /\ feedback' = [feedback EXCEPT ![k] = [quest |-> q, evidence |-> i]]
           /\ call' = [call EXCEPT ![c] = QuestCall("answer", k, QuestRequest(q, i), q)]
    BY DEF CompleteQuest
  <1> DEFINE e == [at |-> 0, result |-> q, request |-> QuestRequest(q, i)]
  <1>2. /\ \A d \in Calls \ {c} : call'[d] = call[d]
        /\ call'[c].key = k
        /\ Told(c)' = QuestsKeepPromise!AnswerOf(k, e)
    <2> DEFINE new == QuestCall("answer", k, QuestRequest(q, i), q)
    <2>1. /\ new \in Call /\ new.key = k /\ new.request = QuestRequest(q, i) /\ new.result = q
      BY <1>0, QuestCallType
    <2> HIDE DEF new
    <2>2. call'[c] = new /\ \A d \in Calls \ {c} : call'[d] = call[d]
      BY <1>0, <1>1, <2>1, CallSet DEF new
    <2> QED BY <2>1, <2>2 DEF Told, QuestsKeepPromise!AnswerOf
  <1>3. k \notin LogKeys  BY Constants
  <1>4. /\ Answering(QuestKeys)' \subseteq Answering(QuestKeys) \cup {QuestsKeepPromise!AnswerOf(k, e)}
        /\ Answering(LogKeys)' \subseteq Answering(LogKeys)
    BY <1>2, <1>3, AnsweringGrows
  <1>5. /\ feedback'[k] = [quest |-> q, evidence |-> i] /\ feedback'[k] # NoFeedback
        /\ \A l \in QuestKeys \ {k} : feedback'[l] = feedback[l]
    BY <1>0, <1>1, Constants DEF TypeOK, NoFeedback
  <1>6. Completions[k] = {} /\ Completions'[k] = {e}
    BY <1>1, <1>5 DEF Completions
  <1>7. Completions' = [Completions EXCEPT ![k] = @ \cup {e}]
    BY <1>1, <1>5, <1>6 DEF Completions
  <1>8. QuestsKeepPromise!Apply(k)
    <2> HIDE DEF e
    <2>1. e \in Completions'[k]  BY <1>6
    <2>2. \A f \in Completions[k] : e.at >= f.at + 1  BY <1>6
    <2> QED BY <1>4, <1>7, <2>1, <2>2 DEF QuestsKeepPromise!Apply, Completions
  <1> QED BY <1>4, <1>8 DEF QuestsKeepPromise!Next, CompleteQuest, logged

\* Who asks again, or has lost a race, is told what was done under the key for this request.
LEMMA QuestAnswers ==
    ASSUME RewardsInv, NEW c \in Calls, NEW k \in QuestKeys, NEW request \in Request,
           Answers(k, request), request = QuestRequest(request.quest, request.evidence),
           \A d \in Calls \ {c} : call'[d] = call[d],
           Told(c)' = [key |-> k, request |-> request, result |-> request.quest],
           UNCHANGED <<effects, feedback>>
    PROVE  QuestsKeepPromise!Next /\ Answering(LogKeys)' \subseteq Answering(LogKeys)
  <1> DEFINE e == [at |-> 0, result |-> request.quest, request |-> request]
  <1>1. e \in Completions[k] /\ Completions' = Completions
    BY DEF Completions, Answers
  <1>2. call'[c].key = k /\ k \notin LogKeys
    BY Constants DEF Told
  <1>3. Told(c)' = QuestsKeepPromise!AnswerOf(k, e)
    BY DEF QuestsKeepPromise!AnswerOf
  <1>4. /\ Answering(QuestKeys)' \subseteq Answering(QuestKeys) \cup {QuestsKeepPromise!AnswerOf(k, e)}
        /\ Answering(LogKeys)' \subseteq Answering(LogKeys)
    BY <1>2, <1>3, AnsweringGrows
  <1> HIDE DEF e
  <1> QED BY <1>1, <1>4 DEF QuestsKeepPromise!Next, QuestsKeepPromise!Answer, Completions

\* Every step is a step of either promise, and a quiet one of the other.
LEMMA StepKeepsPromises ==
    ASSUME RewardsInv, [Next]_vars
    PROVE  LogsKeepPromise!Next /\ QuestsKeepPromise!Next
  <1>1. ASSUME Answering(LogKeys)' \subseteq Answering(LogKeys), UNCHANGED effects
        PROVE  LogsKeepPromise!Next
    BY <1>1 DEF LogsKeepPromise!Next, LogsKeepPromise!Silence
  <1>2. ASSUME Answering(QuestKeys)' \subseteq Answering(QuestKeys), UNCHANGED feedback
        PROVE  QuestsKeepPromise!Next
    BY <1>2 DEF QuestsKeepPromise!Next, QuestsKeepPromise!Silence
  <1>0. TypeOK  BY DEF RewardsInv
  <1>3. ASSUME NEW c \in Calls, CallStep(c)
        PROVE  LogsKeepPromise!Next /\ QuestsKeepPromise!Next
    <2>1. CASE Log(c)
      BY <1>2, <2>1, LogApplies
    <2>2. CASE Replay(c)
      BY <1>2, <2>2, ReplayAnswers
    <2>3. CASE CompleteQuest(c)
      BY <1>1, <2>3, QuestApplies
    <2>4. CASE ReplayQuest(c)
      <3>1. PICK q \in Quests, k \in QuestKeys, i \in Interactions :
               /\ Answers(k, QuestRequest(q, i))
               /\ call' = [call EXCEPT ![c] = QuestCall("answer", k, QuestRequest(q, i), q)]
        BY <2>4 DEF ReplayQuest
      <3> DEFINE new == QuestCall("answer", k, QuestRequest(q, i), q)
      <3>2. /\ new \in Call /\ new.key = k /\ new.request = QuestRequest(q, i) /\ new.result = q
            /\ QuestRequest(q, i).quest = q /\ QuestRequest(q, i).evidence = i
            /\ QuestRequest(q, i) \in Request
        BY <1>0, QuestCallType
      <3> HIDE DEF new
      <3>3. call'[c] = new /\ \A d \in Calls \ {c} : call'[d] = call[d]
        BY <1>0, <3>1, <3>2, CallSet DEF new
      <3>4. Told(c)' = [key |-> k, request |-> QuestRequest(q, i), result |-> QuestRequest(q, i).quest]
        BY <3>2, <3>3 DEF Told
      <3>5. UNCHANGED <<effects, feedback>>
        BY <2>4 DEF ReplayQuest, logged, quested
      <3> QED BY <1>1, <3>1, <3>2, <3>3, <3>4, <3>5, QuestAnswers
    <2>5. CASE ResolveRace(c)
      <3>0. UNCHANGED <<effects, feedback>> /\ CallSound(c) /\ call[c].pc = "race"
        BY <2>5 DEF ResolveRace, logged, quested, RewardsInv
      <3>1. CASE Leave(c)
        BY <1>0, <1>1, <1>2, <3>0, <3>1, LeaveCall, CallSet, AnsweringGrows
      <3>2. CASE Answers(call[c].key, call[c].request) /\ Tell(c, call[c].request.quest)
        <4>1. /\ call[c].key \in QuestKeys /\ call[c].request \in Request
              /\ call[c].request.quest \in Quests
              /\ call[c].request = QuestRequest(call[c].request.quest, call[c].request.evidence)
          BY <1>0, <3>0, CallFields DEF CallSound
        <4>2. /\ \A d \in Calls \ {c} : call'[d] = call[d]
              /\ Told(c)' = [key |-> call[c].key, request |-> call[c].request,
                             result |-> call[c].request.quest]
          BY <1>0, <3>2, <4>1, TellOnly
        <4> QED BY <1>1, <3>0, <3>2, <4>1, <4>2, QuestAnswers
      <3> QED BY <2>5, <3>1, <3>2 DEF ResolveRace
    <2>6. CASE \/ Begin(c) \/ Lock(c) \/ RefuseKey(c) \/ Retry(c) \/ LoseRace(c)
               \/ ReadUser(c) \/ CheckIn(c) \/ UnlockStreak(c) \/ AwardStreak(c) \/ Finish(c)
      BY <1>0, <1>1, <1>2, <2>6, QuietStep, AnsweringGrows
    <2> QED BY <1>3, <2>1, <2>2, <2>3, <2>4, <2>5, <2>6 DEF CallStep
  <1>4. CASE (\E q \in Quests : NewQuest(q)) \/ Tick \/ UNCHANGED vars
    <2>1. UNCHANGED <<call, effects, feedback>>
      BY <1>4 DEF NewQuest, Tick, vars, logged, quested
    <2>2. \A S : Answering(S)' \subseteq Answering(S)
      BY <2>1 DEF Answering
    <2> QED BY <1>1, <1>2, <2>1, <2>2
  <1> QED BY <1>3, <1>4 DEF Next

\* HumanIdempotencyService.execute around logging: one interaction in the life time of a
\* record, and no answer but the answer of an interaction logged for the same request.
THEOREM LogsImplementOncePerKey == Spec => LogsOncePerKey
  <1>1. Init => LogsKeepPromise!Init
    BY DEF Init, LogsKeepPromise!Init, Answering, NoCall
  <1>2. RewardsInv /\ [Next]_vars => LogsKeepPromise!Next
    BY StepKeepsPromises
  <1> QED BY <1>1, <1>2, RewardsInvariant, PTL DEF Spec, LogsOncePerKey, LogsKeepPromise!Spec

\* completeQuest: one completion under a key for ever, and who retries or loses a race is
\* told of the completion of the same quest with the same evidence, or gets an error.
THEOREM QuestsImplementOncePerKey == Spec => QuestsOncePerKey
  <1>1. Init => QuestsKeepPromise!Init
    BY DEF Init, QuestsKeepPromise!Init, Answering, NoCall
  <1>2. RewardsInv /\ [Next]_vars => QuestsKeepPromise!Next
    BY StepKeepsPromises
  <1> QED BY <1>1, <1>2, RewardsInvariant, PTL DEF Spec, QuestsOncePerKey, QuestsKeepPromise!Spec

-----------------------------------------------------------------------------
(* The dates of a brief.                                                   *)
CONSTANTS YearDays, LeapYears, DayLength, DateHorizon, YearsAhead, Sources, Offsets, Nows
VARIABLES sources, offset, now, dates, collected
Occasions == INSTANCE ImportantDates WITH Horizon <- DateHorizon

\* The rows of an owner have ids of their own, which are in an order.
DatesAssumption ==
    \A rows \in Sources : \A s \in rows :
        /\ s.type \in Occasions!Types /\ s.id \in Nat
        /\ \A other \in rows : other.id = s.id => other = s

\* What is collected are the first candidates of each occasion, in order.
DatesInv ==
    /\ sources \in Sources
    /\ collected =>
          /\ \A i \in DOMAIN dates : dates[i] \in Occasions!Firsts
          /\ \A c \in Occasions!Firsts : \E i \in DOMAIN dates : dates[i] = c
          /\ \A i, j \in DOMAIN dates : i < j => Occasions!Before(dates[i], dates[j])

\* A set of numbers that has any has a least one.
LEMMA LeastOf ==
    ASSUME NEW S, S \subseteq Nat, S # {}
    PROVE  \E n \in S : \A k \in S : n <= k
  <1>1. PICK n \in S : \A k \in S : <<k, n>> \notin OpToRel(<, Nat)
    BY NatLessThanWellFounded, WFMin
  <1>2. \A k \in S : ~(k < n)
    BY <1>1 DEF OpToRel
  <1>. QED  BY <1>2

\* A candidate is of a row, and one of a celebration is in the horizon.
LEMMA CandidatesOfRows ==
    ASSUME DatesAssumption, sources \in Sources, NEW c \in Occasions!Candidates
    PROVE  \E s \in sources : c.type = s.type /\ c.id = s.id
  <1>1. CASE c \in Occasions!Recurring
    BY <1>1 DEF Occasions!Recurring, Occasions!Candidate
  <1>2. CASE c \in Occasions!CelebrationsAhead
    BY <1>2 DEF Occasions!CelebrationsAhead, Occasions!Candidate
  <1>3. CASE c \in Occasions!ReminderCandidates
    BY <1>3 DEF Occasions!ReminderCandidates, Occasions!PendingReminders, Occasions!Candidate
  <1>. QED  BY <1>1, <1>2, <1>3 DEF Occasions!Candidates

\* Each occasion has a first candidate.
LEMMA EachHasAFirst ==
    ASSUME DatesAssumption, sources \in Sources, NEW c \in Occasions!Candidates
    PROVE  \E first \in Occasions!Firsts : Occasions!SameOccasion(first, c)
  <1>. DEFINE Same == {d \in Occasions!Candidates : Occasions!SameOccasion(d, c)}
              Order(d) == Occasions!typePriority[d.type]
  <1>1. ASSUME NEW d \in Same  PROVE d.type \in Occasions!Types /\ Order(d) \in Nat /\ d.id \in Nat
    BY CandidatesOfRows DEF DatesAssumption, Occasions!Types, Occasions!typePriority
  <1>2. c \in Same
    BY DEF Occasions!SameOccasion
  <1>3. PICK n \in {Order(d) : d \in Same} : \A k \in {Order(d) : d \in Same} : n <= k
    BY <1>1, <1>2, LeastOf
  <1>. DEFINE Low == {d \in Same : Order(d) = n}
  <1>4. PICK m \in {d.id : d \in Low} : \A k \in {d.id : d \in Low} : m <= k
    BY <1>1, <1>3, LeastOf
  <1>5. PICK first \in Low : first.id = m
    BY <1>4
  <1>6. ASSUME NEW d \in Occasions!Candidates, Occasions!SameOccasion(d, first)
        PROVE  ~Occasions!Before(d, first)
    <2>1. d \in Same
      BY <1>5, <1>6 DEF Occasions!SameOccasion
    <2>2. d.day = first.day /\ Order(first) = n
      BY <1>5, <1>6 DEF Occasions!SameOccasion
    <2>3. n <= Order(d) /\ n \in Nat /\ Order(d) \in Nat
      BY <2>1, <1>1, <1>3
    <2>4. d.type = first.type => Order(d) = n
      BY <2>2
    <2>5. Order(d) = n => m <= d.id /\ m \in Nat /\ d.id \in Nat
      BY <2>1, <1>1, <1>4, <1>5
    <2>6. ~(d.day < first.day)
      <3>1. d.day \in Int
        BY DEF Occasions!Candidates, Occasions!InHorizon
      <3>. QED  BY <2>2, <3>1
    <2>. QED  BY <1>5, <2>2, <2>3, <2>4, <2>5, <2>6 DEF Occasions!Before
  <1>7. first \in Occasions!Candidates /\ Occasions!SameOccasion(first, c)
    BY <1>5
  <1>. QED  BY <1>6, <1>7 DEF Occasions!Firsts

\* A celebration is shown on its day, and not the reminder that was made for it.
LEMMA CelebrationNotReminder ==
    ASSUME DatesAssumption, DatesInv, collected, NEW c \in sources, NEW r \in sources,
           c.type = "celebration", r.type = "reminder", r.occasion = c.occasion,
           Occasions!UtcDay(r.at) \in Occasions!CelebrationDays(c),
           Occasions!InHorizon(Occasions!UtcDay(r.at))
    PROVE  \E i \in DOMAIN dates : /\ dates[i].occasion = c.occasion
                                   /\ dates[i].day = Occasions!UtcDay(r.at)
                                   /\ \A j \in DOMAIN dates : dates[j].id # r.id
  <1>. DEFINE day == Occasions!UtcDay(r.at)
              shown == Occasions!Candidate(c, c.occasion, day)
  <1>1. shown \in Occasions!CelebrationsAhead /\ shown \in Occasions!Candidates
    BY DEF Occasions!CelebrationsAhead, Occasions!Candidates, Occasions!Candidate
  <1>2. PICK first \in Occasions!Firsts : Occasions!SameOccasion(first, shown)
    BY <1>1, EachHasAFirst DEF DatesInv
  <1>3. PICK i \in DOMAIN dates : dates[i] = first
    BY <1>2 DEF DatesInv
  <1>4. dates[i].occasion = c.occasion /\ dates[i].day = day
    BY <1>2, <1>3 DEF Occasions!SameOccasion, Occasions!Candidate
  <1>5. ASSUME NEW j \in DOMAIN dates, dates[j].id = r.id  PROVE FALSE
    <2>. DEFINE d == dates[j]
    <2>1. d \in Occasions!Firsts /\ d \in Occasions!Candidates
      BY DEF DatesInv, Occasions!Firsts
    <2>2. PICK s \in sources : d.type = s.type /\ d.id = s.id
      BY <2>1, CandidatesOfRows DEF DatesInv
    <2>3. d.type = "reminder"
      <3>1. s.id = r.id /\ sources \in Sources
        BY <1>5, <2>2 DEF DatesInv
      <3>2. s = r
        BY <3>1 DEF DatesAssumption
      <3>. QED  BY <2>2, <3>2
    <2>4. d \in Occasions!ReminderCandidates
      <3>1. d \notin Occasions!Recurring
        BY <2>3 DEF Occasions!Recurring, Occasions!Candidate
      <3>2. d \notin Occasions!CelebrationsAhead
        BY <2>3 DEF Occasions!CelebrationsAhead, Occasions!Candidate
      <3>. QED  BY <2>1, <3>1, <3>2 DEF Occasions!Candidates
    <2>5. PICK q \in Occasions!PendingReminders :
             d = Occasions!Candidate(q, q.occasion,
                    IF Occasions!MadeFor(q) = {} THEN Occasions!LocalDay(q.at)
                    ELSE (CHOOSE m \in Occasions!MadeFor(q) : TRUE).day)
      BY <2>4 DEF Occasions!ReminderCandidates
    <2>6. q = r
      <3>1. q \in sources /\ q.id = r.id
        BY <1>5, <2>5 DEF Occasions!PendingReminders, Occasions!Candidate
      <3>. QED  BY <3>1 DEF DatesAssumption, DatesInv
    <2>7. shown \in Occasions!MadeForOn(r, day)
      BY <1>1 DEF Occasions!MadeForOn, Occasions!Candidate
    <2>8. Occasions!MadeFor(r) # {}
      BY <2>7 DEF Occasions!MadeFor
    <2>. DEFINE m == CHOOSE m \in Occasions!MadeFor(r) : TRUE
    <2>9. m \in Occasions!MadeFor(r)
      BY <2>8
    <2>10. m \in Occasions!CelebrationsAhead /\ m.occasion = r.occasion
      BY <2>9 DEF Occasions!MadeFor, Occasions!MadeForOn
    <2>11. d.occasion = r.occasion /\ d.day = m.day
      BY <2>5, <2>6, <2>8 DEF Occasions!Candidate
    <2>12. m.type = "celebration" /\ m \in Occasions!Candidates
      <3>1. Occasions!InHorizon(m.day)
        BY <2>10 DEF Occasions!CelebrationsAhead
      <3>2. PICK t \in sources : t.type = "celebration" /\ \E at \in Occasions!CelebrationDays(t) :
                                    m = Occasions!Candidate(t, t.occasion, at)
        <4>1. m \in UNION {{Occasions!Candidate(t, t.occasion, at) :
                                at \in Occasions!CelebrationDays(t)} :
                             t \in {t \in sources : t.type = "celebration"}}
          BY <2>10 DEF Occasions!CelebrationsAhead
        <4>. QED  BY <4>1
      <3>3. m.type = "celebration"
        <4>1. PICK at \in Occasions!CelebrationDays(t) : m = Occasions!Candidate(t, t.occasion, at)
          BY <3>2
        <4>. HIDE DEF m
        <4>. QED  BY <3>2, <4>1 DEF Occasions!Candidate
      <3>. QED  BY <2>10, <3>1, <3>3 DEF Occasions!Candidates
    <2>13. Occasions!SameOccasion(m, d) /\ Occasions!Before(m, d)
      BY <2>3, <2>10, <2>11, <2>12
         DEF Occasions!SameOccasion, Occasions!Before, Occasions!typePriority
    <2>. QED  BY <2>1, <2>12, <2>13 DEF Occasions!Firsts
  <1>. QED  BY <1>4, <1>5

\* The first candidates are of what was read.
LEMMA FirstsStay ==
    ASSUME UNCHANGED <<sources, offset, now>>
    PROVE  Occasions!Firsts' = Occasions!Firsts
  BY DEF Occasions!Firsts, Occasions!Candidates, Occasions!Recurring, Occasions!Before,
         Occasions!CelebrationsAhead, Occasions!CelebrationDays, Occasions!InHorizon,
         Occasions!ReminderCandidates, Occasions!PendingReminders, Occasions!MadeFor,
         Occasions!MadeForOn, Occasions!LocalDay, Occasions!UtcDay, Occasions!Today,
         Occasions!daysFromLocalDate, Occasions!SameOccasion, Occasions!Candidate

LEMMA DatesInvariant == Occasions!Spec => []DatesInv
  <1>1. Occasions!Init => DatesInv
    BY DEF Occasions!Init, DatesInv
  <1>2. DatesInv /\ [Occasions!Next]_(Occasions!dateVars) => DatesInv'
    <2>. SUFFICES ASSUME DatesInv, [Occasions!Next]_(Occasions!dateVars)  PROVE DatesInv'
      OBVIOUS
    <2>1. CASE Occasions!Next
      <3>1. /\ UNCHANGED <<sources, offset, now>>
            /\ \A i \in DOMAIN dates' : dates'[i] \in Occasions!Firsts
            /\ \A c \in Occasions!Firsts : \E i \in DOMAIN dates' : dates'[i] = c
            /\ \A i, j \in DOMAIN dates' : i < j => Occasions!Before(dates'[i], dates'[j])
        BY <2>1 DEF Occasions!Next, Occasions!Collect
      <3>2. Occasions!Firsts' = Occasions!Firsts
        BY <3>1, FirstsStay
      <3>. QED  BY <3>1, <3>2 DEF DatesInv, Occasions!Before
    <2>2. CASE UNCHANGED Occasions!dateVars
      <3>1. UNCHANGED <<sources, offset, now, dates, collected>>
        BY <2>2 DEF Occasions!dateVars
      <3>2. Occasions!Firsts' = Occasions!Firsts
        BY <3>1, FirstsStay
      <3>. QED  BY <3>1, <3>2 DEF DatesInv, Occasions!Before
    <2>. QED  BY <2>1, <2>2
  <1>. QED  BY <1>1, <1>2, PTL DEF Occasions!Spec

\* An occasion that several rows hold, each on a day of its own, is told of once: it has one
\* entry among the dates of the owner, whichever rows there are and wherever the owner is.
THEOREM OccasionsShownOnce ==
    ASSUME DatesAssumption
    PROVE  Occasions!Spec => []Occasions!EachOccasionOnce
  <1>1. DatesInv => Occasions!EachOccasionOnce
    <2>. SUFFICES ASSUME DatesInv, collected  PROVE Occasions!EachOccasionOnce
      BY DEF Occasions!EachOccasionOnce
    <2>1. ASSUME NEW c \in Occasions!Candidates
          PROVE  \E i \in DOMAIN dates : Occasions!SameOccasion(dates[i], c)
      BY EachHasAFirst DEF DatesInv
    <2>2. \A i, j \in DOMAIN dates : i < j => Occasions!Before(dates[i], dates[j])
      BY DEF DatesInv
    <2>. QED  BY <2>1, <2>2, CelebrationNotReminder DEF Occasions!EachOccasionOnce
  <1>. QED  BY <1>1, DatesInvariant, PTL

-----------------------------------------------------------------------------
(* The daily brief.                                                        *)
CONSTANTS People, Importance, Cadence, Tasked, Dates, Generators, PersonLimit, DateLimit,
          QuestLimit, Horizon, Cooldown, MaxRetries, Met, MaxToday, MaxAnswers
VARIABLES today, contacted, done, brief, quests, answers, generator
Briefing == INSTANCE DailyBriefs

\* There are so many contacts and dates, and the limits are numbers.
BriefAssumption ==
    /\ IsFiniteSet(People) /\ IsFiniteSet(DOMAIN Dates)
    /\ {PersonLimit, DateLimit, Cooldown, MaxToday} \subseteq Nat

\* An item of a brief, which is about one quest at most.
IsItem(x) ==
    /\ x = [field \in {"kind", "person", "status", "quest"} |-> x[field]]
    /\ \E t : x.quest \subseteq {t}

ItemsOf(list) ==
    /\ list = [k \in DOMAIN list |-> list[k]]
    /\ \A k \in DOMAIN list : IsItem(list[k])

\* An answer from before the day puts nobody off any more.
Rested(a, day) ==
    a.day < day => /\ a.action = "snooze" => a.until <= day
                   /\ a.action = "dismiss" => a.day + Cooldown < day

RestOver(list, day, given) ==
    \A k \in DOMAIN list : \A a \in given :
        list[k].kind = "person" /\ a.person = list[k].person => Rested(a, day)

\* A run is of a day that has come; what it has planned are items for that day.
RunFine(r, at, given) ==
    /\ r = [field \in {"stage", "day", "retries", "seen", "plan"} |-> r[field]]
    /\ r.stage # "idle" => r.day \in 0 .. at
    /\ r.stage = "plan" => \E n \in Nat : DOMAIN r.seen.dates = 1 .. n
    /\ r.stage = "write" => ItemsOf(r.plan) /\ RestOver(r.plan, r.day, given)

BriefsFine(written, at, given) ==
    /\ written = [d \in 0 .. MaxToday |-> written[d]]
    /\ \A d \in 0 .. MaxToday : /\ ItemsOf(written[d]) /\ RestOver(written[d], d, given)
                                /\ DOMAIN written[d] # {} => d <= at

RunsFine(runs, at, given) ==
    /\ runs = [g \in Generators |-> runs[g]]
    /\ \A g \in Generators : RunFine(runs[g], at, given)

QuestsFine(some) ==
    /\ \A q \in some : q = [field \in {"target", "brief", "day", "status"} |-> q[field]]
    /\ \A q, r \in some :
           q.status = "pending" /\ r.status = "pending" /\ q.target = r.target => q = r

AnswersFine(given, at) == \A a \in given : a.day \in 0 .. at /\ a.until \in Int

BriefInv ==
    /\ today \in 0 .. MaxToday
    /\ BriefsFine(brief, today, answers) /\ RunsFine(generator, today, answers)
    /\ QuestsFine(quests) /\ AnswersFine(answers, today)

\* What is in either of two lists put together is in one of them.
LEMMA JoinedLists ==
    ASSUME NEW m \in Nat, NEW n \in Nat, NEW f, NEW g, DOMAIN f = 1 .. m, DOMAIN g = 1 .. n,
           f = [i \in DOMAIN f |-> f[i]], g = [i \in DOMAIN g |-> g[i]]
    PROVE  /\ f \o g = [i \in DOMAIN (f \o g) |-> (f \o g)[i]]
           /\ \A i \in DOMAIN (f \o g) : \/ \E j \in DOMAIN f : (f \o g)[i] = f[j]
                                         \/ \E j \in DOMAIN g : (f \o g)[i] = g[j]
  <1>. DEFINE S == {f[i] : i \in DOMAIN f} \cup {g[i] : i \in DOMAIN g}
  <1>1. f \in Seq(S)
    <2>1. f \in [1 .. m -> S]
      OBVIOUS
    <2>. QED  BY <2>1, IsASeq
  <1>2. g \in Seq(S)
    <2>1. g \in [1 .. n -> S]
      OBVIOUS
    <2>. QED  BY <2>1, IsASeq
  <1>3. f \o g \in Seq(S)
    BY <1>1, <1>2
  <1>4. f \o g \in [1 .. Len(f \o g) -> S]
    <2>. HIDE DEF S
    <2>. QED  BY <1>3, LenProperties
  <1>. HIDE DEF S
  <1>5. \A i \in DOMAIN (f \o g) : (f \o g)[i] \in S
    BY <1>4
  <1>. QED  BY <1>4, <1>5 DEF S

\* The first of a list.
LEMMA TakenOf ==
    ASSUME NEW s, NEW m \in Nat, DOMAIN s = 1 .. m, NEW n \in Nat
    PROVE  /\ \E l \in Nat : DOMAIN Briefing!Take(s, n) = 1 .. l
           /\ \A i \in DOMAIN Briefing!Take(s, n) : i \in DOMAIN s /\ Briefing!Take(s, n)[i] = s[i]
  <1>1. DOMAIN Briefing!Take(s, n) = {i \in 1 .. m : i <= n}
    BY DEF Briefing!Take
  <1>2. CASE m <= n
    <2>1. {i \in 1 .. m : i <= n} = 1 .. m
      BY <1>2
    <2>. QED  BY <1>1, <2>1 DEF Briefing!Take
  <1>3. CASE n <= m
    <2>1. {i \in 1 .. m : i <= n} = 1 .. n
      BY <1>3
    <2>. QED  BY <1>1, <2>1 DEF Briefing!Take
  <1>. QED  BY <1>2, <1>3

\* The dates that are collected are in a list.
LEMMA UpcomingList ==
    ASSUME BriefAssumption, NEW day, NEW completed
    PROVE  \E n \in Nat : DOMAIN Briefing!Upcoming(day, completed) = 1 .. n
  <1>. DEFINE places == {i \in DOMAIN Dates :
                           /\ Dates[i].day \in day .. day + Horizon
                           /\ Dates[i].type = "reminder" => completed[Dates[i].source] = Briefing!Nil}
  <1>1. IsFiniteSet(places)
    BY FS_Subset DEF BriefAssumption
  <1>2. Cardinality(places) \in Nat
    BY <1>1, FS_CardinalityType
  <1>. HIDE DEF places
  <1>3. Briefing!Cardinality(places) = Cardinality(places)
    BY DEF Briefing!Cardinality, Cardinality
  <1>4. Briefing!Upcoming(day, completed) = Briefing!At(Dates, places)
    BY DEF Briefing!Upcoming, places
  <1>5. DOMAIN Briefing!At(Dates, places) = 1 .. Briefing!Cardinality(places)
    BY DEF Briefing!At
  <1>. QED  BY <1>2, <1>3, <1>4, <1>5

\* What is planned are items, of nobody that is put off.
LEMMA PlansAreItems ==
    ASSUME BriefAssumption, NEW day \in Nat, NEW seen, NEW given, NEW at, AnswersFine(given, at),
           NEW n \in Nat, DOMAIN seen.dates = 1 .. n, answers = given,
           NEW ranked \in Briefing!RankedPeople(People \ Briefing!Excluded(day), seen, day)
    PROVE  LET plan == Briefing!PlanItems(Briefing!Take(ranked, PersonLimit),
                                          Briefing!Take(seen.dates, DateLimit), seen.pending)
           IN  ItemsOf(plan) /\ RestOver(plan, day, given)
  <1>. DEFINE people == People \ Briefing!Excluded(day)
              first == Briefing!Take(ranked, PersonLimit)
              soon == Briefing!Take(seen.dates, DateLimit)
              pending == seen.pending
              Person(p) ==
                  [kind |-> "person", person |-> p, status |-> "pending",
                   quest |-> {Briefing!Target("interaction", p)} \ pending]
              Date(d) ==
                  [kind |-> "date", person |-> d.person, status |-> "pending",
                   quest |-> IF d.type = "reminder" THEN {Briefing!Target("reminder", d.source)} \ pending
                             ELSE {}]
              f == [i \in DOMAIN first |-> Person(first[i])]
              g == [i \in DOMAIN soon |-> Date(soon[i])]
              plan == Briefing!PlanItems(first, soon, pending)
  <1>1. plan = f \o g
    BY DEF Briefing!PlanItems
  <1>2. Cardinality(people) \in Nat /\ Briefing!Cardinality(people) = Cardinality(people)
    <2>1. IsFiniteSet(people)
      BY FS_Subset DEF BriefAssumption
    <2>. QED  BY <2>1, FS_CardinalityType DEF Briefing!Cardinality, Cardinality
  <1>3. ranked \in [1 .. Cardinality(people) -> people]
    BY <1>2 DEF Briefing!RankedPeople
  <1>4. PICK k \in Nat : DOMAIN first = 1 .. k
    <2>1. DOMAIN ranked = 1 .. Cardinality(people)
      BY <1>3
    <2>. QED  BY <2>1, <1>2, TakenOf DEF BriefAssumption
  <1>5. \A i \in DOMAIN first : first[i] \in people
    <2>1. DOMAIN ranked = 1 .. Cardinality(people)
      BY <1>3
    <2>2. \A i \in DOMAIN first : i \in DOMAIN ranked /\ first[i] = ranked[i]
      BY <2>1, <1>2, TakenOf DEF BriefAssumption
    <2>. QED  BY <2>2, <1>3
  <1>6. PICK l \in Nat : DOMAIN soon = 1 .. l
    BY TakenOf DEF BriefAssumption
  <1>. HIDE DEF first, soon
  <1>7. /\ DOMAIN f = 1 .. k /\ DOMAIN g = 1 .. l
        /\ f = [i \in DOMAIN f |-> f[i]] /\ g = [i \in DOMAIN g |-> g[i]]
    BY <1>4, <1>6
  <1>8. \A i \in DOMAIN f : f[i] = Person(first[i]) /\ first[i] \in people
    BY <1>5
  <1>9. \A i \in DOMAIN g : g[i] = Date(soon[i])
    OBVIOUS
  <1>. HIDE DEF f, g
  <1>10. /\ plan = [i \in DOMAIN plan |-> plan[i]]
         /\ \A i \in DOMAIN plan : \/ \E j \in DOMAIN f : plan[i] = f[j]
                                   \/ \E j \in DOMAIN g : plan[i] = g[j]
    <2>1. /\ f \o g = [i \in DOMAIN (f \o g) |-> (f \o g)[i]]
          /\ \A i \in DOMAIN (f \o g) : \/ \E j \in DOMAIN f : (f \o g)[i] = f[j]
                                        \/ \E j \in DOMAIN g : (f \o g)[i] = g[j]
      BY <1>7, JoinedLists
    <2>. QED  BY <1>1, <2>1
  <1>. HIDE DEF plan
  <1>11. \A p : IsItem(Person(p)) /\ Person(p).kind = "person" /\ Person(p).person = p
    BY DEF IsItem
  <1>12. \A d : IsItem(Date(d)) /\ Date(d).kind = "date"
    BY DEF IsItem
  <1>. HIDE DEF Person, Date
  <1>13. ItemsOf(plan)
    BY <1>8, <1>9, <1>10, <1>11, <1>12 DEF ItemsOf
  <1>14. ASSUME NEW i \in DOMAIN plan, NEW a \in given, plan[i].kind = "person",
                a.person = plan[i].person
         PROVE  Rested(a, day)
    <2>1. plan[i].person \in people
      BY <1>8, <1>9, <1>10, <1>11, <1>12, <1>14
    <2>2. a.person \notin Briefing!Excluded(day)
      BY <2>1, <1>14
    <2>3. ~(a.action = "snooze" /\ a.until > day) /\ ~(a.action = "dismiss" /\ a.day >= day - Cooldown)
      BY <2>2 DEF Briefing!Excluded
    <2>4. a.day \in Int /\ a.until \in Int /\ Cooldown \in Nat
      BY DEF AnswersFine, BriefAssumption
    <2>. QED  BY <2>3, <2>4 DEF Rested
  <1>. QED  BY <1>13, <1>14 DEF RestOver, plan, first, soon

\* As time passes and the owner answers, what was fine stays so.
LEMMA TimePasses ==
    ASSUME BriefAssumption, NEW at \in Nat, NEW later \in Nat, at <= later, NEW given, NEW more,
           \A a \in more : a \in given \/ (a.day \in Int /\ a.day >= at)
    PROVE  /\ \A r : RunFine(r, at, given) => RunFine(r, later, more)
           /\ \A written : BriefsFine(written, at, given) => BriefsFine(written, later, more)
           /\ \A runs : RunsFine(runs, at, given) => RunsFine(runs, later, more)
  <1>1. ASSUME NEW list, NEW day \in 0 .. at, RestOver(list, day, given)
        PROVE  RestOver(list, day, more)
    <2>1. \A a \in more \ given : Rested(a, day)
      BY DEF Rested
    <2>. QED  BY <1>1, <2>1 DEF RestOver
  <1>2. ASSUME NEW r, RunFine(r, at, given)  PROVE RunFine(r, later, more)
    <2>1. r.stage # "idle" => r.day \in 0 .. at /\ r.day \in 0 .. later
      BY <1>2 DEF RunFine
    <2>2. r.stage = "write" => RestOver(r.plan, r.day, more)
      BY <1>1, <1>2, <2>1 DEF RunFine
    <2>. QED  BY <1>2, <2>1, <2>2 DEF RunFine
  <1>3. ASSUME NEW written, BriefsFine(written, at, given)  PROVE BriefsFine(written, later, more)
    <2>1. ASSUME NEW d \in 0 .. MaxToday
          PROVE  /\ RestOver(written[d], d, more)
                 /\ DOMAIN written[d] # {} => d <= later
      <3>1. RestOver(written[d], d, given) /\ (DOMAIN written[d] # {} => d <= at)
        BY <1>3 DEF BriefsFine
      <3>2. CASE DOMAIN written[d] = {}
        BY <3>2 DEF RestOver
      <3>3. CASE DOMAIN written[d] # {}
        <4>1. d \in 0 .. at /\ d <= later
          BY <3>1, <3>3 DEF BriefAssumption
        <4>. QED  BY <3>1, <4>1, <1>1
      <3>. QED  BY <3>2, <3>3
    <2>. QED  BY <1>3, <2>1 DEF BriefsFine
  <1>4. \A runs : RunsFine(runs, at, given) => RunsFine(runs, later, more)
    BY <1>2 DEF RunsFine
  <1>. QED  BY <1>2, <1>3, <1>4

\* A run that ends or does something else.
LEMMA RunsChange ==
    ASSUME NEW runs, NEW at, NEW given, RunsFine(runs, at, given), NEW g \in Generators,
           NEW r, RunFine(r, at, given)
    PROVE  RunsFine([runs EXCEPT ![g] = r], at, given)
  BY DEF RunsFine

LEMMA RestingFine == \A at, given : RunFine(Briefing!Resting, at, given)
  BY DEF RunFine, Briefing!Resting

\* The runs of a brief.
LEMMA RunStepsKeepBriefs ==
    ASSUME BriefAssumption, BriefInv, NEW g \in Generators,
           \/ Briefing!BeginBrief(g) \/ Briefing!ReadAgain(g) \/ Briefing!PlanBrief(g)
           \/ Briefing!RetryBrief(g) \/ Briefing!AbandonBrief(g)
    PROVE  BriefInv'
  <1>. DEFINE r == generator[g]
  <1>0. /\ RunFine(r, today, answers)
        /\ today \in Nat /\ RunsFine(generator, today, answers)
        /\ DOMAIN generator = Generators
    BY DEF BriefInv, RunsFine, BriefAssumption
  <1>1. UNCHANGED <<today, contacted, done, brief, quests, answers>>
    BY DEF Briefing!BeginBrief, Briefing!ReadAgain, Briefing!PlanBrief, Briefing!RetryBrief,
           Briefing!AbandonBrief
  <1>2. \E new : generator' = [generator EXCEPT ![g] = new] /\ RunFine(new, today, answers)
    <2>1. CASE Briefing!BeginBrief(g)
      <3>. DEFINE new == [Briefing!Resting EXCEPT !.stage = "plan", !.day = today,
                                                  !.seen = Briefing!Read(today)]
      <3>1. generator' = [generator EXCEPT ![g] = new]
        BY <2>1 DEF Briefing!BeginBrief
      <3>2. \E n \in Nat : DOMAIN Briefing!Read(today).dates = 1 .. n
        BY UpcomingList DEF Briefing!Read
      <3>3. /\ new = [field \in {"stage", "day", "retries", "seen", "plan"} |-> new[field]]
            /\ new.stage = "plan" /\ new.day = today /\ new.seen = Briefing!Read(today)
        BY DEF Briefing!Resting
      <3>4. RunFine(new, today, answers)
        <4>. HIDE DEF new
        <4>. QED  BY <3>2, <3>3, <1>0 DEF RunFine
      <3>. QED  BY <3>1, <3>4
    <2>2. CASE Briefing!ReadAgain(g)
      <3>1. CASE brief[r.day] # Briefing!NoBrief
        BY <2>2, <3>1, RestingFine DEF Briefing!ReadAgain
      <3>2. CASE ~(brief[r.day] # Briefing!NoBrief)
        <4>. DEFINE new == [r EXCEPT !.stage = "plan", !.seen = Briefing!Read(r.day)]
        <4>1. generator' = [generator EXCEPT ![g].stage = "plan", ![g].seen = Briefing!Read(r.day)]
          BY <2>2, <3>2 DEF Briefing!ReadAgain
        <4>2. generator' = [generator EXCEPT ![g] = new]
          BY <4>1, <1>0
        <4>3. \E n \in Nat : DOMAIN Briefing!Read(r.day).dates = 1 .. n
          BY UpcomingList DEF Briefing!Read
        <4>4. r.stage = "again"
          BY <2>2 DEF Briefing!ReadAgain
        <4>5. /\ r = [field \in {"stage", "day", "retries", "seen", "plan"} |-> r[field]]
              /\ r.day \in 0 .. today
          BY <1>0, <4>4 DEF RunFine
        <4>6. /\ new = [field \in {"stage", "day", "retries", "seen", "plan"} |-> new[field]]
              /\ new.stage = "plan" /\ new.day = r.day /\ new.seen = Briefing!Read(r.day)
          BY <4>5
        <4>7. RunFine(new, today, answers)
          <5>. HIDE DEF new
          <5>. QED  BY <4>3, <4>5, <4>6 DEF RunFine
        <4>. QED  BY <4>2, <4>7
      <3>. QED  BY <3>1, <3>2
    <2>3. CASE Briefing!PlanBrief(g)
      <3>1. r.stage = "plan"
        BY <2>3 DEF Briefing!PlanBrief
      <3>2. PICK ranked \in Briefing!RankedPeople(People \ Briefing!Excluded(r.day), r.seen, r.day) :
              generator' = [generator EXCEPT ![g].stage = "write", ![g].seen = Briefing!Nil,
                               ![g].plan = Briefing!PlanItems(Briefing!Take(ranked, PersonLimit),
                                              Briefing!Take(r.seen.dates, DateLimit), r.seen.pending)]
        BY <2>3 DEF Briefing!PlanBrief
      <3>. DEFINE plan == Briefing!PlanItems(Briefing!Take(ranked, PersonLimit),
                                             Briefing!Take(r.seen.dates, DateLimit), r.seen.pending)
                  new == [r EXCEPT !.stage = "write", !.seen = Briefing!Nil, !.plan = plan]
      <3>3. generator' = [generator EXCEPT ![g] = new]
        BY <3>2, <1>0
      <3>4. /\ r = [field \in {"stage", "day", "retries", "seen", "plan"} |-> r[field]]
            /\ r.day \in 0 .. today /\ \E n \in Nat : DOMAIN r.seen.dates = 1 .. n
        BY <1>0, <3>1 DEF RunFine
      <3>5. AnswersFine(answers, today) /\ r.day \in Nat
        BY <3>4, <1>0 DEF BriefInv
      <3>6. ItemsOf(plan) /\ RestOver(plan, r.day, answers)
        BY <3>4, <3>5, PlansAreItems
      <3>. HIDE DEF plan
      <3>7. /\ new = [field \in {"stage", "day", "retries", "seen", "plan"} |-> new[field]]
            /\ new.stage = "write" /\ new.day = r.day /\ new.plan = plan
        BY <3>4
      <3>8. RunFine(new, today, answers)
        <4>. HIDE DEF new
        <4>. QED  BY <3>4, <3>6, <3>7 DEF RunFine
      <3>. QED  BY <3>3, <3>8
    <2>4. CASE Briefing!RetryBrief(g)
      <3>. DEFINE new == [r EXCEPT !.stage = "again", !.plan = <<>>, !.retries = r.retries + 1]
      <3>1. \/ generator' = [generator EXCEPT ![g] = Briefing!Resting]
            \/ generator' = [generator EXCEPT ![g] = new]
        <4>1. generator' = [generator EXCEPT ![g] =
                 IF r.retries = MaxRetries THEN Briefing!Resting ELSE new]
          BY <2>4, <1>0 DEF Briefing!RetryBrief
        <4>. QED  BY <4>1
      <3>2. r.stage = "write"
        BY <2>4 DEF Briefing!RetryBrief
      <3>3. /\ r = [field \in {"stage", "day", "retries", "seen", "plan"} |-> r[field]]
            /\ r.day \in 0 .. today
        BY <1>0, <3>2 DEF RunFine
      <3>4. /\ new = [field \in {"stage", "day", "retries", "seen", "plan"} |-> new[field]]
            /\ new.stage = "again" /\ new.day = r.day
        BY <3>3
      <3>5. RunFine(new, today, answers)
        <4>. HIDE DEF new
        <4>. QED  BY <3>3, <3>4 DEF RunFine
      <3>. QED  BY <3>1, <3>5, RestingFine
    <2>5. CASE Briefing!AbandonBrief(g)
      BY <2>5, RestingFine DEF Briefing!AbandonBrief
    <2>. QED  BY <2>1, <2>2, <2>3, <2>4, <2>5
  <1>3. RunsFine(generator', today, answers)
    <2>1. PICK new : generator' = [generator EXCEPT ![g] = new] /\ RunFine(new, today, answers)
      BY <1>2
    <2>. QED  BY <1>0, <2>1, RunsChange
  <1>. QED  BY <1>1, <1>3 DEF BriefInv

\* New quests are for what no open quest is for.
LEMMA NewQuestsAreNew ==
    ASSUME BriefInv, NEW g \in Generators, generator[g].stage = "write"
    PROVE  QuestsFine(quests \cup Briefing!NewQuests(g))
  <1>. DEFINE plan == generator[g].plan
              new == Briefing!NewQuests(g)
              pending == Briefing!PendingTargets
  <1>1. ItemsOf(plan) /\ QuestsFine(quests)
    BY DEF BriefInv, RunsFine, RunFine
  <1>2. PICK first : /\ first \subseteq {i \in DOMAIN plan : plan[i].quest \ pending # {}}
                     /\ new = {[target |-> t, brief |-> generator[g].day, day |-> today,
                                status |-> "pending"] : t \in UNION {plan[i].quest : i \in first}}
    BY DEF Briefing!NewQuests, Briefing!PendingAtWrite
  <1>3. ASSUME NEW i \in first, NEW t \in plan[i].quest  PROVE t \notin pending
    <2>1. PICK u : plan[i].quest \subseteq {u}
      BY <1>1, <1>2 DEF ItemsOf, IsItem
    <2>2. plan[i].quest \ pending # {}
      BY <1>2
    <2>. QED  BY <2>1, <2>2
  <1>. HIDE DEF plan, new
  <1>4. ASSUME NEW q \in new
        PROVE  /\ q = [field \in {"target", "brief", "day", "status"} |-> q[field]]
               /\ q.status = "pending" /\ q.target \notin pending
               /\ q.brief = generator[g].day /\ q.day = today
    <2>1. PICK t \in UNION {plan[i].quest : i \in first} :
             q = [target |-> t, brief |-> generator[g].day, day |-> today, status |-> "pending"]
      BY <1>2
    <2>. QED  BY <2>1, <1>3
  <1>5. \A q \in quests : q.status = "pending" => q.target \in pending
    BY DEF Briefing!PendingTargets
  <1>6. ASSUME NEW q \in new, NEW r \in new, q.target = r.target  PROVE q = r
    <2>. DEFINE fields == {"target", "brief", "day", "status"}
    <2>1. q = [field \in fields |-> q[field]] /\ r = [field \in fields |-> r[field]]
      BY <1>4
    <2>2. \A field \in fields : q[field] = r[field]
      BY <1>4, <1>6
    <2>. QED  BY <2>1, <2>2
  <1>. HIDE DEF pending
  <1>7. \A q \in quests \cup new : q = [field \in {"target", "brief", "day", "status"} |-> q[field]]
    BY <1>1, <1>4 DEF QuestsFine
  <1>8. ASSUME NEW q \in quests \cup new, NEW r \in quests \cup new,
               q.status = "pending", r.status = "pending", q.target = r.target
        PROVE  q = r
    BY <1>1, <1>4, <1>5, <1>6, <1>8 DEF QuestsFine
  <1>. QED  BY <1>7, <1>8 DEF QuestsFine, new

LEMMA WriteKeepsBriefs ==
    ASSUME BriefAssumption, BriefInv, NEW g \in Generators, Briefing!WriteBrief(g)
    PROVE  BriefInv'
  <1>. DEFINE r == generator[g]
  <1>1. /\ r.stage = "write" /\ UNCHANGED <<today, contacted, done, answers>>
        /\ generator' = [generator EXCEPT ![g] = Briefing!Resting]
        /\ \/ UNCHANGED <<brief, quests>>
           \/ /\ brief' = [brief EXCEPT ![r.day] = r.plan]
              /\ quests' = quests \cup Briefing!NewQuests(g)
    BY DEF Briefing!WriteBrief
  <1>2. RunsFine(generator', today, answers)
    BY <1>1, RunsChange, RestingFine DEF BriefInv
  <1>3. QuestsFine(quests')
    BY <1>1, NewQuestsAreNew DEF BriefInv
  <1>4. BriefsFine(brief', today, answers)
    <2>1. /\ BriefsFine(brief, today, answers)
          /\ ItemsOf(r.plan) /\ RestOver(r.plan, r.day, answers) /\ r.day <= today
      BY <1>1 DEF BriefInv, RunsFine, RunFine
    <2>. HIDE DEF r
    <2>2. BriefsFine([brief EXCEPT ![r.day] = r.plan], today, answers)
      BY <2>1 DEF BriefsFine
    <2>. QED  BY <1>1, <2>1, <2>2
  <1>. QED  BY <1>1, <1>2, <1>3, <1>4 DEF BriefInv

LEMMA AnswerKeepsBriefs ==
    ASSUME BriefAssumption, BriefInv, NEW day \in 0 .. MaxToday, NEW i \in DOMAIN brief[day],
           NEW action, NEW until \in 1 .. MaxToday + 1,
           Briefing!AnswerItem(day, i, action, until)
    PROVE  BriefInv'
  <1>. DEFINE a == [person |-> brief[day][i].person, action |-> action, day |-> today,
                    until |-> IF action = "snooze" THEN until ELSE Briefing!Nil]
              changed == [brief[day][i] EXCEPT !.status = Briefing!StatusAfter[action]]
              list == [brief[day] EXCEPT ![i] = changed]
  <1>1. /\ UNCHANGED <<today, contacted, done, quests, generator>>
        /\ brief' = [brief EXCEPT ![day][i].status = Briefing!StatusAfter[action]]
        /\ answers' = answers \cup {a}
    BY DEF Briefing!AnswerItem
  <1>2. today \in Nat /\ MaxToday \in Nat
    BY DEF BriefInv, BriefAssumption
  <1>3. a.day = today /\ a.day \in 0 .. today /\ a.until \in Int
    BY <1>2 DEF Briefing!Nil
  <1>. HIDE DEF a
  <1>4. AnswersFine(answers', today)
    BY <1>1, <1>3 DEF AnswersFine, BriefInv
  <1>5. \A b \in answers' : b \in answers \/ (b.day \in Int /\ b.day >= today)
    BY <1>1, <1>2, <1>3
  <1>6. RunsFine(generator', today, answers') /\ BriefsFine(brief, today, answers')
    <2>1. RunsFine(generator, today, answers) /\ BriefsFine(brief, today, answers)
      BY DEF BriefInv
    <2>2. \A runs : RunsFine(runs, today, answers) => RunsFine(runs, today, answers')
      BY <1>2, <1>5, TimePasses
    <2>3. \A written : BriefsFine(written, today, answers) => BriefsFine(written, today, answers')
      BY <1>2, <1>5, TimePasses
    <2>. QED  BY <1>1, <2>1, <2>2, <2>3
  <1>7. /\ brief = [d \in 0 .. MaxToday |-> brief[d]]
        /\ ItemsOf(brief[day]) /\ RestOver(brief[day], day, answers')
        /\ DOMAIN brief[day] # {} => day <= today
    BY <1>6 DEF BriefsFine
  <1>8. brief' = [brief EXCEPT ![day] = list]
    BY <1>1, <1>7
  <1>9. /\ IsItem(changed) /\ changed.kind = brief[day][i].kind
        /\ changed.person = brief[day][i].person
    <2>1. IsItem(brief[day][i])
      BY <1>7 DEF ItemsOf
    <2>2. brief[day][i] = [field \in {"kind", "person", "status", "quest"} |-> brief[day][i][field]]
      BY <2>1 DEF IsItem
    <2>3. /\ changed = [field \in {"kind", "person", "status", "quest"} |-> changed[field]]
          /\ changed.quest = brief[day][i].quest
          /\ changed.kind = brief[day][i].kind /\ changed.person = brief[day][i].person
      BY <2>2
    <2>. HIDE DEF changed
    <2>. QED  BY <2>1, <2>3 DEF IsItem
  <1>. HIDE DEF changed
  <1>10. /\ DOMAIN list = DOMAIN brief[day] /\ list = [k \in DOMAIN list |-> list[k]]
         /\ \A k \in DOMAIN list : list[k] = IF k = i THEN changed ELSE brief[day][k]
    BY <1>7 DEF ItemsOf
  <1>. HIDE DEF list
  <1>11. ItemsOf(list)
    BY <1>7, <1>9, <1>10 DEF ItemsOf
  <1>12. RestOver(list, day, answers')
    BY <1>7, <1>9, <1>10 DEF RestOver
  <1>13. BriefsFine(brief', today, answers')
    BY <1>6, <1>7, <1>8, <1>10, <1>11, <1>12 DEF BriefsFine
  <1>. QED  BY <1>1, <1>4, <1>6, <1>13 DEF BriefInv

LEMMA BriefInvariant ==
    ASSUME BriefAssumption
    PROVE  Briefing!Spec => []BriefInv
  <1>1. Briefing!Init => BriefInv
    <2>. SUFFICES ASSUME Briefing!Init  PROVE BriefInv
      OBVIOUS
    <2>1. BriefsFine(brief, 0, {})
      BY DEF Briefing!Init, BriefsFine, Briefing!NoBrief, ItemsOf, RestOver
    <2>2. RunsFine(generator, 0, {})
      BY RestingFine DEF Briefing!Init, RunsFine
    <2>. QED  BY <2>1, <2>2 DEF Briefing!Init, BriefInv, QuestsFine, AnswersFine, BriefAssumption
  <1>2. ASSUME BriefInv, [Briefing!Next]_(Briefing!briefVars)  PROVE BriefInv'
    <2>1. CASE \E g \in Generators :
                  \/ Briefing!BeginBrief(g) \/ Briefing!ReadAgain(g) \/ Briefing!PlanBrief(g)
                  \/ Briefing!WriteBrief(g) \/ Briefing!RetryBrief(g) \/ Briefing!AbandonBrief(g)
      BY <1>2, <2>1, RunStepsKeepBriefs, WriteKeepsBriefs
    <2>2. CASE \E day \in 0 .. MaxToday : \E i \in DOMAIN brief[day] :
                  \E action \in DOMAIN Briefing!StatusAfter : \E until \in 1 .. MaxToday + 1 :
                      Briefing!AnswerItem(day, i, action, until)
      BY <1>2, <2>2, AnswerKeepsBriefs
    <2>3. CASE \/ \E p \in Met : Briefing!Interact(p)
               \/ \E r \in Briefing!Reminders : Briefing!CompleteReminder(r)
      <3>1. UNCHANGED <<today, brief, quests, answers, generator>>
        BY <2>3 DEF Briefing!Interact, Briefing!CompleteReminder
      <3>. QED  BY <1>2, <3>1 DEF BriefInv
    <2>4. CASE \E q \in quests : Briefing!CompleteQuest(q)
      <3>1. PICK q \in quests : Briefing!CompleteQuest(q)
        BY <2>4
      <3>. DEFINE finished == [q EXCEPT !.status = "completed"]
      <3>2. /\ UNCHANGED <<today, brief, answers, generator>>
            /\ quests' = (quests \ {q}) \cup {finished}
        BY <3>1 DEF Briefing!CompleteQuest
      <3>3. q = [field \in {"target", "brief", "day", "status"} |-> q[field]]
        BY <1>2 DEF BriefInv, QuestsFine
      <3>4. /\ finished = [field \in {"target", "brief", "day", "status"} |-> finished[field]]
            /\ finished.status = "completed"
        BY <3>3
      <3>. HIDE DEF finished
      <3>5. QuestsFine(quests')
        BY <1>2, <3>2, <3>4 DEF BriefInv, QuestsFine
      <3>. QED  BY <1>2, <3>2, <3>5 DEF BriefInv
    <2>5. CASE Briefing!NextDay
      <3>1. UNCHANGED <<brief, quests, answers, generator>> /\ today' = today + 1 /\ today < MaxToday
        BY <2>5 DEF Briefing!NextDay
      <3>2. today \in Nat /\ today' \in 0 .. MaxToday /\ today <= today' /\ today' \in Nat
        BY <1>2, <3>1 DEF BriefInv, BriefAssumption
      <3>3. BriefsFine(brief, today', answers) /\ RunsFine(generator, today', answers)
        BY <1>2, <3>2, TimePasses DEF BriefInv
      <3>4. AnswersFine(answers, today')
        BY <1>2, <3>2 DEF BriefInv, AnswersFine
      <3>. QED  BY <1>2, <3>1, <3>2, <3>3, <3>4 DEF BriefInv
    <2>6. CASE UNCHANGED Briefing!briefVars
      BY <1>2, <2>6 DEF Briefing!briefVars, BriefInv
    <2>. QED  BY <1>2, <2>1, <2>2, <2>3, <2>4, <2>5, <2>6 DEF Briefing!Next
  <1>3. BriefInv /\ [Briefing!Next]_(Briefing!briefVars) => BriefInv'
    BY <1>2
  <1>. QED  BY <1>1, <1>3, PTL DEF Briefing!Spec

\* Of what is to be done for one person or reminder one quest is open, and who was put off
\* is left in peace for as long as that lasts, whichever generators write the brief of a day.
THEOREM OneQuestOpen ==
    ASSUME BriefAssumption
    PROVE  Briefing!Spec => [](Briefing!OneOpenQuest /\ Briefing!RestIsKept)
  <1>1. BriefInv => Briefing!OneOpenQuest
    BY DEF BriefInv, QuestsFine, Briefing!OneOpenQuest
  <1>2. BriefInv => Briefing!RestIsKept
    BY DEF BriefInv, BriefsFine, RestOver, Rested, Briefing!RestIsKept
  <1>. QED  BY <1>1, <1>2, BriefInvariant, PTL

-----------------------------------------------------------------------------
IsList(s) == \E S : s \in Seq(S)

\* A list that something is appended to.
LEMMA ListGrows ==
    ASSUME NEW s, IsList(s), NEW e
    PROVE  /\ IsList(Append(s, e)) /\ Len(s) \in Nat /\ DOMAIN s = 1 .. Len(s)
           /\ Len(Append(s, e)) = Len(s) + 1 /\ DOMAIN Append(s, e) = 1 .. Len(s) + 1
           /\ \A i \in 1 .. Len(s) : Append(s, e)[i] = s[i]
           /\ Append(s, e)[Len(s) + 1] = e
  <1>1. PICK S : s \in Seq(S)
    BY DEF IsList
  <1>2. s \in Seq(S \cup {e})
    BY <1>1, SeqMonotonic
  <1>3. Append(s, e) \in Seq(S \cup {e})
    BY <1>2
  <1>. QED  BY <1>2, <1>3 DEF IsList

\* A list with other elements in their places.
LEMMA ListChanges ==
    ASSUME NEW s, IsList(s), NEW t, DOMAIN t = DOMAIN s, t = [i \in DOMAIN t |-> t[i]]
    PROVE  IsList(t) /\ Len(t) = Len(s)
  <1>1. Len(s) \in Nat /\ DOMAIN s = 1 .. Len(s)
    BY ListGrows
  <1>2. t \in [1 .. Len(s) -> {t[i] : i \in DOMAIN t}]
    BY <1>1
  <1>3. t \in Seq({t[i] : i \in DOMAIN t})
    BY <1>1, <1>2, IsASeq
  <1>. QED  BY <1>1, <1>3 DEF IsList
-----------------------------------------------------------------------------
(* The page of today.  A key is the number of the request it was made for, *)
(* and is used for requests of that kind only.  A dialog keeps the key of  *)
(* what it has logged until the answer comes, so what is sent again has    *)
(* the key that the server knows.                                          *)
CONSTANTS Items, Texts, HasQuest, Actions, HasReminder, MaxRequests
VARIABLES server, page, dialog, requests, crossed
Viewing == INSTANCE Cockpit

Stages == {"sent", "served", "given up", "over"}
Keyed == {"feedback", "log", "complete"}
Own(kind) ==
    IF kind = "feedback" THEN {"item", "action", "key"}
    ELSE IF kind = "log" THEN {"open", "text", "key"}
    ELSE IF kind = "complete" THEN {"open", "evidence", "key"} ELSE {}

\* A request has its fields until it is over.
IsRequest(q) ==
    /\ q = [field \in DOMAIN q |-> q[field]] /\ q.stage \in Stages
    /\ {"kind", "stage"} \subseteq DOMAIN q
    /\ q.stage # "over" => DOMAIN q = {"kind", "stage", "ok", "data"} \cup Own(q.kind)

Asked(asked) == IsList(asked) /\ \A r \in DOMAIN asked : IsRequest(asked[r])

\* A request on its way: what it is does not change, nor does it come back when it is over.
Goes(q, p) ==
    /\ p.kind = q.kind
    /\ p.stage # "over" =>
          /\ q.stage # "over"
          /\ p.kind \in Keyed => p.key = q.key
          /\ p.kind = "log" => p.open = q.open /\ p.text = q.text
          /\ p.kind = "complete" => p.evidence = q.evidence

\* What was answered is as it was, or was not asked before.
Same(q, p) == p.stage = "served" => q.stage = "served" /\ p.ok = q.ok /\ p.data = q.data

Goon(old, new) ==
    /\ Asked(new) /\ DOMAIN old \subseteq DOMAIN new /\ Len(old) <= Len(new)
    /\ \A r \in DOMAIN old : Goes(old[r], new[r])

\* Records of the state.
IsPage(p) ==
    /\ p = [field \in {"brief", "reminders", "busyItem", "busyReminder", "generating",
                       "intents", "receipt"} |-> p[field]]
IsDialog(d) ==
    /\ d = [field \in {"open", "busy", "text", "evidence", "intents"} |-> d[field]]
    /\ d.evidence \in Nat
IsServer(s) ==
    /\ s = [field \in {"items", "generated", "reminder", "quest", "logged", "answers"} |-> s[field]]
    /\ IsList(s.logged)

\* The keys.
KeysOf(asked, kept, kind) ==
    \A known \in kept : /\ known.key \in DOMAIN asked
                        /\ asked[known.key].kind = kind
DialogKeys(asked, kept) ==
    /\ \A known \in kept : /\ known = [intent |-> known.intent, key |-> known.key]
                           /\ known.key \in DOMAIN asked /\ known.intent[1] \in {"log", "complete"}
                           /\ asked[known.key].kind = known.intent[1]
    /\ \A known, other \in kept : known.intent = other.intent => known = other

KeysFine(asked) ==
    \A r \in DOMAIN asked :
        asked[r].kind \in Keyed /\ asked[r].stage # "over" =>
            asked[r].key \in DOMAIN asked /\ asked[asked[r].key].kind = asked[r].kind

KnownFine(asked, s) ==
    \A a \in s.answers :
        /\ a.key \in DOMAIN asked /\ asked[a.key].kind \in Keyed
        /\ asked[a.key].kind = "log" => a.data \in Nat \ {0}
        /\ asked[a.key].kind = "complete" => a.data = s.quest /\ s.quest # 0

\* What requests of a dialog say and are told.
ToldFine(asked, verified) ==
    \A r \in DOMAIN asked :
        /\ asked[r].kind = "log" /\ asked[r].stage = "served" /\ asked[r].ok =>
               asked[r].data \in Nat \ {0}
        /\ asked[r].kind = "complete" /\ asked[r].stage # "over" => asked[r].evidence \in Nat \ {0}
        /\ asked[r].kind = "complete" /\ asked[r].stage = "served" /\ asked[r].ok =>
               asked[r].data = verified /\ verified # 0

Logs(asked) == {r \in DOMAIN asked : asked[r].kind = "log" /\ asked[r].stage # "over"}
Entry(q) == [open |-> q.open, text |-> q.text]
IsKnown(s, key) == \E a \in s.answers : a.key = key
LogIntent(text) == <<"log", text>>

LogsFine(asked, s) ==
    /\ \A r \in Logs(asked) : asked[r].open \in 1 .. Len(asked)
    /\ \A r, t \in Logs(asked) : Entry(asked[r]) = Entry(asked[t]) => asked[r].key = asked[t].key
    /\ \A i \in DOMAIN s.logged : s.logged[i].open \in 1 .. Len(asked)
    /\ \A r \in Logs(asked) : \A i \in DOMAIN s.logged :
           s.logged[i] = Entry(asked[r]) => IsKnown(s, asked[r].key)
    /\ \A i, j \in DOMAIN s.logged : i # j => s.logged[i] # s.logged[j]
    /\ \A i \in DOMAIN s.logged : s.logged[i] = Entry(s.logged[i])

\* The dialog that is open knows the keys of what was sent from it.
FormFine(asked, d, s) ==
    d.evidence = 0 =>
        /\ \A r \in Logs(asked) : asked[r].open = d.open =>
               [intent |-> LogIntent(asked[r].text), key |-> asked[r].key] \in d.intents
        /\ \A i \in DOMAIN s.logged : s.logged[i].open = d.open =>
               \E known \in d.intents : known.intent = LogIntent(s.logged[i].text)
                                        /\ IsKnown(s, known.key)

OpenFine(asked, d) == d.open \in 0 .. Len(asked) + 1

PaidFine(p, s) == p.receipt # 0 => s.quest = p.receipt

KeyInv ==
    /\ Asked(requests) /\ IsPage(page) /\ IsDialog(dialog) /\ IsServer(server)
    /\ KeysOf(requests, page.intents, "feedback") /\ DialogKeys(requests, dialog.intents)
    /\ KeysFine(requests) /\ KnownFine(requests, server) /\ ToldFine(requests, server.quest)
    /\ LogsFine(requests, server) /\ FormFine(requests, dialog, server) /\ PaidFine(page, server)
    /\ OpenFine(requests, dialog)

-----------------------------------------------------------------------------
\* Requests go on, and those that are new have no keys.
LEMMA Passes ==
    ASSUME Asked(requests), NEW asked, Goon(requests, asked),
           \A r \in DOMAIN asked \ DOMAIN requests : asked[r].kind \notin Keyed, NEW s
    PROVE  /\ KnownFine(requests, s) => KnownFine(asked, s)
           /\ LogsFine(requests, s) => LogsFine(asked, s)
           /\ \A d : FormFine(requests, d, s) => FormFine(asked, d, s)
  <1>1. \A r \in DOMAIN requests : r \in DOMAIN asked /\ asked[r].kind = requests[r].kind
    BY DEF Goon, Goes
  <1>2. KnownFine(requests, s) => KnownFine(asked, s)
    BY <1>1 DEF KnownFine
  <1>3. ASSUME NEW r \in Logs(asked)
        PROVE  /\ r \in Logs(requests) /\ asked[r].key = requests[r].key
               /\ asked[r].open = requests[r].open /\ asked[r].text = requests[r].text
               /\ Entry(asked[r]) = Entry(requests[r])
    BY DEF Logs, Keyed, Entry, Goon, Goes
  <1>4. ASSUME LogsFine(requests, s)  PROVE LogsFine(asked, s)
    <2>1. Len(requests) <= Len(asked) /\ Len(requests) \in Nat /\ Len(asked) \in Nat
      BY ListGrows DEF Goon, Asked
    <2>. QED  BY <1>3, <1>4, <2>1 DEF LogsFine
  <1>5. \A d : FormFine(requests, d, s) => FormFine(asked, d, s)
    BY <1>3 DEF FormFine
  <1>. QED  BY <1>2, <1>4, <1>5

LEMMA WithoutKeys ==
    ASSUME KeyInv, NEW asked, Goon(requests, asked),
           \A r \in DOMAIN asked \ DOMAIN requests : asked[r].kind \notin Keyed
    PROVE  /\ KeysOf(asked, page.intents, "feedback") /\ DialogKeys(asked, dialog.intents)
           /\ KeysFine(asked) /\ KnownFine(asked, server) /\ OpenFine(asked, dialog)
           /\ LogsFine(asked, server) /\ FormFine(asked, dialog, server)
           /\ (\A r \in DOMAIN requests : Same(requests[r], asked[r])) =>
                 ToldFine(asked, server.quest)
  <1>1. \A r \in DOMAIN requests : r \in DOMAIN asked /\ asked[r].kind = requests[r].kind
    BY DEF Goon, Goes
  <1>2. KeysOf(asked, page.intents, "feedback") /\ DialogKeys(asked, dialog.intents)
    BY <1>1 DEF KeyInv, KeysOf, DialogKeys
  <1>3. ASSUME NEW r \in DOMAIN asked, asked[r].kind \in Keyed, asked[r].stage # "over"
        PROVE  /\ r \in DOMAIN requests /\ requests[r].stage # "over" /\ asked[r].key = requests[r].key
               /\ asked[r].kind = requests[r].kind
               /\ asked[r].kind = "complete" => asked[r].evidence = requests[r].evidence
    BY <1>3 DEF Goon, Goes
  <1>4. KeysFine(asked)
    BY <1>1, <1>3 DEF KeyInv, KeysFine
  <1>5. ASSUME \A r \in DOMAIN requests : Same(requests[r], asked[r])
        PROVE  ToldFine(asked, server.quest)
    <2>1. ASSUME NEW r \in DOMAIN asked, asked[r].kind \in {"log", "complete"}, asked[r].stage = "served"
          PROVE  r \in DOMAIN requests /\ requests[r].stage = "served" /\ asked[r].kind = requests[r].kind
                 /\ asked[r].ok = requests[r].ok /\ asked[r].data = requests[r].data
      BY <1>3, <1>5, <2>1 DEF Same, Keyed
    <2>2. ASSUME NEW r \in DOMAIN asked, asked[r].kind = "complete", asked[r].stage # "over"
          PROVE  asked[r].evidence \in Nat \ {0}
      BY <1>3, <2>2 DEF Keyed, KeyInv, ToldFine
    <2>. QED  BY <2>1, <2>2 DEF KeyInv, ToldFine
  <1>6. KnownFine(asked, server) /\ LogsFine(asked, server) /\ FormFine(asked, dialog, server)
    BY Passes DEF KeyInv
  <1>7. OpenFine(asked, dialog)
    <2>1. Len(requests) <= Len(asked) /\ Len(requests) \in Nat /\ Len(asked) \in Nat
      BY ListGrows DEF Goon, KeyInv, Asked
    <2>. QED  BY <2>1 DEF KeyInv, OpenFine
  <1>. QED  BY <1>2, <1>4, <1>5, <1>6, <1>7

LEMMA AtMostItself == \A n \in Nat : n <= n
  OBVIOUS

\* A request is over or given up, and nothing else changes.
LEMMA Marked ==
    ASSUME Asked(requests), NEW r \in DOMAIN requests, requests[r].stage # "over",
           NEW stage \in {"over", "given up"}
    PROVE  /\ Goon(requests, Viewing!Mark(r, stage))
           /\ DOMAIN Viewing!Mark(r, stage) = DOMAIN requests
           /\ Len(Viewing!Mark(r, stage)) = Len(requests)
           /\ \A k \in DOMAIN requests : Same(requests[k], Viewing!Mark(r, stage)[k])
           /\ \A k \in DOMAIN requests \ {r} : Viewing!Mark(r, stage)[k] = requests[k]
           /\ Viewing!Mark(r, stage)[r].stage = stage
           /\ Viewing!Mark(r, stage)[r].kind = requests[r].kind
  <1>. DEFINE q == requests[r]
              p == IF stage = "over" THEN [kind |-> q.kind, stage |-> stage]
                   ELSE [q EXCEPT !.stage = stage]
              asked == Viewing!Mark(r, stage)
  <1>1. asked = [requests EXCEPT ![r] = p]
    BY DEF Viewing!Mark
  <1>2. IsList(requests) /\ DOMAIN requests = 1 .. Len(requests) /\ Len(requests) \in Nat
    BY ListGrows DEF Asked
  <1>3. DOMAIN asked = DOMAIN requests /\ asked = [k \in DOMAIN asked |-> asked[k]]
    BY <1>1
  <1>4. IsList(asked) /\ Len(asked) = Len(requests)
    BY <1>2, <1>3, ListChanges
  <1>5. asked[r] = p /\ \A k \in DOMAIN requests \ {r} : asked[k] = requests[k]
    BY <1>1
  <1>. HIDE DEF asked
  <1>6. IsRequest(q)
    BY DEF Asked
  <1>7. IsRequest(p) /\ Goes(q, p) /\ Same(q, p) /\ p.stage = stage /\ p.kind = q.kind
    <2>1. CASE stage = "over"
      <3>1. p = [kind |-> q.kind, stage |-> stage]
        BY <2>1
      <3>. HIDE DEF p, q
      <3>2. p = [field \in DOMAIN p |-> p[field]] /\ DOMAIN p = {"kind", "stage"}
        BY <3>1
      <3>3. p.stage = stage /\ p.kind = q.kind
        BY <3>1
      <3>. QED  BY <2>1, <3>2, <3>3 DEF IsRequest, Goes, Same, Stages
    <2>2. CASE stage = "given up"
      <3>1. p = [q EXCEPT !.stage = stage]
        BY <2>2
      <3>2. /\ q = [field \in DOMAIN q |-> q[field]]
            /\ DOMAIN q = {"kind", "stage", "ok", "data"} \cup Own(q.kind)
        BY <1>6 DEF IsRequest
      <3>. HIDE DEF p, q
      <3>3. /\ p = [field \in DOMAIN p |-> p[field]] /\ DOMAIN p = DOMAIN q
            /\ p.stage = stage /\ \A field \in DOMAIN q \ {"stage"} : p[field] = q[field]
        BY <3>1, <3>2
      <3>4. p.kind = q.kind
        BY <3>2, <3>3
      <3>5. IsRequest(p)
        BY <1>6, <2>2, <3>2, <3>3, <3>4 DEF IsRequest, Stages
      <3>6. /\ q.kind \in Keyed => p.key = q.key
            /\ q.kind = "log" => p.open = q.open /\ p.text = q.text
            /\ q.kind = "complete" => p.evidence = q.evidence
        BY <3>2, <3>3 DEF Own, Keyed
      <3>7. q.stage # "over"
        BY DEF q
      <3>. QED  BY <2>2, <3>3, <3>4, <3>5, <3>6, <3>7 DEF Goes, Same
    <2>. QED  BY <2>1, <2>2
  <1>. HIDE DEF p
  <1>8. \A k \in DOMAIN requests : Goes(requests[k], asked[k]) /\ Same(requests[k], asked[k])
                                   /\ IsRequest(asked[k])
    <2>1. \A k \in DOMAIN requests : Goes(requests[k], requests[k]) /\ Same(requests[k], requests[k])
                                     /\ IsRequest(requests[k])
      BY DEF Goes, Same, Asked
    <2>. QED  BY <1>5, <1>7, <2>1
  <1>9. Goon(requests, asked)
    <2>1. Asked(asked)
      BY <1>3, <1>4, <1>8 DEF Asked
    <2>2. Len(requests) <= Len(asked)
      <3>1. Len(requests) \in Nat
        BY <1>2
      <3>. QED  BY <1>4, <3>1, AtMostItself
    <2>. QED  BY <1>3, <1>8, <2>1, <2>2 DEF Goon
  <1>. QED  BY <1>3, <1>4, <1>5, <1>7, <1>8, <1>9 DEF asked

\* Another request is sent.
LEMMA Sent ==
    ASSUME NEW old, Asked(old), NEW asked, Goon(old, asked), NEW q, IsRequest(q)
    PROVE  /\ Goon(old, Append(asked, q)) /\ Goon(asked, Append(asked, q))
           /\ Len(asked) \in Nat /\ Len(Append(asked, q)) = Len(asked) + 1
           /\ DOMAIN Append(asked, q) = DOMAIN asked \cup {Len(asked) + 1}
           /\ Len(asked) + 1 \notin DOMAIN asked
           /\ \A r \in DOMAIN asked : Append(asked, q)[r] = asked[r]
           /\ Append(asked, q)[Len(asked) + 1] = q
  <1>1. IsList(asked) /\ IsList(old)
    BY DEF Goon, Asked
  <1>2. /\ IsList(Append(asked, q)) /\ Len(asked) \in Nat /\ DOMAIN asked = 1 .. Len(asked)
        /\ Len(Append(asked, q)) = Len(asked) + 1 /\ DOMAIN Append(asked, q) = 1 .. Len(asked) + 1
        /\ \A i \in 1 .. Len(asked) : Append(asked, q)[i] = asked[i]
        /\ Append(asked, q)[Len(asked) + 1] = q
        /\ Len(old) \in Nat
    BY <1>1, ListGrows
  <1>. DEFINE longer == Append(asked, q)
  <1>. HIDE DEF longer
  <1>3. DOMAIN longer = DOMAIN asked \cup {Len(asked) + 1} /\ Len(asked) + 1 \notin DOMAIN asked
    BY <1>2 DEF longer
  <1>4. \A r \in DOMAIN asked : longer[r] = asked[r]
    BY <1>2 DEF longer
  <1>5. Asked(longer)
    <2>1. IsList(longer) /\ longer[Len(asked) + 1] = q
      BY <1>2 DEF longer
    <2>2. \A r \in DOMAIN asked : IsRequest(asked[r])
      BY DEF Goon, Asked
    <2>. QED  BY <1>3, <1>4, <2>1, <2>2 DEF Asked
  <1>6. Goon(asked, longer)
    <2>1. Len(asked) <= Len(longer)
      BY <1>2 DEF longer
    <2>. QED  BY <1>3, <1>4, <1>5, <2>1 DEF Goon, Goes
  <1>7. Goon(old, longer)
    <2>1. Len(old) <= Len(longer)
      BY <1>2 DEF Goon, longer
    <2>. QED  BY <1>3, <1>4, <1>5, <2>1 DEF Goon
  <1>. QED  BY <1>2, <1>3, <1>4, <1>6, <1>7 DEF longer

\* A list goes on as itself.
LEMMA GoesOnAsIs == ASSUME NEW asked, Asked(asked)  PROVE Goon(asked, asked)
  <1>1. Len(asked) \in Nat
    BY ListGrows DEF Asked
  <1>. QED  BY <1>1 DEF Goon, Goes

LEMMA LoadsAre == \A kind : /\ IsRequest(Viewing!Load(kind)) \/ kind \in Keyed
                            /\ Viewing!Load(kind).kind = kind /\ Viewing!Load(kind).stage = "sent"
  <1>. SUFFICES ASSUME NEW kind  PROVE /\ IsRequest(Viewing!Load(kind)) \/ kind \in Keyed
                                       /\ Viewing!Load(kind).kind = kind
                                       /\ Viewing!Load(kind).stage = "sent"
    OBVIOUS
  <1>. DEFINE q == Viewing!Load(kind)
  <1>1. q = [kind |-> kind, stage |-> "sent", ok |-> FALSE, data |-> 0]
    BY DEF Viewing!Load
  <1>. HIDE DEF q
  <1>2. /\ q = [field \in DOMAIN q |-> q[field]] /\ DOMAIN q = {"kind", "stage", "ok", "data"}
        /\ q.kind = kind /\ q.stage = "sent"
    BY <1>1
  <1>. QED  BY <1>2 DEF IsRequest, Stages, Own, Keyed, q

\* What the page does without a key.
LEMMA QuietKeys ==
    ASSUME KeyInv, UNCHANGED <<server, dialog>>, Goon(requests, requests'),
           \A r \in DOMAIN requests : Same(requests[r], requests'[r]),
           \A r \in DOMAIN requests' \ DOMAIN requests : requests'[r].kind \notin Keyed,
           IsPage(page'), page'.intents \subseteq page.intents, page'.receipt = page.receipt
    PROVE  KeyInv'
  <1>1. /\ KeysOf(requests', page.intents, "feedback") /\ DialogKeys(requests', dialog.intents)
        /\ KeysFine(requests') /\ KnownFine(requests', server) /\ ToldFine(requests', server.quest)
        /\ OpenFine(requests', dialog)
        /\ LogsFine(requests', server) /\ FormFine(requests', dialog, server)
    BY WithoutKeys
  <1>2. KeysOf(requests', page'.intents, "feedback") /\ PaidFine(page', server)
    BY <1>1 DEF KeysOf, PaidFine, KeyInv
  <1>3. Asked(requests')
    BY DEF Goon
  <1>4. IsDialog(dialog') /\ IsServer(server') /\ server' = server /\ dialog' = dialog
    BY DEF KeyInv
  <1>. QED  BY <1>1, <1>2, <1>3, <1>4 DEF KeyInv

\* A request that is marked, and then a load of no key.
LEMMA MarkedKeys ==
    ASSUME KeyInv, UNCHANGED <<server, dialog>>, NEW r \in DOMAIN requests,
           requests[r].stage # "over", NEW stage \in {"over", "given up"}, NEW kind, kind \notin Keyed,
           \/ requests' = Viewing!Mark(r, stage)
           \/ requests' = Append(Viewing!Mark(r, stage), Viewing!Load(kind)),
           IsPage(page'), page'.intents \subseteq page.intents, page'.receipt = page.receipt
    PROVE  KeyInv'
  <1>. DEFINE asked == Viewing!Mark(r, stage)
  <1>1. /\ Asked(requests) /\ Goon(requests, asked) /\ DOMAIN asked = DOMAIN requests
        /\ \A k \in DOMAIN requests : Same(requests[k], asked[k])
    BY Marked DEF KeyInv
  <1>. HIDE DEF asked
  <1>2. CASE requests' = asked
    BY <1>1, <1>2, QuietKeys
  <1>3. CASE requests' = Append(asked, Viewing!Load(kind))
    <2>1. IsRequest(Viewing!Load(kind)) /\ Viewing!Load(kind).kind = kind
      BY LoadsAre
    <2>2. /\ Goon(requests, requests') /\ DOMAIN requests' = DOMAIN requests \cup {Len(asked) + 1}
          /\ \A k \in DOMAIN requests : requests'[k] = asked[k]
          /\ requests'[Len(asked) + 1].kind = kind
      <3>. DEFINE q == Viewing!Load(kind)
      <3>. HIDE DEF q
      <3>1. IsRequest(q) /\ q.kind = kind /\ requests' = Append(asked, q)
        BY <1>3, <2>1 DEF q
      <3>2. /\ Goon(requests, Append(asked, q))
            /\ DOMAIN Append(asked, q) = DOMAIN asked \cup {Len(asked) + 1}
            /\ \A k \in DOMAIN asked : Append(asked, q)[k] = asked[k]
            /\ Append(asked, q)[Len(asked) + 1] = q
        BY <1>1, <3>1, Sent
      <3>. QED  BY <1>1, <3>1, <3>2
    <2>3. /\ \A k \in DOMAIN requests : Same(requests[k], requests'[k])
          /\ \A k \in DOMAIN requests' \ DOMAIN requests : requests'[k].kind \notin Keyed
      BY <1>1, <2>2
    <2>. QED  BY <2>2, <2>3, QuietKeys
  <1>. QED  BY <1>2, <1>3 DEF asked

\* A load of no key is sent.
LEMMA SentKeys ==
    ASSUME KeyInv, UNCHANGED <<server, dialog>>, NEW kind, kind \notin Keyed,
           requests' = Append(requests, Viewing!Load(kind)),
           IsPage(page'), page'.intents \subseteq page.intents, page'.receipt = page.receipt
    PROVE  KeyInv'
  <1>1. Asked(requests) /\ Goon(requests, requests)
    BY GoesOnAsIs DEF KeyInv
  <1>2. IsRequest(Viewing!Load(kind)) /\ Viewing!Load(kind).kind = kind
    BY LoadsAre
  <1>3. /\ Goon(requests, requests') /\ DOMAIN requests' = DOMAIN requests \cup {Len(requests) + 1}
        /\ \A k \in DOMAIN requests : requests'[k] = requests[k]
        /\ requests'[Len(requests) + 1].kind = kind
    BY <1>1, <1>2, Sent
  <1>4. /\ \A k \in DOMAIN requests : Same(requests[k], requests'[k])
        /\ \A k \in DOMAIN requests' \ DOMAIN requests : requests'[k].kind \notin Keyed
    BY <1>3 DEF Same
  <1>. QED  BY <1>3, <1>4, QuietKeys

LEMMA NoKey == \A kind \in {"brief", "reminders", "generate", "reminder"} : kind \notin Keyed
  BY DEF Keyed

LEMMA LoadsKeepKeys ==
    ASSUME KeyInv, NEW r \in DOMAIN requests,
           \/ Viewing!TakeBrief(r) \/ Viewing!TakeReminders(r) \/ Viewing!LoadFails(r)
           \/ Viewing!EndGenerate(r) \/ Viewing!EndFeedback(r) \/ Viewing!EndReminder(r)
    PROVE  KeyInv'
  <1>0. IsPage(page) /\ UNCHANGED <<server, dialog>>
    BY DEF KeyInv, Viewing!TakeBrief, Viewing!TakeReminders, Viewing!LoadFails,
           Viewing!EndGenerate, Viewing!EndFeedback, Viewing!EndReminder
  <1>1. CASE Viewing!TakeBrief(r)
    <2>1. /\ requests[r].stage # "over" /\ requests' = Viewing!Mark(r, "over")
          /\ \E b : page' = [page EXCEPT !.brief = b]
      BY <1>1 DEF Viewing!TakeBrief, Viewing!Answered
    <2>9. /\ IsPage(page') /\ page'.intents \subseteq page.intents
          /\ page'.receipt = page.receipt
      BY <1>0, <2>1 DEF IsPage
    <2>. QED  BY <1>0, <2>1, <2>9, NoKey, MarkedKeys
  <1>2. CASE Viewing!TakeReminders(r)
    <2>1. /\ requests[r].stage # "over" /\ requests' = Viewing!Mark(r, "over")
          /\ \E b : page' = [page EXCEPT !.reminders = b]
      BY <1>2 DEF Viewing!TakeReminders, Viewing!Answered
    <2>9. /\ IsPage(page') /\ page'.intents \subseteq page.intents
          /\ page'.receipt = page.receipt
      BY <1>0, <2>1 DEF IsPage
    <2>. QED  BY <1>0, <2>1, <2>9, NoKey, MarkedKeys
  <1>3. CASE Viewing!LoadFails(r)
    <2>1. /\ requests[r].stage # "over" /\ requests' = Viewing!Mark(r, "over")
          /\ \E b : page' = [page EXCEPT !.brief = b] \/ page' = [page EXCEPT !.reminders = b]
      BY <1>3 DEF Viewing!LoadFails, Viewing!Pending
    <2>9. /\ IsPage(page') /\ page'.intents \subseteq page.intents
          /\ page'.receipt = page.receipt
      BY <1>0, <2>1 DEF IsPage
    <2>. QED  BY <1>0, <2>1, <2>9, NoKey, MarkedKeys
  <1>4. CASE Viewing!EndGenerate(r)
    <2>1. /\ requests[r].stage # "over"
          /\ \E stage \in {"over", "given up"} : requests' = Viewing!Mark(r, stage)
          /\ \E b : page' = [page EXCEPT !.generating = FALSE, !.brief = b]
      BY <1>4 DEF Viewing!EndGenerate, Viewing!Ends, Viewing!Pending, Viewing!Over
    <2>9. /\ IsPage(page') /\ page'.intents \subseteq page.intents
          /\ page'.receipt = page.receipt
      BY <1>0, <2>1 DEF IsPage
    <2>. QED  BY <1>0, <2>1, <2>9, NoKey, MarkedKeys
  <1>5. CASE Viewing!EndFeedback(r)
    <2>1. PICK ok \in BOOLEAN, stage \in {"over", "given up"} :
             /\ requests[r].stage # "over"
             /\ requests' = Append(Viewing!Mark(r, stage), Viewing!Load("brief"))
             /\ page' = [page EXCEPT !.busyItem = {},
                            !.intents = IF ok THEN Viewing!Resolve(@, <<requests[r].item, requests[r].action>>)
                                        ELSE @]
      BY <1>5 DEF Viewing!EndFeedback, Viewing!Ends, Viewing!Pending, Viewing!Over, Viewing!Reload
    <2>2. PICK kept : kept \subseteq page.intents /\ page' = [page EXCEPT !.busyItem = {}, !.intents = kept]
      BY <1>0, <2>1 DEF Viewing!Resolve
    <2>9. /\ IsPage(page') /\ page'.intents \subseteq page.intents
          /\ page'.receipt = page.receipt
      BY <1>0, <2>2 DEF IsPage
    <2>. QED  BY <1>0, <2>1, <2>9, NoKey, MarkedKeys
  <1>6. CASE Viewing!EndReminder(r)
    <2>1. /\ requests[r].stage # "over"
          /\ \E stage \in {"over", "given up"} :
                requests' = Append(Viewing!Mark(r, stage), Viewing!Load("reminders"))
          /\ page' = [page EXCEPT !.busyReminder = FALSE]
      BY <1>6 DEF Viewing!EndReminder, Viewing!Ends, Viewing!Pending, Viewing!Over, Viewing!Reload
    <2>9. /\ IsPage(page') /\ page'.intents \subseteq page.intents
          /\ page'.receipt = page.receipt
      BY <1>0, <2>1 DEF IsPage
    <2>. QED  BY <1>0, <2>1, <2>9, NoKey, MarkedKeys
  <1>. QED  BY <1>1, <1>2, <1>3, <1>4, <1>5, <1>6

LEMMA ButtonsKeepKeys ==
    ASSUME KeyInv, Viewing!Retry \/ Viewing!GenerateBrief \/ Viewing!CompleteReminder
    PROVE  KeyInv'
  <1>0. IsPage(page) /\ UNCHANGED <<server, dialog>>
    BY DEF KeyInv, Viewing!Retry, Viewing!GenerateBrief, Viewing!CompleteReminder
  <1>1. PICK kind \in {"brief", "reminders", "generate", "reminder"} :
           /\ requests' = Append(requests, Viewing!Load(kind))
           /\ \E b : \/ page' = [page EXCEPT !.brief = b] \/ page' = [page EXCEPT !.reminders = b]
                     \/ page' = [page EXCEPT !.generating = b]
                     \/ page' = [page EXCEPT !.busyReminder = b]
    BY DEF Viewing!Retry, Viewing!GenerateBrief, Viewing!CompleteReminder, Viewing!Send
  <1>2. IsPage(page') /\ page'.intents \subseteq page.intents /\ page'.receipt = page.receipt
    BY <1>0, <1>1 DEF IsPage
  <1>. QED  BY <1>0, <1>1, <1>2, NoKey, SentKeys

\* The key of an intent that is kept is the key it was kept with.
LEMMA KeyIs ==
    ASSUME NEW intents, NEW intent
    PROVE  \/ /\ \A known \in intents : known.intent # intent
              /\ Viewing!KeyFor(intents, intent) = Len(requests) + 1
           \/ \E known \in intents : /\ known.intent = intent
                                     /\ Viewing!KeyFor(intents, intent) = known.key
  <1>1. CASE \E known \in intents : known.intent = intent
    <2>. DEFINE known == CHOOSE known \in intents : known.intent = intent
    <2>1. known \in intents /\ known.intent = intent
      BY <1>1
    <2>2. Viewing!KeyFor(intents, intent) = known.key
      BY <1>1 DEF Viewing!KeyFor
    <2>. QED  BY <2>1, <2>2
  <1>2. CASE ~\E known \in intents : known.intent = intent
    BY <1>2 DEF Viewing!KeyFor
  <1>. QED  BY <1>1, <1>2

\* A request is sent with a key of its kind, or with its own number.
LEMMA SentWithKey ==
    ASSUME NEW asked, Asked(asked), KeysFine(asked), KnownFine(asked, server),
           ToldFine(asked, server.quest), LogsFine(asked, server),
           NEW q, IsRequest(q), q.stage = "sent", q.kind \in Keyed,
           \/ q.key = Len(asked) + 1
           \/ q.key \in DOMAIN asked /\ asked[q.key].kind = q.kind,
           q.kind = "complete" => q.evidence \in Nat \ {0}
    PROVE  LET longer == Append(asked, q)
           IN  /\ Asked(longer) /\ KeysFine(longer) /\ KnownFine(longer, server)
               /\ ToldFine(longer, server.quest)
               /\ \A d : OpenFine(asked, d) => OpenFine(longer, d)
               /\ \A kept, kind : KeysOf(asked, kept, kind) => KeysOf(longer, kept, kind)
               /\ \A kept : DialogKeys(asked, kept) => DialogKeys(longer, kept)
               /\ q.key \in DOMAIN longer /\ longer[q.key].kind = q.kind
               /\ q.kind # "log" =>
                     /\ LogsFine(longer, server)
                     /\ \A d : FormFine(asked, d, server) => FormFine(longer, d, server)
               /\ Logs(longer) = Logs(asked) \cup IF q.kind = "log" THEN {Len(asked) + 1} ELSE {}
  <1>. DEFINE longer == Append(asked, q)
              n == Len(asked) + 1
  <1>1. Goon(asked, asked)
    BY GoesOnAsIs
  <1>2. /\ Goon(asked, longer) /\ Len(asked) \in Nat /\ Len(longer) = n
        /\ DOMAIN longer = DOMAIN asked \cup {n} /\ n \notin DOMAIN asked
        /\ \A r \in DOMAIN asked : longer[r] = asked[r]
        /\ longer[n] = q
    BY <1>1, Sent
  <1>. HIDE DEF longer
  <1>3. Asked(longer)
    BY <1>2 DEF Goon
  <1>4. q.key \in DOMAIN longer /\ longer[q.key].kind = q.kind
    BY <1>2
  <1>5. KeysFine(longer) /\ KnownFine(longer, server)
    <2>1. KeysFine(longer)
      BY <1>2, <1>4 DEF KeysFine
    <2>2. KnownFine(longer, server)
      BY <1>2 DEF KnownFine
    <2>. QED  BY <2>1, <2>2
  <1>6. ToldFine(longer, server.quest)
    BY <1>2 DEF ToldFine
  <1>7. \A d : OpenFine(asked, d) => OpenFine(longer, d)
    BY <1>2 DEF OpenFine
  <1>8. /\ \A kept, kind : KeysOf(asked, kept, kind) => KeysOf(longer, kept, kind)
        /\ \A kept : DialogKeys(asked, kept) => DialogKeys(longer, kept)
    BY <1>2 DEF KeysOf, DialogKeys
  <1>9. Logs(longer) = Logs(asked) \cup IF q.kind = "log" THEN {n} ELSE {}
    BY <1>2 DEF Logs
  <1>10. ASSUME q.kind # "log"  PROVE LogsFine(longer, server)
    <2>1. Logs(longer) = Logs(asked) /\ \A r \in Logs(asked) : longer[r] = asked[r]
      BY <1>2, <1>9, <1>10 DEF Logs
    <2>2. \A i : i \in 1 .. Len(asked) => i \in 1 .. Len(longer)
      BY <1>2
    <2>. QED  BY <2>1, <2>2 DEF LogsFine
  <1>11. ASSUME q.kind # "log"
         PROVE  \A d : FormFine(asked, d, server) => FormFine(longer, d, server)
    <2>1. Logs(longer) = Logs(asked) /\ \A r \in Logs(asked) : longer[r] = asked[r]
      BY <1>2, <1>9, <1>11 DEF Logs
    <2>. QED  BY <2>1 DEF FormFine
  <1>. QED  BY <1>3, <1>4, <1>5, <1>6, <1>7, <1>8, <1>9, <1>10, <1>11 DEF longer

\* An intent is kept with the key that its request is sent with.
LEMMA KeptKeys ==
    ASSUME NEW longer, NEW intents, NEW intent,
           Viewing!KeyFor(intents, intent) \in DOMAIN longer
    PROVE  /\ \A kind : KeysOf(longer, intents, kind)
                        /\ longer[Viewing!KeyFor(intents, intent)].kind = kind
                        => KeysOf(longer, Viewing!Keep(intents, intent), kind)
           /\ DialogKeys(longer, intents) /\ intent[1] \in {"log", "complete"}
              /\ longer[Viewing!KeyFor(intents, intent)].kind = intent[1]
              => DialogKeys(longer, Viewing!Keep(intents, intent))
  <1>. DEFINE new == [intent |-> intent, key |-> Viewing!KeyFor(intents, intent)]
  <1>1. Viewing!Keep(intents, intent) = intents \cup {new}
    BY DEF Viewing!Keep
  <1>2. new.intent = intent /\ new.key = Viewing!KeyFor(intents, intent)
        /\ new = [intent |-> new.intent, key |-> new.key]
    OBVIOUS
  <1>. HIDE DEF new
  <1>3. \A kind : KeysOf(longer, intents, kind)
                  /\ longer[Viewing!KeyFor(intents, intent)].kind = kind
                  => KeysOf(longer, intents \cup {new}, kind)
    BY <1>2 DEF KeysOf
  <1>4. ASSUME DialogKeys(longer, intents), intent[1] \in {"log", "complete"},
               longer[Viewing!KeyFor(intents, intent)].kind = intent[1]
        PROVE  DialogKeys(longer, intents \cup {new})
    <2>1. ASSUME NEW known \in intents, known.intent = new.intent  PROVE known = new
      <3>1. PICK other \in intents : other.intent = intent /\ new.key = other.key
        BY <1>2, <2>1, KeyIs
      <3>2. other = known /\ known = [intent |-> known.intent, key |-> known.key]
        BY <1>2, <1>4, <2>1, <3>1 DEF DialogKeys
      <3>. QED  BY <1>2, <2>1, <3>1, <3>2
    <2>. QED  BY <1>2, <1>4, <2>1 DEF DialogKeys
  <1>. QED  BY <1>1, <1>3, <1>4

LEMMA FeedbackKeepsKeys ==
    ASSUME KeyInv, NEW i, NEW action, Viewing!SubmitFeedback(i, action)
    PROVE  KeyInv'
  <1>. DEFINE intent == <<i, action>>
              q == [kind |-> "feedback", stage |-> "sent", ok |-> FALSE, data |-> 0, item |-> i,
                    action |-> action, key |-> Viewing!KeyFor(page.intents, intent)]
  <1>1. /\ page' = [page EXCEPT !.busyItem = {i}, !.intents = Viewing!Keep(page.intents, intent)]
        /\ requests' = Append(requests, q) /\ UNCHANGED <<server, dialog, crossed>>
    BY DEF Viewing!SubmitFeedback, Viewing!Send
  <1>2. IsRequest(q) /\ q.stage = "sent" /\ q.kind = "feedback"
        /\ q.key = Viewing!KeyFor(page.intents, intent)
    BY DEF IsRequest, Stages, Own
  <1>. HIDE DEF q
  <1>3. \/ q.key = Len(requests) + 1
        \/ q.key \in DOMAIN requests /\ requests[q.key].kind = q.kind
    BY <1>2, KeyIs DEF KeyInv, KeysOf
  <1>4. /\ Asked(requests') /\ KeysFine(requests') /\ KnownFine(requests', server)
        /\ ToldFine(requests', server.quest) /\ OpenFine(requests', dialog)
        /\ KeysOf(requests', page.intents, "feedback") /\ DialogKeys(requests', dialog.intents)
        /\ q.key \in DOMAIN requests' /\ requests'[q.key].kind = "feedback"
        /\ LogsFine(requests', server) /\ FormFine(requests', dialog, server)
    BY <1>1, <1>2, <1>3, SentWithKey DEF KeyInv, Keyed
  <1>5. KeysOf(requests', Viewing!Keep(page.intents, intent), "feedback")
    BY <1>2, <1>4, KeptKeys
  <1>6. /\ IsPage(page') /\ page'.intents = Viewing!Keep(page.intents, intent)
        /\ page'.receipt = page.receipt
    BY <1>1 DEF KeyInv, IsPage
  <1>7. PaidFine(page', server)
    BY <1>6 DEF KeyInv, PaidFine
  <1>8. IsDialog(dialog') /\ IsServer(server') /\ server' = server /\ dialog' = dialog
    BY <1>1 DEF KeyInv
  <1>. QED  BY <1>4, <1>5, <1>6, <1>7, <1>8 DEF KeyInv

\* A dialog that is opened, closed, or written in.
LEMMA ClosedIs ==
    /\ IsDialog(Viewing!Closed) /\ Viewing!Closed.open = 0 /\ Viewing!Closed.intents = {}
    /\ \A n : /\ IsDialog([Viewing!Closed EXCEPT !.open = n])
              /\ [Viewing!Closed EXCEPT !.open = n].open = n
              /\ [Viewing!Closed EXCEPT !.open = n].intents = {}
  <1>. DEFINE first == CHOOSE t \in Texts : TRUE
  <1>0. Viewing!Closed = [open |-> 0, busy |-> FALSE, text |-> first, evidence |-> 0,
                          intents |-> {}]
    BY DEF Viewing!Closed
  <1>. HIDE DEF first
  <1>1. /\ Viewing!Closed = [field \in {"open", "busy", "text", "evidence", "intents"} |->
                                 Viewing!Closed[field]]
        /\ Viewing!Closed.open = 0 /\ Viewing!Closed.evidence = 0 /\ Viewing!Closed.intents = {}
    BY <1>0
  <1>. QED  BY <1>1 DEF IsDialog

LEMMA NoLogsYet ==
    ASSUME NEW asked, Asked(asked), LogsFine(asked, server), NEW d, d.intents = {},
           d.open = 0 \/ d.open = Len(asked) + 1
    PROVE  FormFine(asked, d, server) /\ DialogKeys(asked, d.intents) /\ OpenFine(asked, d)
  <1>1. Len(asked) \in Nat
    BY ListGrows DEF Asked
  <1>2. d.open \notin 1 .. Len(asked)
    BY <1>1
  <1>3. \A r \in Logs(asked) : asked[r].open # d.open
    BY <1>2 DEF LogsFine
  <1>4. \A i \in DOMAIN server.logged : server.logged[i].open # d.open
    BY <1>2 DEF LogsFine
  <1>. QED  BY <1>1, <1>3, <1>4 DEF FormFine, DialogKeys, OpenFine

LEMMA DialogsKeepKeys ==
    ASSUME KeyInv, Viewing!OpenQuest \/ Viewing!CloseQuest \/ \E text : Viewing!Write(text)
    PROVE  KeyInv'
  <1>0. /\ Asked(requests) /\ LogsFine(requests, server) /\ IsPage(page) /\ IsDialog(dialog)
    BY DEF KeyInv
  <1>1. CASE Viewing!OpenQuest
    <2>1. /\ dialog' = [Viewing!Closed EXCEPT !.open = Len(requests) + 1]
          /\ page' = [page EXCEPT !.receipt = 0] /\ UNCHANGED <<server, requests, crossed>>
      BY <1>1 DEF Viewing!OpenQuest
    <2>2. IsPage(page') /\ page'.intents = page.intents /\ page'.receipt = 0
      BY <1>0, <2>1 DEF IsPage
    <2>3. /\ IsDialog(dialog') /\ FormFine(requests, dialog', server)
          /\ DialogKeys(requests, dialog'.intents) /\ OpenFine(requests, dialog')
      BY <1>0, <2>1, ClosedIs, NoLogsYet
    <2>. QED  BY <2>1, <2>2, <2>3 DEF KeyInv, PaidFine
  <1>2. CASE Viewing!CloseQuest
    <2>1. dialog' = Viewing!Closed /\ UNCHANGED <<server, page, requests, crossed>>
      BY <1>2 DEF Viewing!CloseQuest
    <2>2. /\ IsDialog(dialog') /\ FormFine(requests, dialog', server)
          /\ DialogKeys(requests, dialog'.intents) /\ OpenFine(requests, dialog')
      BY <1>0, <2>1, ClosedIs, NoLogsYet
    <2>. QED  BY <2>1, <2>2 DEF KeyInv
  <1>3. CASE \E text : Viewing!Write(text)
    <2>1. PICK text : /\ dialog' = [dialog EXCEPT !.text = text]
                      /\ UNCHANGED <<server, page, requests, crossed>>
      BY <1>3 DEF Viewing!Write
    <2>2. /\ IsDialog(dialog') /\ dialog'.open = dialog.open /\ dialog'.intents = dialog.intents
          /\ dialog'.evidence = dialog.evidence
      BY <1>0, <2>1 DEF IsDialog
    <2>3. FormFine(requests, dialog', server) /\ OpenFine(requests, dialog')
      BY <2>2 DEF KeyInv, FormFine, OpenFine
    <2>. QED  BY <2>1, <2>2, <2>3 DEF KeyInv
  <1>. QED  BY <1>1, <1>2, <1>3

\* What is submitted is sent with its key.
LEMMA SubmitKeepsKeys ==
    ASSUME KeyInv, Viewing!Submit
    PROVE  KeyInv'
  <1>0. /\ Asked(requests) /\ KeysFine(requests) /\ KnownFine(requests, server)
        /\ ToldFine(requests, server.quest) /\ LogsFine(requests, server)
        /\ IsPage(page) /\ IsDialog(dialog) /\ FormFine(requests, dialog, server)
        /\ DialogKeys(requests, dialog.intents) /\ OpenFine(requests, dialog)
        /\ Len(requests) \in Nat /\ DOMAIN requests = 1 .. Len(requests)
    BY ListGrows DEF KeyInv, Asked
  <1>1. /\ dialog.open # 0 /\ UNCHANGED <<server, page, crossed>>
    BY DEF Viewing!Submit
  <1>2. CASE dialog.evidence # 0
    <2>. DEFINE intent == <<"complete", dialog.evidence>>
                q == Viewing!Complete(dialog.intents, dialog.evidence)
    <2>1. /\ dialog' = [dialog EXCEPT !.busy = TRUE, !.intents = Viewing!Keep(dialog.intents, intent)]
          /\ requests' = Append(requests, q)
      BY <1>2 DEF Viewing!Submit
    <2>2. /\ IsRequest(q) /\ q.stage = "sent" /\ q.kind = "complete" /\ q.evidence = dialog.evidence
          /\ q.key = Viewing!KeyFor(dialog.intents, intent)
      BY DEF Viewing!Complete, IsRequest, Stages, Own
    <2>. HIDE DEF q
    <2>3. \/ q.key = Len(requests) + 1
          \/ q.key \in DOMAIN requests /\ requests[q.key].kind = q.kind
      BY <1>0, <2>2, KeyIs DEF DialogKeys
    <2>4. dialog.evidence \in Nat \ {0}
      BY <1>0, <1>2 DEF IsDialog
    <2>5. /\ Asked(requests') /\ KeysFine(requests') /\ KnownFine(requests', server)
          /\ ToldFine(requests', server.quest) /\ OpenFine(requests', dialog)
          /\ KeysOf(requests', page.intents, "feedback") /\ DialogKeys(requests', dialog.intents)
          /\ q.key \in DOMAIN requests' /\ requests'[q.key].kind = "complete"
          /\ LogsFine(requests', server)
      BY <1>0, <2>1, <2>2, <2>3, <2>4, SentWithKey DEF KeyInv, Keyed
    <2>6. DialogKeys(requests', Viewing!Keep(dialog.intents, intent))
      BY <2>2, <2>5, KeptKeys
    <2>7. /\ IsDialog(dialog') /\ dialog'.open = dialog.open /\ dialog'.evidence = dialog.evidence
          /\ dialog'.intents = Viewing!Keep(dialog.intents, intent)
      BY <1>0, <2>1 DEF IsDialog
    <2>8. FormFine(requests', dialog', server) /\ OpenFine(requests', dialog')
      BY <1>2, <2>5, <2>7 DEF FormFine, OpenFine
    <2>. QED  BY <1>1, <2>5, <2>6, <2>7, <2>8 DEF KeyInv
  <1>3. CASE dialog.evidence = 0
    <2>. DEFINE intent == LogIntent(dialog.text)
                q == [kind |-> "log", stage |-> "sent", ok |-> FALSE, data |-> 0,
                      open |-> dialog.open, text |-> dialog.text,
                      key |-> Viewing!KeyFor(dialog.intents, intent)]
                n == Len(requests) + 1
    <2>1. /\ dialog' = [dialog EXCEPT !.busy = TRUE, !.intents = Viewing!Keep(dialog.intents, intent)]
          /\ requests' = Append(requests, q)
      BY <1>3 DEF Viewing!Submit, LogIntent
    <2>2. /\ IsRequest(q) /\ q.stage = "sent" /\ q.kind = "log"
          /\ q.open = dialog.open /\ q.text = dialog.text
          /\ q.key = Viewing!KeyFor(dialog.intents, intent)
      BY DEF IsRequest, Stages, Own
    <2>. HIDE DEF q
    <2>3. intent[1] = "log"
      BY DEF LogIntent
    <2>4. \/ q.key = Len(requests) + 1
          \/ q.key \in DOMAIN requests /\ requests[q.key].kind = q.kind
      BY <1>0, <2>2, <2>3, KeyIs DEF DialogKeys
    <2>5. /\ Asked(requests') /\ KeysFine(requests') /\ KnownFine(requests', server)
          /\ ToldFine(requests', server.quest) /\ OpenFine(requests', dialog)
          /\ KeysOf(requests', page.intents, "feedback") /\ DialogKeys(requests', dialog.intents)
          /\ q.key \in DOMAIN requests' /\ requests'[q.key].kind = "log"
          /\ Logs(requests') = Logs(requests) \cup {n}
      BY <1>0, <2>1, <2>2, <2>4, SentWithKey DEF KeyInv, Keyed
    <2>6. DialogKeys(requests', Viewing!Keep(dialog.intents, intent))
      BY <2>2, <2>3, <2>5, KeptKeys
    <2>7. /\ IsDialog(dialog') /\ dialog'.open = dialog.open /\ dialog'.evidence = dialog.evidence
          /\ dialog'.intents = Viewing!Keep(dialog.intents, intent)
      BY <1>0, <2>1 DEF IsDialog
    <2>8. /\ Len(requests') = n /\ requests'[n] = q
          /\ \A r \in DOMAIN requests : requests'[r] = requests[r]
      BY <1>0, <2>1, ListGrows DEF Asked
    <2>9. /\ dialog.intents \subseteq dialog'.intents
          /\ [intent |-> intent, key |-> q.key] \in dialog'.intents
      BY <2>2, <2>7 DEF Viewing!Keep
    <2>10. ASSUME NEW r \in Logs(requests), requests[r].open = dialog.open, requests[r].text = dialog.text
           PROVE  requests[r].key = q.key
      <3>. DEFINE kept == [intent |-> intent, key |-> requests[r].key]
      <3>1. kept \in dialog.intents /\ kept.intent = intent /\ kept.key = requests[r].key
        BY <1>0, <1>3, <2>10 DEF FormFine
      <3>. HIDE DEF kept
      <3>2. PICK known \in dialog.intents : known.intent = intent /\ q.key = known.key
        BY <2>2, <3>1, KeyIs
      <3>3. known = kept
        BY <1>0, <3>1, <3>2 DEF DialogKeys
      <3>. QED  BY <3>1, <3>2, <3>3
    <2>11. ASSUME NEW i \in DOMAIN server.logged, server.logged[i].open = dialog.open,
                  server.logged[i].text = dialog.text
           PROVE  IsKnown(server, q.key)
      <3>1. PICK kept \in dialog.intents : kept.intent = intent /\ IsKnown(server, kept.key)
        BY <1>0, <1>3, <2>11 DEF FormFine
      <3>2. PICK known \in dialog.intents : known.intent = intent /\ q.key = known.key
        BY <2>2, <3>1, KeyIs
      <3>3. known = kept
        BY <1>0, <3>1, <3>2 DEF DialogKeys
      <3>. QED  BY <3>1, <3>2, <3>3
    <2>12. \A r \in Logs(requests) : requests'[r] = requests[r]
      BY <2>8 DEF Logs
    <2>13. LogsFine(requests', server)
      <3>1. \A r \in Logs(requests') : requests'[r].open \in 1 .. Len(requests')
        <4>1. q.open \in 1 .. n
          BY <1>0, <1>1, <2>2 DEF OpenFine
        <4>2. \A r \in Logs(requests) : requests[r].open \in 1 .. n
          BY <1>0 DEF LogsFine
        <4>. QED  BY <2>5, <2>8, <2>12, <4>1, <4>2
      <3>2. ASSUME NEW r \in Logs(requests'), NEW t \in Logs(requests'),
                   Entry(requests'[r]) = Entry(requests'[t])
            PROVE  requests'[r].key = requests'[t].key
        <4>1. requests'[r].open = requests'[t].open /\ requests'[r].text = requests'[t].text
          BY <3>2 DEF Entry
        <4>2. r \in Logs(requests) /\ t \in Logs(requests) => requests[r].key = requests[t].key
          BY <1>0, <2>12, <3>2 DEF LogsFine
        <4>. QED  BY <2>2, <2>5, <2>8, <2>10, <2>12, <4>1, <4>2
      <3>3. \A i \in DOMAIN server.logged : server.logged[i].open \in 1 .. Len(requests')
        BY <1>0, <2>8 DEF LogsFine
      <3>4. ASSUME NEW r \in Logs(requests'), NEW i \in DOMAIN server.logged,
                   server.logged[i] = Entry(requests'[r])
            PROVE  IsKnown(server, requests'[r].key)
        <4>1. r = n => server.logged[i].open = dialog.open /\ server.logged[i].text = dialog.text
          BY <2>2, <2>8, <3>4 DEF Entry
        <4>. QED  BY <1>0, <2>5, <2>8, <2>11, <2>12, <3>4, <4>1 DEF LogsFine
      <3>. QED  BY <1>0, <3>1, <3>2, <3>3, <3>4 DEF LogsFine
    <2>14. FormFine(requests', dialog', server)
      <3>1. ASSUME NEW r \in Logs(requests'), requests'[r].open = dialog.open
            PROVE  [intent |-> LogIntent(requests'[r].text), key |-> requests'[r].key] \in dialog'.intents
        <4>1. CASE r = n
          BY <2>2, <2>8, <2>9, <4>1
        <4>2. CASE r \in Logs(requests)
          BY <1>0, <1>3, <2>9, <2>12, <3>1, <4>2 DEF FormFine
        <4>. QED  BY <2>5, <4>1, <4>2
      <3>. QED  BY <1>0, <1>3, <2>7, <2>9, <3>1 DEF FormFine
    <2>15. OpenFine(requests', dialog')
      BY <2>5, <2>7 DEF OpenFine
    <2>. QED  BY <1>1, <2>5, <2>6, <2>7, <2>13, <2>14, <2>15 DEF KeyInv
  <1>. QED  BY <1>2, <1>3

\* The panels that are loaded after a quest was verified.
LEMMA PanelsSent ==
    ASSUME NEW asked, IsList(asked)
    PROVE  asked \o Viewing!Panels =
               IF HasReminder THEN Append(Append(asked, Viewing!Load("brief")), Viewing!Load("reminders"))
               ELSE Append(asked, Viewing!Load("brief"))
  <1>. DEFINE a == Viewing!Load("brief")
              b == Viewing!Load("reminders")
  <1>. HIDE DEF a, b
  <1>1. PICK S : asked \in Seq(S)
    BY DEF IsList
  <1>. DEFINE T == S \cup {a, b}
  <1>2. asked \in Seq(T) /\ a \in T /\ b \in T
    BY <1>1, SeqMonotonic
  <1>3. <<a>> \in Seq(T) /\ <<b>> \in Seq(T) /\ <<>> \in Seq(T)
    BY <1>2
  <1>. HIDE DEF T
  <1>4. Append(asked, a) = asked \o <<a>> /\ Append(asked, a) \in Seq(T)
    BY <1>2, AppendIsConcat, AppendProperties
  <1>5. Append(Append(asked, a), b) = Append(asked, a) \o <<b>>
    BY <1>2, <1>4, AppendIsConcat
  <1>6. CASE HasReminder
    <2>1. Viewing!Panels = <<a>> \o <<b>>
      BY <1>6 DEF Viewing!Panels, a, b
    <2>2. (asked \o <<a>>) \o <<b>> = asked \o (<<a>> \o <<b>>)
      BY <1>2, <1>3, ConcatAssociative
    <2>. QED  BY <1>4, <1>5, <1>6, <2>1, <2>2 DEF a, b
  <1>7. CASE ~HasReminder
    <2>1. Viewing!Panels = <<a>> \o <<>>
      BY <1>7 DEF Viewing!Panels, a
    <2>2. <<a>> \o <<>> = <<a>>
      BY <1>3, ConcatEmptySeq
    <2>. QED  BY <1>4, <1>7, <2>1, <2>2 DEF a
  <1>. QED  BY <1>6, <1>7

LEMMA TwoSent ==
    ASSUME NEW old, Asked(old), NEW asked, Goon(old, asked),
           NEW a, IsRequest(a), a.kind \notin Keyed, a.stage = "sent",
           NEW b, IsRequest(b), b.kind \notin Keyed, b.stage = "sent",
           NEW longer, longer \in {Append(asked, a), Append(Append(asked, a), b)}
    PROVE  /\ Goon(old, longer) /\ DOMAIN asked \subseteq DOMAIN longer
           /\ \A r \in DOMAIN asked : longer[r] = asked[r]
           /\ \A r \in DOMAIN longer \ DOMAIN asked :
                  longer[r].kind \notin Keyed /\ longer[r].stage = "sent"
  <1>. DEFINE one == Append(asked, a)
  <1>1. /\ Goon(old, one) /\ DOMAIN one = DOMAIN asked \cup {Len(asked) + 1}
        /\ \A r \in DOMAIN asked : one[r] = asked[r]
        /\ one[Len(asked) + 1] = a
    <2>. DEFINE q == a
                rest == asked
    <2>1. IsRequest(q) /\ Goon(old, rest)
      OBVIOUS
    <2>. HIDE DEF q, rest
    <2>2. Goon(old, Append(rest, q))
      BY <2>1, Sent
    <2>3. DOMAIN Append(rest, q) = DOMAIN rest \cup {Len(rest) + 1}
      BY <2>1, Sent
    <2>4. \A r \in DOMAIN rest : Append(rest, q)[r] = rest[r]
      BY <2>1, Sent
    <2>5. Append(rest, q)[Len(rest) + 1] = q
      BY <2>1, Sent
    <2>. QED  BY <2>2, <2>3, <2>4, <2>5 DEF q, rest
  <1>. HIDE DEF one
  <1>. DEFINE two == Append(one, b)
  <1>2. /\ Goon(old, two) /\ DOMAIN two = DOMAIN one \cup {Len(one) + 1}
        /\ \A r \in DOMAIN one : two[r] = one[r]
        /\ two[Len(one) + 1] = b
    BY <1>1, Sent
  <1>3. longer \in {one, two}
    BY DEF one
  <1>. HIDE DEF two
  <1>. QED  BY <1>1, <1>2, <1>3

LEMMA PanelsGo ==
    ASSUME NEW old, Asked(old), NEW asked, Goon(old, asked)
    PROVE  LET longer == asked \o Viewing!Panels
           IN  /\ Goon(old, longer) /\ DOMAIN asked \subseteq DOMAIN longer
               /\ \A r \in DOMAIN asked : longer[r] = asked[r]
               /\ \A r \in DOMAIN longer \ DOMAIN asked :
                      longer[r].kind \notin Keyed /\ longer[r].stage = "sent"
  <1>. DEFINE a == Viewing!Load("brief")
              b == Viewing!Load("reminders")
              longer == asked \o Viewing!Panels
  <1>1. /\ IsRequest(a) /\ a.kind \notin Keyed /\ a.stage = "sent"
        /\ IsRequest(b) /\ b.kind \notin Keyed /\ b.stage = "sent"
    BY LoadsAre DEF Keyed
  <1>2. IsList(asked)
    BY DEF Goon, Asked
  <1>3. longer = IF HasReminder THEN Append(Append(asked, a), b) ELSE Append(asked, a)
    BY <1>2, PanelsSent
  <1>. HIDE DEF a, b, longer
  <1>4. longer \in {Append(asked, a), Append(Append(asked, a), b)}
    BY <1>3
  <1>5. /\ Goon(old, longer) /\ DOMAIN asked \subseteq DOMAIN longer
        /\ \A r \in DOMAIN asked : longer[r] = asked[r]
        /\ \A r \in DOMAIN longer \ DOMAIN asked :
               longer[r].kind \notin Keyed /\ longer[r].stage = "sent"
    BY <1>1, <1>4, TwoSent
  <1>. QED  BY <1>5 DEF longer

\* A request of the dialog ends without success.
LEMMA IdleKeys ==
    ASSUME KeyInv, NEW r \in DOMAIN requests, requests[r].stage # "over",
           NEW stage \in {"over", "given up"}, requests' = Viewing!Mark(r, stage),
           dialog' = [dialog EXCEPT !.busy = FALSE], UNCHANGED <<server, page, crossed>>
    PROVE  KeyInv'
  <1>1. /\ Goon(requests, requests') /\ DOMAIN requests' = DOMAIN requests
        /\ \A k \in DOMAIN requests : Same(requests[k], requests'[k])
    BY Marked DEF KeyInv
  <1>2. /\ KeysOf(requests', page.intents, "feedback") /\ DialogKeys(requests', dialog.intents)
        /\ KeysFine(requests') /\ KnownFine(requests', server) /\ OpenFine(requests', dialog)
        /\ LogsFine(requests', server) /\ FormFine(requests', dialog, server)
        /\ ToldFine(requests', server.quest) /\ Asked(requests')
    BY <1>1, WithoutKeys DEF Goon
  <1>3. /\ IsDialog(dialog') /\ dialog'.open = dialog.open /\ dialog'.intents = dialog.intents
        /\ dialog'.evidence = dialog.evidence
    BY DEF KeyInv, IsDialog
  <1>4. FormFine(requests', dialog', server) /\ OpenFine(requests', dialog')
    BY <1>2, <1>3 DEF FormFine, OpenFine
  <1>. QED  BY <1>2, <1>3, <1>4 DEF KeyInv

LEMMA EndsKeepKeys ==
    ASSUME KeyInv, NEW r \in DOMAIN requests, Viewing!EndLog(r) \/ Viewing!EndComplete(r)
    PROVE  KeyInv'
  <1>0. Asked(requests) /\ IsPage(page) /\ IsDialog(dialog) /\ ToldFine(requests, server.quest)
    BY DEF KeyInv
  <1>. DEFINE asked == Viewing!Mark(r, "over")
  <1>. HIDE DEF asked
  <1>1. ASSUME requests[r].stage # "over"
        PROVE  /\ Goon(requests, asked) /\ DOMAIN asked = DOMAIN requests
               /\ Asked(asked) /\ Len(asked) = Len(requests)
               /\ KeysOf(asked, page.intents, "feedback") /\ DialogKeys(asked, dialog.intents)
               /\ KeysFine(asked) /\ KnownFine(asked, server) /\ OpenFine(asked, dialog)
               /\ LogsFine(asked, server) /\ FormFine(asked, dialog, server)
               /\ ToldFine(asked, server.quest)
    <2>1. /\ Goon(requests, asked) /\ DOMAIN asked = DOMAIN requests /\ Len(asked) = Len(requests)
          /\ \A k \in DOMAIN requests : Same(requests[k], asked[k])
      BY <1>0, <1>1, Marked DEF asked
    <2>. QED  BY <2>1, WithoutKeys DEF Goon
  <1>2. CASE Viewing!Ends(r, "log", TRUE) /\ Viewing!EndLog(r)
    <2>. DEFINE evidence == requests[r].data
                left == Viewing!Resolve(dialog.intents, <<"log", requests[r].text>>)
                intent == <<"complete", evidence>>
                q == Viewing!Complete(left, evidence)
    <2>1. /\ requests[r].stage = "served" /\ requests[r].kind = "log" /\ requests[r].ok
      BY <1>2 DEF Viewing!Ends, Viewing!Pending
    <2>2. \/ /\ dialog' = [dialog EXCEPT !.evidence = evidence, !.intents = Viewing!Keep(left, intent)]
             /\ requests' = Append(asked, q)
          \/ /\ dialog' = [dialog EXCEPT !.busy = FALSE]
             /\ \E stage \in Viewing!Over(r, FALSE) : requests' = Viewing!Mark(r, stage)
      BY <1>2 DEF Viewing!EndLog, asked
    <2>3. UNCHANGED <<server, page, crossed>>
      BY <1>2 DEF Viewing!EndLog
    <2>4. evidence \in Nat \ {0}
      BY <1>0, <2>1 DEF ToldFine
    <2>5. /\ IsRequest(q) /\ q.stage = "sent" /\ q.kind = "complete" /\ q.evidence = evidence
          /\ q.key = Viewing!KeyFor(left, intent)
      BY DEF Viewing!Complete, IsRequest, Stages, Own
    <2>6. DialogKeys(asked, left)
      BY <1>1, <2>1 DEF DialogKeys, Viewing!Resolve
    <2>. HIDE DEF q, left, evidence
    <2>7. \/ q.key = Len(asked) + 1
          \/ q.key \in DOMAIN asked /\ asked[q.key].kind = q.kind
      BY <1>1, <2>1, <2>5, <2>6, KeyIs DEF DialogKeys
    <2>8. CASE /\ dialog' = [dialog EXCEPT !.evidence = evidence, !.intents = Viewing!Keep(left, intent)]
               /\ requests' = Append(asked, q)
      <3>1. /\ Asked(requests') /\ KeysFine(requests') /\ KnownFine(requests', server)
            /\ ToldFine(requests', server.quest) /\ OpenFine(requests', dialog)
            /\ KeysOf(requests', page.intents, "feedback") /\ DialogKeys(requests', left)
            /\ q.key \in DOMAIN requests' /\ requests'[q.key].kind = "complete"
            /\ LogsFine(requests', server)
        BY <1>1, <2>1, <2>4, <2>5, <2>6, <2>7, <2>8, SentWithKey DEF Keyed
      <3>2. DialogKeys(requests', Viewing!Keep(left, intent))
        BY <2>5, <3>1, KeptKeys
      <3>3. /\ IsDialog(dialog') /\ dialog'.open = dialog.open /\ dialog'.evidence = evidence
            /\ dialog'.intents = Viewing!Keep(left, intent)
        BY <1>0, <2>4, <2>8 DEF IsDialog
      <3>4. FormFine(requests', dialog', server) /\ OpenFine(requests', dialog')
        BY <2>4, <3>1, <3>3 DEF FormFine, OpenFine
      <3>. QED  BY <2>3, <3>1, <3>2, <3>3, <3>4 DEF KeyInv
    <2>9. CASE /\ dialog' = [dialog EXCEPT !.busy = FALSE]
               /\ \E stage \in Viewing!Over(r, FALSE) : requests' = Viewing!Mark(r, stage)
      <3>. QED  BY <2>1, <2>3, <2>9, IdleKeys DEF Viewing!Over
    <2>. QED  BY <2>2, <2>8, <2>9
  <1>3. CASE /\ dialog' = [dialog EXCEPT !.busy = FALSE] /\ UNCHANGED <<server, page, crossed>>
             /\ requests[r].stage # "over"
             /\ \E stage \in {"over", "given up"} : requests' = Viewing!Mark(r, stage)
    BY <1>3, IdleKeys
  <1>4. CASE /\ Viewing!Ends(r, "complete", TRUE) /\ dialog' = Viewing!Closed
             /\ page' = [page EXCEPT !.receipt = requests[r].data, !.brief = Viewing!Loading,
                                     !.reminders = Viewing!Loading]
             /\ requests' = asked \o Viewing!Panels /\ UNCHANGED server
    <2>1. /\ requests[r].stage = "served" /\ requests[r].kind = "complete" /\ requests[r].ok
      BY <1>4 DEF Viewing!Ends, Viewing!Pending
    <2>2. requests[r].data = server.quest
      BY <1>0, <2>1 DEF ToldFine
    <2>3. IsPage(page') /\ page'.intents = page.intents /\ PaidFine(page', server)
      BY <1>0, <1>4, <2>2 DEF IsPage, PaidFine
    <2>4. /\ Goon(requests, requests')
          /\ \A k \in DOMAIN requests : requests'[k] = asked[k]
          /\ \A k \in DOMAIN requests' \ DOMAIN requests : requests'[k].kind \notin Keyed
      BY <1>0, <1>1, <1>4, <2>1, PanelsGo
    <2>5. \A k \in DOMAIN requests : Same(requests[k], requests'[k])
      BY <1>0, <2>1, <2>4, Marked DEF asked
    <2>6. /\ KeysOf(requests', page.intents, "feedback") /\ KeysFine(requests')
          /\ KnownFine(requests', server) /\ LogsFine(requests', server)
          /\ ToldFine(requests', server.quest) /\ Asked(requests')
      BY <2>4, <2>5, WithoutKeys DEF Goon
    <2>7. /\ IsDialog(dialog') /\ FormFine(requests', dialog', server)
          /\ DialogKeys(requests', dialog'.intents) /\ OpenFine(requests', dialog')
      BY <1>4, <2>6, ClosedIs, NoLogsYet
    <2>. QED  BY <1>4, <2>3, <2>6, <2>7 DEF KeyInv
  <1>5. CASE Viewing!EndLog(r)
    <2>1. CASE Viewing!Ends(r, "log", FALSE) /\ ~Viewing!Ends(r, "log", TRUE)
      BY <1>3, <1>5, <2>1 DEF Viewing!EndLog, Viewing!Ends, Viewing!Pending, Viewing!Over
    <2>. QED  BY <1>2, <1>5, <2>1 DEF Viewing!EndLog
  <1>6. CASE Viewing!EndComplete(r)
    <2>1. \/ /\ Viewing!Ends(r, "complete", TRUE) /\ dialog' = Viewing!Closed
             /\ page' = [page EXCEPT !.receipt = requests[r].data, !.brief = Viewing!Loading,
                                     !.reminders = Viewing!Loading]
             /\ requests' = asked \o Viewing!Panels /\ UNCHANGED server
          \/ /\ dialog' = [dialog EXCEPT !.busy = FALSE] /\ UNCHANGED <<server, page, crossed>>
             /\ requests[r].stage # "over"
             /\ \E stage \in {"over", "given up"} : requests' = Viewing!Mark(r, stage)
      BY <1>6 DEF Viewing!EndComplete, Viewing!Ends, Viewing!Pending, Viewing!Over, asked
    <2>. QED  BY <1>3, <1>4, <2>1
  <1>. QED  BY <1>5, <1>6

\* A request is answered.
Said(r, ok, data) == [requests EXCEPT ![r].stage = "served", ![r].ok = ok, ![r].data = data]

LEMMA Given ==
    ASSUME Asked(requests), NEW r \in DOMAIN requests, requests[r].stage # "over", NEW ok, NEW data,
           NEW asked, asked = Said(r, ok, data)
    PROVE  /\ Goon(requests, asked) /\ DOMAIN asked = DOMAIN requests
           /\ \A k \in DOMAIN requests \ {r} : asked[k] = requests[k]
           /\ asked[r].stage = "served" /\ asked[r].ok = ok /\ asked[r].data = data
  <1>. DEFINE q == requests[r]
              p == [[[q EXCEPT !.stage = "served"] EXCEPT !.ok = ok] EXCEPT !.data = data]
  <1>0. IsRequest(q) /\ q.stage # "over"
    BY DEF Asked
  <1>1. asked = [requests EXCEPT ![r] = p]
    BY DEF Said
  <1>2. IsList(requests) /\ DOMAIN requests = 1 .. Len(requests) /\ Len(requests) \in Nat
    BY ListGrows DEF Asked
  <1>. HIDE DEF p
  <1>3. DOMAIN asked = DOMAIN requests /\ asked = [k \in DOMAIN asked |-> asked[k]]
    BY <1>1
  <1>4. IsList(asked) /\ Len(asked) = Len(requests)
    BY <1>2, <1>3, ListChanges
  <1>5. asked[r] = p /\ \A k \in DOMAIN requests \ {r} : asked[k] = requests[k]
    BY <1>1
  <1>6. /\ q = [field \in DOMAIN q |-> q[field]]
        /\ DOMAIN q = {"kind", "stage", "ok", "data"} \cup Own(q.kind)
    BY <1>0 DEF IsRequest
  <1>. HIDE DEF q
  <1>7. /\ p = [field \in DOMAIN p |-> p[field]] /\ DOMAIN p = DOMAIN q
        /\ p.stage = "served" /\ p.ok = ok /\ p.data = data
        /\ \A field \in DOMAIN q \ {"stage", "ok", "data"} : p[field] = q[field]
    BY <1>6 DEF p
  <1>8. p.kind = q.kind
    BY <1>6, <1>7
  <1>9. IsRequest(p)
    BY <1>6, <1>7, <1>8 DEF IsRequest, Stages
  <1>10. /\ q.kind \in Keyed => p.key = q.key
         /\ q.kind = "log" => p.open = q.open /\ p.text = q.text
         /\ q.kind = "complete" => p.evidence = q.evidence
    BY <1>6, <1>7 DEF Own, Keyed
  <1>11. Goes(q, p)
    BY <1>0, <1>8, <1>10 DEF Goes
  <1>12. \A k \in DOMAIN requests : Goes(requests[k], asked[k]) /\ IsRequest(asked[k])
    <2>1. \A k \in DOMAIN requests : Goes(requests[k], requests[k]) /\ IsRequest(requests[k])
      BY DEF Goes, Asked
    <2>. QED  BY <1>5, <1>9, <1>11, <2>1 DEF q
  <1>13. Goon(requests, asked)
    <2>1. Asked(asked)
      BY <1>3, <1>4, <1>12 DEF Asked
    <2>2. Len(requests) <= Len(asked)
      BY <1>2, <1>4, AtMostItself
    <2>. QED  BY <1>3, <1>12, <2>1, <2>2 DEF Goon
  <1>. QED  BY <1>3, <1>5, <1>7, <1>13

\* What the server makes of a request, and what it says.
LEMMA HandledKeys ==
    ASSUME KeyInv, NEW r \in DOMAIN requests, requests[r].stage # "over",
           NEW after, NEW ok, NEW data, Viewing!Handled(r, after, ok, data), UNCHANGED <<page, dialog>>,
           IsServer(after), KnownFine(requests, after), ToldFine(requests, after.quest),
           LogsFine(requests, after), FormFine(requests, dialog, after), PaidFine(page, after),
           ok /\ requests[r].kind = "log" => data \in Nat \ {0},
           ok /\ requests[r].kind = "complete" => data = after.quest /\ after.quest # 0
    PROVE  KeyInv'
  <1>1. server' = after
    BY DEF Viewing!Handled
  <1>2. /\ Goon(requests, requests') /\ DOMAIN requests' = DOMAIN requests
        /\ \A k \in DOMAIN requests \ {r} : requests'[k] = requests[k]
        /\ requests'[r].stage = "served" => requests'[r].ok = ok /\ requests'[r].data = data
    <2>1. CASE requests[r].stage = "given up"
      <3>1. requests' = Viewing!Mark(r, "over")
        BY <2>1 DEF Viewing!Handled
      <3>. QED  BY <3>1, Marked DEF KeyInv
    <2>2. CASE requests[r].stage # "given up"
      <3>1. requests' = Said(r, ok, data)
        BY <2>2 DEF Viewing!Handled, Said
      <3>. QED  BY <3>1, Given DEF KeyInv
    <2>. QED  BY <2>1, <2>2
  <1>3. /\ KeysOf(requests', page.intents, "feedback") /\ DialogKeys(requests', dialog.intents)
        /\ KeysFine(requests') /\ OpenFine(requests', dialog) /\ Asked(requests')
    BY <1>2, WithoutKeys DEF Goon
  <1>4. KnownFine(requests', after) /\ LogsFine(requests', after) /\ FormFine(requests', dialog, after)
    BY <1>2, Passes DEF KeyInv
  <1>5. ToldFine(requests', after.quest)
    <2>1. Goes(requests[r], requests'[r])
      BY <1>2 DEF Goon
    <2>2. /\ requests'[r].kind = "log" /\ requests'[r].stage = "served" /\ requests'[r].ok =>
                requests'[r].data \in Nat \ {0}
          /\ requests'[r].kind = "complete" /\ requests'[r].stage = "served" /\ requests'[r].ok =>
                requests'[r].data = after.quest /\ after.quest # 0
      BY <1>2, <2>1 DEF Goes
    <2>3. requests'[r].kind = "complete" /\ requests'[r].stage # "over" =>
              requests'[r].evidence \in Nat \ {0}
      BY <2>1 DEF Goes, ToldFine
    <2>. QED  BY <1>2, <2>2, <2>3 DEF ToldFine
  <1>. QED  BY <1>1, <1>3, <1>4, <1>5 DEF KeyInv

\* A server that says the same.
LEMMA SaysTheSame ==
    ASSUME KeyInv, NEW after, IsServer(after), after.logged = server.logged,
           after.quest = server.quest, after.answers = server.answers
    PROVE  /\ KnownFine(requests, after) /\ ToldFine(requests, after.quest)
           /\ LogsFine(requests, after) /\ FormFine(requests, dialog, after) /\ PaidFine(page, after)
  BY DEF KeyInv, KnownFine, LogsFine, FormFine, PaidFine, IsKnown

\* Requests without a key, and answers that are known or without effect.
LEMMA QuietlyHandled ==
    ASSUME KeyInv, NEW r \in DOMAIN requests, requests[r].stage # "over",
           NEW after, NEW ok, NEW data, Viewing!Handled(r, after, ok, data), UNCHANGED <<page, dialog>>,
           \/ after = server
           \/ after = [server EXCEPT !.generated = TRUE]
           \/ after = [server EXCEPT !.reminder = "completed"],
           ok /\ requests[r].kind = "log" => data \in Nat \ {0},
           ok /\ requests[r].kind = "complete" => data = server.quest /\ server.quest # 0
    PROVE  KeyInv'
  <1>1. IsServer(server)
    BY DEF KeyInv
  <1>2. /\ IsServer(after) /\ after.logged = server.logged
        /\ after.quest = server.quest /\ after.answers = server.answers
    BY <1>1 DEF IsServer
  <1>. QED  BY <1>2, SaysTheSame, HandledKeys

\* An answer that is kept under its key.
Keeps(before, key, data) == [before EXCEPT !.answers = @ \cup {[key |-> key, data |-> data]}]

LEMMA KeptAnswer ==
    ASSUME NEW before, IsServer(before), NEW key, NEW data
    PROVE  /\ IsServer(Keeps(before, key, data)) /\ Keeps(before, key, data).logged = before.logged
           /\ Keeps(before, key, data).quest = before.quest
           /\ \E a : /\ Keeps(before, key, data).answers = before.answers \cup {a}
                     /\ a.key = key /\ a.data = data
  <1>. DEFINE a == [key |-> key, data |-> data]
              after == Keeps(before, key, data)
  <1>1. after = [before EXCEPT !.answers = before.answers \cup {a}]
    BY DEF Keeps
  <1>2. a.key = key /\ a.data = data
    OBVIOUS
  <1>. HIDE DEF a, after
  <1>3. /\ IsServer(after) /\ after.logged = before.logged /\ after.quest = before.quest
        /\ after.answers = before.answers \cup {a}
    BY <1>1 DEF IsServer
  <1>. QED  BY <1>2, <1>3 DEF after

LEMMA OnceIs ==
    ASSUME NEW r, NEW guard, NEW after, NEW data, Viewing!Once(r, guard, after, data)
    PROVE  \/ \E a \in server.answers : a.key = requests[r].key /\ Viewing!Handled(r, server, TRUE, a.data)
           \/ Viewing!Handled(r, server, FALSE, 0)
           \/ /\ ~IsKnown(server, requests[r].key) /\ guard
              /\ Viewing!Handled(r, Keeps(after, requests[r].key, data), TRUE, data)
  <1>1. CASE Viewing!Known(r) # {}
    <2>. DEFINE a == CHOOSE a \in Viewing!Known(r) : TRUE
    <2>1. a \in Viewing!Known(r)
      BY <1>1
    <2>2. Viewing!Handled(r, server, TRUE, a.data)
      BY <1>1 DEF Viewing!Once
    <2>. HIDE DEF a
    <2>. QED  BY <2>1, <2>2 DEF Viewing!Known
  <1>2. CASE Viewing!Known(r) = {}
    <2>1. ~IsKnown(server, requests[r].key)
      BY <1>2 DEF Viewing!Known, IsKnown
    <2>. QED  BY <1>2, <2>1 DEF Viewing!Once, Keeps
  <1>. QED  BY <1>1, <1>2

\* What is done once, and was done or cannot be.
LEMMA KnownHandled ==
    ASSUME KeyInv, NEW r \in DOMAIN requests, requests[r].stage # "over", requests[r].kind \in Keyed,
           UNCHANGED <<page, dialog>>,
           \/ \E a \in server.answers : a.key = requests[r].key /\ Viewing!Handled(r, server, TRUE, a.data)
           \/ Viewing!Handled(r, server, FALSE, 0)
    PROVE  KeyInv'
  <1>1. CASE Viewing!Handled(r, server, FALSE, 0)
    BY <1>1, QuietlyHandled
  <1>2. ASSUME NEW a \in server.answers, a.key = requests[r].key, Viewing!Handled(r, server, TRUE, a.data)
        PROVE  KeyInv'
    <2>1. requests[a.key].kind = requests[r].kind
      BY <1>2 DEF KeyInv, KeysFine
    <2>2. /\ requests[r].kind = "log" => a.data \in Nat \ {0}
          /\ requests[r].kind = "complete" => a.data = server.quest /\ server.quest # 0
      BY <2>1 DEF KeyInv, KnownFine
    <2>. QED  BY <1>2, <2>2, QuietlyHandled
  <1>. QED  BY <1>1, <1>2

LEMMA FeedbackServed ==
    ASSUME KeyInv, NEW r \in DOMAIN requests, requests[r].stage # "over",
           requests[r].kind = "feedback", NEW i, NEW state, UNCHANGED <<page, dialog>>,
           Viewing!Handled(r, Keeps([server EXCEPT !.items[i] = state], requests[r].key, 0), TRUE, 0)
    PROVE  KeyInv'
  <1>. DEFINE before == [server EXCEPT !.items[i] = state]
              after == Keeps(before, requests[r].key, 0)
  <1>0. IsServer(server) /\ KeysFine(requests)
    BY DEF KeyInv
  <1>1. /\ IsServer(before) /\ before.logged = server.logged /\ before.quest = server.quest
        /\ before.answers = server.answers
    BY <1>0 DEF IsServer
  <1>. HIDE DEF before
  <1>2. PICK a : /\ IsServer(after) /\ after.logged = server.logged /\ after.quest = server.quest
                 /\ after.answers = server.answers \cup {a} /\ a.key = requests[r].key
    BY <1>1, KeptAnswer
  <1>3. a.key \in DOMAIN requests /\ requests[a.key].kind = "feedback"
    BY <1>0, <1>2 DEF KeysFine, Keyed
  <1>4. Viewing!Handled(r, after, TRUE, 0)
    BY DEF before
  <1>. HIDE DEF after
  <1>5. KnownFine(requests, after)
    BY <1>2, <1>3 DEF KeyInv, KnownFine, Keyed
  <1>6. \A key : IsKnown(server, key) => IsKnown(after, key)
    BY <1>2 DEF IsKnown
  <1>7. /\ ToldFine(requests, after.quest) /\ LogsFine(requests, after)
        /\ FormFine(requests, dialog, after) /\ PaidFine(page, after)
    BY <1>2, <1>6 DEF KeyInv, LogsFine, FormFine, PaidFine
  <1>. QED  BY <1>2, <1>4, <1>5, <1>7, HandledKeys

\* A quest is completed when it was not: no request for it was answered before.
LEMMA CompleteServed ==
    ASSUME KeyInv, NEW r \in DOMAIN requests, requests[r].stage # "over",
           requests[r].kind = "complete", server.quest = 0, UNCHANGED <<page, dialog>>,
           Viewing!Handled(r, Keeps([server EXCEPT !.quest = requests[r].evidence], requests[r].key,
                                    requests[r].evidence), TRUE, requests[r].evidence)
    PROVE  KeyInv'
  <1>. DEFINE evidence == requests[r].evidence
              before == [server EXCEPT !.quest = evidence]
              after == Keeps(before, requests[r].key, evidence)
  <1>0. IsServer(server) /\ KeysFine(requests) /\ evidence \in Nat \ {0}
    BY DEF KeyInv, ToldFine
  <1>1. /\ IsServer(before) /\ before.logged = server.logged /\ before.quest = evidence
        /\ before.answers = server.answers
    BY <1>0 DEF IsServer
  <1>. HIDE DEF before
  <1>2. PICK a : /\ IsServer(after) /\ after.logged = server.logged /\ after.quest = evidence
                 /\ after.answers = server.answers \cup {a} /\ a.key = requests[r].key
                 /\ a.data = evidence
    BY <1>1, KeptAnswer
  <1>3. a.key \in DOMAIN requests /\ requests[a.key].kind = "complete"
    BY <1>0, <1>2 DEF KeysFine, Keyed
  <1>4. Viewing!Handled(r, after, TRUE, evidence)
    BY DEF before
  <1>. HIDE DEF after, evidence
  <1>5. \A b \in server.answers : requests[b.key].kind # "complete"
    BY DEF KeyInv, KnownFine
  <1>6. KnownFine(requests, after)
    BY <1>0, <1>2, <1>3, <1>5 DEF KeyInv, KnownFine, Keyed
  <1>7. \A key : IsKnown(server, key) => IsKnown(after, key)
    BY <1>2 DEF IsKnown
  <1>8. LogsFine(requests, after) /\ FormFine(requests, dialog, after)
    BY <1>2, <1>7 DEF KeyInv, LogsFine, FormFine
  <1>9. ToldFine(requests, after.quest) /\ PaidFine(page, after)
    BY <1>0, <1>2 DEF KeyInv, ToldFine, PaidFine
  <1>. QED  BY <1>0, <1>2, <1>4, <1>6, <1>8, <1>9, HandledKeys

\* What is logged was not logged from its dialog before: it would have been answered.
LEMMA LogServed ==
    ASSUME KeyInv, NEW r \in DOMAIN requests, requests[r].stage # "over",
           requests[r].kind = "log", ~IsKnown(server, requests[r].key), UNCHANGED <<page, dialog>>,
           Viewing!Handled(r, Keeps([server EXCEPT !.logged =
               Append(server.logged, [open |-> requests[r].open, text |-> requests[r].text])],
               requests[r].key, Len(server.logged) + 1), TRUE, Len(server.logged) + 1)
    PROVE  KeyInv'
  <1>. DEFINE e == [open |-> requests[r].open, text |-> requests[r].text]
              longer == Append(server.logged, e)
              n == Len(server.logged) + 1
              before == [server EXCEPT !.logged = longer]
              after == Keeps(before, requests[r].key, n)
  <1>0. IsServer(server) /\ KeysFine(requests) /\ IsList(server.logged) /\ r \in Logs(requests)
        /\ LogsFine(requests, server) /\ FormFine(requests, dialog, server)
    BY DEF KeyInv, IsServer, Logs
  <1>1. e = Entry(requests[r]) /\ e.open = requests[r].open /\ e.text = requests[r].text
        /\ e = Entry(e)
    BY DEF Entry
  <1>. HIDE DEF e
  <1>2. /\ IsList(longer) /\ DOMAIN longer = DOMAIN server.logged \cup {n} /\ n \notin DOMAIN server.logged
        /\ \A i \in DOMAIN server.logged : longer[i] = server.logged[i]
        /\ longer[n] = e /\ n \in Nat \ {0}
    BY <1>0, ListGrows
  <1>. HIDE DEF longer, n
  <1>3. /\ IsServer(before) /\ before.logged = longer /\ before.quest = server.quest
        /\ before.answers = server.answers
    BY <1>0, <1>2 DEF IsServer
  <1>. HIDE DEF before
  <1>4. PICK a : /\ IsServer(after) /\ after.logged = longer /\ after.quest = server.quest
                 /\ after.answers = server.answers \cup {a} /\ a.key = requests[r].key
                 /\ a.data = n
    BY <1>3, KeptAnswer
  <1>5. a.key \in DOMAIN requests /\ requests[a.key].kind = "log"
    BY <1>0, <1>4 DEF KeysFine, Keyed
  <1>6. Viewing!Handled(r, after, TRUE, n)
    BY DEF before, longer, n, e
  <1>. HIDE DEF after
  <1>7. KnownFine(requests, after)
    BY <1>2, <1>4, <1>5 DEF KeyInv, KnownFine, Keyed
  <1>8. /\ \A key : IsKnown(server, key) => IsKnown(after, key)
        /\ IsKnown(after, requests[r].key)
    BY <1>4 DEF IsKnown
  <1>9. LogsFine(requests, after)
    <2>1. e.open \in 1 .. Len(requests)
      BY <1>0, <1>1 DEF LogsFine
    <2>2. \A i \in DOMAIN longer : longer[i].open \in 1 .. Len(requests)
      BY <1>0, <1>2, <2>1 DEF LogsFine
    <2>3. ASSUME NEW t \in Logs(requests), NEW i \in DOMAIN longer, longer[i] = Entry(requests[t])
          PROVE  IsKnown(after, requests[t].key)
      <3>1. CASE i = n
        <4>1. requests[t].key = requests[r].key
          BY <1>0, <1>1, <1>2, <2>3, <3>1 DEF LogsFine
        <4>. QED  BY <1>8, <4>1
      <3>2. CASE i \in DOMAIN server.logged
        BY <1>0, <1>2, <1>8, <2>3, <3>2 DEF LogsFine
      <3>. QED  BY <1>2, <3>1, <3>2
    <2>4. \A i \in DOMAIN server.logged : server.logged[i] # e
      BY <1>0, <1>1 DEF LogsFine
    <2>5. \A i, j \in DOMAIN longer : i # j => longer[i] # longer[j]
      BY <1>0, <1>2, <2>4 DEF LogsFine
    <2>6. \A i \in DOMAIN longer : longer[i] = Entry(longer[i])
      BY <1>0, <1>1, <1>2 DEF LogsFine
    <2>. QED  BY <1>0, <1>4, <2>2, <2>3, <2>5, <2>6 DEF LogsFine
  <1>10. FormFine(requests, dialog, after)
    <2>1. ASSUME dialog.evidence = 0, NEW i \in DOMAIN longer, longer[i].open = dialog.open
          PROVE  \E known \in dialog.intents : known.intent = LogIntent(longer[i].text)
                                               /\ IsKnown(after, known.key)
      <3>1. CASE i = n
        <4>. DEFINE known == [intent |-> LogIntent(requests[r].text), key |-> requests[r].key]
        <4>1. known \in dialog.intents
          BY <1>0, <1>1, <1>2, <2>1, <3>1 DEF FormFine
        <4>2. known.intent = LogIntent(longer[i].text) /\ known.key = requests[r].key
          BY <1>1, <1>2, <3>1
        <4>. HIDE DEF known
        <4>. QED  BY <1>8, <4>1, <4>2
      <3>2. CASE i \in DOMAIN server.logged
        BY <1>0, <1>2, <1>8, <2>1, <3>2 DEF FormFine
      <3>. QED  BY <1>2, <2>1, <3>1, <3>2
    <2>. QED  BY <1>0, <1>4, <2>1 DEF FormFine
  <1>11. ToldFine(requests, after.quest) /\ PaidFine(page, after)
    BY <1>4 DEF KeyInv, PaidFine
  <1>. QED  BY <1>2, <1>4, <1>6, <1>7, <1>9, <1>10, <1>11, HandledKeys

LEMMA ServeKeepsKeys ==
    ASSUME KeyInv, NEW r \in DOMAIN requests, Viewing!Serve(r)
    PROVE  KeyInv'
  <1>1. requests[r].stage # "over" /\ UNCHANGED <<page, dialog>>
    BY DEF Viewing!Serve
  <1>2. CASE \/ requests[r].kind = "brief" /\ Viewing!Handled(r, server, server.generated, Viewing!Data)
             \/ requests[r].kind = "reminders" /\ Viewing!Handled(r, server, TRUE, server.reminder)
             \/ /\ requests[r].kind = "generate"
                /\ Viewing!Handled(r, [server EXCEPT !.generated = TRUE], TRUE, Viewing!Data)
             \/ /\ requests[r].kind = "reminder"
                /\ Viewing!Handled(r, [server EXCEPT !.reminder = "completed"],
                                   server.reminder = "pending", 0)
    BY <1>1, <1>2, QuietlyHandled
  <1>3. CASE /\ requests[r].kind = "feedback"
             /\ Viewing!Once(r, requests[r].action = "accept" => server.items[requests[r].item] = "pending",
                    [server EXCEPT !.items[requests[r].item] = Viewing!After(requests[r].action)], 0)
    BY <1>1, <1>3, OnceIs, KnownHandled, FeedbackServed DEF Keyed
  <1>4. CASE /\ requests[r].kind = "log"
             /\ Viewing!Once(r, TRUE, [server EXCEPT !.logged = Append(server.logged,
                    [open |-> requests[r].open, text |-> requests[r].text])], Len(server.logged) + 1)
    BY <1>1, <1>4, OnceIs, KnownHandled, LogServed DEF Keyed
  <1>5. CASE /\ requests[r].kind = "complete"
             /\ Viewing!Once(r, server.quest = 0, [server EXCEPT !.quest = requests[r].evidence],
                             requests[r].evidence)
    BY <1>1, <1>5, OnceIs, KnownHandled, CompleteServed DEF Keyed
  <1>. QED  BY <1>2, <1>3, <1>4, <1>5 DEF Viewing!Serve

LEMMA KeysAtFirst == Viewing!Init => KeyInv
  <1>. SUFFICES ASSUME Viewing!Init  PROVE KeyInv
    OBVIOUS
  <1>1. PICK generated :
           server = [items |-> [i \in Items |-> "pending"], generated |-> generated,
                     reminder |-> IF HasReminder THEN "pending" ELSE "completed",
                     quest |-> 0, logged |-> << >>, answers |-> {}]
    BY DEF Viewing!Init
  <1>2. /\ page = [brief |-> Viewing!Loading, reminders |-> Viewing!Loading, busyItem |-> {},
                   busyReminder |-> FALSE, generating |-> FALSE, intents |-> {}, receipt |-> 0]
        /\ dialog = Viewing!Closed /\ requests = Viewing!Panels
    BY DEF Viewing!Init
  <1>3. IsList(<<>>) /\ DOMAIN <<>> = {}
    <2>1. <<>> \in Seq({})
      OBVIOUS
    <2>. QED  BY <2>1 DEF IsList
  <1>4. /\ IsServer(server) /\ server.quest = 0 /\ server.logged = << >> /\ server.answers = {}
    BY <1>1, <1>3 DEF IsServer
  <1>5. IsPage(page) /\ page.intents = {} /\ page.receipt = 0
    BY <1>2 DEF IsPage
  <1>6. Asked(<<>>) /\ Goon(<<>>, <<>>)
    BY <1>3, GoesOnAsIs DEF Asked
  <1>7. Asked(requests) /\ \A r \in DOMAIN requests : requests[r].kind \notin Keyed
    <2>1. <<>> \o Viewing!Panels = Viewing!Panels
      BY DEF Viewing!Panels, Viewing!Load
    <2>. QED  BY <1>2, <1>3, <1>6, <2>1, PanelsGo DEF Goon
  <1>8. Logs(requests) = {} /\ DOMAIN server.logged = {}
    BY <1>3, <1>4, <1>7 DEF Logs, Keyed
  <1>9. /\ KeysFine(requests) /\ KnownFine(requests, server) /\ ToldFine(requests, server.quest)
        /\ LogsFine(requests, server) /\ PaidFine(page, server) /\ KeysOf(requests, page.intents, "feedback")
    BY <1>4, <1>5, <1>7, <1>8
       DEF KeysFine, KnownFine, ToldFine, LogsFine, PaidFine, KeysOf, Keyed
  <1>10. /\ IsDialog(dialog) /\ FormFine(requests, dialog, server)
         /\ DialogKeys(requests, dialog.intents) /\ OpenFine(requests, dialog)
    BY <1>2, <1>7, <1>9, ClosedIs, NoLogsYet
  <1>. QED  BY <1>4, <1>5, <1>7, <1>9, <1>10 DEF KeyInv

LEMMA KeysAreKept == KeyInv /\ [Viewing!Next]_(Viewing!cockpitVars) => KeyInv'
  <1>. SUFFICES ASSUME KeyInv, [Viewing!Next]_(Viewing!cockpitVars)  PROVE KeyInv'
    OBVIOUS
  <1>1. CASE UNCHANGED Viewing!cockpitVars
    BY <1>1 DEF Viewing!cockpitVars, KeyInv
  <1>2. CASE Viewing!Next
    BY <1>2, ButtonsKeepKeys, DialogsKeepKeys, SubmitKeepsKeys, FeedbackKeepsKeys, ServeKeepsKeys,
       LoadsKeepKeys, EndsKeepKeys DEF Viewing!Next
  <1>. QED  BY <1>1, <1>2

\* One text is logged once from a dialog, however often it is submitted, in whatever order the
\* answers come and whether they come at all; and a receipt is of the quest that was completed.
THEOREM LogsOnce == Viewing!Spec => []Viewing!LoggedOnce
  <1>1. Viewing!Spec => []KeyInv
    <2>1. Viewing!Init => KeyInv
      BY KeysAtFirst
    <2>2. KeyInv /\ [Viewing!Next]_(Viewing!cockpitVars) => KeyInv'
      BY KeysAreKept
    <2>. QED  BY <2>1, <2>2, PTL DEF Viewing!Spec
  <1>2. KeyInv => Viewing!LoggedOnce
    BY DEF KeyInv, LogsFine, PaidFine, Viewing!LoggedOnce
  <1>. QED  BY <1>1, <1>2, PTL

=============================================================================
