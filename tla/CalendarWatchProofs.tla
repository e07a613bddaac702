------------------------- MODULE CalendarWatchProofs -------------------------
(* Proofs about CalendarWatch: no change goes unheard while a channel      *)
(* stands, no channel is lost at the provider, and overlapping renewals    *)
(* leave no gap, for any number of channels and jobs and any periods with  *)
(* which a channel outlives the job that creates it.                       *)
EXTENDS CalendarWatch, TLAPS

-----------------------------------------------------------------------------
(* The inductive invariant.                                                *)

Created(ch) == watch[ch].expiresAt # 0

\* Job j has a channel at the provider and no row for it yet.
Opening(j) == job[j].pc \in {"commit", "undo"}

RowSound(ch) ==
    /\ watch[ch].status # "none" => Created(ch)
    /\ watch[ch].last <= version

\* The message about the latest change is on its way on every channel that stands,
\* unless it was asked for after that change.
Covered(ch) ==
    ch \in Active(clock) => \/ heard = version
                            \/ <<ch, version>> \in flight /\ watch[ch].last < version

\* A job whose channel stands was there less than MaxAge ago, so the channel outlives it.
Timely(j) ==
    /\ job[j].pc # "idle" => job[j].now <= clock /\ clock <= job[j].now + MaxAge
    /\ job[j].pc \in {"commit", "elect", "elected"} =>
          watch[job[j].channel].expiresAt >= job[j].now + WatchLife

ChannelSound(j) ==
    /\ job[j].pc \in {"commit", "undo", "elect", "elected", "delete"} =>
          job[j].channel \in Channels /\ Created(job[j].channel)
    /\ Opening(j) => watch[job[j].channel].status = "none"
    /\ job[j].pc = "commit" => job[j].channel \in live
    /\ job[j].pc = "elected" => j \in overruled \/ watch[job[j].channel].status = "active"
    /\ job[j].pc = "delete" => \/ job[j].channel \notin live
                               \/ watch[job[j].channel].expiresAt <= clock

\* What a job is to stop was opened; and is marked before it is stopped.
TodoSound(j) ==
    \A ch \in job[j].todo :
        /\ Created(ch)
        /\ job[j].pc \in {"stop", "delete"} => watch[ch].status # "active"

JobSound(j) == Timely(j) /\ ChannelSound(j) /\ TodoSound(j)

\* A channel without a row has one job, and one job at a time is electing.
JobsApart ==
    \A j, k \in Jobs :
        /\ Opening(j) => job[j].channel \notin job[k].todo
        /\ Opening(j) /\ Opening(k) /\ job[j].channel = job[k].channel => j = k
        /\ job[j].pc = "elected" /\ job[k].pc = "elected" => j = k

FlightSound == \A m \in flight : m[2] <= version

WatchInv ==
    /\ TypeOK
    /\ \A ch \in Channels : RowSound(ch) /\ Covered(ch)
    /\ \A j \in Jobs : JobSound(j)
    /\ JobsApart /\ FlightSound
    /\ ActiveIsLive /\ NoOrphan

-----------------------------------------------------------------------------
\* Parts of the types.
LEMMA JobFields ==
    ASSUME TypeOK, NEW j \in Jobs
    PROVE  /\ job[j] \in Job /\ job[j].now \in Nat /\ job[j].todo \in SUBSET Channels
           /\ job[j].channel \in Channels \cup {None} /\ job[j].token \in BOOLEAN
  BY DEF TypeOK, Job

\* The fields of a row of a channel.
LEMMA WatchFields ==
    ASSUME TypeOK, NEW ch \in Channels
    PROVE  /\ watch[ch] \in Watch /\ watch[ch].expiresAt \in Nat /\ watch[ch].last \in Nat
           /\ watch[ch].status \in {"none", "active", "stopping"}
  BY DEF TypeOK, Watch

\* A job that starts or ends is a job.
LEMMA StartedType ==
    ASSUME NEW kind \in {"renew", "maintain", "deselect", "disconnect"},
           NEW pc \in {"create", "demote", "prepare"}, NEW now \in Nat
    PROVE  /\ NoJob \in Job /\ Started(kind, pc, now) \in Job
           /\ Started(kind, pc, now).pc = pc /\ Started(kind, pc, now).now = now
           /\ Started(kind, pc, now).todo = {}
  BY DEF Started, NoJob, Job

\* A job that moves on alone, and has nothing open at the provider before or after, keeps
\* the invariant if its own state is sound.
LEMMA JobMoves ==
    ASSUME WatchInv, NEW j \in Jobs, NEW new \in Job, job' = [job EXCEPT ![j] = new],
           ~Opening(j), new.pc \notin {"commit", "undo"},
           JobSound(j)', \A k \in Jobs : Opening(k) => job[k].channel \notin new.todo,
           new.pc = "elected" => LockFree(j),
           status' \in {"active", "needs_reauth", "disconnected", "deleted"},
           selected' \in BOOLEAN, faults' \in Nat,
           overruled' \in SUBSET Jobs, \A k \in Jobs \ {j} : k \in overruled => k \in overruled',
           UNCHANGED <<watch, live, flight, version, heard, clock, orphans>>
    PROVE  WatchInv'
  <1>0. TypeOK  BY DEF WatchInv
  <1>1. job'[j] = new /\ \A k \in Jobs \ {j} : job'[k] = job[k]
    BY <1>0 DEF TypeOK
  <1>2. TypeOK'
    BY <1>0 DEF TypeOK
  <1>3. (\A ch \in Channels : RowSound(ch) /\ Covered(ch))' /\ FlightSound' /\ ActiveIsLive'
    BY DEF WatchInv, RowSound, Created, Covered, Active, Rows, FlightSound, ActiveIsLive
  <1>4. ASSUME NEW k \in Jobs PROVE JobSound(k)'
    <2>1. CASE k = j  BY <2>1
    <2>2. CASE k # j
      <3>1. job'[k] = job[k]  BY <1>1, <2>2
      <3>2. JobSound(k)  BY DEF WatchInv
      <3> QED BY <2>2, <3>1, <3>2
            DEF JobSound, Timely, ChannelSound, TodoSound, Opening, Created
    <2> QED BY <2>1, <2>2
  <1>5. JobsApart'
    BY <1>1 DEF WatchInv, JobsApart, Opening, LockFree
  <1>6. NoOrphan'
    BY <1>1 DEF WatchInv, NoOrphan, Opening
  <1> QED BY <1>2, <1>3, <1>4, <1>5, <1>6 DEF WatchInv

-----------------------------------------------------------------------------
(* The steps in which nothing but the job moves.                           *)

\* A job that starts, for reasons of its own.
LEMMA JobStarts ==
    ASSUME WatchInv, NEW j \in Jobs, job[j].pc = "idle", NEW new \in Job,
           job' = [job EXCEPT ![j] = new], new.pc \in {"create", "demote", "prepare"},
           new.now = clock, new.todo \subseteq Rows({"active", "stopping"}),
           status' \in {"active", "needs_reauth", "disconnected", "deleted"},
           selected' \in BOOLEAN, UNCHANGED <<watch, provider, heard, clock, faults, history>>
    PROVE  WatchInv'
  <1>0. TypeOK  BY DEF WatchInv
  <1>1. job'[j] = new  BY <1>0 DEF TypeOK
  <1>2. JobSound(j)'
    <2>1. clock \in Nat /\ MaxAge \in Nat  BY <1>0, ConstantsAssumption DEF TypeOK
    <2>2. \A ch \in new.todo : Created(ch)
      BY DEF WatchInv, RowSound, Rows
    <2> QED BY <1>1, <2>1, <2>2 DEF JobSound, Timely, ChannelSound, TodoSound, Opening, Created
  <1>3. \A k \in Jobs : Opening(k) => job[k].channel \notin new.todo
    BY DEF WatchInv, JobSound, ChannelSound, Rows
  <1>4. ~Opening(j)  BY DEF Opening
  <1> QED BY <1>0, <1>2, <1>3, <1>4, JobMoves DEF TypeOK, provider, history

\* A job that starts has opened nothing yet.
LEMMA StartInv ==
    ASSUME WatchInv, NEW j \in Jobs,
           \/ StartRenewal(j) \/ Deselect(j) \/ Disconnect(j)
           \/ \E ch \in Channels : StartDemotion(j, ch)
    PROVE  WatchInv'
  <1>0. TypeOK /\ clock \in Nat  BY DEF WatchInv, TypeOK
  <1>1. CASE StartRenewal(j)
    <2> DEFINE new == Started("renew", "create", clock)
    <2>1. new \in Job /\ new.pc = "create" /\ new.now = clock /\ new.todo = {}
      BY <1>0, StartedType
    <2> QED BY <1>0, <1>1, <2>1, JobStarts DEF StartRenewal, TypeOK
  <1>2. CASE Deselect(j)
    <2> DEFINE new == Started("deselect", "prepare", clock)
    <2>1. new \in Job /\ new.pc = "prepare" /\ new.now = clock /\ new.todo = {}
      BY <1>0, StartedType
    <2> QED BY <1>0, <1>2, <2>1, JobStarts DEF Deselect, TypeOK
  <1>3. CASE Disconnect(j)
    <2> DEFINE new == Started("disconnect", "prepare", clock)
    <2>1. new \in Job /\ new.pc = "prepare" /\ new.now = clock /\ new.todo = {}
      BY <1>0, StartedType
    <2> QED BY <1>0, <1>3, <2>1, JobStarts DEF Disconnect, TypeOK
  <1>4. ASSUME NEW ch \in Channels, StartDemotion(j, ch) PROVE WatchInv'
    <2> DEFINE token == status \in {"active", "disconnected"}
               first == Started("maintain", "demote", clock)
               new == [first EXCEPT !.todo = {ch}, !.token = token]
    <2>1. first \in Job /\ first.pc = "demote" /\ first.now = clock
      BY <1>0, StartedType
    <2>2. token \in BOOLEAN
      OBVIOUS
    <2>3. /\ job' = [job EXCEPT ![j] = new]
          /\ job[j].pc = "idle" /\ ch \in Rows({"active", "stopping"})
          /\ UNCHANGED <<status, selected, watch, provider, heard, clock, faults, history>>
      BY <1>4 DEF StartDemotion
    <2> HIDE DEF token, first
    <2>4. new \in Job /\ new.pc = "demote" /\ new.now = clock /\ new.todo = {ch}
      BY <2>1, <2>2 DEF Job
    <2> HIDE DEF new
    <2> QED BY <1>0, <2>3, <2>4, JobStarts DEF TypeOK
  <1> QED BY <1>1, <1>2, <1>3, <1>4

\* A job goes on to stop channels that are marked.
LEMMA StoppingInv ==
    ASSUME WatchInv, NEW j \in Jobs, ~Opening(j), job[j].pc # "idle",
           NEW todo \in SUBSET Channels, Stopping(j, todo),
           \A ch \in todo : Created(ch) /\ watch[ch].status # "active",
           \A k \in Jobs : Opening(k) => job[k].channel \notin todo,
           UNCHANGED <<status, selected, watch, provider, heard, clock, faults, history>>
    PROVE  WatchInv'
  <1>0. TypeOK /\ job[j] \in Job /\ Timely(j)
    BY JobFields DEF WatchInv, JobSound
  <1> DEFINE new == IF todo = {} THEN NoJob
                    ELSE [job[j] EXCEPT !.pc = "stop", !.channel = None, !.todo = todo]
  <1>1. new \in Job  BY <1>0 DEF Job, NoJob
  <1>2. /\ job' = [job EXCEPT ![j] = new] /\ job'[j] = new
    BY <1>0 DEF Stopping, TypeOK
  <1>3. /\ new.pc \in {"idle", "stop"} /\ new.todo = todo
        /\ new.pc # "idle" => new.now = job[j].now
    BY <1>0 DEF NoJob, Job
  <1> HIDE DEF new
  <1>4. JobSound(j)'
    BY <1>0, <1>2, <1>3 DEF JobSound, Timely, ChannelSound, TodoSound, Opening, Created
  <1> QED BY <1>0, <1>1, <1>2, <1>3, <1>4, JobMoves DEF TypeOK, provider, history

\* A job that ends with no channel open at its name leaves everything to the rows.
LEMMA NoJobMoves ==
    ASSUME WatchInv, NEW j \in Jobs, ~Opening(j), job' = [job EXCEPT ![j] = NoJob],
           faults' \in Nat, overruled' \in SUBSET Jobs,
           \A k \in Jobs \ {j} : k \in overruled => k \in overruled',
           UNCHANGED <<status, selected, watch, live, flight, version, heard, clock, orphans>>
    PROVE  WatchInv'
  <1>0. TypeOK /\ NoJob \in Job  BY DEF WatchInv, NoJob, Job
  <1>1. job'[j] = NoJob  BY <1>0 DEF TypeOK
  <1>2. JobSound(j)'
    BY <1>1 DEF NoJob, JobSound, Timely, ChannelSound, TodoSound, Opening
  <1>3. NoJob.pc = "idle" /\ NoJob.todo = {}  BY DEF NoJob
  <1> QED BY <1>0, <1>2, <1>3, JobMoves DEF TypeOK

\* What a deselection or a disconnect reads is all it may have to stop.
LEMMA PrepareInv ==
    ASSUME WatchInv, NEW j \in Jobs, Prepare(j)
    PROVE  WatchInv'
  <1>0. TypeOK /\ job[j] \in Job /\ clock \in Nat /\ Timely(j)
    BY JobFields DEF WatchInv, TypeOK, JobSound
  <1> DEFINE todo == IF job[j].kind = "disconnect" THEN Active(clock)
                     ELSE Rows({"active", "stopping"})
             token == job[j].kind = "disconnect" \/ status = "active"
             new == [job[j] EXCEPT !.pc = "demote", !.todo = todo, !.token = token]
  <1>1. todo \subseteq Rows({"active", "stopping"}) /\ token \in BOOLEAN
    BY DEF Active, Rows
  <1>2. /\ job' = [job EXCEPT ![j].pc = "demote", ![j].todo = todo, ![j].token = token]
        /\ job[j].pc = "prepare"
        /\ UNCHANGED <<status, selected, watch, provider, heard, clock, faults, history>>
    BY DEF Prepare
  <1> HIDE DEF todo, token
  <1>3. new \in Job /\ new.pc = "demote" /\ new.now = job[j].now /\ new.todo = todo
    BY <1>0, <1>1 DEF Job, Rows
  <1>4. job' = [job EXCEPT ![j] = new] /\ job'[j] = new
    BY <1>0, <1>2 DEF TypeOK
  <1> HIDE DEF new
  <1>5. \A ch \in todo : Created(ch) /\ watch[ch].status # "none"
    BY <1>1 DEF WatchInv, RowSound, Rows
  <1>6. JobSound(j)'
    BY <1>0, <1>2, <1>3, <1>4, <1>5
       DEF JobSound, Timely, ChannelSound, TodoSound, Opening, Created
  <1>7. \A k \in Jobs : Opening(k) => job[k].channel \notin todo
    BY <1>5 DEF WatchInv, JobSound, ChannelSound
  <1> QED BY <1>0, <1>2, <1>3, <1>4, <1>6, <1>7, JobMoves DEF TypeOK, provider, history, Opening

\* The job's pc and time of day change, nothing else.
LEMMA TurnInv ==
    ASSUME WatchInv, NEW j \in Jobs, ~Opening(j), NEW pc \in {"elected", "collect", "stop"},
           job[j].pc # "idle", NEW now \in {job[j].now, clock},
           job' = [job EXCEPT ![j] = [@ EXCEPT !.pc = pc, !.now = now]],
           pc = "stop" => \A ch \in job[j].todo : watch[ch].status # "active",
           pc = "elected" => job[j].pc = "elect" /\ now = job[j].now /\ LockFree(j)
                             /\ watch[job[j].channel].status = "active",
           UNCHANGED <<status, selected, watch, provider, heard, clock, faults, history>>
    PROVE  WatchInv'
  <1>0. /\ TypeOK /\ job[j] \in Job /\ clock \in Nat /\ MaxAge \in Nat
        /\ Timely(j) /\ ChannelSound(j) /\ TodoSound(j)
    BY JobFields, ConstantsAssumption DEF WatchInv, TypeOK, JobSound
  <1> DEFINE new == [job[j] EXCEPT !.pc = pc, !.now = now]
  <1>1. new \in Job /\ new.pc = pc /\ new.now = now /\ new.todo = job[j].todo
        /\ new.channel = job[j].channel
    BY <1>0 DEF Job
  <1>2. job' = [job EXCEPT ![j] = new] /\ job'[j] = new
    BY <1>0 DEF TypeOK
  <1> HIDE DEF new
  <1>3. JobSound(j)'
    <2>1. Timely(j)'  BY <1>0, <1>1, <1>2 DEF Timely
    <2>2. ChannelSound(j)'  BY <1>0, <1>1, <1>2 DEF ChannelSound, Opening, Created
    <2>3. TodoSound(j)'  BY <1>0, <1>1, <1>2 DEF TodoSound, Created
    <2> QED BY <2>1, <2>2, <2>3 DEF JobSound
  <1>4. \A k \in Jobs : Opening(k) => job[k].channel \notin new.todo
    BY <1>1 DEF WatchInv, JobsApart
  <1> QED BY <1>0, <1>1, <1>2, <1>3, <1>4, JobMoves DEF TypeOK, provider, history

\* When none of its rows is active any more, a job goes on to stop them.
LEMMA EndDemotionInv ==
    ASSUME WatchInv, NEW j \in Jobs, EndDemotion(j)
    PROVE  WatchInv'
  <1>0. TypeOK /\ ~Opening(j) /\ job[j].pc = "demote" /\ job[j] \in Job
    BY JobFields DEF WatchInv, EndDemotion, Opening
  <1>1. UNCHANGED <<status, selected, watch, provider, heard, clock, faults, history>>
    BY DEF EndDemotion
  <1>2. \A ch \in job[j].todo : watch[ch].status # "active"
    BY <1>0, JobFields DEF EndDemotion, Rows
  <1>3. CASE job[j].kind = "maintain"
    <2>1. job' = [job EXCEPT ![j] = [@ EXCEPT !.pc = "collect", !.now = job[j].now]]
      BY <1>0, <1>3 DEF EndDemotion, TypeOK, Job
    <2> QED BY <1>0, <1>1, <2>1, TurnInv
  <1>4. CASE job[j].kind # "maintain" /\ job[j].todo = {}
    <2>1. job' = [job EXCEPT ![j] = NoJob]
      BY <1>0, <1>4 DEF EndDemotion, TypeOK
    <2> QED BY <1>0, <1>1, <2>1, NoJobMoves DEF TypeOK, provider, history
  <1>5. CASE job[j].kind # "maintain" /\ job[j].todo # {}
    <2>1. job' = [job EXCEPT ![j] = [@ EXCEPT !.pc = "stop", !.now = clock]]
      BY <1>0, <1>5 DEF EndDemotion, TypeOK
    <2> QED BY <1>0, <1>1, <1>2, <2>1, TurnInv
  <1> QED BY <1>3, <1>4, <1>5

\* A renewal looks, under the lock, whether its own channel still counts.
LEMMA ElectInv ==
    ASSUME WatchInv, NEW j \in Jobs, Elect(j)
    PROVE  WatchInv'
  <1> DEFINE pc == IF job[j].channel \in Active(job[j].now) THEN "elected" ELSE "collect"
  <1>0. TypeOK /\ ~Opening(j) /\ job[j].pc = "elect" /\ LockFree(j) /\ job[j] \in Job
    BY JobFields DEF WatchInv, Elect, Opening
  <1>1. job' = [job EXCEPT ![j] = [@ EXCEPT !.pc = pc, !.now = job[j].now]]
    BY <1>0 DEF Elect, Goto, TypeOK, Job
  <1>2. pc \in {"elected", "collect"}
        /\ (pc = "elected" => watch[job[j].channel].status = "active")
    BY DEF Active, Rows
  <1>3. UNCHANGED <<status, selected, watch, provider, heard, clock, faults, history>>
    BY DEF Elect
  <1> HIDE DEF pc
  <1> QED BY <1>0, <1>1, <1>2, <1>3, TurnInv

\* What a job collects to stop is stopping; to leave a channel out or to give up changes no row.
LEMMA StopsInv ==
    ASSUME WatchInv, NEW j \in Jobs, Collect(j) \/ SkipChannel(j) \/ GiveUp(j)
    PROVE  WatchInv'
  <1>0. TypeOK /\ ~Opening(j) /\ TodoSound(j) /\ job[j].pc # "idle"
    BY DEF WatchInv, JobSound, Collect, SkipChannel, GiveUp, Opening
  <1>1. CASE Collect(j)
    <2>1. \A ch \in Rows({"stopping"}) : Created(ch) /\ watch[ch].status # "active"
      BY DEF WatchInv, RowSound, Rows
    <2>2. \A k \in Jobs : Opening(k) => job[k].channel \notin Rows({"stopping"})
      BY DEF WatchInv, JobSound, ChannelSound, Rows
    <2>3. Rows({"stopping"}) \in SUBSET Channels  BY DEF Rows
    <2> QED BY <1>0, <1>1, <2>1, <2>2, <2>3, StoppingInv DEF Collect
  <1>2. CASE SkipChannel(j)
    <2>1. PICK ch \in job[j].todo : Stopping(j, job[j].todo \ {ch})
      BY <1>2 DEF SkipChannel
    <2>2. job[j].todo \ {ch} \in SUBSET Channels  BY <1>0, JobFields
    <2>3. \A c \in job[j].todo : Created(c) /\ watch[c].status # "active"
      BY <1>0, <1>2 DEF TodoSound, SkipChannel
    <2>4. \A k \in Jobs : Opening(k) => job[k].channel \notin job[j].todo
      BY DEF WatchInv, JobsApart
    <2> QED BY <1>0, <1>2, <2>1, <2>2, <2>3, <2>4, StoppingInv DEF SkipChannel
  <1>3. CASE GiveUp(j)
    BY <1>0, <1>3, NoJobMoves DEF GiveUp, Done, TypeOK, provider, history
  <1> QED BY <1>1, <1>2, <1>3

-----------------------------------------------------------------------------
(* The steps that open, commit, mark and close channels.                   *)

\* A channel opened at the provider belongs to the job until its row is written.
LEMMA CreateInv ==
    ASSUME WatchInv, NEW j \in Jobs, Create(j)
    PROVE  WatchInv'
  <1>0. /\ TypeOK /\ clock \in Nat /\ WatchLife \in Nat \ {0} /\ MaxAge \in Nat
        /\ job[j].pc = "create" /\ job[j] \in Job /\ JobSound(j)
    BY JobFields, ConstantsAssumption DEF WatchInv, TypeOK, Create
  <1>1. PICK ch \in Unused :
           /\ live' = live \cup {ch}
           /\ watch' = [watch EXCEPT ![ch].expiresAt = clock + WatchLife]
           /\ job' = [job EXCEPT ![j].pc = "commit", ![j].channel = ch]
    BY DEF Create
  <1>2. ch \in Channels /\ ~Created(ch) /\ watch[ch] \in Watch /\ watch[ch].status = "none"
    BY <1>0, WatchFields DEF Unused, Created, WatchInv, RowSound
  <1>3. /\ watch'[ch].expiresAt = clock + WatchLife /\ watch'[ch].status = "none"
        /\ watch'[ch].last = watch[ch].last
        /\ \A c \in Channels \ {ch} : watch'[c] = watch[c]
    BY <1>0, <1>1, <1>2 DEF TypeOK, Watch
  <1>4. /\ job'[j].pc = "commit" /\ job'[j].channel = ch /\ job'[j].now = job[j].now
        /\ job'[j].todo = job[j].todo
        /\ \A k \in Jobs \ {j} : job'[k] = job[k]
    BY <1>0, <1>1, <1>2 DEF TypeOK, Job
  <1>5. UNCHANGED <<status, selected, flight, version, heard, clock, faults, orphans, overruled>>
    BY DEF Create, history
  <1>6. \A k \in Jobs : /\ ch \notin job[k].todo
                        /\ job[k].pc \in {"commit", "undo", "elect", "elected", "delete"} =>
                              job[k].channel \in Channels \ {ch}
    BY <1>2 DEF WatchInv, JobSound, TodoSound, ChannelSound
  <1>7. TypeOK'
    <2>1. watch' \in [Channels -> Watch]
      BY <1>0, <1>1, <1>2 DEF TypeOK, Watch
    <2>2. job' \in [Jobs -> Job]
      BY <1>0, <1>1, <1>2 DEF TypeOK, Job
    <2>3. live' \in SUBSET Channels
      BY <1>0, <1>1, <1>2 DEF TypeOK
    <2> QED BY <1>0, <1>5, <2>1, <2>2, <2>3 DEF TypeOK
  <1>8. ASSUME NEW c \in Channels PROVE RowSound(c)' /\ Covered(c)'
    BY <1>0, <1>2, <1>3, <1>5
       DEF WatchInv, RowSound, Covered, Created, Active, Rows
  <1>9. ASSUME NEW k \in Jobs PROVE JobSound(k)'
    <2>1. CASE k = j
      <3>1. Timely(j)'
        BY <1>0, <1>3, <1>4, <1>5 DEF JobSound, Timely, Job
      <3>2. ChannelSound(j)'
        BY <1>0, <1>1, <1>2, <1>3, <1>4 DEF ChannelSound, Opening, Created
      <3>3. TodoSound(j)'
        BY <1>0, <1>3, <1>4, <1>6, JobFields DEF JobSound, TodoSound, Created
      <3> QED BY <2>1, <3>1, <3>2, <3>3 DEF JobSound
    <2>2. CASE k # j
      <3>0. JobSound(k) /\ job'[k] = job[k] /\ job[k] \in Job
        BY <1>0, <1>4, <2>2, JobFields DEF WatchInv
      <3>1. Timely(k)'
        BY <1>3, <1>5, <1>6, <3>0 DEF JobSound, Timely
      <3>2. ChannelSound(k)'
        <4>1. job[k].pc \in {"commit", "undo", "elect", "elected", "delete"} =>
                  watch'[job[k].channel] = watch[job[k].channel]
          BY <1>3, <1>6
        <4>2. ChannelSound(k) /\ job'[k] = job[k]  BY <3>0 DEF JobSound
        <4>3. job[k].pc \in {"commit", "undo", "elect", "elected", "delete"} =>
                 (job[k].channel \in live' <=> job[k].channel \in live)
          BY <1>1, <1>6
        <4>4. clock' = clock /\ overruled' = overruled  BY <1>5
        <4> QED BY <4>1, <4>2, <4>3, <4>4 DEF ChannelSound, Opening, Created
      <3>3. TodoSound(k)'
        BY <1>0, <1>3, <1>6, <3>0, JobFields DEF JobSound, TodoSound, Created
      <3> QED BY <3>1, <3>2, <3>3 DEF JobSound
    <2> QED BY <2>1, <2>2
  <1>10. JobsApart'
    BY <1>0, <1>4, <1>6 DEF WatchInv, JobsApart, Opening
  <1>11. ActiveIsLive' /\ FlightSound'
    BY <1>1, <1>2, <1>3, <1>5 DEF WatchInv, ActiveIsLive, FlightSound, Active, Rows
  <1>12. NoOrphan'
    <2> SUFFICES ASSUME NEW c \in live' PROVE
           \/ watch'[c].status # "none" \/ watch'[c].expiresAt <= clock' \/ c \in orphans'
           \/ \E k \in Jobs : job'[k].channel = c /\ job'[k].pc \in {"commit", "undo"}
      BY DEF NoOrphan
    <2>1. CASE c = ch  BY <1>4, <2>1
    <2>2. CASE c # ch
      <3>1. c \in live /\ watch'[c] = watch[c]
        BY <1>0, <1>1, <1>3, <2>2 DEF TypeOK
      <3>2. \A k \in Jobs : job[k].pc \in {"commit", "undo"} => job'[k] = job[k]
        BY <1>0, <1>4
      <3> QED BY <1>5, <3>1, <3>2 DEF WatchInv, NoOrphan
    <2> QED BY <2>1, <2>2
  <1> QED BY <1>7, <1>8, <1>9, <1>10, <1>11, <1>12 DEF WatchInv

\* Closing or losing a channel that has no row.
LEMMA OpeningEnds ==
    ASSUME WatchInv, NEW j \in Jobs, Opening(j), job' = [job EXCEPT ![j] = NoJob],
           live' \in SUBSET live, live \ live' \subseteq {job[j].channel},
           job[j].channel \in live' => job[j].channel \in orphans',
           orphans' \in SUBSET Channels, orphans \subseteq orphans',
           overruled' \in SUBSET Jobs, \A k \in Jobs \ {j} : k \in overruled => k \in overruled',
           faults' \in Nat,
           UNCHANGED <<status, selected, watch, flight, version, heard, clock>>
    PROVE  WatchInv'
  <1>0. TypeOK /\ NoJob \in Job /\ NoJob.pc = "idle" /\ NoJob.todo = {}
    BY DEF WatchInv, NoJob, Job
  <1>1. job'[j] = NoJob /\ \A k \in Jobs \ {j} : job'[k] = job[k]
    BY <1>0 DEF TypeOK
  <1>2. watch[job[j].channel].status = "none"
    BY DEF WatchInv, JobSound, ChannelSound
  <1>3. TypeOK'
    BY <1>0 DEF TypeOK
  <1>4. (\A ch \in Channels : RowSound(ch) /\ Covered(ch))' /\ FlightSound'
    BY DEF WatchInv, RowSound, Created, Covered, Active, Rows, FlightSound
  <1>5. ActiveIsLive'
    BY <1>2 DEF WatchInv, ActiveIsLive, Active, Rows
  <1>6. ASSUME NEW k \in Jobs PROVE JobSound(k)'
    <2>1. CASE k = j
      BY <1>0, <1>1, <2>1 DEF JobSound, Timely, ChannelSound, TodoSound, Opening
    <2>2. CASE k # j
      <3>0. JobSound(k) /\ job'[k] = job[k]  BY <1>1, <2>2 DEF WatchInv
      <3>1. job[k].pc = "commit" => job[k].channel # job[j].channel
        BY <2>2 DEF WatchInv, JobsApart, Opening
      <3> QED BY <3>0, <3>1, <2>2
            DEF JobSound, Timely, ChannelSound, TodoSound, Opening, Created
    <2> QED BY <2>1, <2>2
  <1>7. JobsApart'
    BY <1>0, <1>1 DEF WatchInv, JobsApart, Opening
  <1>8. NoOrphan'
    BY <1>0, <1>1 DEF WatchInv, NoOrphan, Opening
  <1> QED BY <1>3, <1>4, <1>5, <1>6, <1>7, <1>8 DEF WatchInv

\* The row takes the channel over from its job.
LEMMA CommitInv ==
    ASSUME WatchInv, NEW j \in Jobs, Commit(j)
    PROVE  WatchInv'
  <1>0. /\ TypeOK /\ job[j].pc = "commit" /\ job[j] \in Job /\ JobSound(j) /\ Opening(j)
        /\ job[j].channel \in live
    BY JobFields DEF WatchInv, Commit, Opening, JobSound, ChannelSound
  <1> DEFINE ch == job[j].channel
  <1>1. ch \in Channels /\ watch[ch].status = "none" /\ Created(ch) /\ watch[ch] \in Watch
    BY <1>0, WatchFields DEF JobSound, ChannelSound
  <1>2. \A k \in Jobs : ch \notin job[k].todo /\ (k # j /\ Opening(k) => job[k].channel # ch)
    BY <1>0 DEF WatchInv, JobsApart
  <1>3. UNCHANGED <<status, selected, live, flight, version, clock, faults, orphans, overruled>>
    BY DEF Commit, provider, history
  <1>4. CASE Wanted
    <2>1. /\ watch' = [watch EXCEPT ![ch].status = "active"] /\ heard' = version
          /\ job' = [job EXCEPT ![j].pc = "elect"]
      BY <1>4 DEF Commit, Goto
    <2>2. /\ watch'[ch].status = "active" /\ watch'[ch].expiresAt = watch[ch].expiresAt
          /\ watch'[ch].last = watch[ch].last
          /\ \A c \in Channels \ {ch} : watch'[c] = watch[c]
      BY <1>0, <1>1, <2>1 DEF TypeOK, Watch
    <2>3. /\ job'[j].pc = "elect" /\ job'[j].channel = ch /\ job'[j].now = job[j].now
          /\ job'[j].todo = job[j].todo
          /\ \A k \in Jobs \ {j} : job'[k] = job[k]
      BY <1>0, <2>1 DEF TypeOK, Job
    <2>4. TypeOK'
      BY <1>0, <1>1, <1>3, <2>1 DEF TypeOK, Watch, Job
    <2>5. ASSUME NEW c \in Channels PROVE RowSound(c)' /\ Covered(c)'
      BY <1>1, <1>3, <2>1, <2>2 DEF WatchInv, RowSound, Covered, Created
    <2>6. ASSUME NEW k \in Jobs PROVE JobSound(k)'
      <3>0. JobSound(k) /\ job[k] \in Job /\ job[k].todo \subseteq Channels
        BY <1>0, JobFields DEF WatchInv
      <3>1. Timely(k)'
        BY <1>0, <1>1, <1>3, <2>2, <2>3, <3>0 DEF JobSound, Timely, ChannelSound
      <3>2. ChannelSound(k)'
        BY <1>0, <1>1, <1>2, <1>3, <2>2, <2>3, <3>0 DEF JobSound, ChannelSound, Opening, Created
      <3>3. TodoSound(k)'
        BY <1>0, <1>2, <2>2, <2>3, <3>0 DEF JobSound, TodoSound, Created
      <3> QED BY <3>1, <3>2, <3>3 DEF JobSound
    <2>7. JobsApart'
      BY <2>3 DEF WatchInv, JobsApart, Opening
    <2>8. ActiveIsLive' /\ FlightSound'
      BY <1>0, <1>3, <2>2 DEF WatchInv, ActiveIsLive, FlightSound, Active, Rows
    <2>9. NoOrphan'
      <3> SUFFICES ASSUME NEW c \in live PROVE
             \/ watch'[c].status # "none" \/ watch'[c].expiresAt <= clock \/ c \in orphans
             \/ \E k \in Jobs : job'[k].channel = c /\ job'[k].pc \in {"commit", "undo"}
        BY <1>3 DEF NoOrphan
      <3>1. CASE c = ch  BY <2>2, <3>1
      <3>2. CASE c # ch
        <4>1. watch'[c] = watch[c]  BY <1>0, <2>2, <3>2 DEF TypeOK
        <4> QED BY <2>3, <3>2, <4>1 DEF WatchInv, NoOrphan
      <3> QED BY <3>1, <3>2
    <2> QED BY <2>4, <2>5, <2>6, <2>7, <2>8, <2>9 DEF WatchInv
  <1>5. CASE ~Wanted
    <2>1. watch' = watch /\ heard' = heard /\ job' = [job EXCEPT ![j].pc = "undo"]
      BY <1>5 DEF Commit, Goto
    <2>2. /\ job'[j].pc = "undo" /\ job'[j].channel = ch /\ job'[j].now = job[j].now
          /\ job'[j].todo = job[j].todo
          /\ \A k \in Jobs \ {j} : job'[k] = job[k]
      BY <1>0, <2>1 DEF TypeOK, Job
    <2>3. TypeOK'
      BY <1>0, <1>3, <2>1 DEF TypeOK, Job
    <2>4. (\A c \in Channels : RowSound(c) /\ Covered(c))' /\ FlightSound' /\ ActiveIsLive'
      BY <1>3, <2>1
         DEF WatchInv, RowSound, Created, Covered, Active, Rows, FlightSound, ActiveIsLive
    <2>5. ASSUME NEW k \in Jobs PROVE JobSound(k)'
      <3>0. JobSound(k)  BY DEF WatchInv
      <3> QED BY <1>0, <1>3, <2>1, <2>2, <3>0
            DEF JobSound, Timely, ChannelSound, TodoSound, Opening, Created
    <2>6. JobsApart'
      BY <1>0, <2>2 DEF WatchInv, JobsApart, Opening
    <2>7. NoOrphan'
      BY <1>0, <1>3, <2>1, <2>2 DEF WatchInv, NoOrphan
    <2> QED BY <2>3, <2>4, <2>5, <2>6, <2>7 DEF WatchInv
  <1> QED BY <1>4, <1>5

\* A channel whose row was refused is closed again, or counted as an orphan.
LEMMA UndoInv ==
    ASSUME WatchInv, NEW j \in Jobs, Undo(j)
    PROVE  WatchInv'
  <1>0. TypeOK /\ Opening(j) /\ job[j].channel \in Channels
    BY DEF WatchInv, Undo, Opening, JobSound, ChannelSound
  <1>1. /\ job' = [job EXCEPT ![j] = NoJob]
        /\ UNCHANGED <<status, selected, watch, flight, version, heard, clock, faults, overruled>>
    BY DEF Undo, Done
  <1>2. \/ live' = live \ {job[j].channel} /\ orphans' = orphans
        \/ orphans' = orphans \cup {job[j].channel} /\ live' = live
    BY DEF Undo
  <1> QED BY <1>0, <1>1, <1>2, OpeningEnds DEF TypeOK

\* The channel of a job that dies before its row is written is an orphan.
LEMMA CrashInv ==
    ASSUME WatchInv, NEW j \in Jobs, Crash(j)
    PROVE  WatchInv'
  <1>0. TypeOK /\ faults' \in Nat /\ overruled' = overruled \ {j}
    BY DEF WatchInv, TypeOK, Crash, Fail
  <1>1. /\ job' = [job EXCEPT ![j] = NoJob]
        /\ UNCHANGED <<status, selected, watch, live, flight, version, heard, clock>>
    BY DEF Crash, Done, provider
  <1>2. CASE Opening(j)
    <2>1. job[j].channel \in Channels
      BY <1>2 DEF WatchInv, JobSound, ChannelSound, Opening
    <2>2. orphans' = orphans \cup {job[j].channel}
      BY <1>2 DEF Crash, Opening
    <2> QED BY <1>0, <1>1, <1>2, <2>1, <2>2, OpeningEnds DEF TypeOK
  <1>3. CASE ~Opening(j)
    <2>1. orphans' = orphans
      BY <1>3 DEF Crash, Opening
    <2> QED BY <1>0, <1>1, <1>3, <2>1, NoJobMoves DEF TypeOK
  <1> QED BY <1>2, <1>3

\* Rows may be marked, or go, and messages be counted: a job that is electing is overruled
\* if it was its own row.
LEMMA RowsMove ==
    ASSUME WatchInv, watch' \in [Channels -> Watch],
           \A ch \in Channels : /\ watch'[ch].expiresAt = watch[ch].expiresAt
                                /\ watch'[ch].last = watch[ch].last
                                /\ watch'[ch].status # watch[ch].status =>
                                     \/ watch'[ch].status = "stopping" /\ watch[ch].status = "active"
                                     \/ watch'[ch].status = "none" /\ watch[ch].status = "stopping"
                                        /\ (ch \notin live \/ watch[ch].expiresAt <= clock),
           overruled' \in SUBSET Jobs,
           \A k \in Jobs : /\ job'[k].pc = "elected" => job[k].pc = "elected"
                           /\ job'[k].pc = "elected" /\ watch[job[k].channel].status = "active" =>
                                k \in overruled' \/ watch'[job[k].channel].status = "active"
                           /\ job'[k].pc = "elected" /\ k \in overruled => k \in overruled',
           \A k \in Jobs : \/ job'[k] = job[k]
                           \/ /\ job'[k] = [job[k] EXCEPT !.pc = "collect"]
                              /\ job[k].pc = "elected",
           job' \in [Jobs -> Job],
           UNCHANGED <<status, selected, provider, heard, clock, faults, orphans>>
    PROVE  WatchInv'
  <1> USE DEF provider
  <1>0. TypeOK  BY DEF WatchInv
  <1>1. TypeOK'  BY <1>0 DEF TypeOK
  <1>2. ASSUME NEW ch \in Channels PROVE RowSound(ch)' /\ Covered(ch)'
    BY <1>0, <1>2 DEF WatchInv, RowSound, Covered, Created, Active, Rows
  <1>3. ActiveIsLive' /\ FlightSound'
    BY DEF WatchInv, ActiveIsLive, FlightSound, Active, Rows
  <1>4. \A k \in Jobs : /\ job'[k].channel = job[k].channel /\ job'[k].now = job[k].now
                        /\ job'[k].todo = job[k].todo
                        /\ job'[k].pc = job[k].pc \/ (job'[k].pc = "collect" /\ job[k].pc = "elected")
    BY <1>0, JobFields DEF Job
  <1>5. ASSUME NEW k \in Jobs PROVE JobSound(k)'
    <2>0. /\ Timely(k) /\ ChannelSound(k) /\ TodoSound(k) /\ job[k].todo \subseteq Channels
          /\ clock' = clock /\ live' = live
      BY <1>0, JobFields DEF WatchInv, JobSound
    <2>1. Timely(k)'
      BY <1>4, <2>0 DEF Timely, ChannelSound
    <2>2. ChannelSound(k)'
      BY <1>4, <2>0 DEF ChannelSound, Opening, Created
    <2>3. TodoSound(k)'
      BY <1>4, <2>0 DEF TodoSound, Created
    <2> QED BY <2>1, <2>2, <2>3 DEF JobSound
  <1>6. JobsApart'
    BY <1>4 DEF WatchInv, JobsApart, Opening
  <1>7. NoOrphan'
    <2> SUFFICES ASSUME NEW c \in live PROVE
           \/ watch'[c].status # "none" \/ watch'[c].expiresAt <= clock \/ c \in orphans
           \/ \E k \in Jobs : job'[k].channel = c /\ job'[k].pc \in {"commit", "undo"}
      BY DEF NoOrphan
    <2>1. c \in Channels  BY <1>0 DEF TypeOK
    <2> QED BY <1>4, <2>1 DEF WatchInv, NoOrphan
  <1> QED BY <1>1, <1>2, <1>3, <1>5, <1>6, <1>7 DEF WatchInv

\* What a demotion changes in the rows.
LEMMA DemotedRows ==
    ASSUME TypeOK, NEW S
    PROVE  /\ Demoted(S) \in [Channels -> Watch]
           /\ \A ch \in Channels :
                 /\ Demoted(S)[ch].expiresAt = watch[ch].expiresAt
                 /\ Demoted(S)[ch].last = watch[ch].last
                 /\ Demoted(S)[ch].status = IF ch \in S /\ watch[ch].status = "active"
                                            THEN "stopping" ELSE watch[ch].status
  BY WatchFields DEF Demoted, TypeOK, Watch

\* A demotion marks before anything is stopped.
LEMMA DemoteInv ==
    ASSUME WatchInv, NEW j \in Jobs, Demote(j)
    PROVE  WatchInv'
  <1>0. TypeOK  BY DEF WatchInv
  <1>1. PICK ch \in job[j].todo \cap Rows({"active"}) :
           /\ watch' = Demoted({ch})
           /\ overruled' = overruled \cup {k \in Jobs : job[k].pc = "elected" /\ job[k].channel = ch}
    BY DEF Demote
  <1>2. overruled' \in SUBSET Jobs /\ overruled \subseteq overruled'
    BY <1>0, <1>1 DEF TypeOK
  <1>3. \A k \in Jobs : job[k].pc = "elected" =>
           job[k].channel \in Channels /\ (job[k].channel = ch => k \in overruled')
    BY <1>1 DEF WatchInv, JobSound, ChannelSound
  <1>4. UNCHANGED <<status, selected, provider, heard, job, clock, faults, orphans>>
    BY DEF Demote
  <1>5. /\ watch' \in [Channels -> Watch]
        /\ \A c \in Channels :
              /\ watch'[c].expiresAt = watch[c].expiresAt /\ watch'[c].last = watch[c].last
              /\ watch'[c].status = IF c \in {ch} /\ watch[c].status = "active"
                                    THEN "stopping" ELSE watch[c].status
    BY <1>0, <1>1, DemotedRows
  <1>6. \A k \in Jobs : job[k].pc = "elected" /\ watch[job[k].channel].status = "active" =>
           k \in overruled' \/ watch'[job[k].channel].status = "active"
    BY <1>3, <1>5
  <1> QED BY <1>0, <1>2, <1>4, <1>5, <1>6, RowsMove DEF TypeOK

\* The committed channel replaces those it marks.
LEMMA StopOthersInv ==
    ASSUME WatchInv, NEW j \in Jobs, StopOthers(j)
    PROVE  WatchInv'
  <1> DEFINE S == Channels \ {job[j].channel}
  <1>0. TypeOK /\ job[j].pc = "elected" /\ job[j] \in Job
    BY JobFields DEF WatchInv, StopOthers
  <1>1. /\ watch' = Demoted(S) /\ overruled' = overruled \ {j}
        /\ job' = [job EXCEPT ![j].pc = "collect"]
        /\ UNCHANGED <<status, selected, provider, heard, clock, faults, orphans>>
    BY DEF StopOthers, Goto
  <1>2. /\ job' \in [Jobs -> Job] /\ job'[j] = [job[j] EXCEPT !.pc = "collect"]
        /\ job'[j].pc = "collect" /\ \A k \in Jobs \ {j} : job'[k] = job[k]
    BY <1>0, <1>1 DEF TypeOK, Job
  <1>3. \A k \in Jobs \ {j} : job'[k].pc # "elected"
    BY <1>0, <1>2 DEF WatchInv, JobsApart
  <1>4. overruled' \in SUBSET Jobs  BY <1>0, <1>1 DEF TypeOK
  <1>5. /\ watch' \in [Channels -> Watch]
        /\ \A c \in Channels :
              /\ watch'[c].expiresAt = watch[c].expiresAt /\ watch'[c].last = watch[c].last
              /\ watch'[c].status = IF c \in S /\ watch[c].status = "active"
                                    THEN "stopping" ELSE watch[c].status
    BY <1>0, <1>1, DemotedRows
  <1>6. \A k \in Jobs : job'[k].pc # "elected"
    BY <1>2, <1>3
  <1> QED BY <1>0, <1>1, <1>2, <1>4, <1>5, <1>6, RowsMove

\* Only a marked channel is stopped.
LEMMA StopChannelInv ==
    ASSUME WatchInv, NEW j \in Jobs, StopChannel(j)
    PROVE  WatchInv'
  <1>0. TypeOK /\ job[j].pc = "stop" /\ job[j] \in Job /\ Timely(j) /\ TodoSound(j) /\ clock \in Nat
    BY JobFields DEF WatchInv, StopChannel, JobSound, TypeOK
  <1>1. PICK ch \in job[j].todo :
           /\ Stoppable(j, ch)
           /\ live' = IF job[j].token THEN live \ {ch} ELSE live
           /\ job' = [job EXCEPT ![j].pc = "delete", ![j].channel = ch, ![j].todo = @ \ {ch}]
    BY DEF StopChannel
  <1>2. UNCHANGED <<status, selected, watch, flight, version, heard, clock, faults, orphans, overruled>>
    BY DEF StopChannel, history
  <1>3. ch \in Channels /\ Created(ch) /\ watch[ch].status # "active" /\ watch[ch].expiresAt \in Nat
    BY <1>0, JobFields, WatchFields DEF TodoSound
  <1>4. /\ job'[j].pc = "delete" /\ job'[j].channel = ch /\ job'[j].now = job[j].now
        /\ job'[j].todo = job[j].todo \ {ch}
        /\ \A k \in Jobs \ {j} : job'[k] = job[k]
    BY <1>0, <1>1 DEF TypeOK, Job
  <1>5. ch \notin live' \/ watch[ch].expiresAt <= clock
    BY <1>0, <1>1, <1>3, JobFields DEF Stoppable, Timely
  <1>6. live' \subseteq live /\ live \ live' \subseteq {ch}
    BY <1>1
  <1>7. \A k \in Jobs : job[k].pc \in {"commit", "undo"} => job[k].channel # ch /\ k # j
    BY <1>0, <1>1 DEF WatchInv, JobsApart, Opening
  <1>8. TypeOK'
    <2>1. job' \in [Jobs -> Job]  BY <1>0, <1>1, <1>3 DEF TypeOK, Job
    <2> QED BY <1>0, <1>2, <1>6, <2>1 DEF TypeOK
  <1>9. (\A c \in Channels : RowSound(c) /\ Covered(c))' /\ FlightSound'
    BY <1>2 DEF WatchInv, RowSound, Created, Covered, Active, Rows, FlightSound
  <1>10. ActiveIsLive'
    BY <1>2, <1>3, <1>6 DEF WatchInv, ActiveIsLive, Active, Rows
  <1>11. ASSUME NEW k \in Jobs PROVE JobSound(k)'
    <2>0. Timely(k) /\ ChannelSound(k) /\ TodoSound(k)  BY DEF WatchInv, JobSound
    <2>1. CASE k = j
      BY <1>0, <1>2, <1>3, <1>4, <1>5, <2>1
         DEF JobSound, Timely, ChannelSound, TodoSound, Opening, Created
    <2>2. CASE k # j
      <3>1. job'[k] = job[k]  BY <1>4, <2>2
      <3>2. job[k].pc = "commit" => (job[k].channel \in live => job[k].channel \in live')
        BY <1>6, <1>7
      <3> QED BY <1>2, <1>6, <2>0, <3>1, <3>2
            DEF JobSound, Timely, ChannelSound, TodoSound, Opening, Created
    <2> QED BY <2>1, <2>2
  <1>12. JobsApart'
    BY <1>0, <1>4 DEF WatchInv, JobsApart, Opening
  <1>13. NoOrphan'
    BY <1>2, <1>4, <1>6, <1>7 DEF WatchInv, NoOrphan
  <1> QED BY <1>8, <1>9, <1>10, <1>11, <1>12, <1>13 DEF WatchInv

\* A row goes after its channel has gone.
LEMMA DeleteRowInv ==
    ASSUME WatchInv, NEW j \in Jobs, DeleteRow(j)
    PROVE  WatchInv'
  <1> DEFINE ch == job[j].channel
             new == IF job[j].todo = {} THEN NoJob
                    ELSE [job[j] EXCEPT !.pc = "stop", !.channel = None]
  <1>0. /\ TypeOK /\ job[j].pc = "delete" /\ job[j] \in Job
        /\ Timely(j) /\ ChannelSound(j) /\ TodoSound(j)
    BY JobFields DEF WatchInv, DeleteRow, JobSound
  <1>1. ch \in Channels /\ watch[ch] \in Watch /\ (ch \notin live \/ watch[ch].expiresAt <= clock)
    BY <1>0, WatchFields DEF ChannelSound
  <1>2. UNCHANGED <<status, selected, live, flight, version, heard, clock, faults, orphans, overruled>>
    BY DEF DeleteRow, provider, history
  <1>3. watch' = IF watch[ch].status = "stopping" THEN [watch EXCEPT ![ch].status = "none"] ELSE watch
    BY DEF DeleteRow
  <1>4. /\ watch' \in [Channels -> Watch]
        /\ \A c \in Channels : /\ watch'[c].expiresAt = watch[c].expiresAt
                               /\ watch'[c].last = watch[c].last
                               /\ watch'[c].status = watch[c].status
                                  \/ /\ c = ch
                                     /\ watch[c].status = "stopping" /\ watch'[c].status = "none"
    BY <1>0, <1>1, <1>3 DEF TypeOK, Watch
  <1>5. /\ new \in Job /\ job' = [job EXCEPT ![j] = new]
        /\ new.pc \in {"idle", "stop"} /\ new.todo = job[j].todo
        /\ new.pc # "idle" => new.now = job[j].now
    BY <1>0 DEF DeleteRow, Stopping, TypeOK, Job, NoJob
  <1> HIDE DEF new
  <1>6. job'[j] = new /\ job' \in [Jobs -> Job] /\ \A k \in Jobs \ {j} : job'[k] = job[k]
    BY <1>0, <1>5 DEF TypeOK
  <1>7. TypeOK'
    BY <1>0, <1>2, <1>4, <1>6 DEF TypeOK
  <1>8. ASSUME NEW c \in Channels PROVE RowSound(c)' /\ Covered(c)'
    BY <1>2, <1>4 DEF WatchInv, RowSound, Covered, Created, Active, Rows
  <1>9. ActiveIsLive' /\ FlightSound'
    BY <1>2, <1>4 DEF WatchInv, ActiveIsLive, FlightSound, Active, Rows
  <1>10. ASSUME NEW k \in Jobs PROVE JobSound(k)'
    <2>0. Timely(k) /\ ChannelSound(k) /\ TodoSound(k) /\ job[k].todo \subseteq Channels
      BY <1>0, JobFields DEF WatchInv, JobSound
    <2>1. CASE k = j
      BY <1>0, <1>2, <1>4, <1>5, <1>6, <2>0, <2>1
         DEF JobSound, Timely, ChannelSound, TodoSound, Opening, Created
    <2>2. CASE k # j
      <3>1. job'[k] = job[k]  BY <1>6, <2>2
      <3>2. Timely(k)'  BY <1>2, <1>4, <2>0, <3>1 DEF Timely, ChannelSound
      <3>3. ChannelSound(k)'
        BY <1>2, <1>4, <2>0, <3>1 DEF ChannelSound, Opening, Created
      <3>4. TodoSound(k)'  BY <1>4, <2>0, <3>1 DEF TodoSound, Created
      <3> QED BY <3>2, <3>3, <3>4 DEF JobSound
    <2> QED BY <2>1, <2>2
  <1>11. JobsApart'
    BY <1>0, <1>5, <1>6 DEF WatchInv, JobsApart, Opening
  <1>12. NoOrphan'
    <2> SUFFICES ASSUME NEW c \in live PROVE
           \/ watch'[c].status # "none" \/ watch'[c].expiresAt <= clock \/ c \in orphans
           \/ \E k \in Jobs : job'[k].channel = c /\ job'[k].pc \in {"commit", "undo"}
      BY <1>2 DEF NoOrphan
    <2>1. c \in Channels  BY <1>0 DEF TypeOK
    <2>2. \A k \in Jobs : job[k].pc \in {"commit", "undo"} => job'[k] = job[k]
      BY <1>0, <1>6
    <2> QED BY <1>1, <1>4, <2>1, <2>2 DEF WatchInv, NoOrphan
  <1> QED BY <1>7, <1>8, <1>9, <1>10, <1>11, <1>12 DEF WatchInv

-----------------------------------------------------------------------------
(* The owner, the provider, the webhook, and time.                         *)

\* A request for a refresh is made, or the connection changes.
LEMMA OwnerInv ==
    ASSUME WatchInv, heard' \in {heard, version},
           status' \in {"active", "needs_reauth", "disconnected", "deleted"},
           selected' \in BOOLEAN, faults' \in Nat,
           UNCHANGED <<watch, provider, job, clock, history>>
    PROVE  WatchInv'
  <1> USE DEF provider, history
  <1>1. TypeOK'  BY DEF WatchInv, TypeOK
  <1>2. (\A ch \in Channels : RowSound(ch) /\ Covered(ch))'
    BY DEF WatchInv, RowSound, Covered, Created, Active, Rows
  <1>3. (\A j \in Jobs : JobSound(j))' /\ JobsApart'
    BY DEF WatchInv, JobSound, Timely, ChannelSound, TodoSound, JobsApart, Opening, Created
  <1>4. FlightSound' /\ ActiveIsLive' /\ NoOrphan'
    BY DEF WatchInv, FlightSound, ActiveIsLive, Active, Rows, NoOrphan
  <1> QED BY <1>1, <1>2, <1>3, <1>4 DEF WatchInv

\* A change at the provider is told on every channel that stands.
LEMMA ChangeInv ==
    ASSUME WatchInv, Change
    PROVE  WatchInv'
  <1>0. TypeOK /\ version \in Nat  BY DEF WatchInv, TypeOK
  <1>1. /\ version' = version + 1
        /\ flight' = flight \cup {<<ch, version + 1>> :
                                    ch \in {c \in live : watch[c].expiresAt > clock}}
        /\ UNCHANGED <<status, selected, watch, live, heard, job, clock, faults, history>>
    BY DEF Change
  <1> USE DEF history
  <1>2. TypeOK'  BY <1>0, <1>1 DEF TypeOK
  <1>3. \A ch \in Channels : RowSound(ch)'
    BY <1>0, <1>1, WatchFields DEF WatchInv, RowSound, Created
  <1>4. ASSUME NEW ch \in Channels, ch \in Active(clock) PROVE Covered(ch)'
    <2>1. ch \in live /\ watch[ch].expiresAt > clock
      BY <1>4 DEF WatchInv, ActiveIsLive, Active
    <2>2. watch[ch].last < version + 1
      BY <1>0, WatchFields DEF WatchInv, RowSound
    <2> QED BY <1>1, <2>1, <2>2 DEF Covered
  <1>5. \A ch \in Channels : Covered(ch)'
    BY <1>1, <1>4 DEF Covered, Active, Rows
  <1>6. (\A j \in Jobs : JobSound(j))' /\ JobsApart'
    BY <1>1 DEF WatchInv, JobSound, Timely, ChannelSound, TodoSound, JobsApart, Opening, Created
  <1>7. ActiveIsLive' /\ NoOrphan'
    BY <1>1 DEF WatchInv, ActiveIsLive, Active, Rows, NoOrphan
  <1>8. FlightSound'
    <2> SUFFICES ASSUME NEW m \in flight' PROVE m[2] <= version + 1
      BY <1>1 DEF FlightSound
    <2>1. CASE m \in flight
      BY <1>0, <2>1 DEF WatchInv, FlightSound, TypeOK
    <2>2. CASE m \notin flight
      BY <1>0, <1>1, <2>2
    <2> QED BY <2>1, <2>2
  <1> QED BY <1>2, <1>3, <1>5, <1>6, <1>7, <1>8 DEF WatchInv

\* A message that is accepted asks for its change.
LEMMA AcceptInv ==
    ASSUME WatchInv, NEW ch \in Channels, NEW n \in Nat, Accept(ch, n)
    PROVE  WatchInv'
  <1>0. TypeOK /\ <<ch, n>> \in flight  BY DEF WatchInv, Accept
  <1>1. /\ watch' = [watch EXCEPT ![ch].last = n] /\ heard' = version
        /\ UNCHANGED <<status, selected, live, flight, version, job, clock, faults, orphans, overruled>>
    BY DEF Accept, provider, history
  <1>2. n <= version
    BY <1>0 DEF WatchInv, FlightSound
  <1>3. /\ watch' \in [Channels -> Watch]
        /\ \A c \in Channels : /\ watch'[c].expiresAt = watch[c].expiresAt
                               /\ watch'[c].status = watch[c].status
                               /\ watch'[c].last \in {watch[c].last, n}
    BY <1>0, <1>1 DEF TypeOK, Watch
  <1>4. TypeOK'  BY <1>0, <1>1, <1>3 DEF TypeOK
  <1>5. (\A c \in Channels : RowSound(c) /\ Covered(c))'
    BY <1>1, <1>2, <1>3 DEF WatchInv, RowSound, Covered, Created
  <1>6. ASSUME NEW k \in Jobs PROVE JobSound(k)'
    <2>0. /\ Timely(k) /\ ChannelSound(k) /\ TodoSound(k) /\ job[k].todo \subseteq Channels
          /\ job'[k] = job[k] /\ clock' = clock /\ live' = live /\ overruled' = overruled
      BY <1>0, <1>1, JobFields DEF WatchInv, JobSound
    <2>1. Timely(k)'  BY <1>3, <2>0 DEF Timely, ChannelSound
    <2>2. ChannelSound(k)'  BY <1>3, <2>0 DEF ChannelSound, Opening, Created
    <2>3. TodoSound(k)'  BY <1>3, <2>0 DEF TodoSound, Created
    <2> QED BY <2>1, <2>2, <2>3 DEF JobSound
  <1>7. JobsApart' /\ FlightSound'
    BY <1>1 DEF WatchInv, JobsApart, FlightSound, Opening
  <1>8. ActiveIsLive'
    BY <1>1, <1>3 DEF WatchInv, ActiveIsLive, Active, Rows
  <1>9. NoOrphan'
    BY <1>0, <1>1, <1>3 DEF WatchInv, NoOrphan, TypeOK
  <1> QED BY <1>4, <1>5, <1>6, <1>7, <1>8, <1>9 DEF WatchInv

\* Only a message on a channel without a row is dropped.
LEMMA DismissInv ==
    ASSUME WatchInv, NEW ch \in Channels, NEW n \in Nat, Dismiss(ch, n)
    PROVE  WatchInv'
  <1>1. /\ watch[ch].status = "none" /\ flight' = flight \ {<<ch, n>>}
        /\ UNCHANGED <<status, selected, watch, live, version, heard, job, clock, faults, orphans,
                       overruled>>
    BY DEF Dismiss, history
  <1>2. TypeOK'  BY <1>1 DEF WatchInv, TypeOK
  <1>3. ASSUME NEW c \in Channels PROVE RowSound(c)' /\ Covered(c)'
    <2>1. CASE c = ch  BY <1>1, <2>1 DEF WatchInv, RowSound, Covered, Created, Active, Rows
    <2>2. CASE c # ch  BY <1>1, <2>2 DEF WatchInv, RowSound, Covered, Created, Active, Rows
    <2> QED BY <2>1, <2>2
  <1>4. (\A j \in Jobs : JobSound(j))' /\ JobsApart'
    BY <1>1 DEF WatchInv, JobSound, Timely, ChannelSound, TodoSound, JobsApart, Opening, Created
  <1>5. FlightSound' /\ ActiveIsLive' /\ NoOrphan'
    BY <1>1 DEF WatchInv, FlightSound, ActiveIsLive, Active, Rows, NoOrphan
  <1> QED BY <1>2, <1>3, <1>4, <1>5 DEF WatchInv

\* Time passes, but not so much that a job becomes as old as MaxAge.
LEMMA TickInv ==
    ASSUME WatchInv, Tick
    PROVE  WatchInv'
  <1>0. TypeOK /\ clock \in Nat /\ MaxAge \in Nat
    BY ConstantsAssumption DEF WatchInv, TypeOK
  <1>1. /\ clock' = clock + 1
        /\ \A j \in Jobs : job[j].pc # "idle" => clock - job[j].now < MaxAge
        /\ UNCHANGED <<status, selected, watch, live, flight, version, heard, job, faults, orphans,
                       overruled>>
    BY DEF Tick, provider, history
  <1>2. TypeOK'  BY <1>0, <1>1 DEF TypeOK
  <1>3. \A ch \in Channels : watch[ch].expiresAt > clock + 1 => watch[ch].expiresAt > clock
    BY <1>0, WatchFields
  <1>4. (\A ch \in Channels : RowSound(ch) /\ Covered(ch))'
    BY <1>1, <1>3 DEF WatchInv, RowSound, Covered, Created, Active, Rows
  <1>5. ASSUME NEW j \in Jobs PROVE JobSound(j)'
    <2>0. JobSound(j) /\ job[j].now \in Nat  BY <1>0, JobFields DEF WatchInv
    <2>1. Timely(j)'  BY <1>0, <1>1, <2>0 DEF JobSound, Timely
    <2>2. ChannelSound(j)'
      <3>1. job[j].pc = "delete" =>
               \/ job[j].channel \notin live \/ watch[job[j].channel].expiresAt <= clock + 1
        BY <1>0, <2>0, WatchFields DEF JobSound, ChannelSound
      <3> QED BY <1>1, <2>0, <3>1 DEF JobSound, ChannelSound, Opening, Created
    <2>3. TodoSound(j)'  BY <1>1, <2>0 DEF JobSound, TodoSound, Created
    <2> QED BY <2>1, <2>2, <2>3 DEF JobSound
  <1>6. JobsApart' /\ FlightSound'
    BY <1>1 DEF WatchInv, JobsApart, FlightSound, Opening
  <1>7. ActiveIsLive'
    BY <1>1, <1>3 DEF WatchInv, ActiveIsLive, Active, Rows
  <1>8. NoOrphan'
    <2>1. \A ch \in live : watch[ch].expiresAt <= clock => watch[ch].expiresAt <= clock + 1
      BY <1>0, WatchFields DEF TypeOK
    <2> QED BY <1>1, <2>1 DEF WatchInv, NoOrphan
  <1> QED BY <1>2, <1>4, <1>5, <1>6, <1>7, <1>8 DEF WatchInv

-----------------------------------------------------------------------------
(* The theorems.                                                           *)

\* At first there are neither channels nor jobs.
LEMMA InitInv == Init => WatchInv
  <1> SUFFICES ASSUME Init PROVE WatchInv  OBVIOUS
  <1>1. TypeOK
    BY DEF Init, TypeOK, NoWatch, Watch, NoJob, Job
  <1>2. \A ch \in Channels : RowSound(ch) /\ Covered(ch)
    BY DEF Init, RowSound, Covered, Active, Rows, NoWatch
  <1>3. \A j \in Jobs : job[j].pc = "idle" /\ job[j].todo = {}
    BY DEF Init, NoJob
  <1>4. (\A j \in Jobs : JobSound(j)) /\ JobsApart
    BY <1>3 DEF JobSound, Timely, ChannelSound, TodoSound, JobsApart, Opening
  <1>5. FlightSound /\ ActiveIsLive /\ NoOrphan
    BY DEF Init, FlightSound, ActiveIsLive, NoOrphan, Active, Rows, NoWatch
  <1> QED BY <1>1, <1>2, <1>4, <1>5 DEF WatchInv

\* Every step keeps the invariant.
LEMMA StepInv ==
    ASSUME WatchInv, [Next]_vars
    PROVE  WatchInv'
  <1>0. /\ status \in {"active", "needs_reauth", "disconnected", "deleted"} /\ selected \in BOOLEAN
        /\ faults \in Nat /\ flight \in SUBSET (Channels \X Nat)
    BY DEF WatchInv, TypeOK
  <1>1. ASSUME NEW j \in Jobs, JobStep(j) PROVE WatchInv'
    <2>1. CASE Demote(j) \/ EndDemotion(j) \/ Prepare(j)
      BY <2>1, DemoteInv, EndDemotionInv, PrepareInv
    <2>2. CASE Create(j) \/ Commit(j) \/ Undo(j)
      BY <2>2, CreateInv, CommitInv, UndoInv
    <2>3. CASE Elect(j) \/ StopOthers(j)
      BY <2>3, ElectInv, StopOthersInv
    <2>4. CASE Collect(j) \/ SkipChannel(j) \/ GiveUp(j)
      BY <2>4, StopsInv
    <2>5. CASE StopChannel(j) \/ DeleteRow(j)
      BY <2>5, StopChannelInv, DeleteRowInv
    <2> QED BY <1>1, <2>1, <2>2, <2>3, <2>4, <2>5 DEF JobStep
  <1>2. ASSUME NEW j \in Jobs, StartRenewal(j) \/ Crash(j) PROVE WatchInv'
    BY <1>2, StartInv, CrashInv
  <1>3. ASSUME NEW j \in Jobs, NEW ch \in Channels, StartDemotion(j, ch) PROVE WatchInv'
    BY <1>3, StartInv
  <1>4. CASE OwnerStep
    <2>1. CASE Select \/ Reauth
      <3>1. /\ heard' \in {heard, version} /\ selected' \in BOOLEAN /\ faults' \in Nat
            /\ status' \in {"active", "needs_reauth", "disconnected", "deleted"}
            /\ UNCHANGED <<watch, provider, job, clock, history>>
        <4>1. CASE Select  BY <1>0, <4>1 DEF Select
        <4>2. CASE Reauth  BY <1>0, <4>2 DEF Reauth, Fail
        <4> QED BY <2>1, <4>1, <4>2
      <3> QED BY <3>1, OwnerInv
    <2>2. ASSUME NEW j \in Jobs, Deselect(j) \/ Disconnect(j) PROVE WatchInv'
      BY <2>2, StartInv
    <2> QED BY <1>4, <2>1, <2>2 DEF OwnerStep
  <1>5. CASE Finalize
    BY <1>0, <1>5, OwnerInv DEF Finalize
  <1>6. CASE Change  BY <1>6, ChangeInv
  <1>7. CASE Tick  BY <1>7, TickInv
  <1>8. ASSUME NEW m \in flight, Accept(m[1], m[2]) \/ Dismiss(m[1], m[2]) PROVE WatchInv'
    <2>1. m[1] \in Channels /\ m[2] \in Nat  BY <1>0
    <2> QED BY <1>8, <2>1, AcceptInv, DismissInv
  <1>9. CASE UNCHANGED vars
    BY <1>0, <1>9, OwnerInv DEF vars, provider, history
  <1> QED BY <1>1, <1>2, <1>3, <1>4, <1>5, <1>6, <1>7, <1>8, <1>9 DEF Next

\* The types, what stands and what is open, and what each job is about, at every step of
\* any maintenance, any renewal and any messages.
THEOREM WatchInvariant == Spec => []WatchInv
  BY InitInv, StepInv, PTL DEF Spec

\* Every variable keeps its type, through any overlap of the jobs.
THEOREM WatchTypes == Spec => []TypeOK
  <1>1. WatchInv => TypeOK  BY DEF WatchInv
  <1> QED BY <1>1, WatchInvariant, PTL

\* handleWebhook and createOrRenew: while a channel stands for a selected source, a change
\* has been asked for, or a message about it is still to be accepted.
THEOREM ChangesAreHeard == Spec => []NothingUnheard
  <1>1. WatchInv => NothingUnheard
    <2> SUFFICES ASSUME WatchInv, NEW ch \in Active(clock), heard # version
                 PROVE  \E m \in flight : Known(m[1]) /\ watch[m[1]].last < m[2]
      BY DEF NothingUnheard
    <2>1. ch \in Channels /\ watch[ch].status = "active" /\ watch[ch].expiresAt > clock
      BY DEF Active, Rows
    <2>2. <<ch, version>> \in flight /\ watch[ch].last < version
      BY <2>1 DEF WatchInv, Covered
    <2>3. Known(ch)  BY <2>1 DEF Known
    <2> QED BY <2>2, <2>3
  <1> QED BY <1>1, WatchInvariant, PTL

\* createOrRenew and stopPreparedBestEffort: a channel that is open at the provider has a
\* row or a job, unless its creator died or could not close it.
THEOREM OrphansExplained == Spec => []NoOrphan
  <1>1. WatchInv => NoOrphan  BY DEF WatchInv
  <1> QED BY <1>1, WatchInvariant, PTL

\* No channel is stopped at the provider before its row is marked.
THEOREM ActiveStands == Spec => []ActiveIsLive
  <1>1. WatchInv => ActiveIsLive  BY DEF WatchInv
  <1> QED BY <1>1, WatchInvariant, PTL

\* The channel of the job that elects outlives it.
LEMMA ElectedStands ==
    ASSUME WatchInv, NEW j \in Jobs, job[j].pc = "elected", overruled = {}
    PROVE  job[j].channel \in Active(clock)
  <1>1. TypeOK /\ Timely(j) /\ ChannelSound(j)  BY DEF WatchInv, JobSound
  <1>2. job[j].channel \in Channels /\ watch[job[j].channel].status = "active"
    BY <1>1 DEF ChannelSound
  <1>3. watch[job[j].channel].expiresAt > clock
    <2>1. /\ watch[job[j].channel].expiresAt >= job[j].now + WatchLife
          /\ clock <= job[j].now + MaxAge
      BY <1>1 DEF Timely
    <2>2. /\ job[j].now \in Nat /\ clock \in Nat /\ watch[job[j].channel].expiresAt \in Nat
          /\ MaxAge \in Nat /\ WatchLife \in Nat /\ WatchLife > MaxAge
      BY <1>1, <1>2, JobFields, WatchFields, ConstantsAssumption DEF TypeOK
    <2> QED BY <2>1, <2>2
  <1> QED BY <1>2, <1>3 DEF Active, Rows

\* Overlapping renewals never leave a wanted source without a channel: whoever marks a
\* channel that stands has another that stands, or saw the source unwanted, or was
\* overruled by a job that did.
THEOREM RenewalsLeaveNoGap == Spec => NoGap
  <1> DEFINE Kept == \A ch \in Active(clock) :
                        watch'[ch].status = "stopping" /\ Wanted =>
                            \/ Active(clock)' # {}
                            \/ \E j \in Jobs : job[j].pc = "demote" /\ ch \in job[j].todo
                            \/ overruled # {}
  <1>1. ASSUME WatchInv, [Next]_vars PROVE Kept
    <2>0. TypeOK  BY <1>1 DEF WatchInv
    <2> SUFFICES ASSUME NEW ch \in Channels, watch[ch].status = "active",
                        watch'[ch].status = "stopping", overruled = {}
                 PROVE  \/ Active(clock)' # {}
                        \/ \E j \in Jobs : job[j].pc = "demote" /\ ch \in job[j].todo
      BY DEF Active, Rows
    <2>1. ASSUME NEW j \in Jobs, Demote(j)
          PROVE  job[j].pc = "demote" /\ ch \in job[j].todo
      <3>1. PICK c \in job[j].todo \cap Rows({"active"}) : watch' = Demoted({c})
        BY <2>1 DEF Demote
      <3>2. ch = c  BY <2>0, <3>1, DemotedRows
      <3> QED BY <2>1, <3>1, <3>2 DEF Demote
    <2>2. ASSUME NEW j \in Jobs, StopOthers(j) PROVE Active(clock)' # {}
      <3> DEFINE own == job[j].channel
      <3>1. own \in Active(clock)
        BY <1>1, <2>2, ElectedStands DEF StopOthers
      <3>2. watch' = Demoted(Channels \ {own}) /\ clock' = clock
        BY <2>2 DEF StopOthers
      <3>3. own \in Channels /\ watch[own].status = "active" /\ watch[own].expiresAt > clock
        BY <3>1 DEF Active, Rows
      <3>4. watch'[own].status = "active" /\ watch'[own].expiresAt > clock'
        BY <2>0, <3>2, <3>3, DemotedRows
      <3> QED BY <3>3, <3>4 DEF Active, Rows
    <2>3. ASSUME NEW j \in Jobs, Create(j) PROVE FALSE
      <3>1. PICK c \in Unused : watch' = [watch EXCEPT ![c].expiresAt = clock + WatchLife]
        BY <2>3 DEF Create
      <3> QED BY <2>0, <3>1 DEF TypeOK, Watch, Unused
    <2>4. ASSUME NEW j \in Jobs, Commit(j) PROVE FALSE
      <3>1. CASE watch' = watch  BY <3>1
      <3>2. CASE watch' = [watch EXCEPT ![job[j].channel].status = "active"]
        BY <2>0, <3>2 DEF TypeOK, Watch
      <3> QED BY <2>4, <3>1, <3>2 DEF Commit
    <2>5. ASSUME NEW j \in Jobs, DeleteRow(j) PROVE FALSE
      <3>1. CASE watch' = watch  BY <3>1
      <3>2. CASE watch' = [watch EXCEPT ![job[j].channel].status = "none"]
        BY <2>0, <3>2 DEF TypeOK, Watch
      <3> QED BY <2>5, <3>1, <3>2 DEF DeleteRow
    <2>6. ASSUME NEW c \in Channels, NEW n, Accept(c, n) PROVE FALSE
      BY <2>0, <2>6 DEF Accept, TypeOK, Watch
    <2>7. ASSUME UNCHANGED watch PROVE FALSE
      BY <2>7
    <2>8. ASSUME NEW j \in Jobs,
                 \/ JobStep(j) \/ StartRenewal(j) \/ Crash(j)
                 \/ \E c \in Channels : StartDemotion(j, c)
          PROVE  Demote(j) \/ StopOthers(j) \/ Create(j) \/ Commit(j) \/ DeleteRow(j)
      BY <2>7, <2>8
         DEF JobStep, EndDemotion, GiveUp, Undo, Elect, Collect, StopChannel, SkipChannel, Prepare,
             StartRenewal, Crash, StartDemotion
    <2>9. CASE OwnerStep \/ Finalize \/ Change \/ Tick \/ UNCHANGED vars
      BY <2>7, <2>9 DEF OwnerStep, Select, Reauth, Deselect, Disconnect, Finalize, Change, Tick, vars
    <2>10. ASSUME NEW m \in flight, Accept(m[1], m[2]) \/ Dismiss(m[1], m[2]) PROVE FALSE
      <3>1. m[1] \in Channels  BY <2>0 DEF TypeOK
      <3>2. CASE Dismiss(m[1], m[2])  BY <2>7, <3>2 DEF Dismiss
      <3> QED BY <2>6, <2>10, <3>1, <3>2
    <2> QED BY <1>1, <2>1, <2>2, <2>3, <2>4, <2>5, <2>8, <2>9, <2>10 DEF Next
  <1> QED BY <1>1, WatchInvariant, PTL DEF Spec, NoGap

=============================================================================
