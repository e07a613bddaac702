---------------------------- MODULE CalendarWatch ----------------------------
(* The push channels of one calendar source                                *)
(* (modules/calendar/calendar-watch.service.ts): they are created and      *)
(* renewed by overlapping maintenance runs, stopped when the source is     *)
(* deselected or the account disconnected, and tell of changes at the      *)
(* provider in messages which may be repeated and overtake each other.     *)
(*                                                                         *)
(* A change is heard when a request for a refresh is made after it; what   *)
(* becomes of the request is the matter of CalendarSync.                   *)
EXTENDS Integers, FiniteSets, TLC

CONSTANTS
    Channels,     \* channel ids, each used once
    Jobs,         \* maintenance runs and requests that stop channels
    None,         \* no channel
    WatchLife,    \* life time the provider gives to a channel
    RenewBefore,  \* a channel is renewed this long before its end
    MaxVersion,   \* bound on the changes at the provider
    MaxClock,     \* bound on the clock
    MaxRenewal,   \* bound on the time when channels are created
    MaxAge,       \* bound on the time a job takes
    MaxFaults     \* bound on crashes and lost messages

ASSUME ConstantsAssumption ==
    /\ None \notin Channels
    /\ {RenewBefore, MaxVersion, MaxClock, MaxRenewal, MaxAge, MaxFaults} \subseteq Nat
    /\ WatchLife \in Nat /\ WatchLife > MaxAge /\ WatchLife > RenewBefore

VARIABLES
    status,    \* status of the connection
    selected,  \* the source is selected
    watch,     \* the CalendarWatch rows
    live,      \* channels the provider has opened and not stopped
    flight,    \* messages on their way: <<channel, number>>
    version,   \* version of the calendar at the provider
    heard,     \* version when a refresh was last asked for
    job,       \* local state of each job
    clock,     \* the time `new Date()` returns
    faults,    \* crashes and losses so far
    orphans,   \* history: channels whose creator died, or could not close them
    overruled  \* history: electing jobs whose own channel was given up meanwhile, by a
               \* job that had seen the source unwanted

vars == <<status, selected, watch, live, flight, version, heard, job, clock, faults,
          orphans, overruled>>
provider == <<live, flight, version>>
history == <<orphans, overruled>>

Watch == [status : {"none", "active", "stopping"}, expiresAt : Nat, last : Nat]

\* "renew" creates a channel; the others saw that the source was not wanted, or a
\* channel over.
Job == [pc : {"idle", "prepare", "demote", "create", "commit", "undo", "elect", "elected",
              "collect", "stop", "delete"},
        kind : {"renew", "maintain", "deselect", "disconnect"}, now : Nat,
        channel : Channels \cup {None}, todo : SUBSET Channels, token : BOOLEAN]

TypeOK ==
    /\ status \in {"active", "needs_reauth", "disconnected", "deleted"}
    /\ selected \in BOOLEAN
    /\ watch \in [Channels -> Watch]
    /\ live \in SUBSET Channels
    /\ flight \in SUBSET (Channels \X Nat)
    /\ version \in Nat /\ heard \in Nat /\ clock \in Nat /\ faults \in Nat
    /\ job \in [Jobs -> Job]
    /\ orphans \in SUBSET Channels /\ overruled \in SUBSET Jobs

-----------------------------------------------------------------------------
NoWatch == [status |-> "none", expiresAt |-> 0, last |-> 0]
NoJob == [pc |-> "idle", kind |-> "renew", now |-> 0, channel |-> None, todo |-> {},
          token |-> FALSE]

Init ==
    /\ status = "active" /\ selected = TRUE
    /\ watch = [ch \in Channels |-> NoWatch]
    /\ live = {} /\ flight = {}
    /\ version = 0 /\ heard = 0
    /\ job = [j \in Jobs |-> NoJob]
    /\ clock = 1 /\ faults = 0
    /\ orphans = {} /\ overruled = {}

Wanted == status = "active" /\ selected
Rows(S) == {ch \in Channels : watch[ch].status \in S}
Active(now) == {ch \in Rows({"active"}) : watch[ch].expiresAt > now}

\* Channels that were never opened.
Unused == {ch \in Channels : watch[ch].expiresAt = 0}

\* Job j goes on to stop the channels in todo, if any.
Stopping(j, todo) ==
    job' = [job EXCEPT ![j] = IF todo = {} THEN NoJob
                              ELSE [@ EXCEPT !.pc = "stop", !.channel = None, !.todo = todo]]

Started(kind, pc, now) == [NoJob EXCEPT !.kind = kind, !.pc = pc, !.now = now, !.token = TRUE]
Goto(j, pc) == job' = [job EXCEPT ![j].pc = pc]
Done(j) == job' = [job EXCEPT ![j] = NoJob]
Demoted(S) == [ch \in Channels |-> IF ch \in S /\ watch[ch].status = "active"
                                   THEN [watch[ch] EXCEPT !.status = "stopping"] ELSE watch[ch]]
Fail == faults < MaxFaults /\ faults' = faults + 1

-----------------------------------------------------------------------------
(* maintain: maintainWatch for the rows there are, repairMissing for those *)
(* that are not.                                                           *)

\* maintainWatch, a channel that ends soon and is still wanted; and repairMissing,
\* which wants exactly one.  createOrRenew finds the source again.
StartRenewal(j) ==
    /\ job[j].pc = "idle" /\ Wanted
    /\ \/ Cardinality(Active(clock)) # 1
       \/ \E ch \in Active(clock) : watch[ch].expiresAt <= clock + RenewBefore
    /\ job' = [job EXCEPT ![j] = Started("renew", "create", clock)]
    /\ UNCHANGED <<status, selected, watch, provider, heard, clock, faults, history>>

\* Mutant: what is stopping already is not looked at again.
DemotesActive(j, ch) ==
    /\ job[j].pc = "idle"
    /\ ch \in Rows({"active"}) /\ ~(Wanted /\ ch \in Active(clock))
    /\ job' = [job EXCEPT ![j] =
                  [Started("maintain", "demote", clock) EXCEPT
                      !.todo = {ch}, !.token = status \in {"active", "disconnected"}]]
    /\ UNCHANGED <<status, selected, watch, provider, heard, clock, faults, history>>

\* maintainWatch, a row which is stopping, has expired, or is not wanted any more.
\* Without a connection that is active or disconnected there is no access token.
StartDemotion(j, ch) ==
    /\ job[j].pc = "idle"
    /\ ch \in Rows({"active", "stopping"}) /\ ~(Wanted /\ ch \in Active(clock))
    /\ job' = [job EXCEPT ![j] =
                  [Started("maintain", "demote", clock) EXCEPT
                      !.todo = {ch}, !.token = status \in {"active", "disconnected"}]]
    /\ UNCHANGED <<status, selected, watch, provider, heard, clock, faults, history>>

\* The updateMany of maintainWatch and those of transitionPreparedStops, one row
\* after the other.
Demote(j) ==
    /\ job[j].pc = "demote"
    /\ \E ch \in job[j].todo \cap Rows({"active"}) :
          /\ watch' = Demoted({ch})
          /\ overruled' = overruled \cup {k \in Jobs : job[k].pc = "elected" /\ job[k].channel = ch}
    /\ UNCHANGED <<status, selected, provider, heard, job, clock, faults, orphans>>

\* All are stopping.
EndDemotion(j) ==
    /\ job[j].pc = "demote" /\ job[j].todo \cap Rows({"active"}) = {}
    /\ job' = [job EXCEPT ![j] =
                  IF @.kind = "maintain" THEN [@ EXCEPT !.pc = "collect"]
                  ELSE IF @.todo = {} THEN NoJob ELSE [@ EXCEPT !.pc = "stop", !.now = clock]]
    /\ UNCHANGED <<status, selected, watch, provider, heard, clock, faults, history>>

-----------------------------------------------------------------------------
\* createOrRenew.

\* The provider opens a channel.
Create(j) ==
    /\ job[j].pc = "create"
    /\ clock <= MaxRenewal
    /\ \E ch \in Unused :
          /\ live' = live \cup {ch}
          /\ watch' = [watch EXCEPT ![ch].expiresAt = clock + WatchLife]
          /\ job' = [job EXCEPT ![j].pc = "commit", ![j].channel = ch]
    /\ UNCHANGED <<status, selected, flight, version, heard, clock, faults, history>>

\* The source is not wanted any more, or the provider refuses; a later run retries.
GiveUp(j) ==
    /\ job[j].pc = "create"
    /\ Done(j)
    /\ UNCHANGED <<status, selected, watch, provider, heard, clock, faults, history>>

\* The transaction: if the source is still wanted, the row and, for the changes
\* before it, a request for a refresh.
Commit(j) ==
    /\ job[j].pc = "commit"
    /\ IF Wanted
       THEN /\ watch' = [watch EXCEPT ![job[j].channel].status = "active"]
            /\ heard' = version
            /\ Goto(j, "elect")
       ELSE Goto(j, "undo") /\ UNCHANGED <<watch, heard>>
    /\ UNCHANGED <<status, selected, provider, clock, faults, history>>

\* The channel without a row is closed again, if the provider can be reached.
Undo(j) ==
    /\ job[j].pc = "undo"
    /\ \/ live' = live \ {job[j].channel} /\ UNCHANGED orphans
       \/ orphans' = orphans \cup {job[j].channel} /\ UNCHANGED live
    /\ Done(j)
    /\ UNCHANGED <<status, selected, watch, flight, version, heard, clock, faults, overruled>>

\* Mutant: elections are not serialised.
Unlocked(j) == TRUE

\* The advisory lock of the target is free.
LockFree(j) == \A k \in Jobs : job[k].pc # "elected"

\* electReplacement takes the lock and looks whether its own channel still counts.
Elect(j) ==
    /\ job[j].pc = "elect" /\ LockFree(j)
    /\ Goto(j, IF job[j].channel \in Active(job[j].now) THEN "elected" ELSE "collect")
    /\ UNCHANGED <<status, selected, watch, provider, heard, clock, faults, history>>

\* Then all others are to stop.
StopOthers(j) ==
    /\ job[j].pc = "elected"
    /\ watch' = Demoted(Channels \ {job[j].channel})
    /\ Goto(j, "collect")
    /\ overruled' = overruled \ {j}
    /\ UNCHANGED <<status, selected, provider, heard, clock, faults, orphans>>

-----------------------------------------------------------------------------
\* prepareTargetStops and stopPreparedBestEffort.

\* What is stopping is read.
Collect(j) ==
    /\ job[j].pc = "collect"
    /\ Stopping(j, Rows({"stopping"}))
    /\ UNCHANGED <<status, selected, watch, provider, heard, clock, faults, history>>

\* Mutant: a failed stop counts as stopped.
AnyOutcome(j, ch) == TRUE

\* An expired channel needs no call, any other an access token.
Stoppable(j, ch) == watch[ch].expiresAt <= job[j].now \/ job[j].token

\* stopChannel succeeds, or finds nothing to stop.
StopChannel(j) ==
    /\ job[j].pc = "stop"
    /\ \E ch \in job[j].todo :
          /\ Stoppable(j, ch)
          /\ live' = IF job[j].token THEN live \ {ch} ELSE live
          /\ job' = [job EXCEPT ![j].pc = "delete", ![j].channel = ch, ![j].todo = @ \ {ch}]
    /\ UNCHANGED <<status, selected, watch, flight, version, heard, clock, faults, history>>

\* It could not be stopped, and is left for a later run.
SkipChannel(j) ==
    /\ job[j].pc = "stop"
    /\ \E ch \in job[j].todo :
          /\ watch[ch].expiresAt > job[j].now
          /\ Stopping(j, job[j].todo \ {ch})
    /\ UNCHANGED <<status, selected, watch, provider, heard, clock, faults, history>>

\* The row of a stopped channel goes, if it is still stopping.
DeleteRow(j) ==
    /\ job[j].pc = "delete"
    /\ LET ch == job[j].channel IN
       watch' = IF watch[ch].status = "stopping" THEN [watch EXCEPT ![ch].status = "none"]
                ELSE watch
    /\ Stopping(j, job[j].todo)
    /\ UNCHANGED <<status, selected, provider, heard, clock, faults, history>>

\* Mutant: a status the rest of the program does not know.
FinalizeAsRemoved ==
    /\ status = "disconnected" /\ Rows({"active", "stopping"}) = {}
    /\ status' = "removed" /\ selected' = FALSE
    /\ UNCHANGED <<watch, provider, heard, job, clock, faults, history>>

\* finalizeDisconnectedOwner, the last thing disconnect and maintain do.
Finalize ==
    /\ status = "disconnected" /\ Rows({"active", "stopping"}) = {}
    /\ status' = "deleted" /\ selected' = FALSE
    /\ UNCHANGED <<watch, provider, heard, job, clock, faults, history>>

\* The process dies, or a call fails before there is a channel.
Crash(j) ==
    /\ job[j].pc # "idle"
    /\ Fail
    /\ orphans' = IF job[j].pc \in {"commit", "undo"} THEN orphans \cup {job[j].channel}
                  ELSE orphans
    /\ overruled' = overruled \ {j}
    /\ Done(j)
    /\ UNCHANGED <<status, selected, watch, provider, heard, clock>>

-----------------------------------------------------------------------------
\* The owner.

\* updateSource(selected = true) asks for a refresh.
Select ==
    /\ status = "active"
    /\ selected' = TRUE /\ heard' = version
    /\ UNCHANGED <<status, watch, provider, job, clock, faults, history>>

\* updateSource(selected = false); its channels are stopped by a job.
Deselect(j) ==
    /\ status = "active" /\ selected /\ job[j].pc = "idle"
    /\ selected' = FALSE
    /\ job' = [job EXCEPT ![j] = Started("deselect", "prepare", clock)]
    /\ UNCHANGED <<status, watch, provider, heard, clock, faults, history>>

\* disconnect; the channels are stopped by a job.
Disconnect(j) ==
    /\ status \in {"active", "needs_reauth"} /\ job[j].pc = "idle"
    /\ status' = "disconnected"
    /\ job' = [job EXCEPT ![j] = Started("disconnect", "prepare", clock)]
    /\ UNCHANGED <<selected, watch, provider, heard, clock, faults, history>>

\* Mutant: the channels are stopped before their rows are marked.
PrepareUnmarked(j) ==
    /\ job[j].pc = "prepare"
    /\ job' = [job EXCEPT ![j].pc = "stop",
                  ![j].todo = IF job[j].kind = "disconnect" THEN Active(clock)
                              ELSE Rows({"active", "stopping"}),
                  ![j].token = job[j].kind = "disconnect" \/ status = "active"]
    /\ UNCHANGED <<status, selected, watch, provider, heard, clock, faults, history>>

\* prepareSourceStops and prepareOwnerStops: the job reads what it is to stop.
Prepare(j) ==
    /\ job[j].pc = "prepare"
    /\ job' = [job EXCEPT ![j].pc = "demote",
                  ![j].todo = IF job[j].kind = "disconnect" THEN Active(clock)
                              ELSE Rows({"active", "stopping"}),
                  ![j].token = job[j].kind = "disconnect" \/ status = "active"]
    /\ UNCHANGED <<status, selected, watch, provider, heard, clock, faults, history>>

\* invalid_grant, and the owner's consent anew, with which selected sources are due.
Reauth ==
    /\ \/ status = "active" /\ status' = "needs_reauth" /\ Fail /\ UNCHANGED heard
       \/ status = "needs_reauth" /\ status' = "active" /\ heard' = version /\ UNCHANGED faults
    /\ UNCHANGED <<selected, watch, provider, job, clock, history>>

-----------------------------------------------------------------------------
\* The provider and the webhook.

\* The calendar changes: every channel that is open tells.
Change ==
    /\ version < MaxVersion
    /\ version' = version + 1
    /\ flight' = flight \cup {<<ch, version + 1>> :
                                ch \in {c \in live : watch[c].expiresAt > clock}}
    /\ UNCHANGED <<status, selected, watch, live, heard, job, clock, faults, history>>

Known(ch) == watch[ch].status \in {"active", "stopping"} /\ watch[ch].expiresAt > clock

\* Mutant: the number counts although the request failed.
CountFirst(ch, n) ==
    /\ <<ch, n>> \in flight /\ Known(ch) /\ watch[ch].last < n
    /\ watch' = [watch EXCEPT ![ch].last = n]
    /\ heard' \in {heard, version}
    /\ UNCHANGED <<status, selected, provider, job, clock, faults, history>>

\* handleWebhook: a new message asks for a refresh, and counts only if that
\* succeeded; it may come again.
Accept(ch, n) ==
    /\ <<ch, n>> \in flight /\ Known(ch) /\ watch[ch].last < n
    /\ selected
    /\ watch' = [watch EXCEPT ![ch].last = n]
    /\ heard' = version
    /\ UNCHANGED <<status, selected, provider, job, clock, faults, history>>

\* Nobody knows the channel, not yet or not any more: the provider gives up.  (A
\* number that is not new changes nothing, and the message may still come again.)
Dismiss(ch, n) ==
    /\ <<ch, n>> \in flight /\ watch[ch].status = "none"
    /\ flight' = flight \ {<<ch, n>>}
    /\ UNCHANGED <<status, selected, watch, live, version, heard, job, clock, faults, history>>

\* No job takes as long as MaxAge.
Tick ==
    /\ clock < MaxClock
    /\ \A j \in Jobs : job[j].pc # "idle" => clock - job[j].now < MaxAge
    /\ clock' = clock + 1
    /\ UNCHANGED <<status, selected, watch, provider, heard, job, faults, history>>

-----------------------------------------------------------------------------
JobStep(j) ==
    \/ Demote(j) \/ EndDemotion(j) \/ Create(j) \/ GiveUp(j) \/ Commit(j) \/ Undo(j)
    \/ Elect(j) \/ StopOthers(j) \/ Collect(j) \/ StopChannel(j) \/ SkipChannel(j) \/ DeleteRow(j)
    \/ Prepare(j)

OwnerStep == Select \/ Reauth \/ \E j \in Jobs : Deselect(j) \/ Disconnect(j)

Next ==
    \/ \E j \in Jobs : JobStep(j) \/ StartRenewal(j) \/ Crash(j)
    \/ \E j \in Jobs, ch \in Channels : StartDemotion(j, ch)
    \/ OwnerStep \/ Finalize \/ Change \/ Tick
    \/ \E m \in flight : Accept(m[1], m[2]) \/ Dismiss(m[1], m[2])

Spec == Init /\ [][Next]_vars

\* A job that has begun goes on, maintenance comes to every row again and again,
\* and time passes.
FairSpec ==
    /\ Spec
    /\ \A j \in Jobs : WF_vars(JobStep(j))
    /\ \A ch \in Channels : SF_vars(\E j \in Jobs : StartDemotion(j, ch))
    /\ WF_vars(Finalize) /\ WF_vars(Tick)

-----------------------------------------------------------------------------
\* What it is for.

\* While a channel stands for a selected source, no change goes unheard: there was
\* a request after it, or a message is still to be accepted, whatever renewals,
\* repeated or reordered messages and rejected ones do.
NothingUnheard ==
    selected /\ Active(clock) # {} =>
        \/ heard = version
        \/ \E m \in flight : Known(m[1]) /\ watch[m[1]].last < m[2]

\* Overlapping renewals never leave a wanted source without a channel: one is told
\* to stop only while another stands, unless some job had seen the source unwanted.
NoGap ==
    [][\A ch \in Active(clock) :
          watch'[ch].status = "stopping" /\ Wanted =>
              \/ Active(clock)' # {}
              \/ \E j \in Jobs : job[j].pc = "demote" /\ ch \in job[j].todo
              \/ overruled # {}]_vars

\* Every channel that is open at the provider is known here, so that somebody will
\* close it, unless its creator died or could not reach the provider.
NoOrphan ==
    \A ch \in live :
        \/ watch[ch].status # "none" \/ watch[ch].expiresAt <= clock \/ ch \in orphans
        \/ \E j \in Jobs : job[j].channel = ch /\ job[j].pc \in {"commit", "undo"}

\* What is active here is open there: a channel is never stopped at the provider
\* before its row is marked.
ActiveIsLive == Active(clock) \subseteq live

\* A disconnected account goes in the end, though channels could not be stopped.
DisconnectCompletes == status = "disconnected" ~> status = "deleted"

\* For the model checker: which channel and which job is which makes no difference.
Symmetry == Permutations(Channels) \cup Permutations(Jobs)

=============================================================================
