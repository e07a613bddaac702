---------------------------- MODULE CalendarSync ----------------------------
(* Mirroring Google calendars into Postgres                                *)
(* (modules/calendar/calendar-sync.service.ts).                            *)
(*                                                                         *)
(* Any number of scheduler runs, in one or several API processes, pull the *)
(* events of the calendars (sources) of one connection.  Nothing but the   *)
(* columns of the source row co-ordinates them: pendingSyncAt says that    *)
(* work is due and doubles as the version a run compares and swaps on,     *)
(* syncLeaseUntil keeps other runs away for five minutes.  In between,     *)
(* webhooks, the catch-up and reconciliation jobs, and the user's requests *)
(* write the same row.  Each action below is one database transaction, one *)
(* provider call or one cron tick: the code awaits between any two.        *)
(*                                                                         *)
(* The content of a calendar is abstracted to a version number which grows *)
(* with each change at the provider.                                       *)
EXTENDS Integers, TLC

CONSTANTS
    Sources,      \* calendars of the connection
    Runs,         \* concurrent scheduler runs
    LeaseTime,    \* LEASE_MS
    JitterTime,   \* bound of the backoff jitter, fifteen minutes in the code
    MaxPages,     \* most pages a listing has (bound)
    MaxClock,     \* bound on the clock
    MaxAge,       \* bound on the age of the time a job or request writes
    MaxPending,   \* bound on pendingSyncAt, which requests may push past the clock
    MaxVersion,   \* bound on the changes of one calendar
    MaxFaults,    \* bound on the provider errors and crashes
    QuietAfter    \* the time after which requests stop in LiveSpec

ASSUME ConstantsAssumption ==
    /\ LeaseTime \in Nat
    /\ JitterTime \in Nat
    /\ MaxPages \in Nat \ {0}
    /\ {MaxClock, MaxAge, MaxPending, MaxVersion, MaxFaults} \subseteq Nat
    /\ Sources # {}

VARIABLES
    status,   \* status of the connection, "deleted" once its row is gone
    row,      \* the CalendarSource rows, with the events mirrored under them
    version,  \* the provider: current version of each calendar
    run,      \* local state of each scheduler run
    clock,    \* the time `new Date()` returns
    faults,   \* provider errors and crashes so far
    asked,    \* history: version when a refresh of the source was last asked for
    fullAsked,\* history: version when a full listing was last asked for
    fullSeen, \* history: version of the last full listing committed
    todo      \* writes to the sources that a request on the connection still has to do

vars == <<status, row, version, run, clock, faults, asked, fullAsked, fullSeen, todo>>
history == <<asked, fullAsked, fullSeen>>

\* A NULL column; every time and version of the model is at least 1.
Null == 0

Statuses == {"active", "needs_reauth", "disconnected", "deleted"}

Row == [exists : BOOLEAN, selected : BOOLEAN, pending : Nat, lease : Nat,
        full : BOOLEAN, token : Nat, mirror : Nat]

Phases == {"idle", "find", "found", "authorize", "fetch", "fence", "commit"}

Run == [pc : Phases, source : Sources, now : Nat, pending : Nat, lease : Nat,
        full : BOOLEAN, token : Nat, listed : Nat, pages : Nat, connSame : BOOLEAN]

TypeOK ==
    /\ status \in Statuses
    /\ row \in [Sources -> Row]
    /\ version \in [Sources -> Nat \ {0}]
    /\ run \in [Runs -> Run]
    /\ clock \in Nat \ {0}
    /\ faults \in Nat
    /\ asked \in [Sources -> Nat]
    /\ fullAsked \in [Sources -> Nat]
    /\ fullSeen \in [Sources -> Nat]
    /\ todo \in SUBSET {"relink", "unlease"}

-----------------------------------------------------------------------------
\* Helpers.

At(r) == run[r].source

\* advancePending: a later value than the current one, whatever the clock says.
AdvancePending(current, now) ==
    IF current # Null /\ current >= now THEN current + 1 ELSE now

\* A claim is in the hands of a run from the moment it has read the row.
InFlight(r) == run[r].pc \notin {"idle", "find"}

\* Every write of the connection moves its updatedAt, which a run compares
\* with the value it read: only equality matters, so it is kept per run.
Touched(runs) == [r \in Runs |-> [runs[r] EXCEPT !.connSame = FALSE]]

\* A job or request reads the clock when it begins and writes any time later: the
\* time it writes may be old.
Times == {now \in 1 .. clock : clock - now <= MaxAge}

\* What it writes is new to the runs between the two statements of claimSource.
Fresh(s, time) ==
    \A r \in Runs : run[r].pc = "found" /\ At(r) = s => run[r].pending < time

\* The source asks for a refresh of what the provider holds now.
AskRefresh(S) == asked' = [s \in Sources |-> IF s \in S THEN version[s] ELSE asked[s]]
AskFull(S) == fullAsked' = [s \in Sources |-> IF s \in S THEN version[s] ELSE fullAsked[s]]

\* The run's local state while it holds nothing.
NoClaim(pc, now) ==
    [pc |-> pc, source |-> CHOOSE s \in Sources : TRUE, now |-> now, pending |-> Null,
     lease |-> Null, full |-> FALSE, token |-> Null, listed |-> Null, pages |-> 0,
     connSame |-> FALSE]

Fail == faults < MaxFaults /\ faults' = faults + 1

Init ==
    /\ status = "active"
    /\ \E chosen \in SUBSET Sources :
          row = [s \in Sources |->
                   [exists |-> TRUE, selected |-> s \in chosen,
                    pending |-> IF s \in chosen THEN 1 ELSE Null, lease |-> Null,
                    full |-> TRUE, token |-> Null, mirror |-> Null]]
    /\ version = [s \in Sources |-> 1]
    /\ run = [r \in Runs |-> NoClaim("idle", 0)]
    /\ clock = 1
    /\ faults = 0
    /\ asked = [s \in Sources |-> 1]
    /\ fullAsked = [s \in Sources |-> 1]
    /\ fullSeen = [s \in Sources |-> 0]
    /\ todo = {}

-----------------------------------------------------------------------------
(* A scheduler run: CalendarSchedulerService.runPending calls              *)
(* runNextSource again and again with the `now` it read when it started.   *)

Goto(r, pc) == run' = [run EXCEPT ![r].pc = pc]

\* runNextSource returns: on to the next claim with the same `now`.
Leave(r) == run' = [run EXCEPT ![r] = NoClaim("find", @.now)]

\* runPending reads the clock once for all its claims.  No two runs under way
\* have started in the same millisecond.
StartRun(r) ==
    /\ run[r].pc = "idle"
    /\ \A q \in Runs : run[q].pc # "idle" => run[q].now # clock
    /\ run' = [run EXCEPT ![r] = NoClaim("find", clock)]
    /\ UNCHANGED <<status, row, version, clock, faults, history, todo>>

\* No source was claimed, or CLAIM_LIMIT was reached.
EndRun(r) ==
    /\ run[r].pc = "find"
    /\ run' = [run EXCEPT ![r] = NoClaim("idle", 0)]
    /\ UNCHANGED <<status, row, version, clock, faults, history, todo>>

\* Mutant: a lease nobody gives back never ends.
NeverExpires(s, now) == row[s].lease = Null

Unleased(s, now) == row[s].lease = Null \/ row[s].lease < now

Claimable(s, now) ==
    /\ status = "active" /\ row[s].selected
    /\ row[s].pending # Null /\ row[s].pending <= now
    /\ Unleased(s, now)

\* What a run that started at `now` keeps of the row it reads.
ClaimOf(s, now) ==
    [pc |-> "found", source |-> s, now |-> now, pending |-> row[s].pending,
     lease |-> now + LeaseTime, full |-> row[s].full \/ row[s].token = Null,
     token |-> row[s].token, listed |-> Null, pages |-> 0, connSame |-> TRUE]

\* claimSource, findFirst: the source due for longest.
Find(r) ==
    /\ run[r].pc = "find"
    /\ \E s \in Sources :
          /\ Claimable(s, run[r].now)
          /\ \A t \in Sources :
                Claimable(t, run[r].now) => row[s].pending <= row[t].pending
          /\ run' = [run EXCEPT ![r] = ClaimOf(s, @.now)]
    /\ UNCHANGED <<status, row, version, clock, faults, history, todo>>

\* claimSource, updateMany: take the lease if the row is still due as it was read.
Claim(r) ==
    /\ run[r].pc = "found"
    /\ LET s == At(r) IN
       IF /\ status = "active" /\ row[s].selected
          /\ row[s].pending = run[r].pending
          /\ Unleased(s, run[r].now)
       THEN /\ row' = [row EXCEPT ![s].lease = run[r].lease]
            /\ Goto(r, "authorize")
       ELSE Leave(r) /\ UNCHANGED row
    /\ UNCHANGED <<status, version, clock, faults, history, todo>>

\* provider.authorize answers with an access token.
Authorize(r) ==
    /\ run[r].pc = "authorize"
    /\ Goto(r, "fetch")
    /\ UNCHANGED <<status, row, version, clock, faults, history, todo>>

\* provider.listEvents answers with a page.  What the listing shows is fixed by
\* its first page: a later change is left to the sync token of this listing.
FetchPage(r) ==
    /\ run[r].pc = "fetch"
    /\ run' = [run EXCEPT ![r].pc = "fence", ![r].pages = @ + 1,
                          ![r].listed = IF @ = Null THEN version[At(r)] ELSE @]
    /\ UNCHANGED <<status, row, version, clock, faults, history, todo>>

\* Mutant: the lease alone stands for the claim.
FencedByLease(r) == status = "active" /\ row[At(r)].selected /\ row[At(r)].lease = run[r].lease

\* Mutant: only the source is checked, not the claim on it.
FencedBySelection(r) == status = "active" /\ row[At(r)].selected

\* The where clause with which fenceSource and commitEvents look for their claim.
Fenced(r) ==
    LET s == At(r) IN
    /\ status = "active" /\ row[s].selected
    /\ row[s].pending = run[r].pending
    /\ row[s].lease = run[r].lease

\* fenceSource after each page.  A run that lost its claim leaves at once.
Fence(r) ==
    /\ run[r].pc = "fence"
    /\ \/ Fenced(r) /\ run[r].pages < MaxPages /\ Goto(r, "fetch")
       \/ Fenced(r) /\ Goto(r, "commit")
       \/ ~Fenced(r) /\ Leave(r)
    /\ UNCHANGED <<status, row, version, clock, faults, history, todo>>

\* The events after the listing: a full one replaces them; an incremental one
\* brings them up to date only if they are what its sync token stands for.
Mirrored(r) ==
    IF run[r].full \/ row[At(r)].mirror = run[r].token THEN run[r].listed ELSE Null

CommittedRow(r) ==
    [row[At(r)] EXCEPT !.mirror = Mirrored(r), !.token = run[r].listed, !.full = FALSE,
                       !.pending = Null, !.lease = Null]

\* commitEvents: events, sync token and claim in one transaction, or nothing.
CommitEvents(r) ==
    /\ run[r].pc = "commit"
    /\ LET s == At(r) IN
       IF Fenced(r)
       THEN /\ row' = [row EXCEPT ![s] = CommittedRow(r)]
            /\ fullSeen' = IF run[r].full THEN [fullSeen EXCEPT ![s] = run[r].listed]
                           ELSE fullSeen
       ELSE UNCHANGED <<row, fullSeen>>
    /\ Leave(r)
    /\ UNCHANGED <<status, version, clock, faults, asked, fullAsked, todo>>

-----------------------------------------------------------------------------
\* What goes wrong in a run.

\* Mutant: the backoff is written over whatever was asked for meanwhile.
ReleaseBlindly(r) ==
    /\ run[r].pc \in {"authorize", "fetch", "fence", "commit"}
    /\ Fail
    /\ IF row[At(r)].lease = run[r].lease
       THEN \E j \in 0 .. JitterTime :
               row' = [row EXCEPT ![At(r)].lease = Null, ![At(r)].pending = run[r].now + j]
       ELSE UNCHANGED row
    /\ Leave(r)
    /\ UNCHANGED <<status, version, clock, history, todo>>

\* releaseSourceWithBackoff: give the claim back for later; if the source was
\* asked for again meanwhile it stays due at that time.  A listing without a
\* sync token ends so too.
Release(r) ==
    /\ run[r].pc \in {"authorize", "fetch", "fence", "commit"}
    /\ Fail
    /\ LET s == At(r) IN
       \/ /\ row[s].lease = run[r].lease /\ row[s].pending = run[r].pending
          /\ \E j \in 0 .. JitterTime :
                row' = [row EXCEPT ![s].lease = Null, ![s].pending = run[r].now + j]
       \/ /\ row[s].lease = run[r].lease /\ row[s].pending # run[r].pending
          /\ row' = [row EXCEPT ![s].lease = Null]
       \/ /\ row[s].lease # run[r].lease
          /\ UNCHANGED row
    /\ Leave(r)
    /\ UNCHANGED <<status, version, clock, history, todo>>

\* Mutant: the events go, the token that continues them stays.
GoneRowKeepsToken(r) ==
    [row[At(r)] EXCEPT !.mirror = Null, !.full = TRUE, !.lease = Null,
                       !.pending = AdvancePending(
                           IF @ = Null THEN run[r].pending ELSE @, run[r].now)]

\* Mutant: the row starts over at the time of the run, which may be what it had.
GoneRowNow(r) ==
    [row[At(r)] EXCEPT !.mirror = Null, !.token = Null, !.full = TRUE, !.lease = Null,
                       !.pending = run[r].now]

GoneRow(r) ==
    [row[At(r)] EXCEPT !.mirror = Null, !.token = Null, !.full = TRUE, !.lease = Null,
                       !.pending = AdvancePending(
                           IF @ = Null THEN run[r].pending ELSE @, run[r].now)]

\* failCloseGone: the provider dropped the sync token (410).  The events go and
\* a full listing becomes due; only the lease is checked.
FailCloseGone(r) ==
    /\ run[r].pc = "fetch"
    /\ Fail
    /\ LET s == At(r) IN
       IF row[s].lease = run[r].lease
       THEN /\ row' = [row EXCEPT ![s] = GoneRow(r)]
            /\ AskFull({s})
       ELSE UNCHANGED <<row, fullAsked>>
    /\ Leave(r)
    /\ UNCHANGED <<status, version, clock, asked, fullSeen, todo>>

\* markNeedsReauth: invalid_grant ends the work on every source of the
\* connection, unless the connection or the claim changed meanwhile.
MarkNeedsReauth(r) ==
    /\ run[r].pc \in {"authorize", "fetch"}
    /\ Fail
    /\ LET s == At(r) IN
       IF /\ status = "active" /\ run[r].connSame
          /\ row[s].pending = run[r].pending /\ row[s].lease = run[r].lease
       THEN /\ status' = "needs_reauth"
            /\ row' = [t \in Sources |-> [row[t] EXCEPT !.lease = Null]]
            /\ run' = [Touched(run) EXCEPT ![r] = NoClaim("find", run[r].now)]
       ELSE Leave(r) /\ UNCHANGED <<status, row>>
    /\ UNCHANGED <<version, clock, history, todo>>

\* The process dies, or the database fails outside the try block: the claim is
\* left as it is.
Crash(r) ==
    /\ run[r].pc # "idle"
    /\ Fail
    /\ run' = [run EXCEPT ![r] = NoClaim("idle", 0)]
    /\ UNCHANGED <<status, row, version, clock, history, todo>>

-----------------------------------------------------------------------------
\* What asks for a refresh.

\* The calendar changes at the provider.
Change(s) ==
    /\ version[s] < MaxVersion
    /\ version' = [version EXCEPT ![s] = @ + 1]
    /\ UNCHANGED <<status, row, run, clock, faults, history, todo>>

\* Mutant: what is due already is not made due again.
EnqueueIfIdle(s) ==
    /\ Fresh(s, clock)
    /\ row' = [row EXCEPT ![s].pending = IF @ = Null THEN clock ELSE @]

\* The source becomes due, and differently so if it was due already.
Enqueue(s) ==
    \E now \in Times :
       LET time == AdvancePending(row[s].pending, now) IN
       /\ time <= MaxPending /\ Fresh(s, time)
       /\ row' = [row EXCEPT ![s].pending = time]

\* handleWebhook: enqueueWebhookTarget for an events channel.  The status of the
\* connection is not looked at.
Webhook(s) ==
    /\ row[s].selected
    /\ Enqueue(s)
    /\ AskRefresh({s})
    /\ UNCHANGED <<status, version, run, clock, faults, fullAsked, fullSeen, todo>>

\* createOrRenew, its transaction: the new channel tells of later changes only.
WatchCreated(s) ==
    /\ status = "active" /\ row[s].selected
    /\ Enqueue(s)
    /\ run' = Touched(run)
    /\ AskRefresh({s})
    /\ UNCHANGED <<status, version, clock, faults, fullAsked, fullSeen, todo>>

\* markDueForCatchUp, sources: those nothing was heard of for a while.
CatchUp(s) ==
    /\ status = "active" /\ row[s].selected /\ row[s].pending = Null
    /\ \E now \in Times :
          Fresh(s, now) /\ row' = [row EXCEPT ![s].pending = now]
    /\ AskRefresh({s})
    /\ UNCHANGED <<status, version, run, clock, faults, fullAsked, fullSeen, todo>>

\* Mutant: a source that is due already is only flagged.
FlagFullOnly(s) ==
    /\ row[s].selected
    /\ Fresh(s, clock)
    /\ row' = [row EXCEPT ![s].full = TRUE, ![s].pending = IF @ = Null THEN clock ELSE @]
    /\ AskRefresh({s}) /\ AskFull({s})
    /\ UNCHANGED <<status, version, run, clock, faults, fullSeen, todo>>

\* markSourceFullRequired: the daily reconciliation wants a full listing.
MarkSourceFullRequired(s) ==
    /\ row[s].selected
    /\ \E now \in Times :
          LET time == AdvancePending(row[s].pending, now) IN
          /\ time <= MaxPending /\ Fresh(s, time)
          /\ row' = [row EXCEPT ![s].full = TRUE, ![s].pending = time]
    /\ AskRefresh({s}) /\ AskFull({s})
    /\ UNCHANGED <<status, version, run, clock, faults, fullSeen, todo>>

\* updateSource(selected = true), also for a source that is selected already.
Select(s) ==
    /\ status = "active" /\ row[s].exists
    /\ \E now \in Times :
          /\ Fresh(s, now)
          /\ row' = [row EXCEPT ![s] = [@ EXCEPT !.selected = TRUE, !.full = TRUE,
                                                 !.pending = now, !.lease = Null]]
    /\ AskRefresh({s}) /\ AskFull({s})
    /\ UNCHANGED <<status, version, run, clock, faults, fullSeen, todo>>

\* updateSource(selected = false).
Deselect(s) ==
    /\ status = "active" /\ row[s].exists
    /\ row' = [row EXCEPT ![s] = [@ EXCEPT !.selected = FALSE, !.full = FALSE,
                                           !.pending = Null, !.lease = Null]]
    /\ UNCHANGED <<status, version, run, clock, faults, history, todo>>

-----------------------------------------------------------------------------
\* What happens to the connection.

NoRow(s) == [row[s] EXCEPT !.exists = FALSE, !.selected = FALSE, !.pending = Null,
                           !.lease = Null, !.full = FALSE, !.token = Null, !.mirror = Null]

\* Any write of the connection that leaves its status alone: a webhook of the
\* calendar list, a list run, the renewal of its channel.
TouchConnection ==
    /\ status \in {"active", "needs_reauth"}
    /\ run' = Touched(run)
    /\ UNCHANGED <<status, row, version, clock, faults, history, todo>>

\* commitCalendarList: a calendar that left the list takes its row and events along.
RemoveSource(s) ==
    /\ status = "active" /\ row[s].exists
    /\ row' = [row EXCEPT ![s] = NoRow(s)]
    /\ run' = Touched(run)
    /\ UNCHANGED <<status, version, clock, faults, history, todo>>

\* reconnect, first write: the owner has granted access again.
Reconnect ==
    /\ status \in {"active", "needs_reauth"}
    /\ status' = "active"
    /\ run' = Touched(run)
    /\ todo' = todo \cup {"relink"}
    /\ UNCHANGED <<row, version, clock, faults, history>>

\* reconnect, second write, not in the same transaction.
RelinkSources ==
    /\ "relink" \in todo
    /\ LET S == {s \in Sources : row[s].selected} IN
       /\ \E now \in Times :
             /\ \A s \in S : Fresh(s, now)
             /\ row' = [s \in Sources |->
                          IF s \in S THEN [row[s] EXCEPT !.full = TRUE, !.pending = now,
                                                         !.lease = Null]
                          ELSE row[s]]
       /\ AskRefresh(S) /\ AskFull(S)
    /\ todo' = todo \ {"relink"}
    /\ UNCHANGED <<status, version, run, clock, faults, fullSeen>>

\* The OAuth callback's markNeedsReauth, first write: a reconnect was refused.
CallbackNeedsReauth ==
    /\ status \in {"active", "needs_reauth"}
    /\ status' = "needs_reauth"
    /\ run' = Touched(run)
    /\ todo' = todo \cup {"unlease"}
    /\ UNCHANGED <<row, version, clock, faults, history>>

\* disconnect, first write.
Disconnect ==
    /\ status \in {"active", "needs_reauth"}
    /\ status' = "disconnected"
    /\ run' = Touched(run)
    /\ todo' = todo \cup {"unlease"}
    /\ UNCHANGED <<row, version, clock, faults, history>>

\* disconnect and the callback's markNeedsReauth, second write.
UnleaseSources ==
    /\ "unlease" \in todo
    /\ row' = [s \in Sources |-> [row[s] EXCEPT !.lease = Null]]
    /\ todo' = todo \ {"unlease"}
    /\ UNCHANGED <<status, version, run, clock, faults, history>>

\* The process dies before a second write.
AbandonRequest ==
    /\ todo # {}
    /\ Fail
    /\ todo' = {}
    /\ UNCHANGED <<status, row, version, run, clock, history>>

\* finalizeDisconnectedOwner: the connection goes, with everything under it.
Finalize ==
    /\ status = "disconnected"
    /\ status' = "deleted"
    /\ row' = [s \in Sources |-> NoRow(s)]
    /\ run' = Touched(run)
    /\ UNCHANGED <<version, clock, faults, history, todo>>

Tick ==
    /\ clock < MaxClock
    /\ clock' = clock + 1
    /\ UNCHANGED <<status, row, version, run, faults, history, todo>>

-----------------------------------------------------------------------------
RunStep(r) ==
    \/ StartRun(r) \/ EndRun(r) \/ Find(r) \/ Claim(r) \/ Authorize(r) \/ FetchPage(r)
    \/ Fence(r) \/ CommitEvents(r)
    \/ Release(r) \/ FailCloseGone(r) \/ MarkNeedsReauth(r) \/ Crash(r)

SourceStep(s) ==
    \/ Change(s) \/ Webhook(s) \/ WatchCreated(s) \/ CatchUp(s) \/ MarkSourceFullRequired(s)
    \/ Select(s) \/ Deselect(s) \/ RemoveSource(s)

ConnectionStep ==
    \/ TouchConnection \/ Reconnect \/ RelinkSources \/ CallbackNeedsReauth
    \/ Disconnect \/ UnleaseSources \/ AbandonRequest \/ Finalize

Next ==
    \/ \E r \in Runs : RunStep(r)
    \/ \E s \in Sources : SourceStep(s)
    \/ ConnectionStep
    \/ Tick

Spec == Init /\ [][Next]_vars

-----------------------------------------------------------------------------
\* What it is for.

\* No request for a refresh is lost: while a selected source has no work due,
\* its events are at least as recent as the last webhook, catch-up or selection
\* that asked for them, whoever wrote the row in between.
NoLostNotification ==
    \A s \in Sources :
        row[s].selected /\ row[s].pending = Null => row[s].mirror >= asked[s]

\* A full listing that was asked for happens: the flag goes only for a full
\* listing begun after the request, never for an incremental one under way.
FullListingHonoured ==
    \A s \in Sources :
        row[s].selected /\ ~row[s].full => fullSeen[s] >= fullAsked[s]

\* The sync token always stands for the events that are stored: no incremental
\* listing is ever applied to events it does not continue.
TokenMatchesEvents ==
    \A s \in Sources : row[s].token # Null => row[s].mirror = row[s].token

\* The events of a source only ever move forward, or all go.
MirrorMovesForward ==
    [][\A s \in Sources : row'[s].mirror >= row[s].mirror \/ row'[s].mirror = Null]_vars

-----------------------------------------------------------------------------
\* Why it works: pendingSyncAt is the version of its row while a run claims it,
\* and the lease tells the claims of a row apart.

\* What run r holds of its source is what the row says, and what it has listed
\* is recent enough for every request made so far.
UpToDate(r) ==
    /\ run[r].token = row[At(r)].token
    /\ run[r].full <=> row[At(r)].full \/ row[At(r)].token = Null
    /\ run[r].listed # Null =>
          /\ run[r].listed >= asked[At(r)] /\ run[r].listed >= fullAsked[At(r)]
          /\ run[r].listed >= row[At(r)].mirror

\* The run may still get, or still has, what it read.
Contends(r) ==
    \/ run[r].pc = "found"
    \/ InFlight(r) /\ row[At(r)].lease = run[r].lease

\* pendingSyncAt never comes back to the value a run has read after some other
\* run, job or request changed what it stands for: as long as the value and the
\* lease match, the run is up to date, and only then can it commit.
PendingIsVersion ==
    \A r \in Runs : Contends(r) =>
        /\ row[At(r)].pending = run[r].pending => UpToDate(r)
        /\ row[At(r)].pending # Null => row[At(r)].pending >= run[r].pending

\* The times of the runs under way tell them apart, and with them their leases.
RunTimes ==
    \A r \in Runs : run[r].pc # "idle" =>
        /\ run[r].now \in 1 .. clock
        /\ \A q \in Runs : q # r /\ run[q].pc # "idle" => run[q].now # run[r].now

\* What a run holds of its claim.
RunClaims ==
    \A r \in Runs : InFlight(r) =>
        /\ run[r].pending # Null /\ run[r].pending <= run[r].now
        /\ run[r].lease = run[r].now + LeaseTime
        /\ run[r].listed <= version[At(r)]
        /\ run[r].pc \in {"fence", "commit"} => run[r].listed # Null

\* No row is ahead of the provider, and none is leased without work due.
RowsSane ==
    \A s \in Sources :
        /\ row[s].mirror <= version[s] /\ asked[s] <= version[s]
        /\ fullAsked[s] <= version[s]
        /\ row[s].pending = Null => row[s].lease = Null

SyncInv ==
    /\ RowsSane /\ RunTimes /\ RunClaims /\ PendingIsVersion
    /\ NoLostNotification /\ FullListingHonoured /\ TokenMatchesEvents

-----------------------------------------------------------------------------
\* The synchronisation keeps the promise of CalendarMirror.
Mirror == INSTANCE CalendarMirror WITH
    mirror <- [s \in Sources |-> row[s].mirror],
    due <- [s \in Sources |-> ~(row[s].selected /\ row[s].pending = Null)]

\* Every step of the runs, jobs and requests is a step, or no step, of the
\* calendars' promised mirrors.
KeepsMirrorPromise == Mirror!Spec

-----------------------------------------------------------------------------
(* Liveness.  LiveSpec makes room for the bounded clock: requests stop     *)
(* after QuietAfter, and time passes only while somebody waits for it.     *)
\* Somebody waits for the clock: for a backoff or for a lease to end; and
\* requests do not all come in one instant.
Waiting ==
    \/ clock <= QuietAfter
    \/ \E s \in Sources :
          /\ row[s].selected
          /\ row[s].pending > clock \/ row[s].lease >= clock

\* A run that has not crashed ends before the leases it takes do.  They are
\* counted from the start of the run and never renewed, so that without this
\* two slow runs could take the claim from each other for ever.
WithinLease ==
    \A r \in Runs : run[r].pc # "idle" => clock < run[r].now + LeaseTime

LiveTick == Tick /\ Waiting /\ WithinLease

\* The catch-up job goes on after everybody else is quiet.
LateCatchUp(s) == row[s].mirror < version[s] /\ CatchUp(s)

LiveNext ==
    \/ \E r \in Runs : RunStep(r)
    \/ clock <= QuietAfter /\ \E s \in Sources : SourceStep(s)
    \/ clock <= QuietAfter /\ ConnectionStep
    \/ \E s \in Sources : LateCatchUp(s)
    \/ LiveTick

\* The cron starts runs, a run tries to claim before it ends, awaited calls
\* return, time passes, and the catch-up job runs.
Fairness ==
    /\ \A r \in Runs :
          /\ WF_vars(StartRun(r)) /\ WF_vars(EndRun(r)) /\ SF_vars(Find(r))
          /\ WF_vars(Claim(r)) /\ WF_vars(Authorize(r)) /\ WF_vars(FetchPage(r))
          /\ WF_vars(Fence(r)) /\ WF_vars(CommitEvents(r))
    /\ \A s \in Sources : WF_vars(LateCatchUp(s))
    /\ SF_vars(LiveTick)

LiveSpec == Init /\ [][LiveNext]_vars /\ Fairness

\* What changes at the provider reaches the mirror, even if every webhook is
\* lost and runs crash or fail on the way, unless the source is deselected or
\* the connection stops being active.
ChangesReachMirror ==
    \A s \in Sources : \A v \in 1 .. MaxVersion :
        (row[s].selected /\ status = "active" /\ version[s] >= v)
        ~> (row[s].mirror >= v \/ ~row[s].selected \/ status # "active")

\* Runs are alike.
Symmetry == Permutations(Runs)

=============================================================================
