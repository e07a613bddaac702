---------------------------- MODULE EventDiscovery ----------------------------
(* Polling the feeds of public events (modules/events/                     *)
(* event-discovery.service.ts, event-source.service.ts).  Every minute a   *)
(* run in each API process claims the sources that are due, under a lease, *)
(* fetches and parses their feeds, and commits what it has found if the    *)
(* lease is still its own.  Meanwhile the owner changes, disables and      *)
(* removes sources, feeds change, fetches fail and processes die.          *)
(*                                                                         *)
(* A feed is abstracted to the number of the owner's change that set it.   *)
(* Requests of the owner take time of their own, so that nothing else      *)
(* happens in the millisecond they are dated with.                         *)
EXTENDS Integers, FiniteSets

CONSTANTS
    EventSources,   \* ids of EventSource rows
    Pollers,        \* runs in API processes
    Events,         \* provider ids of events
    EndsAt,         \* when each event ends
    Lease,          \* LEASE_MS
    PollInterval,   \* pollIntervalMinutes; the backoff is at most that
    MaxFeeds,       \* bound on the changes to a source
    MaxPollClock    \* bound on the clock

VARIABLES
    source,     \* the EventSource rows
    found,      \* the DiscoveredEvent rows of each source, by provider id
    offered,    \* what a feed offers now
    poller,     \* local state of each run and the claim it works on
    pollClock   \* the time `new Date()` returns

discoveryVars == <<source, found, offered, poller, pollClock>>

None == -1
NoEvents == [e \in Events |-> "none"]
Source == [status : {"none", "active", "error", "disabled"}, feed : 0 .. MaxFeeds,
           nextPollAt : Nat, leaseUntil : Nat \cup {None}, lastPolledAt : Nat \cup {None},
           readFeed : 0 .. MaxFeeds]   \* readFeed is history: the feed of the last commit
NoSource == [status |-> "none", feed |-> 0, nextPollAt |-> 0, leaseUntil |-> None,
             lastPolledAt |-> None, readFeed |-> 0]
Idle == [pc |-> "idle", runNow |-> 0, source |-> CHOOSE s \in EventSources : TRUE,
         claim |-> NoSource, events |-> {}]

TypeOK ==
    /\ source \in [EventSources -> Source]
    /\ found \in [EventSources -> [Events -> {"none", "scheduled", "expired"}]]
    /\ offered \in [EventSources -> SUBSET Events]
    /\ poller \in [Pollers -> [pc : {"idle", "run", "fetch", "commit", "failed"}, runNow : Nat,
                               source : EventSources, claim : Source, events : SUBSET Events]]
    /\ pollClock \in Nat

Init ==
    /\ source = [s \in EventSources |-> NoSource]
    /\ found = [s \in EventSources |-> NoEvents]
    /\ offered = [s \in EventSources |-> {}]
    /\ poller = [p \in Pollers |-> Idle]
    /\ pollClock = 0

-----------------------------------------------------------------------------
\* The owner.

Later == pollClock < MaxPollClock /\ pollClock' = pollClock + 1

\* create: the first poll is due at once or a little later.
CreateSource(s) ==
    /\ source[s].status = "none" /\ source[s].feed = 0 /\ Later
    /\ \E delay \in {0, 1} :
          source' = [source EXCEPT ![s] = [NoSource EXCEPT !.status = "active", !.feed = 1,
                                             !.nextPollAt = pollClock' + delay]]
    /\ UNCHANGED <<found, offered, poller>>

\* update, of the feed or only of the status; it takes the lease away.
UpdateSource(s) ==
    /\ source[s].status # "none" /\ source[s].feed < MaxFeeds /\ Later
    /\ \E status \in {"active", "disabled", source[s].status}, change \in {0, 1} :
          source' = [source EXCEPT ![s].status = status, ![s].feed = @ + change,
                                   ![s].leaseUntil = None, ![s].nextPollAt = pollClock']
    /\ UNCHANGED <<found, offered, poller>>

\* remove, with all it has found.
RemoveSource(s) ==
    /\ source[s].status # "none" /\ Later
    /\ source' = [source EXCEPT ![s] = [NoSource EXCEPT !.feed = source[s].feed]]
    /\ found' = [found EXCEPT ![s] = NoEvents]
    /\ UNCHANGED <<offered, poller>>

ChangeFeed(s) ==
    /\ \E events \in SUBSET Events : offered' = [offered EXCEPT ![s] = events]
    /\ UNCHANGED <<source, found, poller, pollClock>>

-----------------------------------------------------------------------------
\* A run.

BeginRun(p) ==
    /\ poller[p].pc = "idle"
    /\ poller' = [poller EXCEPT ![p].pc = "run", ![p].runNow = pollClock]
    /\ UNCHANGED <<source, found, offered, pollClock>>

\* claimDueSources, of one source; runs of several go on with one after another.
ClaimSource(p, s) ==
    /\ poller[p].pc = "run" /\ source[s].status \in {"active", "error"}
    /\ source[s].nextPollAt <= poller[p].runNow /\ source[s].leaseUntil <= poller[p].runNow
    /\ source' = [source EXCEPT ![s].leaseUntil = poller[p].runNow + Lease]
    /\ poller' = [poller EXCEPT ![p].pc = "fetch", ![p].source = s, ![p].claim = source'[s]]
    /\ UNCHANGED <<found, offered, pollClock>>

\* fetchText and parse, within the deadline or not at all.
Fetch(p) ==
    /\ poller[p].pc = "fetch"
    /\ poller' = [poller EXCEPT ![p].pc = "commit", ![p].events = offered[poller[p].source]]
    /\ UNCHANGED <<source, found, offered, pollClock>>

FailFetch(p) ==
    /\ poller[p].pc \in {"fetch", "commit"}
    /\ poller' = [poller EXCEPT ![p].pc = "failed"]
    /\ UNCHANGED <<source, found, offered, pollClock>>

\* Mutant: any lease that has not run out will do.
Leased(p) ==
    LET s == poller[p].source
    IN source[s].status = poller[p].claim.status /\ source[s].leaseUntil > pollClock

\* The condition of the updates that fence a commit and a release.
Fenced(p) ==
    LET s == poller[p].source
    IN /\ source[s].status = poller[p].claim.status
       /\ source[s].leaseUntil = poller[p].claim.leaseUntil
       /\ source[s].leaseUntil > pollClock

\* updateExistingEvents: what the feed offers is written over what it offered before.
Written(p) ==
    [e \in Events |-> IF e \in poller[p].events THEN "scheduled" ELSE found[poller[p].source][e]]

\* commitSuccessfulPoll: what the feed no longer offers expires once it is over; nothing
\* is written at all when the fence fails.
CommitPoll(p) ==
    LET s == poller[p].source
        runNow == poller[p].runNow
    IN /\ poller[p].pc = "commit"
       /\ IF ~Fenced(p) THEN UNCHANGED <<source, found>>
          ELSE /\ found' = [found EXCEPT ![s] = [e \in Events |->
                       IF e \notin poller[p].events /\ found[s][e] = "scheduled" /\ EndsAt[e] <= runNow
                       THEN "expired" ELSE Written(p)[e]]]
               /\ source' = [source EXCEPT ![s].status = "active", ![s].lastPolledAt = runNow,
                                 ![s].nextPollAt = runNow + PollInterval,
                                 ![s].leaseUntil = None, ![s].readFeed = poller[p].claim.feed]
       /\ poller' = [poller EXCEPT ![p] = Idle]
       /\ UNCHANGED <<offered, pollClock>>

\* releaseFailedPoll.
ReleaseFailed(p) ==
    /\ poller[p].pc = "failed"
    /\ IF ~Fenced(p) THEN UNCHANGED source
       ELSE \E jitter \in 0 .. PollInterval - 1 :
               source' = [source EXCEPT ![poller[p].source].status = "error",
                              ![poller[p].source].leaseUntil = None,
                              ![poller[p].source].nextPollAt = poller[p].runNow + jitter]
    /\ poller' = [poller EXCEPT ![p] = Idle]
    /\ UNCHANGED <<found, offered, pollClock>>

\* The run ends, or its process dies.
EndRun(p) ==
    /\ poller[p].pc # "idle"
    /\ poller' = [poller EXCEPT ![p] = Idle]
    /\ UNCHANGED <<source, found, offered, pollClock>>

PollTick == Later /\ UNCHANGED <<source, found, offered, poller>>

Next ==
    \/ \E s \in EventSources : \/ CreateSource(s) \/ UpdateSource(s) \/ RemoveSource(s)
                               \/ ChangeFeed(s)
    \/ \E p \in Pollers : \/ BeginRun(p) \/ Fetch(p) \/ FailFetch(p) \/ CommitPoll(p)
                          \/ ReleaseFailed(p) \/ EndRun(p)
                          \/ \E s \in EventSources : ClaimSource(p, s)
    \/ PollTick

Spec == Init /\ [][Next]_discoveryVars

-----------------------------------------------------------------------------
\* What is stored of a source was read from the feed the owner had set, by a run no
\* older than the one before, however slow it was; a disabled or removed source takes
\* nothing any more.
PolledAsSet ==
    \A s \in EventSources :
        \/ source'[s].lastPolledAt = source[s].lastPolledAt /\ found'[s] = found[s]
        \/ found'[s] = NoEvents /\ source'[s].status = "none"
        \/ /\ source'[s].readFeed = source[s].feed
           /\ source[s].lastPolledAt <= source'[s].lastPolledAt
           /\ source[s].status \in {"active", "error"}
EveryPollAsSet == [][PolledAsSet]_discoveryVars

=============================================================================
