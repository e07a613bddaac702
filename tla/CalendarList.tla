---------------------------- MODULE CalendarList ----------------------------
(* Mirroring the list of calendars of one Google connection                *)
(* (runNextCalendarList in modules/calendar/calendar-sync.service.ts).     *)
(*                                                                         *)
(* Scheduler runs of several processes compete for the connection row.     *)
(* Unlike a source, its claim is told apart by three columns: the lease,   *)
(* calendarListPendingAt, and updatedAt, which a claim moves past its      *)
(* former value and every other write sets to the time of the write.       *)
(*                                                                         *)
(* The list at the provider is a sequence of sets: its n-th member is the  *)
(* list after n - 1 changes, and a sync token is the n it was given for.   *)
EXTENDS Integers, Sequences

CONSTANTS
    Calendars,    \* calendars there can be at the provider
    ListRuns,     \* concurrent scheduler runs
    ListLease,    \* LEASE_MS
    ListJitter,   \* bound of the backoff jitter
    MaxListings,  \* bound on the changes at the provider
    MaxListClock  \* bound on the clock

VARIABLES
    link,       \* the GoogleCalendarConnection row
    mirrored,   \* the calendars that have a CalendarSource row
    listing,    \* local state of each run
    history,    \* the provider: its list after each change
    listClock,  \* the time `new Date()` returns
    heard       \* history: the last change the connection was told of

listVars == <<link, mirrored, listing, history, listClock, heard>>

Null == 0

Link == [status : {"active", "needs_reauth", "disconnected"}, updated : Nat, pending : Nat,
         lease : Nat, token : Nat, synced : Nat]
Listing == [pc : {"idle", "found", "authorize", "list", "fence", "commit"}, now : Nat,
            generation : Nat, pending : Nat, lease : Nat, token : Nat, listed : Nat]

TypeOK ==
    /\ link \in Link
    /\ mirrored \in SUBSET Calendars
    /\ listing \in [ListRuns -> Listing]
    /\ history \in Seq(SUBSET Calendars)
    /\ listClock \in Nat /\ heard \in Nat

Idle == [pc |-> "idle", now |-> 0, generation |-> 0, pending |-> Null, lease |-> Null,
         token |-> Null, listed |-> 0]

\* create has just stored the connection.
Init ==
    /\ link = [status |-> "active", updated |-> 1, pending |-> 1, lease |-> Null,
               token |-> Null, synced |-> Null]
    /\ mirrored = {} /\ listing = [r \in ListRuns |-> Idle]
    /\ \E list \in SUBSET Calendars : history = <<list>>
    /\ listClock = 1 /\ heard = 1

AdvancePending(current, now) ==
    IF current # Null /\ current >= now THEN current + 1 ELSE now

-----------------------------------------------------------------------------
\* A run.

Free(now) == link.lease = Null \/ link.lease < now

\* findFirst of a connection that is due; the run reads the clock before it looks.
FindList(r) ==
    /\ listing[r].pc = "idle"
    /\ \E now \in {listClock, listClock - 1} \ {0} :
          /\ link.status = "active" /\ link.pending # Null /\ link.pending <= now /\ Free(now)
          /\ listing' = [listing EXCEPT ![r] = [pc |-> "found", now |-> now,
                 generation |-> IF now > link.updated + 1 THEN now ELSE link.updated + 1,
                 pending |-> link.pending, lease |-> now + ListLease, token |-> link.token,
                 listed |-> 0]]
    /\ UNCHANGED <<link, mirrored, history, listClock, heard>>

\* The update that claims it.
ClaimList(r) ==
    /\ listing[r].pc = "found"
    /\ IF link.status = "active" /\ link.pending = listing[r].pending /\ Free(listing[r].now)
       THEN /\ link' = [link EXCEPT !.lease = listing[r].lease, !.updated = listing[r].generation]
            /\ listing' = [listing EXCEPT ![r].pc = "authorize"]
       ELSE link' = link /\ listing' = [listing EXCEPT ![r] = Idle]
    /\ UNCHANGED <<mirrored, history, listClock, heard>>

\* Mutant: the lease alone tells the claims of runs apart.
HeldByLease(r) == link.status = "active" /\ link.lease = listing[r].lease

\* The claim of a run is still the one on the row.
Held(r) ==
    /\ link.status = "active" /\ link.updated = listing[r].generation
    /\ link.pending = listing[r].pending /\ link.lease = listing[r].lease

\* releaseCalendarListWithBackoff: a request that came in since keeps its time.
ReleaseWithBackoff(r) ==
    /\ IF link.lease # listing[r].lease THEN UNCHANGED link
       ELSE \E delay \in 0 .. ListJitter :
               link' = [link EXCEPT !.lease = Null, !.updated = listClock,
                           !.pending = IF @ = listing[r].pending THEN listing[r].now + delay ELSE @]
    /\ UNCHANGED mirrored

\* markCalendarListNeedsReauth.
MarkNeedsReauth(r) ==
    /\ link' = IF Held(r) THEN [link EXCEPT !.status = "needs_reauth", !.lease = Null,
                                            !.updated = listClock]
               ELSE link
    /\ UNCHANGED mirrored

\* resetCalendarListGone: the provider has forgotten the token, a full listing is due.
ResetGone(r) ==
    /\ listing[r].token # Null
    /\ link' = IF /\ link.status = "active" /\ link.lease = listing[r].lease
                  /\ link.updated = listing[r].generation
               THEN [link EXCEPT !.token = Null, !.lease = Null,
                                 !.pending = AdvancePending(@, listing[r].now)]
               ELSE link
    /\ UNCHANGED mirrored

\* authorize succeeds, is refused for good, or fails.
AuthorizeList(r) ==
    /\ listing[r].pc = "authorize"
    /\ \/ /\ listing' = [listing EXCEPT ![r].pc = "list"]
          /\ UNCHANGED <<link, mirrored>>
       \/ /\ listing' = [listing EXCEPT ![r] = Idle]
          /\ MarkNeedsReauth(r) \/ ReleaseWithBackoff(r)
    /\ UNCHANGED <<history, listClock, heard>>

\* A page of the list; what the pages tell is the list when the first was read.
ListPage(r) ==
    /\ listing[r].pc = "list"
    /\ \/ /\ listing' = [listing EXCEPT ![r].pc = "fence",
                            ![r].listed = IF @ = 0 THEN Len(history) ELSE @]
          /\ UNCHANGED <<link, mirrored>>
       \/ /\ listing' = [listing EXCEPT ![r] = Idle]
          /\ ResetGone(r) \/ MarkNeedsReauth(r) \/ ReleaseWithBackoff(r)
    /\ UNCHANGED <<history, listClock, heard>>

\* The fence after a page, the last of which carries the new token.
FenceList(r) ==
    /\ listing[r].pc = "fence"
    /\ \/ Held(r) /\ \E next \in {"list", "commit"} : listing' = [listing EXCEPT ![r].pc = next]
       \/ ~Held(r) /\ listing' = [listing EXCEPT ![r] = Idle]
    /\ UNCHANGED <<link, mirrored, history, listClock, heard>>

\* What changed between two listings.
Changed(from, to) ==
    UNION {(history[n] \ history[n + 1]) \cup (history[n + 1] \ history[n]) : n \in from .. to - 1}

\* Mutant: a full listing adds, and what it leaves out stays.
Added(r) == mirrored \cup history[listing[r].listed]

\* The calendars once a run has committed: all of the list, or what changed since the token.
Applied(r) ==
    LET list == history[listing[r].listed]
        changed == Changed(listing[r].token, listing[r].listed)
    IN IF listing[r].token = Null THEN list ELSE (mirrored \ changed) \cup (list \cap changed)

\* commitCalendarList.
CommitList(r) ==
    /\ listing[r].pc = "commit"
    /\ IF Held(r)
       THEN /\ mirrored' = Applied(r)
            /\ link' = [link EXCEPT !.token = listing[r].listed, !.pending = Null, !.lease = Null,
                                    !.synced = listing[r].now]
       ELSE UNCHANGED <<mirrored, link>>
    /\ listing' = [listing EXCEPT ![r] = Idle]
    /\ UNCHANGED <<history, listClock, heard>>

\* The process dies.
CrashList(r) ==
    /\ listing[r].pc # "idle"
    /\ listing' = [listing EXCEPT ![r] = Idle]
    /\ UNCHANGED <<link, mirrored, history, listClock, heard>>

-----------------------------------------------------------------------------
\* Everybody else.

\* The owner adds or removes a calendar at the provider.
ChangeList ==
    /\ Len(history) <= MaxListings
    /\ \E c \in Calendars :
          history' = Append(history, (history[Len(history)] \cup {c}) \
                                     (history[Len(history)] \cap {c}))
    /\ UNCHANGED <<link, mirrored, listing, listClock, heard>>

Ask == heard' = Len(history) /\ UNCHANGED <<mirrored, listing, history, listClock>>

\* enqueueWebhookTarget, for a watch of the list.
ListWebhook ==
    /\ link.status = "active" /\ link.pending <= MaxListClock
    /\ link' = [link EXCEPT !.pending = AdvancePending(@, listClock), !.updated = listClock]
    /\ Ask

\* markDueForCatchUp, for connections; here the list is stale once a tick has passed.
CatchUpList ==
    /\ link.status = "active" /\ link.pending = Null /\ link.synced < listClock
    /\ link' = [link EXCEPT !.pending = listClock, !.updated = listClock]
    /\ Ask

\* disconnect, its write of the connection.
DisconnectList ==
    /\ link.status # "disconnected"
    /\ link' = [link EXCEPT !.status = "disconnected", !.lease = Null, !.updated = listClock]
    /\ UNCHANGED <<mirrored, listing, history, listClock, heard>>

ListTick ==
    /\ listClock < MaxListClock
    /\ listClock' = listClock + 1
    /\ UNCHANGED <<link, mirrored, listing, history, heard>>

Next ==
    \/ \E r \in ListRuns : \/ FindList(r) \/ ClaimList(r) \/ AuthorizeList(r) \/ ListPage(r)
                           \/ FenceList(r) \/ CommitList(r) \/ CrashList(r)
    \/ ChangeList \/ ListWebhook \/ CatchUpList \/ DisconnectList \/ ListTick

Spec == Init /\ [][Next]_listVars

-----------------------------------------------------------------------------
\* The stored token continues the stored calendars, whatever runs overlapped, failed,
\* died or lost the token: the list never drifts from what the token stands for.
ListMatchesToken == link.token # Null => mirrored = history[link.token]

\* A change the connection was told of is in the list, or a listing is still due.
ToldIsListedOrDue ==
    link.status = "active" /\ link.pending = Null => link.token >= heard

=============================================================================
