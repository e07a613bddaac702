# A verification project for socos

socos is a personal CRM: a NestJS API over Postgres (`services/api`), a Next.js
front end (`apps/web`), a platform site (`apps/platform`), external agents that
reach the API over MCP, and scripts that release and back it up (`scripts`).  The TLA+
modules in this directory model its core logic.  TLC checks them on small instances, and
TLAPS proves the main results for instances of every size.

Paths below are relative to `src/services/api/src/`; `M/` is `modules/` there, `W/` is
`src/apps/web/src/app/dashboard/` and `S/` is `src/scripts/`.

- [Inventory](#inventory): the parts of the system, their state and their hazards
- [Plan](#plan): what exists and what comes next
- [Modules](#modules): how state and actions correspond to the code
- [Runs](#runs): what TLC checks, with which bounds and fairness
- [Proofs](#proofs): what TLAPS proves, from what and how
- [Findings](#findings): where the code and its comments disagree
- [Limits of the code](#limits-of-the-code): what the models show and no document rules out
- [Not modelled](#not-modelled)

To check everything by hand: `tlc -config <run>.cfg <module>` for the runs of
`PROJECT.json`, and `tlapm <module>` for the modules of [Proofs](#proofs).

## Inventory

Everything durable is in Postgres, and every API process may run every request and
every cron job.  What co-ordinates them is a handful of idioms, which come back in
almost all components:

- **compare-and-set**: `updateMany` with the expected state in its `where`, and a look
  at `count`;
- **leases**: a column `leaseUntil` that keeps others away until it has passed;
- **Serializable transactions** with unique indexes: the loser of a race gets P2002 or
  P2034 and either retries or looks at what the winner left;
- **idempotency keys** under an advisory lock of the key;
- **plain sequences of statements** with awaits in between, where anything may happen;
- in the browser, **numbers of requests** or abort signals that drop late answers.

| component | state | operations | talks to | hard behaviour | correct when |
| --- | --- | --- | --- | --- | --- |
| Calendar synchronisation (`M/calendar/calendar-sync.service.ts`, `calendar-scheduler.service.ts`) | `CalendarSource` rows: `pendingSyncAt`, `syncLeaseUntil`, `syncToken`, `fullSyncRequired`; the mirrored events | claim, list pages, fence, commit, back off, 410, `invalid_grant`, catch-up, reconciliation | provider, watches, connection | overlapping runs, leases that run out, stale claims, crashes, half-done requests | no request for a refresh is lost; tokens match events; the mirror moves forward; changes arrive; rows say what the provider says |
| Calendar lists (same service) | `GoogleCalendarConnection`: list token, pending, lease, `updatedAt` | the same for the list of calendars | sources | as above | the token matches the list; a told change is listed |
| Calendar connection (`calendar-connection.service.ts`, `google-oauth.service.ts`) | connections, OAuth attempts | connect, reconnect, select, deselect, disconnect | sync, watches, stays | two transactions per request, attempts used twice | an account can always be left; an attempt is used once |
| Calendar watches (`calendar-watch.service.ts`) | `CalendarWatch` rows, channels at the provider | create, renew, elect, demote, stop, webhook, finalize | provider, sync | concurrent renewals, repeated and reordered messages, failing stops, crashes | no change goes unheard, no gap, no orphan, a disconnect ends |
| Agent actions (`M/agent-security`) | proposals, grants, outbox | propose, approve, reject, expire, execute | owner, agents | expiry against approval, two executions of one approval | nothing is executed without consent in force, and once |
| Agent calls (`M/agent-tools`, `M/mcp`, `agent-idempotency.service.ts`) | idempotency records, audit rows | call, replay, refuse, fail, time out | all tools | stale snapshots under a lock, retries, lost answers, records that run out | one effect per key and life time; what is told is true |
| Agent clients (`M/agent-auth`) | clients, credentials | create, rotate, revoke, authenticate | calls | rotation and revocation against calls under way | one credential in force, none of a revoked client |
| Assistants (`M/agents`, `M/ai-agent`, `M/llm`) | reminders and scores they write | sync reminders, refresh scores, suggest, summarise | contacts, language models | look and create in two queries, stale scores, replies that say too little | reminded once; advice follows from what was read |
| Human idempotency (`common/human-idempotency.service.ts`) | `HumanIdempotencyRecord` | execute, replay, retry three times, clean up | interactions and other mutations of the owner | as agent calls, with retries of the whole callback | as agent calls |
| Interactions (`M/interactions`) | interactions, contact date, ledger, XP, achievements | log | gamification, quests | out-of-order dates, lost updates | XP and ledger follow the facts |
| Quests and feedback (`M/briefs/brief-feedback.service.ts`) | quests, feedback, ledger | complete, replay, resolve a race; answer items | interactions, reminders | completion races | completed once, under one key |
| Check-ins (`M/gamification`) | streak, XP, achievements | check in, streak achievements | interactions, quests | statements outside of a transaction, a shared `lastActiveAt` | the rules in the comment on `checkIn` |
| Briefs (`M/briefs`) | batches, items, quests | generate per owner and day, rank, collect dates | most reads | concurrent generation, midnight, time zones | one open quest of a kind; who rests is left in peace; each occasion once |
| Reminders (`M/reminders`) | `Reminder` rows | create, update, complete with a successor | quests | double completion | one successor, final completion |
| Reminder cron jobs (`M/notifications/notification-scheduler.service.ts`) | the status of reminders | find due, notify, mark overdue | reminders, providers | adjacent windows, overlapping jobs | nothing due is skipped |
| Celebrations (`M/celebrations`) | celebrations, attachments | attach, detach, notify, list | contacts | leap years, lunar days, reads before writes | reminded of the next day it falls on |
| Location (`M/location`) | `LocationDevice`, `LocationSample`, `DerivedVisit` rows | authenticate, store, derive visits, rotate, revoke, nightly retention | briefs, events | late, repeated and unordered deliveries, derivation against retention | stays become visits, visits keep what they rest on |
| Names for places (`location-alias.service.ts`) | aliases, city stays | create, change, remove, rebuild | calendar, location | READ COMMITTED writers under one lock | stays follow names and events |
| Personal data (`M/personal-data`, `cli/rekey-personal-data.ts`) | encrypted columns, keyrings | encrypt, re-key, delete a context | all | re-keying while the API runs; deletion against what is under way | everything stays readable; what was deleted is gone |
| Events (`M/events`) | sources with leases, catalogue, follows, preferences | poll, read a feed, browse, follow, prefer, recommend | briefs, calendars | leases, the owner's changes during a poll, concurrent saves | polled as set; pages cover the list; good advice |
| Contacts and enrichment (`M/contacts`, `M/contact-enrichment`, `cli/contact-enrichment-collector.ts`) | contacts, candidates | collect, submit, accept, correct | contacts | stale evidence, accept against the owner's edit | a field is filled once |
| Monica import (`cli/monica-import.ts`) | contacts of a vault | parse, choose the vault, upsert, count | contacts | the snapshot of before the lock, kills, lost answers | all or nothing; the owner's edits stay |
| Dungeon master (`M/dungeon-master`) | sessions, responses | accept, begin, submit, advance, debrief, expire | XP | claims taken over, late statements | XP once per end |
| Releases (`S/coolify-activate.mjs`, `S/cloud-restore-release-gate.mjs`) | the deployed environment, a gate's database and lock | activate, roll back; provision, launch, prove, clean up | Coolify, Docker, Postgres | lost answers, kills, timeouts | flags in order; receipts are true |
| Backups (`S/backup-postgres.sh`, `S/verify-postgres-backup.sh`, `S/offsite-backup.sh`) | bundles on the host and off it | dump, verify, ship, expire | Postgres, rclone | signals and kills between renames, overlapping runs | a bundle is whole; a verdict is true; one is always off the host |
| Pages (`W/`) | what is shown, pinned, under way | load, decide, log, edit, select, follow | API | crossing and lost answers, optimistic changes | what is shown is what the server has |
| The rest | | | | | see [Not modelled](#not-modelled) |

The hazards of each, with the line where they bite and the properties that guard
them, are in `PROJECT.json`.

## Plan

Done:

1. **CalendarSync** with the abstract **CalendarMirror**: model, runs and proofs.
2. **AgentActions** with the abstract **OncePerKey**: model, run and proofs.
3. **Reminders**: model, runs and proofs.
4. **CalendarWatch**, **Location**, **Rewards** and **ItemFeedback** (the second and third
   implementation of OncePerKey): models, runs and proofs.
5. The rest of the calendar (**CalendarList**, **GoogleOAuth**, **EventContents**), of
   location and personal data (**CityStays**, **ContextDeletion**, **KeyRotation**), events
   and contacts (**EventDiscovery**, **IcsFeed**, **EventCatalog**, **EventPreferences**,
   **EventRecommendation**, **ContactEnrichment**, **MonicaImport**, **Celebrations**), briefs
   and the game (**DailyBriefs**, **ImportantDates**, **DungeonMaster**), agents
   (**AgentTools**, **Assistants**, **AiAgent**), operations (**Activation**,
   **RestoreGate**, **Backups**) and the pages of the dashboard (**Cockpit**,
   **ApprovalsPage**, **DiscoverPage**, **ContactPages**, **IntegrationPanels**): models,
   checked as scenes of two runs.

6. Proofs of the small modules of 5: **SceneProofs** about those that meet providers and
   feeds, **CallerProofs** (with Reminders) and **RewardsProofs** (with Rewards) about those
   that people, agents and commands call.
7. The two runs as a whole: **LocationProofs** and **AgentActionsProofs** compose these
   theorems into those about the properties of `MCProviders` and `MCCallers`.

What could come next:

8. A proof of `StandsAsTold` as a whole, which lacks the pages `Cockpit`, `DiscoverPage` and
   `IntegrationPanels`, the arithmetic of `AiAgent`, and `ListFollows` of `ContactPages`.
9. Abstract specifications for what comes back: a claim with a lease (CalendarSync,
   CalendarList, EventDiscovery and DungeonMaster each have one), and a page over a server.

## Modules

| module | extends | models |
| --- | --- | --- |
| `CalendarMirror` | | abstract: what the synchronisation of a calendar promises |
| `CalendarSync` | | the synchronisation of calendar sources; implements `CalendarMirror` |
| `CalendarSyncProofs` | `CalendarSync` | its proofs |
| `CalendarWatch` | | the push channels of one source |
| `CalendarWatchProofs` | `CalendarWatch` | its proofs |
| `CalendarList`, `GoogleOAuth`, `EventContents` | | the list of calendars, the consent, the rows of events |
| `OncePerKey` | | abstract: what an idempotency key promises |
| `AgentActions` | | agents' calls, proposals, approvals; implements `OncePerKey` |
| `AgentActionsProofs` | `MCCallers` | the proofs of AgentActions, and of the scenes of `callers` put together |
| `AgentTools`, `Assistants`, `AiAgent` | | the way of a call and its credential; what assistants write; what they say |
| `Reminders` | | reminders and their two cron jobs |
| `CallerProofs` | `Reminders` | its proofs, and those of eleven modules that are checked as scenes of `callers` |
| `Location` | | visits as a function of samples; deliveries, visits and retention of one device |
| `LocationProofs` | `MCProviders` | the proofs of Location, and of the scenes of `providers` put together |
| `CityStays`, `ContextDeletion`, `KeyRotation` | | names for places, deletion of a context, change of the key |
| `Rewards` | | interactions, quests, check-ins; implements `OncePerKey` twice |
| `RewardsProofs` | `Rewards` | its proofs, and those of DailyBriefs, ImportantDates and Cockpit (its form) |
| `ItemFeedback` | | answers to the items of a brief, and their proofs; implements `OncePerKey` |
| `DailyBriefs`, `ImportantDates`, `DungeonMaster` | | the brief of a day, its dates, the game |
| `EventDiscovery`, `IcsFeed`, `EventCatalog`, `EventPreferences`, `EventRecommendation` | | public events |
| `ContactEnrichment`, `Celebrations`, `MonicaImport` | | what is known of contacts, and where it comes from |
| `Activation`, `RestoreGate`, `Backups` | | the scripts of `S/` |
| `Cockpit`, `ApprovalsPage`, `DiscoverPage`, `ContactPages`, `IntegrationPanels` | | the pages of `W/` |
| `SceneProofs` | `CalendarList` | its proofs, and those of ten modules that are checked as scenes of `providers` |
| `MCProviders` | `Location` | scenes of what meets providers and feeds: the run `providers` |
| `MCCallers` | `AgentActions` | scenes of what is called, operated or shown: the run `callers` |

CalendarSync, CalendarWatch, Reminders, Location and Rewards end with the instances that
their own runs take: symmetry, bounds that are not numbers and, for liveness, fairness.

A definition keeps the name of the method it models where there is one;
`PROJECT.json` gives the lines of each.  A definition introduced by `\* Mutant:` is
not part of a model: it is a plausible bug.  One per property of a run is listed in
`PROJECT.json` and the run finds it; the others sit beside the definition they would
replace and were found by the run of their scene.

**Scenes.**  The modules of step 5 share no state with each other: where their
components meet in the code, each models the other side as arbitrary steps of its own.
`MCProviders` and `MCCallers` therefore instantiate them side by side with a variable
`scene`: its initial value says which one acts, the variables of the others are `Off` or
stay as they begin.  That explores exactly the union of their state spaces, not the
product, and loses nothing.  The properties of these two runs are conjunctions of what
the modules state, grouped by what goes wrong (`OnceOnly`, `MatchesSource`,
`StandsAsTold`, `NothingUntold`, and the action properties `StepsAreCurrent` and
`StepsAreSound`); the comment on each group says which module states which part.

### CalendarSync

A `Row` is a `CalendarSource` with the version of the provider's calendar its
mirrored events stand for.  The contents of a calendar are abstracted to that version
number; a sync token is the version it continues.  `run[r]` holds the local variables of
`runNextSource`: what it read of the row, the lease it took, what it has listed.  One
action is one transaction or one provider call: `Find`, `Claim`, `Authorize`,
`FetchPage`, `Fence` and `CommitEvents` are the path of a run, `Release`,
`FailCloseGone` and `MarkNeedsReauth` its ways out, and between any two of them
webhooks (`Webhook`), jobs (`CatchUp`, `MarkSourceFullRequired`), the owner (`Select`,
`Deselect`, `Reconnect` then `RelinkSources`, `Disconnect` then `UnleaseSources`),
list runs (`RemoveSource`) and a crash may step in.

`asked`, `fullAsked` and `fullSeen` are history: the version the provider held when
somebody last asked for a refresh, or for a full listing, and the last full listing
committed.

Assumptions of the model, each of which the code needs and does not enforce:

- There is one clock.  Two scheduler runs that are under way at once never started
  in the same millisecond: leases are told apart by their end, which is the start plus
  five minutes.
- Between the two statements of `claimSource` no request writes a `pendingSyncAt` that is
  not later than the one read (`Fresh`).  Otherwise jobs and requests may write times up to
  `MaxAge` old.
- A reconnect arrives through an OAuth attempt that was begun before.

Abstracted: the fifteen minutes after which catch-up finds a source stale and the
slot of the daily reconciliation (they may happen at any time); `markSourceFullRequired`
gives up after three lost races, which only makes it not happen; a webhook does not look
at the status of the connection, and neither does the action.

### CalendarWatch

One source, its `CalendarWatch` rows, and the provider's open channels (`live`).  A
change sends a numbered message on every live channel; messages stay in `flight` until
they are dismissed, so they repeat and overtake each other.  `job[j]` holds the local
state of a maintenance run or of a request that stops channels: create, commit,
elect, stop others; or collect, stop and delete.  `heard` is the version when a refresh was
last asked for; from there on CalendarSync takes over.

Assumptions: a job takes less than the life of a channel (`MaxAge < WatchLife`); a
message to a channel whose row exists is not lost for good, since a refusal (503)
makes the provider send it again, and what the provider itself drops is what the
catch-up in CalendarSync is for.  Channels without a row can remain only after a crash
or a failed undo (`orphans`), which the code cannot avoid.

### AgentActions

`call[c]` is one `ToolRegistry.call` inside `AgentIdempotencyService.execute`: it begins
with a read of the clock, waits for the advisory lock of its key, and its Serializable
transaction sees the record as it was *before* the lock was granted, because the lock
statement is the first of the transaction and takes the snapshot.  `RecordUnwritten`
stands for the unique index and the serialization check that make this harmless.
`Propose` and `Execute` are the two tools with state of their own; the owner
approves, rejects, and lists (which expires).

Assumptions: one owner, one clock.  Records in status `in_progress` are never visible
outside of their transaction, and the status `failed` is never written.  Hashes are
compared by comparing what they are hashes of.  Left out: audit rows, which are only
written; checks of references to the owner's data, which are failures (`Fails`) at any
time.  No code revokes a grant (`revokedAt` is never set), and revoking a client does
not stop calls that are already authenticated.  The production map of executors is
empty; `Executable` is the set of payloads that have one.

### Reminders

One row per reminder, with the status column as the code writes it.  `Complete` claims
a pending row and creates its successor in one Serializable transaction.
`handleDueReminders` reads (`FindDue`) and then tells, one by one (`Notify`);
`markOverdueReminders` is one statement.  Slots are the full multiples of a job's
period.  The type says that a reminder has a time of completion just when it is completed, which
the overdue job would break if it marked what is done.

Assumptions: a job runs within `MaxDelay` of its slot, and time does not pass a slot's
delay before the job has run in some process; several processes may run it.  Types
of reminders, demo contacts and the texts are left out.

### Location

`DeriveVisits` is `deriveVisits` as a walk over the samples in order: a candidate for
the next place, the samples at the present one, and those away from it since.  Places
are points of a line, and centroids are compared without division.  The variables are
the rows of one device.  A delivery is `request[r]`: `Authenticate` is the guard, `Store`,
`StoreAgain` and `Refuse` the transaction of `ingest`, `Derive` that of
`recomputeForSample`, and `Abandon` an error or a restart at any point; anything may happen
between them.  All transactions are READ COMMITTED.  A derivation has the lock of the device,
which keeps other derivations away (`Locked`) but not retention, so it is taken statement by
statement: `BeginDerive` looks for the sample, `Widen` is one turn of the loop that finds the
window and the visits that bear on it, `ReadSamples` reads what is in the window, `Write` writes
the visits that follow.  Retention takes no lock: `ReadOpen` reads where the first open visit
begins, `SelectSamples` selects, `DeleteSamples` deletes, `DeleteVisits` deletes closed visits,
and `StopRetention` ends it anywhere.

`written` counts how often visits were written.  It stands for the clock as far as `receivedAt`
of samples and `updatedAt` of visits are compared, which is all they are used for.

A derivation may read samples, retention then find no visit open and delete them, and the
derivation open a visit that rests on them; or the other way about.  The code does not exclude
it, and `OpenVisitsKeepSamples` does not claim it away: `beside` marks a visit that was opened
from samples read or written while retention was between reading and deleting, and the property
is about the others.

Abstracted: all batches of retention are one, of at most one night for each of `Cutoffs`.  A phone
always has the credentials of its device when it authenticates, and a rotation matters to
what is in progress (`current`).  Weights and accuracies are in the model but all alike in the
instances.

### Rewards

The `User` row, one contact, interactions, quests, feedback, the XP ledger and the
achievements of one owner.  `Begin`, `Lock`, then `Log`, `Replay`, `RefuseKey` or `Retry` are
`HumanIdempotencyService.execute` around `createForAgentInTransaction`; the snapshot is
again older than the lock.  `CompleteQuest` commits the whole Serializable transaction of
a completion; `LoseRace` is one that was aborted, for whatever reason, and
`ResolveRace` the second look at what the winner left.  A check-in is not a transaction, and
is four actions: `ReadUser`, `CheckIn`, `UnlockStreak`, `AwardStreak`.

`XpExplained` says what the XP is made of: the interactions and completed quests on record, the
first achievement, and the *payments* for check-ins, which are numbered, each for a day.  That
each day is paid once and a streak rewarded once does not follow from the code: two check-ins
that have both read the user before either wrote pay the day twice, and a request that dies
between `UnlockStreak` and `AwardStreak` leaves an achievement whose XP nobody adds.
`PaidOnceADay` and `StreakIsRewarded` name just these two exceptions (`overlapped`, `dropped`),
so that paying twice or losing XP in any other way violates them.

`Unwritten` compares rows with the snapshot.  For the user row this is the same as "not
written since", because XP only grows.  A spurious serialization failure is a lost
call and a new one.

Abstracted: time is counted in days, a record lives `RecordTTL` days (one in the code)
and no request takes longer than a day; interactions are not logged for future days;
one streak length pays, where the code has three; levels, the achievement for many
interactions and quests completed by reminders are left out, and answers to items are in
ItemFeedback.
Agents log the same interaction inside AgentIdempotency, which AgentActions models.

### ItemFeedback

`asking[a]` is one call for feedback on an item.  `Ask` begins it with a key and what is
said, which `Valid` has let through: a time within ninety days for a snooze, a reason only for a
dismissal.  In its transaction the key is looked for: `Record` decides on the item and
stores the request, `Replay` answers from what is stored, `Refuse` ends a call whose key belongs
to another request, whose item has lost its contact or event, or that accepts what was
dismissed.  `LoseRace` undoes all of it: an agent's call fails with its tool call, a person's
looks again, outside of a transaction, at the key (`LookAgain`) and then at the item
(`CheckItem`).  Rows of `BriefFeedback` are shared with completions of quests
(`CompleteQuest`), so that a key may be taken by either, and contacts and events may be removed
at any time (`RemoveResource`).  `latest` is history: the key that decided on an item last.
What feedback means for who rests is in DailyBriefs.

### CalendarList, GoogleOAuth, EventContents

`CalendarList` has the connection row and the calendars mirrored from the list of the
provider, whose `history` is a sequence of sets; a token is the number of a member.  Its
claim is told apart by lease, pending time and `updatedAt`, which `ClaimList` moves past
its former value.  `FenceList` and `CommitList` compare the three; `ReleaseWithBackoff`,
`ResetGone` and `MarkNeedsReauth` are the ways out.  Assumed: a token the provider
gives continues the list as it was when the first page was read, which is what the pages
tell.

`GoogleOAuth` has the attempts, the callbacks under way and the connections created.
`FindAttempt`, `ConsumeAttempt`, `ExchangeCode` and `CreateConnection` are the awaits of a
callback; `Prune` is the daily job.  The signature of a state parameter is abstracted: it
names its attempt.

`EventContents` has the provider's events, those changed since the token, and the rows.  A
run `Begin`s, `List`s one item after the other while events change under it, and
`Commit`s; `LastItem` is the order in which repeated items count, `Updated` what a row
keeps when an incremental run meets a cancellation that says nothing else, `Normalized`
and `ZonedMidnight` what becomes of times (four zones, two of which change over midnight).
Nothing is claimed of events whose end is not after their start or whose local midnight
does not exist: `normalizeProviderEvent` passes over them while the token advances.
Transparency, the owner's response and the original start are left out.

### AgentTools, Assistants, AiAgent

`AgentTools` follows one call: `Find` and `Claim` are the two statements that
authenticate, `RefuseRequest` and `Registered` the policy and the scopes, `Handle` the
registry, `Read` or the keyed transaction (`Commit`, `ReplayOrConflict`, `RollBack`) the tool,
`Timeout` the gateway giving up on a call that goes on, `Answer` what the agent is told.
`Rotate` and `Revoke` step in anywhere.  An audit row says what became of a call: a replay is
audited as succeeded, a conflict of keys as failed, what the policy refuses as rejected
(`AfterAudit`).  The key itself is one step here; AgentActions has
it in detail.

`Assistants` has the reminders and scores that assistants write.  A sync looks for a
reminder (`Look`) and creates it (`CreateMissing`) in two queries, so two syncs may each
create one; `KeepsCount` says that nothing but that, or a reminder of last year completed
late, makes a second one.  A refresh writes scores from a list it read before.

`AiAgent` is the arithmetic of advice: days to a birthday, staleness, scores, health,
who is listed, which reminder is ahead; and the chain of two language models, each of which may
answer, refuse, fail or say too little (`Replies`, `NoReply`).  `AdviceIsWorded` leaves out what
the code does not keep: a reply that skips a line gives its words to the wrong contact, and an
empty reply of the second model makes an empty summary.  Templates, prompts and
the sentiment of notes are left out.

### CityStays, ContextDeletion, KeyRotation

`CityStays`: writers of names, events and selections work in READ COMMITTED transactions;
`Acquire` takes the owner's lock, `Rebuild` deletes all stays and makes them from what is
committed, and the writer's own changes (`StaysOf`).  A selection is written before
its rebuild, in a transaction of its own, and the rebuild may be lost: `owed`.

`ContextDeletion`: requests under keys delete the rows of fifteen tables in one Serializable
transaction, with an audit of how many went from each category.  `BeginContribution` and
`EndContribution` are what others have under way: a transaction reads a row (`ReadOf`) and writes
another later.  Mostly what was read is a parent, and its foreign key refuses the child when it is
gone; the items of a brief are written in the Serializable transaction that reads the events,
which conflicts with the deletion in the same way.  Two tables are held by nothing (`Unheld`): a
rebuild of stays reads events at READ COMMITTED and writes `CityStay`, which belongs to the owner
alone, and a consent whose attempt was used up before the deletion creates its connection after
it.  So a stay or a connection of a deleted setup may come back, and with a connection what hangs
on it; `DeletedAsTold` excludes everything else (`CameLate`).  Each table has one row at most.

`KeyRotation`: processes with the keyrings they started with, the command that pages over
rows of the old key (`FindPage`, `CompareAndSet`), and kills.  The order in which
an operator restarts processes is an assumption, stated at the head of the module.

### DailyBriefs, ImportantDates, DungeonMaster

`DailyBriefs`: a generator reads (`BeginBrief`, `ReadAgain`), ranks and plans (`PlanBrief`), and
writes the brief with its quests in a serializable transaction (`WriteBrief`), which fails and is
tried again (`RetryBrief`) or given up; answers, interactions, completions and midnight
step in between.  Who rests (`Excluded`) is read outside of the transaction, so an answer of the
same day may come too late for a brief under way; `RestIsKept` is about earlier days.

`ImportantDates` is one pure step, `Collect`, over zones on both sides of Greenwich, leap
days and the reminders that were made for midnight UTC of a celebration.

`DungeonMaster`: each request reads the session, which may expire it, and writes later
(`Accept`, `Submit`, `CountResponses`, `Advance`).  Only the two calls of the language model
work under a claim (`ClaimScene`, `ClaimDebrief`) that the last write checks.  The other
statements write without looking at the status and may bring a completed session back;
`reopened` counts that, and XP is paid once per end.

### EventDiscovery, IcsFeed, EventCatalog, EventPreferences, EventRecommendation

`EventDiscovery`: runs claim due sources under a lease, fetch, and commit behind a fence,
while the owner changes, disables or removes sources and feeds change.  `IcsFeed` is the loop
over the occurrences of a series with its exceptions and excluded dates, `Iterate` being one
turn, and `ReadsTheWindow` what the feed says.  `EventCatalog` is a walk over pages by cursor
while rows come and go.  `EventPreferences` is the create-or-update of a row whose tags are
encrypted for its id.  `EventRecommendation` scores, excludes and checks the calendar, over days
of feedback.  Fetching (hosts, addresses, decoding) is a step that yields the feed or
fails.

### ContactEnrichment, Celebrations, MonicaImport

`ContactEnrichment`: the operator exports names, and runs a collector (`StartCollector`), which
reads the export once, gathers candidates from notes, address cards, browser files and search
results by the names that match (`CollectFrom...`, `Gathered`), and writes them out at its end
(`WriteCandidates`) or, if a file cannot be read, not at all (`FailCollector`).  A piece of
evidence says where it was found: `AllowedNote`, `SafeArcSource`, `ArcPublicJson` and `SafeLocator`
are what the collector passes over (hidden notes, files that are no profile's, data brokers),
`Normalizes` and `LocatorFits` what it omits or the API refuses.  Agents submit what a collector
wrote, or evidence of their own (`Offered`) with any confidence (`SubmitAny`), accept what
needs no review (`NeedsReview`) and correct links while the owner edits.  Each tool call is one serializable transaction.  How
values are normalised and names are folded is left out.

`Celebrations`: attaching reads before it writes, notifying lists and then tells one by one.
Time is counted in half days in years of four days; lunar days move each year.

`MonicaImport`: an import is one serializable transaction that waits for an advisory lock with
the snapshot of before; `SelectOwnerVault`, `PrepareDemoBaseline`, `UpsertContact` and
`FinalCounts` are its parts, and a stream may be cut off (`Streams`).  Owners add, edit and
delete; a commit may be lost or its answer be.

### Activation, RestoreGate, Backups

`Activation`: `stored` is the environment Coolify keeps, `live` that of the application.
A run pins the commit, waits for a backup, patches, deploys and tries; `Attempted` marks the
point from where a failure is rolled back.  Any request may lose its answer after it was
done.  Assumed: Coolify applies a bulk change as a whole and deploys in order, one at a time;
one run is over, or killed, before the next begins, which nothing in the scripts enforces.

`RestoreGate`: the launcher and the provisioning exclude each other by a file lock; a gate has
a directory as its lock, and works through `Steps` with what each leaves behind (`left`), which
`CleanUp` removes in `CleanUpOrder`.  `process` is how one command runs: its end, its input,
its output limit, its timeout and the abort signal, in every order.

`Backups`: `local` and `remote` are the files of each backup on the host and off it.
`Publish` renames in `PublishOrder`, `CleanUpIncomplete` is the trap, `Recent`, `CheckBundles`,
`CopyFile`, `CryptCheck` and the two `Expire...` are the stages of the off-host run.  What Google
Drive may hold twice is left out.  Hours pass only between off-host runs.

### Cockpit, ApprovalsPage, DiscoverPage, ContactPages, IntegrationPanels

Each page has three variables: `server`, `page` (what is shown, busy, pinned or edited) and
`requests`, in the order they were sent.  `Serve` handles a request at any time, `Take...`,
`End...` and `Fail...` are the answers, which come in any order or never; `Elsewhere` is what
other windows or agents do.  `crossed` and its like in the properties mark what the code does
not promise: a load without an abort signal that overtakes a later one, or an answer that was
lost.  A request that the browser gave up may still be handled, except in
`IntegrationPanels`, where a failed request has been handled or never will be.

## Runs

All runs but the three that show findings finish without error; the longest, `providers`,
`callers` and `watch_renewals`, take three to four minutes with two workers.  Deadlock is not
checked in any: every model has a bounded clock or bounded numbers of requests, and stops
when they have run out.

| run | checks | bounds, and why they are enough |
| --- | --- | --- |
| `calendar_takeover` | `NoLostNotification`, `FullListingHonoured`, `KeepsMirrorPromise`, `MirrorMovesForward` | one calendar, two runs, a lease of no length so that any tick lets the other run take over, times up to 1 old, `pendingSyncAt` up to 3; a change after the first listing |
| `calendar_faults` | `TokenMatchesEvents`, `PendingIsVersion`, `SyncInv` (which has the types) | as above with two pages per listing and one fault at every possible place |
| `calendar_live` | `ChangesReachMirror` | a real lease, one fault, requests end after `QuietAfter`, and a clock long enough for the lease and the backoff after it |
| `watch_renewals` | `NothingUnheard`, `NoOrphan`, `ActiveIsLive`, `NoGap` | two channels and two jobs, which is an overlapping renewal; two changes, so that messages overtake each other |
| `watch_ends` | `TypeOK`, `DisconnectCompletes` | one channel, two jobs, one crash or refused stop, and time for the channel to run out |
| `providers` | `TypesOK`, `OpenVisitsKeepSamples`, `LastSeenNeverBack`, `HistoryStands` (Location); `MatchesSource`, `OnceOnly`, `NothingUntold`, `StepsAreCurrent` | scenes, see below |
| `callers` | `ExecutedWithConsent`, `ApprovalUsedOnce`, `ActionsInv`, `DecisionsStay`, `KeepsOncePerKey` (AgentActions); `OnceOnly`, `StandsAsTold`, `StepsAreSound` | scenes, see below |
| `reminders` | `TypeOK`, `OneSuccessor`, `DueIsNoticed`, `CompletedForGood` | three rows (a reminder, its successor, and theirs), two slots of the due check and one of marking |
| `reminders_overdue` | `OverdueIsForDisplay` is violated | the same instance |
| `location_stays` | `StaysAreVisits` is violated | three samples of one stay, one delivery at a time, no failures, no retention |
| `rewards` | `TypeOK`, `XpExplained`, `LedgerFollowsFacts`, `LastContactIsLatest`, `LogsOncePerKey`, `QuestsOncePerKey` | two interactions under two keys, one quest, two requests at once, two attempts each, two days: a record runs out, a streak pays |
| `rewards_check_in` | `CheckInRules` is violated | the same instance |

Two of anything that interacts is enough for the races here: each hazard is between two
actors over one row.  Where there is a theorem, it shows that nothing new comes with more.

The scenes of `providers`:

| scene | module | bounds |
| --- | --- | --- |
| `location` | Location | five payloads (three at home, two at work: the least that opens a visit and closes it), two deliveries at a time, two writes of visits (one opens, one closes), one night of retention, failures anywhere; a sample may come again after retention has deleted it |
| `consent` | GoogleOAuth | two callbacks for one attempt, a clock past its end and the age at which it is pruned |
| `list` | CalendarList | two runs, a lease of no length, as in `calendar_takeover`; a change of the list before, during or after a listing |
| `contents` | EventContents | one event in twelve forms, four zones: plain, forward over midnight, back over it, and with another offset at midnight in UTC |
| `ics` | IcsFeed | masters that start before, in or never near the window, with and without end; exceptions that move, shorten and cancel; excluded dates |
| `feed`, `catalog`, `preference`, `advice` | EventDiscovery, EventCatalog, EventPreferences, EventRecommendation | two runs or windows at once over one source or preference that changes; three listings on pages of one; five events on both sides of each limit |
| `enrichment` | ContactEnrichment | one contact, two fields, seven pieces of evidence: for each field two that disagree, and three that are to be left alone or refused; address cards are also submitted by agents of their own accord |
| `days` | Celebrations | a fixed date, a leap day, a lunar day and a date of one year, over a year and a half of four days each, with reminders two days ahead |
| `import` | MonicaImport | two owners, one or two native contacts, an export of two and two runs, which is a first run and a rerun or two at once; an owner edits while an import is open |

The scenes of `callers`:

| scene | module | bounds |
| --- | --- | --- |
| `agents` | AgentActions | two proposals, two clients with a key each to execute with, two calls at once, life times of 2 in a time of 3: everything runs out once and is used before, at and after it |
| `brief` | DailyBriefs | two people of whom one rests, one date, one place for each kind of item, two generators over two local days, one answer, one retry |
| `occasions` | ImportantDates | one date as birthday, celebration and reminder in five zones, in leap and common years |
| `game` | DungeonMaster | two players, two requests, claims and deadlines that run out |
| `stays`, `deletion`, `rekey` | CityStays, ContextDeletion, KeyRotation | two writers, requests or processes each; two names for one place; one key, two requests and one contribution under way, two setups (what is read and what is written by it, or what was there before and after); three rows on pages of two and a command that is killed and run again |
| `feedback` | ItemFeedback | a person and an agent, one item, one quest, two keys: a key that both use, an older decision that is retried after a later one, a snooze that may become too late |
| `syncs`, `scores` | Assistants | two syncs over a lunar date and one that is not over; two refreshes over two contacts |
| `tools` | AgentTools | a tool that reads, one that is not granted, two that write, one of them with a key of its own; two credentials, two calls; records that run out |
| `advice` | AiAgent | eight kinds of contacts on both sides of every threshold |
| `switches` | Activation | two runs one after the other, three operations of which each needs another, one scheduled backup |
| `gates`, `provision`, `process` | RestoreGate | two gates; one gate with two provisionings; one command |
| `dumps`, `shipping` | Backups | a backup with a verification and a writing application; a backup of the host and one of Coolify over four hours, `MinAge` 1, `MaxAge` 2, `Retention` 3 |
| `suggestions`, `panels`, `quest` | Cockpit | a decision of each kind, its reload and the reloads of others; one quest with two texts |
| `approvals` | ApprovalsPage | one proposal, two filters, another window and an executor |
| `discover` | DiscoverPage | two listings on pages of one, a query that finds both and one that finds one |
| `create`, `edit`, `log` | ContactPages | one or two contacts, one form or editor, and another window that changes them |
| `select`, `devices`, `feeds` | IntegrationPanels | one calendar, or two devices or sources, with five or six requests |

**Fairness.**  `calendar_live` assumes that the cron job starts runs and that awaited
calls return (weak fairness of the steps of a run; NestJS runs the job every minute and
Node returns to every await), that a run tries to claim before it ends and that time passes
while somebody waits for it (strong fairness of `Find` and `LiveTick`, which other steps
disable for a while), and that the catch-up job comes back.  It does *not* assume that a
run succeeds or that a webhook arrives; but errors and crashes are at most `MaxFaults`.
`LiveTick` assumes that a run ends within its lease: the lease is counted from the start of
the whole run and never renewed, so that a backlog that takes longer is taken over
half-way, for ever; this is a limit of the code, listed under the hazards.  `watch_ends`
assumes weak fairness of the steps of a job, of the removal of the account and of time, and
strong fairness for maintenance coming to every row, since each of its runs visits all of
them but may find a row gone or changed.  Nothing else claims liveness.

## Proofs

Eight modules hold theorems: `CalendarSyncProofs`, `CalendarWatchProofs`, `AgentActionsProofs`,
`CallerProofs`, `LocationProofs`, `RewardsProofs`, the end of `ItemFeedback`, and
`SceneProofs`.  Each theorem holds for every value of the constants
that satisfies what is assumed of them (below).  The runs check what they state on small
instances, with the inductive invariants `SyncInv` and `ActionsInv` themselves.

| theorem | states | argument |
| --- | --- | --- |
| *CalendarSync* | | |
| `TypeCorrect` | `[]TypeOK` | one step per action |
| `SyncInvariant` | `[]SyncInv` | see *The synchronisation* |
| `NothingLost`, `FullListings`, `TokensMatch`, `PendingVersions` | the parts of `SyncInv` | from `SyncInvariant` |
| `MirrorForward` | `MirrorMovesForward` | a commit that passes its fence is up to date, so what it lists is no older than the mirror |
| `SyncImplementsMirror` | `KeepsMirrorPromise` | each action is a step of `CalendarMirror` or none |
| *CalendarWatch* | | |
| `WatchInvariant`, `WatchTypes` | `[]WatchInv`, `[]TypeOK` | see *The watches* |
| `ChangesAreHeard`, `OrphansExplained`, `ActiveStands`, `RenewalsLeaveNoGap` | `NothingUnheard`, `NoOrphan`, `ActiveIsLive`, `NoGap` | from `WatchInvariant` |
| *AgentActions* | | |
| `ActionsInvariant`, `ActionsTypeCorrect` | `[]ActionsInv`, `[]TypeOK` | see *The approvals* |
| `ConsentGiven`, `UsedOnce` | `ExecutedWithConsent`, `ApprovalUsedOnce` | from `ActionsInvariant` |
| `DecisionsPermanent` | `DecisionsStay` | every write of a proposal or grant compares its status |
| `CallsImplementOncePerKey` | `KeepsOncePerKey` | `Propose` and `Execute` are steps `Apply`, `Replay` a step `Answer` |
| *Reminders* (`CallerProofs`) | | |
| `RemindersInvariant`, `RemindersTypes` | `[]RemindersInv`, `[]TypeOK` | types, `OneSuccessor`, and that successors are rows that exist |
| `SucceededOnce`, `CompletionFinal` | `[]OneSuccessor`, `CompletedForGood` | only what is pending is completed, and only an unused row succeeds it |
| `NothingDueIsMissed` | `[]DueIsNoticed` | see *The reminders* |
| *Location* (`LocationProofs`) | | |
| `DerivationRests` | what `DeriveVisits` returns for any samples | see *The visits* |
| `DeliveryInvariant`, `LocationInvariant`, `LocationTypes` | `[]DeliveryInv`, `[]LocationInv`, `[]TypeOK` | see *The visits* |
| `OpenVisitsAreKept`, `LastSeenStays`, `HistoryIsKept` | `[]OpenVisitsKeepSamples`, `LastSeenNeverBack`, `HistoryStands` | from `LocationInvariant` |
| *Rewards* | | |
| `RewardsInvariant`, `RewardsTypes` | `[](RewardsInv /\ CheckInsOK)`, `[]TypeOK` | see *The rewards* |
| `XpIsExplained`, `LedgerIsComplete`, `LastContactFollows` | `XpExplained`, `LedgerFollowsFacts`, `LastContactIsLatest` | from `RewardsInvariant` |
| `LogsImplementOncePerKey`, `QuestsImplementOncePerKey` | `LogsOncePerKey`, `QuestsOncePerKey` | a commit is `Apply`, a replay, also after a lost race, is `Answer` |
| *ItemFeedback* | | |
| `FeedbackInvariant`, `LaterDecisionsStand` | `[]FeedbackInv`, `[]DecisionsHold` | a key belongs to one request for ever, and only a fresh key decides |
| `FeedbackImplementsOncePerKey` | `FeedbackOncePerKey` | as for quests |
| *Scenes of providers* (`SceneProofs`) | | see *The scenes* |
| `ListInvariant`, `ListFollowsToken`, `ToldIsListed`, `ListTypes` | CalendarList: `ListInv`, `ListMatchesToken`, `ToldIsListedOrDue`, `TypeOK` | |
| `ConsentUsedOnce`, `ConsentTypes` | GoogleOAuth: `OneConnectionPerConsent`, `TypeOK` | |
| `TagsReadable`, `PreferenceTypes` | EventPreferences: `PreferenceReadable`, `TypeOK` | |
| `PollsAsSet`, `DiscoveryTypes` | EventDiscovery: `EveryPollAsSet`, `TypeOK` | |
| `EvidenceFillsFields`, `EnrichmentTypes` | ContactEnrichment: `EvidenceFillsOnce`, `TypeOK` | |
| `ImportTakesNothing`, `ImportIsOfOneExport`, `ImportTypes` | MonicaImport: `ImportLosesNothing`, `ImportIsWhole`, `TypeOK` | |
| `CatalogIsCovered` | EventCatalog: `TypeOK`, `PagesCoverListing` | |
| `RemindersAreOfTheNext` | Celebrations: `TypeOK`, `RemindsOfTheNext` | |
| `EventsAreKeptAsTheirs` | EventContents: `TypeOK`, `KeptAsTheirs`, `CancelledKeepsContents` | |
| `FeedsAreRead` | IcsFeed: `TypeOK`, `ReadsTheWindow` | |
| `AdviceIsGood` | EventRecommendation: `TypeOK`, `GoodAdvice` at each advice | |
| *Scenes of callers* (`CallerProofs`, `RewardsProofs`) | | see *The scenes* |
| `SessionsPaidOnce` | DungeonMaster: `PaidOncePerEnd` | |
| `StaysFollowNames` | CityStays: `StaysFollow` | |
| `DeletesAsTold` | ContextDeletion: `DeletedAsTold` | |
| `KeysChangeReadably` | KeyRotation: `ReadableThroughout` | |
| `CallsAccounted`, `ServedInForceOnly` | AgentTools: `CallsAreAccountedFor`, `ServedInForce` | |
| `SwitchesInOrder`, `ReceiptsAreTrue` | Activation: `FlagsInOrder`, `ReceiptsHold` | |
| `BundlesStayWhole`, `BackupsAreSafe` | Backups: `BundlesAreWhole`; `BackupsTellTruth`, `OffHostStays` | |
| `GatesTellTruth`, `CredentialsStand`, `CommandsEnd` | RestoreGate: `GateTellsTruth`, `GatesAreApart`; `CredentialsStay`; `CommandsEndOnce`, `SettledOnce` | |
| `AssistantsKeepCount` | Assistants: `KeepsCount` | |
| `ReceiptsOfRecord` | ApprovalsPage: `ReceiptIsTrue`, `ReceiptNeverBack` | |
| `EditsAreKept` | ContactPages: `FormLogsOnce`, `MethodsStay` | |
| `OccasionsShownOnce` | ImportantDates: `EachOccasionOnce` | |
| `OneQuestOpen` | DailyBriefs: `OneOpenQuest`, `RestIsKept` | |
| `LogsOnce` | Cockpit: `LoggedOnce` | |
| *The runs* (`LocationProofs`, `AgentActionsProofs`) | | see *The runs put together* |
| `TypesStay`, `StoredIsAsTheSource`, `OnceIsOnce`, `NothingIsUntold`, `StepsStayCurrent` | `TypesOK`, `MatchesSource`, `OnceOnly`, `NothingUntold`, `StepsAreCurrent` of `MCProviders` | |
| `StepsStaySound`, `OnceHolds` | `StepsAreSound`, `OnceOnly` of `MCCallers` | |

**The synchronisation.**  `NoLostNotification` is not inductive: it needs to know that a run which
commits has listed everything that was asked for.  `PendingIsVersion` says so: as long as
the row still has the lease and the `pendingSyncAt` a run has read, nothing that matters
has changed since it read them, and the values only grow.  That in turn rests on
`RunTimes` (the starts of runs tell their leases apart), `RunClaims` (what a run holds of
its claim) and `RowsSane`.  The proof does not go action by action through all of
these.  It shows that every action is, for each source, one of a few kinds of step of
a row (`RowStep`: its contents and `pendingSyncAt` stay, `pendingSyncAt` advances past
whatever a run has read, the row is settled, or a claim is put off), and that runs carry their
claims unchanged (`Carried`); the lemma `Versioned` shows once that such steps keep
`PendingIsVersion`.

**The watches.**  `WatchInv` is built of what each row, job and message may be.  A standing
channel is `Covered`: the message about the latest change is on its way on it, or a refresh was
asked for since.  What a job is to stop is marked before it is stopped (`TodoSound`), a channel
without a row has one job and one job at a time elects (`JobsApart`), and since no job is as old
as a channel lives (`Timely`), the channel an election keeps cannot run out before it ends.
`NoGap` follows: an election that stops the others has either kept its own channel or was
overruled by somebody who wanted all of them gone.

**The approvals.**  `ActionsInv` adds to the two goals why they hold: grants follow consent
(`GrantsFollowConsent`), the record of a key stands for the last effect of the key and outlives it
(`RecordsFollowEffects`), and what a call has seen of a record is still true though it
may be old (`CallsAreSound`), which is what makes the stale snapshot harmless.

**The reminders.**  `OneSuccessor` alone is not inductive: a row could be created that is
already somebody's successor.  `SuccessorsExist` excludes it.  `DueIsNoticed` looks ahead to
the end of a window; what is inductive is that no slot which ended has been left out
(`SlotsServed`) and that whatever was due in a slot that has been looked at was noticed
(`Punctual`).  The arithmetic is one lemma, `SlotOf`: a run that is late by less than a period
is late for its own slot.

**The visits.**  `deriveVisits` is a loop, and the provers have no induction over its input.
`DerivationRests` is proved by a least counterexample instead: of the parts of a set of samples
for which the walk goes wrong one would have the fewest samples, and the walk over it without
its last sample went right.  `WalkOK` says what the walk keeps: each visit rests on samples that were
walked, begins with its first, and shares none with another.  From this, `LocationInv`: the
rows of samples are those of distinct payloads, and every visit arrives with the first of its
samples, which was received before the visit was written.  `DeliveryInv` says what a delivery
holds between its steps, and what retention does: what it has selected is from before every open
visit but those `beside` it, because a derivation that read its samples earlier is marked by
`ReadOpen`, and one that reads them later is marked by `ReadSamples`.

**The rewards.**  What is on record has to be counted (`Countable`, by the theorems on finite sets):
each log adds one interaction, each completion one quest, and the XP of both.  The snapshot of
a transaction is older than its lock; `SnapshotSound` says that a snapshot with the present XP of
the owner has seen every log, because each log pays.  This is the one place where the proof needs
`InteractionXp > 0`: an interaction that paid nothing would leave the owner's row as it was, and
the other witness, the record of the key, may have been written and cleaned away since.
For check-ins, `CheckInsOK`: payments are numbered without gaps; a check-in under way whose day is
already paid is not alone, or the owner was last active on another day than that which it read;
and an achievement of a streak without its XP has a request that is about to add it, or had one.

**Feedback on items.**  `CallsSound`: a call on its way to an answer has its own request under its
key.  Rows of keys are never changed, so this stays, and `LookAgain` may answer after a lost race
what the transaction would have answered.

**The scenes.**  Each section of `SceneProofs` and `CallerProofs` begins with the invariant of its
module.

- *CalendarList*: a run that has the lease has the token nobody else wrote since (`Holding`), and
  one that has not is `Superseded` for good: by a later claim, by a pending time past its start
  or by a commit.  The starts of claimed runs differ, because a claim waits for the lease and
  moves `updatedAt` past it.
- *GoogleOAuth*: behind an attempt that was not consumed there is nothing.  *DungeonMaster*: what
  was paid is one for each completion still standing or reopened, and no request that ends a scene
  has read a session that was completed.  *CityStays*: a writer that has rebuilt under the lock is
  up to date with what was committed, or a rebuild is owed.  *EventPreferences*: the property
  is inductive.
- *EventDiscovery*: a run's claim is the row it finds, or the run is `Overtaken`: its source was
  removed, is due later than it began, or is leased to a later run.  Runs with the same claim
  began at different times.
- *ContextDeletion*: each row is of a setup later than the last deletion or came late, and what
  was told under a key is what its audit says.  What is read to write a row is never a stay, and
  what is read of a connection or of what hangs on it is written to what hangs on it, so that
  the exceptions do not spread.  *KeyRotation*: every row that is still to be done is on the
  page or after it (`PageOK`), and no process writes under the old key while the command is at work.
- *AgentTools*: what a call asks for is fixed once it is found, so that records and changes say for
  ever what they were made for; and a record outlives every change under its key by `KeyTTL`.
  For tokens: an active client has one that is good, and the others are revoked at once.
- *ContactEnrichment*: nothing is gathered, submitted or accepted that was not in a place the
  collector reads, and a field without a value was filled by nothing since it was last emptied.
- *Activation*: what a run read of the environment is in order, what its operation needs is on
  there, and what it writes is that with its switch on, or as it was.
- *MonicaImport*: while no other import has been committed, the rows an open import has written are
  as it saw them: an owner's own contacts have other keys, and a write compares what it replaces.
  `WholeInv`: an import counts rows by the sources of the one export it reads.
- *EventCatalog*: every listing that has been there all along is on a page that was read, or after
  the cursor.  *Celebrations*: an attachment is to a celebration that exists, and a reminder is of
  the first day from today on.  *EventContents*: an event that has not changed since the token is
  kept as it is.  *IcsFeed*: what the loop has put out is what the occurrences it passed put out.
  *EventRecommendation*: no snooze lasts longer than what is said is remembered.
- *Backups*: the step of a run says which files have their names; of what is taken away the dump
  goes first.  From the check that there is a recent backup until it is copied, what may be
  expired is older (`AgesInv`).
- *RestoreGate*: who holds `updater.lock` is alone with the passwords; a gate that is at work has
  the directory; a command whose child has ended is settled or about to be.
- *Assistants*: a sync remembers what it looked for, and what it has since found missing was made by
  somebody else.  *ApprovalsPage*: what is read of a proposal, in whatever list, was so on the
  server.  *ContactPages*: a save says of the methods what the owner did, and nothing otherwise.
- *ImportantDates*: what is collected are the first candidates of each occasion.  *DailyBriefs*: an
  open quest was written by a transaction that saw no other.  *Cockpit*: a key is the number
  of the request it was made for.

**The runs put together.**  The scenes of a run share no variable that two of them change, so each
is one of the instances that `SceneProofs` or `CallerProofs` proves about, with the constants of the
run.  The modules are instantiated twice, by the run and by the proofs; lemmas of the form *is
part* show the two to be the same.  Then a scene that is on takes the steps of its module, and
one that is off stands still.

**Assumptions.**  `ConstantsAssumption` of CalendarSync, CalendarWatch, AgentActions, Reminders,
Location and Rewards, which TLC evaluates on their runs.  Those that say more than the kind
of a constant: a channel lives longer than a job may take and than it is renewed ahead
(`WatchLife`); a job is late by less than its period (`MaxDelay < CheckEvery`); logging and
checking in pay; the keys of logs are none of quests (they are in different tables); payloads are
in one order; a place is left no nearer than it is entered (`OpenRadius <= AwayRadius`, 150 and
250 metres).  The theorems about scenes state theirs, the longer ones as named definitions:

- numbers are numbers (`MaxAttempts \in Nat`, `Runs \subseteq Int` and the like); there is an
  attempt and an event source; a lease, a page, a key and the life of a record are not empty; no
  writer is `Nobody` and no value is `None`;
- envelopes are numbered, as the command pages by id; requests switch on (`RequestsSwitchOn`, the
  only thing the activation script does); a backup may not be older than the retention keeps it
  (`AgesAssumption`); a gate is no provisioning (`GateAssumption`);
- exports are lists, and no contact of an owner's own has a key of an export (`ImportAssumption`:
  rows are imported by the id of their source, which those do not have); vaults and the owner's own
  contacts are finitely many (`WholeAssumption`);
- listings are numbered (`CatalogAssumption`); a year has days and a window is a number of them
  (`DaysAssumption`); zones have offsets, and the clock is corrected at least twice
  (`ContentsAssumption`); a feed is finite and its loop may turn at least once (`IcsAssumption`);
  events have ids of their own, and nothing is dismissed or put off for longer than it is
  remembered (`AdviceAssumption`); rows have ids of their own (`DatesAssumption`); people and dates
  are finitely many (`BriefAssumption`).

The theorems about a run are for its scenes as they are, and assume of its model values what they
are taken for (`Meant`, once in each of the two modules): that `Off` is no time and no value is
the lack of one; that nobody is no gate.

**Only model-checked** are:

- liveness (`ChangesReachMirror`, `DisconnectCompletes`), which the installed provers cannot
  treat under fairness;
- `StandsAsTold` of `MCCallers` as a whole.  There are theorems about most of its parts (`RestIsKept`,
  `StaysFollow`, `DeletedAsTold`, `ReadableThroughout`, `CallsAreAccountedFor`, `FlagsInOrder`,
  `GateTellsTruth`, `CommandsEndOnce`, `BundlesAreWhole`, `BackupsTellTruth`, `DecisionsHold`,
  `ReceiptIsTrue`).  The others have none: the three of `AiAgent`, which evaluate cases, and what a
  page shows once it waits for nothing (`ShowsDecisions`, `ListIsAsAsked`, `DetailIsSelected`,
  `ListFollows`, `SelectionIsServers`, `PanelFollows`);
- the three properties that are violated, of course.

## Findings

- **`reminders_overdue`**: `markOverdueReminders` is documented as a mark "for UI
  differentiation", but `complete` only finds pending reminders, and the count of
  overdue reminders only counts pending ones.  Half an hour after its time at the
  latest, a reminder can no longer be completed.
- **`rewards_check_in`**: `checkIn` reads `lastActiveAt` as the day of the last check-in,
  but logging an interaction or completing a quest writes it as well.  The first check-in
  after an interaction of the same day is answered as already done, with streak 0, where the
  comment promises 1.
- **`location_stays`**: the plan of the location service opens a visit "after three samples
  remain within 150 m for 10 minutes".  The window from which visits are derived begins with
  the one sample before the new one, unless a stored visit widens it, so that samples that
  arrive in order are only ever looked at in pairs and no visit opens, however long the stay.
  The first visit needs a sample that is late, or two that are stored before either is derived
  from.

## Limits of the code

What follows is visible in the models, or was met while writing them, and no document of
the repository promises otherwise.  Where a property would fail for one of these, it says so in
its comment and leaves the case out.

*Calendars and location.*  The lease of a scheduler run is never renewed (see *Fairness*).
An event whose end is not after its start, or whose local midnight falls into a change of the
clock, is passed over while the token advances.  The rebuild of stays after a selection or a
disconnection is a second transaction and may be lost.  Samples from before an open visit can
open a second one.  Retention does not take the lock of derivations, so that a visit which opens
while it runs may lose what it rests on.  A rebuild of stays, or a consent, that was under way
during a deletion of the owner's context writes a stay or a connection after it.

*Reminders and briefs.*  A reminder that is marked overdue by the run of the same minute is
never announced; a notification that the providers refuse is not sent again; a run may announce
what was completed since it read it.  An answer of the same day may come too late for the brief under way.  The
assistant that proposes reminders of birthdays looks for one at the server's local midnight, where
the sync creates those of midnight UTC; and two syncs at once may each create one.  A celebration of 29 February is passed over in common
years; the date of a single year is listed again and again once it is past.

*Check-ins.*  Two check-ins at once pay a day twice; one that dies between the row of a streak's
achievement and its XP leaves the XP out for good.

*The game.*  `submitResponse`, `advanceScene` and a second `accept` write without looking at the
status, so that a late one takes a completed session back, which may then be paid again.

*Advice.*  A reply of a language model is taken line by line: one that skips a line gives its
words to other contacts.  A birthday is next year's from the first millisecond of its day.  A
score of 0 is read as 50 by `getSuggestions`, and the filter for stale contacts misses those who
were never met.

*Monica import.*  An import that waited for another fails by serialization.  After the owner has
deleted an imported contact, and with an export that has grown, every later import refuses.  The
right number of native contacts counts as demos, whatever they are.  A rerun overwrites what
the owner edited before it, and a lost answer to `COMMIT` is told as a failure.

*Releases.*  Nothing keeps two activation runs apart.  A killed gate leaves its directory, and
the next ones refuse until somebody removes it; a cleanup that times out lets the lock go while
its command may still be at work; an interrupted receipt does not say whether the cleanup
failed.

*Backups.*  An off-host run that overlaps a backup stopped between its last rename and the
next line may say verified with only the dump off the host (`TakenBack` in the model).  A
retention pass interrupted after deleting a sidecar makes later runs fail at `rclone deletefile`
unless the file is copied again.  What a killed backup leaves in the directory, or one in
progress, makes every off-host run refuse.  A retention of one day is shorter than the 26 hours a
backup may be old, and would delete the only one.

*Pages.*  A failed decision does not reload the list; a pinned receipt is not advanced by a list
that was loaded before.  Loads without an abort signal overwrite those of another filter.  A list
or detail that was read before a follow shows the old one.  What another window edited besides
the contact methods is overwritten by a draft.  Creating a contact or a reminder has no key, so a
retry after a lost answer makes another; a 404 for an earlier profile closes the one that is
open; a reload remounts the editor and drops its draft.

## Not modelled

`PROJECT.json` lists every component with its status and the reason.  In short:

- reads without state: the location context, statistics, listings, presenters; the text of
  notifications and prompts, and what providers do with them;
- accounts and tokens: single rows, hashes and signatures;
- wiring: health checks, filters, DTOs, the schema by itself, shared packages, the protocol
  library of MCP, fetching over the network (which hosts and addresses may be reached);
- seeds (`event-catalog.seed.ts` is data), maintenance scripts that read and print, and checks
  of the repository itself;
- pages without state of their own, log-in and the platform site;
- methods without callers: `interactions.delete`, `gamification.checkLevelUp` and
  `checkAchievements`, `AgentRemindersService`;
- in modelled components: the channels of calendar lists, which behave as those of sources;
  reminder quests and the reminder forms of the pages; the preferences of the event panel.
