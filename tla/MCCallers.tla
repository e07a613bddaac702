----------------------------- MODULE MCCallers -----------------------------
(* The components that people, agents and commands call, in one run.  They *)
(* share no state, so nothing is lost by looking at one at a time: `scene` *)
(* says whose steps are taken, and the variables of the others are Off,    *)
(* except those of AgentActions, which stay as they begin.                 *)
EXTENDS AgentActions, TLC

CONSTANTS
    a1, a2,               \* clients of one owner
    k1, k2,               \* a key of each client to execute with
    Off,                  \* the value of what another scene is about
    w1, w2,               \* requests, runs or processes at once
    nobody                \* no writer

VARIABLES
    scene,
    today, contacted, done, brief, quests, answers, generator,
    sources, offset, now, dates, collected,
    session, responses, request, gameClock, awards, reopened,
    alias, place, selected, stays, writer, lock, owed, writes,
    row, audit, deletion, contributor, setups, removed, told, before, late,
    envelope, keyring, phase, command, written,
    agenda, syncing, lastMet, score, scoring, date,
    clientStatus, credential, toolCall, keyRecord, applied, changed, auditLog, toolClock,
    stored, pinned, live, executions, deployments, run,
    updater, gateLock, passwords, published, left, gate, provision, process,
    server, page, requests, dialog, crossed,
    person, advice,
    content, hour, backup, local, remote, shipping, verifier, restored,
    item, resource, feedback, asking, time, latest

briefVars == <<today, contacted, done, brief, quests, answers, generator>>
dateVars == <<sources, offset, now, dates, collected>>
gameVars == <<session, responses, request, gameClock, awards, reopened>>
stayVars == <<alias, place, selected, stays, writer, lock, owed, writes>>
deletionVars == <<row, audit, deletion, contributor, setups, removed, told, before, late>>
keyVars == <<envelope, keyring, phase, command, written>>
assistVars == <<agenda, syncing, lastMet, score, scoring, date>>
toolCallVars ==
    <<clientStatus, credential, toolCall, keyRecord, applied, changed, auditLog, toolClock>>
switchVars == <<stored, pinned, live, executions, deployments, run>>
gateVars == <<updater, gateLock, passwords, published, left, gate, provision>>
pageVars == <<server, page, requests>>
todayVars == <<dialog, crossed>>
fileVars == <<content, hour, backup, local, remote, shipping, verifier, restored>>
feedbackVars == <<item, resource, feedback, asking, time, latest>>
sceneVars ==
    <<scene, vars, briefVars, dateVars, gameVars, stayVars, deletionVars, keyVars, assistVars,
      toolCallVars, switchVars, gateVars, process, pageVars, todayVars,
      person, advice, fileVars, feedbackVars>>

-----------------------------------------------------------------------------
\* The proposals are those of the first client, the second tries its luck.
MCClientOf == [k \in ProposeKeys \cup {k1, k2} |-> IF k = k2 THEN a2 ELSE a1]

Symmetry == Permutations(Calls) \cup Permutations(Proposals)

\* Two people, one of them to do something for, and a date of the other.
Brief == INSTANCE DailyBriefs WITH
    People <- {1, 2}, Importance <- <<2, 1>>, Cadence <- <<2, 1>>, Met <- {1}, Tasked <- {2},
    Dates <- <<[person |-> 1, type |-> "reminder", source |-> "r1", day |-> 1]>>,
    Generators <- {w1, w2}, PersonLimit <- 1, DateLimit <- 1, QuestLimit <- 1, Horizon <- 2,
    Cooldown <- 1, MaxRetries <- 1, MaxToday <- 1, MaxAnswers <- 1

\* The same day of a person as a birthday, a celebration and a reminder, in years of four
\* days, a day at their end in leap years only, seen from zones on both sides.
Date(type, id, occasion, at, full) ==
    [type |-> type, id |-> id, occasion |-> occasion, at |-> at, full |-> full]
DateRows(birthday, celebration, full, occasion, reminder) ==
    {Date("birthday", 1, "birthday", birthday, FALSE), Date("celebration", 2, "x", celebration, full),
     Date("reminder", 3, occasion, reminder, FALSE)}
RowsOfRuns ==
    {DateRows(b, c, f, o, r) : b \in {1, 3}, c \in {0, 2, 3, 5}, f \in BOOLEAN,
                               o \in {"birthday", "x"}, r \in {3, 6, 7, 15, 18, 21, 36}}
Occasions == INSTANCE ImportantDates WITH
    YearDays <- 4, LeapYears <- 2, DayLength <- 3, Horizon <- 2, YearsAhead <- 8,
    Offsets <- -2 .. 2, Nows <- {3, 4, 5, 8, 13, 16, 25, 30}, Sources <- RowsOfRuns

Game == INSTANCE DungeonMaster WITH
    Players <- {1, 2}, GameRequests <- {w1, w2}, TotalScenes <- 2, SceneDeadline <- 1,
    ClaimTimeout <- 0, MaxGameClock <- 2, MaxScene <- 3, MaxAwards <- 2

Stays == INSTANCE CityStays WITH
    Aliases <- {"a1", "a2"}, Macs <- {"m1"}, Cities <- {"c1", "c2"}, StayEvents <- {"e1"},
    StayWriters <- {w1, w2}, Nobody <- nobody, MaxWrites <- 4

Deletion == INSTANCE ContextDeletion WITH
    DeletionKeys <- {"k1"}, DeletionCalls <- {w1, w2}, Contributors <- {w1}, RetryLimit <- 1,
    MaxSetups <- 2

Rekey == INSTANCE KeyRotation WITH
    Envelopes <- {1, 2, 3}, Processes <- {w1, w2}, BatchSize <- 2, MaxVersion <- 2

\* A day of the year that is lunar, and an event that is not over, of one contact.
Attachment(date0, full, lunar) ==
    [contact |-> 1, custom |-> -1, full |-> full, date |-> date0, lunar |-> lunar]
Syncing == INSTANCE Assistants WITH
    Contacts <- {1}, Attached <- {Attachment(1, -1, TRUE), Attachment(2, 1, FALSE)}, Born <- {1},
    CadenceDays <- 2, Syncs <- {w1, w2}, Refreshes <- {}, YearLength <- 3, Lookahead <- 2,
    MaxDays <- 3, MaxRows <- 4
Scoring == INSTANCE Assistants WITH
    Contacts <- {1, 2}, Attached <- {}, Born <- {}, CadenceDays <- 2, Syncs <- {},
    Refreshes <- {w1, w2}, YearLength <- 3, Lookahead <- 2, MaxDays <- 1, MaxRows <- 2

\* A tool that reads, one that is not granted, and two that write, one with its own key.
AgentCalls == INSTANCE AgentTools WITH
    Tools <- {"brief_today", "contacts_search", "log_interaction", "brief_feedback"},
    Granted <- {"briefs:read", "feedback:write", "interactions:write"},
    ToolCalls <- {w1, w2}, ToolKeys <- {1}, Inputs <- {1, 2}, MaxCredentials <- 2, KeyTTL <- 1,
    MaxToolClock <- 1

\* A run that may be tried again, with a change of what is on already and of what needs it.
Switching == INSTANCE Activation WITH
    Runs <- {1, 2}, MaxBackups <- 2, MaxDeployments <- 3,
    Requests <- {[operation |-> "calendar", value |-> 2], [operation |-> "location", value |-> 1],
                 [operation |-> "brief", value |-> 1]}

Gating == INSTANCE RestoreGate WITH Gates <- {1, 2}, Provisions <- {}, NoHolder <- nobody
Provisioning == INSTANCE RestoreGate WITH Gates <- {1}, Provisions <- {11, 12}, NoHolder <- nobody

-----------------------------------------------------------------------------
(* The pages of the dashboard: what one page needs at least for its        *)
(* requests to overlap, over the same three variables.                     *)

Suggested == INSTANCE Cockpit WITH
    Items <- {1, 2}, Texts <- {1}, HasQuest <- FALSE, Actions <- {"accept"},
    HasReminder <- FALSE, MaxRequests <- 5
Paneled == INSTANCE Cockpit WITH
    Items <- {1}, Texts <- {1}, HasQuest <- FALSE, Actions <- {"accept", "dismiss"},
    HasReminder <- TRUE, MaxRequests <- 5
Quested == INSTANCE Cockpit WITH
    Items <- {}, Texts <- {1, 2}, HasQuest <- TRUE, Actions <- {},
    HasReminder <- FALSE, MaxRequests <- 5

Approving == INSTANCE ApprovalsPage WITH Proposals <- {1}, MaxRequests <- 4

Discovering == INSTANCE DiscoverPage WITH
    Slugs <- {1, 2}, Narrow <- {2}, Limit <- 1, MaxRequests <- 4

Creating == INSTANCE ContactPages WITH
    People <- {1, 2}, Narrow <- {2}, Limit <- 1, Forms <- {"create"}, MaxRequests <- 4,
    MaxRevision <- 0
Editing == INSTANCE ContactPages WITH
    People <- {1}, Narrow <- {1}, Limit <- 1, Forms <- {"edit"}, MaxRequests <- 5,
    MaxRevision <- 1
Logging == INSTANCE ContactPages WITH
    People <- {1}, Narrow <- {1}, Limit <- 1, Forms <- {"log"}, MaxRequests <- 6,
    MaxRevision <- 1

Selecting == INSTANCE IntegrationPanels WITH
    Calendars <- {1}, Kind <- "none", PollLimit <- 1, MaxRequests <- 6
Enrolling == INSTANCE IntegrationPanels WITH
    Calendars <- {1, 2}, Kind <- "pixel", PollLimit <- 1, MaxRequests <- 5
Following == INSTANCE IntegrationPanels WITH
    Calendars <- {1, 2}, Kind <- "events", PollLimit <- 1, MaxRequests <- 5

\* Kinds of contacts for every way to be advised about one: never met, birthdays soon and
\* far, and those that were met within a week, two weeks, a month and longer ago.
Kind(last, birthday, score0, count, marks) ==
    [last |-> last, birthday |-> birthday, score |-> score0, count |-> count, marks |-> marks]
Celebration(days, full) == [there |-> TRUE, days |-> days, full |-> full]
Advising == INSTANCE AiAgent WITH
    Advised <- {1, 2}, Days <- {5}, YearLength <- 365,
    Kinds <- {Kind(-1, -1, 50, 0, {1}), Kind(40, 20, 50, 0, {1}), Kind(40, 25, 0, 1, {}),
              Kind(3, 5, 60, 1, {1}), Kind(3, 30, 60, 3, {}), Kind(20, 200, 20, 8, {1}),
              Kind(20, -1, 50, 2, {}), Kind(90, -1, 20, 1, {1})},
    Celebrations <- {[there |-> FALSE, days |-> 0, full |-> FALSE], Celebration(-1, TRUE),
                     Celebration(5, TRUE), Celebration(5, FALSE)}

\* A backup that is verified while the application writes, and one that is shipped beside
\* one of Coolify.
Dumping == INSTANCE Backups WITH
    Dumps <- {1}, Copies <- {}, Verifiers <- {w1}, MinAge <- 1, MaxAge <- 2, Retention <- 3,
    MaxContent <- 1, MaxHour <- 0
Shipping == INSTANCE Backups WITH
    Dumps <- {1}, Copies <- {3}, Verifiers <- {}, MinAge <- 1, MaxAge <- 2, Retention <- 3,
    MaxContent <- 0, MaxHour <- 4

\* A person and an agent with a key that may also complete a quest, and another one.
Answering == INSTANCE ItemFeedback WITH
    Items <- {1}, QuestIds <- {2}, FeedbackKeys <- {1, 2}, Askers <- {w1, w2}, Agents <- {w2},
    Reasons <- {0, 1}, SnoozeLimit <- 1, MaxTime <- 1

Today == {"suggestions", "panels", "quest"}
Pages ==
    Today \cup {"approvals", "discover", "create", "edit", "log", "select", "devices", "feeds"}

-----------------------------------------------------------------------------
OffStage ==
    /\ scene # "brief" =>
          /\ today = Off /\ contacted = Off /\ done = Off /\ brief = Off
          /\ quests = Off /\ answers = Off /\ generator = Off
    /\ scene # "occasions" =>
          /\ sources = Off /\ offset = Off /\ now = Off /\ dates = Off /\ collected = Off
    /\ scene # "game" =>
          /\ session = Off /\ responses = Off /\ request = Off
          /\ gameClock = Off /\ awards = Off /\ reopened = Off
    /\ scene # "stays" =>
          /\ alias = Off /\ place = Off /\ selected = Off /\ stays = Off
          /\ writer = Off /\ lock = Off /\ owed = Off /\ writes = Off
    /\ scene # "deletion" =>
          /\ row = Off /\ audit = Off /\ deletion = Off /\ contributor = Off
          /\ setups = Off /\ removed = Off /\ told = Off /\ before = Off /\ late = Off
    /\ scene # "rekey" =>
          envelope = Off /\ keyring = Off /\ phase = Off /\ command = Off /\ written = Off
    /\ scene \notin {"syncs", "scores"} =>
          /\ agenda = Off /\ syncing = Off /\ lastMet = Off
          /\ score = Off /\ scoring = Off /\ date = Off
    /\ scene # "tools" =>
          /\ clientStatus = Off /\ credential = Off /\ toolCall = Off /\ keyRecord = Off
          /\ applied = Off /\ changed = Off /\ auditLog = Off /\ toolClock = Off
    /\ scene # "switches" =>
          /\ stored = Off /\ pinned = Off /\ live = Off
          /\ executions = Off /\ deployments = Off /\ run = Off
    /\ scene \notin {"gates", "provision"} =>
          /\ updater = Off /\ gateLock = Off /\ passwords = Off /\ published = Off
          /\ left = Off /\ gate = Off /\ provision = Off
    /\ scene # "process" => process = Off
    /\ scene \notin Pages => server = Off /\ page = Off /\ requests = Off
    /\ scene \notin Today => dialog = Off /\ crossed = Off
    /\ scene # "advice" => person = Off /\ advice = Off
    /\ scene \notin {"dumps", "shipping"} =>
          /\ content = Off /\ hour = Off /\ backup = Off /\ local = Off /\ remote = Off
          /\ shipping = Off /\ verifier = Off /\ restored = Off
    /\ scene # "feedback" =>
          /\ item = Off /\ resource = Off /\ feedback = Off
          /\ asking = Off /\ time = Off /\ latest = Off

SceneInit ==
    /\ scene \in Pages \cup
                 {"agents", "brief", "occasions", "game", "stays", "deletion", "rekey",
                  "syncs", "scores", "tools", "switches", "gates", "provision", "process", "advice",
                  "dumps", "shipping", "feedback"}
    /\ Init
    /\ scene = "brief" => Brief!Init
    /\ scene = "occasions" => Occasions!Init
    /\ scene = "game" => Game!Init
    /\ scene = "stays" => Stays!Init
    /\ scene = "deletion" => Deletion!Init
    /\ scene = "rekey" => Rekey!Init
    /\ scene = "syncs" => Syncing!Init
    /\ scene = "scores" => Scoring!Init
    /\ scene = "tools" => AgentCalls!Init
    /\ scene = "switches" => Switching!Init
    /\ scene = "gates" => Gating!Init
    /\ scene = "provision" => Provisioning!Init
    /\ scene = "process" => Gating!RunInit
    /\ scene = "advice" => Advising!Init
    /\ scene = "dumps" => Dumping!Init
    /\ scene = "shipping" => Shipping!Init
    /\ scene = "feedback" => Answering!Init
    /\ scene = "suggestions" => Suggested!Init
    /\ scene = "panels" => Paneled!Init
    /\ scene = "quest" => Quested!Init
    /\ scene = "approvals" => Approving!Init
    /\ scene = "discover" => Discovering!Init
    /\ scene = "create" => Creating!Init
    /\ scene = "edit" => Editing!Init
    /\ scene = "log" => Logging!Init
    /\ scene = "select" => Selecting!Init
    /\ scene = "devices" => Enrolling!PanelInit
    /\ scene = "feeds" => Following!PanelInit
    /\ OffStage

\* The scene of s is on, and the other components stand still.
Only(s) ==
    /\ scene = s /\ UNCHANGED scene
    /\ s # "agents" => UNCHANGED vars
    /\ s # "brief" => UNCHANGED briefVars
    /\ s # "occasions" => UNCHANGED dateVars
    /\ s # "game" => UNCHANGED gameVars
    /\ s # "stays" => UNCHANGED stayVars
    /\ s # "deletion" => UNCHANGED deletionVars
    /\ s # "rekey" => UNCHANGED keyVars
    /\ s \notin {"syncs", "scores"} => UNCHANGED assistVars
    /\ s # "tools" => UNCHANGED toolCallVars
    /\ s # "switches" => UNCHANGED switchVars
    /\ s \notin {"gates", "provision"} => UNCHANGED gateVars
    /\ s # "process" => UNCHANGED process
    /\ s # "advice" => UNCHANGED <<person, advice>>
    /\ s \notin {"dumps", "shipping"} => UNCHANGED fileVars
    /\ s # "feedback" => UNCHANGED feedbackVars
    /\ s \notin Pages => UNCHANGED pageVars
    /\ s \notin Today => UNCHANGED todayVars

SceneNext ==
    \/ Only("agents") /\ Next
    \/ Only("brief") /\ Brief!Next
    \/ Only("occasions") /\ Occasions!Next
    \/ Only("game") /\ Game!Next
    \/ Only("stays") /\ Stays!Next
    \/ Only("deletion") /\ Deletion!Next
    \/ Only("rekey") /\ Rekey!Next
    \/ Only("syncs") /\ Syncing!Next
    \/ Only("scores") /\ Scoring!Next
    \/ Only("tools") /\ AgentCalls!Next
    \/ Only("switches") /\ Switching!Next
    \/ Only("gates") /\ Gating!Next
    \/ Only("provision") /\ Provisioning!Next
    \/ Only("process") /\ Gating!RunNext
    \/ Only("advice") /\ Advising!Next
    \/ Only("dumps") /\ Dumping!Next
    \/ Only("shipping") /\ Shipping!Next
    \/ Only("feedback") /\ Answering!Next
    \/ Only("suggestions") /\ Suggested!Next
    \/ Only("panels") /\ Paneled!Next
    \/ Only("quest") /\ Quested!Next
    \/ Only("approvals") /\ Approving!Next
    \/ Only("discover") /\ Discovering!Next
    \/ Only("create") /\ Creating!Next
    \/ Only("edit") /\ Editing!Next
    \/ Only("log") /\ Logging!Next
    \/ Only("select") /\ Selecting!Next
    \/ Only("devices") /\ Enrolling!PanelNext
    \/ Only("feeds") /\ Following!PanelNext

SceneSpec == SceneInit /\ [][SceneNext]_sceneVars

-----------------------------------------------------------------------------
\* What may happen once happens once, however requests, generators and retries overlap:
\* one open quest of a kind (DailyBriefs), one entry for an occasion however many rows
\* hold it (ImportantDates), XP once for each end of a game (DungeonMaster), one gate at work
\* (RestoreGate), one interaction of what was written in a dialog (Cockpit, ContactPages).
OnceOnly ==
    /\ scene = "brief" => Brief!OneOpenQuest
    /\ scene = "occasions" => Occasions!EachOccasionOnce
    /\ scene = "game" => Game!PaidOncePerEnd
    /\ scene = "gates" => Gating!GatesAreApart
    /\ scene = "quest" => Quested!LoggedOnce
    /\ scene = "log" => Logging!FormLogsOnce

\* What was promised still stands: who was put off is left in peace (DailyBriefs), what
\* was deleted is gone and told as it was (ContextDeletion), what was encrypted can be
\* read (KeyRotation), the stays are those of the visits and aliases (CityStays), and what
\* an agent was told and the audit says was committed (AgentTools), what is on has what it
\* needs (Activation), what the gate says of a commit and of a command is so (RestoreGate),
\* a backup is whole, on the host and off it (Backups), and an item is as the feedback on
\* it that was stored last says (ItemFeedback).
\* Whom and when the tools advise follows from what they read, and it is said whatever becomes
\* of the language models (AiAgent).  What a page shows, once it waits for nothing, is what the
\* server has, in whatever order the answers came and whichever were lost (Cockpit,
\* ApprovalsPage, DiscoverPage, ContactPages, IntegrationPanels).
StandsAsTold ==
    /\ scene = "brief" => Brief!RestIsKept
    /\ scene = "stays" => Stays!StaysFollow
    /\ scene = "deletion" => Deletion!DeletedAsTold
    /\ scene = "rekey" => Rekey!ReadableThroughout
    /\ scene = "tools" => AgentCalls!CallsAreAccountedFor
    /\ scene = "switches" => Switching!FlagsInOrder
    /\ scene = "gates" => Gating!GateTellsTruth
    /\ scene = "provision" => Provisioning!GateTellsTruth
    /\ scene = "process" => Gating!CommandsEndOnce
    /\ scene = "advice" => /\ Advising!MostUrgentListed /\ Advising!AdviceIsSound
                           /\ Advising!AdviceIsWorded
    /\ scene = "dumps" => Dumping!BundlesAreWhole /\ Dumping!BackupsTellTruth
    /\ scene = "shipping" => Shipping!BundlesAreWhole /\ Shipping!BackupsTellTruth
    /\ scene = "feedback" => Answering!TypeOK /\ Answering!DecisionsHold
    /\ scene = "suggestions" => Suggested!ShowsDecisions
    /\ scene = "panels" => Paneled!ShowsDecisions
    /\ scene = "quest" => Quested!ShowsDecisions
    /\ scene = "approvals" => Approving!ReceiptIsTrue
    /\ scene = "discover" => Discovering!ListIsAsAsked /\ Discovering!DetailIsSelected
    /\ scene = "create" => Creating!ListFollows
    /\ scene = "edit" => Editing!ListFollows
    /\ scene = "log" => Logging!ListFollows
    /\ scene = "select" => Selecting!SelectionIsServers
    /\ scene = "devices" => Enrolling!PanelFollows
    /\ scene = "feeds" => Following!PanelFollows

\* What a step decides on holds when it is taken: a sync creates what it looked for and did
\* not find, a refresh leaves the scores of what it read (Assistants), a call is served on a
\* credential that is still good (AgentTools), a receipt is written of what was done
\* (Activation), passwords change when no gate uses them, and what became of a command is
\* said once (RestoreGate), a backup goes when a newer one is safe (Backups), a key
\* decides on an item once (ItemFeedback).  A receipt
\* never goes back (ApprovalsPage), and an edit that says nothing of the ways to reach a
\* person leaves them (ContactPages).
StepsAreSound ==
    [][/\ scene = "syncs" => Syncing!KeepsCount
       /\ scene = "scores" => Scoring!KeepsCount
       /\ scene = "tools" => AgentCalls!ServedInForce
       /\ scene = "switches" => Switching!ReceiptsHold
       /\ scene = "provision" => Provisioning!CredentialsStay
       /\ scene = "process" => Gating!SettledOnce
       /\ scene = "shipping" => Shipping!OffHostStays
       /\ scene = "approvals" => Approving!ReceiptNeverBack
       /\ scene = "edit" => Editing!MethodsStay
       /\ scene = "feedback" => Answering!FeedbackKeepsPromise]_sceneVars

=============================================================================
