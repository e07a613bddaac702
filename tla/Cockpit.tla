------------------------------ MODULE Cockpit ------------------------------
(* The page of today (daily-cockpit.tsx, quest-completion-dialog.tsx and   *)
(* intent-registry.ts) over a server that does what DailyBriefs says.      *)
(* Requests are on their way for any time, their answers come in any order *)
(* or not at all, and a request that the browser gave up may arrive late.  *)
EXTENDS Naturals, FiniteSets, Sequences

CONSTANTS
    Items,          \* suggestions of the brief
    Texts,          \* what may be written in the form of an interaction
    HasQuest,       \* whether the brief is there already and has a quest
    Actions,        \* what the owner says to a suggestion: accept, dismiss (snooze is the same)
    HasReminder,    \* whether a reminder is open; if not, that panel is left out
    MaxRequests     \* bound on requests

VARIABLES
    server,         \* items, reminder, quest, interactions, and the answer of each key
    page,           \* what is shown, what is busy, and the keys of unresolved intents
    dialog,         \* the dialog of the quest
    requests,       \* all of them, in the order they were sent
    crossed         \* a load overtook a later one, or a request arrived that was given up

cockpitVars == <<server, page, dialog, requests, crossed>>

States == {"pending", "accepted", "dismissed"}
After(action) == IF action = "accept" THEN "accepted" ELSE "dismissed"
NotReady == [status |-> "not-ready"]
Loading == [status |-> "loading"]
Failure == [status |-> "error"]
Ready(data) == [status |-> "ready", data |-> data]

Closed == [open |-> 0, busy |-> FALSE, text |-> CHOOSE t \in Texts : TRUE, evidence |-> 0,
           intents |-> {}]

Load(kind) == [kind |-> kind, stage |-> "sent", ok |-> FALSE, data |-> 0]
Panels == <<Load("brief")>> \o IF HasReminder THEN <<Load("reminders")>> ELSE << >>

TypeOK ==
    /\ server.items \in [Items -> States] /\ server.quest \in {0} \cup DOMAIN server.logged
    /\ page.brief.status \in {"loading", "not-ready", "error", "ready"}
    /\ page.busyItem \subseteq Items /\ Cardinality(page.busyItem) <= 1
    /\ dialog.evidence \in {0} \cup DOMAIN server.logged
    /\ \A i \in DOMAIN requests : requests[i].stage \in {"sent", "served", "over", "given up"}

Init ==
    /\ \E generated \in {TRUE, HasQuest} :
          server = [items |-> [i \in Items |-> "pending"], generated |-> generated,
                    reminder |-> IF HasReminder THEN "pending" ELSE "completed",
                    quest |-> 0, logged |-> << >>, answers |-> {}]
    /\ page = [brief |-> Loading, reminders |-> Loading, busyItem |-> {}, busyReminder |-> FALSE,
               generating |-> FALSE, intents |-> {}, receipt |-> 0]
    /\ dialog = Closed
    /\ requests = Panels
    /\ crossed = FALSE

-----------------------------------------------------------------------------
(* IntentRegistry: one key for one intent until it is resolved.  Keys are  *)
(* the numbers of the requests that they were made for.                    *)

KeyFor(intents, intent) ==
    IF \E known \in intents : known.intent = intent
    THEN (CHOOSE known \in intents : known.intent = intent).key ELSE Len(requests) + 1

Keep(intents, intent) == intents \cup {[intent |-> intent, key |-> KeyFor(intents, intent)]}
Resolve(intents, intent) == {known \in intents : known.intent # intent}

-----------------------------------------------------------------------------
(* Requests and the server.                                                *)

Room(n) == Len(requests) + n <= MaxRequests
Send(request) == requests' = Append(requests, request)

\* Nothing is kept of a request that is over but its kind.
Mark(r, stage) ==
    [requests EXCEPT ![r] = IF stage = "over" THEN [kind |-> @.kind, stage |-> stage]
                            ELSE [@ EXCEPT !.stage = stage]]
Data == [items |-> server.items, quest |-> server.quest # 0]
Known(r) == {a \in server.answers : a.key = requests[r].key}

\* What the server makes of a request, and what it answers.
Handled(r, after, ok, data) ==
    /\ server' = after
    /\ requests' = IF requests[r].stage = "given up" THEN Mark(r, "over")
                   ELSE [requests EXCEPT ![r].stage = "served", ![r].ok = ok, ![r].data = data]

Once(r, guard, after, data) ==
    IF Known(r) # {} THEN Handled(r, server, TRUE, (CHOOSE a \in Known(r) : TRUE).data)
    ELSE IF ~guard THEN Handled(r, server, FALSE, 0)
    ELSE Handled(r, [after EXCEPT !.answers = @ \cup {[key |-> requests[r].key, data |-> data]}],
                 TRUE, data)

Serve(r) ==
    /\ requests[r].stage \in {"sent", "given up"}
    /\ LET request == requests[r]
       IN \/ /\ request.kind = "brief"
             /\ Handled(r, server, server.generated, Data)
          \/ request.kind = "reminders" /\ Handled(r, server, TRUE, server.reminder)
          \/ /\ request.kind = "generate"
             /\ Handled(r, [server EXCEPT !.generated = TRUE], TRUE, Data)
          \/ /\ request.kind = "feedback"
             /\ Once(r, request.action = "accept" => server.items[request.item] = "pending",
                     [server EXCEPT !.items[request.item] = After(request.action)], 0)
          \/ /\ request.kind = "reminder"
             /\ Handled(r, [server EXCEPT !.reminder = "completed"], server.reminder = "pending", 0)
          \/ /\ request.kind = "log"
             /\ Once(r, TRUE, [server EXCEPT !.logged =
                                  Append(@, [open |-> request.open, text |-> request.text])],
                     Len(server.logged) + 1)
          \/ /\ request.kind = "complete"
             /\ Once(r, server.quest = 0, [server EXCEPT !.quest = request.evidence],
                     request.evidence)
    /\ crossed' = (crossed \/ requests[r].stage = "given up")
    /\ UNCHANGED <<page, dialog>>

-----------------------------------------------------------------------------
(* Loads.                                                                  *)

Pending(r, kind) == requests[r].kind = kind /\ requests[r].stage \in {"sent", "served"}
Answered(r, kind) == requests[r].kind = kind /\ requests[r].stage = "served"

\* A later request of this kind is over already.
Overtaken(r) ==
    \E later \in DOMAIN requests :
       later > r /\ requests[later].kind = requests[r].kind /\ requests[later].stage = "over"

\* loadBrief: the answers are taken as they come.
TakeBrief(r) ==
    /\ Answered(r, "brief")
    /\ page' = [page EXCEPT !.brief = IF requests[r].ok THEN Ready(requests[r].data) ELSE NotReady]
    /\ requests' = Mark(r, "over") /\ crossed' = (crossed \/ Overtaken(r))
    /\ UNCHANGED <<server, dialog>>

TakeReminders(r) ==
    /\ Answered(r, "reminders")
    /\ page' = [page EXCEPT !.reminders = Ready(requests[r].data)]
    /\ requests' = Mark(r, "over") /\ crossed' = (crossed \/ Overtaken(r))
    /\ UNCHANGED <<server, dialog>>

LoadFails(r) ==
    /\ \/ Pending(r, "brief") /\ page' = [page EXCEPT !.brief = Failure]
       \/ Pending(r, "reminders") /\ page' = [page EXCEPT !.reminders = Failure]
    /\ requests' = Mark(r, "over") /\ crossed' = (crossed \/ Overtaken(r))
    /\ UNCHANGED <<server, dialog>>

\* The button of PanelFailure.
Retry ==
    /\ Room(1)
    /\ \/ /\ page.brief = Failure
          /\ page' = [page EXCEPT !.brief = Loading] /\ Send(Load("brief"))
       \/ /\ page.reminders = Failure
          /\ page' = [page EXCEPT !.reminders = Loading] /\ Send(Load("reminders"))
    /\ UNCHANGED <<server, dialog, crossed>>

\* An answer of the server, or none: the request may have arrived, or may still.
Ends(r, kind, ok) ==
    /\ Pending(r, kind)
    /\ ok => requests[r].stage = "served" /\ requests[r].ok

Over(r, ok) ==
    IF ok \/ requests[r].stage = "served" THEN {"over"} ELSE {"over", "given up"}

GenerateBrief ==
    /\ page.brief = NotReady /\ ~page.generating /\ Room(1)
    /\ page' = [page EXCEPT !.generating = TRUE]
    /\ Send(Load("generate"))
    /\ UNCHANGED <<server, dialog, crossed>>

EndGenerate(r) ==
    /\ \E ok \in BOOLEAN :
          /\ Ends(r, "generate", ok)
          /\ page' = [page EXCEPT !.generating = FALSE,
                         !.brief = IF ok THEN Ready(requests[r].data) ELSE Failure]
          /\ \E stage \in Over(r, ok) : requests' = Mark(r, stage)
    /\ UNCHANGED <<server, dialog, crossed>>

-----------------------------------------------------------------------------
(* Suggestions and reminders.                                              *)

SubmitFeedback(i, action) ==
    /\ page.brief.status = "ready" /\ i \notin page.busyItem /\ dialog.open = 0 /\ Room(2)
    /\ LET intent == <<i, action>>
       IN /\ page' = [page EXCEPT !.busyItem = {i}, !.intents = Keep(@, intent)]
          /\ Send([kind |-> "feedback", stage |-> "sent", ok |-> FALSE, data |-> 0, item |-> i,
                   action |-> action, key |-> KeyFor(page.intents, intent)])
    /\ UNCHANGED <<server, dialog, crossed>>

\* Success or not, the panel is loaded again and shown as it is until then.
Reload(ended, kind, ok) == Append(ended, Load(kind))

EndFeedback(r) ==
    /\ \E ok \in BOOLEAN :
          /\ Ends(r, "feedback", ok)
          /\ page' = [page EXCEPT !.busyItem = {},
                         !.intents = IF ok THEN Resolve(@, <<requests[r].item, requests[r].action>>)
                                     ELSE @]
          /\ \E stage \in Over(r, ok) : requests' = Reload(Mark(r, stage), "brief", ok)
    /\ UNCHANGED <<server, dialog, crossed>>

CompleteReminder ==
    /\ page.reminders = Ready("pending") /\ ~page.busyReminder /\ dialog.open = 0 /\ Room(2)
    /\ page' = [page EXCEPT !.busyReminder = TRUE]
    /\ Send(Load("reminder"))
    /\ UNCHANGED <<server, dialog, crossed>>

EndReminder(r) ==
    /\ \E ok \in BOOLEAN :
          /\ Ends(r, "reminder", ok)
          /\ page' = [page EXCEPT !.busyReminder = FALSE]
          /\ \E stage \in Over(r, ok) : requests' = Reload(Mark(r, stage), "reminders", ok)
    /\ UNCHANGED <<server, dialog, crossed>>

-----------------------------------------------------------------------------
(* QuestCompletionDialog, of an interaction.                               *)

\* Dialogs are numbered by the requests that were sent before.
OpenQuest ==
    /\ HasQuest /\ dialog.open = 0 /\ Room(3)
    /\ page.brief.status = "ready" /\ ~page.brief.data.quest
    /\ dialog' = [Closed EXCEPT !.open = Len(requests) + 1]
    /\ page' = [page EXCEPT !.receipt = 0]
    /\ UNCHANGED <<server, requests, crossed>>

Write(text) ==
    /\ dialog.open # 0 /\ ~dialog.busy /\ text # dialog.text
    /\ dialog' = [dialog EXCEPT !.text = text]
    /\ UNCHANGED <<server, page, requests, crossed>>

CloseQuest ==
    /\ dialog.open # 0 /\ ~dialog.busy
    /\ dialog' = Closed
    /\ UNCHANGED <<server, page, requests, crossed>>

Complete(intents, evidence) ==
    [kind |-> "complete", stage |-> "sent", ok |-> FALSE, data |-> 0, open |-> dialog.open,
     evidence |-> evidence, key |-> KeyFor(intents, <<"complete", evidence>>)]

\* The interaction is logged once: from then on only the quest is tried again.
Submit ==
    /\ dialog.open # 0 /\ ~dialog.busy /\ Room(1)
    /\ LET intent == IF dialog.evidence = 0 THEN <<"log", dialog.text>>
                     ELSE <<"complete", dialog.evidence>>
       IN /\ dialog' = [dialog EXCEPT !.busy = TRUE, !.intents = Keep(@, intent)]
          /\ requests' = Append(requests,
                IF dialog.evidence # 0 THEN Complete(dialog.intents, dialog.evidence)
                ELSE [kind |-> "log", stage |-> "sent", ok |-> FALSE, data |-> 0,
                      open |-> dialog.open, text |-> dialog.text,
                      key |-> KeyFor(dialog.intents, intent)])
    /\ UNCHANGED <<server, page, crossed>>

EndLog(r) ==
    /\ \/ /\ Ends(r, "log", TRUE) /\ Room(1)
          /\ LET evidence == requests[r].data
                 left == Resolve(dialog.intents, <<"log", requests[r].text>>)
             IN /\ dialog' = [dialog EXCEPT !.evidence = evidence,
                                 !.intents = Keep(left, <<"complete", evidence>>)]
                /\ requests' = Append(Mark(r, "over"), Complete(left, evidence))
       \/ /\ Ends(r, "log", FALSE)
          /\ dialog' = [dialog EXCEPT !.busy = FALSE]
          /\ \E stage \in Over(r, FALSE) : requests' = Mark(r, stage)
    /\ UNCHANGED <<server, page, crossed>>

\* onSuccess: the receipt, and refreshQuestData, which shows nothing until it is loaded.
EndComplete(r) ==
    /\ \/ /\ Ends(r, "complete", TRUE)
          /\ dialog' = Closed
          /\ page' = [page EXCEPT !.receipt = requests[r].data,
                         !.brief = Loading, !.reminders = Loading]
          /\ requests' = Mark(r, "over") \o Panels
       \/ /\ Ends(r, "complete", FALSE)
          /\ dialog' = [dialog EXCEPT !.busy = FALSE]
          /\ \E stage \in Over(r, FALSE) : requests' = Mark(r, stage)
          /\ page' = page
    /\ UNCHANGED <<server, crossed>>

Next ==
    \/ Retry \/ GenerateBrief \/ CompleteReminder \/ OpenQuest \/ CloseQuest \/ Submit
    \/ \E i \in Items, action \in Actions : SubmitFeedback(i, action)
    \/ \E text \in Texts : Write(text)
    \/ \E r \in DOMAIN requests :
          \/ Serve(r) \/ TakeBrief(r) \/ TakeReminders(r) \/ LoadFails(r) \/ EndGenerate(r)
          \/ EndFeedback(r) \/ EndReminder(r) \/ EndLog(r) \/ EndComplete(r)

Spec == Init /\ [][Next]_cockpitVars

-----------------------------------------------------------------------------
Quiet == \A r \in DOMAIN requests : requests[r].stage = "over"

\* When nothing is on its way, what is shown is what the server has: after every decision,
\* whether its answer came or not, and after a quest was verified.  Only a load that was
\* overtaken by a later one, or a request that arrives after it was given up, can leave the
\* page behind; and so can a dialog that is closed before its quest was verified.
ShowsDecisions ==
    Quiet /\ ~crossed =>
       /\ page.brief.status = "ready" =>
             /\ page.brief.data.items = server.items
             /\ page.receipt # 0 => page.brief.data.quest
       /\ page.reminders.status = "ready" => page.reminders.data = server.reminder

\* One text is logged once in a dialog, however often it is submitted; and a receipt is of
\* a quest that was completed with an interaction of a dialog.
LoggedOnce ==
    /\ \A i, j \in DOMAIN server.logged : i # j => server.logged[i] # server.logged[j]
    /\ page.receipt # 0 => server.quest = page.receipt

=============================================================================
