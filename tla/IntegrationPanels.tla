------------------------- MODULE IntegrationPanels -------------------------
(* The panels of the integrations page.  Calendars are selected at once on *)
(* the page and one after the other on the server, and what belongs to an  *)
(* earlier epoch of the panel is dropped (google-calendar-panel.tsx).      *)
(* Devices and event sources are changed one at a time                     *)
(* (pixel-location-panel.tsx, event-discovery-panel.tsx).                  *)
EXTENDS Naturals, FiniteSets, Sequences

CONSTANTS
    Calendars,      \* calendars of the connection, or devices or sources of the other panels
    Kind,           \* of the other panels: pixel or events
    PollLimit,      \* retryLimit of the schedule of source discovery
    MaxRequests     \* bound on requests of the page

VARIABLES
    server,         \* what is recorded
    page,           \* what is shown, and whether others changed it or an answer was lost
    requests        \* all of them, in the order they were sent

panelVars == <<server, page, requests>>

NoneShown == [c \in {} |-> FALSE]
Room(n) == Len(requests) + n <= MaxRequests
Over == [kind |-> "none", stage |-> "over"]
Ended(r) == [requests EXCEPT ![r] = Over]
Under(r, kind) == requests[r].kind = kind
Quiet == \A r \in DOMAIN requests : requests[r] = Over

-----------------------------------------------------------------------------
(* Google Calendar: connection and calendars are read one after the other. *)

Load(epoch, last) ==
    [kind |-> "load", stage |-> "sent", epoch |-> epoch, last |-> last, read |-> {},
     connected |-> FALSE, shown |-> NoneShown]

Init ==
    /\ \E connected, found \in BOOLEAN :
          server = [connected |-> connected, found |-> found,
                    selected |-> [c \in Calendars |-> FALSE]]
    /\ page = [status |-> "loading", connected |-> FALSE, shown |-> NoneShown, epoch |-> 1,
               confirmed |-> NoneShown, busy |-> "no", polls |-> 0, missed |-> FALSE]
    /\ requests = <<Load(1, FALSE)>>

TypeOK ==
    /\ server.selected \in [Calendars -> BOOLEAN]
    /\ page.status \in {"loading", "ready", "error", "left"} /\ page.polls <= PollLimit
    /\ DOMAIN page.confirmed \subseteq DOMAIN page.shown
    /\ \A r \in DOMAIN requests : requests[r].stage \in {"queued", "sent", "served", "over"}

Listed == IF server.connected /\ server.found THEN server.selected ELSE NoneShown

\* The calendars are found, at some time after the connection.
Discover ==
    /\ server.connected /\ ~server.found
    /\ server' = [server EXCEPT !.found = TRUE]
    /\ UNCHANGED <<page, requests>>

\* Another page, or a request of which the page expects no answer.
Elsewhere(c) ==
    /\ server.connected /\ server.found /\ ~page.missed
    /\ server' = [server EXCEPT !.selected[c] = ~@]
    /\ page' = [page EXCEPT !.missed = TRUE]
    /\ UNCHANGED requests

Serve(r) ==
    /\ requests[r].stage = "sent"
    /\ \/ /\ Under(r, "load") /\ "connections" \notin requests[r].read
          /\ requests' = [requests EXCEPT ![r].read = @ \cup {"connections"},
                                          ![r].connected = server.connected]
          /\ UNCHANGED <<server, page>>
       \/ /\ Under(r, "load") /\ "sources" \notin requests[r].read
          /\ requests' = [requests EXCEPT ![r].read = @ \cup {"sources"}, ![r].shown = Listed]
          /\ UNCHANGED <<server, page>>
       \/ /\ Under(r, "poll")
          /\ requests' = [requests EXCEPT ![r].stage = "served", ![r].shown = Listed]
          /\ UNCHANGED <<server, page>>
       \/ /\ Under(r, "select")
          /\ requests' = [requests EXCEPT ![r].stage = "served", ![r].ok = server.connected]
          /\ server' = IF ~server.connected THEN server
                       ELSE [server EXCEPT !.selected[requests[r].calendar] = requests[r].value]
          /\ page' = [page EXCEPT !.missed = @ \/ requests[r].epoch # page.epoch]
       \/ /\ Under(r, "disconnect")
          /\ requests' = [requests EXCEPT ![r].stage = "served"]
          /\ server' = [server EXCEPT !.connected = FALSE,
                                      !.selected = [c \in Calendars |-> FALSE]]
          /\ UNCHANGED page

\* loadCalendar and disconnect begin an epoch.
NewEpoch(p) == [p EXCEPT !.epoch = @ + 1, !.confirmed = NoneShown]

WithLoad(p, rs, last) ==
    /\ page' = [NewEpoch(p) EXCEPT !.status = "loading", !.connected = FALSE, !.shown = NoneShown,
                                   !.polls = 0, !.missed = FALSE]
    /\ requests' = Append(rs, Load(page'.epoch, last))

Retry ==
    /\ page.status = "error" /\ Room(1)
    /\ WithLoad(page, requests, FALSE)
    /\ UNCHANGED server

\* The last load of a disconnection frees the panel, whatever comes of it.
EndLoad(r, ready) ==
    LET current == requests[r].epoch = page.epoch
        p == IF requests[r].last THEN [page EXCEPT !.busy = "no"] ELSE page
    IN /\ requests' = Ended(r)
       /\ page' = IF ~current THEN p
                  ELSE IF ~ready THEN [p EXCEPT !.status = "error"]
                  ELSE [p EXCEPT !.status = "ready", !.connected = requests[r].connected,
                           !.shown = requests[r].shown, !.confirmed = requests[r].shown]
       /\ UNCHANGED server

TakeLoad(r) ==
    /\ Under(r, "load") /\ requests[r].read = {"connections", "sources"}
    /\ EndLoad(r, TRUE)

FailLoad(r) == Under(r, "load") /\ EndLoad(r, FALSE)

\* While there is nothing to select yet, the panel asks again, for some time.  What it still
\* asks after disconnect is dropped.
Waits ==
    /\ page.status = "ready" /\ page.connected /\ page.busy # "disconnect"
    /\ page.shown = NoneShown

Poll ==
    /\ Waits /\ page.polls < PollLimit /\ Room(1)
    /\ \A r \in DOMAIN requests : ~Under(r, "poll")
    /\ page' = [page EXCEPT !.polls = @ + 1]
    /\ requests' = Append(requests, [kind |-> "poll", stage |-> "sent", epoch |-> page.epoch,
                                     shown |-> NoneShown])
    /\ UNCHANGED server

EndPoll(r) ==
    /\ Under(r, "poll")
    /\ page' = IF requests[r].stage = "served" /\ requests[r].epoch = page.epoch /\ Waits
               THEN [page EXCEPT !.shown = requests[r].shown, !.confirmed = requests[r].shown]
               ELSE page
    /\ requests' = Ended(r)
    /\ UNCHANGED server

-----------------------------------------------------------------------------
\* updateSource: shown at once, and put behind what is under way for this calendar.  Only the
\* dialog of disconnect is in the way.
UpdateSource(c) ==
    /\ page.status = "ready" /\ page.connected /\ page.busy # "disconnect"
    /\ c \in DOMAIN page.shown /\ Room(1)
    /\ page' = [page EXCEPT !.shown[c] = ~@]
    /\ requests' = Append(requests,
          [kind |-> "select", stage |-> "queued", calendar |-> c, value |-> ~page.shown[c],
           epoch |-> page.epoch, ok |-> FALSE])
    /\ UNCHANGED server

\* Requests of one calendar and epoch.
Queue(r) ==
    {q \in DOMAIN requests : /\ Under(q, "select") /\ requests[q].epoch = requests[r].epoch
                             /\ requests[q].calendar = requests[r].calendar}

SendUpdate(r) ==
    /\ requests[r].stage = "queued" /\ \A q \in Queue(r) : q >= r
    /\ requests' = IF requests[r].epoch = page.epoch
                   THEN [requests EXCEPT ![r].stage = "sent"] ELSE Ended(r)
    /\ UNCHANGED <<server, page>>

\* Nothing was selected for this calendar since.
LatestVersion(r) == \A q \in Queue(r) : q <= r

\* Refused, not arrived, or the answer is lost.
EndUpdate(r) ==
    /\ Under(r, "select") /\ requests[r].stage # "queued"
    /\ LET c == requests[r].calendar
           done == requests[r].stage = "served" /\ requests[r].ok
           current == requests[r].epoch = page.epoch
       IN \/ /\ done
             /\ page' = IF current THEN [page EXCEPT !.confirmed[c] = requests[r].value] ELSE page
          \/ page' = [page EXCEPT !.missed = @ \/ done,
                         !.shown = IF current /\ LatestVersion(r)
                                   THEN [@ EXCEPT ![c] = page.confirmed[c]] ELSE @]
    /\ requests' = Ended(r)
    /\ UNCHANGED server

Connect ==
    /\ page.status = "ready" /\ page.busy = "no" /\ Room(1)
    /\ page' = [page EXCEPT !.busy = "connect"]
    /\ requests' = Append(requests, [kind |-> "connect", stage |-> "sent"])
    /\ UNCHANGED server

\* The browser goes to Google and comes back to a page of its own.
EndConnect(r) ==
    /\ Under(r, "connect")
    /\ \/ page' = [page EXCEPT !.status = "left", !.shown = NoneShown, !.confirmed = NoneShown]
       \/ page' = [page EXCEPT !.busy = "no"]
    /\ requests' = Ended(r)
    /\ UNCHANGED server

Disconnect ==
    /\ page.status = "ready" /\ page.connected /\ page.busy = "no" /\ Room(2)
    /\ page' = [NewEpoch(page) EXCEPT !.busy = "disconnect"]
    /\ requests' = Append(requests, [kind |-> "disconnect", stage |-> "sent"])
    /\ UNCHANGED server

EndDisconnect(r) ==
    /\ Under(r, "disconnect")
    /\ \/ /\ requests[r].stage = "served"
          /\ page' = [page EXCEPT !.status = "ready", !.connected = FALSE, !.shown = NoneShown,
                                  !.busy = "no"]
          /\ requests' = Ended(r)
       \/ Room(1) /\ WithLoad(page, Ended(r), TRUE)
    /\ UNCHANGED server

Next ==
    /\ page.status # "left"
    /\ \/ Discover \/ Retry \/ Poll \/ Connect \/ Disconnect
       \/ \E c \in Calendars : Elsewhere(c) \/ UpdateSource(c)
       \/ \E r \in DOMAIN requests :
             \/ Serve(r) \/ TakeLoad(r) \/ FailLoad(r) \/ EndPoll(r) \/ SendUpdate(r)
             \/ EndUpdate(r) \/ EndConnect(r) \/ EndDisconnect(r)

Spec == Init /\ [][Next]_panelVars

\* Once nothing is on its way, what is selected on the page is selected on the server, however
\* often it was changed and whatever failed; and after a disconnection nothing is.
SelectionIsServers ==
    Quiet /\ page.status = "ready" /\ ~page.missed =>
       /\ \A c \in DOMAIN page.shown : page.shown[c] = server.selected[c]
       /\ page.connected => server.connected

-----------------------------------------------------------------------------
(* The other panels.  Calendars stands for the devices or event sources,   *)
(* told apart by what is unique of them: external id or feed.              *)

PanelLoad == [kind |-> "load", stage |-> "sent", read |-> FALSE, shown |-> NoneShown]
States == IF Kind = "pixel" THEN {"active", "revoked"} ELSE {"active", "disabled"}
NoSecret == [item |-> 0, secret |-> 0]

PanelInit ==
    /\ \E state \in [Calendars -> {"none", "active"}] :
          server = [state |-> state, secret |-> [c \in Calendars |-> 0]]
    /\ page = [status |-> "loading", shown |-> NoneShown, busy |-> FALSE, disclosed |-> NoSecret,
               missed |-> {}]
    /\ requests = <<PanelLoad>>

PanelTypeOK ==
    /\ server.state \in [Calendars -> {"none"} \cup States]
    /\ page.status \in {"loading", "ready", "error"} /\ DOMAIN page.shown \subseteq Calendars
    /\ \A r \in DOMAIN requests : requests[r].stage \in {"sent", "served", "over"}

Recorded == [c \in {c \in Calendars : server.state[c] # "none"} |-> server.state[c]]

\* Another page changes or rotates, which this one is not told.
PanelElsewhere(c) ==
    /\ server.state[c] = "active"
    /\ \E what \in {"state", "secret"} \ page.missed :
          /\ \/ /\ what = "state"
                /\ \E state \in States \ {"active"} : server' = [server EXCEPT !.state[c] = state]
             \/ /\ what = "secret" /\ Kind = "pixel"
                /\ server' = [server EXCEPT !.secret[c] = @ + 1]
          /\ page' = [page EXCEPT !.missed = @ \cup {what}]
    /\ UNCHANGED requests

\* What is asked of the server, whether it may be, and what is recorded then.
Applied(request) ==
    LET c == request.item
    IN CASE request.kind = "create" -> [server EXCEPT !.state[c] = "active", !.secret[c] = @ + 1]
         [] request.kind = "rotate" -> [server EXCEPT !.secret[c] = @ + 1]
         [] request.kind = "change" -> [server EXCEPT !.state[c] = request.state]

Allowed(request) ==
    CASE request.kind = "create" -> server.state[request.item] = "none"
      [] request.kind = "rotate" -> server.state[request.item] = "active"
      [] request.kind = "change" -> server.state[request.item] \notin {"none", "revoked"}

PanelServe(r) ==
    /\ requests[r].stage = "sent"
    /\ IF requests[r].kind = "load"
       THEN /\ requests' = [requests EXCEPT ![r].stage = "served", ![r].shown = Recorded]
            /\ UNCHANGED server
       ELSE LET ok == Allowed(requests[r])
            IN /\ server' = IF ok THEN Applied(requests[r]) ELSE server
               /\ requests' = [requests EXCEPT ![r].stage = "served", ![r].ok = ok,
                                 ![r].secret = server'.secret[requests[r].item]]
    /\ UNCHANGED page

PanelRetry ==
    /\ page.status = "error" /\ page.disclosed = NoSecret /\ Room(1)
    /\ page' = [page EXCEPT !.status = "loading", !.shown = NoneShown,
                             !.missed = @ \ {"state"}]
    /\ requests' = Append(requests, PanelLoad)
    /\ UNCHANGED server

\* loadPixel and loadEvents, also as the end of a change: then the page is free again.
PanelLoaded(r) ==
    /\ Under(r, "load")
    /\ \/ /\ requests[r].stage = "served"
          /\ page' = [page EXCEPT !.status = "ready", !.shown = requests[r].shown, !.busy = FALSE]
       \/ page' = [page EXCEPT !.status = "error", !.busy = FALSE]
    /\ requests' = Ended(r)
    /\ UNCHANGED server

\* The buttons are disabled while one is busy, and covered while credentials are disclosed.
Free == page.status = "ready" /\ ~page.busy /\ page.disclosed = NoSecret /\ Room(2)

\* createDevice or createSource, rotate, and setSourceStatus, revoke or removeSource.
Change(c) ==
    /\ Free
    /\ \E kind \in {"create", "rotate", "change"}, state \in {"none"} \cup States :
          /\ kind = "create" <=> c \notin DOMAIN page.shown
          /\ kind = "rotate" => Kind = "pixel" /\ page.shown[c] = "active"
          /\ kind # "change" => state = "active"
          /\ kind = "change" =>
                IF Kind = "pixel" THEN page.shown[c] = "active" /\ state = "revoked"
                ELSE state # page.shown[c]
          /\ requests' = Append(requests, [kind |-> kind, stage |-> "sent", item |-> c,
                                           state |-> state, ok |-> FALSE, secret |-> 0])
    /\ page' = [page EXCEPT !.busy = TRUE]
    /\ UNCHANGED server

Discloses(request) == Kind = "pixel" /\ request.kind \in {"create", "rotate"}

\* What became of the device is loaded; the sources are changed where they are shown.
Reloads(request) == Kind = "pixel" /\ request.kind \in {"create", "change"}

ShownAfter(request) ==
    CASE Kind = "pixel" -> page.shown
      [] request.state = "none" -> [c \in DOMAIN page.shown \ {request.item} |-> page.shown[c]]
      [] OTHER -> [c \in DOMAIN page.shown \cup {request.item} |->
                      IF c = request.item THEN request.state ELSE page.shown[c]]

Changed(r) ==
    /\ requests[r].stage = "served" /\ requests[r].kind # "load" /\ requests[r].ok
    /\ LET request == requests[r]
           told == [page EXCEPT !.disclosed =
                       IF ~Discloses(request) THEN @
                       ELSE [item |-> request.item, secret |-> request.secret]]
       IN IF Reloads(request)
          THEN /\ page' = [told EXCEPT !.status = "loading", !.shown = NoneShown,
                                       !.missed = @ \ {"state"}]
               /\ requests' = Append(Ended(r), PanelLoad)
          ELSE /\ page' = [told EXCEPT !.shown = ShownAfter(request), !.busy = FALSE]
               /\ requests' = Ended(r)
    /\ UNCHANGED server

\* Refused, not arrived, or the answer is lost: nothing is loaded, and credentials that were
\* made are not told again.
NotChanged(r) ==
    /\ requests[r].stage # "over" /\ requests[r].kind # "load"
    /\ page' = [page EXCEPT !.busy = FALSE,
                   !.missed = @ \cup IF requests[r].stage = "served" THEN {"state"} ELSE {}]
    /\ requests' = Ended(r)
    /\ UNCHANGED server

CloseCredentials ==
    /\ page.disclosed # NoSecret
    /\ page' = [page EXCEPT !.disclosed = NoSecret]
    /\ UNCHANGED <<server, requests>>

PanelNext ==
    \/ PanelRetry \/ CloseCredentials
    \/ \E c \in Calendars : PanelElsewhere(c) \/ Change(c)
    \/ \E r \in DOMAIN requests : PanelServe(r) \/ PanelLoaded(r) \/ Changed(r) \/ NotChanged(r)

PanelSpec == PanelInit /\ [][PanelNext]_panelVars

\* Once nothing is on its way, the panel shows the devices or sources as they are, unless an
\* answer was lost or another page changed them; and credentials that are disclosed are those
\* in force, however many changes were tried.
PanelFollows ==
    /\ Quiet /\ page.status = "ready" /\ "state" \notin page.missed => page.shown = Recorded
    /\ page.disclosed # NoSecret /\ "secret" \notin page.missed =>
          page.disclosed.secret = server.secret[page.disclosed.item]

=============================================================================
