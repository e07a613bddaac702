--------------------------- MODULE ApprovalsPage ---------------------------
(* The page where the owner decides on proposals (approvals-workspace.tsx, *)
(* proposal-row.tsx, proposal-view.ts).  A decided proposal is pinned: the *)
(* page shows its receipt over lists that were read before or after.  Who  *)
(* else decides and executes does what AgentActions says, in short here.   *)
EXTENDS Naturals, FiniteSets, Sequences

CONSTANTS
    Proposals,      \* ids of reviewable proposals
    MaxRequests     \* bound on requests of the page

VARIABLES
    server,         \* what is recorded of each proposal
    page,           \* filter, list, pin, and what is loading, failed or busy
    requests        \* all of them, in the order they were sent

approvalsVars == <<server, page, requests>>

\* What is known of a proposal, and how far its execution is: none, pending, processing, ended.
Known(id, status, execution) == [id |-> id, status |-> status, execution |-> execution]
Nothing == [id |-> 0, status |-> "all", execution |-> 0]
Filters == {"all", "pending", "approved"}

TypeOK ==
    /\ \A id \in Proposals : server[id].execution > 0 => server[id].status = "approved"
    /\ page.filter \in Filters \cup {"rejected"} /\ page.busy \subseteq Proposals
    /\ \A known \in page.list \cup ({page.pin} \ {Nothing}) : known.id \in Proposals
    /\ \A r \in DOMAIN requests : requests[r].stage \in {"sent", "served", "over"}

Load(filter, signal) ==
    [kind |-> "load", stage |-> "sent", filter |-> filter, signal |-> signal, data |-> {}]

Init ==
    /\ server = [id \in Proposals |-> Known(id, "pending", 0)]
    /\ page = [filter |-> "all", list |-> {}, pin |-> Nothing, loading |-> TRUE, error |-> FALSE,
               busy |-> {}]
    /\ requests = <<Load("all", TRUE)>>

-----------------------------------------------------------------------------
Matches(known, filter) == filter = "all" \/ known.status = filter

Durable(pin, list) == {known \in list : known.id = pin.id /\ known.status = pin.status}

\* Mutant: the list is always newer than the pin.
PinWithList(pin, list) ==
    IF Durable(pin, list) = {} THEN pin ELSE CHOOSE known \in Durable(pin, list) : TRUE

\* proposalPinWithDurableHistory
PinWithHistory(pin, list) ==
    IF \A known \in Durable(pin, list) : known.execution < pin.execution THEN pin
    ELSE CHOOSE known \in Durable(pin, list) : TRUE

\* proposalsWithPinnedReceipt
Shown(list, pin, filter) ==
    LET visible == {known \in list : Matches(known, filter)}
    IN IF pin = Nothing \/ ~Matches(pin, filter) THEN visible
       ELSE {known \in visible : known.id # pin.id} \cup {PinWithHistory(pin, visible)}

Visible == Shown(page.list, page.pin, page.filter)

-----------------------------------------------------------------------------
(* The server, with other pages and the executor.                          *)

Elsewhere(id) ==
    /\ \/ /\ server[id].status = "pending"
          /\ \E status \in {"approved", "rejected", "expired"} :
                server' = [server EXCEPT ![id].status = status]
       \/ /\ server[id].status = "approved" /\ server[id].execution < 3
          /\ server' = [server EXCEPT ![id].execution = @ + 1]
    /\ UNCHANGED <<page, requests>>

Listed(filter) == {known \in {server[id] : id \in Proposals} : Matches(known, filter)}

Serve(r) ==
    /\ requests[r].stage = "sent"
    /\ \/ /\ requests[r].kind = "load"
          /\ requests' = [requests EXCEPT ![r].stage = "served",
                                          ![r].data = Listed(requests[r].filter)]
          /\ UNCHANGED server
       \/ /\ requests[r].kind = "decide"
          /\ LET id == requests[r].reviewed.id
                 ok == server[id].status = "pending"
             IN /\ requests' = [requests EXCEPT ![r].stage = "served", ![r].ok = ok]
                /\ server' = IF ok THEN [server EXCEPT ![id].status = requests[r].decision]
                             ELSE server
    /\ UNCHANGED page

-----------------------------------------------------------------------------
(* Loads.                                                                  *)

Over == [stage |-> "over"]
Under(r, kind) == requests[r].stage # "over" /\ requests[r].kind = kind
Ended(r) == [requests EXCEPT ![r] = Over]

\* The page as a load begins.
Begun(p) == [p EXCEPT !.loading = TRUE, !.error = FALSE]

\* The effect of another filter: its load is on a signal, and that of the last one is aborted.
Refilter(rs, filter) ==
    Append([r \in DOMAIN rs |->
               IF rs[r].stage # "over" /\ rs[r].kind = "load" /\ rs[r].signal THEN Over ELSE rs[r]],
           Load(filter, TRUE))

OpenFilter(filter) ==
    /\ filter # page.filter /\ Len(requests) < MaxRequests
    /\ page' = Begun([page EXCEPT !.filter = filter])
    /\ requests' = Refilter(requests, filter)
    /\ UNCHANGED server

Retry ==
    /\ page.error /\ Len(requests) < MaxRequests
    /\ page' = Begun(page)
    /\ requests' = Append(requests, Load(page.filter, FALSE))
    /\ UNCHANGED server

\* The pin follows each list that is not empty, and never back.
TakeLoad(r) ==
    /\ Under(r, "load") /\ requests[r].stage = "served"
    /\ page' = [page EXCEPT !.list = requests[r].data, !.loading = FALSE,
                   !.pin = IF @ = Nothing THEN @ ELSE PinWithHistory(@, requests[r].data)]
    /\ requests' = Ended(r)
    /\ UNCHANGED server

FailLoad(r) ==
    /\ Under(r, "load")
    /\ page' = [page EXCEPT !.error = TRUE, !.loading = FALSE]
    /\ requests' = Ended(r)
    /\ UNCHANGED server

-----------------------------------------------------------------------------
(* Decisions.                                                              *)

\* The buttons of ProposalRow.
Decide(id, decision) ==
    /\ \E known \in Visible :
          /\ known.id = id /\ known.status = "pending" /\ id \notin page.busy
          /\ requests' = Append(requests,
                [kind |-> "decide", stage |-> "sent", reviewed |-> known, decision |-> decision,
                 filter |-> page.filter, ok |-> FALSE])
    /\ Len(requests) + 1 < MaxRequests     \* there will be a load
    /\ page' = [page EXCEPT !.busy = {id}]
    /\ UNCHANGED server

\* proposalHistoryStatusAfterDecision
FilterAfter(filter, decision) == IF filter = "pending" THEN decision ELSE filter

\* The filter is that of when it was decided, whatever was opened since.
Decided(r) ==
    /\ Under(r, "decide") /\ requests[r].stage = "served" /\ requests[r].ok
    /\ LET filter == FilterAfter(requests[r].filter, requests[r].decision)
           pinned == [page EXCEPT !.busy = {},
                         !.pin = [requests[r].reviewed EXCEPT !.status = requests[r].decision,
                                                              !.execution = 0]]
       IN \/ /\ filter = requests[r].filter
             /\ page' = Begun(pinned) /\ requests' = Append(Ended(r), Load(filter, FALSE))
          \/ /\ filter \notin {requests[r].filter, page.filter}
             /\ page' = Begun([pinned EXCEPT !.filter = filter])
             /\ requests' = Refilter(Ended(r), filter)
          \/ /\ filter # requests[r].filter /\ filter = page.filter
             /\ page' = pinned /\ requests' = Ended(r)
    /\ UNCHANGED server

\* Refused, or not arrived, or the answer is lost; nothing is loaded.
NotDecided(r) ==
    /\ Under(r, "decide")
    /\ page' = [page EXCEPT !.busy = {}]
    /\ requests' = Ended(r)
    /\ UNCHANGED server

Next ==
    \/ Retry
    \/ \E id \in Proposals : Elsewhere(id)
    \/ \E filter \in Filters : OpenFilter(filter)
    \/ \E id \in Proposals, decision \in {"approved", "rejected"} : Decide(id, decision)
    \/ \E r \in DOMAIN requests :
          Serve(r) \/ TakeLoad(r) \/ FailLoad(r) \/ Decided(r) \/ NotDecided(r)

Spec == Init /\ [][Next]_approvalsVars

-----------------------------------------------------------------------------
\* A receipt is of what was recorded: the owner's decision stands and its execution is at
\* least that far; and while the filter lets it, the page shows the proposal once, as decided,
\* whatever list came last.
ReceiptIsTrue ==
    page.pin # Nothing =>
       LET shown == {known \in Visible : known.id = page.pin.id}
       IN /\ server[page.pin.id].status = page.pin.status
          /\ page.pin.execution <= server[page.pin.id].execution
          /\ Matches(page.pin, page.filter) =>
                /\ Cardinality(shown) = 1
                /\ \A known \in shown : /\ known.status = page.pin.status
                                        /\ known.execution >= page.pin.execution

\* While it is pinned, a receipt never goes back, in whatever order the lists come.
ReceiptNeverBack ==
    page.pin # Nothing /\ page'.pin.id = page.pin.id =>
       page'.pin.execution >= page.pin.execution

=============================================================================
