---------------------------- MODULE DiscoverPage ----------------------------
(* The page of the catalogue of events (discover-workspace.tsx and         *)
(* discover-view.ts): lists page by page, the details of a listing and its *)
(* follow.  Only the answer of the latest list and of the latest detail is *)
(* taken.  What the server does is that of EventCatalog, in short.         *)
EXTENDS Naturals, FiniteSets, Sequences

CONSTANTS
    Slugs,          \* slugs of listings, as numbers in the order of the catalogue
    Narrow,         \* those that the filters of the form let through
    Limit,          \* limit of a page
    MaxRequests     \* bound on requests of the page

VARIABLES
    server,         \* the follow of each listing
    page,           \* query, list, detail and what is busy
    requests        \* all of them, in the order they were sent

discoverVars == <<server, page, requests>>

\* A listing as it is shown.
Item(slug, follow) == [slug |-> slug, follow |-> follow]
NoItem == Item(0, "none")
Queries == [mode : {"all", "following"}, narrow : BOOLEAN]
Matching(query) ==
    {slug \in Slugs : /\ query.narrow => slug \in Narrow
                      /\ query.mode = "following" => server[slug] # "none"}

TypeOK ==
    /\ server \in [Slugs -> {"none", "active", "paused"}]
    /\ page.query \in Queries /\ page.status \in {"loading", "ready", "error"}
    /\ page.list \in DOMAIN requests /\ page.detail \in {0} \cup DOMAIN requests
    /\ page.busy \subseteq Slugs /\ Cardinality(page.busy) <= 1
    /\ page.selected = NoItem \/ page.detail # 0

Load(query, cursor) ==
    [kind |-> "list", stage |-> "sent", query |-> query, cursor |-> cursor, data |-> 0]

Init ==
    /\ server \in [Slugs -> {"none", "active"}]
    /\ LET query == [mode |-> "all", narrow |-> FALSE]
       IN /\ page = [query |-> query, status |-> "loading", items |-> << >>, next |-> 0,
                     list |-> 1, detail |-> 0, selected |-> NoItem, loading |-> FALSE,
                     busy |-> {}]
          /\ requests = <<Load(query, 0)>>

Room == Len(requests) < MaxRequests
Send(request) == requests' = Append(requests, request)
Latest == Len(requests) + 1

-----------------------------------------------------------------------------
(* The server.                                                             *)

\* A set of slugs in their order.
InOrder(S) ==
    {list \in [1 .. Cardinality(S) -> S] :
        /\ \A slug \in S : \E i \in DOMAIN list : list[i] = slug
        /\ \A i, j \in DOMAIN list : i < j => list[i] < list[j]}

\* A page of search, and the cursor of the next one or 0.
Listed(query, cursor) ==
    LET rest == {slug \in Matching(query) : slug > cursor}
        shown == {slug \in rest : Cardinality({other \in rest : other < slug}) < Limit}
    IN {[items |-> [i \in DOMAIN list |-> Item(list[i], server[list[i]])],
         next |-> IF rest = shown THEN 0 ELSE list[Len(list)]] : list \in InOrder(shown)}

Answer(r, data) == requests' = [requests EXCEPT ![r].stage = "served", ![r].data = data]

Serve(r) ==
    /\ requests[r].stage = "sent"
    /\ \/ /\ requests[r].kind = "list" /\ UNCHANGED server
          /\ \E data \in Listed(requests[r].query, requests[r].cursor) : Answer(r, data)
       \/ /\ requests[r].kind = "detail" /\ UNCHANGED server
          /\ Answer(r, Item(requests[r].slug, server[requests[r].slug]))
       \/ /\ requests[r].kind = "follow"
          /\ server' = [server EXCEPT ![requests[r].slug] = requests[r].status]
          /\ Answer(r, Item(requests[r].slug, requests[r].status))
    /\ UNCHANGED page

-----------------------------------------------------------------------------
(* Lists.                                                                  *)

\* Another mode, or the form applied or cleared: the effect loads from the beginning.
Ask(query) ==
    /\ query # page.query /\ Room
    /\ page' = [page EXCEPT !.query = query, !.status = "loading", !.list = Latest]
    /\ Send(Load(query, 0))
    /\ UNCHANGED server

Retry ==
    /\ page.status = "error" /\ Room
    /\ page' = [page EXCEPT !.status = "loading", !.list = Latest]
    /\ Send(Load(page.query, 0))
    /\ UNCHANGED server

\* The list stays as it is meanwhile.
LoadMore ==
    /\ page.status = "ready" /\ page.next # 0 /\ Room
    /\ page' = [page EXCEPT !.list = Latest]
    /\ Send(Load(page.query, page.next))
    /\ UNCHANGED server

\* What is at some places of a sequence, in its order.
At(s, places) ==
    [n \in 1 .. Cardinality(places) |->
        s[CHOOSE i \in places : Cardinality({j \in places : j < i}) = n - 1]]

\* mergeCatalogPages
Merge(items, incoming) ==
    items \o At(incoming, {n \in DOMAIN incoming :
                              \A i \in DOMAIN items : items[i].slug # incoming[n].slug})

Ended(r) ==
    [requests EXCEPT ![r] = [kind |-> @.kind, stage |-> "over",
                             slug |-> IF @.kind = "list" THEN 0 ELSE @.slug]]

Takes(latest, r) == latest = r

TakeList(r) ==
    /\ requests[r].kind = "list" /\ requests[r].stage = "served"
    /\ page' = IF ~Takes(page.list, r) THEN page
               ELSE [page EXCEPT !.status = "ready", !.next = requests[r].data.next,
                        !.items = IF requests[r].cursor = 0 THEN requests[r].data.items
                                  ELSE Merge(@, requests[r].data.items)]
    /\ requests' = Ended(r)
    /\ UNCHANGED server

FailList(r) ==
    /\ requests[r].kind = "list" /\ requests[r].stage # "over"
    /\ page' = IF Takes(page.list, r) THEN [page EXCEPT !.status = "error"] ELSE page
    /\ requests' = Ended(r)
    /\ UNCHANGED server

-----------------------------------------------------------------------------
(* Details and follows.                                                    *)

Shown == {page.items[i] : i \in {i \in DOMAIN page.items : page.status = "ready"}}

\* From the list, over which the dialog lies, or again from the dialog.
OpenDetail(item) ==
    /\ Room /\ item \in (IF page.selected = NoItem THEN Shown ELSE {page.selected})
    /\ page' = [page EXCEPT !.selected = item, !.loading = TRUE, !.detail = Latest]
    /\ Send([kind |-> "detail", stage |-> "sent", slug |-> item.slug, data |-> 0])
    /\ UNCHANGED server

CloseDetail ==
    /\ page.selected # NoItem
    /\ page' = [page EXCEPT !.selected = NoItem, !.loading = FALSE, !.detail = 0]
    /\ UNCHANGED <<server, requests>>

TakeDetail(r) ==
    /\ requests[r].kind = "detail" /\ requests[r].stage = "served"
    /\ page' = IF Takes(page.detail, r)
               THEN [page EXCEPT !.selected = requests[r].data, !.loading = FALSE] ELSE page
    /\ requests' = Ended(r)
    /\ UNCHANGED server

FailDetail(r) ==
    /\ requests[r].kind = "detail" /\ requests[r].stage # "over"
    /\ page' = IF Takes(page.detail, r) THEN [page EXCEPT !.loading = FALSE] ELSE page
    /\ requests' = Ended(r)
    /\ UNCHANGED server

\* The other of the two statuses, as the page knows the follow.
UpdateFollow(item) ==
    /\ item \in (IF page.selected = NoItem THEN Shown ELSE {page.selected})
    /\ item.slug \notin page.busy /\ Room
    /\ page' = [page EXCEPT !.busy = {item.slug}]
    /\ Send([kind |-> "follow", stage |-> "sent", slug |-> item.slug, data |-> 0,
             status |-> IF item.follow = "active" THEN "paused" ELSE "active"])
    /\ UNCHANGED server

\* mergeCatalogFollow
MergeFollow(item, told) == IF item.slug = told.slug THEN told ELSE item

TakeFollow(r) ==
    /\ requests[r].kind = "follow" /\ requests[r].stage = "served"
    /\ page' = [page EXCEPT !.busy = {}, !.selected = MergeFollow(@, requests[r].data),
                   !.items = [i \in DOMAIN @ |-> MergeFollow(@[i], requests[r].data)]]
    /\ requests' = Ended(r)
    /\ UNCHANGED server

FailFollow(r) ==
    /\ requests[r].kind = "follow" /\ requests[r].stage # "over"
    /\ page' = [page EXCEPT !.busy = {}]
    /\ requests' = Ended(r)
    /\ UNCHANGED server

Next ==
    \/ Retry \/ LoadMore \/ CloseDetail
    \/ \E query \in Queries : Ask(query)
    \/ \E slug \in Slugs, follow \in {"none", "active", "paused"} :
          OpenDetail(Item(slug, follow)) \/ UpdateFollow(Item(slug, follow))
    \/ \E r \in DOMAIN requests :
          \/ Serve(r) \/ TakeList(r) \/ FailList(r) \/ TakeDetail(r) \/ FailDetail(r)
          \/ TakeFollow(r) \/ FailFollow(r)

Spec == Init /\ [][Next]_discoverVars

-----------------------------------------------------------------------------
\* What is shown is what was asked for last, from the beginning to the cursor and once: a
\* page of an earlier query is never mixed in.  (Who follows one meanwhile sees it later.)
ListIsAsAsked ==
    page.status = "ready" =>
       LET slugs == [i \in DOMAIN page.items |-> page.items[i].slug]
           there == {slug \in Matching(page.query) : page.next = 0 \/ slug <= page.next}
       IN /\ \A i \in DOMAIN slugs : slugs[i] \in there
          /\ \A i, j \in DOMAIN slugs : i < j => slugs[i] < slugs[j]
          /\ page.query.mode = "all" => \A slug \in there : \E i \in DOMAIN slugs : slugs[i] = slug

\* The dialog is of the listing that was opened last, and none is open once it was closed.
DetailIsSelected ==
    page.selected.slug = IF page.detail = 0 THEN 0 ELSE requests[page.detail].slug

=============================================================================
