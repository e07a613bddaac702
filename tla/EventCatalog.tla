----------------------------- MODULE EventCatalog -----------------------------
(* The catalogue of events to follow (modules/events/                      *)
(* event-catalog.service.ts).  The owner reads it page by page, by a       *)
(* cursor, while listings come and go and follows change.                  *)
EXTENDS Integers, FiniteSets

CONSTANTS
    Slugs,     \* slugs of listings, as numbers in the order of the database
    PageSize   \* limit of a page

VARIABLES
    listed,    \* the active EventCatalogListing rows
    followed,  \* the EventCatalogFollow rows: active, paused or none
    page       \* the walk of a reader: cursor, what was shown, and what has been there all along

catalogVars == <<listed, followed, page>>

TypeOK ==
    /\ listed \in SUBSET Slugs
    /\ followed \in [Slugs -> {"none", "active", "paused"}]
    /\ page \in [filter : {"any", "followed", "unfollowed"}, cursor : Slugs \cup {0}, more : BOOLEAN,
                 shown : SUBSET Slugs, twice : SUBSET Slugs, lasting : SUBSET Slugs]

\* What a reader of some rows and follows is to see.
Matching(filter, rows, follows) ==
    {s \in rows : /\ filter = "followed" => follows[s] # "none"
                  /\ filter = "unfollowed" => follows[s] = "none"}

Walk(filter) == [filter |-> filter, cursor |-> 0, more |-> TRUE, shown |-> {}, twice |-> {},
                 lasting |-> Matching(filter, listed, followed)]

Init ==
    /\ listed \in SUBSET Slugs
    /\ followed = [s \in Slugs |-> "none"]
    /\ page = Walk("any")

\* History: what has matched since the walk began.
Lasting(rows, follows) == [page EXCEPT !.lasting = @ \cap Matching(page.filter, rows, follows)]

\* The catalogue is seeded again, with another release of the API.
Reseed ==
    /\ \E s \in Slugs : listed' \in {listed \cup {s}, listed \ {s}}
    /\ UNCHANGED followed /\ page' = Lasting(listed', followed')

\* putFollow and patchFollow, of what is listed.
Follow(s, status) ==
    /\ s \in listed /\ status = "paused" => followed[s] # "none"
    /\ followed' = [followed EXCEPT ![s] = status]
    /\ UNCHANGED listed /\ page' = Lasting(listed', followed')

StartWalk(filter) ==
    /\ page' = Walk(filter)
    /\ UNCHANGED <<listed, followed>>

\* Mutant: keeps the row that told that there is more.
Asked(cursor, s) == cursor <= s

\* The condition on the slugs of a page.
After(cursor, s) == cursor < s

\* search: one row more than the page tells whether there is another.
NextPage ==
    /\ page.more
    /\ LET rest == {s \in Matching(page.filter, listed, followed) : After(page.cursor, s)}
           hasMore == Cardinality(rest) > PageSize
           items == {s \in rest : Cardinality({r \in rest : r < s}) < PageSize}
       IN page' = [page EXCEPT !.shown = @ \cup items, !.twice = @ \cup (items \cap page.shown),
                       !.more = hasMore,
                       !.cursor = IF hasMore THEN CHOOSE s \in items : \A r \in items : r <= s
                                  ELSE @]
    /\ UNCHANGED <<listed, followed>>

Next ==
    \/ Reseed \/ NextPage
    \/ \E s \in Slugs, status \in {"active", "paused"} : Follow(s, status)
    \/ \E filter \in {"any", "followed", "unfollowed"} : StartWalk(filter)

-----------------------------------------------------------------------------
\* Who reads to the last page has seen once everything that was there all the while.
PagesCoverListing == page.twice = {} /\ (~page.more => page.lasting \subseteq page.shown)

=============================================================================
