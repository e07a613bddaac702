-------------------------------- MODULE IcsFeed --------------------------------
(* Reading an event of a feed (modules/events/                             *)
(* ics-event-discovery.adapter.ts): a master that happens once or recurs,  *)
(* exceptions that move or cancel single occurrences, and excluded dates.  *)
(* The loop over the occurrences stops at the end of a window, so that     *)
(* events without an end can be read, but not before it has come by every  *)
(* occurrence that an exception or an excluded date names.                 *)
EXTENDS Integers, FiniteSets

CONSTANTS
    Feeds,     \* the groups of components with one uid that a feed may hold
    Now,       \* the time of the run
    ReadAhead,    \* WINDOW_MS
    MaxWork    \* MAX_OCCURRENCES

VARIABLES
    feed,      \* the group: its masters, and the exceptions and exdates of the first
    step,      \* number of the next occurrence, or how the reading has ended
    seen,      \* occurrences that the loop has come by
    instances  \* the events put out: [id, start, end, status]

feedVars == <<feed, step, seen, instances>>

Failed == -1
Done == -2
WindowEnd == Now + ReadAhead

\* A master has start, length, interval (0 if it does not recur), count (0 if endless) and
\* cancelled.  An exception has id, moved (or it keeps its place), start, length, cancelled.
Master == CHOOSE m \in feed.masters : TRUE
Named == {x.id : x \in feed.exceptions}

TypeOK ==
    /\ feed \in Feeds
    /\ step \in Nat \cup {Failed, Done}
    /\ seen \in SUBSET Nat
    /\ instances \in SUBSET [id : Nat, start : Nat, end : Nat,
                             status : {"scheduled", "cancelled"}]

Overlaps(start, end) == start < WindowEnd /\ end > Now

\* What is checked before the loop.
WellFormed ==
    /\ Cardinality(feed.masters) = 1
    /\ Master.length > 0
    /\ Cardinality(Named) = Cardinality(feed.exceptions)
    /\ \A x \in feed.exceptions : x.moved \/ x.cancelled
    /\ Master.interval = 0 => feed.exceptions = {} /\ feed.exdates = {}
    /\ feed.exdates \cap Named = {}

Status(cancelled) == IF cancelled THEN "cancelled" ELSE "scheduled"

\* normalizeInstance: the id of an instance is where the rule put it, wherever it is moved.
NormalizeInstance(id, start, length, cancelled) ==
    [id |-> id, start |-> start, end |-> start + length, status |-> Status(cancelled)]

Init ==
    /\ feed \in Feeds
    /\ step = 0 /\ seen = {} /\ instances = {}

Reject ==
    /\ step = 0 /\ ~WellFormed
    /\ step' = Failed
    /\ UNCHANGED <<feed, seen, instances>>

ReadOnce ==
    /\ step = 0 /\ WellFormed /\ Master.interval = 0
    /\ step' = Done
    /\ instances' = IF Overlaps(Master.start, Master.start + Master.length)
                    THEN {NormalizeInstance(Master.start, Master.start, Master.length,
                                            Master.cancelled)}
                    ELSE {}
    /\ UNCHANGED <<feed, seen>>

Occurrence(n) == Master.start + n * Master.interval
Ends(n) == Master.count > 0 /\ n >= Master.count

\* The work allowed for excluded dates and occurrences together is done.
Exhausted(n) == n + 1 + Cardinality(feed.exdates) > MaxWork

\* Mutant: stops at the end of the window.
PastWindow(at) == at >= WindowEnd

\* latestRelevantAt: nothing that is named is still to come.
Enough(at) == at >= WindowEnd /\ \A id \in Named \cup feed.exdates : at > id

Iterate ==
    /\ step >= 0 /\ WellFormed /\ Master.interval > 0
    /\ ~Ends(step) /\ ~Exhausted(step) /\ ~Enough(Occurrence(step))
    /\ LET at == Occurrence(step)
           exceptions == {x \in feed.exceptions : x.id = at}
           cancelled == \/ Master.cancelled \/ at \in feed.exdates
                        \/ \E x \in exceptions : x.cancelled
           start == IF \E x \in exceptions : x.moved
                    THEN (CHOOSE x \in exceptions : TRUE).start ELSE at
           length == IF \E x \in exceptions : x.moved
                     THEN (CHOOSE x \in exceptions : TRUE).length ELSE Master.length
       IN /\ instances' = IF Overlaps(start, start + length)
                          THEN instances \cup {NormalizeInstance(at, start, length, cancelled)}
                          ELSE instances
          /\ seen' = seen \cup {at}
          /\ step' = IF length <= 0 THEN Failed ELSE step + 1
    /\ UNCHANGED feed

\* After the loop: every named occurrence must have been one.
Finish ==
    /\ step >= 0 /\ WellFormed /\ Master.interval > 0
    /\ Ends(step) \/ Exhausted(step) \/ Enough(Occurrence(step))
    /\ step' = IF (Ends(step) \/ ~Exhausted(step)) /\ Named \cup feed.exdates \subseteq seen
               THEN Done ELSE Failed
    /\ UNCHANGED <<feed, seen, instances>>

Next == Reject \/ ReadOnce \/ Iterate \/ Finish

-----------------------------------------------------------------------------
\* The occurrences of the rule, up to any that matter.
Occurrences ==
    IF Master.interval = 0 THEN {Master.start}
    ELSE {Occurrence(n) : n \in {n \in 0 .. MaxWork : ~Ends(n)}}

\* A feed that is read to the end yields one instance of each occurrence that is in the
\* window where the feed says it takes place, wherever its rule had put it, and yields it
\* as cancelled when any of the three ways to cancel it says so.  A feed is rejected only
\* for what is wrong in it, or for naming an occurrence too far off to come by.
ReadsTheWindow ==
    /\ step = Done =>
          LET Moved(id) == {x \in feed.exceptions : x.id = id /\ x.moved}
              Place(id) == {<<x.start, x.start + x.length>> : x \in Moved(id)} \cup
                           (IF Moved(id) = {} THEN {<<id, id + Master.length>>} ELSE {})
              CalledOff(id) == \/ Master.cancelled \/ id \in feed.exdates
                         \/ \E x \in feed.exceptions : x.id = id /\ x.cancelled
          IN instances =
                UNION {{[id |-> id, start |-> p[1], end |-> p[2], status |-> Status(CalledOff(id))] :
                            p \in {p \in Place(id) : p[1] < WindowEnd /\ p[2] > Now}} :
                       id \in Occurrences}
    /\ step = Failed =>
          \/ ~WellFormed
          \/ \E x \in feed.exceptions : x.moved /\ x.length <= 0
          \/ ~(Named \cup feed.exdates \subseteq Occurrences)
          \/ LET last == Occurrence(MaxWork - 1 - Cardinality(feed.exdates))
             IN last < WindowEnd \/ \E id \in Named \cup feed.exdates : last <= id

=============================================================================
