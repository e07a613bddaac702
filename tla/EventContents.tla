---------------------------- MODULE EventContents ----------------------------
(* What the mirror keeps of an event (calendar/calendar-sync.service.ts):  *)
(* the items of all pages of a run are normalised, the last of an event    *)
(* counts, and rows are made anew by a full run and changed by the others. *)
(* A cancellation may say no more than that.  Who runs, and whether it may *)
(* commit, is in CalendarSync; here one run at a time is made or given up. *)
EXTENDS Integers, FiniteSets

CONSTANTS
    Occurrences,    \* ids of the provider's events
    Forms,          \* what the provider says of an event
    Zones,          \* by name: the offset before and after the instant `at`
    SourceZone,     \* the zone of the calendar
    Nil,            \* no value
    DayLength,      \* hours of a day
    Attempts        \* how often the midnight of a zone is corrected

VARIABLES
    theirs,         \* the events at the provider
    moved,          \* those that changed since the token that the mirror has
    kept,           \* the CalendarEvent rows
    synced,         \* the source has a sync token
    gathering       \* the run: what it lists, has listed, and what changed since it began

contentVars == <<theirs, moved, kept, synced, gathering>>

Unlisted == [status |-> Nil]
NoRun == [full |-> FALSE, due |-> {}, items |-> [e \in Occurrences |-> Unlisted], since |-> {}]
Running == gathering # Nil
Existing == {e \in Occurrences : theirs[e] # Unlisted}

TypeOK ==
    /\ theirs \in [Occurrences -> Forms \cup {Unlisted}]
    /\ moved \subseteq Existing
    /\ \A e \in Occurrences : kept[e] # Unlisted => theirs[e] # Unlisted
    /\ synced \in BOOLEAN
    /\ Running => gathering.due \cup gathering.since \subseteq Existing

Init ==
    /\ theirs = [e \in Occurrences |-> Unlisted]
    /\ moved = {}
    /\ kept = [e \in Occurrences |-> Unlisted]
    /\ synced = FALSE
    /\ gathering = Nil

-----------------------------------------------------------------------------
(* The provider, which lists an event again when it changes meanwhile.     *)

Change(e, form) ==
    /\ theirs[e] # form
    /\ theirs' = [theirs EXCEPT ![e] = form]
    /\ moved' = moved \cup {e}
    /\ gathering' = IF Running THEN [gathering EXCEPT !.since = @ \cup {e}] ELSE gathering
    /\ UNCHANGED <<kept, synced>>

-----------------------------------------------------------------------------
(* normalizeProviderEvent                                                  *)

Offset(zone, instant) == IF instant < zone.at THEN zone.before ELSE zone.after
Local(zone, instant) == instant + Offset(zone, instant)

\* Mutant: by the offset of midnight in UTC.
FirstGuess(zone, date) == DayLength * date - Offset(zone, DayLength * date)

\* What a clock of the zone is wrong by is taken off, until it shows midnight or time is up;
\* midnight may be missing on a day when clocks are put forward.
ZonedMidnight(zone, date) ==
    LET wanted == DayLength * date
        candidate[n \in 0 .. Attempts] ==
            IF n = 0 THEN wanted
            ELSE candidate[n - 1] - (Local(zone, candidate[n - 1]) - wanted)
        result == candidate[Attempts]
    IN IF Local(zone, result) = wanted THEN result ELSE Nil

ZoneOf(form) == Zones[IF form.zone = Nil THEN SourceZone ELSE form.zone]
Cancelled(form) == form.status = "cancelled"

Row(form, start, end) ==
    [status |-> form.status, startAt |-> start, endAt |-> end, series |-> form.series,
     details |-> IF Cancelled(form) /\ start = Nil /\ form.text = Nil THEN Nil
                 ELSE [text |-> form.text]]

Tombstone == [status |-> "cancelled", startAt |-> Nil, endAt |-> Nil, series |-> Nil,
              details |-> Nil]

\* Unlisted: such an item is passed over.
Normalized(form) ==
    LET start == ZonedMidnight(ZoneOf(form), form.start)
        end == ZonedMidnight(ZoneOf(form), form.end)
        otherwise == IF Cancelled(form) THEN Tombstone ELSE Unlisted
    IN CASE form.shape = "none" -> IF Cancelled(form) THEN Row(form, Nil, Nil) ELSE Unlisted
         [] form.shape # "none" /\ form.end <= form.start -> otherwise
         [] form.shape = "timed" /\ form.end > form.start -> Row(form, form.start, form.end)
         [] OTHER -> IF Nil \in {start, end} THEN Unlisted ELSE Row(form, start, end)

-----------------------------------------------------------------------------
(* runNextSource and commitEvents                                          *)

\* Without a token, or when a full run is due, all is listed.
Begin(full) ==
    /\ ~Running
    /\ synced \/ full
    /\ gathering' = [NoRun EXCEPT !.full = full, !.due = IF full THEN Existing ELSE moved]
    /\ UNCHANGED <<theirs, moved, kept, synced>>

\* normalizedById.set
LastItem(old, item) == IF item = Unlisted THEN old ELSE item

\* One item of a page, of the moment when the page is asked for.
List(e) ==
    /\ Running /\ e \in gathering.due \cup gathering.since
    /\ gathering' = [gathering EXCEPT !.due = @ \ {e},
                        !.items[e] = LastItem(@, Normalized(theirs[e]))]
    /\ UNCHANGED <<theirs, moved, kept, synced>>

\* Mutant: what a cancellation says of times is stored as it is.
Overwritten(old, new) == new

\* updateEvent: a cancellation without a time leaves the row as it is otherwise.
Updated(old, new) ==
    IF Cancelled(new) /\ new.startAt = Nil
    THEN [old EXCEPT !.status = "cancelled", !.series = IF new.series = Nil THEN @ ELSE new.series]
    ELSE new

Commit ==
    /\ Running /\ gathering.due = {}
    /\ kept' = [e \in Occurrences |->
                  LET old == IF gathering.full THEN Unlisted ELSE kept[e]
                      new == gathering.items[e]
                  IN IF new = Unlisted THEN old ELSE IF old = Unlisted THEN new ELSE Updated(old, new)]
    /\ synced' = TRUE
    /\ moved' = gathering.since
    /\ gathering' = Nil
    /\ UNCHANGED theirs

\* An error, or the claim was lost.
GiveUp ==
    /\ Running
    /\ gathering' = Nil
    /\ UNCHANGED <<theirs, moved, kept, synced>>

\* failCloseGone: the token is too old, and so are the rows.
FailCloseGone ==
    /\ Running
    /\ gathering' = Nil
    /\ kept' = [e \in Occurrences |-> Unlisted]
    /\ synced' = FALSE
    /\ UNCHANGED <<theirs, moved>>

Next ==
    \/ \E e \in Occurrences, form \in Forms : Change(e, form)
    \/ \E full \in BOOLEAN : Begin(full)
    \/ \E e \in Occurrences : List(e)
    \/ Commit \/ GiveUp \/ FailCloseGone

Spec == Init /\ [][Next]_contentVars

-----------------------------------------------------------------------------
\* The instants at which a clock of the zone shows the midnight of the date.
Midnights(zone, date) ==
    LET wanted == DayLength * date
    IN {t \in {wanted - zone.before, wanted - zone.after} : Local(zone, t) = wanted}

\* The instants that a form can mean by its start, or by its end.
Meant(form, at) ==
    IF form.shape = "timed" THEN {at} ELSE Midnights(ZoneOf(form), at)

\* Once listed, an event that takes place is kept with the times, text and series it has at
\* the provider now, on whatever way it came to that: full and other runs, pages that the
\* change fell between, cancelled and taken up again.  An event that was cancelled is
\* never kept as if it took place.  Of what has no end after its start, or no midnight,
\* nothing is said.
KeptAsTheirs ==
    synced => \A e \in Existing \ moved :
       LET form == theirs[e]
           starts == IF form.shape = "none" THEN {} ELSE Meant(form, form.start)
           ends == IF form.shape = "none" \/ form.end <= form.start THEN {} ELSE Meant(form, form.end)
       IN IF Cancelled(form)
          THEN form.shape # "allDay" \/ (starts # {} /\ ends # {}) =>
                  kept[e] # Unlisted /\ kept[e].status = "cancelled"
          ELSE starts # {} /\ ends # {} =>
                  /\ kept[e] # Unlisted /\ kept[e].status = form.status
                  /\ kept[e].startAt \in starts /\ kept[e].endAt \in ends
                  /\ kept[e].series = form.series /\ kept[e].details = [text |-> form.text]

\* A cancellation that says nothing else takes away no time and no text of a row, but by a
\* full run.
CancelledKeepsContents ==
    \A e \in Occurrences :
       /\ kept[e] # Unlisted /\ kept'[e] # Unlisted /\ kept'[e] # kept[e]
       /\ ~gathering.full /\ Normalized(theirs[e]) = Tombstone /\ e \notin gathering.since
       => kept'[e] = [kept[e] EXCEPT !.status = "cancelled"]

=============================================================================
