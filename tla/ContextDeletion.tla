---------------------------- MODULE ContextDeletion ----------------------------
(* Deleting the personal context of an owner (modules/personal-data/       *)
(* personal-context-deletion.service.ts): calendar, location and events,   *)
(* under an idempotency key, in one Serializable transaction that holds    *)
(* the owner's row, with an audit that tells how many rows went.  Requests *)
(* repeat and race; synchronisations, ingests, polls, briefs, rebuilds of  *)
(* stays and consents under way write rows of what they read before; the   *)
(* owner sets up again.                                                    *)
(*                                                                         *)
(* Each table has at most one row of the owner here, known by the number   *)
(* of the setup it goes back to.  Briefs and feedback are those of events. *)
EXTENDS Integers, FiniteSets

CONSTANTS
    DeletionKeys,    \* idempotency keys
    DeletionCalls,   \* requests at once
    Contributors,    \* what others have under way
    RetryLimit,      \* SERIALIZATION_RETRY_LIMIT
    MaxSetups        \* bound on what the owner sets up

VARIABLES
    row,        \* the row of each table: the number of its setup, Nil if there is none
    audit,      \* the PersonalDataDeletionAudit of each key
    deletion,   \* local state of each request
    contributor,\* local state of each: the table to write, the row it has read
    setups,     \* how often the owner set something up
    removed,    \* history: the rows each key removed
    told,       \* history: the answers to each key
    before,     \* history: what had been set up at the last deletion
    late        \* history: what has been written of that since, with no row to hold it

deletionVars == <<row, audit, deletion, contributor, setups, removed, told, before, late>>

Nil == 0
NoTable == "none"
CalendarTables == {"CalendarEvent", "CityStay", "CalendarWatch", "CalendarSource",
                   "GoogleCalendarConnection", "GoogleOAuthAttempt"}
LocationTables == {"LocationSample", "DerivedVisit", "LocationAlias", "LocationDevice"}
EventTables == {"BriefFeedback", "BriefItem", "DiscoveredEvent", "EventSource", "EventPreference"}
Tables == CalendarTables \cup LocationTables \cup EventTables

(* The row a transaction reads to write another.  Most are a parent, which *)
(* a foreign key holds; an item of a brief is written in the Serializable  *)
(* transaction that reads the events.                                      *)
ReadOf == [CalendarWatch |-> "GoogleCalendarConnection", CalendarSource |-> "GoogleCalendarConnection",
           CalendarEvent |-> "CalendarSource", CityStay |-> "CalendarEvent",
           GoogleCalendarConnection |-> "GoogleOAuthAttempt",
           LocationSample |-> "LocationDevice", DerivedVisit |-> "LocationDevice",
           DiscoveredEvent |-> "EventSource", BriefItem |-> "DiscoveredEvent",
           BriefFeedback |-> "BriefItem"]
OwnersOwn == Tables \ DOMAIN ReadOf

(* A stay belongs to the owner alone, and so does a connection, whose      *)
(* consent was used up before: nothing they were read from must be there.  *)
Unheld == {"CityStay", "GoogleCalendarConnection"}

NoAudit == [calendar |-> Nil, location |-> Nil, event |-> Nil, done |-> FALSE]
Unasked == [stage |-> "idle", key |-> Nil, attempt |-> 0]

Init ==
    /\ row = [t \in Tables |-> Nil]
    /\ audit = [k \in DeletionKeys |-> NoAudit]
    /\ deletion = [c \in DeletionCalls |-> Unasked]
    /\ contributor = [w \in Contributors |-> [table |-> NoTable, under |-> Nil]]
    /\ setups = 0
    /\ removed = [k \in DeletionKeys |-> 0]
    /\ told = [k \in DeletionKeys |-> {}]
    /\ before = 0
    /\ late = {}

(* Others.                                                                 *)
SetUp(t) ==
    /\ row[t] = Nil
    /\ setups < MaxSetups
    /\ setups' = setups + 1
    /\ row' = [row EXCEPT ![t] = setups + 1]
    /\ UNCHANGED <<audit, deletion, contributor, removed, told, before, late>>

BeginContribution(w, t) ==
    /\ contributor[w].table = NoTable
    /\ row[ReadOf[t]] # Nil
    /\ contributor' = [contributor EXCEPT ![w] = [table |-> t, under |-> row[ReadOf[t]]]]
    /\ UNCHANGED <<row, audit, deletion, setups, removed, told, before, late>>

EndContribution(w) ==
    LET t == contributor[w].table
        n == contributor[w].under
    IN  /\ t # NoTable
        /\ row' = IF t \in Unheld \/ row[ReadOf[t]] = n THEN [row EXCEPT ![t] = n] ELSE row
        /\ late' = IF t \in Unheld /\ n <= before THEN late \cup {<<t, n>>} ELSE late
        /\ contributor' = [contributor EXCEPT ![w] = [table |-> NoTable, under |-> Nil]]
        /\ UNCHANGED <<audit, deletion, setups, removed, told, before>>

(* deletePersonalContext.                                                  *)
Rows(tables) == Cardinality({t \in tables : row[t] # Nil})

Answer(c, k, a) ==
    /\ told' = [told EXCEPT ![k] = @ \cup {a}]
    /\ deletion' = [deletion EXCEPT ![c] = Unasked]

(* The answer is on record, or the watches to be stopped are prepared. *)
Ask(c, k) ==
    /\ deletion[c].stage = "idle"
    /\ IF audit[k].done
       THEN Answer(c, k, audit[k])
       ELSE /\ deletion' = [deletion EXCEPT ![c] = [stage |-> "delete", key |-> k, attempt |-> 0]]
            /\ UNCHANGED told
    /\ UNCHANGED <<row, audit, contributor, setups, removed, before, late>>

AllButPreferences == Tables \ {"EventPreference"}
DeletedTables == CalendarTables \cup LocationTables \cup EventTables

deleteInTransaction(c) ==
    LET k == deletion[c].key
        new == [calendar |-> Rows(CalendarTables \cap DeletedTables),
                location |-> Rows(LocationTables \cap DeletedTables),
                event |-> Rows(EventTables \cap DeletedTables), done |-> TRUE]
    IN  /\ deletion[c].stage = "delete"
        /\ IF audit[k].done
           THEN /\ Answer(c, k, audit[k])
                /\ UNCHANGED <<row, audit, removed, before, late>>
           ELSE /\ row' = [t \in Tables |-> IF t \in DeletedTables THEN Nil ELSE row[t]]
                /\ before' = setups /\ late' = {}
                /\ audit' = [audit EXCEPT ![k] = new]
                /\ removed' = [removed EXCEPT ![k] = @ + Rows(Tables) - Rows(Tables \ DeletedTables)]
                /\ deletion' = [deletion EXCEPT ![c].stage = "stop"]
                /\ UNCHANGED told
        /\ UNCHANGED <<contributor, setups>>

(* The winner stops the watches, or gives that up, and answers. *)
StopPrepared(c) ==
    /\ deletion[c].stage = "stop"
    /\ Answer(c, deletion[c].key, audit[deletion[c].key])
    /\ UNCHANGED <<row, audit, contributor, setups, removed, before, late>>

(* A serialization conflict: the answer of a winner, another attempt, or an error. *)
Conflict(c) ==
    LET k == deletion[c].key
    IN  /\ deletion[c].stage = "delete"
        /\ IF audit[k].done THEN Answer(c, k, audit[k])
           ELSE /\ deletion' = IF deletion[c].attempt < RetryLimit
                               THEN [deletion EXCEPT ![c].attempt = @ + 1]
                               ELSE [deletion EXCEPT ![c] = Unasked]
                /\ UNCHANGED told
        /\ UNCHANGED <<row, audit, contributor, setups, removed, before, late>>

Crash(c) ==
    /\ deletion[c].stage # "idle"
    /\ deletion' = [deletion EXCEPT ![c] = Unasked]
    /\ UNCHANGED <<row, audit, contributor, setups, removed, told, before, late>>

Next ==
    \/ \E t \in OwnersOwn : SetUp(t)
    \/ \E w \in Contributors : \/ \E t \in DOMAIN ReadOf : BeginContribution(w, t)
                               \/ EndContribution(w)
    \/ \E c \in DeletionCalls :
          \/ \E k \in DeletionKeys : Ask(c, k)
          \/ deleteInTransaction(c) \/ StopPrepared(c) \/ Conflict(c) \/ Crash(c)

Spec == Init /\ [][Next]_deletionVars

(* What may be there of a deleted setup: a stay or a connection written    *)
(* late, and what hangs on such a connection.                              *)
OnConnection == CalendarTables \ {"GoogleOAuthAttempt"}
CameLate(t, n) ==
    \/ t = "CityStay" /\ <<"CityStay", n>> \in late
    \/ t \in OnConnection /\ <<"GoogleCalendarConnection", n>> \in late

(* A key deletes once: every answer to it tells the same, and that many    *)
(* rows went.  Of what the owner had set up before a deletion nothing is   *)
(* there after it, nor comes back with what was under way, except what a   *)
(* rebuild of stays or a consent writes that had begun before.             *)
DeletedAsTold ==
    /\ \A k \in DeletionKeys :
          /\ told[k] \subseteq {audit[k]}
          /\ audit[k].calendar + audit[k].location + audit[k].event = removed[k]
    /\ \A t \in Tables : row[t] \in 1 .. before => CameLate(t, row[t])
================================================================================
