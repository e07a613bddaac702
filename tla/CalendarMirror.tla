--------------------------- MODULE CalendarMirror ---------------------------
(* What the calendar synchronisation promises to the rest of the program:  *)
(* each calendar has a local mirror which is either due for a refresh or   *)
(* at least as recent as the last request for one.  Nothing is said of     *)
(* leases, runs, pages, tokens or failures: CalendarSync implements this.  *)
EXTENDS Integers

CONSTANT Sources

VARIABLES
    version,  \* version of each calendar at the provider
    asked,    \* version when a refresh was last asked for
    mirror,   \* version mirrored, 0 if the mirror is empty
    due       \* a refresh is to come, or the calendar is not followed at all

vars == <<version, asked, mirror, due>>

Init ==
    /\ version = [s \in Sources |-> 1]
    /\ asked = [s \in Sources |-> 1]
    /\ mirror = [s \in Sources |-> 0]
    /\ due = [s \in Sources |-> TRUE]

Same(s) ==
    version'[s] = version[s] /\ asked'[s] = asked[s] /\ mirror'[s] = mirror[s]
    /\ due'[s] = due[s]

Change(s) ==
    /\ version'[s] > version[s]
    /\ asked'[s] = asked[s] /\ mirror'[s] = mirror[s] /\ due'[s] = due[s]

\* Someone wants the mirror to show what the provider holds now.
Ask(s) ==
    /\ due'[s] = TRUE /\ asked'[s] = version[s]
    /\ version'[s] = version[s] /\ mirror'[s] = mirror[s]

\* Only a refresh which saw the provider after the last request settles it.
Refresh(s) ==
    /\ due[s] /\ due'[s] = FALSE
    /\ mirror'[s] \in asked[s] .. version[s] /\ mirror'[s] >= mirror[s]
    /\ version'[s] = version[s] /\ asked'[s] = asked[s]

\* The mirror is emptied, or the calendar is no longer followed.
Drop(s) ==
    /\ due'[s] = TRUE /\ mirror'[s] \in {0, mirror[s]}
    /\ version'[s] = version[s] /\ asked'[s] = asked[s]

\* One transaction may move several calendars, each in its own way.
Next == \A s \in Sources : Same(s) \/ Change(s) \/ Ask(s) \/ Refresh(s) \/ Drop(s)

Spec == Init /\ [][Next]_vars

=============================================================================
