--------------------------- MODULE EventPreferences ---------------------------
(* What the owner wants of events (modules/events/                         *)
(* event-preference.service.ts).  Preferences are saved in several windows *)
(* at once, and deleted; their tags are encrypted for the id of the row    *)
(* they are in, so that they can be read in no other.                      *)
EXTENDS Integers

CONSTANTS
    RowIds,        \* ids that EventPreference rows may be given
    Saves,         \* requests to save preferences that are served concurrently
    MaxAttempts    \* attempts of such a request, 3

VARIABLES
    pref,      \* the EventPreference row: its id, and the id its tags are encrypted for
    save       \* local state of each request to save

preferenceVars == <<pref, save>>

NoRow == [id |-> 0, sealedFor |-> 0]

TypeOK ==
    /\ pref \in [id : RowIds \cup {0}, sealedFor : RowIds \cup {0}]
    /\ save \in [Saves -> [pc : {"idle", "found"}, id : RowIds \cup {0}, isNew : BOOLEAN,
                           attempt : 0 .. MaxAttempts]]

Init ==
    /\ pref = NoRow
    /\ save = [w \in Saves |-> [pc |-> "idle", id |-> 0, isNew |-> FALSE, attempt |-> 0]]

\* upsert of preferences: it looks for the row and encrypts the tags for it.
FindPreference(w, fresh) ==
    /\ save[w].pc = "idle" /\ save[w].attempt < MaxAttempts
    /\ save' = [save EXCEPT ![w] =
                   [pc |-> "found", attempt |-> @.attempt + 1, isNew |-> pref.id = 0,
                    id |-> IF pref.id = 0 THEN fresh ELSE pref.id]]
    /\ UNCHANGED pref

\* Mutant: whichever row the owner has.
AnyRow(w) == pref.id # 0

\* The condition of its update.
SameRow(w) == pref.id = save[w].id

\* It creates the row unless there is one by now, or updates the one it has found; it
\* starts over when it can do neither.
WritePreference(w) ==
    /\ save[w].pc = "found"
    /\ LET done == IF save[w].isNew THEN pref.id = 0 ELSE SameRow(w)
       IN /\ pref' = IF ~done THEN pref
                     ELSE [id |-> IF save[w].isNew THEN save[w].id ELSE pref.id,
                           sealedFor |-> save[w].id]
          /\ save' = [save EXCEPT ![w].pc = "idle", ![w].attempt = IF done THEN 0 ELSE @]

\* It has given up, with an error.
GiveUp(w) ==
    /\ save[w].pc = "idle" /\ save[w].attempt = MaxAttempts
    /\ save' = [save EXCEPT ![w].attempt = 0]
    /\ UNCHANGED pref

RemovePreference ==
    /\ pref' = NoRow
    /\ UNCHANGED save

Next ==
    \/ RemovePreference
    \/ \E w \in Saves : \/ WritePreference(w) \/ GiveUp(w)
                        \/ \E fresh \in RowIds \ {pref.id} : FindPreference(w, fresh)

Spec == Init /\ [][Next]_preferenceVars

-----------------------------------------------------------------------------
\* The tags of the owner can be read: they are encrypted for the row that holds them.
PreferenceReadable == pref.sealedFor = pref.id

=============================================================================
