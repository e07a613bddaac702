------------------------------ MODULE KeyRotation ------------------------------
(* Changing the key of encrypted personal data (modules/personal-data/     *)
(* personal-data-cipher.service.ts, cli/rekey-personal-data.ts).  Every    *)
(* envelope names the version of its key.  Processes of the API read and   *)
(* write rows with the keyring they started with; the command pages over   *)
(* the rows of one version; each page is read, encrypted again, and replaces   *)
(* each row that still has that version, in a transaction.  It dies and    *)
(* is run again.                                                           *)
(*                                                                         *)
(* The operator restarts processes one at a time: the new key is known     *)
(* everywhere before it is used, it is used everywhere before the command  *)
(* runs, and the old key goes when no row has it.  Nothing in the code     *)
(* enforces that order.                                                    *)
EXTENDS Integers, FiniteSets

CONSTANTS
    Envelopes,    \* ids of encrypted rows: 1 .. n
    Processes,    \* processes of the API
    BatchSize,    \* rows of a page
    MaxVersion    \* bound on the writes

VARIABLES
    envelope,   \* the rows: [value, key]; value counts the writes
    keyring,    \* what each process started with: [keys, active]
    phase,      \* how far the operator is: "old", "known", "active", "done"
    command,    \* the run of the command, and its page
    written     \* history: the last value written to each row

keyVars == <<envelope, keyring, phase, command, written>>

From == 1
To == 2
Ring(phase_) == CASE phase_ = "old" -> [keys |-> {From}, active |-> From]
                  [] phase_ = "known" -> [keys |-> {From, To}, active |-> From]
                  [] phase_ = "active" -> [keys |-> {From, To}, active |-> To]
                  [] phase_ = "done" -> [keys |-> {To}, active |-> To]
Following == [old |-> "known", known |-> "active", active |-> "done"]
Stopped == [stage |-> "idle", after |-> 0, page |-> {}]

Init ==
    /\ envelope = [e \in Envelopes |-> [value |-> 0, key |-> From]]
    /\ keyring = [p \in Processes |-> Ring("old")]
    /\ phase = "old"
    /\ command = Stopped
    /\ written = [e \in Envelopes |-> 0]

(* Processes.                                                              *)
Write(p, e) ==
    /\ written[e] < MaxVersion
    /\ written' = [written EXCEPT ![e] = @ + 1]
    /\ envelope' = [envelope EXCEPT ![e] = [value |-> written[e] + 1, key |-> keyring[p].active]]
    /\ UNCHANGED <<keyring, phase, command>>

AllStartedWith(ring) == \A p \in Processes : keyring[p] = ring

NoneLeft == \A e \in Envelopes : envelope[e].key # From

Restart(p) ==
    /\ keyring[p] # Ring(phase)
    /\ keyring' = [keyring EXCEPT ![p] = Ring(phase)]
    /\ UNCHANGED <<envelope, phase, command, written>>

NextPhase ==
    /\ phase # "done"
    /\ AllStartedWith(Ring(phase))
    /\ phase = "active" => command.stage = "finished" /\ NoneLeft
    /\ phase' = Following[phase]
    /\ UNCHANGED <<envelope, keyring, command, written>>

(* The command.  A page is read, and then its rows are replaced one by     *)
(* one; a row written meanwhile is left, and counted as contended.         *)
Start ==
    /\ command.stage = "idle"
    /\ phase = "active" /\ AllStartedWith(Ring("active"))
    /\ command' = [Stopped EXCEPT !.stage = "find"]
    /\ UNCHANGED <<envelope, keyring, phase, written>>

FromRows == {e \in Envelopes : envelope[e].key = From /\ e > command.after}

Below(e, rows) == Cardinality({f \in rows : f < e})

FindPage ==
    /\ command.stage = "find"
    /\ command' = [command EXCEPT !.stage = "replace",
           !.page = {<<e, envelope[e].value>> : e \in {e \in FromRows : Below(e, FromRows) < BatchSize}}]
    /\ UNCHANGED <<envelope, keyring, phase, written>>

Regardless(e) == TRUE

Unchanged(e) == envelope[e].key = From

(* The rows of a page are locked as they are replaced, until the           *)
(* transaction commits: this step.                                         *)
CompareAndSet ==
    LET page == command.page
        ids == {r[1] : r \in page}
    IN  /\ command.stage = "replace"
        /\ envelope' = [e \in Envelopes |->
               IF e \in ids /\ Unchanged(e)
               THEN [value |-> (CHOOSE r \in page : r[1] = e)[2], key |-> To] ELSE envelope[e]]
        /\ command' = IF Cardinality(page) < BatchSize
                      THEN [command EXCEPT !.stage = "finished", !.page = {}]
                      ELSE [stage |-> "find", page |-> {}, after |-> CHOOSE e \in ids : \A f \in ids : f <= e]
        /\ UNCHANGED <<keyring, phase, written>>

Interrupt ==
    /\ command.stage # "idle"
    /\ phase # "done"
    /\ command' = Stopped
    /\ UNCHANGED <<envelope, keyring, phase, written>>

Next ==
    \/ \E p \in Processes : Restart(p) \/ \E e \in Envelopes : Write(p, e)
    \/ NextPhase \/ Start \/ FindPage \/ CompareAndSet \/ Interrupt

Spec == Init /\ [][Next]_keyVars

(* Every row can be read by every process at every moment of the change,   *)
(* has the value that was written last, and a command that finishes leaves *)
(* no row behind.                                                          *)
ReadableThroughout ==
    /\ \A e \in Envelopes : /\ envelope[e].value = written[e]
                             /\ \A p \in Processes : envelope[e].key \in keyring[p].keys
    /\ command.stage = "finished" => NoneLeft
================================================================================
