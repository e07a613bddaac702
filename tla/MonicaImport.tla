---------------------------- MODULE MonicaImport ----------------------------
(* cli/monica-import.ts, which takes an export of Monica into Socos: read  *)
(* the stream as a whole, then in one serializable transaction choose the  *)
(* owner and vault, mark what was there as demo, insert or update every    *)
(* contact, and count.  Imports wait for each other on an advisory lock,   *)
(* with the snapshot of before they waited; owners go on meanwhile; and a  *)
(* run may be killed, or not be told that it was committed.                *)
EXTENDS Naturals, FiniteSets, Sequences, SequencesExt

CONSTANTS
    Vaults,         \* vaults, and the owner of each: records
    Natives,        \* contacts that owners have or add: records of owner, vault and id
    Exports,        \* exports that were made: sequences of [source, text]
    DemoCount,      \* EXPECTED_DEMO_COUNT
    Runs            \* runs of the import

VARIABLES
    contacts,       \* all that is committed
    run,            \* the transaction of each run
    touched         \* history: owners who deleted an imported contact or a demo

importVars == <<contacts, run, touched>>

Owners == {v.owner : v \in Vaults}
Contact(v, id, demo, text) ==
    [owner |-> v.owner, vault |-> v.vault, id |-> id, demo |-> demo, text |-> text]
Key(c) == <<c.owner, c.id>>
Sources == UNION {{line.source : line \in ToSet(e)} : e \in Exports}

\* An owner's own contacts have an id of Natives, imported ones that of their source.
Imported(some) == {c \in some : c.id \in Sources /\ ~c.demo}
Demos(some) == {c \in some : c.demo}
Baseline(some) == {c \in some : c.id \notin Sources /\ ~c.demo}

Open == {"lock", "prepare", "upsert", "commit"}
Locked == Open \ {"lock"}
Waiting == [phase |-> "idle", lines |-> << >>, seen |-> {}, mine |-> {}, written |-> {},
            vault |-> CHOOSE v \in Vaults : TRUE, overtaken |-> FALSE]
Ended == [Waiting EXCEPT !.phase = "over"]

TypeOK ==
    /\ \A c, d \in contacts : Key(c) = Key(d) => c = d
    /\ \A c \in Demos(contacts) : c.id \notin Sources
    /\ touched \subseteq Owners
    /\ Cardinality({r \in Runs : run[r].phase \in Locked}) <= 1

Init ==
    /\ contacts \in SUBSET {Contact(n, n.id, FALSE, "own") : n \in Natives}
    /\ run = [r \in Runs |-> Waiting]
    /\ touched = {}

-----------------------------------------------------------------------------
(* Owners, whose changes wait for a row that an import has written.        *)

Unlocked(key) == \A r \in Runs : run[r].phase \in Open => key \notin run[r].written

Add(n) ==
    /\ \A c \in contacts : Key(c) # Key(n)
    /\ contacts' = contacts \cup {Contact(n, n.id, FALSE, "own")}
    /\ UNCHANGED <<run, touched>>

\* Bound: while an import goes on; no import looks at what an owner wrote before it.
Edit(c) ==
    /\ \E r \in Runs : run[r].phase \in Open
    /\ ~c.demo /\ Unlocked(Key(c)) /\ c.text # "edited"
    /\ contacts' = (contacts \ {c}) \cup {[c EXCEPT !.text = "edited"]}
    /\ UNCHANGED <<run, touched>>

Delete(c) ==
    /\ Unlocked(Key(c))
    /\ contacts' = contacts \ {c}
    /\ touched' = IF c \in Baseline({c}) THEN touched ELSE touched \cup {c.owner}
    /\ UNCHANGED run

-----------------------------------------------------------------------------
(* The stream.                                                             *)

NoTrailer == [count |-> 0, digest |-> << >>]
Trailer(export) == [count |-> Len(export), digest |-> export]

\* As it was made, cut off, or with a line that is missing or another.
Streams ==
    LET Stream(lines, trailer) == [lines |-> lines, trailer |-> trailer]
    IN {Stream(e, Trailer(e)) : e \in Exports}
          \cup {Stream(e, NoTrailer) : e \in Exports}
          \cup {Stream(Front(e), Trailer(e)) : e \in {e \in Exports : e # << >>}}
          \cup {Stream(e, Trailer(f)) : e, f \in Exports}

\* parseMonicaExport
Parsed(stream, expected) ==
    /\ expected > 0
    /\ stream.trailer # NoTrailer
    /\ stream.trailer.count = Len(stream.lines) /\ Len(stream.lines) = expected
    /\ stream.trailer.digest = stream.lines
    /\ \A i, j \in DOMAIN stream.lines :
          i # j => stream.lines[i].source # stream.lines[j].source

Begin(r, stream, expected) ==
    /\ run[r].phase = "idle"
    /\ run' = [run EXCEPT ![r] =
                 IF ~Parsed(stream, expected) THEN Ended
                 ELSE [@ EXCEPT !.phase = "lock", !.lines = stream.lines,
                                !.seen = contacts, !.mine = contacts]]
    /\ UNCHANGED <<contacts, touched>>

-----------------------------------------------------------------------------
(* The transaction.  All it reads is of the snapshot and its own.          *)

Go(r, next) == run' = [run EXCEPT ![r] = next]

Of(some, v) == {c \in some : c.owner = v.owner /\ c.vault = v.vault}
IsFirstRun(some) ==
    Imported(some) = {} /\ Demos(some) = {} /\ Cardinality(Baseline(some)) = DemoCount
IsCompleteRerun(some, expected) ==
    Cardinality(Imported(some)) = expected /\ Cardinality(Demos(some)) = DemoCount

\* Mutant: the first vault that an import can go to.
AnyCandidate(seen, expected) ==
    {v \in Vaults : IsFirstRun(Of(seen, v)) \/ IsCompleteRerun(Of(seen, v), expected)}

\* The only vault that an import can go to, if there is none with another import.
Candidates(seen, expected) ==
    LET all == {v \in Vaults : IsFirstRun(Of(seen, v)) \/ IsCompleteRerun(Of(seen, v), expected)}
        partial == \E v \in Vaults : /\ Imported(Of(seen, v)) # {}
                                     /\ ~IsCompleteRerun(Of(seen, v), expected)
    IN IF partial \/ Cardinality(all) # 1 THEN {} ELSE all

\* acquireImportLock, which waits, and selectOwnerVault
SelectOwnerVault(r) ==
    /\ run[r].phase = "lock" /\ \A other \in Runs : run[other].phase \notin Locked
    /\ LET found == Candidates(run[r].mine, Len(run[r].lines))
       IN \/ found = {} /\ Go(r, Ended)
          \/ \E v \in found : Go(r, [run[r] EXCEPT !.phase = "prepare", !.vault = v])
    /\ UNCHANGED <<contacts, touched>>

\* Mutant: the last to write a row has it.
Unconditional(r, keys) == TRUE

\* A row that was changed since the snapshot cannot be written.
Writable(r, keys) ==
    {c \in contacts : Key(c) \in keys} = {c \in run[r].seen : Key(c) \in keys}

Write(r, old, new, next) ==
    LET keys == {Key(c) : c \in new}
    IN Go(r, IF ~Writable(r, keys) THEN Ended
             ELSE [next EXCEPT !.mine = (@ \ old) \cup new, !.written = @ \cup keys])

\* What the owner has is counted over all vaults.
PrepareDemoBaseline(r) ==
    /\ run[r].phase = "prepare"
    /\ LET some == {c \in run[r].mine : c.owner = run[r].vault.owner}
           next == [run[r] EXCEPT !.phase = "upsert"]
       IN IF Imported(some) # {}
          THEN Go(r, IF Cardinality(Demos(some)) = DemoCount THEN next ELSE Ended)
          ELSE IF Demos(some) # {} \/ Cardinality(Baseline(some)) # DemoCount
               THEN Go(r, Ended)
          ELSE Write(r, Baseline(some), {[c EXCEPT !.demo = TRUE] : c \in Baseline(some)}, next)
    /\ UNCHANGED <<contacts, touched>>

\* assertFinalCounts; every line was written by then.
FinalCounts(r) ==
    LET some == {c \in run[r].mine : c.owner = run[r].vault.owner}
    IN /\ Cardinality(Imported(some)) = Cardinality({k \in run[r].written : k[2] \in Sources})
       /\ Cardinality(Demos(some)) = DemoCount

UpsertContact(r) ==
    /\ run[r].phase = "upsert"
    /\ IF run[r].lines = << >>
       THEN Go(r, IF FinalCounts(r) THEN [run[r] EXCEPT !.phase = "commit"] ELSE Ended)
       ELSE LET line == Head(run[r].lines)
                new == Contact(run[r].vault, line.source, FALSE, line.text)
            IN Write(r, {c \in run[r].mine : Key(c) = Key(new)}, {new},
                     [run[r] EXCEPT !.lines = Tail(@)])
    /\ UNCHANGED <<contacts, touched>>

\* Mutant: the transaction is not serializable.
Repeatable(r) == TRUE

\* Another import was committed since the snapshot: each has read what the other wrote.
Serializable(r) == ~run[r].overtaken

\* What is told of it is nothing that others see: a run whose answer is lost tells that it
\* failed.
Commit(r) ==
    /\ run[r].phase = "commit"
    /\ \/ ~Serializable(r) /\ Go(r, Ended) /\ UNCHANGED contacts
       \/ /\ Serializable(r)
          /\ contacts' = {c \in contacts : Key(c) \notin run[r].written}
                            \cup {c \in run[r].mine : Key(c) \in run[r].written}
          /\ run' = [q \in Runs |-> IF q = r THEN Ended
                                    ELSE IF run[q].phase \in Open
                                    THEN [run[q] EXCEPT !.overtaken = TRUE] ELSE run[q]]
    /\ UNCHANGED touched

\* The database is lost, or the run is killed: nothing stays.
Fail(r) ==
    /\ run[r].phase \in Open
    /\ Go(r, Ended)
    /\ UNCHANGED <<contacts, touched>>

Next ==
    \/ \E n \in Natives : Add(n)
    \/ \E c \in contacts : Edit(c) \/ Delete(c)
    \/ \E r \in Runs :
          \/ \E stream \in Streams, expected \in 0 .. 2 : Begin(r, stream, expected)
          \/ SelectOwnerVault(r) \/ PrepareDemoBaseline(r) \/ UpsertContact(r)
          \/ Commit(r) \/ Fail(r)

Spec == Init /\ [][Next]_importVars

-----------------------------------------------------------------------------
\* Whatever failed, was killed, cut off or ran at the same time: the imported contacts of an
\* owner are those of one export, all of them and of no other, with as many demos as there
\* must be, unless the owner deleted some; and only one owner has any.
ImportIsWhole ==
    /\ Cardinality({c.owner : c \in Imported(contacts)}) <= 1
    /\ \A o \in Owners \ touched :
          LET own == {c \in contacts : c.owner = o}
          IN Imported(own) # {} =>
                /\ Cardinality(Demos(own)) = DemoCount
                /\ \E e \in Exports :
                      /\ {c.id : c \in Imported(own)} = {e[i].source : i \in DOMAIN e}
                      /\ Cardinality(Imported(own)) = Len(e)
                      /\ \A c \in Imported(own), i \in DOMAIN e :
                            c.id = e[i].source => c.text \in {e[i].text, "edited"}

\* An import takes nothing away, and overwrites no change that an owner made after it began;
\* what an owner added since is no demo.
ImportLosesNothing ==
    \A r \in Runs :
       run[r].phase = "commit" /\ run'[r].phase # "commit" =>
          /\ {Key(c) : c \in contacts} \subseteq {Key(c) : c \in contacts'}
          /\ contacts \ run[r].seen \subseteq contacts'

=============================================================================
