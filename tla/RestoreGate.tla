------------------------------ MODULE RestoreGate ------------------------------
(* The release gate, which proves on a restored backup that a commit can   *)
(* be released: the operator's wrapper (run-cloud-restore-release-gate),   *)
(* the launcher on the host and the script that provisions it with new     *)
(* credentials (provision-cloud-restore-release-gate), the gate itself     *)
(* (cloud-restore-release-gate), and below, on its own, how the gate runs  *)
(* a command.  Launcher and provisioning exclude each other by a file lock *)
(* that the system frees with the process; the gate has a directory as its *)
(* lock, which stays if the gate is killed.                                *)
EXTENDS Naturals, Sequences

CONSTANTS
    Gates,          \* requests to prove a commit, numbers
    Provisions,     \* runs of the provisioning, numbers above 0: also their new passwords
    NoHolder

VARIABLES
    updater,        \* who holds updater.lock
    gateLock,       \* the gate whose lock directory is there, or NoHolder
    passwords,      \* of the roles of the gate in the database
    published,      \* those in the environment file of the gate
    left,           \* what is there of a gate: <<gate, thing>>
    gate,           \* each request, from the launcher to what the operator is told
    provision,      \* local state of each provisioning
    process         \* a command of the gate, in a specification of its own

gateVars == <<updater, gateLock, passwords, published, left, gate, provision>>

Steps == <<"lock", "workspace", "candidate", "worktree", "boundaries", "backup", "independent",
           "reserve", "create", "restore", "migrate", "validate", "drift", "invariants">>
UsesDatabase == {"boundaries", "independent", "create", "restore", "migrate", "drift", "invariants"}

\* What runGate remembers to clean up, in the order of the phases.
CleanUpOrder == <<"database", "worktree", "workspace", "lock">>
Things == {CleanUpOrder[i] : i \in DOMAIN CleanUpOrder}

NotLaunched == [phase |-> "idle", launcher |-> "none", at |-> 1, have |-> {}, credentials |-> 0,
                outcome |-> "none", dirty |-> FALSE, aborted |-> FALSE, told |-> "waiting"]

TypeOK ==
    /\ updater \in Gates \cup Provisions \cup {NoHolder}
    /\ gateLock \in Gates \cup {NoHolder}
    /\ passwords \in Provisions \cup {0} /\ published \in Provisions \cup {0}
    /\ left \subseteq Gates \X (Things \cup {"runner"})
    /\ \A g \in Gates :
          /\ gate[g].phase \in {"idle", "prepare", "working", "cleanup", "tidy", "over"}
          /\ gate[g].launcher \in {"none", "up", "gone"}
          /\ gate[g].at \in 1 .. Len(Steps) + 1 /\ gate[g].have \subseteq Things
          /\ gate[g].told \in {"waiting", "passed", "failed"}
    /\ \A p \in Provisions :
          provision[p] \in {"idle", "locked", "staged", "verified", "ready", "failed"}

Init ==
    /\ updater = NoHolder /\ gateLock = NoHolder
    /\ passwords = 0 /\ published = 0 /\ left = {}
    /\ gate = [g \in Gates |-> NotLaunched]
    /\ provision = [p \in Provisions |-> "idle"]

-----------------------------------------------------------------------------
(* Provisioning.                                                           *)

Provision(p, to) == provision' = [provision EXCEPT ![p] = to]
restOfGate == <<gateLock, left, gate>>

\* Mutant: provisioning does not wait for a launcher.
Anytime == TRUE

\* flock -x waits.
LockIsFree == updater = NoHolder

LockForProvision(p) ==
    /\ provision[p] = "idle" /\ LockIsFree
    /\ updater' = p /\ Provision(p, "locked")
    /\ UNCHANGED <<passwords, published, restOfGate>>

\* The staged passwords are set by one transaction, which may be committed without an answer.
Rotate(p) ==
    /\ provision[p] = "locked"
    /\ passwords' \in {passwords, p}
    /\ Provision(p, "staged")
    /\ UNCHANGED <<updater, published, restOfGate>>

\* probe_credential: the passwords that were staged are those of the database.
Probe(p) ==
    /\ provision[p] = "staged" /\ passwords = p
    /\ Provision(p, "verified")
    /\ UNCHANGED <<updater, passwords, published, restOfGate>>

\* mv of the environment, and by the trap as well if it was verified.
Publish(p) ==
    /\ provision[p] = "verified"
    /\ published' = p /\ Provision(p, "ready")
    /\ updater' = IF updater = p THEN NoHolder ELSE updater
    /\ UNCHANGED <<passwords, restOfGate>>

\* Some command fails, or the script is killed.
ProvisionFails(p) ==
    /\ provision[p] \in {"locked", "staged", "verified"}
    /\ Provision(p, "failed")
    /\ updater' = IF updater = p THEN NoHolder ELSE updater
    /\ UNCHANGED <<passwords, published, restOfGate>>

-----------------------------------------------------------------------------
(* The launcher and the operator.                                          *)

restOfHost == <<passwords, published, provision>>

\* flock -n; the worktree that the gate is run from.
Launch(g) ==
    /\ gate[g].phase = "idle"
    /\ IF updater = NoHolder
       THEN /\ updater' = g /\ left' = left \cup {<<g, "runner">>}
            /\ gate' = [gate EXCEPT ![g].phase = "prepare", ![g].launcher = "up"]
       ELSE /\ gate' = [gate EXCEPT ![g].phase = "over", ![g].told = "failed"]
            /\ UNCHANGED <<updater, left>>
    /\ UNCHANGED <<gateLock, restOfHost>>

\* docker run with the environment file as it is now, or a failure before.
StartGate(g) ==
    /\ gate[g].phase = "prepare"
    /\ \/ gate' = [gate EXCEPT ![g].phase = "working", ![g].credentials = published]
       \/ gate' = [gate EXCEPT ![g].phase = "tidy", ![g].outcome = "failed"]
    /\ UNCHANGED <<updater, gateLock, left, restOfHost>>

\* The launcher is killed, the container is not.
LoseLauncher(g) ==
    /\ gate[g].launcher = "up"
    /\ updater' = NoHolder
    /\ gate' = [gate EXCEPT ![g].launcher = "gone", ![g].told = "failed",
                   ![g].phase = IF @ \in {"prepare", "tidy"} THEN "over" ELSE @]
    /\ UNCHANGED <<gateLock, left, restOfHost>>

\* The trap of the launcher.  The operator's wrapper looks at its status and the receipt,
\* unless it gave up before, when its own time was over or it was interrupted.
Tidy(g) ==
    /\ gate[g].phase = "tidy"
    /\ updater' = NoHolder
    /\ \E tidied \in BOOLEAN, told \in {"passed", "failed"} :
          /\ told = "passed" => tidied /\ gate[g].outcome = "passed"
          /\ left' = IF tidied THEN left \ {<<g, "runner">>} ELSE left
          /\ gate' = [gate EXCEPT ![g].phase = "over", ![g].launcher = "none", ![g].told = told]
    /\ UNCHANGED <<gateLock, restOfHost>>

-----------------------------------------------------------------------------
(* runGate.                                                                *)

At(g, step) ==
    gate[g].phase = "working" /\ gate[g].at <= Len(Steps) /\ Steps[gate[g].at] = step
Next1(g) == [gate[g] EXCEPT !.at = @ + 1]
Ended(g, outcome) == [gate[g] EXCEPT !.phase = "cleanup", !.at = 1, !.outcome = outcome]
Failed(g) == Ended(g, "failed")
Go(g, local) == gate' = [gate EXCEPT ![g] = local]
restOfLocks == <<updater, restOfHost>>

\* Mutant: the launcher has a lock already.
Launched(g) == gate[g].launcher = "up"

\* mkdir: a directory that is there, whoever left it, is `busy`.
Lockable(g) == gateLock = NoHolder

AcquireLock(g) ==
    /\ At(g, "lock")
    /\ IF Lockable(g)
       THEN gateLock' = g /\ Go(g, [Next1(g) EXCEPT !.have = {"lock"}])
       ELSE gateLock' = gateLock /\ Go(g, Failed(g))
    /\ UNCHANGED <<left, restOfLocks>>

PrepareWorkspace(g) ==
    /\ At(g, "workspace")
    /\ \/ /\ left' = left \cup {<<g, "workspace">>}
          /\ Go(g, [Next1(g) EXCEPT !.have = @ \cup {"workspace"}])
       \/ left' = left /\ Go(g, Failed(g))
    /\ UNCHANGED <<gateLock, restOfLocks>>

\* Mutant: the worktree is there when git says so.
AddedWorktree(g, ok) == IF ok THEN {"worktree"} ELSE {}

\* worktreeCreated is set before git is asked, and git may fail half-way.
RememberedWorktree(g, ok) == {"worktree"}

CreateWorktree(g) ==
    /\ At(g, "worktree")
    /\ \E ok \in BOOLEAN :
          /\ ok => ~gate[g].aborted
          /\ left' \in {left \cup {<<g, "worktree">>}} \cup IF ok THEN {} ELSE {left}
          /\ Go(g, [(IF ok THEN Next1(g) ELSE Failed(g)) EXCEPT
                       !.have = @ \cup RememberedWorktree(g, ok)])
    /\ UNCHANGED <<gateLock, restOfLocks>>

\* reserveRestoreDatabase makes up a name, which is dropped in the end if it exists.
Reserve(g) ==
    /\ At(g, "reserve")
    /\ Go(g, [Next1(g) EXCEPT !.have = @ \cup {"database"}])
    /\ UNCHANGED <<gateLock, left, restOfLocks>>

Allowed(g) == gate[g].credentials = passwords

CreateDatabase(g) ==
    /\ At(g, "create")
    /\ \/ /\ ~gate[g].aborted /\ Allowed(g)
          /\ left' = left \cup {<<g, "database">>} /\ Go(g, Next1(g))
       \/ /\ left' \in {left} \cup IF Allowed(g) THEN {left \cup {<<g, "database">>}} ELSE {}
          /\ Go(g, Failed(g))
    /\ UNCHANGED <<gateLock, restOfLocks>>

\* A phase of commands, which keeps nothing that a later one needs.
Command(g, step) ==
    /\ At(g, step)
    /\ \/ ~gate[g].aborted /\ (step \in UsesDatabase => Allowed(g)) /\ Go(g, Next1(g))
       \/ Go(g, Failed(g))
    /\ UNCHANGED <<gateLock, left, restOfLocks>>

VerifyCandidate(g) == Command(g, "candidate")
VerifyDatabaseBoundaries(g) == Command(g, "boundaries")
ProveFreshCoolifyBackup(g) == Command(g, "backup")
CreateIndependentBackup(g) == Command(g, "independent")
RestoreBackup(g) == Command(g, "restore")
MigrateCandidate(g) == Command(g, "migrate")
ValidatePrisma(g) == Command(g, "validate")
VerifyZeroDrift(g) == Command(g, "drift")
VerifyReleaseInvariants(g) == Command(g, "invariants")

Proved(g) ==
    /\ gate[g].phase = "working" /\ gate[g].at > Len(Steps)
    /\ Go(g, Ended(g, "passed"))
    /\ UNCHANGED <<gateLock, left, restOfLocks>>

\* One phase, which fails or takes too long, and then may or may not have done its work.
CleanUp(g) ==
    /\ gate[g].phase = "cleanup" /\ gate[g].have # {}
    /\ LET i == CHOOSE k \in DOMAIN CleanUpOrder :
                   /\ CleanUpOrder[k] \in gate[g].have
                   /\ \A j \in 1 .. k - 1 : CleanUpOrder[j] \notin gate[g].have
           thing == CleanUpOrder[i]
           cleaned == /\ left' = left \ {<<g, thing>>}
                      /\ gateLock' = IF thing = "lock" THEN NoHolder ELSE gateLock
           rest == [gate[g] EXCEPT !.have = @ \ {thing}]
       IN \/ (thing = "database" => Allowed(g)) /\ cleaned /\ Go(g, rest)
          \/ /\ (cleaned /\ (thing = "database" => Allowed(g))) \/ UNCHANGED <<left, gateLock>>
             /\ Go(g, [rest EXCEPT !.dirty = TRUE])
    /\ UNCHANGED restOfLocks

\* Mutant: the result of the proof counts, whatever became of the cleanup.
AsProved(g) == IF gate[g].aborted THEN "interrupted" ELSE gate[g].outcome

\* runGate throws for the cleanup before anything else, and main says `interrupted`.
Receipt(g) ==
    IF gate[g].aborted THEN "interrupted"
    ELSE IF gate[g].dirty THEN "cleanup_failed" ELSE gate[g].outcome

\* The process is over, and nothing is left of its memory.
Exit(g, outcome) ==
    /\ Go(g, [NotLaunched EXCEPT !.phase = IF gate[g].launcher = "up" THEN "tidy" ELSE "over",
                                 !.launcher = gate[g].launcher, !.outcome = outcome,
                                 !.told = gate[g].told])
    /\ UNCHANGED <<gateLock, left, restOfLocks>>

Report(g) == gate[g].phase = "cleanup" /\ gate[g].have = {} /\ Exit(g, Receipt(g))

Kill(g) == gate[g].phase \in {"working", "cleanup"} /\ Exit(g, "killed")

Interrupt(g) ==
    /\ gate[g].phase \in {"working", "cleanup"} /\ ~gate[g].aborted
    /\ Go(g, [gate[g] EXCEPT !.aborted = TRUE])
    /\ UNCHANGED <<gateLock, left, restOfLocks>>

Next ==
    \/ \E p \in Provisions : \/ LockForProvision(p) \/ Rotate(p) \/ Probe(p) \/ Publish(p)
                             \/ ProvisionFails(p)
    \/ \E g \in Gates : \/ Launch(g) \/ StartGate(g) \/ LoseLauncher(g) \/ Tidy(g)
                        \/ AcquireLock(g) \/ PrepareWorkspace(g) \/ CreateWorktree(g) \/ Reserve(g)
                        \/ CreateDatabase(g) \/ VerifyCandidate(g) \/ VerifyDatabaseBoundaries(g)
                        \/ ProveFreshCoolifyBackup(g) \/ CreateIndependentBackup(g)
                        \/ RestoreBackup(g) \/ MigrateCandidate(g) \/ ValidatePrisma(g)
                        \/ VerifyZeroDrift(g) \/ VerifyReleaseInvariants(g) \/ Proved(g)
                        \/ CleanUp(g) \/ Report(g) \/ Interrupt(g) \/ Kill(g)

Spec == Init /\ [][Next]_gateVars

-----------------------------------------------------------------------------
\* Whoever is told that a commit passed can rely on it: the gate passed and nothing of it is
\* left.  A gate that says how it failed has left nothing behind either, unless it says that
\* the cleanup failed or that it was interrupted.
GateTellsTruth ==
    \A g \in Gates :
       LET things == {x \in left : x[1] = g}
       IN /\ gate[g].told = "passed" => gate[g].outcome = "passed" /\ things = {}
          /\ gate[g].phase \in {"tidy", "over"} /\ gate[g].outcome \in {"passed", "failed"} =>
                things \subseteq {<<g, "runner">>} /\ gateLock # g

\* Two gates never work at once, even when the launcher of one is gone, and what a gate
\* has locked is its own.
GatesAreApart ==
    \A g \in Gates :
       "lock" \in gate[g].have =>
          gateLock = g /\ \A h \in Gates \ {g} : "lock" \notin gate[h].have

\* The passwords and the environment file change only when no gate works under a launcher
\* that lives, and a file that is new has the passwords of the database.
CredentialsStay ==
    /\ passwords' # passwords \/ published' # published =>
          \A g \in Gates : gate[g].launcher = "up" => gate[g].phase \notin {"working", "cleanup"}
    /\ published' # published => published' = passwords

-----------------------------------------------------------------------------
(* makeCommandRunner: a promise for a child process that is given an input *)
(* and may write too much, take too long, or be interrupted, the events of *)
(* its ends coming in any order.                                           *)

Idle == [phase |-> "idle", cleanup |-> FALSE, stdin |-> "none", broken |-> FALSE,
         overflow |-> FALSE, timedOut |-> FALSE, aborted |-> FALSE, ends |-> "no",
         pending |-> FALSE, settled |-> "no"]

RunInit ==
    \E cleanup, aborted \in BOOLEAN :
       process = [Idle EXCEPT !.cleanup = cleanup, !.aborted = aborted]

\* resolveFixed, rejectFixed: the first one counts, and clears the timers.
Settle(p, how) == IF p.settled = "no" THEN [p EXCEPT !.settled = how] ELSE p

Interrupted(p) == p.aborted /\ ~p.cleanup

Spawn ==
    /\ process.phase = "idle"
    /\ \E stdin \in {"none", "open"} :
          process' = IF Interrupted(process)
                     THEN [Settle(process, "rejected") EXCEPT !.phase = "refused"]
                     ELSE [process EXCEPT !.phase = "running", !.stdin = stdin]

\* finishPendingSuccessfulClose.
Finish(p) ==
    IF p.pending /\ p.stdin # "open"
    THEN [Settle(p, IF p.broken THEN "rejected" ELSE "resolved") EXCEPT !.pending = FALSE]
    ELSE p

\* finishStdin: the callback of end, or an error of the stream, which may come after it.
EndInput ==
    /\ process.phase = "running" /\ process.stdin # "none" /\ process.settled = "no"
    /\ \E broken \in BOOLEAN :
          /\ process.stdin = "open" \/ broken
          /\ process' = Finish([process EXCEPT !.stdin = "ended", !.broken = @ \/ broken])

Overflow ==
    /\ process.phase = "running" /\ process.ends = "no"
    /\ process' = [process EXCEPT !.overflow = TRUE]

TimeOut ==
    /\ process.phase = "running" /\ process.settled = "no" /\ ~process.timedOut
    /\ LET late == [process EXCEPT !.timedOut = TRUE]
       IN process' = IF process.pending THEN Settle(late, "rejected") ELSE late

\* The listener is removed when the promise is settled; a cleanup has none.
Abort ==
    /\ process.phase = "running" /\ ~process.aborted
    /\ LET aborted == [process EXCEPT !.aborted = TRUE]
       IN process' = IF Interrupted(aborted) /\ process.pending THEN Settle(aborted, "rejected")
                     ELSE aborted

\* Mutant: a child that ends well is a success.
EndedWell(p) == p.ends = "well"

Success(p) ==
    /\ p.ends = "well" /\ ~Interrupted(p) /\ ~p.timedOut /\ ~p.broken /\ ~p.overflow

\* The child ends by itself or because it was terminated, and its streams are closed.
Close ==
    /\ process.phase = "running" /\ process.ends = "no"
    /\ \E ends \in {"well", "badly"} :
          LET ended == [process EXCEPT !.ends = ends]
          IN process' = IF ~Success(ended) THEN Settle(ended, "rejected")
                        ELSE IF ended.stdin = "open" THEN [ended EXCEPT !.pending = TRUE]
                        ELSE Settle(ended, "resolved")

RunNext == Spawn \/ EndInput \/ Overflow \/ TimeOut \/ Abort \/ Close

\* A command that succeeded ended well, read all of its input, wrote no more than it may,
\* and was neither late nor interrupted before that; and the promise of a process that is
\* over is settled, or the end of its input or the timeout still to come will settle it.
CommandsEndOnce ==
    /\ process.settled = "resolved" =>
          process.ends = "well" /\ process.stdin # "open" /\ ~process.overflow
    /\ process.ends # "no" /\ process.settled = "no" =>
          process.stdin = "open" /\ ~process.timedOut /\ ~Interrupted(process)

\* What is settled stays so, and is a success only if nothing had gone wrong by then.
SettledOnce ==
    /\ process.settled # "no" => process'.settled = process.settled
    /\ process.settled = "no" /\ process'.settled = "resolved" =>
          ~process.broken /\ ~process.timedOut /\ ~Interrupted(process)

=============================================================================
