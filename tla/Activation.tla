------------------------------ MODULE Activation ------------------------------
(* scripts/coolify-activate.mjs, which switches on one integration of the  *)
(* deployed system: pin the commit, back up the database, change the       *)
(* stored environment, deploy, try the application, and if any of it fails *)
(* after the change put the environment back and deploy again.  Coolify    *)
(* may lose an answer after it did what it was asked, or do nothing and    *)
(* answer; it deploys one at a time, in order, with the environment and    *)
(* the commit that are stored when a deployment starts.  A run may be      *)
(* killed anywhere; nobody starts one while another is going on.           *)
EXTENDS Naturals, Sequences

CONSTANTS
    Runs,           \* the runs, in the order they are made: numbers, and the commit of each
    Requests,       \* what is asked for: [operation, value], the value standing for secrets
    MaxBackups,     \* bound on executions of the backup
    MaxDeployments  \* bound on deployments

VARIABLES
    stored,         \* the environment that Coolify keeps: 0 off, else the value it is on with
    pinned,         \* git_commit_sha of the application
    live,           \* environment and commit of the application that runs
    executions,     \* of the backup: "running", "success", "failed"
    deployments,    \* [state, env, commit] in the order they were asked for
    run             \* local state of each run

activationVars == <<stored, pinned, live, executions, deployments, run>>

Switches == {"calendar", "location", "discovery", "brief"}
Needs == [calendar |-> {}, location |-> {"calendar"}, discovery |-> {"calendar", "location"},
          brief |-> {"calendar", "location", "discovery"}]
Environments == [Switches -> 0 .. 2]

\* What is on has what it needs.
InOrder(env) == \A s \in Switches : env[s] # 0 => \A n \in Needs[s] : env[n] # 0

Phases == {"idle", "pin", "pinned", "backup", "parse", "patch", "verify", "deploy", "await",
           "smoke", "done"}
NotBegun == [phase |-> "idle", request |-> CHOOSE q \in Requests : TRUE, known |-> 0, backup |-> 0,
             snapshot |-> [s \in Switches |-> 0], attempted |-> FALSE, undoing |-> FALSE,
             deployment |-> 0, receipt |-> "none"]

TypeOK ==
    /\ stored \in Environments /\ live.env \in Environments
    /\ pinned \in Runs \cup {0} /\ live.commit \in Runs \cup {0}
    /\ executions \in Seq({"running", "success", "failed"})
    /\ \A r \in Runs : /\ run[r].phase \in Phases /\ run[r].request \in Requests
                       /\ run[r].deployment \in 0 .. Len(deployments)
                       /\ run[r].receipt \in {"none", "killed", "succeeded", "failed",
                                              "rolled back", "not rolled back"}

Init ==
    /\ stored \in {env \in [Switches -> 0 .. 1] : InOrder(env)}
    /\ pinned = 0 /\ live = [env |-> stored, commit |-> 0]
    /\ executions = << >> /\ deployments = << >>
    /\ run = [r \in Runs |-> NotBegun]

-----------------------------------------------------------------------------
(* Coolify and its database.                                               *)

coolifyVars == <<stored, pinned, executions, deployments>>

\* The schedule makes backups as well.
ScheduledBackup ==
    /\ Len(executions) < MaxBackups
    /\ executions' = Append(executions, "running")
    /\ UNCHANGED <<stored, pinned, live, deployments, run>>

EndBackup ==
    /\ \E i \in DOMAIN executions, end \in {"success", "failed"} :
          executions[i] = "running" /\ executions' = [executions EXCEPT ![i] = end]
    /\ UNCHANGED <<stored, pinned, live, deployments, run>>

StartDeployment ==
    /\ \E i \in DOMAIN deployments :
          /\ deployments[i].state = "queued"
          /\ \A j \in 1 .. i - 1 : deployments[j].state \in {"finished", "failed"}
          /\ deployments' = [deployments EXCEPT
                ![i] = [state |-> "running", env |-> stored, commit |-> pinned]]
    /\ UNCHANGED <<stored, pinned, live, executions, run>>

EndDeployment ==
    /\ \E i \in DOMAIN deployments, end \in {"finished", "failed"} :
          /\ deployments[i].state = "running"
          /\ deployments' = [deployments EXCEPT ![i].state = end]
          /\ live' = IF end = "finished"
                     THEN [env |-> deployments[i].env, commit |-> deployments[i].commit] ELSE live
    /\ UNCHANGED <<stored, pinned, executions, run>>

-----------------------------------------------------------------------------
(* A run.                                                                  *)

To(r, phase) == run' = [run EXCEPT ![r].phase = phase]

\* writeReceipt, or the end of a run that was killed: a run that is over is its receipt.
End(r, receipt) ==
    run' = [run EXCEPT ![r] = [NotBegun EXCEPT !.phase = "done", !.receipt = receipt]]

\* The catch block: what was attempted is put back, if putting back is not what failed.
Fail(r) ==
    IF run[r].undoing THEN End(r, "not rolled back")
    ELSE IF run[r].attempted
    THEN run' = [run EXCEPT ![r].phase = "patch", ![r].undoing = TRUE, ![r].deployment = 0]
    ELSE End(r, "failed")

Going(r, phase) == run[r].phase = phase

\* validateInput and the first look at the application.
Begin(r) ==
    /\ Going(r, "idle")
    /\ \A q \in Runs : q < r => Going(q, "done")
    /\ \E q \in Requests :
          run' = [run EXCEPT ![r] = [NotBegun EXCEPT !.phase = "pin", !.request = q]]
    /\ UNCHANGED <<live, coolifyVars>>

\* A request fails, or an answer is not what it should be.
RequestFails(r) ==
    /\ run[r].phase \notin {"idle", "done"}
    /\ Fail(r)
    /\ UNCHANGED <<live, coolifyVars>>

Pin(r) ==
    /\ Going(r, "pin")
    /\ pinned' \in {pinned, r}
    /\ To(r, "pinned") \/ Fail(r)
    /\ UNCHANGED <<stored, live, executions, deployments>>

\* The pin is read back; the executions there are before the backup is asked for are known.
ReadPin(r) ==
    /\ Going(r, "pinned")
    /\ IF pinned = r
       THEN run' = [run EXCEPT ![r].phase = "backup", ![r].known = Len(executions)]
       ELSE Fail(r)
    /\ UNCHANGED <<live, coolifyVars>>

AskForBackup(r) ==
    /\ Going(r, "backup") /\ run[r].backup = 0
    /\ Len(executions) < MaxBackups
    /\ executions' = Append(executions, "running")
    /\ run' = [run EXCEPT ![r].backup = Len(executions) + 1]
    /\ UNCHANGED <<stored, pinned, live, deployments>>

Added(r) == {i \in DOMAIN executions : i > run[r].known}

\* createBackup polls: one new execution, which succeeds.  At the end of the attempts,
\* RequestFails.
PollBackup(r) ==
    /\ Going(r, "backup") /\ run[r].backup # 0
    /\ \E i \in Added(r) :
          IF Added(r) = {i} /\ executions[i] # "failed"
          THEN /\ executions[i] = "success"
               /\ run' = [run EXCEPT ![r].phase = "parse", ![r].backup = i]
          ELSE Fail(r)
    /\ UNCHANGED <<live, coolifyVars>>

\* parseEnvironment, requireDependencies, snapshotValues.
Parse(r) ==
    /\ Going(r, "parse")
    /\ IF \A n \in Needs[run[r].request.operation] : stored[n] # 0
       THEN run' = [run EXCEPT ![r].phase = "patch", ![r].snapshot = stored]
       ELSE Fail(r)
    /\ UNCHANGED <<live, coolifyVars>>

\* Mutant: a rollback switches the operation off.
SwitchedOff(r) ==
    IF run[r].undoing THEN [run[r].snapshot EXCEPT ![run[r].request.operation] = 0]
    ELSE [run[r].snapshot EXCEPT ![run[r].request.operation] = run[r].request.value]

\* targetValues, or all of the snapshot.
Target(r) ==
    IF run[r].undoing THEN run[r].snapshot
    ELSE [run[r].snapshot EXCEPT ![run[r].request.operation] = run[r].request.value]

\* Mutant: the attempt counts once it is answered.
Answered(r) == FALSE

\* envMutationAttempted is set before the call.
Attempted(r) == TRUE

\* The bulk update changes everything or nothing, whether or not its answer arrives.
Patch(r) ==
    /\ Going(r, "patch")
    /\ stored' \in {stored, Target(r)}
    /\ \/ run' = [run EXCEPT ![r].phase = "verify", ![r].attempted = TRUE]
       \/ LET undone ==
                 [run EXCEPT ![r].phase = "patch", ![r].undoing = TRUE, ![r].attempted = TRUE]
          IN IF ~run[r].undoing /\ Attempted(r) THEN run' = undone ELSE Fail(r)
    /\ UNCHANGED <<pinned, live, executions, deployments>>

\* verifyValues.
Verify(r) ==
    /\ Going(r, "verify")
    /\ IF stored = Target(r) THEN To(r, "deploy") ELSE Fail(r)
    /\ UNCHANGED <<live, coolifyVars>>

\* The deployment may be queued although its answer is lost.
Deploy(r) ==
    /\ Going(r, "deploy")
    /\ Len(deployments) < MaxDeployments
    /\ deployments' =
          Append(deployments, [state |-> "queued", env |-> stored, commit |-> pinned])
    /\ \/ run' = [run EXCEPT ![r].phase = "await", ![r].deployment = Len(deployments) + 1]
       \/ Fail(r)
    /\ UNCHANGED <<stored, pinned, live, executions>>

\* deploy polls until the deployment is finished, of the commit that was expected.
PollDeployment(r) ==
    /\ Going(r, "await")
    /\ LET d == deployments[run[r].deployment]
       IN /\ d.state \in {"finished", "failed"}
          /\ IF d.state = "finished" /\ d.commit = r THEN To(r, "smoke") ELSE Fail(r)
    /\ UNCHANGED <<live, coolifyVars>>

\* The answers of the application show whether calendar and location are on.
Smoke(r) ==
    /\ Going(r, "smoke")
    /\ \A s \in {"calendar", "location"} : (live.env[s] # 0) = (Target(r)[s] # 0)
    /\ End(r, IF run[r].undoing THEN "rolled back" ELSE "succeeded")
    /\ UNCHANGED <<live, coolifyVars>>

Kill(r) ==
    /\ run[r].phase \notin {"idle", "done"}
    /\ End(r, "killed")
    /\ UNCHANGED <<live, coolifyVars>>

Next ==
    \/ ScheduledBackup \/ EndBackup \/ StartDeployment \/ EndDeployment
    \/ \E r \in Runs :
          \/ Begin(r) \/ RequestFails(r) \/ Pin(r) \/ ReadPin(r) \/ AskForBackup(r)
          \/ PollBackup(r) \/ Parse(r) \/ Patch(r) \/ Verify(r) \/ Deploy(r)
          \/ PollDeployment(r) \/ Smoke(r) \/ Kill(r)

Spec == Init /\ [][Next]_activationVars

-----------------------------------------------------------------------------
\* Nothing is ever on, in the stored environment or in the application that runs, without
\* what it needs, whatever fails and however often somebody tries.
FlagsInOrder == InOrder(stored) /\ InOrder(live.env)

\* A receipt is true: of success, that the application runs the commit with the change and
\* nothing else changed; of a rollback, that it runs the environment of before; of a plain
\* failure, that the environment was not touched.  And the environment is not touched
\* before a backup that began after the run did is complete.
ReceiptsHold ==
    \A r \in Runs :
       LET runs(env) == stored = env /\ live = [env |-> env, commit |-> r]
           ends(receipt) == run[r].phase # "done" /\ run'[r].receipt = receipt
       IN /\ ends("succeeded") =>
                runs([run[r].snapshot EXCEPT ![run[r].request.operation] = run[r].request.value])
          /\ ends("rolled back") => runs(run[r].snapshot)
          /\ ends("failed") => stored' = stored /\ ~run[r].attempted
          /\ stored' # stored /\ run'[r] # run[r] =>
                run[r].backup > run[r].known /\ executions[run[r].backup] = "success"

=============================================================================
