------------------------- MODULE CalendarSyncProofs -------------------------
(* CalendarSync for any number of sources, runs, pages, faults and ticks:  *)
(* its types, the inductive invariant SyncInv with the safety properties   *)
(* it contains, and the refinement of CalendarMirror.                      *)
EXTENDS CalendarSync, TLAPS

\* A run that holds nothing is a run.
LEMMA NoClaimType ==
    ASSUME NEW pc \in Phases, NEW now \in Nat
    PROVE  NoClaim(pc, now) \in Run
  BY ConstantsAssumption DEF NoClaim, Run, Null

\* advancePending returns a later value, at or after the clock it is given.
LEMMA AdvanceType ==
    ASSUME NEW current \in Nat, NEW now \in Nat
    PROVE  /\ AdvancePending(current, now) \in Nat
           /\ AdvancePending(current, now) >= now
           /\ current # Null => AdvancePending(current, now) > current
  BY DEF AdvancePending, Null

\* The times a job or request may write, also once they are made new to the row.
LEMMA TimesType ==
    ASSUME TypeOK, NEW now \in Times
    PROVE  /\ now \in Nat /\ now # Null
           /\ \A s \in Sources :
                 /\ AdvancePending(row[s].pending, now) \in Nat \ {Null}
                 /\ row[s].pending # Null =>
                       AdvancePending(row[s].pending, now) > row[s].pending
  <1>1. now \in Nat /\ now >= 1
    BY DEF Times, TypeOK
  <1>2. \A s \in Sources : row[s].pending \in Nat
    BY DEF TypeOK, Row
  <1> QED BY <1>1, <1>2 DEF AdvancePending, Null

\* The types of the fields of a run.
LEMMA RunFields ==
    ASSUME TypeOK, NEW r \in Runs
    PROVE  /\ run[r] \in Run /\ At(r) \in Sources
           /\ run[r].now \in Nat /\ run[r].lease \in Nat /\ run[r].pending \in Nat
           /\ run[r].listed \in Nat /\ run[r].token \in Nat /\ run[r].pages \in Nat
           /\ run[r].full \in BOOLEAN /\ run[r].connSame \in BOOLEAN
           /\ run[r].pc \in Phases
  BY DEF TypeOK, At, Run

\* The types of the columns of a row.
LEMMA RowFields ==
    ASSUME TypeOK, NEW s \in Sources
    PROVE  /\ row[s] \in Row
           /\ row[s].pending \in Nat /\ row[s].lease \in Nat
           /\ row[s].token \in Nat /\ row[s].mirror \in Nat
           /\ row[s].full \in BOOLEAN /\ row[s].selected \in BOOLEAN
           /\ row[s].exists \in BOOLEAN
  BY DEF TypeOK, Row

\* Leaving a claim keeps the runs well formed.
LEMMA LeaveType ==
    ASSUME TypeOK, NEW r \in Runs, Leave(r)
    PROVE  run' \in [Runs -> Run]
  BY RunFields, NoClaimType DEF Leave, Phases, TypeOK

\* So does moving on with it.
LEMMA GotoType ==
    ASSUME TypeOK, NEW r \in Runs, NEW pc \in Phases, Goto(r, pc)
    PROVE  run' \in [Runs -> Run]
  BY RunFields DEF Goto, Run, TypeOK

\* So does a write of the connection.
LEMMA TouchedType ==
    ASSUME TypeOK PROVE Touched(run) \in [Runs -> Run]
  BY RunFields DEF Touched, Run

\* Every step of a run keeps the types.
LEMMA RunStepType ==
    ASSUME TypeOK, NEW r \in Runs, RunStep(r)
    PROVE  TypeOK'
  <1> USE DEF history
  <1>1. CASE StartRun(r)
    BY <1>1, NoClaimType DEF StartRun, Phases, TypeOK
  <1>2. CASE EndRun(r)
    BY <1>2, NoClaimType DEF EndRun, Phases, TypeOK
  <1>3. CASE Find(r)
    <2>1. PICK s \in Sources : run' = [run EXCEPT ![r] = ClaimOf(s, @.now)]
      BY <1>3 DEF Find
    <2>2. ClaimOf(s, run[r].now) \in Run
      BY RunFields, RowFields, ConstantsAssumption DEF ClaimOf, Run, Phases, Null
    <2> QED BY <1>3, <2>1, <2>2 DEF Find, TypeOK
  <1>4. CASE Claim(r)
    <2>1. run' \in [Runs -> Run]
      BY <1>4, GotoType, LeaveType DEF Claim, Phases
    <2>2. row' \in [Sources -> Row]
      BY <1>4, RunFields, RowFields DEF Claim, TypeOK, Row
    <2> QED BY <1>4, <2>1, <2>2 DEF Claim, TypeOK
  <1>5. CASE Authorize(r)
    BY <1>5, GotoType DEF Authorize, Phases, TypeOK
  <1>6. CASE FetchPage(r)
    <2>1. run' \in [Runs -> Run]
      BY <1>6, RunFields DEF FetchPage, TypeOK, Run, Phases
    <2> QED BY <1>6, <2>1 DEF FetchPage, TypeOK
  <1>7. CASE Fence(r)
    <2>1. run' \in [Runs -> Run]
      BY <1>7, GotoType, LeaveType DEF Fence, Phases
    <2> QED BY <1>7, <2>1 DEF Fence, TypeOK
  <1>8. CASE CommitEvents(r)
    <2>1. Mirrored(r) \in Nat
      BY RunFields DEF Mirrored, Null
    <2>2. CommittedRow(r) \in Row
      BY <2>1, RunFields, RowFields DEF CommittedRow, Row, Null
    <2>3. row' \in [Sources -> Row] /\ fullSeen' \in [Sources -> Nat]
      BY <1>8, <2>2, RunFields DEF CommitEvents, TypeOK
    <2> QED BY <1>8, <2>3, LeaveType DEF CommitEvents, TypeOK
  <1>9. CASE Release(r)
    <2>1. row' \in [Sources -> Row]
      BY <1>9, RunFields, RowFields DEF Release, TypeOK, Row, Null
    <2> QED BY <1>9, <2>1, LeaveType DEF Release, Fail, TypeOK
  <1>10. CASE FailCloseGone(r)
    <2>0. GoneRow(r) \in Row
      BY RunFields, RowFields, AdvanceType DEF GoneRow, Row, Null
    <2>1. row' \in [Sources -> Row]
      BY <1>10, <2>0, RunFields DEF FailCloseGone, TypeOK
    <2>2. fullAsked' \in [Sources -> Nat]
      BY <1>10 DEF FailCloseGone, AskFull, TypeOK
    <2> QED BY <1>10, <2>1, <2>2, LeaveType DEF FailCloseGone, Fail, TypeOK
  <1>11. CASE MarkNeedsReauth(r)
    <2>1. row' \in [Sources -> Row]
      <3>1. [t \in Sources |-> [row[t] EXCEPT !.lease = Null]] \in [Sources -> Row]
        BY RowFields DEF Row, Null
      <3> QED BY <1>11, <3>1 DEF MarkNeedsReauth, TypeOK
    <2>2. run' \in [Runs -> Run]
      BY <1>11, RunFields, TouchedType, NoClaimType, LeaveType DEF MarkNeedsReauth, Phases
    <2> QED BY <1>11, <2>1, <2>2 DEF MarkNeedsReauth, Fail, TypeOK, Statuses
  <1>12. CASE Crash(r)
    BY <1>12, NoClaimType DEF Crash, Fail, Phases, TypeOK
  <1> QED BY <1>1, <1>2, <1>3, <1>4, <1>5, <1>6, <1>7, <1>8, <1>9, <1>10, <1>11, <1>12
          DEF RunStep

\* Asking keeps the types of the history.
LEMMA AskType ==
    ASSUME TypeOK, NEW S
    PROVE  /\ AskRefresh(S) => asked' \in [Sources -> Nat]
           /\ AskFull(S) => fullAsked' \in [Sources -> Nat]
  BY DEF AskRefresh, AskFull, TypeOK

\* A deleted row is a row.
LEMMA NoRowType ==
    ASSUME TypeOK, NEW s \in Sources PROVE NoRow(s) \in Row
  BY RowFields DEF NoRow, Row, Null

\* Every job or request on a source keeps the types.
LEMMA SourceStepType ==
    ASSUME TypeOK, NEW s \in Sources, SourceStep(s)
    PROVE  TypeOK'
  <1> USE DEF history
  <1>0. ASSUME Enqueue(s) PROVE row' \in [Sources -> Row]
    <2>1. PICK now \in Times :
             row' = [row EXCEPT ![s].pending = AdvancePending(row[s].pending, now)]
      BY <1>0 DEF Enqueue
    <2> QED BY <2>1, RowFields, TimesType DEF TypeOK, Row
  <1>1. CASE Change(s)  BY <1>1 DEF Change, TypeOK
  <1>2. CASE Webhook(s)  BY <1>2, <1>0, AskType DEF Webhook, TypeOK
  <1>3. CASE WatchCreated(s)
    BY <1>3, <1>0, AskType, TouchedType DEF WatchCreated, TypeOK
  <1>4. CASE CatchUp(s)
    <2>1. row' \in [Sources -> Row]
      BY <1>4, RowFields, TimesType DEF CatchUp, TypeOK, Row
    <2> QED BY <1>4, <2>1, AskType DEF CatchUp, TypeOK
  <1>5. CASE MarkSourceFullRequired(s)
    <2>1. row' \in [Sources -> Row]
      <3>1. PICK now \in Times :
               row' = [row EXCEPT ![s].full = TRUE,
                                  ![s].pending = AdvancePending(row[s].pending, now)]
        BY <1>5 DEF MarkSourceFullRequired
      <3> QED BY <3>1, RowFields, TimesType DEF TypeOK, Row
    <2> QED BY <1>5, <2>1, AskType DEF MarkSourceFullRequired, TypeOK
  <1>6. CASE Select(s)
    <2>1. row' \in [Sources -> Row]
      <3>1. PICK now \in Times :
               row' = [row EXCEPT ![s] = [@ EXCEPT !.selected = TRUE, !.full = TRUE,
                                                   !.pending = now, !.lease = Null]]
        BY <1>6 DEF Select
      <3> QED BY <3>1, RowFields, TimesType DEF TypeOK, Row, Null
    <2> QED BY <1>6, <2>1, AskType DEF Select, TypeOK
  <1>7. CASE Deselect(s)
    <2>1. row' \in [Sources -> Row]
      BY <1>7, RowFields DEF Deselect, TypeOK, Row, Null
    <2> QED BY <1>7, <2>1 DEF Deselect, TypeOK
  <1>8. CASE RemoveSource(s)
    BY <1>8, NoRowType, TouchedType DEF RemoveSource, TypeOK
  <1> QED BY <1>1, <1>2, <1>3, <1>4, <1>5, <1>6, <1>7, <1>8 DEF SourceStep

\* Every request on the connection keeps the types.
LEMMA ConnectionStepType ==
    ASSUME TypeOK, ConnectionStep
    PROVE  TypeOK'
  <1> USE DEF history
  <1>1. CASE TouchConnection  BY <1>1, TouchedType DEF TouchConnection, TypeOK
  <1>2. CASE Reconnect  BY <1>2, TouchedType DEF Reconnect, TypeOK, Statuses
  <1>3. CASE RelinkSources
    <2>1. row' \in [Sources -> Row]
      <3>1. PICK now \in Times :
               row' = [s \in Sources |->
                         IF s \in {x \in Sources : row[x].selected}
                         THEN [row[s] EXCEPT !.full = TRUE, !.pending = now, !.lease = Null]
                         ELSE row[s]]
        BY <1>3 DEF RelinkSources
      <3> QED BY <3>1, RowFields, TimesType DEF Row, Null
    <2> QED BY <1>3, <2>1, AskType DEF RelinkSources, TypeOK
  <1>4. CASE CallbackNeedsReauth
    BY <1>4, TouchedType DEF CallbackNeedsReauth, TypeOK, Statuses
  <1>5. CASE Disconnect  BY <1>5, TouchedType DEF Disconnect, TypeOK, Statuses
  <1>6. CASE UnleaseSources
    <2>1. row' \in [Sources -> Row]
      BY <1>6, RowFields DEF UnleaseSources, TypeOK, Row, Null
    <2> QED BY <1>6, <2>1 DEF UnleaseSources, TypeOK
  <1>7. CASE AbandonRequest  BY <1>7 DEF AbandonRequest, Fail, TypeOK
  <1>8. CASE Finalize
    BY <1>8, NoRowType, TouchedType DEF Finalize, TypeOK, Statuses
  <1> QED BY <1>1, <1>2, <1>3, <1>4, <1>5, <1>6, <1>7, <1>8 DEF ConnectionStep

\* The columns keep their types: no step leaves a row or a run half written.
THEOREM TypeCorrect == Spec => []TypeOK
  <1>1. Init => TypeOK
    BY NoClaimType DEF Init, TypeOK, Row, Null, Phases, Statuses
  <1>2. TypeOK /\ [Next]_vars => TypeOK'
    <2> SUFFICES ASSUME TypeOK, [Next]_vars PROVE TypeOK'
      OBVIOUS
    <2>1. CASE Tick  BY <2>1 DEF Tick, TypeOK, history
    <2>2. CASE UNCHANGED vars  BY <2>2 DEF TypeOK, vars
    <2> QED BY <2>1, <2>2, RunStepType, SourceStepType, ConnectionStepType DEF Next
  <1> QED BY <1>1, <1>2, PTL DEF Spec

-----------------------------------------------------------------------------
(* The inductive invariant.  Most steps leave the claims in flight as they *)
(* are and move the rows in one of four ways; LEMMA Versioned shows that   *)
(* pendingSyncAt then still is the version of its row.                     *)

\* No run takes a claim or lists anything in the step.
Carried ==
    \A q \in Runs : InFlight(q)' =>
        /\ InFlight(q)
        /\ run'[q].source = run[q].source /\ run'[q].now = run[q].now
        /\ run'[q].pending = run[q].pending /\ run'[q].lease = run[q].lease
        /\ run'[q].full = run[q].full /\ run'[q].token = run[q].token
        /\ run'[q].listed = run[q].listed
        /\ run'[q].pc = "found" => run[q].pc = "found"
        /\ run'[q].pc \in {"fence", "commit"} => run[q].pc \in {"fence", "commit"}

\* The runs that still matter to a row after the step.
Contenders(s) == {q \in Runs : Contends(q)' /\ run[q].source = s}

SameContent(s) ==
    /\ row'[s].token = row[s].token /\ row'[s].full = row[s].full
    /\ row'[s].mirror = row[s].mirror
    /\ asked'[s] = asked[s] /\ fullAsked'[s] = fullAsked[s]

Untouched(s) ==
    /\ SameContent(s) /\ row'[s].pending = row[s].pending
    /\ \A q \in Contenders(s) : Contends(q)

Advanced(s) ==
    /\ row'[s].pending # Null
    /\ \A q \in Contenders(s) : row'[s].pending > run[q].pending

Settled(s) == row'[s].pending = Null

Postponed(s) ==
    /\ SameContent(s) /\ row'[s].pending # Null
    /\ \A q \in Contenders(s) :
          /\ Contends(q)
          /\ row'[s].pending >= run[q].pending
          /\ row'[s].pending = run[q].pending => row[s].pending = run[q].pending

RowStep(s) == Untouched(s) \/ Advanced(s) \/ Settled(s) \/ Postponed(s)

\* If each row moves in one of the four ways, what the runs hold stays right.
LEMMA Versioned ==
    ASSUME TypeOK, TypeOK', RunClaims, PendingIsVersion, Carried,
           \A s \in Sources : version'[s] >= version[s],
           \A s \in Sources : RowStep(s)
    PROVE  RunClaims' /\ PendingIsVersion'
  <1>1. ASSUME NEW r \in Runs, InFlight(r)'
        PROVE  /\ InFlight(r) /\ run[r].source \in Sources
               /\ run'[r].source = run[r].source /\ run'[r].now = run[r].now
               /\ run'[r].pending = run[r].pending /\ run'[r].lease = run[r].lease
               /\ run'[r].full = run[r].full /\ run'[r].token = run[r].token
               /\ run'[r].listed = run[r].listed
               /\ run'[r].pc = "found" => run[r].pc = "found"
               /\ run'[r].pc \in {"fence", "commit"} => run[r].pc \in {"fence", "commit"}
    BY <1>1, RunFields DEF Carried, At
  <1>2. RunClaims'
    <2> SUFFICES ASSUME NEW r \in Runs, InFlight(r)'
        PROVE  /\ run'[r].pending # Null /\ run'[r].pending <= run'[r].now
               /\ run'[r].lease = run'[r].now + LeaseTime
               /\ run'[r].listed <= version'[At(r)']
               /\ run'[r].pc \in {"fence", "commit"} => run'[r].listed # Null
      BY DEF RunClaims, Null
    <2>1. /\ run[r].pending # Null /\ run[r].pending <= run[r].now
          /\ run[r].lease = run[r].now + LeaseTime
          /\ run[r].listed <= version[run[r].source]
          /\ run[r].pc \in {"fence", "commit"} => run[r].listed # Null
      BY <1>1 DEF RunClaims, At
    <2>2. /\ version[run[r].source] \in Nat /\ version'[run[r].source] \in Nat
          /\ version'[run[r].source] >= version[run[r].source] /\ run[r].listed \in Nat
      BY <1>1, RunFields DEF TypeOK
    <2> QED BY <1>1, <2>1, <2>2 DEF At
  <1>3. PendingIsVersion'
    <2> SUFFICES ASSUME NEW r \in Runs, Contends(r)'
        PROVE  /\ row'[At(r)'].pending = run'[r].pending => UpToDate(r)'
               /\ row'[At(r)'].pending # Null => row'[At(r)'].pending >= run'[r].pending
      BY DEF PendingIsVersion, Null
    <2>1. InFlight(r)'
      BY DEF Contends, InFlight
    <2>2. PICK s \in Sources : s = run[r].source
      BY <1>1, <2>1
    <2>3. r \in Contenders(s) /\ At(r)' = s /\ At(r) = s /\ run'[r].pending = run[r].pending
      BY <1>1, <2>1, <2>2 DEF Contenders, At
    <2>4. run[r].pending # Null /\ run[r].pending \in Nat
          /\ row[s].pending \in Nat /\ row'[s].pending \in Nat
      BY <1>1, <2>1, RunFields, RowFields DEF RunClaims, TypeOK, Row
    <2>5. ASSUME Contends(r)
          PROVE  /\ row[s].pending = run[r].pending => UpToDate(r)
                 /\ row[s].pending # Null => row[s].pending >= run[r].pending
      BY <2>3, <2>5 DEF PendingIsVersion
    <2>6. ASSUME row'[s].pending = run[r].pending PROVE UpToDate(r)'
      <3>1. row[s].pending = run[r].pending /\ SameContent(s) /\ Contends(r)
        BY <2>3, <2>4, <2>6 DEF RowStep, Untouched, Advanced, Settled, Postponed
      <3> QED BY <1>1, <2>1, <2>3, <2>5, <3>1 DEF UpToDate, SameContent
    <2>7. ASSUME row'[s].pending # Null PROVE row'[s].pending >= run[r].pending
      BY <2>3, <2>4, <2>5, <2>7 DEF RowStep, Untouched, Advanced, Settled, Postponed
    <2> QED BY <2>3, <2>6, <2>7
  <1> QED BY <1>2, <1>3

\* What SyncInv says of one source.
RowInv(s) ==
    /\ row[s].mirror <= version[s] /\ asked[s] <= version[s]
    /\ fullAsked[s] <= version[s]
    /\ row[s].pending = Null => row[s].lease = Null
    /\ row[s].selected /\ row[s].pending = Null => row[s].mirror >= asked[s]
    /\ row[s].selected /\ ~row[s].full => fullSeen[s] >= fullAsked[s]
    /\ row[s].token # Null => row[s].mirror = row[s].token

\* SyncInv, source by source.
LEMMA SyncInvSplit ==
    SyncInv <=> RunTimes /\ RunClaims /\ PendingIsVersion /\ \A s \in Sources : RowInv(s)
  BY DEF SyncInv, RowInv, RowsSane, NoLostNotification, FullListingHonoured, TokenMatchesEvents

\* The same after a step.
LEMMA SyncInvSplitNext ==
    SyncInv' <=>
        RunTimes' /\ RunClaims' /\ PendingIsVersion' /\ \A s \in Sources : RowInv(s)'
  BY DEF SyncInv, RowInv, RowsSane, NoLostNotification, FullListingHonoured, TokenMatchesEvents

\* A step after which each source either is as it was or obeys RowStep and RowInv.
LEMMA RowsMove ==
    ASSUME TypeOK, TypeOK', SyncInv, Carried, RunTimes',
           \A s \in Sources : version'[s] >= version[s],
           \A s \in Sources : RowStep(s) /\ RowInv(s)'
    PROVE  SyncInv'
  BY Versioned, SyncInvSplit, SyncInvSplitNext

\* What a run holds once it has its claim, or before.
LEMMA ContendsBefore ==
    ASSUME TypeOK, SyncInv, Carried, NEW s \in Sources, NEW q \in Contenders(s)
    PROVE  /\ q \in Runs /\ InFlight(q) /\ At(q) = s
           /\ run[q].pending # Null /\ run[q].pending \in Nat
           /\ run[q].lease # Null /\ run[q].lease \in Nat
           /\ run[q].pc = "found" \/ row'[s].lease = run[q].lease
  <1>1. q \in Runs /\ Contends(q)' /\ run[q].source = s
    BY DEF Contenders
  <1>2. InFlight(q)'
    BY <1>1 DEF Contends, InFlight
  <1>3. InFlight(q) /\ At(q) = s /\ At(q)' = s /\ run'[q].lease = run[q].lease
        /\ (run'[q].pc = "found" => run[q].pc = "found")
    BY <1>1, <1>2 DEF Carried, At
  <1>4. /\ run[q].pending # Null /\ run[q].lease = run[q].now + LeaseTime
        /\ run[q].now \in 1 .. clock
    BY <1>1, <1>3, SyncInvSplit DEF RunClaims, RunTimes, InFlight
  <1>5. run[q].lease # Null
    BY <1>1, <1>4, RunFields, ConstantsAssumption DEF Null
  <1> QED BY <1>1, <1>3, <1>4, <1>5, RunFields DEF Contends

\* A lease that stays, or goes, leaves no new run in contention.
LEMMA LeaseKept ==
    ASSUME TypeOK, SyncInv, Carried, NEW s \in Sources,
           row'[s].lease = row[s].lease \/ row'[s].lease = Null
    PROVE  \A q \in Contenders(s) :
              /\ Contends(q) /\ At(q) = s
              /\ row[s].pending # Null => row[s].pending >= run[q].pending
  <1> SUFFICES ASSUME NEW q \in Contenders(s)
      PROVE  /\ Contends(q) /\ At(q) = s
             /\ row[s].pending # Null => row[s].pending >= run[q].pending
    OBVIOUS
  <1>1. Contends(q) /\ At(q) = s /\ q \in Runs
    BY ContendsBefore DEF Contends
  <1> QED BY <1>1, SyncInvSplit DEF PendingIsVersion

\* A source that a step does not touch.
LEMMA StillSame ==
    ASSUME TypeOK, SyncInv, Carried, NEW s \in Sources, row'[s] = row[s],
           version'[s] = version[s], asked'[s] = asked[s], fullAsked'[s] = fullAsked[s],
           fullSeen'[s] = fullSeen[s]
    PROVE  RowStep(s) /\ RowInv(s)'
  BY LeaseKept, SyncInvSplit DEF RowStep, Untouched, SameContent, RowInv

\* A step that moves no row, nor the provider.
LEMMA RunsOnly ==
    ASSUME TypeOK, TypeOK', SyncInv, Carried, RunTimes', UNCHANGED <<row, version, history>>
    PROVE  SyncInv'
  <1>1. \A s \in Sources : RowStep(s) /\ RowInv(s)'
    BY StillSame DEF history
  <1>2. \A s \in Sources : version'[s] >= version[s]
    BY DEF TypeOK
  <1> QED BY <1>1, <1>2, RowsMove

-----------------------------------------------------------------------------
(* Runs that let go of their claim, or move on with it.                    *)

\* No run starts in the step.
LEMMA TimesKept ==
    ASSUME TypeOK, RunTimes, clock' >= clock, clock' \in Nat,
           \A q \in Runs : run'[q].pc # "idle" =>
                              run[q].pc # "idle" /\ run'[q].now = run[q].now
    PROVE  RunTimes'
  BY RunFields DEF RunTimes, TypeOK

\* A run that leaves carries nothing away.
LEMMA LeaveCarried ==
    ASSUME TypeOK, SyncInv, NEW r \in Runs, NEW now \in Nat,
           NEW pc \in {"idle", "find"}, run[r].pc # "idle",
           pc # "idle" => now = run[r].now,
           run' = [run EXCEPT ![r] = NoClaim(pc, now)], clock' = clock
    PROVE  Carried /\ RunTimes' /\ ~InFlight(r)'
  <1>1. run'[r] = NoClaim(pc, now) /\ \A q \in Runs : q # r => run'[q] = run[q]
    BY DEF TypeOK
  <1>2. run'[r].pc = pc /\ run'[r].now = now
    BY <1>1 DEF NoClaim
  <1>3. Carried /\ ~InFlight(r)'
    BY <1>1, <1>2 DEF Carried, InFlight
  <1>4. clock' >= clock /\ clock' \in Nat
    BY DEF TypeOK
  <1>5. \A q \in Runs : run'[q].pc # "idle" =>
                           run[q].pc # "idle" /\ run'[q].now = run[q].now
    BY <1>1, <1>2
  <1>6. RunTimes'
    BY <1>4, <1>5, TimesKept, SyncInvSplit
  <1> QED BY <1>3, <1>6

\* runNextSource returns.
LEMMA LeaveStep ==
    ASSUME TypeOK, SyncInv, NEW r \in Runs, Leave(r), run[r].pc # "idle", clock' = clock
    PROVE  Carried /\ RunTimes' /\ ~InFlight(r)'
  <1>1. run' = [run EXCEPT ![r] = NoClaim("find", run[r].now)] /\ run[r].now \in Nat
    BY RunFields DEF Leave
  <1> QED BY <1>1, LeaveCarried

\* A run that moves on keeps its claim.
LEMMA GotoCarried ==
    ASSUME TypeOK, SyncInv, NEW r \in Runs, NEW pc \in Phases, Goto(r, pc), InFlight(r),
           pc # "found", pc \in {"fence", "commit"} => run[r].pc \in {"fence", "commit"},
           clock' = clock
    PROVE  Carried /\ RunTimes'
  <1>1. \A q \in Runs : q # r => run'[q] = run[q]
    BY DEF Goto, TypeOK
  <1>2. /\ run'[r].pc = pc /\ run'[r].source = run[r].source /\ run'[r].now = run[r].now
        /\ run'[r].pending = run[r].pending /\ run'[r].lease = run[r].lease
        /\ run'[r].full = run[r].full /\ run'[r].token = run[r].token
        /\ run'[r].listed = run[r].listed
    BY RunFields DEF Goto, TypeOK, Run
  <1>3. Carried
    BY <1>1, <1>2 DEF Carried, InFlight
  <1>4. clock' >= clock /\ clock' \in Nat
    BY DEF TypeOK
  <1>5. \A q \in Runs : run'[q].pc # "idle" =>
                           run[q].pc # "idle" /\ run'[q].now = run[q].now
    BY <1>1, <1>2 DEF InFlight
  <1>6. RunTimes'
    BY <1>4, <1>5, TimesKept, SyncInvSplit
  <1> QED BY <1>3, <1>6

\* A write of the connection takes no claim away, nor does it when one run leaves
\* in the same step.
LEMMA TouchedCarried ==
    ASSUME TypeOK, SyncInv, clock' = clock,
           \/ run' = Touched(run)
           \/ \E r \in Runs : /\ run[r].pc # "idle"
                              /\ run' = [Touched(run) EXCEPT ![r] = NoClaim("find", run[r].now)]
    PROVE  Carried /\ RunTimes'
  <1>1. ASSUME NEW q \in Runs, run'[q] = [run[q] EXCEPT !.connSame = FALSE]
        PROVE  /\ InFlight(q)' = InFlight(q)
               /\ run'[q].source = run[q].source /\ run'[q].now = run[q].now
               /\ run'[q].pending = run[q].pending /\ run'[q].lease = run[q].lease
               /\ run'[q].full = run[q].full /\ run'[q].token = run[q].token
               /\ run'[q].listed = run[q].listed /\ run'[q].pc = run[q].pc
    <2>1. run'[q].pc = run[q].pc
      BY <1>1, RunFields DEF Run
    <2> QED BY <1>1, <2>1, RunFields DEF Run, InFlight
  <1>2. ASSUME NEW q \in Runs, run'[q] = NoClaim("find", run[q].now)
        PROVE  run'[q].pc = "find" /\ run'[q].now = run[q].now /\ ~InFlight(q)'
    BY <1>2 DEF NoClaim, InFlight
  <1>3. \A q \in Runs : \/ run'[q] = [run[q] EXCEPT !.connSame = FALSE]
                        \/ run[q].pc # "idle" /\ run'[q] = NoClaim("find", run[q].now)
    BY DEF Touched
  <1>4. Carried
    BY <1>1, <1>2, <1>3 DEF Carried
  <1>5. clock' >= clock /\ clock' \in Nat
    BY DEF TypeOK
  <1>6. \A q \in Runs : run'[q].pc # "idle" =>
                           run[q].pc # "idle" /\ run'[q].now = run[q].now
    BY <1>1, <1>2, <1>3
  <1>7. RunTimes'
    BY <1>5, <1>6, TimesKept, SyncInvSplit
  <1> QED BY <1>4, <1>7

\* Time alone takes no claim away.
LEMMA SameCarried ==
    ASSUME TypeOK, SyncInv, run' = run, clock' >= clock, clock' \in Nat
    PROVE  Carried /\ RunTimes'
  <1>1. Carried
    BY DEF Carried, InFlight
  <1> QED BY <1>1, TimesKept, SyncInvSplit

-----------------------------------------------------------------------------
(* One lemma for each kind of step that moves a row or takes a claim.      *)

\* StartRun: the new run's time is that of no other.
LEMMA StartInv ==
    ASSUME TypeOK, TypeOK', SyncInv, NEW r \in Runs, StartRun(r)
    PROVE  SyncInv'
  <1>1. /\ run'[r] = NoClaim("find", clock) /\ \A q \in Runs : q # r => run'[q] = run[q]
        /\ \A q \in Runs : run[q].pc # "idle" => run[q].now # clock
        /\ clock' = clock /\ clock \in Nat \ {0}
    BY DEF StartRun, TypeOK
  <1>2. run'[r].pc = "find" /\ run'[r].now = clock
    BY <1>1 DEF NoClaim
  <1>3. Carried
    BY <1>1, <1>2 DEF Carried, InFlight
  <1>4. RunTimes'
    BY <1>1, <1>2, SyncInvSplit DEF RunTimes
  <1> QED BY <1>3, <1>4, RunsOnly DEF StartRun, history

\* Find: the row is read as it is, nothing is listed yet.
LEMMA FindInv ==
    ASSUME TypeOK, TypeOK', SyncInv, NEW r \in Runs, Find(r)
    PROVE  SyncInv'
  <1>1. PICK s \in Sources :
          Claimable(s, run[r].now) /\ run' = [run EXCEPT ![r] = ClaimOf(s, run[r].now)]
    BY DEF Find
  <1>2. UNCHANGED <<row, version, clock, asked, fullAsked, fullSeen>> /\ run[r].pc = "find"
    BY DEF Find, history
  <1>3. run'[r] = ClaimOf(s, run[r].now) /\ \A q \in Runs : q # r => run'[q] = run[q]
    BY <1>1 DEF TypeOK
  <1>4. /\ run[r].now \in Nat /\ row[s].pending \in Nat /\ row[s].pending # Null
        /\ row[s].pending <= run[r].now /\ version[s] \in Nat
    BY <1>1, RunFields, RowFields DEF Claimable, TypeOK
  <1>5. /\ run'[r].pc = "found" /\ run'[r].source = s /\ run'[r].now = run[r].now
        /\ run'[r].pending = row[s].pending /\ run'[r].lease = run[r].now + LeaseTime
        /\ run'[r].listed = 0 /\ run'[r].token = row[s].token
        /\ run'[r].full = (row[s].full \/ row[s].token = Null)
    BY <1>3 DEF ClaimOf, Null
  <1>6. ASSUME NEW q \in Runs, q # r
        PROVE  /\ run'[q] = run[q] /\ InFlight(q)' = InFlight(q) /\ At(q)' = At(q)
               /\ Contends(q)' = Contends(q) /\ UpToDate(q)' = UpToDate(q)
    BY <1>2, <1>3, <1>6 DEF InFlight, At, Contends, UpToDate
  <1>7. RunTimes'
    <2>1. clock' >= clock /\ clock' \in Nat
      BY <1>2 DEF TypeOK
    <2>2. \A q \in Runs : run'[q].pc # "idle" =>
                             run[q].pc # "idle" /\ run'[q].now = run[q].now
      BY <1>2, <1>3, <1>5
    <2> QED BY <2>1, <2>2, TimesKept, SyncInvSplit
  <1>8. RunClaims'
    BY <1>2, <1>4, <1>5, <1>6, SyncInvSplit DEF RunClaims, At, Null
  <1>9. PendingIsVersion'
    <2>1. At(r)' = s /\ row' = row
      BY <1>2, <1>5 DEF At
    <2>2. run'[r].full <=> row'[At(r)'].full \/ row'[At(r)'].token = Null
      BY <1>5, <2>1
    <2>3. UpToDate(r)'
      BY <1>5, <2>1, <2>2 DEF UpToDate, Null
    <2> QED BY <1>2, <1>4, <1>5, <1>6, <2>1, <2>3, SyncInvSplit DEF PendingIsVersion
  <1>10. \A t \in Sources : RowInv(t)'
    BY <1>2, SyncInvSplit DEF RowInv
  <1> QED BY <1>7, <1>8, <1>9, <1>10, SyncInvSplitNext

\* Claim: the lease is that of no other run, so nobody else stays in contention.
LEMMA ClaimInv ==
    ASSUME TypeOK, TypeOK', SyncInv, NEW r \in Runs, Claim(r)
    PROVE  SyncInv'
  <1>0. PICK s \in Sources : s = At(r)
    BY RunFields
  <1>1. UNCHANGED <<version, clock, asked, fullAsked, fullSeen>> /\ run[r].pc = "found"
    BY DEF Claim, history
  <1>2. CASE Leave(r) /\ UNCHANGED row
    BY <1>1, <1>2, LeaveStep, RunsOnly DEF history
  <1>3. CASE /\ row' = [row EXCEPT ![s].lease = run[r].lease] /\ Goto(r, "authorize")
             /\ row[s].pending = run[r].pending
    <2>1. Carried /\ RunTimes'
      BY <1>1, <1>3, GotoCarried DEF InFlight, Phases
    <2>2. InFlight(r) /\ Contends(r) /\ run[r].pending # Null
      BY <1>1, SyncInvSplit DEF InFlight, Contends, RunClaims
    <2>3. /\ row'[s].lease = run[r].lease /\ row'[s].pending = row[s].pending
          /\ row'[s].token = row[s].token /\ row'[s].full = row[s].full
          /\ row'[s].mirror = row[s].mirror /\ row'[s].selected = row[s].selected
      BY <1>3, RowFields DEF TypeOK, Row
    <2>4. \A q \in Contenders(s) : Contends(q)
      <3> SUFFICES ASSUME NEW q \in Contenders(s), run[q].pc # "found", q # r
                   PROVE  FALSE
        BY <2>2 DEF Contends
      <3>1. /\ q \in Runs /\ InFlight(q) /\ row'[s].lease = run[q].lease
        BY <2>1, ContendsBefore
      <3>2. run[q].now # run[r].now
        BY <1>1, <3>1, SyncInvSplit DEF RunTimes, InFlight
      <3>3. run[q].lease = run[q].now + LeaseTime /\ run[r].lease = run[r].now + LeaseTime
        BY <2>2, <3>1, SyncInvSplit DEF RunClaims
      <3>4. run[q].now \in Nat /\ run[r].now \in Nat /\ LeaseTime \in Nat
        BY <3>1, RunFields, ConstantsAssumption
      <3>5. run[q].lease # run[r].lease
        BY <3>2, <3>3, <3>4
      <3> QED BY <2>3, <3>1, <3>5
    <2>5. RowStep(s) /\ RowInv(s)'
      BY <1>1, <1>3, <2>2, <2>3, <2>4, SyncInvSplit DEF RowStep, Untouched, SameContent, RowInv
    <2>6. \A t \in Sources : RowStep(t) /\ RowInv(t)'
      BY <1>1, <1>3, <2>1, <2>5, StillSame DEF TypeOK
    <2>7. \A t \in Sources : version'[t] >= version[t]
      BY <1>1 DEF TypeOK
    <2> QED BY <2>1, <2>6, <2>7, RowsMove
  <1> QED BY <1>0, <1>2, <1>3 DEF Claim

\* FetchPage: the first page shows what the provider holds now.
LEMMA FetchInv ==
    ASSUME TypeOK, TypeOK', SyncInv, NEW r \in Runs, FetchPage(r)
    PROVE  SyncInv'
  <1>0. PICK s \in Sources : s = At(r)
    BY RunFields
  <1>1. UNCHANGED <<row, version, clock, asked, fullAsked, fullSeen>>
    BY DEF FetchPage, history
  <1>2. /\ run'[r].pc = "fence" /\ run'[r].source = s /\ run'[r].now = run[r].now
        /\ run'[r].pending = run[r].pending /\ run'[r].lease = run[r].lease
        /\ run'[r].full = run[r].full /\ run'[r].token = run[r].token
        /\ run'[r].listed = IF run[r].listed = Null THEN version[s] ELSE run[r].listed
        /\ run[r].pc = "fetch"
    BY <1>0, RunFields DEF FetchPage, TypeOK, Run, At
  <1>3. \A q \in Runs : q # r => run'[q] = run[q]
    BY DEF FetchPage, TypeOK
  <1>4. version[s] \in Nat \ {0} /\ run[r].listed \in Nat
        /\ asked[s] <= version[s] /\ fullAsked[s] <= version[s] /\ row[s].mirror <= version[s]
    BY RunFields, SyncInvSplit DEF TypeOK, RowInv
  <1>5. At(r)' = s /\ InFlight(r) /\ InFlight(r)' /\ Contends(r)' = Contends(r)
    BY <1>0, <1>1, <1>2 DEF At, InFlight, Contends
  <1>6. ASSUME NEW q \in Runs, q # r
        PROVE  /\ run'[q] = run[q] /\ InFlight(q)' = InFlight(q) /\ At(q)' = At(q)
               /\ Contends(q)' = Contends(q) /\ UpToDate(q)' = UpToDate(q)
    BY <1>1, <1>3, <1>6 DEF InFlight, At, Contends, UpToDate
  <1>7. RunTimes'
    <2>1. clock' >= clock /\ clock' \in Nat
      BY <1>1 DEF TypeOK
    <2>2. \A q \in Runs : run'[q].pc # "idle" =>
                             run[q].pc # "idle" /\ run'[q].now = run[q].now
      BY <1>2, <1>3
    <2> QED BY <2>1, <2>2, TimesKept, SyncInvSplit
  <1>8. RunClaims'
    BY <1>0, <1>1, <1>2, <1>4, <1>5, <1>6, SyncInvSplit DEF RunClaims, Null
  <1>9. PendingIsVersion'
    <2>1. UpToDate(r) => UpToDate(r)'
      BY <1>0, <1>1, <1>2, <1>4, <1>5 DEF UpToDate, Null
    <2> QED BY <1>0, <1>1, <1>2, <1>5, <1>6, <2>1, SyncInvSplit DEF PendingIsVersion
  <1>10. \A t \in Sources : RowInv(t)'
    BY <1>1, SyncInvSplit DEF RowInv
  <1> QED BY <1>7, <1>8, <1>9, <1>10, SyncInvSplitNext

\* What a fenced run knows when it commits.
LEMMA FencedUpToDate ==
    ASSUME TypeOK, SyncInv, NEW r \in Runs, run[r].pc = "commit", Fenced(r)
    PROVE  /\ UpToDate(r) /\ InFlight(r)
           /\ row[At(r)].pending = run[r].pending /\ row[At(r)].pending # Null
           /\ run[r].listed # Null /\ run[r].listed <= version[At(r)]
           /\ Mirrored(r) = run[r].listed
  <1>1. InFlight(r) /\ Contends(r)
    BY DEF InFlight, Contends, Fenced
  <1>2. UpToDate(r)
    BY <1>1, SyncInvSplit DEF PendingIsVersion, Fenced
  <1>3. run[r].listed # Null /\ run[r].listed <= version[At(r)] /\ run[r].pending # Null
    BY <1>1, SyncInvSplit DEF RunClaims
  <1>4. Mirrored(r) = run[r].listed
    BY <1>2, RunFields, RowFields, SyncInvSplit DEF Mirrored, UpToDate, RowInv
  <1> QED BY <1>1, <1>2, <1>3, <1>4 DEF Fenced

\* CommitEvents: a fenced run settles all that was asked before its listing.
LEMMA CommitInv ==
    ASSUME TypeOK, TypeOK', SyncInv, NEW r \in Runs, CommitEvents(r)
    PROVE  SyncInv'
  <1>0. PICK s \in Sources : s = At(r)
    BY RunFields
  <1>1. Carried /\ RunTimes'
    BY LeaveStep DEF CommitEvents
  <1>2. UNCHANGED <<version, clock, asked, fullAsked>>
    BY DEF CommitEvents
  <1>3. CASE ~Fenced(r)
    BY <1>1, <1>3, RunsOnly DEF CommitEvents, history
  <1>4. CASE Fenced(r)
    <2>1. /\ UpToDate(r) /\ run[r].listed # Null /\ run[r].listed <= version[s]
          /\ Mirrored(r) = run[r].listed
      BY <1>0, <1>4, FencedUpToDate DEF CommitEvents
    <2>2. /\ row' = [row EXCEPT ![s] = CommittedRow(r)]
          /\ fullSeen' = IF run[r].full THEN [fullSeen EXCEPT ![s] = run[r].listed] ELSE fullSeen
      BY <1>0, <1>4 DEF CommitEvents
    <2>3. /\ row'[s].mirror = run[r].listed /\ row'[s].token = run[r].listed
          /\ row'[s].full = FALSE /\ row'[s].pending = Null /\ row'[s].lease = Null
          /\ row'[s].selected = row[s].selected
      BY <1>0, <2>1, <2>2, RowFields DEF CommittedRow, TypeOK, Row
    <2>4. RowStep(s)
      BY <2>3 DEF RowStep, Settled
    <2>5. RowInv(s)'
      <3>1. fullSeen'[s] >= fullAsked[s]
        BY <1>0, <2>1, <2>2, <1>4, RunFields, SyncInvSplit DEF TypeOK, UpToDate, RowInv, Fenced
      <3> QED BY <1>0, <1>2, <2>1, <2>2, <2>3, <3>1, SyncInvSplit DEF RowInv, UpToDate
    <2>6. \A t \in Sources : RowStep(t) /\ RowInv(t)'
      BY <1>1, <1>2, <2>2, <2>4, <2>5, StillSame DEF TypeOK
    <2>7. \A t \in Sources : version'[t] >= version[t]
      BY <1>2 DEF TypeOK
    <2> QED BY <1>1, <2>6, <2>7, RowsMove
  <1> QED BY <1>3, <1>4

\* Release: a backoff may leave pendingSyncAt where it was, but then nothing changed.
LEMMA ReleaseInv ==
    ASSUME TypeOK, TypeOK', SyncInv, NEW r \in Runs, Release(r)
    PROVE  SyncInv'
  <1>0. PICK s \in Sources : s = At(r)
    BY RunFields
  <1>1. Carried /\ RunTimes' /\ InFlight(r)
    BY LeaveStep DEF Release, InFlight
  <1>2. UNCHANGED <<version, clock, asked, fullAsked, fullSeen>>
    BY DEF Release, history
  <1>3. /\ run[r].pending # Null /\ run[r].pending <= run[r].now
        /\ run[r].pending \in Nat /\ run[r].now \in Nat
    BY <1>1, RunFields, SyncInvSplit DEF RunClaims
  <1>4. RowInv(s) /\ row[s].pending \in Nat
    BY SyncInvSplit, RowFields
  <1>5. RowStep(s) /\ RowInv(s)'
    <2>1. CASE row' = row
      BY <1>1, <1>2, <2>1, StillSame
    <2>2. CASE row' = [row EXCEPT ![s].lease = Null]
      <3>1. /\ row'[s].lease = Null /\ row'[s].pending = row[s].pending
            /\ row'[s].token = row[s].token /\ row'[s].full = row[s].full
            /\ row'[s].mirror = row[s].mirror /\ row'[s].selected = row[s].selected
        BY <2>2, RowFields DEF TypeOK, Row
      <3> QED BY <1>1, <1>2, <1>4, <3>1, LeaseKept
              DEF RowStep, Untouched, SameContent, RowInv
    <2>3. ASSUME row[s].pending = run[r].pending, NEW j \in 0 .. JitterTime,
                 row' = [row EXCEPT ![s].lease = Null, ![s].pending = run[r].now + j]
          PROVE  RowStep(s) /\ RowInv(s)'
      <3>1. /\ row'[s].pending = run[r].now + j /\ row'[s].lease = Null
            /\ row'[s].token = row[s].token /\ row'[s].full = row[s].full
            /\ row'[s].mirror = row[s].mirror /\ row'[s].selected = row[s].selected
        BY <2>3, RowFields DEF TypeOK, Row
      <3>2. run[r].now + j \in Nat /\ run[r].now + j >= run[r].pending /\ run[r].now + j # Null
        BY <1>3, <2>3 DEF Null
      <3>3. \A q \in Contenders(s) :
              /\ Contends(q)
              /\ row'[s].pending >= run[q].pending
              /\ row'[s].pending = run[q].pending => row[s].pending = run[q].pending
        <4> SUFFICES ASSUME NEW q \in Contenders(s)
            PROVE  /\ Contends(q)
                   /\ row'[s].pending >= run[q].pending
                   /\ row'[s].pending = run[q].pending => row[s].pending = run[q].pending
          OBVIOUS
        <4>1. Contends(q) /\ row[s].pending >= run[q].pending /\ run[q].pending \in Nat
          BY <1>1, <1>3, <2>3, <3>1, LeaseKept, ContendsBefore
        <4> QED BY <1>3, <2>3, <3>1, <3>2, <4>1
      <3> QED BY <1>2, <1>4, <2>3, <3>1, <3>2, <3>3
              DEF RowStep, Postponed, SameContent, RowInv
    <2> QED BY <1>0, <2>1, <2>2, <2>3 DEF Release
  <1>6. \A t \in Sources : t # s => row'[t] = row[t]
    BY <1>0 DEF Release, TypeOK
  <1>7. \A t \in Sources : RowStep(t) /\ RowInv(t)'
    BY <1>1, <1>2, <1>5, <1>6, StillSame
  <1> QED BY <1>1, <1>2, <1>7, RowsMove DEF TypeOK

\* FailCloseGone: the row starts over at a later version.
LEMMA GoneInv ==
    ASSUME TypeOK, TypeOK', SyncInv, NEW r \in Runs, FailCloseGone(r)
    PROVE  SyncInv'
  <1>0. PICK s \in Sources : s = At(r)
    BY RunFields
  <1>1. Carried /\ RunTimes' /\ InFlight(r)
    BY LeaveStep DEF FailCloseGone, InFlight
  <1>2. UNCHANGED <<version, clock, asked, fullSeen>>
    BY DEF FailCloseGone
  <1>3. CASE row[s].lease # run[r].lease
    BY <1>0, <1>1, <1>3, RunsOnly DEF FailCloseGone, history
  <1>4. CASE row[s].lease = run[r].lease
    <2>1. row' = [row EXCEPT ![s] = GoneRow(r)] /\ AskFull({s})
      BY <1>0, <1>4 DEF FailCloseGone
    <2>2. RowInv(s) /\ row[s].pending \in Nat /\ row[s].pending # Null
      <3>1. run[r].lease # Null
        BY <1>1, RunFields, ConstantsAssumption, SyncInvSplit DEF RunClaims, Null
      <3> QED BY <1>4, <3>1, SyncInvSplit, RowFields DEF RowInv
    <2>3. /\ row'[s].mirror = Null /\ row'[s].token = Null /\ row'[s].lease = Null
          /\ row'[s].full = TRUE
          /\ row'[s].pending = AdvancePending(row[s].pending, run[r].now)
      BY <1>0, <2>1, <2>2, RowFields DEF GoneRow, TypeOK, Row
    <2>4. row'[s].pending > row[s].pending /\ row'[s].pending \in Nat
      BY <2>2, <2>3, AdvanceType, RunFields
    <2>5. \A q \in Contenders(s) : row'[s].pending > run[q].pending
      <3> SUFFICES ASSUME NEW q \in Contenders(s) PROVE row'[s].pending > run[q].pending
        OBVIOUS
      <3>1. row[s].pending >= run[q].pending /\ run[q].pending \in Nat
        BY <1>1, <2>2, <2>3, LeaseKept, ContendsBefore
      <3> QED BY <2>2, <2>4, <3>1
    <2>6. RowStep(s)
      BY <2>2, <2>4, <2>5 DEF RowStep, Advanced, Null
    <2>7. RowInv(s)'
      <3>1. fullAsked'[s] = version[s] /\ version[s] \in Nat
        BY <2>1 DEF AskFull, TypeOK
      <3> QED BY <1>2, <2>2, <2>3, <2>4, <3>1 DEF RowInv, Null
    <2>8. \A t \in Sources : t # s => row'[t] = row[t] /\ fullAsked'[t] = fullAsked[t]
      BY <2>1 DEF TypeOK, AskFull
    <2>9. \A t \in Sources : RowStep(t) /\ RowInv(t)'
      BY <1>1, <1>2, <2>6, <2>7, <2>8, StillSame
    <2> QED BY <1>1, <1>2, <2>9, RowsMove DEF TypeOK
  <1> QED BY <1>3, <1>4

\* Leases may go at any time, also all of them at once.
LEMMA UnleaseInv ==
    ASSUME TypeOK, TypeOK', SyncInv, Carried, RunTimes',
           row' = [s \in Sources |-> [row[s] EXCEPT !.lease = Null]],
           UNCHANGED <<version, history>>
    PROVE  SyncInv'
  <1>1. \A s \in Sources :
          /\ row'[s].pending = row[s].pending /\ row'[s].lease = Null
          /\ row'[s].token = row[s].token /\ row'[s].full = row[s].full
          /\ row'[s].mirror = row[s].mirror /\ row'[s].selected = row[s].selected
    BY RowFields DEF Row
  <1>2. \A s \in Sources : RowStep(s) /\ RowInv(s)'
    BY <1>1, LeaseKept, SyncInvSplit DEF RowStep, Untouched, SameContent, RowInv, history
  <1> QED BY <1>2, RowsMove DEF TypeOK

\* Every step of a run keeps the invariant.
LEMMA RunStepInv ==
    ASSUME TypeOK, TypeOK', SyncInv, NEW r \in Runs, RunStep(r)
    PROVE  SyncInv'
  <1>1. CASE StartRun(r)  BY <1>1, StartInv
  <1>2. CASE EndRun(r)
    <2>1. run' = [run EXCEPT ![r] = NoClaim("idle", 0)] /\ clock' = clock /\ run[r].pc # "idle"
      BY <1>2 DEF EndRun
    <2>2. Carried /\ RunTimes'
      BY <2>1, LeaveCarried
    <2> QED BY <1>2, <2>2, RunsOnly DEF EndRun
  <1>3. CASE Find(r)  BY <1>3, FindInv
  <1>4. CASE Claim(r)  BY <1>4, ClaimInv
  <1>5. CASE Authorize(r)
    <2>1. Carried /\ RunTimes'
      BY <1>5, GotoCarried DEF Authorize, InFlight, Phases
    <2> QED BY <1>5, <2>1, RunsOnly DEF Authorize
  <1>6. CASE FetchPage(r)  BY <1>6, FetchInv
  <1>7. CASE Fence(r)
    <2>1. Carried /\ RunTimes'
      BY <1>7, GotoCarried, LeaveStep DEF Fence, InFlight, Phases
    <2> QED BY <1>7, <2>1, RunsOnly DEF Fence
  <1>8. CASE CommitEvents(r)  BY <1>8, CommitInv
  <1>9. CASE Release(r)  BY <1>9, ReleaseInv
  <1>10. CASE FailCloseGone(r)  BY <1>10, GoneInv
  <1>11. CASE MarkNeedsReauth(r)
    <2>0. clock' = clock /\ run[r].pc # "idle" /\ UNCHANGED <<version, history>>
      BY <1>11 DEF MarkNeedsReauth
    <2>1. CASE Leave(r) /\ UNCHANGED row
      BY <2>0, <2>1, LeaveStep, RunsOnly
    <2>2. CASE /\ row' = [t \in Sources |-> [row[t] EXCEPT !.lease = Null]]
               /\ run' = [Touched(run) EXCEPT ![r] = NoClaim("find", run[r].now)]
      <3>1. Carried /\ RunTimes'
        BY <2>0, <2>2, TouchedCarried
      <3> QED BY <2>0, <2>2, <3>1, UnleaseInv
    <2> QED BY <1>11, <2>1, <2>2 DEF MarkNeedsReauth
  <1>12. CASE Crash(r)
    <2>1. run' = [run EXCEPT ![r] = NoClaim("idle", 0)] /\ clock' = clock /\ run[r].pc # "idle"
      BY <1>12 DEF Crash
    <2>2. Carried /\ RunTimes'
      BY <2>1, LeaveCarried
    <2> QED BY <1>12, <2>2, RunsOnly DEF Crash
  <1> QED BY <1>1, <1>2, <1>3, <1>4, <1>5, <1>6, <1>7, <1>8, <1>9, <1>10, <1>11, <1>12
          DEF RunStep


-----------------------------------------------------------------------------
(* Requests: what they write is later than what any run still holds.       *)

\* A request writes one row, and advances it.
LEMMA AdvancedRow ==
    ASSUME TypeOK, TypeOK', SyncInv, Carried, RunTimes', NEW s \in Sources,
           UNCHANGED <<version, fullSeen>>,
           \A t \in Sources : t # s =>
              row'[t] = row[t] /\ asked'[t] = asked[t] /\ fullAsked'[t] = fullAsked[t],
           Advanced(s), RowInv(s)'
    PROVE  SyncInv'
  <1>1. \A t \in Sources : RowStep(t) /\ RowInv(t)'
    BY StillSame DEF RowStep
  <1> QED BY <1>1, RowsMove DEF TypeOK

\* A fresh value that is later than the row's advances it: the claims that count
\* are no later than the row.  So does any fresh value where no lease is left.
LEMMA Requested ==
    ASSUME TypeOK, SyncInv, Carried, NEW s \in Sources, NEW v \in Nat \ {Null},
           row'[s].pending = v, Fresh(s, v),
           \/ row'[s].lease = Null
           \/ /\ row'[s].lease = row[s].lease
              /\ row[s].pending # Null => v > row[s].pending
    PROVE  Advanced(s)
  <1> SUFFICES ASSUME NEW q \in Contenders(s) PROVE v > run[q].pending
    BY DEF Advanced
  <1>1. /\ q \in Runs /\ InFlight(q) /\ At(q) = s
        /\ run[q].pending \in Nat /\ run[q].lease # Null
        /\ run[q].pc = "found" \/ row'[s].lease = run[q].lease
    BY ContendsBefore
  <1>2. CASE run[q].pc = "found"
    BY <1>1, <1>2 DEF Fresh
  <1>3. CASE row'[s].lease = run[q].lease
    <2>1. row[s].lease # Null /\ row'[s].lease = row[s].lease
      BY <1>1, <1>3
    <2>2. row[s].pending # Null /\ row[s].pending \in Nat /\ v > row[s].pending
      BY <1>1, <1>3, <2>1, SyncInvSplit, RowFields DEF RowInv
    <2>3. row[s].pending >= run[q].pending
      BY <2>1, <2>2, LeaseKept
    <2> QED BY <1>1, <2>2, <2>3
  <1> QED BY <1>1, <1>2, <1>3

\* A webhook or a new channel keeps the invariant.
LEMMA EnqueueInv ==
    ASSUME TypeOK, TypeOK', SyncInv, Carried, RunTimes', NEW s \in Sources, row[s].selected,
           Enqueue(s), AskRefresh({s}), UNCHANGED <<version, fullAsked, fullSeen>>
    PROVE  SyncInv'
  <1>0. PICK now \in Times :
           /\ Fresh(s, AdvancePending(row[s].pending, now))
           /\ row' = [row EXCEPT ![s].pending = AdvancePending(row[s].pending, now)]
    BY DEF Enqueue
  <1>1. /\ row'[s].pending = AdvancePending(row[s].pending, now)
        /\ row'[s].lease = row[s].lease /\ row'[s].mirror = row[s].mirror
        /\ row'[s].token = row[s].token /\ row'[s].full = row[s].full
        /\ row'[s].selected = row[s].selected
    BY <1>0, RowFields DEF TypeOK, Row
  <1>2. Advanced(s)
    BY <1>0, <1>1, TimesType, Requested
  <1>3. asked'[s] = version[s] /\ version[s] \in Nat
    BY DEF AskRefresh, TypeOK
  <1>4. RowInv(s)'
    BY <1>1, <1>2, <1>3, SyncInvSplit DEF RowInv, Advanced
  <1>5. \A t \in Sources : t # s => row'[t] = row[t] /\ asked'[t] = asked[t]
    BY <1>0 DEF AskRefresh, TypeOK
  <1> QED BY <1>2, <1>4, <1>5, AdvancedRow

\* A source that no longer is selected.
LEMMA DroppedInv ==
    ASSUME TypeOK, TypeOK', SyncInv, Carried, RunTimes', NEW S \in SUBSET Sources,
           UNCHANGED <<version, history>>,
           \A t \in Sources \ S : row'[t] = row[t],
           \A s \in S : /\ ~row'[s].selected /\ row'[s].pending = Null /\ row'[s].lease = Null
                        /\ \/ row'[s].token = Null /\ row'[s].mirror = Null
                           \/ row'[s].token = row[s].token /\ row'[s].mirror = row[s].mirror
    PROVE  SyncInv'
  <1>1. ASSUME NEW s \in S PROVE RowStep(s) /\ RowInv(s)'
    <2>1. version[s] \in Nat /\ RowInv(s)
      BY SyncInvSplit DEF TypeOK
    <2> QED BY <2>1 DEF RowStep, Settled, RowInv, history, Null
  <1>2. \A t \in Sources : RowStep(t) /\ RowInv(t)'
    BY <1>1, StillSame DEF history
  <1> QED BY <1>2, RowsMove DEF TypeOK

\* Every job or request on a source keeps the invariant.
LEMMA SourceStepInv ==
    ASSUME TypeOK, TypeOK', SyncInv, NEW s \in Sources, SourceStep(s)
    PROVE  SyncInv'
  <1>0. clock \in Nat /\ version[s] \in Nat /\ RowInv(s)
    BY SyncInvSplit DEF TypeOK
  <1>1. CASE Change(s)
    <2>1. Carried /\ RunTimes'
      BY <1>0, <1>1, SameCarried DEF Change
    <2>2. /\ row' = row /\ asked' = asked /\ fullAsked' = fullAsked /\ fullSeen' = fullSeen
          /\ \A t \in Sources : version'[t] \in Nat /\ version[t] \in Nat
                               /\ version'[t] >= version[t]
      BY <1>1 DEF Change, TypeOK, history
    <2>3. ASSUME NEW t \in Sources PROVE RowStep(t) /\ RowInv(t)'
      <3>1. RowInv(t) /\ row[t].mirror \in Nat /\ asked[t] \in Nat /\ fullAsked[t] \in Nat
        BY SyncInvSplit, RowFields DEF TypeOK
      <3>2. \A q \in Contenders(t) : Contends(q)
        BY <2>1, <2>2, LeaseKept
      <3> QED BY <2>2, <3>1, <3>2 DEF RowStep, Untouched, SameContent, RowInv
    <2> QED BY <2>1, <2>2, <2>3, RowsMove
  <1>2. CASE Webhook(s)
    <2>1. Carried /\ RunTimes'
      BY <1>0, <1>2, SameCarried DEF Webhook
    <2> QED BY <1>2, <2>1, EnqueueInv DEF Webhook
  <1>3. CASE WatchCreated(s)
    <2>1. Carried /\ RunTimes'
      BY <1>3, TouchedCarried DEF WatchCreated
    <2> QED BY <1>3, <2>1, EnqueueInv DEF WatchCreated
  <1>4. CASE CatchUp(s)
    <2>1. Carried /\ RunTimes'
      BY <1>0, <1>4, SameCarried DEF CatchUp
    <2>0. PICK now \in Times : Fresh(s, now) /\ row' = [row EXCEPT ![s].pending = now]
      BY <1>4 DEF CatchUp
    <2>2. /\ row'[s].pending = now /\ row'[s].mirror = row[s].mirror
          /\ row'[s].token = row[s].token /\ row'[s].full = row[s].full
          /\ row'[s].selected = row[s].selected /\ row'[s].lease = row[s].lease
          /\ row[s].selected /\ row[s].pending = Null
      BY <1>4, <2>0, RowFields DEF CatchUp, TypeOK, Row
    <2>3. Advanced(s)
      BY <2>0, <2>1, <2>2, TimesType, Requested
    <2>4. RowInv(s)'
      BY <1>0, <1>4, <2>2, <2>3 DEF CatchUp, AskRefresh, TypeOK, RowInv, Advanced
    <2>5. \A t \in Sources : t # s => row'[t] = row[t] /\ asked'[t] = asked[t]
      BY <1>4, <2>0 DEF CatchUp, AskRefresh, TypeOK
    <2> QED BY <1>4, <2>1, <2>3, <2>4, <2>5, AdvancedRow DEF CatchUp
  <1>5. CASE MarkSourceFullRequired(s)
    <2>1. Carried /\ RunTimes'
      BY <1>0, <1>5, SameCarried DEF MarkSourceFullRequired
    <2>0. PICK now \in Times :
             /\ Fresh(s, AdvancePending(row[s].pending, now))
             /\ row' = [row EXCEPT ![s].full = TRUE,
                                  ![s].pending = AdvancePending(row[s].pending, now)]
      BY <1>5 DEF MarkSourceFullRequired
    <2>2. /\ row'[s].pending = AdvancePending(row[s].pending, now)
          /\ row'[s].mirror = row[s].mirror /\ row'[s].token = row[s].token
          /\ row'[s].full = TRUE /\ row[s].selected /\ row'[s].lease = row[s].lease
      BY <1>5, <2>0, RowFields DEF MarkSourceFullRequired, TypeOK, Row
    <2>3. Advanced(s)
      BY <2>0, <2>1, <2>2, TimesType, Requested
    <2>4. RowInv(s)'
      BY <1>0, <1>5, <2>2, <2>3
         DEF MarkSourceFullRequired, AskRefresh, AskFull, TypeOK, RowInv, Advanced
    <2>5. \A t \in Sources : t # s =>
             row'[t] = row[t] /\ asked'[t] = asked[t] /\ fullAsked'[t] = fullAsked[t]
      BY <1>5, <2>0 DEF MarkSourceFullRequired, AskRefresh, AskFull, TypeOK
    <2> QED BY <1>5, <2>1, <2>3, <2>4, <2>5, AdvancedRow DEF MarkSourceFullRequired
  <1>6. CASE Select(s)
    <2>1. Carried /\ RunTimes'
      BY <1>0, <1>6, SameCarried DEF Select
    <2>0. PICK now \in Times :
             /\ Fresh(s, now)
             /\ row' = [row EXCEPT ![s] = [@ EXCEPT !.selected = TRUE, !.full = TRUE,
                                                   !.pending = now, !.lease = Null]]
      BY <1>6 DEF Select
    <2>2. /\ row'[s].pending = now /\ row'[s].mirror = row[s].mirror
          /\ row'[s].token = row[s].token /\ row'[s].full = TRUE /\ row'[s].lease = Null
      BY <2>0, RowFields DEF TypeOK, Row
    <2>3. Advanced(s)
      BY <2>0, <2>1, <2>2, TimesType, Requested
    <2>4. RowInv(s)'
      BY <1>0, <1>6, <2>2, <2>3 DEF Select, AskRefresh, AskFull, TypeOK, RowInv, Advanced
    <2>5. \A t \in Sources : t # s =>
             row'[t] = row[t] /\ asked'[t] = asked[t] /\ fullAsked'[t] = fullAsked[t]
      BY <1>6, <2>0 DEF Select, AskRefresh, AskFull, TypeOK
    <2> QED BY <1>6, <2>1, <2>3, <2>4, <2>5, AdvancedRow DEF Select
  <1>7. CASE Deselect(s)
    <2>1. Carried /\ RunTimes'
      BY <1>0, <1>7, SameCarried DEF Deselect
    <2>2. /\ ~row'[s].selected /\ row'[s].pending = Null /\ row'[s].lease = Null
          /\ row'[s].token = row[s].token /\ row'[s].mirror = row[s].mirror
      BY <1>7, RowFields DEF Deselect, TypeOK, Row
    <2>3. \A t \in Sources \ {s} : row'[t] = row[t]
      BY <1>7 DEF Deselect, TypeOK
    <2>4. UNCHANGED <<version, history>>
      BY <1>7 DEF Deselect
    <2> QED BY <2>1, <2>2, <2>3, <2>4, DroppedInv
  <1>8. CASE RemoveSource(s)
    <2>1. Carried /\ RunTimes'
      BY <1>8, TouchedCarried DEF RemoveSource
    <2>2. /\ ~row'[s].selected /\ row'[s].pending = Null /\ row'[s].lease = Null
          /\ row'[s].token = Null /\ row'[s].mirror = Null
      BY <1>8, RowFields DEF RemoveSource, NoRow, TypeOK, Row
    <2>3. \A t \in Sources \ {s} : row'[t] = row[t]
      BY <1>8 DEF RemoveSource, TypeOK
    <2>4. UNCHANGED <<version, history>>
      BY <1>8 DEF RemoveSource
    <2> QED BY <2>1, <2>2, <2>3, <2>4, DroppedInv
  <1> QED BY <1>1, <1>2, <1>3, <1>4, <1>5, <1>6, <1>7, <1>8 DEF SourceStep

\* The second write of a reconnect keeps the invariant.
LEMMA RelinkInv ==
    ASSUME TypeOK, TypeOK', SyncInv, RelinkSources
    PROVE  SyncInv'
  <1>0. PICK now \in Times :
          /\ \A s \in {t \in Sources : row[t].selected} : Fresh(s, now)
          /\ row' = [s \in Sources |->
                       IF s \in {t \in Sources : row[t].selected}
                       THEN [row[s] EXCEPT !.full = TRUE, !.pending = now, !.lease = Null]
                       ELSE row[s]]
    BY DEF RelinkSources
  <1>1. Carried /\ RunTimes'
    <2>1. run' = run /\ clock' = clock
      BY DEF RelinkSources
    <2>2. clock' >= clock /\ clock' \in Nat
      BY <2>1 DEF TypeOK
    <2> QED BY <2>1, <2>2, SameCarried
  <1>2. ASSUME NEW s \in Sources PROVE RowStep(s) /\ RowInv(s)'
    <2>0. RowInv(s) /\ version[s] \in Nat /\ UNCHANGED <<version, fullSeen>>
      BY SyncInvSplit DEF TypeOK, RelinkSources
    <2>1. CASE row[s].selected
      <3>1. /\ row'[s].pending = now /\ row'[s].mirror = row[s].mirror
            /\ row'[s].token = row[s].token /\ row'[s].full = TRUE /\ row'[s].lease = Null
        BY <1>0, <2>1, RowFields DEF Row
      <3>2. Advanced(s)
        BY <1>0, <1>1, <2>1, <3>1, TimesType, Requested
      <3>3. asked'[s] = version[s] /\ fullAsked'[s] = version[s]
        BY <2>1 DEF RelinkSources, AskRefresh, AskFull
      <3> QED BY <2>0, <3>1, <3>2, <3>3 DEF RowStep, RowInv, Advanced
    <2>2. CASE ~row[s].selected
      BY <1>0, <1>1, <2>0, <2>2, StillSame DEF RelinkSources, AskRefresh, AskFull
    <2> QED BY <2>1, <2>2
  <1>3. \A s \in Sources : version'[s] >= version[s]
    <2>1. version' = version
      BY DEF RelinkSources
    <2> QED BY <2>1 DEF TypeOK
  <1> QED BY <1>1, <1>2, <1>3, RowsMove

\* Every request on the connection keeps the invariant.
LEMMA ConnectionStepInv ==
    ASSUME TypeOK, TypeOK', SyncInv, ConnectionStep
    PROVE  SyncInv'
  <1>1. CASE TouchConnection
    BY <1>1, TouchedCarried, RunsOnly DEF TouchConnection
  <1>2. CASE Reconnect
    BY <1>2, TouchedCarried, RunsOnly DEF Reconnect
  <1>3. CASE RelinkSources  BY <1>3, RelinkInv
  <1>4. CASE CallbackNeedsReauth
    BY <1>4, TouchedCarried, RunsOnly DEF CallbackNeedsReauth
  <1>5. CASE Disconnect
    BY <1>5, TouchedCarried, RunsOnly DEF Disconnect
  <1>6. CASE UnleaseSources
    <2>1. Carried /\ RunTimes'
      BY <1>6, SameCarried DEF UnleaseSources, TypeOK
    <2> QED BY <1>6, <2>1, UnleaseInv DEF UnleaseSources
  <1>7. CASE AbandonRequest
    <2>1. Carried /\ RunTimes'
      BY <1>7, SameCarried DEF AbandonRequest, TypeOK
    <2> QED BY <1>7, <2>1, RunsOnly DEF AbandonRequest
  <1>8. CASE Finalize
    <2>1. Carried /\ RunTimes'
      BY <1>8, TouchedCarried DEF Finalize
    <2>2. \A s \in Sources :
            /\ ~row'[s].selected /\ row'[s].pending = Null /\ row'[s].lease = Null
            /\ row'[s].token = Null /\ row'[s].mirror = Null
      BY <1>8, RowFields DEF Finalize, NoRow, Row
    <2> QED BY <1>8, <2>1, <2>2, DroppedInv DEF Finalize
  <1> QED BY <1>1, <1>2, <1>3, <1>4, <1>5, <1>6, <1>7, <1>8 DEF ConnectionStep

\* So does the clock.
LEMMA TickInv ==
    ASSUME TypeOK, TypeOK', SyncInv, Tick
    PROVE  SyncInv'
  <1>1. Carried /\ RunTimes'
    BY SameCarried DEF Tick, TypeOK
  <1>2. \A s \in Sources : RowStep(s) /\ RowInv(s)'
    BY <1>1, StillSame DEF Tick, history
  <1> QED BY <1>1, <1>2, RowsMove DEF Tick, TypeOK

\* It holds when the calendars have just been listed.
LEMMA InitInv == Init => SyncInv
  <1> SUFFICES ASSUME Init PROVE SyncInv
    OBVIOUS
  <1>1. \A r \in Runs : run[r].pc = "idle"
    BY DEF Init, NoClaim
  <1>3. RunTimes /\ RunClaims /\ PendingIsVersion
    BY <1>1 DEF RunTimes, RunClaims, PendingIsVersion, Contends, InFlight
  <1>4. PICK chosen \in SUBSET Sources :
          row = [s \in Sources |->
                   [exists |-> TRUE, selected |-> s \in chosen,
                    pending |-> IF s \in chosen THEN 1 ELSE Null, lease |-> Null,
                    full |-> TRUE, token |-> Null, mirror |-> Null]]
    BY DEF Init
  <1>5. ASSUME NEW s \in Sources PROVE RowInv(s)
    <2>1. /\ row[s].mirror = Null /\ row[s].lease = Null /\ row[s].token = Null
          /\ row[s].full /\ row[s].selected = (s \in chosen)
          /\ row[s].pending = IF s \in chosen THEN 1 ELSE Null
      BY <1>4
    <2>2. row[s].selected => row[s].pending = 1
      BY <2>1
    <2>3. version[s] = 1 /\ asked[s] = 1 /\ fullAsked[s] = 1
      BY DEF Init
    <2>4. 0 <= 1 /\ 1 <= 1 /\ 1 # 0
      OBVIOUS
    <2> QED BY <2>1, <2>2, <2>3, <2>4 DEF RowInv, Null
  <1> QED BY <1>3, <1>5, SyncInvSplit

-----------------------------------------------------------------------------
\* The invariant is inductive: it holds initially and every step keeps it.
THEOREM SyncInvariant == Spec => []SyncInv
  <1>1. TypeOK /\ TypeOK' /\ SyncInv /\ [Next]_vars => SyncInv'
    <2> SUFFICES ASSUME TypeOK, TypeOK', SyncInv, [Next]_vars PROVE SyncInv'
      OBVIOUS
    <2>1. CASE UNCHANGED vars
      <3>1. UNCHANGED <<row, version, clock, history, run>>
        BY <2>1 DEF vars, history
      <3>2. Carried /\ RunTimes'
        BY <2>1, <3>1, SameCarried DEF TypeOK, vars
      <3> QED BY <3>1, <3>2, RunsOnly
    <2> QED BY <2>1, RunStepInv, SourceStepInv, ConnectionStepInv, TickInv DEF Next
  <1> QED BY <1>1, InitInv, TypeCorrect, PTL DEF Spec

\* No request for a refresh is lost, with any number of runs, sources, pages and faults.
THEOREM NothingLost == Spec => []NoLostNotification
  <1>1. SyncInv => NoLostNotification
    BY DEF SyncInv
  <1> QED BY <1>1, SyncInvariant, PTL

\* A full listing that was asked for is never replaced by an incremental one.
THEOREM FullListings == Spec => []FullListingHonoured
  <1>1. SyncInv => FullListingHonoured
    BY DEF SyncInv
  <1> QED BY <1>1, SyncInvariant, PTL

\* The stored sync token stands for the stored events, whoever committed last.
THEOREM TokensMatch == Spec => []TokenMatchesEvents
  <1>1. SyncInv => TokenMatchesEvents
    BY DEF SyncInv
  <1> QED BY <1>1, SyncInvariant, PTL

\* pendingSyncAt is a version: it never returns to a value a run still holds
\* after the row has changed its meaning.
THEOREM PendingVersions == Spec => []PendingIsVersion
  <1>1. SyncInv => PendingIsVersion
    BY DEF SyncInv
  <1> QED BY <1>1, SyncInvariant, PTL

-----------------------------------------------------------------------------
(* The refinement: what every step does to one mirror, as CalendarMirror   *)
(* has it.                                                                 *)

Due(s) == ~(row[s].selected /\ row[s].pending = Null)

KeepsMirror(s) ==
    /\ version'[s] = version[s] /\ asked'[s] = asked[s]
    /\ row'[s].mirror = row[s].mirror /\ (Due(s)' <=> Due(s))

ChangesProvider(s) ==
    /\ version'[s] > version[s] /\ asked'[s] = asked[s]
    /\ row'[s].mirror = row[s].mirror /\ (Due(s)' <=> Due(s))

AsksMirror(s) ==
    /\ Due(s)' /\ asked'[s] = version[s]
    /\ version'[s] = version[s] /\ row'[s].mirror = row[s].mirror

RefreshesMirror(s) ==
    /\ Due(s) /\ ~Due(s)'
    /\ row'[s].mirror \in asked[s] .. version[s] /\ row'[s].mirror >= row[s].mirror
    /\ version'[s] = version[s] /\ asked'[s] = asked[s]

DropsMirror(s) ==
    /\ Due(s)' /\ (row'[s].mirror = 0 \/ row'[s].mirror = row[s].mirror)
    /\ version'[s] = version[s] /\ asked'[s] = asked[s]

MirrorStep(s) ==
    \/ KeepsMirror(s) \/ ChangesProvider(s) \/ AsksMirror(s) \/ RefreshesMirror(s)
    \/ DropsMirror(s)

\* The five ways are those of CalendarMirror.
LEMMA MirrorStepMaps ==
    ASSUME \A s \in Sources : MirrorStep(s)
    PROVE  Mirror!Next
  <1> SUFFICES ASSUME NEW s \in Sources
      PROVE  Mirror!Same(s) \/ Mirror!Change(s) \/ Mirror!Ask(s) \/ Mirror!Refresh(s)
             \/ Mirror!Drop(s)
    BY DEF Mirror!Next
  <1>1. KeepsMirror(s) => Mirror!Same(s)
    BY DEF KeepsMirror, Due, Mirror!Same
  <1>2. ChangesProvider(s) => Mirror!Change(s)
    BY DEF ChangesProvider, Due, Mirror!Change
  <1>3. AsksMirror(s) => Mirror!Ask(s)
    BY DEF AsksMirror, Due, Mirror!Ask
  <1>4. RefreshesMirror(s) => Mirror!Refresh(s)
    BY DEF RefreshesMirror, Due, Mirror!Refresh
  <1>5. DropsMirror(s) => Mirror!Drop(s)
    BY DEF DropsMirror, Due, Mirror!Drop
  <1> QED BY <1>1, <1>2, <1>3, <1>4, <1>5 DEF MirrorStep

\* A step that neither writes events nor settles or raises work.
LEMMA MirrorKept ==
    ASSUME NEW s \in Sources, row'[s].selected = row[s].selected,
           row'[s].mirror = row[s].mirror, (row'[s].pending = Null) = (row[s].pending = Null),
           version'[s] = version[s], asked'[s] = asked[s]
    PROVE  MirrorStep(s)
  BY DEF MirrorStep, KeepsMirror, Due

\* A commit is a refresh.
LEMMA CommitMirror ==
    ASSUME TypeOK, SyncInv, NEW r \in Runs, CommitEvents(r), NEW s \in Sources
    PROVE  MirrorStep(s)
  <1>1. version'[s] = version[s] /\ asked'[s] = asked[s]
    BY DEF CommitEvents
  <1>2. CASE row'[s] = row[s]
    BY <1>1, <1>2, MirrorKept
  <1>3. CASE s = At(r) /\ Fenced(r)
    <2>1. row' = [row EXCEPT ![s] = CommittedRow(r)]
      BY <1>3 DEF CommitEvents
    <2>2. /\ row'[s].mirror = run[r].listed /\ row'[s].pending = Null
          /\ row'[s].selected = row[s].selected
      BY <1>3, <2>1, FencedUpToDate, RowFields DEF CommittedRow, CommitEvents, TypeOK, Row
    <2>3. /\ UpToDate(r) /\ run[r].listed # Null /\ run[r].listed <= version[s]
          /\ row[s].pending # Null /\ row[s].selected
      BY <1>3, FencedUpToDate DEF CommitEvents, Fenced
    <2>4. run[r].listed \in asked[s] .. version[s] /\ run[r].listed >= row[s].mirror
      BY <1>3, <2>3, RunFields DEF UpToDate, TypeOK
    <2> QED BY <1>1, <2>2, <2>3, <2>4 DEF MirrorStep, RefreshesMirror, Due
  <1> QED BY <1>2, <1>3 DEF CommitEvents, TypeOK

\* Every step of a run is a step of the mirror or none.
LEMMA RunStepMirror ==
    ASSUME TypeOK, SyncInv, NEW r \in Runs, RunStep(r), NEW s \in Sources
    PROVE  MirrorStep(s)
  <1>0. RowInv(s)
    BY SyncInvSplit
  <1>1. CASE row' = row /\ UNCHANGED <<version, asked>>
    BY <1>1, MirrorKept
  <1>2. CASE Claim(r)
    <2>1. /\ row'[s].selected = row[s].selected /\ row'[s].mirror = row[s].mirror
          /\ row'[s].pending = row[s].pending
      BY <1>2, RowFields DEF Claim, TypeOK, Row
    <2> QED BY <1>2, <2>1, MirrorKept DEF Claim, history
  <1>3. CASE CommitEvents(r)  BY <1>3, CommitMirror
  <1>4. CASE Release(r)
    <2>1. InFlight(r) /\ run[r].pending # Null /\ run[r].now \in Nat
          /\ run[r].pending <= run[r].now /\ run[r].pending \in Nat
      BY <1>4, SyncInvSplit, RunFields DEF Release, InFlight, RunClaims
    <2>2. /\ row'[s].selected = row[s].selected /\ row'[s].mirror = row[s].mirror
          /\ row'[s].pending = Null <=> row[s].pending = Null
      <3>1. CASE row'[s] = row[s]
        BY <3>1
      <3>2. CASE row' = [row EXCEPT ![s].lease = Null]
        BY <3>2, RowFields DEF TypeOK, Row
      <3>3. ASSUME row[s].pending = run[r].pending, NEW j \in 0 .. JitterTime,
                   row' = [row EXCEPT ![s].lease = Null, ![s].pending = run[r].now + j]
            PROVE  <2>2!1 /\ <2>2!2
        BY <2>1, <3>3, RowFields DEF TypeOK, Row, Null
      <3> QED BY <1>4, <3>1, <3>2, <3>3 DEF Release, TypeOK
    <2> QED BY <1>4, <2>2, MirrorKept DEF Release, history
  <1>5. CASE FailCloseGone(r)
    <2>0. version'[s] = version[s] /\ asked'[s] = asked[s] /\ InFlight(r)
      BY <1>5 DEF FailCloseGone, InFlight
    <2>1. version'[s] = version[s] /\ asked'[s] = asked[s] /\ run[r].lease # Null
      BY <2>0, RunFields, ConstantsAssumption, SyncInvSplit DEF RunClaims, Null
    <2>2. CASE row'[s] = row[s]
      BY <2>1, <2>2, MirrorKept
    <2>3. CASE s = At(r) /\ row[s].lease = run[r].lease
      <3>1. row' = [row EXCEPT ![s] = GoneRow(r)] /\ row[s].pending # Null
        BY <1>0, <1>5, <2>1, <2>3 DEF FailCloseGone, RowInv
      <3>2. row'[s].mirror = Null /\ row'[s].pending = AdvancePending(row[s].pending, run[r].now)
        BY <2>3, <3>1, RowFields DEF GoneRow, TypeOK, Row
      <3>3. row[s].pending \in Nat /\ run[r].now \in Nat
        BY RowFields, RunFields
      <3>4. row'[s].pending # Null
        <4>1. /\ AdvancePending(row[s].pending, run[r].now) > row[s].pending
              /\ AdvancePending(row[s].pending, run[r].now) \in Nat
          BY <3>1, <3>3, AdvanceType
        <4> QED BY <3>2, <3>3, <4>1 DEF Null
      <3> QED BY <2>1, <3>2, <3>4 DEF MirrorStep, DropsMirror, Due, Null
    <2> QED BY <1>5, <2>2, <2>3 DEF FailCloseGone, TypeOK
  <1>6. CASE MarkNeedsReauth(r)
    <2>1. /\ row'[s].selected = row[s].selected /\ row'[s].mirror = row[s].mirror
          /\ row'[s].pending = row[s].pending
      BY <1>6, RowFields DEF MarkNeedsReauth, TypeOK, Row
    <2> QED BY <1>6, <2>1, MirrorKept DEF MarkNeedsReauth, history
  <1> QED BY <1>1, <1>2, <1>3, <1>4, <1>5, <1>6
          DEF RunStep, StartRun, EndRun, Find, Authorize, FetchPage, Fence, Crash, history

\* Every job or request on a source is a step of the mirror or none.
LEMMA SourceStepMirror ==
    ASSUME TypeOK, TypeOK', NEW q \in Sources, SourceStep(q), NEW s \in Sources
    PROVE  MirrorStep(s)
  <1>1. CASE Change(q)
    <2>1. row' = row /\ asked' = asked /\ version' = [version EXCEPT ![q] = @ + 1]
      BY <1>1 DEF Change, history
    <2>2. version'[s] = version[s] \/ version'[s] > version[s]
      BY <2>1 DEF TypeOK
    <2> QED BY <2>1, <2>2 DEF MirrorStep, KeepsMirror, ChangesProvider, Due
  <1>2. CASE s # q /\ ~Change(q)
    <2>1. row'[s] = row[s] /\ version'[s] = version[s] /\ asked'[s] = asked[s]
      BY <1>2 DEF SourceStep, Webhook, WatchCreated, CatchUp, MarkSourceFullRequired, Select,
           Deselect, RemoveSource, Enqueue, AskRefresh, TypeOK, history
    <2> QED BY <2>1, MirrorKept
  <1>3. ASSUME s = q, Webhook(s) \/ WatchCreated(s) PROVE MirrorStep(s)
    <2>1. Enqueue(s) /\ asked'[s] = version[s] /\ version'[s] = version[s]
      BY <1>3 DEF Webhook, WatchCreated, AskRefresh
    <2>2. PICK now \in Times :
             row' = [row EXCEPT ![s].pending = AdvancePending(row[s].pending, now)]
      BY <2>1 DEF Enqueue
    <2>3. row'[s].mirror = row[s].mirror /\ row'[s].pending # Null
      BY <2>2, RowFields, TimesType DEF TypeOK, Row
    <2> QED BY <2>1, <2>3 DEF MirrorStep, AsksMirror, Due
  <1>4. ASSUME s = q, CatchUp(s) \/ Select(s) PROVE MirrorStep(s)
    <2>1. row'[s].mirror = row[s].mirror /\ row'[s].pending # Null
      <3>1. CASE CatchUp(s)
        <4>1. PICK now \in Times : row' = [row EXCEPT ![s].pending = now]
          BY <3>1 DEF CatchUp
        <4> QED BY <4>1, RowFields, TimesType DEF TypeOK, Row
      <3>2. CASE Select(s)
        <4>1. PICK now \in Times :
                 row' = [row EXCEPT ![s] = [@ EXCEPT !.selected = TRUE, !.full = TRUE,
                                                     !.pending = now, !.lease = Null]]
          BY <3>2 DEF Select
        <4> QED BY <4>1, RowFields, TimesType DEF TypeOK, Row
      <3> QED BY <1>4, <3>1, <3>2
    <2>2. asked'[s] = version[s] /\ version'[s] = version[s]
      BY <1>4 DEF CatchUp, Select, AskRefresh
    <2> QED BY <2>1, <2>2 DEF MirrorStep, AsksMirror, Due
  <1>5. ASSUME s = q, MarkSourceFullRequired(s) PROVE MirrorStep(s)
    <2>1. PICK now \in Times :
             row' = [row EXCEPT ![s].full = TRUE,
                                ![s].pending = AdvancePending(row[s].pending, now)]
      BY <1>5 DEF MarkSourceFullRequired
    <2>2. row'[s].mirror = row[s].mirror /\ row'[s].pending # Null
      BY <2>1, RowFields, TimesType DEF TypeOK, Row
    <2>3. asked'[s] = version[s] /\ version'[s] = version[s]
      BY <1>5 DEF MarkSourceFullRequired, AskRefresh
    <2> QED BY <2>2, <2>3 DEF MirrorStep, AsksMirror, Due
  <1>6. ASSUME s = q, Deselect(s) PROVE MirrorStep(s)
    <2>1. row'[s].mirror = row[s].mirror /\ ~row'[s].selected
      BY <1>6, RowFields DEF Deselect, TypeOK, Row
    <2>2. version'[s] = version[s] /\ asked'[s] = asked[s]
      BY <1>6 DEF Deselect, history
    <2> QED BY <2>1, <2>2 DEF MirrorStep, DropsMirror, Due
  <1>7. ASSUME s = q, RemoveSource(s) PROVE MirrorStep(s)
    <2>1. row'[s].mirror = 0 /\ ~row'[s].selected
      BY <1>7, RowFields DEF RemoveSource, NoRow, TypeOK, Row, Null
    <2>2. version'[s] = version[s] /\ asked'[s] = asked[s]
      BY <1>7 DEF RemoveSource, history
    <2> QED BY <2>1, <2>2 DEF MirrorStep, DropsMirror, Due
  <1> QED BY <1>1, <1>2, <1>3, <1>4, <1>5, <1>6, <1>7 DEF SourceStep

\* Every request on the connection is a step of the mirror or none.
LEMMA ConnectionStepMirror ==
    ASSUME TypeOK, ConnectionStep, NEW s \in Sources
    PROVE  MirrorStep(s)
  <1>1. CASE row' = row /\ UNCHANGED <<version, asked>>
    BY <1>1, MirrorKept
  <1>2. CASE RelinkSources
    <2>0. PICK now \in Times :
             row' = [t \in Sources |->
                       IF t \in {x \in Sources : row[x].selected}
                       THEN [row[t] EXCEPT !.full = TRUE, !.pending = now, !.lease = Null]
                       ELSE row[t]]
      BY <1>2 DEF RelinkSources
    <2>1. CASE row[s].selected
      <3>1. row'[s].mirror = row[s].mirror /\ row'[s].pending # Null
        BY <2>0, <2>1, RowFields, TimesType DEF Row
      <3>2. asked'[s] = version[s] /\ version'[s] = version[s]
        BY <1>2, <2>1 DEF RelinkSources, AskRefresh
      <3> QED BY <3>1, <3>2 DEF MirrorStep, AsksMirror, Due
    <2>2. CASE ~row[s].selected
      <3>1. row'[s] = row[s]
        BY <2>0, <2>2
      <3>2. asked'[s] = asked[s] /\ version'[s] = version[s]
        BY <1>2, <2>2 DEF RelinkSources, AskRefresh
      <3> QED BY <3>1, <3>2, MirrorKept
    <2> QED BY <2>1, <2>2
  <1>3. CASE UnleaseSources
    <2>1. /\ row'[s].selected = row[s].selected /\ row'[s].mirror = row[s].mirror
          /\ row'[s].pending = row[s].pending
      BY <1>3, RowFields DEF UnleaseSources, Row
    <2> QED BY <1>3, <2>1, MirrorKept DEF UnleaseSources, history
  <1>4. CASE Finalize
    <2>1. row'[s].mirror = 0 /\ ~row'[s].selected
      BY <1>4, RowFields DEF Finalize, NoRow, Row, Null
    <2> QED BY <1>4, <2>1 DEF Finalize, history, MirrorStep, DropsMirror, Due
  <1> QED BY <1>1, <1>2, <1>3, <1>4
          DEF ConnectionStep, TouchConnection, Reconnect, CallbackNeedsReauth, Disconnect,
              AbandonRequest, history

\* Every step is a step of the mirror or none.
LEMMA NextMirror ==
    ASSUME TypeOK, TypeOK', SyncInv, [Next]_vars, NEW s \in Sources
    PROVE  MirrorStep(s)
  <1>1. CASE Tick \/ UNCHANGED vars
    BY <1>1, MirrorKept DEF Tick, vars, history
  <1> QED BY <1>1, RunStepMirror, SourceStepMirror, ConnectionStepMirror DEF Next

\* The events of a source never go back to an older listing, except to none at all.
THEOREM MirrorForward == Spec => MirrorMovesForward
  <1>1. TypeOK /\ TypeOK' /\ SyncInv /\ [Next]_vars =>
           \A s \in Sources : row'[s].mirror >= row[s].mirror \/ row'[s].mirror = Null
    <2> SUFFICES ASSUME TypeOK, TypeOK', SyncInv, [Next]_vars, NEW s \in Sources
        PROVE  row'[s].mirror >= row[s].mirror \/ row'[s].mirror = Null
      OBVIOUS
    <2> QED BY NextMirror, RowFields
            DEF MirrorStep, KeepsMirror, ChangesProvider, AsksMirror, RefreshesMirror,
                DropsMirror, Null
  <1> QED BY <1>1, TypeCorrect, SyncInvariant, PTL DEF Spec, MirrorMovesForward

\* Seen from outside, runs, leases, pages, retries and faults are nothing but
\* refreshes that settle every request made before them.
THEOREM SyncImplementsMirror == Spec => KeepsMirrorPromise
  <1>1. Init => Mirror!Init
    <2> SUFFICES ASSUME Init PROVE Mirror!Init
      OBVIOUS
    <2>1. \A s \in Sources : row[s].mirror = 0 /\ Due(s)
      <3> SUFFICES ASSUME NEW s \in Sources PROVE row[s].mirror = 0 /\ Due(s)
        OBVIOUS
      <3>1. PICK chosen \in SUBSET Sources :
              row = [t \in Sources |->
                       [exists |-> TRUE, selected |-> t \in chosen,
                        pending |-> IF t \in chosen THEN 1 ELSE Null, lease |-> Null,
                        full |-> TRUE, token |-> Null, mirror |-> Null]]
        BY DEF Init
      <3>2. /\ row[s].mirror = Null /\ row[s].selected = (s \in chosen)
            /\ row[s].pending = IF s \in chosen THEN 1 ELSE Null
        BY <3>1
      <3>3. row[s].selected => row[s].pending = 1
        BY <3>2
      <3> QED BY <3>2, <3>3 DEF Due, Null
    <2>2. version = [s \in Sources |-> 1] /\ asked = [s \in Sources |-> 1]
      BY DEF Init
    <2>3. [s \in Sources |-> row[s].mirror] = [s \in Sources |-> 0]
      BY <2>1
    <2>4. [s \in Sources |-> ~(row[s].selected /\ row[s].pending = Null)]
            = [s \in Sources |-> TRUE]
      BY <2>1 DEF Due
    <2> QED BY <2>2, <2>3, <2>4 DEF Mirror!Init
  <1>2. TypeOK /\ TypeOK' /\ SyncInv /\ [Next]_vars => [Mirror!Next]_(Mirror!vars)
    <2> SUFFICES ASSUME TypeOK, TypeOK', SyncInv, [Next]_vars PROVE Mirror!Next
      OBVIOUS
    <2> QED BY NextMirror, MirrorStepMaps
  <1> QED BY <1>1, <1>2, TypeCorrect, SyncInvariant, PTL DEF Spec, KeepsMirrorPromise, Mirror!Spec

=============================================================================
