----------------------------- MODULE SceneProofs -----------------------------
(* Proofs about small modules that TLC checks as scenes of MCProviders,    *)
(* for any number of the processes and rows in them: the list of a         *)
(* connection's calendars (CalendarList), the consent that made it         *)
(* (GoogleOAuth), event preferences (EventPreferences), the polling of     *)
(* feeds (EventDiscovery), what is found out about contacts                *)
(* (ContactEnrichment), imports (MonicaImport), the pages of the catalogue *)
(* (EventCatalog), the days to be reminded of (Celebrations), what is kept *)
(* of a calendar's events (EventContents), the reading of feeds (IcsFeed)  *)
(* and what is recommended (EventRecommendation).  Each section gives the  *)
(* invariant of one module and says why it is needed.                      *)
EXTENDS CalendarList, FiniteSetTheorems, WellFoundedInduction, TLAPS

-----------------------------------------------------------------------------
(* The list.  A run may commit only while the row has its lease and the    *)
(* pending time it has read.  The invariant says why it is then up to      *)
(* date: from its claim on nobody else has written the token (Holding),    *)
(* and each request since has moved the pending time.  A run that has lost *)
(* its lease is Superseded for good: by a later claim, by a pending time   *)
(* past its start, or by a commit after it.                                *)

Claimed(r) == listing[r].pc \in {"authorize", "list", "fence", "commit"}

\* What a run continues is not ahead of the token.
Continues(r) == listing[r].token = Null \/ (link.token # Null /\ listing[r].token <= link.token)

\* The pending time has passed what a run has read.
Passed(r, time) == link.pending > time \/ (link.pending = Null /\ listClock > time)

Times(r) ==
    listing[r].pc # "idle" =>
        /\ 0 < listing[r].pending /\ listing[r].pending <= listing[r].now
        /\ listing[r].now <= listClock
        /\ listing[r].lease = listing[r].now + ListLease
        /\ link.pending = Null \/ listing[r].pending <= link.pending
        /\ Continues(r) \/ Passed(r, listing[r].pending)
        /\ listing[r].pc = "found" => listing[r].listed = 0

Superseded(r) ==
    link.status # "active" \/ link.lease > listing[r].lease \/ Passed(r, listing[r].now)

Standing(r) ==
    Claimed(r) =>
        /\ link.lease = listing[r].lease \/ Superseded(r)
        /\ link.pending \in {Null, listing[r].pending} \/ listing[r].now <= link.pending
        /\ listing[r].pc \in {"fence", "commit"} => listing[r].listed # 0

Holding(r) ==
    Claimed(r) /\ link.lease = listing[r].lease =>
        /\ Continues(r)
        /\ listing[r].listed # 0 =>
              /\ link.token <= listing[r].listed /\ listing[r].listed <= Len(history)
              /\ link.pending = listing[r].pending => heard <= listing[r].listed

Apart == \A r, s \in ListRuns :
    Claimed(r) /\ Claimed(s) /\ listing[r].now = listing[s].now => r = s

LinkSane ==
    /\ 0 < listClock /\ 0 < Len(history)
    /\ link.lease # Null => link.status = "active" /\ link.pending # Null
    /\ link.token <= Len(history) /\ heard <= Len(history)

ListInv ==
    /\ TypeOK /\ LinkSane /\ Apart
    /\ \A r \in ListRuns : Times(r) /\ Standing(r) /\ Holding(r)
    /\ ListMatchesToken /\ ToldIsListedOrDue

-----------------------------------------------------------------------------
(* What a run relies on while others write the row.                        *)

\* The numbers in a row and in a run.
LEMMA Fields ==
    ASSUME TypeOK, NEW r \in ListRuns
    PROVE  /\ link.pending \in Nat /\ link.lease \in Nat /\ link.token \in Nat
           /\ link.updated \in Nat /\ link.synced \in Nat
           /\ listing[r].now \in Nat /\ listing[r].pending \in Nat /\ listing[r].lease \in Nat
           /\ listing[r].token \in Nat /\ listing[r].listed \in Nat /\ listing[r] \in Listing
           /\ listClock \in Nat /\ heard \in Nat /\ Len(history) \in Nat
  BY DEF TypeOK, Link, Listing

\* What the lease of a run says.
LEMMA LeaseIsHeld ==
    ASSUME ListLease \in Nat, ListInv, NEW z \in ListRuns, Claimed(z)
    PROVE  /\ 0 < listing[z].pending /\ listing[z].pending <= listing[z].now
           /\ listing[z].now <= listClock /\ 0 < listing[z].lease
           /\ listing[z].lease = listing[z].now + ListLease
           /\ link.lease = listing[z].lease =>
                 link.pending # Null /\ link.status = "active" /\ listing[z].pending <= link.pending
  <1>1. Times(z) /\ LinkSane
    BY DEF ListInv
  <1>2. listing[z].now \in Nat /\ listing[z].pending \in Nat /\ listing[z].lease \in Nat
    BY Fields DEF ListInv
  <1>. QED  BY <1>1, <1>2 DEF Times, LinkSane, Claimed, Null

\* A claim starts after the start of every claim it meets.
LEMMA ClaimIsLatest ==
    ASSUME ListLease \in Nat, ListInv, NEW z \in ListRuns, listing[z].pc = "found",
           link.status = "active", link.pending = listing[z].pending, Free(listing[z].now),
           NEW r \in ListRuns, Claimed(r)
    PROVE  listing[r].now < listing[z].now
  <1>1. Times(r) /\ Standing(r) /\ Times(z)
    BY DEF ListInv
  <1>2. /\ link.pending \in Nat /\ link.lease \in Nat
        /\ listing[z].now \in Nat /\ listing[z].pending \in Nat
        /\ listing[r].now \in Nat /\ listing[r].lease \in Nat
    BY Fields DEF ListInv
  <1>. QED  BY <1>1, <1>2 DEF Times, Standing, Superseded, Passed, Free, Claimed, Null

\* The run that has the lease started after the others, or the pending time has passed them.
LEMMA HolderIsLatest ==
    ASSUME ListLease \in Nat, ListInv, NEW z \in ListRuns, Claimed(z),
           link.lease = listing[z].lease, NEW r \in ListRuns \ {z}, Claimed(r)
    PROVE  /\ listing[r].now < listing[z].now \/ listing[r].now < link.pending
           /\ listing[r].lease # link.lease
           /\ link.pending # Null /\ link.status = "active"
  <1>1. Times(r) /\ Standing(r) /\ Times(z) /\ Apart
    BY DEF ListInv
  <1>2. link.pending # Null /\ link.status = "active"
    BY LeaseIsHeld
  <1>3. /\ link.pending \in Nat /\ link.lease \in Nat
        /\ listing[z].now \in Nat /\ listing[r].now \in Nat
    BY Fields DEF ListInv
  <1>. QED  BY <1>1, <1>2, <1>3 DEF Times, Standing, Superseded, Passed, Claimed, Apart, Null

\* The steps of the row, as the other runs see them.
Untouched ==
    /\ link'.status = link.status /\ link'.pending = link.pending /\ link'.lease = link.lease
    /\ link'.token = link.token /\ heard' = heard
Asked ==
    /\ link'.status = link.status /\ link'.lease = link.lease /\ link'.token = link.token
    /\ link.pending < link'.pending /\ listClock <= link'.pending /\ heard' = Len(history)
LetGo(z) ==
    /\ Claimed(z) /\ link.lease = listing[z].lease
    /\ link'.status = link.status /\ link'.lease = Null /\ heard' = heard
    /\ link.pending <= link'.pending /\ listing[z].now <= link'.pending
    /\ link'.token = link.token \/ (link'.token = Null /\ link.pending < link'.pending)
Committed(z) ==
    /\ Claimed(z) /\ link.lease = listing[z].lease /\ link.pending = listing[z].pending
    /\ link'.status = link.status /\ link'.lease = Null /\ link'.pending = Null
    /\ link'.token = listing[z].listed /\ heard' = heard
    /\ link.token <= link'.token /\ link'.token # Null
TakenOver(z) ==
    /\ listing[z].pc = "found" /\ link.pending = listing[z].pending /\ Free(listing[z].now)
    /\ link.status = "active" /\ link'.status = link.status /\ link'.pending = link.pending
    /\ link'.lease = listing[z].lease /\ link'.token = link.token /\ heard' = heard
Closed ==
    /\ link'.status # "active" /\ link'.lease = Null /\ link'.pending = link.pending
    /\ link'.token = link.token /\ heard' = heard

\* Whatever happens to the row, a run that is left alone keeps its place.
LEMMA OthersKeep ==
    ASSUME ListLease \in Nat, ListInv, TypeOK', NEW r \in ListRuns, listing'[r] = listing[r],
           listClock <= listClock', Len(history) <= Len(history'),
           \/ Untouched \/ Asked \/ Closed
           \/ \E z \in ListRuns \ {r} : LetGo(z) \/ Committed(z) \/ TakenOver(z)
    PROVE  Times(r)' /\ Standing(r)' /\ Holding(r)'
  <1>1. Times(r) /\ Standing(r) /\ Holding(r) /\ LinkSane
    BY DEF ListInv
  <1>2. /\ link.pending \in Nat /\ link.lease \in Nat /\ link.token \in Nat /\ listClock \in Nat
        /\ listing[r].now \in Nat /\ listing[r].pending \in Nat /\ listing[r].lease \in Nat
        /\ listing[r].token \in Nat /\ listing[r].listed \in Nat
        /\ heard \in Nat /\ Len(history) \in Nat
    BY Fields DEF ListInv
  <1>3. /\ link'.pending \in Nat /\ link'.lease \in Nat /\ link'.token \in Nat
        /\ listClock' \in Nat /\ heard' \in Nat /\ Len(history') \in Nat
    BY DEF TypeOK, Link
  <1>0. Claimed(r) => /\ listing[r].now <= listClock /\ 0 < listing[r].lease
                      /\ listing[r].lease = listing[r].now + ListLease
                      /\ link.lease = listing[r].lease =>
                            link.pending # Null /\ listing[r].pending <= link.pending
    BY LeaseIsHeld
  <1>a. (Claimed(r)' <=> Claimed(r)) /\ ListLease \in Nat
    BY DEF Claimed
  <1>. USE <1>0, <1>1, <1>2, <1>3, <1>a DEF Times, Standing, Superseded, Holding, Continues, Passed, LinkSane, Null
  <1>4. CASE Untouched
    <2>7. Times(r)'
      BY <1>4 DEF Untouched
    <2>8. Standing(r)'
      BY <1>4 DEF Untouched
    <2>9. Holding(r)'
      BY <1>4 DEF Untouched
    <2>. QED  BY <2>7, <2>8, <2>9
  <1>5. CASE Asked
    <2>3. Continues(r) => Continues(r)'
      BY <1>5 DEF Asked
    <2>4. listing[r].pc # "idle" /\ Passed(r, listing[r].pending) => Passed(r, listing[r].pending)'
      BY <1>5 DEF Asked
    <2>5. listing[r].pc # "idle" => link'.pending = Null \/ listing[r].pending <= link'.pending
      BY <1>5 DEF Asked
    <2>. HIDE DEF Continues, Passed
    <2>7. Times(r)'
      BY <2>3, <2>4, <2>5
    <2>. USE DEF Continues, Passed
    <2>8. Standing(r)'
      BY <1>5 DEF Asked
    <2>9. Holding(r)'
      BY <1>5 DEF Asked
    <2>. QED  BY <2>7, <2>8, <2>9
  <1>6. CASE Closed
    <2>7. Times(r)'
      BY <1>6 DEF Closed
    <2>8. Standing(r)'
      BY <1>6 DEF Closed
    <2>9. Holding(r)'
      BY <1>6 DEF Closed
    <2>. QED  BY <2>7, <2>8, <2>9
  <1>7. ASSUME NEW z \in ListRuns \ {r}, LetGo(z)  PROVE Times(r)' /\ Standing(r)' /\ Holding(r)'
    <2>1. Claimed(r) => /\ listing[r].now < listing[z].now \/ listing[r].now < link.pending
                        /\ link.pending # Null
      BY <1>7, HolderIsLatest DEF LetGo
    <2>2. listing[z].now \in Nat /\ link.pending # Null
      BY <1>7, Fields, LeaseIsHeld DEF ListInv, LetGo
    <2>7. Times(r)'
      BY SMTT(30), <1>7, <2>1, <2>2 DEF LetGo
    <2>6. Claimed(r) => listing[r].now < link'.pending
      BY SMTT(30), <1>7, <2>1, <2>2 DEF LetGo
    <2>8. Standing(r)'
      BY <1>7, <2>6 DEF LetGo
    <2>9. Holding(r)'
      BY <1>7, <2>1, <2>2 DEF LetGo
    <2>. QED  BY <2>7, <2>8, <2>9
  <1>8. ASSUME NEW z \in ListRuns \ {r}, Committed(z)  PROVE Times(r)' /\ Standing(r)' /\ Holding(r)'
    <2>1. Claimed(r) => /\ listing[r].now < listing[z].now \/ listing[r].now < link.pending
                        /\ link.pending # Null
      BY <1>8, HolderIsLatest DEF Committed
    <2>2. /\ listing[z].now \in Nat /\ listing[z].pending \in Nat /\ 0 < listing[z].pending
          /\ listing[z].pending <= listing[z].now /\ listing[z].now <= listClock
      BY <1>8, Fields, LeaseIsHeld DEF ListInv, Committed
    <2>3. Continues(r) => Continues(r)'
      BY <1>8, <2>1, <2>2 DEF Committed
    <2>4. listing[r].pc # "idle" /\ Passed(r, listing[r].pending) => Passed(r, listing[r].pending)'
      BY <1>8, <2>1, <2>2 DEF Committed
    <2>5. listing[r].pc # "idle" => link'.pending = Null \/ listing[r].pending <= link'.pending
      BY <1>8, <2>1, <2>2 DEF Committed
    <2>. HIDE DEF Continues, Passed
    <2>7. Times(r)'
      BY <2>3, <2>4, <2>5
    <2>. USE DEF Continues, Passed
    <2>8. Standing(r)'
      BY SMTT(30), <1>8, <2>1, <2>2 DEF Committed
    <2>9. Holding(r)'
      BY <1>8, <2>1, <2>2 DEF Committed
    <2>. QED  BY <2>7, <2>8, <2>9
  <1>9. ASSUME NEW z \in ListRuns \ {r}, TakenOver(z)  PROVE Times(r)' /\ Standing(r)' /\ Holding(r)'
    <2>1. Claimed(r) => listing[r].now < listing[z].now
      BY <1>9, ClaimIsLatest DEF TakenOver
    <2>2. listing[z].now \in Nat /\ listing[z].lease = listing[z].now + ListLease
      BY <1>9, Fields DEF ListInv, TakenOver
    <2>7. Times(r)'
      BY <1>9, <2>1, <2>2 DEF TakenOver
    <2>8. Standing(r)'
      BY SMTT(30), <1>9, <2>1, <2>2 DEF TakenOver
    <2>9. Holding(r)'
      BY SMTT(30), <1>9, <2>1, <2>2 DEF TakenOver
    <2>. QED  BY <2>7, <2>8, <2>9
  <1>. QED  BY <1>4, <1>5, <1>6, <1>7, <1>8, <1>9

-----------------------------------------------------------------------------
\* What the row itself must satisfy, while nobody commits.
LEMMA RowKeeps ==
    ASSUME ListLease \in Nat, ListInv, TypeOK', UNCHANGED mirrored,
           listClock <= listClock', Len(history) <= Len(history'),
           \A n \in 1 .. Len(history) : history'[n] = history[n],
           \/ Untouched \/ Asked \/ Closed
           \/ \E z \in ListRuns : LetGo(z) \/ TakenOver(z)
    PROVE  LinkSane' /\ ListMatchesToken' /\ ToldIsListedOrDue'
  <1>1. LinkSane /\ ListMatchesToken /\ ToldIsListedOrDue
    BY DEF ListInv
  <1>2. /\ link.pending \in Nat /\ link.lease \in Nat /\ link.token \in Nat /\ listClock \in Nat
        /\ heard \in Nat /\ Len(history) \in Nat
        /\ link'.pending \in Nat /\ link'.lease \in Nat /\ link'.token \in Nat
        /\ listClock' \in Nat /\ heard' \in Nat /\ Len(history') \in Nat
    BY DEF ListInv, TypeOK, Link
  <1>3. (link'.token = link.token \/ link'.token = Null) => ListMatchesToken'
    <2>1. link.token # Null => link.token \in 1 .. Len(history)
      BY <1>1, <1>2 DEF LinkSane, Null
    <2>. QED  BY <1>1, <2>1 DEF ListMatchesToken
  <1>. HIDE DEF ListMatchesToken
  <1>. USE <1>1, <1>2, <1>3 DEF LinkSane, ToldIsListedOrDue, Null
  <1>4. CASE Untouched
    BY <1>4 DEF Untouched
  <1>5. CASE Asked
    BY <1>5 DEF Asked
  <1>6. CASE Closed
    BY <1>6 DEF Closed
  <1>7. ASSUME NEW z \in ListRuns, LetGo(z)
        PROVE  LinkSane' /\ ListMatchesToken' /\ ToldIsListedOrDue'
    <2>1. link.pending # Null
      BY <1>7, LeaseIsHeld DEF LetGo
    <2>. QED  BY <1>7, <2>1 DEF LetGo
  <1>8. ASSUME NEW z \in ListRuns, TakenOver(z)
        PROVE  LinkSane' /\ ListMatchesToken' /\ ToldIsListedOrDue'
    <2>1. link.pending # Null
      BY <1>8, Fields DEF ListInv, TakenOver, Times
    <2>. QED  BY <1>8, <2>1 DEF TakenOver
  <1>. QED  BY <1>4, <1>5, <1>6, <1>7, <1>8

\* A step of one run is sound if that run and the row are.
LEMMA RunStep ==
    ASSUME ListLease \in Nat, ListInv, TypeOK', NEW r \in ListRuns,
           \A s \in ListRuns \ {r} : listing'[s] = listing[s],
           UNCHANGED <<history, listClock>>,
           Untouched \/ Closed \/ LetGo(r) \/ Committed(r) \/ TakenOver(r),
           LinkSane', ListMatchesToken', ToldIsListedOrDue',
           Times(r)', Standing(r)', Holding(r)',
           Claimed(r)' => (Claimed(r) \/ TakenOver(r)) /\ listing'[r].now = listing[r].now
    PROVE  ListInv'
  <1>1. Len(history) \in Nat /\ listClock \in Nat
    BY DEF ListInv, TypeOK
  <1>2. ASSUME NEW s \in ListRuns \ {r}  PROVE Times(s)' /\ Standing(s)' /\ Holding(s)'
    <2>1. r \in ListRuns \ {s} /\ listing'[s] = listing[s]
      OBVIOUS
    <2>2. \/ Untouched \/ Asked \/ Closed
          \/ \E z \in ListRuns \ {s} : LetGo(z) \/ Committed(z) \/ TakenOver(z)
      BY <2>1
    <2>. QED  BY <1>1, <2>1, <2>2, OthersKeep
  <1>3. Apart'
    <2>1. \A s \in ListRuns \ {r} : (Claimed(s)' <=> Claimed(s)) /\ listing'[s].now = listing[s].now
      BY DEF Claimed
    <2>2. CASE Claimed(r)' => Claimed(r) /\ listing'[r].now = listing[r].now
      BY <2>1, <2>2 DEF ListInv, Apart
    <2>3. CASE TakenOver(r) /\ (Claimed(r)' => listing'[r].now = listing[r].now)
      <3>1. \A s \in ListRuns : Claimed(s) => listing[s].now < listing[r].now
        BY <2>3, ClaimIsLatest DEF TakenOver
      <3>2. \A s \in ListRuns : listing[s].now \in Nat
        BY Fields DEF ListInv
      <3>. QED  BY <2>1, <2>3, <3>1, <3>2 DEF ListInv, Apart
    <2>. QED  BY <2>2, <2>3
  <1>. QED  BY <1>2, <1>3 DEF ListInv

\* A run that ends has nothing to rely on.
LEMMA EndsSoundly ==
    ASSUME NEW r \in ListRuns, listing'[r] = Idle
    PROVE  Times(r)' /\ Standing(r)' /\ Holding(r)' /\ ~Claimed(r)'
  BY DEF Idle, Times, Standing, Holding, Claimed

\* The ways out of a run that has not finished.
LEMMA WaysOut ==
    ASSUME ListLease \in Nat, ListJitter \in Nat, ListInv, NEW r \in ListRuns, Claimed(r),
           UNCHANGED heard, MarkNeedsReauth(r) \/ ReleaseWithBackoff(r) \/ ResetGone(r)
    PROVE  (Untouched \/ Closed \/ LetGo(r)) /\ link' \in Link /\ UNCHANGED mirrored
  <1>1. /\ link.pending \in Nat /\ link.lease \in Nat /\ link.token \in Nat /\ link \in Link
        /\ listing[r].now \in Nat /\ listing[r].pending \in Nat /\ listClock \in Nat
    BY Fields DEF ListInv, TypeOK
  <1>2. link.lease = listing[r].lease =>
           /\ link.pending # Null /\ listing[r].pending <= listing[r].now
           /\ listing[r].pending <= link.pending /\ 0 < listing[r].now
           /\ link.pending = listing[r].pending \/ listing[r].now <= link.pending
    BY <1>1, LeaseIsHeld DEF ListInv, Standing, Null
  <1>3. CASE UNCHANGED link /\ UNCHANGED mirrored
    BY <1>1, <1>3 DEF Untouched
  <1>4. CASE MarkNeedsReauth(r) /\ Held(r)
    BY <1>1, <1>4 DEF MarkNeedsReauth, Closed, Link, Null
  <1>5. CASE ReleaseWithBackoff(r) /\ link.lease = listing[r].lease
    <2>1. PICK delay \in 0 .. ListJitter :
             link' = [link EXCEPT !.lease = Null, !.updated = listClock,
                        !.pending = IF @ = listing[r].pending THEN listing[r].now + delay ELSE @]
      BY <1>5 DEF ReleaseWithBackoff
    <2>2. delay \in Nat
      OBVIOUS
    <2>3. link' \in Link
      <3>1. CASE link.pending = listing[r].pending
        <4>1. PICK time \in Nat : time = listing[r].now + delay
          BY <1>1, <2>2
        <4>2. link' = [link EXCEPT !.lease = Null, !.updated = listClock, !.pending = time]
          BY <2>1, <3>1, <4>1
        <4>. QED  BY <1>1, <4>2 DEF Link, Null
      <3>2. CASE link.pending # listing[r].pending
        <4>1. link' = [link EXCEPT !.lease = Null, !.updated = listClock]
          BY <1>1, <2>1, <3>2 DEF Link
        <4>. QED  BY <1>1, <4>1 DEF Link, Null
      <3>. QED  BY <3>1, <3>2
    <2>4. /\ link'.status = link.status /\ link'.lease = Null /\ link'.token = link.token
          /\ link'.pending = IF link.pending = listing[r].pending THEN listing[r].now + delay
                             ELSE link.pending
      BY <1>1, <2>1 DEF Link
    <2>5. link.pending <= link'.pending /\ listing[r].now <= link'.pending
      BY <1>1, <1>2, <1>5, <2>2, <2>4
    <2>6. LetGo(r)
      BY <1>5, <2>4, <2>5 DEF LetGo
    <2>. QED  BY <1>5, <2>3, <2>6 DEF ReleaseWithBackoff
  <1>6. CASE ResetGone(r) /\ link' = [link EXCEPT !.token = Null, !.lease = Null,
                                 !.pending = AdvancePending(@, listing[r].now)]
             /\ link.lease = listing[r].lease
    <2>1. /\ link'.status = link.status /\ link'.lease = Null /\ link'.token = Null
          /\ link'.pending = AdvancePending(link.pending, listing[r].now)
      BY <1>1, <1>6 DEF Link
    <2>2. AdvancePending(link.pending, listing[r].now) \in Nat
      BY <1>1 DEF AdvancePending
    <2>3. link' \in Link
      <3>1. PICK time \in Nat : time = AdvancePending(link.pending, listing[r].now)
        BY <2>2
      <3>2. link' = [link EXCEPT !.token = Null, !.lease = Null, !.pending = time]
        BY <1>6, <3>1
      <3>. QED  BY <1>1, <3>2 DEF Link, Null
    <2>4. link.pending < link'.pending /\ listing[r].now <= link'.pending
      BY <1>1, <1>2, <1>6, <2>1 DEF AdvancePending, Null
    <2>5. LetGo(r)
      BY <1>1, <1>2, <1>6, <2>1, <2>2, <2>4 DEF LetGo
    <2>. QED  BY <1>6, <2>3, <2>5 DEF ResetGone
  <1>. QED  BY <1>3, <1>4, <1>5, <1>6 DEF MarkNeedsReauth, ReleaseWithBackoff, ResetGone

-----------------------------------------------------------------------------
(* The steps of a run.                                                     *)

Others == <<history, listClock, heard>>

\* A run at rest is a run.
LEMMA IdleType == Idle \in Listing
  BY DEF Idle, Listing, Null

\* A run ends, by whatever way, without a commit.
LEMMA EndKeeps ==
    ASSUME ListLease \in Nat, ListJitter \in Nat, ListInv, NEW r \in ListRuns,
           listing' = [listing EXCEPT ![r] = Idle], UNCHANGED Others, UNCHANGED mirrored,
           \/ UNCHANGED link
           \/ Claimed(r) /\ (MarkNeedsReauth(r) \/ ReleaseWithBackoff(r) \/ ResetGone(r))
    PROVE  ListInv'
  <1>1. TypeOK
    BY DEF ListInv
  <1>2. (Untouched \/ Closed \/ LetGo(r)) /\ link' \in Link
    <2>1. CASE UNCHANGED link
      BY <1>1, <2>1 DEF Untouched, Others, TypeOK
    <2>2. CASE Claimed(r) /\ (MarkNeedsReauth(r) \/ ReleaseWithBackoff(r) \/ ResetGone(r))
      BY <2>2, WaysOut DEF Others
    <2>. QED  BY <2>1, <2>2
  <1>3. /\ listing'[r] = Idle /\ \A s \in ListRuns \ {r} : listing'[s] = listing[s]
        /\ listing' \in [ListRuns -> Listing]
    BY <1>1, IdleType DEF TypeOK
  <1>4. TypeOK'
    BY <1>1, <1>2, <1>3 DEF TypeOK, Others
  <1>5. listClock \in Nat /\ Len(history) \in Nat
    BY <1>1 DEF TypeOK
  <1>6. LinkSane' /\ ListMatchesToken' /\ ToldIsListedOrDue'
    BY <1>2, <1>4, <1>5, RowKeeps DEF Others
  <1>7. Times(r)' /\ Standing(r)' /\ Holding(r)' /\ ~Claimed(r)'
    BY <1>3, EndsSoundly
  <1>. QED  BY <1>2, <1>3, <1>4, <1>6, <1>7, RunStep DEF Others

\* A run goes on and leaves the row alone.
LEMMA GoesOn ==
    ASSUME ListLease \in Nat, ListInv, NEW r \in ListRuns, NEW next \in Listing,
           listing' = [listing EXCEPT ![r] = next], UNCHANGED <<link, mirrored, Others>>,
           Claimed(r)' => Claimed(r) /\ next.now = listing[r].now,
           Times(r)', Standing(r)', Holding(r)'
    PROVE  ListInv'
  <1>1. TypeOK
    BY DEF ListInv
  <1>2. /\ listing'[r] = next /\ \A s \in ListRuns \ {r} : listing'[s] = listing[s]
        /\ listing' \in [ListRuns -> Listing]
    BY <1>1 DEF TypeOK
  <1>3. Untouched /\ TypeOK'
    BY <1>1, <1>2 DEF Untouched, Others, TypeOK
  <1>4. listClock \in Nat /\ Len(history) \in Nat
    BY <1>1 DEF TypeOK
  <1>5. LinkSane' /\ ListMatchesToken' /\ ToldIsListedOrDue'
    BY <1>3, <1>4, RowKeeps DEF Others
  <1>. QED  BY <1>2, <1>3, <1>5, RunStep DEF Others

\* A run that finds the row due has read what is there.
LEMMA FindKeeps ==
    ASSUME ListLease \in Nat, ListInv, NEW r \in ListRuns, FindList(r)
    PROVE  ListInv'
  <1>1. TypeOK /\ LinkSane
    BY DEF ListInv
  <1>2. PICK now \in {listClock, listClock - 1} \ {0} :
          /\ link.status = "active" /\ link.pending # Null /\ link.pending <= now /\ Free(now)
          /\ listing' = [listing EXCEPT ![r] = [pc |-> "found", now |-> now,
                 generation |-> IF now > link.updated + 1 THEN now ELSE link.updated + 1,
                 pending |-> link.pending, lease |-> now + ListLease, token |-> link.token,
                 listed |-> 0]]
    BY DEF FindList
  <1>3. /\ now \in Nat /\ now <= listClock /\ listClock \in Nat /\ link.pending \in Nat
        /\ link.token \in Nat /\ link.updated \in Nat
    BY <1>1, <1>2, Fields DEF LinkSane
  <1>4. PICK generation \in Nat :
          generation = IF now > link.updated + 1 THEN now ELSE link.updated + 1
    BY <1>3
  <1>5. PICK next : next = [pc |-> "found", now |-> now, generation |-> generation,
                 pending |-> link.pending, lease |-> now + ListLease, token |-> link.token,
                 listed |-> 0]
    OBVIOUS
  <1>6. next \in Listing /\ listing' = [listing EXCEPT ![r] = next]
    BY <1>2, <1>3, <1>4, <1>5 DEF Listing
  <1>7. listing'[r] = next /\ UNCHANGED <<link, mirrored, Others>>
    BY <1>1, <1>6 DEF TypeOK, FindList, Others
  <1>8. Times(r)' /\ Standing(r)' /\ Holding(r)' /\ ~Claimed(r)'
    BY <1>2, <1>3, <1>5, <1>7 DEF Times, Standing, Holding, Claimed, Continues, Others, Null
  <1>. QED  BY <1>6, <1>7, <1>8, GoesOn

\* A claim takes the lease, and whoever had it is superseded.
LEMMA ClaimKeeps ==
    ASSUME ListLease \in Nat, ListJitter \in Nat, ListInv, NEW r \in ListRuns, ClaimList(r)
    PROVE  ListInv'
  <1>1. TypeOK /\ LinkSane /\ Times(r)
    BY DEF ListInv
  <1>2. CASE link' = link /\ listing' = [listing EXCEPT ![r] = Idle]
    BY <1>2, EndKeeps DEF ClaimList, Others
  <1>3. CASE /\ link.status = "active" /\ link.pending = listing[r].pending /\ Free(listing[r].now)
             /\ link' = [link EXCEPT !.lease = listing[r].lease, !.updated = listing[r].generation]
             /\ listing' = [listing EXCEPT ![r].pc = "authorize"]
    <2>1. listing[r] \in Listing /\ listing[r].pc = "found" /\ UNCHANGED <<mirrored, Others>>
      BY <1>1 DEF TypeOK, ClaimList, Others
    <2>2. /\ link' \in Link /\ link'.status = link.status /\ link'.pending = link.pending
          /\ link'.lease = listing[r].lease /\ link'.token = link.token
      BY <1>1, <1>3, <2>1 DEF TypeOK, Link, Listing
    <2>3. /\ listing'[r].pc = "authorize" /\ listing'[r].now = listing[r].now
          /\ listing'[r].pending = listing[r].pending /\ listing'[r].lease = listing[r].lease
          /\ listing'[r].token = listing[r].token /\ listing'[r].listed = listing[r].listed
          /\ \A s \in ListRuns \ {r} : listing'[s] = listing[s]
          /\ listing' \in [ListRuns -> Listing]
      BY <1>1, <1>3, <2>1 DEF TypeOK, Listing
    <2>4. TypeOK' /\ TakenOver(r)
      BY <1>1, <1>3, <2>1, <2>2, <2>3 DEF TypeOK, TakenOver, Others
    <2>5. listClock \in Nat /\ Len(history) \in Nat
      BY <1>1 DEF TypeOK
    <2>6. LinkSane' /\ ListMatchesToken' /\ ToldIsListedOrDue'
      BY <2>1, <2>4, <2>5, RowKeeps DEF Others
    <2>7. Times(r)' /\ Standing(r)' /\ Holding(r)'
      <3>1. /\ link.pending \in Nat /\ listing[r].pending \in Nat /\ 0 < listing[r].pending
            /\ listing[r].listed = 0 /\ Continues(r)
        BY <1>1, <1>3, <2>1, Fields DEF Times, Passed, Null
      <3>2. Times(r)'
        BY <1>1, <2>1, <2>2, <2>3, <3>1 DEF Times, Continues, Others
      <3>3. Standing(r)'
        BY <1>3, <2>2, <2>3 DEF Standing
      <3>4. Holding(r)'
        BY <2>2, <2>3, <3>1 DEF Holding, Continues
      <3>. QED  BY <3>2, <3>3, <3>4
    <2>. QED  BY <2>1, <2>3, <2>4, <2>6, <2>7, RunStep DEF Others
  <1>. QED  BY <1>2, <1>3 DEF ClaimList

\* A claimed run goes on, and has listed at least as much.
LEMMA WorksOn ==
    ASSUME ListLease \in Nat, ListInv, NEW r \in ListRuns, Claimed(r),
           NEW pc \in {"list", "fence", "commit"}, NEW listed \in Nat,
           listing' = [listing EXCEPT ![r].pc = pc, ![r].listed = listed],
           UNCHANGED <<link, mirrored, Others>>,
           pc \in {"fence", "commit"} => listed # 0,
           listed = listing[r].listed \/ listed = Len(history)
    PROVE  ListInv'
  <1>1. TypeOK /\ LinkSane /\ Times(r) /\ Standing(r) /\ Holding(r)
    BY DEF ListInv
  <1>2. listing[r] \in Listing
    BY <1>1 DEF TypeOK
  <1>3. PICK next : next = [listing[r] EXCEPT !.pc = pc, !.listed = listed]
    OBVIOUS
  <1>4. /\ next \in Listing /\ next.pc = pc /\ next.now = listing[r].now
        /\ next.pending = listing[r].pending /\ next.lease = listing[r].lease
        /\ next.token = listing[r].token /\ next.listed = listed
    BY <1>2, <1>3 DEF Listing
  <1>5. listing' = [listing EXCEPT ![r] = next] /\ listing'[r] = next
    BY <1>1, <1>3 DEF TypeOK
  <1>6. /\ link.pending \in Nat /\ link.token \in Nat /\ heard \in Nat /\ Len(history) \in Nat
    BY <1>1, Fields
  <1>7. Times(r)'
    BY <1>1, <1>4, <1>5 DEF Times, Claimed, Continues, Passed, Others
  <1>8. Standing(r)'
    BY <1>1, <1>4, <1>5 DEF Standing, Claimed, Superseded, Passed, Others
  <1>9. Holding(r)'
    BY <1>1, <1>4, <1>5, <1>6 DEF Holding, Claimed, Continues, LinkSane, Others, Null
  <1>. QED  BY <1>4, <1>5, <1>7, <1>8, <1>9, GoesOn

\* The steps that only continue or end a run.
LEMMA WorkKeeps ==
    ASSUME ListLease \in Nat, ListJitter \in Nat, ListInv, NEW r \in ListRuns,
           AuthorizeList(r) \/ ListPage(r) \/ FenceList(r) \/ CrashList(r)
    PROVE  ListInv'
  <1>1. TypeOK /\ Standing(r) /\ LinkSane
    BY DEF ListInv
  <1>2. /\ listing[r] \in Listing /\ listing[r].listed \in Nat /\ Len(history) \in Nat
        /\ Len(history) # 0
    BY <1>1, Fields DEF LinkSane
  <1>3. ASSUME NEW pc \in {"list", "commit"}, listing[r].pc \in {"authorize", "fence"},
               listing' = [listing EXCEPT ![r].pc = pc], UNCHANGED <<link, mirrored, Others>>,
               pc = "commit" => listing[r].pc = "fence"
        PROVE  ListInv'
    <2>1. Claimed(r) /\ (pc = "commit" => listing[r].listed # 0)
      BY <1>1, <1>3 DEF Claimed, Standing
    <2>2. listing' = [listing EXCEPT ![r].pc = pc, ![r].listed = listing[r].listed]
      BY <1>1, <1>2, <1>3 DEF TypeOK, Listing
    <2>. QED  BY <1>2, <1>3, <2>1, <2>2, WorksOn
  <1>4. CASE AuthorizeList(r)
    <2>1. Claimed(r) /\ UNCHANGED Others
      BY <1>4 DEF AuthorizeList, Claimed, Others
    <2>2. CASE listing' = [listing EXCEPT ![r].pc = "list"] /\ UNCHANGED <<link, mirrored>>
      BY <1>3, <1>4, <2>1, <2>2 DEF AuthorizeList
    <2>3. CASE /\ listing' = [listing EXCEPT ![r] = Idle]
               /\ MarkNeedsReauth(r) \/ ReleaseWithBackoff(r)
      BY <2>1, <2>3, EndKeeps DEF MarkNeedsReauth, ReleaseWithBackoff
    <2>. QED  BY <1>4, <2>2, <2>3 DEF AuthorizeList
  <1>5. CASE ListPage(r)
    <2>1. Claimed(r) /\ UNCHANGED Others
      BY <1>5 DEF ListPage, Claimed, Others
    <2>2. CASE /\ listing' = [listing EXCEPT ![r].pc = "fence",
                                             ![r].listed = IF @ = 0 THEN Len(history) ELSE @]
               /\ UNCHANGED <<link, mirrored>>
      <3>1. PICK listed \in Nat :
               listed = IF listing[r].listed = 0 THEN Len(history) ELSE listing[r].listed
        BY <1>2
      <3>2. listing' = [listing EXCEPT ![r].pc = "fence", ![r].listed = listed]
        BY <1>1, <1>2, <2>2, <3>1 DEF TypeOK, Listing
      <3>3. listed # 0 /\ (listed = listing[r].listed \/ listed = Len(history))
        BY <1>2, <3>1
      <3>. QED  BY <2>1, <2>2, <3>2, <3>3, WorksOn
    <2>3. CASE /\ listing' = [listing EXCEPT ![r] = Idle]
               /\ ResetGone(r) \/ MarkNeedsReauth(r) \/ ReleaseWithBackoff(r)
      BY <2>1, <2>3, EndKeeps DEF MarkNeedsReauth, ReleaseWithBackoff, ResetGone
    <2>. QED  BY <1>5, <2>2, <2>3 DEF ListPage
  <1>6. CASE FenceList(r)
    <2>1. UNCHANGED <<link, mirrored, Others>> /\ listing[r].pc = "fence"
      BY <1>6 DEF FenceList, Others
    <2>2. ASSUME NEW pc \in {"list", "commit"}, listing' = [listing EXCEPT ![r].pc = pc]
          PROVE  ListInv'
      BY <1>3, <2>1, <2>2
    <2>3. CASE listing' = [listing EXCEPT ![r] = Idle]
      BY <2>1, <2>3, EndKeeps
    <2>. QED  BY <1>6, <2>2, <2>3 DEF FenceList
  <1>7. CASE CrashList(r)
    BY <1>7, EndKeeps DEF CrashList, Others
  <1>. QED  BY <1>4, <1>5, <1>6, <1>7

-----------------------------------------------------------------------------
(* The commit.                                                             *)

\* A set of times has an earliest one.
LEMMA Earliest ==
    ASSUME NEW T, T \subseteq Nat, T # {}
    PROVE  \E t \in T : \A u \in T : t <= u
  <1>. DEFINE Less == {p \in Nat \X Nat : p[1] < p[2]}
  <1>1. Less = OpToRel(<, Nat)
    BY DEF OpToRel
  <1>2. IsWellFoundedOn(Less, Nat)
    BY <1>1, NatLessThanWellFounded
  <1>3. PICK t \in T : \A u \in T : <<u, t>> \notin Less
    <2>. HIDE DEF Less
    <2>. QED  BY <1>2, WFMin
  <1>4. ASSUME NEW u \in T  PROVE t <= u
    <2>1. <<u, t>> \notin Less /\ u \in Nat /\ t \in Nat
      BY <1>3
    <2>. QED  BY <2>1
  <1>. QED  BY <1>4

\* A calendar that did not change between two listings is in both or in neither.
LEMMA UnchangedStays ==
    ASSUME NEW t \in Nat, NEW k \in Nat, NEW n \in Nat, t <= k, k <= n,
           NEW c, c \notin Changed(t, n)
    PROVE  c \in history[k] <=> c \in history[n]
  <1>1. \A m \in Nat : t <= m /\ m < n => (c \in history[m] <=> c \in history[m + 1])
    <2>. SUFFICES ASSUME NEW m \in Nat, t <= m, m < n
         PROVE  c \in history[m] <=> c \in history[m + 1]
      OBVIOUS
    <2>1. m \in t .. n - 1
      OBVIOUS
    <2>. QED  BY <2>1 DEF Changed
  <1>. DEFINE Differs == {m \in Nat : k <= m /\ m <= n /\ ~(c \in history[k] <=> c \in history[m])}
  <1>2. Differs = {}
    <2>. SUFFICES ASSUME Differs # {}  PROVE FALSE
      OBVIOUS
    <2>1. PICK m \in Differs : \A u \in Differs : m <= u
      <3>1. Differs \subseteq Nat
        OBVIOUS
      <3>. HIDE DEF Differs
      <3>. QED  BY <3>1, Earliest
    <2>2. m \in Nat /\ k < m /\ m <= n /\ m - 1 \in Nat /\ (m - 1) + 1 = m
      OBVIOUS
    <2>3. m - 1 \notin Differs
      BY <2>1, <2>2
    <2>4. c \in history[k] <=> c \in history[m - 1]
      BY <2>2, <2>3
    <2>5. c \in history[m - 1] <=> c \in history[m]
      BY <1>1, <2>2
    <2>. QED  BY <2>1, <2>4, <2>5
  <1>. QED  BY <1>2

\* What a run commits is the list it has read.
LEMMA AppliedIsListed ==
    ASSUME ListInv, NEW r \in ListRuns, Claimed(r), link.lease = listing[r].lease,
           listing[r].listed # 0
    PROVE  Applied(r) = history[listing[r].listed]
  <1>1. TypeOK /\ Holding(r) /\ ListMatchesToken
    BY DEF ListInv
  <1>2. CASE listing[r].token = Null
    BY <1>2 DEF Applied
  <1>3. CASE listing[r].token # Null
    <2>1. PICK t \in Nat, k \in Nat, n \in Nat :
             t = listing[r].token /\ k = link.token /\ n = listing[r].listed
      BY <1>1, Fields
    <2>2. t <= k /\ k <= n /\ mirrored = history[k]
      BY <1>1, <1>3, <2>1 DEF Holding, Continues, ListMatchesToken
    <2>3. \A c : c \notin Changed(t, n) => (c \in mirrored <=> c \in history[n])
      BY <2>1, <2>2, UnchangedStays
    <2>4. Applied(r) = (mirrored \ Changed(t, n)) \cup (history[n] \cap Changed(t, n))
      BY <1>3, <2>1 DEF Applied
    <2>. QED  BY <2>1, <2>3, <2>4
  <1>. QED  BY <1>2, <1>3

\* A commit under the lease writes what is up to date.
LEMMA CommitKeeps ==
    ASSUME ListLease \in Nat, ListJitter \in Nat, ListInv, NEW r \in ListRuns, CommitList(r)
    PROVE  ListInv'
  <1>1. TypeOK /\ LinkSane /\ Standing(r) /\ Holding(r) /\ Claimed(r)
    BY DEF ListInv, CommitList, Claimed
  <1>2. CASE ~Held(r)
    BY <1>2, EndKeeps DEF CommitList, Others
  <1>3. CASE Held(r)
    <2>1. /\ link.lease = listing[r].lease /\ link.pending = listing[r].pending
          /\ listing[r].listed # 0 /\ listing[r].listed \in Nat /\ link.token \in Nat
          /\ heard \in Nat /\ Len(history) \in Nat /\ listing[r].now \in Nat /\ listClock \in Nat
      BY <1>1, <1>3, Fields DEF Held, Standing, CommitList
    <2>2. /\ link.token <= listing[r].listed /\ listing[r].listed <= Len(history)
          /\ heard <= listing[r].listed
      BY <1>1, <2>1 DEF Holding
    <2>3. mirrored' = history[listing[r].listed]
      BY <1>1, <1>3, <2>1, AppliedIsListed DEF CommitList
    <2>4. /\ link' \in Link /\ link'.status = link.status /\ link'.lease = Null
          /\ link'.pending = Null /\ link'.token = listing[r].listed
      <3>1. PICK token \in Nat, now \in Nat :
               token = listing[r].listed /\ now = listing[r].now
        BY <2>1
      <3>2. link' = [link EXCEPT !.token = token, !.pending = Null, !.lease = Null,
                                 !.synced = now]
        BY <1>3, <3>1 DEF CommitList
      <3>. QED  BY <1>1, <3>1, <3>2 DEF TypeOK, Link, Null
    <2>5. /\ listing'[r] = Idle /\ \A s \in ListRuns \ {r} : listing'[s] = listing[s]
          /\ listing' \in [ListRuns -> Listing] /\ UNCHANGED Others
      BY <1>1, IdleType DEF CommitList, TypeOK, Others
    <2>6. mirrored' \in SUBSET Calendars
      <3>1. listing[r].listed \in 1 .. Len(history)
        BY <2>1, <2>2
      <3>. QED  BY <1>1, <2>3, <3>1 DEF TypeOK
    <2>7. TypeOK' /\ Committed(r)
      BY <1>1, <2>1, <2>2, <2>4, <2>5, <2>6 DEF TypeOK, Committed, Others, Null
    <2>8. LinkSane' /\ ListMatchesToken' /\ ToldIsListedOrDue'
      BY <1>1, <2>1, <2>2, <2>3, <2>4, <2>5
         DEF LinkSane, ListMatchesToken, ToldIsListedOrDue, Others, Null
    <2>. QED  BY <2>5, <2>7, <2>8, EndsSoundly, RunStep DEF Others
  <1>. QED  BY <1>2, <1>3

-----------------------------------------------------------------------------
\* Everybody else leaves the runs alone.
LEMMA WorldKeeps ==
    ASSUME ListLease \in Nat, ListInv,
           \/ ChangeList \/ ListWebhook \/ CatchUpList \/ DisconnectList \/ ListTick
           \/ UNCHANGED listVars
    PROVE  ListInv'
  <1>1. TypeOK /\ LinkSane
    BY DEF ListInv
  <1>2. /\ link \in Link /\ link.pending \in Nat /\ listClock \in Nat /\ 0 < listClock
        /\ heard \in Nat /\ Len(history) \in Nat /\ history \in Seq(SUBSET Calendars)
    BY <1>1 DEF TypeOK, Link, LinkSane
  <1>3. SUFFICES /\ UNCHANGED <<mirrored, listing>> /\ TypeOK'
                 /\ listClock <= listClock' /\ Len(history) <= Len(history')
                 /\ \A n \in 1 .. Len(history) : history'[n] = history[n]
                 /\ Untouched \/ Asked \/ Closed
    <2>. USE DEF ListInv
    <2>1. \A r \in ListRuns : Times(r)' /\ Standing(r)' /\ Holding(r)'
      BY <1>3, OthersKeep
    <2>2. Apart'
      BY <1>3 DEF Apart, Claimed
    <2>3. LinkSane' /\ ListMatchesToken' /\ ToldIsListedOrDue'
      BY <1>3, RowKeeps
    <2>. QED  BY <1>3, <2>1, <2>2, <2>3
  <1>4. CASE ChangeList
    <2>1. PICK c \in Calendars :
             history' = Append(history, (history[Len(history)] \cup {c}) \
                                        (history[Len(history)] \cap {c}))
      BY <1>4 DEF ChangeList
    <2>2. PICK list \in SUBSET Calendars : history' = Append(history, list)
      <3>1. Len(history) \in 1 .. Len(history)
        BY <1>1, <1>2 DEF LinkSane
      <3>2. history[Len(history)] \in SUBSET Calendars
        BY <1>2, <3>1
      <3>. QED  BY <2>1, <3>2
    <2>3. /\ history' \in Seq(SUBSET Calendars) /\ Len(history') = Len(history) + 1
          /\ \A n \in 1 .. Len(history) : history'[n] = history[n]
      BY <1>2, <2>2
    <2>. QED  BY <1>1, <1>2, <1>4, <2>3 DEF ChangeList, Untouched, TypeOK
  <1>5. CASE ListWebhook
    <2>1. /\ AdvancePending(link.pending, listClock) \in Nat
          /\ link.pending < AdvancePending(link.pending, listClock)
          /\ listClock <= AdvancePending(link.pending, listClock)
      BY <1>2 DEF AdvancePending, Null
    <2>2. PICK time \in Nat : time = AdvancePending(link.pending, listClock)
      BY <2>1
    <2>3. link' = [link EXCEPT !.pending = time, !.updated = listClock] /\ Ask
      BY <1>5, <2>2 DEF ListWebhook
    <2>4. /\ link' \in Link /\ link'.status = link.status /\ link'.lease = link.lease
          /\ link'.token = link.token /\ link'.pending = time
      BY <1>2, <2>3 DEF Link
    <2>. QED  BY <1>1, <1>2, <2>1, <2>2, <2>3, <2>4 DEF Ask, Asked, TypeOK
  <1>6. CASE CatchUpList
    <2>1. link' = [link EXCEPT !.pending = listClock, !.updated = listClock] /\ Ask
          /\ link.pending = Null
      BY <1>6 DEF CatchUpList
    <2>2. /\ link' \in Link /\ link'.status = link.status /\ link'.lease = link.lease
          /\ link'.token = link.token /\ link'.pending = listClock
      BY <1>2, <2>1 DEF Link
    <2>. QED  BY <1>1, <1>2, <2>1, <2>2 DEF Ask, Asked, TypeOK, Null
  <1>7. CASE DisconnectList
    <2>1. /\ link' \in Link /\ link'.status = "disconnected" /\ link'.lease = Null
          /\ link'.token = link.token /\ link'.pending = link.pending
      BY <1>2, <1>7 DEF DisconnectList, Link, Null
    <2>. QED  BY <1>1, <1>2, <1>7, <2>1 DEF DisconnectList, Closed, TypeOK
  <1>8. CASE ListTick \/ UNCHANGED listVars
    BY <1>1, <1>2, <1>8 DEF ListTick, listVars, Untouched, TypeOK
  <1>. QED  BY <1>4, <1>5, <1>6, <1>7, <1>8

\* Every step keeps the invariant of the list.
LEMMA ListNext ==
    ASSUME ListLease \in Nat, ListJitter \in Nat, ListInv, [Next]_listVars
    PROVE  ListInv'
  BY FindKeeps, ClaimKeeps, WorkKeeps, CommitKeeps, WorldKeeps DEF Next

\* The invariant of the list.
THEOREM ListInvariant ==
    ASSUME ListLease \in Nat, ListJitter \in Nat
    PROVE  Spec => []ListInv
  <1>1. Init => ListInv
    <2>. SUFFICES ASSUME Init  PROVE ListInv
      OBVIOUS
    <2>1. PICK list \in SUBSET Calendars : history = <<list>>
      BY DEF Init
    <2>2. history \in Seq(SUBSET Calendars) /\ Len(history) = 1
      BY <2>1
    <2>3. TypeOK
      BY <2>2, IdleType DEF Init, TypeOK, Link, Null
    <2>. QED  BY <2>2, <2>3 DEF Init, Idle, ListInv, LinkSane, Apart, Times, Standing, Holding, Claimed,
                               ListMatchesToken, ToldIsListedOrDue, Null
  <1>2. ListInv /\ [Next]_listVars => ListInv'
    BY ListNext
  <1>. QED  BY <1>1, <1>2, PTL DEF Spec

\* The stored token always continues the stored calendars, however many runs overlap, fail,
\* crash or lose the token (commitCalendarList, resetCalendarListGone).
THEOREM ListFollowsToken ==
    ASSUME ListLease \in Nat, ListJitter \in Nat
    PROVE  Spec => []ListMatchesToken
  <1>1. ListInv => ListMatchesToken
    BY DEF ListInv
  <1>. QED  BY <1>1, ListInvariant, PTL

\* What the connection was told of is listed, or a listing is due (enqueueWebhookTarget,
\* markDueForCatchUp, claimCalendarList).
THEOREM ToldIsListed ==
    ASSUME ListLease \in Nat, ListJitter \in Nat
    PROVE  Spec => []ToldIsListedOrDue
  <1>1. ListInv => ToldIsListedOrDue
    BY DEF ListInv
  <1>. QED  BY <1>1, ListInvariant, PTL

\* The rows of the list and what its runs hold have their types, clocks and tokens are numbers.
THEOREM ListTypes ==
    ASSUME ListLease \in Nat, ListJitter \in Nat
    PROVE  Spec => []TypeOK
  <1>1. ListInv => TypeOK
    BY DEF ListInv
  <1>. QED  BY <1>1, ListInvariant, PTL

-----------------------------------------------------------------------------
(* The consent.  One that is not consumed has nothing behind it, and one   *)
(* that is has a connection, or one callback that may still make one.      *)
CONSTANTS Attempts, Callbacks, AttemptTime, PruneAge, MaxTime
VARIABLES attempt, callback, granted, oauthClock
Consent == INSTANCE GoogleOAuth

InFlight(c, a) == callback[c].pc \in {"exchange", "create"} /\ callback[c].attempt = a

OnePerConsent(a) ==
    /\ granted[a] <= 1
    /\ granted[a] # 0 => attempt[a].consumed
    /\ \A c \in Callbacks : InFlight(c, a) => attempt[a].consumed /\ granted[a] = 0
    /\ \A c, d \in Callbacks : InFlight(c, a) /\ InFlight(d, a) => c = d
    /\ attempt[a].exists \/ attempt[a].consumed => attempt[a].created # 0

ConsentInv == Consent!TypeOK /\ oauthClock # 0 /\ \A a \in Attempts : OnePerConsent(a)

\* Whatever is done to a consent, one that was not consumed has nothing behind it.
LEMMA ConsentStep ==
    ASSUME AttemptTime \in Nat, ConsentInv, [Consent!Next]_(Consent!oauthVars)
    PROVE  ConsentInv'
  <1>. USE DEF ConsentInv
  <1>1. /\ attempt \in [Attempts -> Consent!Attempt] /\ callback \in [Callbacks -> Consent!Callback]
        /\ granted \in [Attempts -> Nat] /\ oauthClock \in Nat
    BY DEF Consent!TypeOK
  <1>2. ASSUME NEW x \in Attempts, Consent!CreateAuthorizationUrl(x)  PROVE ConsentInv'
    <2>1. Consent!TypeOK' /\ oauthClock' = oauthClock
      BY <1>1, <1>2 DEF Consent!CreateAuthorizationUrl, Consent!TypeOK, Consent!Attempt
    <2>2. ASSUME NEW a \in Attempts  PROVE OnePerConsent(a)'
      <3>1. CASE a = x
        <4>1. ~attempt[a].consumed
          BY <1>2, <3>1 DEF Consent!CreateAuthorizationUrl, OnePerConsent
        <4>2. granted[a] = 0 /\ \A c \in Callbacks : ~InFlight(c, a)
          BY <4>1 DEF OnePerConsent
        <4>3. attempt'[a].consumed = FALSE
          BY <1>1, <1>2, <3>1 DEF Consent!CreateAuthorizationUrl
        <4>. QED  BY <1>2, <4>2, <4>3 DEF Consent!CreateAuthorizationUrl, OnePerConsent, InFlight
      <3>2. CASE a # x
        <4>1. attempt'[a] = attempt[a]
          BY <1>1, <1>2, <3>2 DEF Consent!CreateAuthorizationUrl
        <4>. QED  BY <1>2, <4>1 DEF Consent!CreateAuthorizationUrl, OnePerConsent, InFlight
      <3>. QED  BY <3>1, <3>2
    <2>. QED  BY <2>1, <2>2
  <1>3. ASSUME NEW x \in Attempts, Consent!Prune(x)  PROVE ConsentInv'
    <2>1. Consent!TypeOK' /\ oauthClock' = oauthClock
      BY <1>1, <1>3 DEF Consent!Prune, Consent!TypeOK, Consent!Attempt
    <2>2. \A a \in Attempts : /\ attempt'[a].exists => attempt[a].exists
                              /\ attempt'[a].consumed = attempt[a].consumed
                              /\ attempt'[a].created = attempt[a].created
      BY <1>1, <1>3 DEF Consent!Prune, Consent!Attempt
    <2>. QED  BY <1>3, <2>1, <2>2 DEF Consent!Prune, OnePerConsent, InFlight
  <1>4. ASSUME NEW c \in Callbacks, NEW x \in Attempts, Consent!FindAttempt(c, x)  PROVE ConsentInv'
    <2>1. Consent!TypeOK' /\ oauthClock' = oauthClock
      BY <1>1, <1>4 DEF Consent!FindAttempt, Consent!TypeOK, Consent!Callback
    <2>2. \A d \in Callbacks : \A a \in Attempts : InFlight(d, a)' => InFlight(d, a)
      BY <1>1, <1>4 DEF Consent!FindAttempt, InFlight
    <2>. QED  BY <1>4, <2>1, <2>2 DEF Consent!FindAttempt, OnePerConsent
  <1>5. ASSUME NEW c \in Callbacks, Consent!ConsumeAttempt(c)  PROVE ConsentInv'
    <2>1. PICK x \in Attempts : x = callback[c].attempt /\ callback[c].pc = "found"
      BY <1>1, <1>5 DEF Consent!ConsumeAttempt, Consent!Callback
    <2>2. \A d \in Callbacks : \A a \in Attempts : InFlight(d, a) => d # c
      BY <2>1 DEF InFlight
    <2>3. /\ granted' = granted /\ oauthClock' = oauthClock
          /\ \E next \in {"exchange", "idle"} : callback' = [callback EXCEPT ![c].pc = next]
      BY <1>5 DEF Consent!ConsumeAttempt
    <2>4. PICK next \in {"exchange", "idle"} : callback' = [callback EXCEPT ![c].pc = next]
      BY <2>3
    <2>5. \A d \in Callbacks : d # c => callback'[d] = callback[d]
      BY <1>1, <2>4
    <2>6. callback'[c].attempt = x /\ callback' \in [Callbacks -> Consent!Callback]
      BY <1>1, <2>1, <2>4 DEF Consent!Callback
    <2>7. \A d \in Callbacks, a \in Attempts : d # c /\ InFlight(d, a)' => InFlight(d, a)
      BY <2>5 DEF InFlight
    <2>8. CASE Consent!Consumable(x) /\ attempt' = [attempt EXCEPT ![x].consumed = TRUE]
      <3>1. /\ attempt'[x].consumed /\ \A a \in Attempts : a # x => attempt'[a] = attempt[a]
            /\ attempt'[x].created = attempt[x].created /\ attempt' \in [Attempts -> Consent!Attempt]
        BY <1>1, <2>1, <2>8 DEF Consent!Attempt
      <3>2. ~attempt[x].consumed
        BY <2>8 DEF Consent!Consumable
      <3>3. granted[x] = 0 /\ \A d \in Callbacks : ~InFlight(d, x)
        BY <2>1, <3>2 DEF OnePerConsent
      <3>5. attempt[x].created # 0
        BY <2>1, <2>8 DEF Consent!Consumable, OnePerConsent
      <3>4. ASSUME NEW a \in Attempts  PROVE OnePerConsent(a)'
        <4>1. CASE a = x
          <5>1. \A d \in Callbacks : InFlight(d, x)' => d = c
            BY <2>1, <2>7, <3>3
          <5>2. granted'[x] = 0 /\ attempt'[x].consumed /\ attempt'[x].created # 0
            BY <2>1, <2>3, <3>1, <3>3, <3>5
          <5>. QED  BY <4>1, <5>1, <5>2 DEF OnePerConsent
        <4>2. CASE a # x
          <5>1. ~InFlight(c, a)'
            BY <2>6, <4>2 DEF InFlight
          <5>2. \A d \in Callbacks : InFlight(d, a)' => InFlight(d, a)
            BY <2>7, <5>1
          <5>. QED  BY <2>3, <3>1, <4>2, <5>2 DEF OnePerConsent
        <4>. QED  BY <4>1, <4>2
      <3>. QED  BY <1>1, <2>3, <2>6, <3>1, <3>4 DEF Consent!TypeOK
    <2>9. CASE callback' = [callback EXCEPT ![c].pc = "idle"] /\ attempt' = attempt
      <3>1. \A d \in Callbacks : \A a \in Attempts : InFlight(d, a)' => InFlight(d, a)
        BY <1>1, <2>9 DEF InFlight
      <3>2. Consent!TypeOK'
        BY <1>1, <2>3, <2>6, <2>9 DEF Consent!TypeOK
      <3>. QED  BY <2>3, <2>9, <3>1, <3>2 DEF OnePerConsent
    <2>. QED  BY <1>5, <2>1, <2>8, <2>9 DEF Consent!ConsumeAttempt
  <1>6. ASSUME NEW c \in Callbacks, Consent!ExchangeCode(c)  PROVE ConsentInv'
    <2>1. Consent!TypeOK' /\ oauthClock' = oauthClock
      BY <1>1, <1>6 DEF Consent!ExchangeCode, Consent!TypeOK, Consent!Callback
    <2>2. \A d \in Callbacks : \A a \in Attempts : InFlight(d, a)' => InFlight(d, a)
      BY <1>1, <1>6 DEF Consent!ExchangeCode, InFlight, Consent!Callback
    <2>. QED  BY <1>6, <2>1, <2>2 DEF Consent!ExchangeCode, OnePerConsent
  <1>7. ASSUME NEW c \in Callbacks, Consent!CreateConnection(c)  PROVE ConsentInv'
    <2>1. PICK x \in Attempts : x = callback[c].attempt /\ InFlight(c, x)
      BY <1>1, <1>7 DEF Consent!CreateConnection, Consent!Callback, InFlight
    <2>2. granted[x] = 0 /\ attempt[x].consumed
      BY <2>1 DEF OnePerConsent
    <2>3. PICK rows \in {0, 1} : granted' = [granted EXCEPT ![x] = @ + rows]
      BY <1>7, <2>1 DEF Consent!CreateConnection
    <2>4. /\ granted' \in [Attempts -> Nat] /\ granted'[x] <= 1
          /\ \A a \in Attempts : a # x => granted'[a] = granted[a]
      BY <1>1, <2>1, <2>2, <2>3
    <2>5. /\ \A d \in Callbacks : \A a \in Attempts : InFlight(d, a)' => InFlight(d, a) /\ d # c
          /\ callback' \in [Callbacks -> Consent!Callback]
      BY <1>1, <1>7 DEF Consent!CreateConnection, InFlight, Consent!Callback
    <2>6. \A d \in Callbacks : ~InFlight(d, x)'
      <3>1. \A d \in Callbacks : InFlight(d, x) => d = c
        BY <2>1 DEF OnePerConsent
      <3>. QED  BY <2>1, <2>5, <3>1
    <2>7. UNCHANGED <<attempt, oauthClock>> /\ Consent!TypeOK'
      BY <1>1, <1>7, <2>4, <2>5 DEF Consent!CreateConnection, Consent!TypeOK
    <2>8. ASSUME NEW a \in Attempts  PROVE OnePerConsent(a)'
      <3>1. CASE a = x
        <4>1. attempt[x].created # 0
          BY <2>1, <2>2 DEF OnePerConsent
        <4>. QED  BY <2>2, <2>4, <2>6, <2>7, <3>1, <4>1 DEF OnePerConsent
      <3>2. CASE a # x
        BY <2>4, <2>5, <2>7, <3>2 DEF OnePerConsent
      <3>. QED  BY <3>1, <3>2
    <2>. QED  BY <2>7, <2>8
  <1>8. CASE Consent!OAuthTick \/ UNCHANGED Consent!oauthVars
    BY <1>1, <1>8 DEF Consent!OAuthTick, Consent!oauthVars, Consent!TypeOK, OnePerConsent, InFlight
  <1>. QED  BY <1>2, <1>3, <1>4, <1>5, <1>6, <1>7, <1>8 DEF Consent!Next

\* However often and wherever the browser is sent back, in as many processes as there are,
\* one consent creates one connection at most (consumeAttempt, create).
THEOREM ConsentUsedOnce ==
    ASSUME Attempts # {}, AttemptTime \in Nat
    PROVE  Consent!Spec => []Consent!OneConnectionPerConsent
  <1>1. Consent!Init => ConsentInv
    BY DEF Consent!Init, ConsentInv, Consent!TypeOK, OnePerConsent, InFlight, Consent!Attempt, Consent!Callback
  <1>2. ConsentInv /\ [Consent!Next]_(Consent!oauthVars) => ConsentInv'
    BY ConsentStep
  <1>3. ConsentInv => Consent!OneConnectionPerConsent
    BY DEF ConsentInv, OnePerConsent, Consent!OneConnectionPerConsent
  <1>. QED  BY <1>1, <1>2, <1>3, PTL DEF Consent!Spec

\* Attempts and callbacks have their types, whatever of them overlaps.
THEOREM ConsentTypes ==
    ASSUME Attempts # {}, AttemptTime \in Nat
    PROVE  Consent!Spec => []Consent!TypeOK
  <1>1. Consent!Init => ConsentInv
    BY DEF Consent!Init, ConsentInv, Consent!TypeOK, OnePerConsent, InFlight, Consent!Attempt, Consent!Callback
  <1>2. ConsentInv /\ [Consent!Next]_(Consent!oauthVars) => ConsentInv'
    BY ConsentStep
  <1>3. ConsentInv => Consent!TypeOK
    BY DEF ConsentInv
  <1>. QED  BY <1>1, <1>2, <1>3, PTL DEF Consent!Spec

-----------------------------------------------------------------------------
(* Preferences of events: every row is sealed for itself.                  *)
CONSTANTS RowIds, Saves, MaxAttempts
VARIABLES pref, save
Preferences == INSTANCE EventPreferences

\* The tags of the owner can be read, whatever saves and removals overlap: a save writes only
\* into the row it has encrypted them for (event-preference.service.ts, upsert).
THEOREM TagsReadable == Preferences!Spec => []Preferences!PreferenceReadable
  <1>1. Preferences!Init => Preferences!PreferenceReadable
    BY DEF Preferences!Init, Preferences!NoRow, Preferences!PreferenceReadable
  <1>2. Preferences!PreferenceReadable /\ [Preferences!Next]_(Preferences!preferenceVars)
        => Preferences!PreferenceReadable'
    <2>. SUFFICES ASSUME Preferences!PreferenceReadable, [Preferences!Next]_(Preferences!preferenceVars)
         PROVE  Preferences!PreferenceReadable'
      OBVIOUS
    <2>1. ASSUME NEW w \in Saves, Preferences!WritePreference(w)
          PROVE  Preferences!PreferenceReadable'
      BY <2>1 DEF Preferences!WritePreference, Preferences!SameRow, Preferences!PreferenceReadable
    <2>2. ASSUME pref' = Preferences!NoRow \/ UNCHANGED pref
          PROVE  Preferences!PreferenceReadable'
      BY <2>2 DEF Preferences!NoRow, Preferences!PreferenceReadable
    <2>. QED  BY <2>1, <2>2 DEF Preferences!Next, Preferences!RemovePreference,
                Preferences!GiveUp, Preferences!FindPreference, Preferences!preferenceVars
  <1>. QED  BY <1>1, <1>2, PTL DEF Preferences!Spec

\* The row and what requests have found of it have their types, and no request tries more often
\* than it may (upsert of event-preference.service.ts).
THEOREM PreferenceTypes ==
    ASSUME MaxAttempts \in Nat
    PROVE  Preferences!Spec => []Preferences!TypeOK
  <1>1. Preferences!Init => Preferences!TypeOK
    BY DEF Preferences!Init, Preferences!NoRow, Preferences!TypeOK
  <1>2. Preferences!TypeOK /\ [Preferences!Next]_(Preferences!preferenceVars) => Preferences!TypeOK'
    <2>. SUFFICES ASSUME Preferences!TypeOK, [Preferences!Next]_(Preferences!preferenceVars)
         PROVE  Preferences!TypeOK'
      OBVIOUS
    <2>. USE DEF Preferences!TypeOK
    <2>1. ASSUME NEW w \in Saves, NEW fresh \in RowIds, Preferences!FindPreference(w, fresh)
          PROVE  Preferences!TypeOK'
      <3>1. /\ save[w] \in [pc : {"idle", "found"}, id : RowIds \cup {0}, isNew : BOOLEAN,
                            attempt : 0 .. MaxAttempts]
            /\ save[w].attempt < MaxAttempts /\ save[w].attempt \in 0 .. MaxAttempts
        BY <2>1 DEF Preferences!FindPreference
      <3>2. save[w].attempt + 1 \in 0 .. MaxAttempts
        BY <3>1
      <3>3. pref.id \in RowIds \cup {0}
        OBVIOUS
      <3>. QED  BY <2>1, <3>2, <3>3 DEF Preferences!FindPreference
    <2>2. ASSUME NEW w \in Saves, Preferences!WritePreference(w)  PROVE Preferences!TypeOK'
      <3>1. /\ save[w] \in [pc : {"idle", "found"}, id : RowIds \cup {0}, isNew : BOOLEAN,
                            attempt : 0 .. MaxAttempts]
            /\ save[w].id \in RowIds \cup {0} /\ pref.id \in RowIds \cup {0} /\ 0 \in 0 .. MaxAttempts
        OBVIOUS
      <3>2. pref' \in [id : RowIds \cup {0}, sealedFor : RowIds \cup {0}]
        BY <2>2, <3>1 DEF Preferences!WritePreference
      <3>3. save' \in [Saves -> [pc : {"idle", "found"}, id : RowIds \cup {0}, isNew : BOOLEAN,
                                 attempt : 0 .. MaxAttempts]]
        BY <2>2, <3>1 DEF Preferences!WritePreference
      <3>. QED  BY <3>2, <3>3
    <2>3. ASSUME NEW w \in Saves, Preferences!GiveUp(w)  PROVE Preferences!TypeOK'
      <3>1. 0 \in 0 .. MaxAttempts
        OBVIOUS
      <3>. QED  BY <2>3, <3>1 DEF Preferences!GiveUp
    <2>4. CASE Preferences!RemovePreference
      BY <2>4 DEF Preferences!RemovePreference, Preferences!NoRow
    <2>5. CASE UNCHANGED Preferences!preferenceVars
      BY <2>5 DEF Preferences!preferenceVars
    <2>. QED  BY <2>1, <2>2, <2>3, <2>4, <2>5 DEF Preferences!Next
  <1>. QED  BY <1>1, <1>2, PTL DEF Preferences!Spec


-----------------------------------------------------------------------------
(* Feeds.  A run that is overtaken finds a source that was removed, is due *)
(* after it began, or is leased to a later one; so the fence, which        *)
(* compares neither the feed nor the run, tells its own claim from every   *)
(* later state of the row.                                                 *)
CONSTANTS EventSources, Pollers, Events, EndsAt, Lease, PollInterval, MaxFeeds, MaxPollClock
VARIABLES source, found, offered, poller, pollClock
Polling == INSTANCE EventDiscovery

RowOK(s) ==
    /\ source[s] \in Polling!Source
    /\ source[s].leaseUntil # Polling!None => source[s].nextPollAt + Lease <= source[s].leaseUntil
    /\ source[s].lastPolledAt <= source[s].nextPollAt
    /\ source[s].lastPolledAt <= pollClock
    /\ source[s].status = "none" => source[s].lastPolledAt = Polling!None

Working(p) == poller[p].pc \in {"fetch", "commit", "failed"}

Overtaken(p) ==
    LET s == poller[p].source
    IN \/ source[s].status = "none"
       \/ source[s].nextPollAt > poller[p].runNow
       \/ source[s].leaseUntil > poller[p].runNow + Lease

RunFields == {"pc", "runNow", "source", "claim", "events"}

RunOK(p) ==
    /\ DOMAIN poller[p] = RunFields
    /\ poller[p].pc \in {"idle", "run", "fetch", "commit", "failed"}
    /\ poller[p].runNow \in Nat
    /\ poller[p].pc # "idle" => poller[p].runNow <= pollClock

ClaimOK(p) ==
    /\ poller[p].source \in EventSources
    /\ poller[p].claim \in Polling!Source
    /\ poller[p].claim.status \in {"active", "error"}
    /\ poller[p].claim.leaseUntil = poller[p].runNow + Lease
    /\ poller[p].claim.nextPollAt <= poller[p].runNow
    /\ source[poller[p].source] = poller[p].claim \/ Overtaken(p)

RunsApart ==
    \A p, q \in Pollers : (/\ Working(p) /\ Working(q) /\ p # q
                           /\ poller[p].source = poller[q].source)
                          => poller[p].runNow # poller[q].runNow

FeedsInv ==
    /\ DOMAIN source = EventSources /\ \A s \in EventSources : RowOK(s)
    /\ DOMAIN found = EventSources
    /\ DOMAIN poller = Pollers
    /\ \A p \in Pollers : RunOK(p) /\ (Working(p) => ClaimOK(p))
    /\ RunsApart
    /\ pollClock \in Nat

FeedConstants ==
    Lease \in Nat \ {0} /\ PollInterval \in Nat /\ MaxFeeds \in Nat \ {0}

\* The rows after a step of the owner, or of a run: at most one is new.
LEMMA OneRow ==
    ASSUME FeedsInv, NEW s \in EventSources, NEW row, source' = [source EXCEPT ![s] = row]
    PROVE  /\ DOMAIN source' = EventSources /\ source'[s] = row
           /\ \A t \in EventSources \ {s} : source'[t] = source[t]
  BY DEF FeedsInv

\* A step of one run leaves the others alone.
LEMMA OneRun ==
    ASSUME FeedsInv, NEW p \in Pollers, NEW run, poller' = [poller EXCEPT ![p] = run]
    PROVE  /\ DOMAIN poller' = Pollers /\ poller'[p] = run
           /\ \A q \in Pollers \ {p} : poller'[q] = poller[q]
  BY DEF FeedsInv

\* A run that stays as it is keeps its claim, or is overtaken.
LEMMA RunKept ==
    ASSUME FeedConstants, FeedsInv, NEW p \in Pollers, poller'[p] = poller[p],
           pollClock' \in Nat, pollClock <= pollClock',
           Working(p) => source'[poller[p].source] = source[poller[p].source] \/ Overtaken(p)'
    PROVE  RunOK(p)' /\ (Working(p)' => ClaimOK(p)')
  <1>1. RunOK(p)'
    BY DEF FeedsInv, RunOK
  <1>2. ASSUME Working(p)  PROVE ClaimOK(p)'
    <2>1. ClaimOK(p)
      BY <1>2 DEF FeedsInv
    <2>2. source'[poller[p].source] = source[poller[p].source] /\ Overtaken(p) => Overtaken(p)'
      BY DEF Overtaken
    <2>3. source'[poller'[p].source] = poller'[p].claim \/ Overtaken(p)'
      BY <1>2, <2>1, <2>2 DEF ClaimOK
    <2>. QED  BY <2>1, <2>3 DEF ClaimOK
  <1>. QED  BY <1>1, <1>2 DEF Working

\* What the fence of a run lets through is its own claim.
LEMMA FencedIsClaim ==
    ASSUME FeedConstants, FeedsInv, NEW p \in Pollers, Working(p), Polling!Fenced(p)
    PROVE  source[poller[p].source] = poller[p].claim
  <1>1. ClaimOK(p) /\ RunOK(p) /\ RowOK(poller[p].source)
    BY DEF FeedsInv, ClaimOK
  <1>2. source[poller[p].source] \in Polling!Source
    BY <1>1 DEF RowOK
  <1>3. poller[p].runNow \in Nat /\ Lease \in Nat \ {0}
    BY <1>1 DEF RunOK, FeedConstants
  <1>4. /\ source[poller[p].source].nextPollAt \in Nat
        /\ source[poller[p].source].leaseUntil = poller[p].runNow + Lease
        /\ source[poller[p].source].status \in {"active", "error"}
    BY <1>1, <1>2 DEF ClaimOK, Polling!Fenced, Polling!Source
  <1>5. source[poller[p].source].nextPollAt <= poller[p].runNow
    BY <1>1, <1>3, <1>4 DEF RowOK, Polling!None
  <1>6. ~Overtaken(p)
    BY <1>3, <1>4, <1>5 DEF Overtaken
  <1>. QED  BY <1>1, <1>6 DEF ClaimOK

\* A step of the owner on a source, dated later than all that has happened.
LEMMA OwnerStep ==
    ASSUME FeedConstants, FeedsInv, NEW s \in EventSources, NEW row,
           source' = [source EXCEPT ![s] = row], pollClock' = pollClock + 1,
           row \in Polling!Source, row.leaseUntil = Polling!None,
           row.lastPolledAt <= pollClock, row.lastPolledAt <= row.nextPollAt,
           row.status = "none" => row.lastPolledAt = Polling!None,
           row.status = "none" \/ row.nextPollAt > pollClock,
           DOMAIN found' = EventSources, UNCHANGED poller
    PROVE  FeedsInv'
  <1>1. /\ DOMAIN source' = EventSources /\ source'[s] = row
        /\ \A t \in EventSources \ {s} : source'[t] = source[t]
    BY OneRow
  <1>2. pollClock \in Nat /\ pollClock' \in Nat /\ pollClock <= pollClock'
    BY DEF FeedsInv
  <1>3. ASSUME NEW t \in EventSources  PROVE RowOK(t)'
    <2>1. CASE t = s
      <3>1. row.lastPolledAt \in Int
        BY DEF Polling!Source, Polling!None
      <3>. QED  BY <1>1, <1>2, <2>1, <3>1 DEF RowOK
    <2>2. CASE t # s
      <3>1. RowOK(t) /\ source'[t] = source[t]
        BY <1>1, <2>2 DEF FeedsInv
      <3>2. source[t].lastPolledAt \in Int
        BY <3>1 DEF RowOK, Polling!Source, Polling!None
      <3>. QED  BY <1>2, <3>1, <3>2 DEF RowOK
    <2>. QED  BY <2>1, <2>2
  <1>4. ASSUME NEW p \in Pollers  PROVE RunOK(p)' /\ (Working(p)' => ClaimOK(p)')
    <2>1. ASSUME Working(p)
          PROVE  source'[poller[p].source] = source[poller[p].source] \/ Overtaken(p)'
      <3>1. ClaimOK(p) /\ poller[p].runNow \in Nat /\ poller[p].runNow <= pollClock
        BY <2>1 DEF FeedsInv, Working, RunOK
      <3>2. CASE poller[p].source = s
        <4>1. row.nextPollAt \in Nat
          BY DEF Polling!Source
        <4>. QED  BY <1>1, <1>2, <3>1, <3>2, <4>1 DEF Overtaken
      <3>3. CASE poller[p].source # s
        BY <1>1, <3>1, <3>3 DEF ClaimOK
      <3>. QED  BY <3>2, <3>3
    <2>. QED  BY <1>2, <2>1, RunKept
  <1>5. RunsApart'
    BY DEF FeedsInv, RunsApart, Working
  <1>. QED  BY <1>1, <1>2, <1>3, <1>4, <1>5 DEF FeedsInv

\* A run that changes neither its claim nor any source.
LEMMA PollStep ==
    ASSUME FeedConstants, FeedsInv, NEW p \in Pollers, NEW run,
           poller' = [poller EXCEPT ![p] = run], UNCHANGED <<source, found, pollClock>>,
           DOMAIN run = RunFields, run.runNow \in Nat,
           run.pc \in {"idle", "run", "fetch", "commit", "failed"},
           run.pc # "idle" => run.runNow <= pollClock,
           run.pc \in {"fetch", "commit", "failed"}
               => /\ Working(p) /\ run.runNow = poller[p].runNow
                  /\ run.source = poller[p].source /\ run.claim = poller[p].claim
    PROVE  FeedsInv'
  <1>1. /\ DOMAIN poller' = Pollers /\ poller'[p] = run
        /\ \A q \in Pollers \ {p} : poller'[q] = poller[q]
    BY OneRun
  <1>2. pollClock \in Nat /\ pollClock' = pollClock /\ source' = source /\ found' = found
    BY DEF FeedsInv
  <1>3. \A s \in EventSources : RowOK(s)'
    BY <1>2 DEF FeedsInv, RowOK
  <1>4. \A q \in Pollers \ {p} : RunOK(q)' /\ (Working(q)' => ClaimOK(q)')
    <2>. SUFFICES ASSUME NEW q \in Pollers \ {p}  PROVE RunOK(q)' /\ (Working(q)' => ClaimOK(q)')
      OBVIOUS
    <2>. QED  BY <1>1, <1>2, RunKept
  <1>5. RunOK(p)'
    BY <1>1, <1>2 DEF RunOK
  <1>6. ASSUME Working(p)'  PROVE ClaimOK(p)'
    <2>1. Working(p) /\ ClaimOK(p) /\ run.runNow = poller[p].runNow
          /\ run.source = poller[p].source /\ run.claim = poller[p].claim
      BY <1>1, <1>6 DEF Working, FeedsInv
    <2>2. Overtaken(p) => Overtaken(p)'
      BY <1>1, <1>2, <2>1 DEF Overtaken
    <2>. QED  BY <1>1, <1>2, <2>1, <2>2 DEF ClaimOK
  <1>7. RunsApart'
    BY <1>1 DEF RunsApart, FeedsInv, Working
  <1>. QED  BY <1>1, <1>2, <1>3, <1>4, <1>5, <1>6, <1>7 DEF FeedsInv

\* A run that is over and leaves the source due again no earlier than it began.
LEMMA ReleaseStep ==
    ASSUME FeedConstants, FeedsInv, NEW p \in Pollers, Working(p), Polling!Fenced(p), NEW row,
           source' = [source EXCEPT ![poller[p].source] = row],
           poller' = [poller EXCEPT ![p] = Polling!Idle],
           DOMAIN found' = EventSources, UNCHANGED pollClock,
           row \in Polling!Source, row.leaseUntil = Polling!None, row.status # "none",
           row.nextPollAt >= poller[p].runNow, row.lastPolledAt <= poller[p].runNow
    PROVE  FeedsInv'
  <1>. DEFINE s == poller[p].source
  <1>1. RunOK(p) /\ ClaimOK(p) /\ s \in EventSources /\ source[s] = poller[p].claim
    BY FencedIsClaim DEF FeedsInv, ClaimOK
  <1>2. /\ DOMAIN source' = EventSources /\ source'[s] = row
        /\ \A t \in EventSources \ {s} : source'[t] = source[t]
    BY <1>1, OneRow
  <1>3. /\ DOMAIN poller' = Pollers /\ poller'[p] = Polling!Idle
        /\ \A q \in Pollers \ {p} : poller'[q] = poller[q]
    BY OneRun
  <1>4. pollClock \in Nat /\ pollClock' = pollClock /\ poller[p].runNow \in Nat
        /\ poller[p].runNow <= pollClock /\ Lease \in Nat \ {0}
    BY <1>1 DEF FeedsInv, RunOK, Working, FeedConstants
  <1>5. ASSUME NEW t \in EventSources  PROVE RowOK(t)'
    <2>1. CASE t = s
      <3>1. row.lastPolledAt \in Int /\ row.nextPollAt \in Nat
        BY DEF Polling!Source, Polling!None
      <3>. QED  BY <1>2, <1>4, <2>1, <3>1 DEF RowOK
    <2>2. CASE t # s
      BY <1>2, <1>4, <2>2 DEF RowOK, FeedsInv
    <2>. QED  BY <2>1, <2>2
  <1>6. ASSUME NEW q \in Pollers \ {p}  PROVE RunOK(q)' /\ (Working(q)' => ClaimOK(q)')
    <2>1. ASSUME Working(q)
          PROVE  source'[poller[q].source] = source[poller[q].source] \/ Overtaken(q)'
      <3>1. ClaimOK(q) /\ poller[q].runNow \in Nat
        BY <2>1 DEF FeedsInv, RunOK
      <3>2. CASE poller[q].source = s
        <4>1. poller[q].runNow # poller[p].runNow
          BY <2>1, <3>2 DEF FeedsInv, RunsApart
        <4>2. /\ source[s].leaseUntil = poller[p].runNow + Lease
              /\ source[s].status \in {"active", "error"}
              /\ source[s].nextPollAt <= poller[p].runNow /\ source[s].nextPollAt \in Nat
          BY <1>1 DEF ClaimOK, Polling!Source
        <4>3. CASE Overtaken(q)
          <5>1. poller[p].runNow > poller[q].runNow
            BY <1>4, <3>1, <3>2, <4>2, <4>3 DEF Overtaken
          <5>2. row.nextPollAt \in Nat /\ poller'[q] = poller[q]
            BY <1>3 DEF Polling!Source
          <5>3. row.nextPollAt > poller[q].runNow
            BY <1>4, <3>1, <5>1, <5>2
          <5>. QED  BY <1>2, <3>2, <5>2, <5>3 DEF Overtaken
        <4>4. CASE source[s] = poller[q].claim
          BY <1>4, <3>1, <4>1, <4>2, <4>4 DEF ClaimOK
        <4>. QED  BY <3>1, <3>2, <4>3, <4>4 DEF ClaimOK
      <3>3. CASE poller[q].source # s
        BY <1>2, <3>1, <3>3 DEF ClaimOK
      <3>. QED  BY <3>2, <3>3
    <2>. QED  BY <1>3, <1>4, <2>1, RunKept
  <1>7. RunOK(p)' /\ ~Working(p)'
    BY <1>3 DEF RunOK, Working, Polling!Idle, RunFields
  <1>8. RunsApart'
    BY <1>3, <1>7 DEF RunsApart, FeedsInv, Working
  <1>. QED  BY <1>2, <1>3, <1>4, <1>5, <1>6, <1>7, <1>8 DEF FeedsInv

\* A claim overtakes every run that works on the source.
LEMMA ClaimStep ==
    ASSUME FeedConstants, FeedsInv, NEW p \in Pollers, NEW s \in EventSources, Polling!ClaimSource(p, s)
    PROVE  FeedsInv'
  <1>1. PICK row : row = [source[s] EXCEPT !.leaseUntil = poller[p].runNow + Lease]
    OBVIOUS
  <1>2. RowOK(s) /\ RunOK(p) /\ source[s] \in Polling!Source /\ Lease \in Nat \ {0}
    BY DEF FeedsInv, RowOK, FeedConstants
  <1>3. poller[p].runNow \in Nat /\ poller[p].runNow <= pollClock /\ pollClock \in Nat
    BY <1>2 DEF RunOK, Polling!ClaimSource, FeedsInv
  <1>4. /\ row \in Polling!Source /\ row.leaseUntil = poller[p].runNow + Lease
        /\ row.status = source[s].status /\ row.nextPollAt = source[s].nextPollAt
        /\ row.lastPolledAt = source[s].lastPolledAt
    BY <1>1, <1>2, <1>3 DEF Polling!Source
  <1>5. /\ source[s].status \in {"active", "error"} /\ source[s].nextPollAt <= poller[p].runNow
        /\ source[s].leaseUntil <= poller[p].runNow /\ poller[p].pc = "run"
    BY DEF Polling!ClaimSource
  <1>6. /\ DOMAIN source' = EventSources /\ source'[s] = row
        /\ \A t \in EventSources \ {s} : source'[t] = source[t]
    BY <1>1, OneRow DEF Polling!ClaimSource, FeedsInv
  <1>7. PICK run : run = [poller[p] EXCEPT !.pc = "fetch", !.source = s, !.claim = row]
    OBVIOUS
  <1>8. /\ DOMAIN run = RunFields /\ run.pc = "fetch" /\ run.source = s /\ run.claim = row
        /\ run.runNow = poller[p].runNow
    BY <1>2, <1>7 DEF RunOK, RunFields
  <1>9. poller' = [poller EXCEPT ![p] = run]
    BY <1>6, <1>7 DEF Polling!ClaimSource, FeedsInv
  <1>10. /\ DOMAIN poller' = Pollers /\ poller'[p] = run
         /\ \A q \in Pollers \ {p} : poller'[q] = poller[q]
    BY <1>9, OneRun
  <1>11. pollClock' = pollClock /\ found' = found
    BY DEF Polling!ClaimSource
  <1>12. source[s].nextPollAt \in Nat /\ source[s].leaseUntil \in Int
    BY <1>2 DEF Polling!Source, Polling!None
  <1>13. ASSUME NEW t \in EventSources  PROVE RowOK(t)'
    <2>1. CASE t = s
      <3>1. row.nextPollAt + Lease <= row.leaseUntil
        BY <1>2, <1>3, <1>4, <1>5, <1>12
      <3>. QED  BY <1>2, <1>4, <1>5, <1>6, <1>11, <2>1, <3>1 DEF RowOK
    <2>2. CASE t # s
      BY <1>6, <1>11, <2>2 DEF RowOK, FeedsInv
    <2>. QED  BY <2>1, <2>2
  <1>14. ASSUME NEW q \in Pollers \ {p}, Working(q), poller[q].source = s
         PROVE  poller[q].runNow < poller[p].runNow
    <2>1. ClaimOK(q) /\ poller[q].runNow \in Nat
      BY <1>14 DEF FeedsInv, RunOK
    <2>2. CASE source[s] = poller[q].claim
      BY <1>2, <1>3, <1>5, <1>12, <2>1, <2>2 DEF ClaimOK
    <2>3. CASE Overtaken(q)
      BY <1>2, <1>3, <1>5, <1>12, <1>14, <2>1, <2>3 DEF Overtaken
    <2>. QED  BY <1>14, <2>1, <2>2, <2>3 DEF ClaimOK
  <1>15. ASSUME NEW q \in Pollers \ {p}  PROVE RunOK(q)' /\ (Working(q)' => ClaimOK(q)')
    <2>1. ASSUME Working(q)
          PROVE  source'[poller[q].source] = source[poller[q].source] \/ Overtaken(q)'
      <3>1. ClaimOK(q) /\ poller[q].runNow \in Nat
        BY <2>1 DEF FeedsInv, RunOK
      <3>2. CASE poller[q].source = s
        <4>1. row.leaseUntil > poller[q].runNow + Lease
          BY <1>2, <1>3, <1>4, <1>14, <2>1, <3>1, <3>2
        <4>. QED  BY <1>6, <1>10, <3>2, <4>1 DEF Overtaken
      <3>3. CASE poller[q].source # s
        BY <1>6, <3>1, <3>3 DEF ClaimOK
      <3>. QED  BY <3>2, <3>3
    <2>. QED  BY <1>3, <1>10, <1>11, <2>1, RunKept
  <1>16. RunOK(p)' /\ ClaimOK(p)'
    BY <1>3, <1>4, <1>5, <1>6, <1>8, <1>10, <1>11 DEF RunOK, ClaimOK
  <1>17. RunsApart'
    <2>. SUFFICES ASSUME NEW q \in Pollers, NEW r \in Pollers, Working(q)', Working(r)', q # r,
                         poller'[q].source = poller'[r].source
         PROVE  poller'[q].runNow # poller'[r].runNow
      BY DEF RunsApart
    <2>1. CASE q # p /\ r # p
      BY <1>10, <2>1 DEF FeedsInv, RunsApart, Working
    <2>2. ASSUME NEW o \in Pollers \ {p}, Working(o)', poller'[o].source = poller'[p].source
          PROVE  poller'[o].runNow # poller'[p].runNow
      <3>1. poller[o].runNow < poller[p].runNow /\ poller[o].runNow \in Nat
        BY <1>8, <1>10, <1>14, <2>2 DEF Working, FeedsInv, RunOK
      <3>. QED  BY <1>3, <1>8, <1>10, <3>1
    <2>. QED  BY <2>1, <2>2
  <1>. QED  BY <1>3, <1>6, <1>10, <1>11, <1>13, <1>15, <1>16, <1>17 DEF FeedsInv

\* Every step keeps the invariant of the feeds.
LEMMA FeedsStep ==
    ASSUME FeedConstants, FeedsInv, [Polling!Next]_(Polling!discoveryVars)
    PROVE  FeedsInv'
  <1>1. pollClock \in Nat /\ MaxFeeds \in Nat \ {0}
    BY DEF FeedsInv, FeedConstants
  <1>2. /\ Polling!NoSource.status = "none" /\ Polling!NoSource.leaseUntil = Polling!None
        /\ Polling!NoSource.lastPolledAt = Polling!None /\ Polling!NoSource \in Polling!Source
    BY <1>1 DEF Polling!NoSource, Polling!Source
  <1>3. ASSUME NEW s \in EventSources, Polling!CreateSource(s)  PROVE FeedsInv'
    <2>1. PICK delay \in {0, 1} :
              source' = [source EXCEPT ![s] = [Polling!NoSource EXCEPT !.status = "active", !.feed = 1,
                                                 !.nextPollAt = pollClock' + delay]]
      BY <1>3 DEF Polling!CreateSource
    <2>2. PICK row : row = [Polling!NoSource EXCEPT !.status = "active", !.feed = 1,
                                                  !.nextPollAt = pollClock' + delay]
      OBVIOUS
    <2>3. pollClock' = pollClock + 1 /\ UNCHANGED <<found, poller>>
      BY <1>3 DEF Polling!CreateSource, Polling!Later
    <2>7. PICK due \in Nat : due = pollClock' + delay /\ due > pollClock
      BY <1>1, <2>3
    <2>8. row = [Polling!NoSource EXCEPT !.status = "active", !.feed = 1, !.nextPollAt = due]
      BY <2>2, <2>7
    <2>9. 1 \in 0 .. MaxFeeds
      BY <1>1
    <2>4. /\ row \in Polling!Source /\ row.leaseUntil = Polling!None /\ row.lastPolledAt = -1
          /\ row.status = "active" /\ row.nextPollAt = due
      <3>1. row \in Polling!Source
        BY <1>2, <2>8, <2>9 DEF Polling!Source
      <3>. QED  BY <2>8, <3>1 DEF Polling!NoSource, Polling!None
    <2>5. row.lastPolledAt <= pollClock /\ row.lastPolledAt <= row.nextPollAt
      BY <1>1, <2>4, <2>7
    <2>6. DOMAIN found' = EventSources
      BY <2>3 DEF FeedsInv
    <2>. QED  BY <2>1, <2>2, <2>3, <2>4, <2>5, <2>6, <2>7, OwnerStep
  <1>4. ASSUME NEW s \in EventSources, Polling!UpdateSource(s)  PROVE FeedsInv'
    <2>1. PICK status \in {"active", "disabled", source[s].status}, change \in {0, 1} :
              source' = [source EXCEPT ![s].status = status, ![s].feed = @ + change,
                             ![s].leaseUntil = Polling!None, ![s].nextPollAt = pollClock']
      BY <1>4 DEF Polling!UpdateSource
    <2>2. PICK row : row = [source[s] EXCEPT !.status = status, !.feed = @ + change,
                                !.leaseUntil = Polling!None, !.nextPollAt = pollClock']
      OBVIOUS
    <2>3. pollClock' = pollClock + 1 /\ UNCHANGED <<found, poller>>
      BY <1>4 DEF Polling!UpdateSource, Polling!Later
    <2>4. RowOK(s) /\ source[s] \in Polling!Source
      BY DEF FeedsInv, RowOK
    <2>5. source' = [source EXCEPT ![s] = row]
      BY <2>1, <2>2 DEF FeedsInv
    <2>6. source[s].status # "none" /\ source[s].feed < MaxFeeds /\ source[s].feed \in Nat
      BY <1>1, <1>4, <2>4 DEF Polling!UpdateSource, Polling!Source
    <2>7. source[s].feed + change \in 0 .. MaxFeeds
      BY <1>1, <2>6
    <2>11. status \in {"active", "error", "disabled"}
      BY <2>4, <2>6 DEF Polling!Source
    <2>12. PICK due \in Nat : due = pollClock' /\ due = pollClock + 1
      BY <1>1, <2>3
    <2>13. PICK feed \in 0 .. MaxFeeds : feed = source[s].feed + change
      BY <2>7
    <2>14. row = [source[s] EXCEPT !.status = status, !.feed = feed, !.leaseUntil = Polling!None,
                                   !.nextPollAt = due]
      BY <2>2, <2>4, <2>12, <2>13 DEF Polling!Source
    <2>8. /\ row \in Polling!Source /\ row.leaseUntil = Polling!None /\ row.nextPollAt = due
          /\ row.lastPolledAt = source[s].lastPolledAt /\ row.status = status
      BY <2>4, <2>11, <2>14 DEF Polling!Source
    <2>9. /\ source[s].lastPolledAt \in Int /\ source[s].lastPolledAt <= pollClock
          /\ row.lastPolledAt <= row.nextPollAt /\ row.nextPollAt > pollClock
      BY <1>1, <2>4, <2>8, <2>12 DEF RowOK, Polling!Source, Polling!None
    <2>10. DOMAIN found' = EventSources
      BY <2>3 DEF FeedsInv
    <2>. QED  BY <2>3, <2>5, <2>8, <2>9, <2>10, <2>11, OwnerStep
  <1>5. ASSUME NEW s \in EventSources, Polling!RemoveSource(s)  PROVE FeedsInv'
    <2>1. PICK row : row = [Polling!NoSource EXCEPT !.feed = source[s].feed]
      OBVIOUS
    <2>2. source[s] \in Polling!Source
      BY DEF FeedsInv, RowOK
    <2>3. row \in Polling!Source /\ row.leaseUntil = Polling!None /\ row.lastPolledAt = -1
          /\ row.status = "none"
      BY <1>1, <2>1, <2>2 DEF Polling!NoSource, Polling!Source, Polling!None
    <2>4. row.lastPolledAt <= pollClock /\ row.lastPolledAt <= row.nextPollAt
          /\ row.lastPolledAt = Polling!None
      BY <1>1, <2>3 DEF Polling!Source, Polling!None
    <2>5. DOMAIN found' = EventSources /\ UNCHANGED poller /\ pollClock' = pollClock + 1
      BY <1>5 DEF Polling!RemoveSource, Polling!Later, FeedsInv
    <2>. QED  BY <1>5, <2>1, <2>3, <2>4, <2>5, OwnerStep DEF Polling!RemoveSource
  <1>6. ASSUME NEW s \in EventSources, Polling!ChangeFeed(s)  PROVE FeedsInv'
    BY <1>6 DEF FeedsInv, RowOK, RunOK, ClaimOK, RunsApart, Working, Overtaken, Polling!ChangeFeed
  <1>7. ASSUME NEW p \in Pollers  PROVE RunOK(p) /\ (Working(p) => ClaimOK(p))
    BY DEF FeedsInv
  <1>8. DOMAIN Polling!Idle = RunFields /\ Polling!Idle.pc = "idle" /\ Polling!Idle.runNow \in Nat
    BY DEF Polling!Idle, RunFields
  <1>9. ASSUME NEW p \in Pollers, Polling!BeginRun(p)  PROVE FeedsInv'
    <2>1. PICK run : run = [poller[p] EXCEPT !.pc = "run", !.runNow = pollClock]
      OBVIOUS
    <2>2. DOMAIN run = RunFields /\ run.pc = "run" /\ run.runNow = pollClock
      BY <1>7, <2>1 DEF RunOK, RunFields
    <2>3. poller' = [poller EXCEPT ![p] = run] /\ UNCHANGED <<source, found, pollClock>>
      BY <1>9, <2>1 DEF Polling!BeginRun, FeedsInv
    <2>4. run.pc \notin {"fetch", "commit", "failed"} /\ run.runNow <= pollClock
      BY <1>1, <2>2
    <2>. QED  BY <1>1, <2>2, <2>3, <2>4, PollStep
  <1>10. ASSUME NEW p \in Pollers, NEW pc \in {"commit", "failed"}, NEW events,
                poller' = [poller EXCEPT ![p].pc = pc, ![p].events = events],
                poller[p].pc \in {"fetch", "commit"}, UNCHANGED <<source, found, pollClock>>
         PROVE  FeedsInv'
    <2>1. PICK run : run = [poller[p] EXCEPT !.pc = pc, !.events = events]
      OBVIOUS
    <2>2. /\ DOMAIN run = RunFields /\ run.pc = pc /\ run.runNow = poller[p].runNow
          /\ run.source = poller[p].source /\ run.claim = poller[p].claim
      BY <1>7, <2>1 DEF RunOK, RunFields
    <2>3. poller' = [poller EXCEPT ![p] = run]
      BY <1>10, <2>1 DEF FeedsInv
    <2>4. Working(p) /\ RunOK(p)
      BY <1>7, <1>10 DEF Working
    <2>5. run.runNow \in Nat /\ run.runNow <= pollClock /\ pc # "idle"
      BY <1>10, <2>2, <2>4 DEF RunOK
    <2>. QED  BY <1>10, <2>2, <2>3, <2>4, <2>5, PollStep
  <1>11. ASSUME NEW p \in Pollers, Polling!Fetch(p)  PROVE FeedsInv'
    BY <1>10, <1>11 DEF Polling!Fetch
  <1>12. ASSUME NEW p \in Pollers, Polling!FailFetch(p)  PROVE FeedsInv'
    <2>1. poller' = [poller EXCEPT ![p].pc = "failed", ![p].events = poller[p].events]
      <3>1. DOMAIN poller[p] = RunFields
        BY <1>7 DEF RunOK
      <3>. QED  BY <1>12, <3>1 DEF Polling!FailFetch, FeedsInv, RunFields
    <2>. QED  BY <1>10, <1>12, <2>1 DEF Polling!FailFetch
  <1>13. ASSUME NEW p \in Pollers, poller' = [poller EXCEPT ![p] = Polling!Idle],
                UNCHANGED <<source, found, pollClock>>
         PROVE  FeedsInv'
    BY <1>8, <1>13, PollStep
  <1>14. ASSUME NEW p \in Pollers, Working(p), Polling!Fenced(p)
         PROVE  /\ RowOK(poller[p].source) /\ source[poller[p].source] \in Polling!Source
                /\ source[poller[p].source].nextPollAt <= poller[p].runNow
                /\ source[poller[p].source].lastPolledAt <= poller[p].runNow
                /\ poller[p].runNow \in Nat /\ PollInterval \in Nat
                /\ poller[p].claim.feed = source[poller[p].source].feed
    <2>1. ClaimOK(p) /\ RunOK(p) /\ RowOK(poller[p].source)
      BY <1>14 DEF FeedsInv, ClaimOK
    <2>2. source[poller[p].source] = poller[p].claim
      BY <1>14, FencedIsClaim
    <2>3. source[poller[p].source].nextPollAt \in Nat /\ source[poller[p].source].lastPolledAt \in Int
      BY <2>1 DEF RowOK, Polling!Source, Polling!None
    <2>. QED  BY <2>1, <2>2, <2>3 DEF ClaimOK, RunOK, RowOK, FeedConstants
  <1>15. ASSUME NEW p \in Pollers, Polling!CommitPoll(p)  PROVE FeedsInv'
    <2>1. CASE ~Polling!Fenced(p)
      BY <1>13, <1>15, <2>1 DEF Polling!CommitPoll
    <2>2. CASE Polling!Fenced(p)
      <3>. DEFINE s == poller[p].source
      <3>1. Working(p)
        BY <1>15 DEF Polling!CommitPoll, Working
      <3>2. PICK row : row = [source[s] EXCEPT !.status = "active", !.lastPolledAt = poller[p].runNow,
                                  !.nextPollAt = poller[p].runNow + PollInterval,
                                  !.leaseUntil = Polling!None, !.readFeed = poller[p].claim.feed]
        OBVIOUS
      <3>3. source' = [source EXCEPT ![s] = row] /\ DOMAIN found' = EventSources
            /\ poller' = [poller EXCEPT ![p] = Polling!Idle] /\ UNCHANGED pollClock
        BY <1>15, <2>2, <3>2 DEF Polling!CommitPoll, FeedsInv
      <3>4. /\ source[s] \in Polling!Source /\ poller[p].runNow \in Nat /\ PollInterval \in Nat
            /\ poller[p].claim.feed = source[s].feed
        BY <1>14, <2>2, <3>1
      <3>7. PICK due \in Nat : due = poller[p].runNow + PollInterval /\ due >= poller[p].runNow
        BY <3>4
      <3>8. PICK feed \in 0 .. MaxFeeds : feed = poller[p].claim.feed
        BY <3>4 DEF Polling!Source
      <3>9. row = [source[s] EXCEPT !.status = "active", !.lastPolledAt = poller[p].runNow,
                       !.nextPollAt = due, !.leaseUntil = Polling!None, !.readFeed = feed]
        BY <3>2, <3>7, <3>8
      <3>5. /\ row \in Polling!Source /\ row.leaseUntil = Polling!None /\ row.status = "active"
            /\ row.nextPollAt = poller[p].runNow + PollInterval /\ row.lastPolledAt = poller[p].runNow
        BY <3>4, <3>7, <3>9 DEF Polling!Source
      <3>6. row.nextPollAt >= poller[p].runNow /\ row.lastPolledAt <= poller[p].runNow
        BY <3>4, <3>5
      <3>. QED  BY <2>2, <3>1, <3>3, <3>5, <3>6, ReleaseStep
    <2>. QED  BY <2>1, <2>2
  <1>16. ASSUME NEW p \in Pollers, Polling!ReleaseFailed(p)  PROVE FeedsInv'
    <2>1. CASE ~Polling!Fenced(p)
      BY <1>13, <1>16, <2>1 DEF Polling!ReleaseFailed
    <2>2. CASE Polling!Fenced(p)
      <3>. DEFINE s == poller[p].source
      <3>1. Working(p)
        BY <1>16 DEF Polling!ReleaseFailed, Working
      <3>2. PICK jitter \in 0 .. PollInterval - 1 :
                source' = [source EXCEPT ![s].status = "error", ![s].leaseUntil = Polling!None,
                               ![s].nextPollAt = poller[p].runNow + jitter]
        BY <1>16, <2>2 DEF Polling!ReleaseFailed
      <3>3. PICK row : row = [source[s] EXCEPT !.status = "error", !.leaseUntil = Polling!None,
                                  !.nextPollAt = poller[p].runNow + jitter]
        OBVIOUS
      <3>4. source' = [source EXCEPT ![s] = row] /\ DOMAIN found' = EventSources
            /\ poller' = [poller EXCEPT ![p] = Polling!Idle] /\ UNCHANGED pollClock
        BY <1>16, <3>2, <3>3 DEF Polling!ReleaseFailed, FeedsInv
      <3>5. /\ source[s] \in Polling!Source /\ poller[p].runNow \in Nat /\ PollInterval \in Nat
            /\ source[s].lastPolledAt <= poller[p].runNow
        BY <1>14, <2>2, <3>1
      <3>6. jitter \in Nat
        BY <3>5
      <3>9. PICK due \in Nat : due = poller[p].runNow + jitter
        BY <3>5, <3>6
      <3>10. row = [source[s] EXCEPT !.status = "error", !.leaseUntil = Polling!None, !.nextPollAt = due]
        BY <3>3, <3>9
      <3>7. /\ row \in Polling!Source /\ row.leaseUntil = Polling!None /\ row.status = "error"
            /\ row.nextPollAt = poller[p].runNow + jitter
            /\ row.lastPolledAt = source[s].lastPolledAt
        BY <3>5, <3>9, <3>10 DEF Polling!Source
      <3>8. row.nextPollAt >= poller[p].runNow /\ row.lastPolledAt <= poller[p].runNow
        BY <3>5, <3>6, <3>7
      <3>. QED  BY <2>2, <3>1, <3>4, <3>7, <3>8, ReleaseStep
    <2>. QED  BY <2>1, <2>2
  <1>17. ASSUME NEW p \in Pollers, Polling!EndRun(p)  PROVE FeedsInv'
    BY <1>13, <1>17 DEF Polling!EndRun
  <1>18. CASE Polling!PollTick
    <2>1. pollClock' = pollClock + 1 /\ UNCHANGED <<source, found, poller>>
      BY <1>18 DEF Polling!PollTick, Polling!Later
    <2>2. ASSUME NEW p \in Pollers  PROVE RunOK(p)' /\ (Working(p)' => ClaimOK(p)')
      <3>1. source'[poller[p].source] = source[poller[p].source]
        BY <2>1
      <3>. QED  BY <1>1, <2>1, <3>1, RunKept
    <2>3. ASSUME NEW s \in EventSources  PROVE RowOK(s)'
      <3>1. RowOK(s) /\ source[s].lastPolledAt \in Int
        BY DEF FeedsInv, RowOK, Polling!Source, Polling!None
      <3>. QED  BY <1>1, <2>1, <3>1 DEF RowOK
    <2>4. RunsApart'
      BY <2>1 DEF FeedsInv, RunsApart, Working
    <2>. QED  BY <1>1, <2>1, <2>2, <2>3, <2>4 DEF FeedsInv
  <1>19. CASE UNCHANGED Polling!discoveryVars
    <2>1. UNCHANGED <<source, found, poller, pollClock>>
      BY <1>19 DEF Polling!discoveryVars
    <2>. QED  BY <2>1 DEF FeedsInv, RowOK, RunOK, ClaimOK, RunsApart, Working, Overtaken
  <1>20. ASSUME NEW p \in Pollers, NEW s \in EventSources, Polling!ClaimSource(p, s)  PROVE FeedsInv'
    BY <1>20, ClaimStep
  <1>. QED  BY <1>3, <1>4, <1>5, <1>6, <1>9, <1>11, <1>12, <1>15, <1>16, <1>17, <1>18, <1>19,
              <1>20 DEF Polling!Next

\* A step that writes what a run has read changes one source, and as the owner has set it.
LEMMA PolledStep ==
    ASSUME FeedConstants, FeedsInv, Polling!Next
    PROVE  Polling!PolledAsSet
  <1>1. ASSUME NEW s \in EventSources
        PROVE  RowOK(s) /\ source[s].lastPolledAt \in Int
    BY DEF FeedsInv, RowOK, Polling!Source, Polling!None
  <1>2. ASSUME NEW s \in EventSources, NEW row, source' = [source EXCEPT ![s] = row],
               row.lastPolledAt = source[s].lastPolledAt, UNCHANGED found
        PROVE  Polling!PolledAsSet
    BY <1>2, OneRow DEF Polling!PolledAsSet
  <1>3. ASSUME NEW s \in EventSources, Polling!CreateSource(s)  PROVE Polling!PolledAsSet
    <2>1. PICK delay \in {0, 1} :
              source' = [source EXCEPT ![s] = [Polling!NoSource EXCEPT !.status = "active", !.feed = 1,
                                                 !.nextPollAt = pollClock' + delay]]
      BY <1>3 DEF Polling!CreateSource
    <2>2. source[s].lastPolledAt = Polling!None /\ UNCHANGED found
      BY <1>1, <1>3 DEF Polling!CreateSource, RowOK
    <2>. QED  BY <1>2, <2>1, <2>2 DEF Polling!NoSource
  <1>4. ASSUME NEW s \in EventSources, Polling!UpdateSource(s)  PROVE Polling!PolledAsSet
    <2>1. \A t \in EventSources : source'[t].lastPolledAt = source[t].lastPolledAt
      BY <1>4, <1>1 DEF Polling!UpdateSource, FeedsInv, RowOK, Polling!Source
    <2>. QED  BY <1>4, <2>1 DEF Polling!PolledAsSet, Polling!UpdateSource
  <1>5. ASSUME NEW s \in EventSources, Polling!RemoveSource(s)  PROVE Polling!PolledAsSet
    <2>1. /\ \A t \in EventSources \ {s} : source'[t] = source[t] /\ found'[t] = found[t]
          /\ found'[s] = Polling!NoEvents /\ source'[s].status = "none"
      BY <1>5 DEF Polling!RemoveSource, FeedsInv, Polling!NoSource
    <2>. QED  BY <2>1 DEF Polling!PolledAsSet
  <1>6. ASSUME UNCHANGED <<source, found>>  PROVE Polling!PolledAsSet
    BY <1>6 DEF Polling!PolledAsSet
  <1>7. ASSUME NEW p \in Pollers, NEW s \in EventSources, Polling!ClaimSource(p, s)
        PROVE  Polling!PolledAsSet
    <2>1. \A t \in EventSources : source'[t].lastPolledAt = source[t].lastPolledAt
      BY <1>7, <1>1 DEF Polling!ClaimSource, FeedsInv, RowOK, Polling!Source
    <2>. QED  BY <1>7, <2>1 DEF Polling!PolledAsSet, Polling!ClaimSource
  <1>8. ASSUME NEW p \in Pollers, Polling!CommitPoll(p)  PROVE Polling!PolledAsSet
    <2>1. CASE ~Polling!Fenced(p)
      BY <1>6, <1>8, <2>1 DEF Polling!CommitPoll
    <2>2. CASE Polling!Fenced(p)
      <3>. DEFINE s == poller[p].source
      <3>1. Working(p)
        BY <1>8 DEF Polling!CommitPoll, Working
      <3>2. ClaimOK(p) /\ RunOK(p) /\ s \in EventSources /\ RowOK(s)
        BY <3>1 DEF FeedsInv, ClaimOK
      <3>3. source[s] = poller[p].claim
        BY <2>2, <3>1, FencedIsClaim
      <3>4. /\ \A t \in EventSources \ {s} : source'[t] = source[t] /\ found'[t] = found[t]
            /\ source'[s].lastPolledAt = poller[p].runNow
            /\ source'[s].readFeed = poller[p].claim.feed
        BY <1>8, <2>2, <3>2 DEF Polling!CommitPoll, FeedsInv, RowOK, Polling!Source
      <3>5. source[s].lastPolledAt \in Int /\ source[s].nextPollAt \in Nat /\ poller[p].runNow \in Nat
            /\ source[s].lastPolledAt <= source[s].nextPollAt
            /\ source[s].nextPollAt <= poller[p].runNow
            /\ source[s].status \in {"active", "error"}
        BY <3>2, <3>3 DEF RowOK, RunOK, ClaimOK, Polling!Source, Polling!None
      <3>6. source[s].lastPolledAt <= source'[s].lastPolledAt
        BY <3>4, <3>5
      <3>. QED  BY <3>3, <3>4, <3>5, <3>6 DEF Polling!PolledAsSet
    <2>. QED  BY <2>1, <2>2
  <1>9. ASSUME NEW p \in Pollers, Polling!ReleaseFailed(p)  PROVE Polling!PolledAsSet
    <2>1. \A t \in EventSources : source'[t].lastPolledAt = source[t].lastPolledAt
      <3>1. \A t \in EventSources : "lastPolledAt" \in DOMAIN source[t]
        BY <1>1 DEF RowOK, Polling!Source
      <3>2. ASSUME NEW n, source' = [source EXCEPT ![poller[p].source].status = "error",
                                         ![poller[p].source].leaseUntil = Polling!None,
                                         ![poller[p].source].nextPollAt = n]
            PROVE  \A t \in EventSources : source'[t].lastPolledAt = source[t].lastPolledAt
        BY <3>1, <3>2 DEF FeedsInv
      <3>. QED  BY <1>9, <3>2 DEF Polling!ReleaseFailed
    <2>. QED  BY <1>9, <2>1 DEF Polling!PolledAsSet, Polling!ReleaseFailed
  <1>. QED  BY <1>3, <1>4, <1>5, <1>6, <1>7, <1>8, <1>9 DEF Polling!Next, Polling!ChangeFeed,
              Polling!BeginRun, Polling!Fetch, Polling!FailFetch, Polling!EndRun, Polling!PollTick

\* What is stored of a source was read from the feed the owner had set, by a run no older than
\* the one before, however slow it was (commitSuccessfulPoll, claimDueSources).
THEOREM PollsAsSet ==
    ASSUME FeedConstants, EventSources # {}
    PROVE  Polling!Spec => Polling!EveryPollAsSet
  <1>1. Polling!Init => FeedsInv
    <2>. SUFFICES ASSUME Polling!Init  PROVE FeedsInv
      OBVIOUS
    <2>1. Polling!NoSource \in Polling!Source
      BY DEF Polling!NoSource, Polling!Source, FeedConstants
    <2>2. ASSUME NEW s \in EventSources  PROVE RowOK(s)
      BY <2>1 DEF Polling!Init, RowOK, Polling!NoSource, Polling!None
    <2>3. ASSUME NEW p \in Pollers  PROVE RunOK(p) /\ ~Working(p)
      BY DEF Polling!Init, RunOK, Working, Polling!Idle, RunFields
    <2>. QED  BY <2>2, <2>3 DEF Polling!Init, FeedsInv, RunsApart
  <1>2. FeedsInv /\ [Polling!Next]_(Polling!discoveryVars) => FeedsInv'
    BY FeedsStep
  <1>3. FeedsInv /\ [Polling!Next]_(Polling!discoveryVars)
        => [Polling!PolledAsSet]_(Polling!discoveryVars)
    BY PolledStep
  <1>. QED  BY <1>1, <1>2, <1>3, PTL DEF Polling!Spec, Polling!EveryPollAsSet

\* Sources, what was found, and runs have their types: no feed is beyond the owner's changes, and a
\* claim is of a source.
THEOREM DiscoveryTypes ==
    ASSUME FeedConstants, EventSources # {}
    PROVE  Polling!Spec => []Polling!TypeOK
  <1>. DEFINE Run == [pc : {"idle", "run", "fetch", "commit", "failed"}, runNow : Nat,
                      source : EventSources, claim : Polling!Source, events : SUBSET Events]
              Told == [Events -> {"none", "scheduled", "expired"}]
              Inv == FeedsInv /\ Polling!TypeOK
  <1>1. Polling!Idle \in Run /\ Polling!NoSource \in Polling!Source /\ Polling!NoEvents \in Told
    <2>1. Polling!NoSource \in Polling!Source
      BY DEF Polling!NoSource, Polling!Source, FeedConstants
    <2>2. PICK first : first = CHOOSE s \in EventSources : TRUE
      OBVIOUS
    <2>3. first \in EventSources
      BY <2>2
    <2>4. Polling!Idle = [pc |-> "idle", runNow |-> 0, source |-> first, claim |-> Polling!NoSource,
                          events |-> {}]
      BY <2>2 DEF Polling!Idle
    <2>. QED  BY <2>1, <2>3, <2>4 DEF Polling!NoEvents
  <1>2. Polling!Init => Inv
    <2>. SUFFICES ASSUME Polling!Init  PROVE Inv
      OBVIOUS
    <2>1. ASSUME NEW s \in EventSources  PROVE RowOK(s)
      BY <1>1 DEF Polling!Init, RowOK, Polling!NoSource, Polling!None
    <2>2. ASSUME NEW p \in Pollers  PROVE RunOK(p) /\ ~Working(p)
      BY DEF Polling!Init, RunOK, Working, Polling!Idle, RunFields
    <2>3. FeedsInv
      BY <2>1, <2>2 DEF Polling!Init, FeedsInv, RunsApart
    <2>4. Polling!TypeOK
      <3>. HIDE DEF Run
      <3>. QED  BY <1>1 DEF Polling!Init, Polling!TypeOK, Run
    <2>. QED  BY <2>3, <2>4
  <1>3. ASSUME Inv, [Polling!Next]_(Polling!discoveryVars)  PROVE Inv'
    <2>1. FeedsInv'
      BY <1>3, FeedsStep
    <2>2. /\ source \in [EventSources -> Polling!Source] /\ found \in [EventSources -> Told]
          /\ offered \in [EventSources -> SUBSET Events] /\ poller \in [Pollers -> Run] /\ pollClock \in Nat
      BY <1>3 DEF Polling!TypeOK
    <2>3. ASSUME source' \in [EventSources -> Polling!Source], found' \in [EventSources -> Told],
                 offered' \in [EventSources -> SUBSET Events], poller' \in [Pollers -> Run]
          PROVE  Inv'
      <3>1. pollClock' \in Nat
        BY <2>1 DEF FeedsInv
      <3>. QED  BY <2>1, <2>3, <3>1 DEF Polling!TypeOK
    <2>4. ASSUME NEW s \in EventSources, NEW row, source' = [source EXCEPT ![s] = row]
          PROVE  source' \in [EventSources -> Polling!Source]
      <3>1. source'[s] \in Polling!Source
        BY <2>1 DEF FeedsInv, RowOK
      <3>2. source'[s] = row
        BY <2>2, <2>4
      <3>. QED  BY <2>2, <2>4, <3>1, <3>2
    <2>5. ASSUME NEW p \in Pollers, NEW run \in Run, poller' = [poller EXCEPT ![p] = run]
          PROVE  poller' \in [Pollers -> Run]
      BY <2>2, <2>5
    <2>6. ASSUME NEW p \in Pollers
          PROVE  /\ poller[p] \in Run
                 /\ \A pc \in {"idle", "run", "fetch", "commit", "failed"} :
                       [poller[p] EXCEPT !.pc = pc] \in Run
                 /\ \A s \in EventSources, row \in Polling!Source :
                       [poller[p] EXCEPT !.pc = "fetch", !.source = s, !.claim = row] \in Run
                 /\ \A some \in SUBSET Events : [poller[p] EXCEPT !.pc = "commit", !.events = some] \in Run
                 /\ \A n \in Nat : [poller[p] EXCEPT !.pc = "run", !.runNow = n] \in Run
                 /\ poller[p].source \in EventSources
      <3>1. poller[p] \in Run
        BY <2>2
      <3>. QED  BY <3>1
    <2>. HIDE DEF Run, Told, Inv
    <2>7. ASSUME NEW s \in EventSources, Polling!CreateSource(s) \/ Polling!UpdateSource(s)
          PROVE  Inv'
      <3>1. PICK row : source' = [source EXCEPT ![s] = row]
        BY <2>7 DEF Polling!CreateSource, Polling!UpdateSource
      <3>. QED  BY <2>2, <2>3, <2>4, <2>7, <3>1 DEF Polling!CreateSource, Polling!UpdateSource
    <2>8. ASSUME NEW s \in EventSources, Polling!RemoveSource(s)  PROVE Inv'
      <3>1. PICK row : source' = [source EXCEPT ![s] = row]
        BY <2>8 DEF Polling!RemoveSource
      <3>2. found' \in [EventSources -> Told]
        BY <1>1, <2>2, <2>8 DEF Polling!RemoveSource
      <3>. QED  BY <2>2, <2>3, <2>4, <2>8, <3>1, <3>2 DEF Polling!RemoveSource
    <2>9. ASSUME NEW s \in EventSources, Polling!ChangeFeed(s)  PROVE Inv'
      BY <2>2, <2>3, <2>9 DEF Polling!ChangeFeed
    <2>10. ASSUME NEW p \in Pollers, Polling!BeginRun(p)  PROVE Inv'
      <3>1. poller' = [poller EXCEPT ![p] = [poller[p] EXCEPT !.pc = "run", !.runNow = pollClock]]
        BY <2>2, <2>10 DEF Polling!BeginRun
      <3>2. [poller[p] EXCEPT !.pc = "run", !.runNow = pollClock] \in Run
        BY <2>2, <2>6
      <3>3. poller' \in [Pollers -> Run]
        BY <2>5, <3>1, <3>2
      <3>. QED  BY <2>2, <2>3, <2>10, <3>3 DEF Polling!BeginRun
    <2>11. ASSUME NEW p \in Pollers, NEW s \in EventSources, Polling!ClaimSource(p, s)  PROVE Inv'
      <3>1. PICK row : source' = [source EXCEPT ![s] = row]
        BY <2>11 DEF Polling!ClaimSource
      <3>2. source' \in [EventSources -> Polling!Source] /\ source'[s] \in Polling!Source
        BY <2>4, <3>1
      <3>3. poller' = [poller EXCEPT ![p] = [poller[p] EXCEPT !.pc = "fetch", !.source = s, !.claim = source'[s]]]
        BY <2>2, <2>11 DEF Polling!ClaimSource
      <3>4. [poller[p] EXCEPT !.pc = "fetch", !.source = s, !.claim = source'[s]] \in Run
        BY <2>6, <3>2
      <3>5. poller' \in [Pollers -> Run]
        BY <2>5, <3>3, <3>4
      <3>. QED  BY <2>2, <2>3, <2>11, <3>2, <3>5 DEF Polling!ClaimSource
    <2>12. ASSUME NEW p \in Pollers, Polling!Fetch(p)  PROVE Inv'
      <3>1. poller' = [poller EXCEPT ![p] = [poller[p] EXCEPT !.pc = "commit", !.events = offered[poller[p].source]]]
        BY <2>2, <2>12 DEF Polling!Fetch
      <3>2. offered[poller[p].source] \in SUBSET Events
        BY <2>2, <2>6
      <3>. QED  BY <2>2, <2>3, <2>5, <2>6, <2>12, <3>1, <3>2 DEF Polling!Fetch
    <2>13. ASSUME NEW p \in Pollers, Polling!FailFetch(p)  PROVE Inv'
      <3>1. poller' = [poller EXCEPT ![p] = [poller[p] EXCEPT !.pc = "failed"]]
        BY <2>2, <2>13 DEF Polling!FailFetch
      <3>. QED  BY <2>2, <2>3, <2>5, <2>6, <2>13, <3>1 DEF Polling!FailFetch
    <2>14. ASSUME NEW p \in Pollers, Polling!CommitPoll(p)  PROVE Inv'
      <3>. DEFINE s == poller[p].source
      <3>1. s \in EventSources /\ found[s] \in Told
        BY <2>2, <2>6
      <3>2. source' \in [EventSources -> Polling!Source]
        <4>1. source' = source \/ \E row : source' = [source EXCEPT ![s] = row]
          BY <2>14 DEF Polling!CommitPoll
        <4>. QED  BY <2>2, <2>4, <3>1, <4>1
      <3>3. found' \in [EventSources -> Told]
        <4>1. \A e \in Events : found[s][e] \in {"none", "scheduled", "expired"}
          BY <3>1 DEF Told
        <4>2. CASE Polling!Fenced(p)
          <5>. DEFINE new == [e \in Events |->
                       IF e \notin poller[p].events /\ found[s][e] = "scheduled" /\ EndsAt[e] <= poller[p].runNow
                       THEN "expired" ELSE Polling!Written(p)[e]]
          <5>1. found' = [found EXCEPT ![s] = new]
            BY <2>14, <4>2 DEF Polling!CommitPoll
          <5>2. new \in Told
            BY <4>1 DEF Told, Polling!Written
          <5>. HIDE DEF new
          <5>. QED  BY <2>2, <5>1, <5>2
        <4>3. CASE ~Polling!Fenced(p)
          BY <2>2, <2>14, <4>3 DEF Polling!CommitPoll
        <4>. QED  BY <4>2, <4>3
      <3>4. poller' \in [Pollers -> Run] /\ offered' = offered
        BY <1>1, <2>5, <2>14 DEF Polling!CommitPoll
      <3>. QED  BY <2>2, <2>3, <3>2, <3>3, <3>4
    <2>15. ASSUME NEW p \in Pollers, Polling!ReleaseFailed(p)  PROVE Inv'
      <3>1. poller[p].source \in EventSources
        BY <2>6
      <3>2. source' = source \/ \E row : source' = [source EXCEPT ![poller[p].source] = row]
        BY <2>15 DEF Polling!ReleaseFailed
      <3>3. source' \in [EventSources -> Polling!Source]
        BY <2>2, <2>4, <3>1, <3>2
      <3>4. poller' \in [Pollers -> Run] /\ offered' = offered /\ found' = found
        BY <1>1, <2>5, <2>15 DEF Polling!ReleaseFailed
      <3>. QED  BY <2>2, <2>3, <3>3, <3>4
    <2>16. ASSUME NEW p \in Pollers, Polling!EndRun(p)  PROVE Inv'
      BY <1>1, <2>2, <2>3, <2>5, <2>16 DEF Polling!EndRun
    <2>17. CASE Polling!PollTick \/ UNCHANGED Polling!discoveryVars
      BY <2>2, <2>3, <2>17 DEF Polling!PollTick, Polling!discoveryVars
    <2>. QED  BY <1>3, <2>7, <2>8, <2>9, <2>10, <2>11, <2>12, <2>13, <2>14, <2>15, <2>16, <2>17
              DEF Polling!Next
  <1>4. Inv => Polling!TypeOK
    OBVIOUS
  <1>. HIDE DEF Inv
  <1>. QED  BY <1>2, <1>3, <1>4, PTL DEF Polling!Spec

-----------------------------------------------------------------------------
(* What evidence fills.  Nothing leaves the collector that is not from a   *)
(* place it may look at, and a field is filled as long as something        *)
(* filled it.                                                              *)
CONSTANTS Contacts, Names, Blanks, Values, Evidence, Offered
VARIABLES contact, candidate, exported, collector, collected, corrected, filledBy
Enrichment == INSTANCE ContactEnrichment WITH Fields <- Blanks

\* A place the collector looks at, for the kind of evidence.
Seen(e) ==
    \/ e.kind = "second_brain" /\ e.place = "note"
    \/ e.kind = "vcard" /\ e.place = "card"
    \/ e.kind = "arc_history" /\ e.place = "history"
    \/ e.kind = "arc_sidebar" /\ e.place = "sidebar"
    \/ e.kind = "public_web" /\ e.place = "site"

Proposed(h) == h \in Enrichment!Hashes /\ Seen(h[2])

CandidateSound(h) == candidate[h] # "none" => Enrichment!Submittable(h[2])

FieldSound(c, f) ==
    /\ contact[c].value[f] = Enrichment!None => filledBy[c][f] = {}
    /\ \A e \in filledBy[c][f] :
          /\ e \in Evidence /\ candidate[<<c, e>>] = "accepted" /\ e.field = f
          /\ e.kind # "public_web"
    /\ \A d, e \in filledBy[c][f] : d = e

EnrichmentInv ==
    /\ contact \in [Contacts -> Enrichment!Contact]
    /\ DOMAIN candidate = Enrichment!Hashes
    /\ DOMAIN filledBy = Contacts /\ \A c \in Contacts : DOMAIN filledBy[c] = Blanks
    /\ DOMAIN collector = {"running", "names", "gathered"}
    /\ \A h \in collector.gathered : Proposed(h)
    /\ \A h \in collected : Proposed(h)
    /\ \A h \in Enrichment!Hashes : CandidateSound(h)
    /\ \A c \in Contacts, f \in Blanks : FieldSound(c, f)

\* A contact that is written changes no other, and only the fields it names.
LEMMA ContactStep ==
    ASSUME EnrichmentInv, NEW c \in Contacts, NEW next \in Enrichment!Contact,
           contact' = [contact EXCEPT ![c] = next], UNCHANGED <<candidate, collector, collected>>,
           DOMAIN filledBy' = Contacts, \A d \in Contacts : DOMAIN filledBy'[d] = Blanks,
           \A d \in Contacts \ {c}, f \in Blanks : filledBy'[d][f] = filledBy[d][f],
           \A f \in Blanks : \/ filledBy'[c][f] = {}
                             \/ /\ filledBy'[c][f] = filledBy[c][f]
                                /\ \/ next.value[f] # Enrichment!None
                                   \/ next.value[f] = contact[c].value[f]
    PROVE  EnrichmentInv'
  <1>1. contact' \in [Contacts -> Enrichment!Contact]
    BY DEF EnrichmentInv
  <1>2. contact'[c] = next /\ \A d \in Contacts \ {c} : contact'[d] = contact[d]
    BY DEF EnrichmentInv
  <1>3. ASSUME NEW d \in Contacts, NEW f \in Blanks  PROVE FieldSound(d, f)'
    <2>1. FieldSound(d, f) /\ candidate' = candidate
      BY DEF EnrichmentInv
    <2>2. \/ filledBy'[d][f] = {}
          \/ /\ filledBy'[d][f] = filledBy[d][f]
             /\ \/ contact'[d].value[f] # Enrichment!None
                \/ contact'[d].value[f] = contact[d].value[f]
      BY <1>2
    <2>. QED  BY <2>1, <2>2 DEF FieldSound
  <1>. QED  BY <1>1, <1>3 DEF EnrichmentInv, CandidateSound

\* Every step keeps the invariant of the evidence.
LEMMA EnrichmentStep ==
    ASSUME EnrichmentInv, Enrichment!None \notin Values,
           [Enrichment!Next]_(Enrichment!enrichmentVars)
    PROVE  EnrichmentInv'
  <1>1. ASSUME NEW c \in Contacts
        PROVE  /\ contact[c] \in Enrichment!Contact
               /\ contact[c].value \in [Blanks -> Values \cup {Enrichment!None}]
               /\ contact[c].names \in SUBSET Names
    BY DEF EnrichmentInv, Enrichment!Contact
  <1>2. /\ DOMAIN filledBy = Contacts /\ \A c \in Contacts : DOMAIN filledBy[c] = Blanks
    BY DEF EnrichmentInv
  <1>3. ASSUME NEW c \in Contacts, Enrichment!CreateContact(c) \/ Enrichment!RenameContact(c)
        PROVE  EnrichmentInv'
    <2>1. PICK names \in SUBSET Names : contact' = [contact EXCEPT ![c].names = names]
      BY <1>3 DEF Enrichment!CreateContact, Enrichment!RenameContact
    <2>2. PICK next \in Enrichment!Contact : next = [contact[c] EXCEPT !.names = names]
      BY <1>1 DEF Enrichment!Contact
    <2>3. next.value = contact[c].value /\ contact' = [contact EXCEPT ![c] = next]
      BY <1>1, <2>1, <2>2 DEF EnrichmentInv, Enrichment!Contact
    <2>4. UNCHANGED <<candidate, collector, collected, filledBy>>
      BY <1>3 DEF Enrichment!CreateContact, Enrichment!RenameContact
    <2>. QED  BY <1>2, <2>3, <2>4, ContactStep
  <1>4. ASSUME NEW c \in Contacts, NEW f \in Blanks, Enrichment!WriteField(c, f)
        PROVE  EnrichmentInv'
    <2>1. PICK v \in Values \cup {Enrichment!None} :
              /\ contact' = [contact EXCEPT ![c].value[f] = v]
              /\ filledBy' = IF v = Enrichment!None THEN [filledBy EXCEPT ![c][f] = {}] ELSE filledBy
      BY <1>4 DEF Enrichment!WriteField
    <2>2. PICK next \in Enrichment!Contact : next = [contact[c] EXCEPT !.value[f] = v]
      BY <1>1 DEF Enrichment!Contact
    <2>3. /\ next.value[f] = v /\ \A g \in Blanks \ {f} : next.value[g] = contact[c].value[g]
          /\ contact' = [contact EXCEPT ![c] = next]
      BY <1>1, <2>1, <2>2 DEF EnrichmentInv, Enrichment!Contact
    <2>4. UNCHANGED <<candidate, collector, collected>>
      BY <1>4 DEF Enrichment!WriteField
    <2>5. /\ DOMAIN filledBy' = Contacts /\ \A d \in Contacts : DOMAIN filledBy'[d] = Blanks
          /\ \A d \in Contacts \ {c}, g \in Blanks : filledBy'[d][g] = filledBy[d][g]
          /\ \A g \in Blanks \ {f} : filledBy'[c][g] = filledBy[c][g]
          /\ filledBy'[c][f] = IF v = Enrichment!None THEN {} ELSE filledBy[c][f]
      BY <1>2, <2>1
    <2>6. \A g \in Blanks : \/ filledBy'[c][g] = {}
                            \/ /\ filledBy'[c][g] = filledBy[c][g]
                               /\ \/ next.value[g] # Enrichment!None
                                  \/ next.value[g] = contact[c].value[g]
      BY <2>3, <2>5
    <2>. QED  BY <2>3, <2>4, <2>5, <2>6, ContactStep
  <1>5. ASSUME NEW c \in Contacts, Enrichment!DeleteContact(c)  PROVE EnrichmentInv'
    <2>1. Enrichment!NoContact \in Enrichment!Contact
      BY DEF Enrichment!NoContact, Enrichment!Contact
    <2>2. contact' \in [Contacts -> Enrichment!Contact]
      BY <1>5, <2>1 DEF Enrichment!DeleteContact, EnrichmentInv
    <2>3. /\ contact'[c] = Enrichment!NoContact
          /\ \A d \in Contacts \ {c} : contact'[d] = contact[d]
      BY <1>5 DEF Enrichment!DeleteContact, EnrichmentInv
    <2>4. /\ DOMAIN candidate' = Enrichment!Hashes
          /\ \A h \in Enrichment!Hashes : candidate'[h] = IF h[1] = c THEN "none" ELSE candidate[h]
      BY <1>5 DEF Enrichment!DeleteContact
    <2>5. /\ DOMAIN filledBy' = Contacts /\ \A d \in Contacts : DOMAIN filledBy'[d] = Blanks
          /\ \A d \in Contacts \ {c}, f \in Blanks : filledBy'[d][f] = filledBy[d][f]
          /\ \A f \in Blanks : filledBy'[c][f] = {}
      BY <1>2, <1>5 DEF Enrichment!DeleteContact
    <2>6. collector' = collector /\ collected' = collected
      BY <1>5 DEF Enrichment!DeleteContact
    <2>7. \A h \in Enrichment!Hashes : CandidateSound(h)'
      BY <2>4 DEF EnrichmentInv, CandidateSound
    <2>8. ASSUME NEW d \in Contacts, NEW f \in Blanks  PROVE FieldSound(d, f)'
      <3>1. CASE d = c
        BY <2>5, <3>1 DEF FieldSound
      <3>2. CASE d # c
        <4>1. FieldSound(d, f) /\ filledBy'[d][f] = filledBy[d][f] /\ contact'[d] = contact[d]
          BY <2>3, <2>5, <3>2 DEF EnrichmentInv
        <4>2. ASSUME NEW e \in Evidence  PROVE candidate'[<<d, e>>] = candidate[<<d, e>>]
          BY <2>4, <3>2 DEF Enrichment!Hashes
        <4>. QED  BY <4>1, <4>2 DEF FieldSound
      <3>. QED  BY <3>1, <3>2
    <2>. QED  BY <2>2, <2>4, <2>5, <2>6, <2>7, <2>8 DEF EnrichmentInv
  <1>6. ASSUME NEW c \in Contacts, Enrichment!CorrectSocialLink(c)  PROVE EnrichmentInv'
    <2>1. PICK better \in Values : contact' = [contact EXCEPT ![c].value["socialLinks"] = better]
      BY <1>6 DEF Enrichment!CorrectSocialLink
    <2>2. PICK next \in Enrichment!Contact : next = [contact[c] EXCEPT !.value["socialLinks"] = better]
      BY <1>1 DEF Enrichment!Contact
    <2>3. /\ \A g \in Blanks : next.value[g] = IF g = "socialLinks" THEN better
                                               ELSE contact[c].value[g]
          /\ contact' = [contact EXCEPT ![c] = next]
      BY <1>1, <2>1, <2>2 DEF EnrichmentInv, Enrichment!Contact
    <2>4. UNCHANGED <<candidate, collector, collected, filledBy>>
      BY <1>6 DEF Enrichment!CorrectSocialLink
    <2>5. \A g \in Blanks : next.value[g] # Enrichment!None \/ next.value[g] = contact[c].value[g]
      BY <2>1, <2>3
    <2>6. /\ DOMAIN filledBy' = Contacts /\ \A d \in Contacts : DOMAIN filledBy'[d] = Blanks
          /\ \A d \in Contacts \ {c}, g \in Blanks : filledBy'[d][g] = filledBy[d][g]
          /\ \A g \in Blanks : filledBy'[c][g] = filledBy[c][g]
      BY <1>2, <2>4
    <2>7. \A g \in Blanks : \/ filledBy'[c][g] = {}
                            \/ /\ filledBy'[c][g] = filledBy[c][g]
                               /\ \/ next.value[g] # Enrichment!None
                                  \/ next.value[g] = contact[c].value[g]
      BY <2>5, <2>6
    <2>8. UNCHANGED <<candidate, collector, collected>>
      BY <2>4
    <2>. QED  BY <2>3, <2>6, <2>7, <2>8, ContactStep
  <1>7. ASSUME UNCHANGED <<contact, candidate, filledBy>>,
               DOMAIN collector' = {"running", "names", "gathered"},
               \A h \in collector'.gathered : Proposed(h), \A h \in collected' : Proposed(h)
        PROVE  EnrichmentInv'
    BY <1>7 DEF EnrichmentInv, FieldSound, CandidateSound
  <1>8. /\ DOMAIN collector = {"running", "names", "gathered"}
        /\ \A h \in collector.gathered : Proposed(h)
        /\ \A h \in collected : Proposed(h)
    BY DEF EnrichmentInv
  <1>9. ASSUME Enrichment!Export \/ UNCHANGED Enrichment!enrichmentVars  PROVE EnrichmentInv'
    <2>1. UNCHANGED <<contact, candidate, filledBy, collector, collected>>
      BY <1>9 DEF Enrichment!Export, Enrichment!enrichmentVars
    <2>. QED  BY <1>7, <1>8, <2>1
  <1>10. ASSUME Enrichment!StartCollector \/ Enrichment!FailCollector  PROVE EnrichmentInv'
    <2>1. collector'.gathered = {} /\ DOMAIN collector' = {"running", "names", "gathered"}
      BY <1>10 DEF Enrichment!StartCollector, Enrichment!FailCollector, Enrichment!NoCollector
    <2>2. UNCHANGED <<contact, candidate, filledBy, collected>>
      BY <1>10 DEF Enrichment!StartCollector, Enrichment!FailCollector
    <2>. QED  BY <1>7, <1>8, <2>1, <2>2
  <1>11. ASSUME Enrichment!WriteCandidates  PROVE EnrichmentInv'
    <2>1. collector'.gathered = {} /\ DOMAIN collector' = {"running", "names", "gathered"}
      BY <1>11 DEF Enrichment!WriteCandidates, Enrichment!NoCollector
    <2>2. UNCHANGED <<contact, candidate, filledBy>> /\ collected' = collected \cup collector.gathered
      BY <1>11 DEF Enrichment!WriteCandidates
    <2>. QED  BY <1>7, <1>8, <2>1, <2>2
  <1>12. ASSUME NEW e \in Evidence, NEW matches \in SUBSET Contacts, Seen(e),
                Enrichment!Gathered(matches, e)
         PROVE  EnrichmentInv'
    <2>1. /\ collector'.gathered = collector.gathered \cup {<<c, e>> : c \in matches}
          /\ DOMAIN collector' = {"running", "names", "gathered"}
      BY <1>8, <1>12 DEF Enrichment!Gathered
    <2>2. ASSUME NEW c \in matches  PROVE Proposed(<<c, e>>)
      BY <1>12 DEF Proposed, Enrichment!Hashes
    <2>3. UNCHANGED <<contact, candidate, filledBy, collected>>
      BY <1>12 DEF Enrichment!Gathered
    <2>. QED  BY <1>7, <1>8, <2>1, <2>2, <2>3
  <1>13. ASSUME NEW e \in Evidence,
                \/ Enrichment!CollectFromMarkdown(e) \/ Enrichment!CollectFromVCard(e)
                \/ Enrichment!CollectFromPublicResults(e) \/ Enrichment!CollectFromArcRows(e)
         PROVE  EnrichmentInv'
    <2>1. Seen(e)
      BY <1>13 DEF Enrichment!CollectFromMarkdown, Enrichment!CollectFromVCard, Enrichment!ReadArc,
         Enrichment!CollectFromPublicResults, Enrichment!CollectFromArcRows, Enrichment!ReadMarkdown,
         Enrichment!AllowedNote, Enrichment!SafeArcSource, Enrichment!ArcPublicJson, Seen,
         Enrichment!ReadVCard, Enrichment!ExplicitExport, Enrichment!SafeLocator
    <2>2. Enrichment!UniqueNameMatch(e.name) \in SUBSET Contacts
      BY DEF Enrichment!UniqueNameMatch
    <2>3. PICK matches \in SUBSET Contacts : Enrichment!Gathered(matches, e)
      BY <1>13, <2>2 DEF Enrichment!CollectFromMarkdown, Enrichment!CollectFromVCard,
         Enrichment!CollectFromPublicResults, Enrichment!CollectFromArcRows
    <2>. QED  BY <1>12, <2>1, <2>3
  <1>14. ASSUME NEW h \in Enrichment!Hashes, Enrichment!SubmitAny(h)  PROVE EnrichmentInv'
    <2>. PICK confidence : Enrichment!Submit(h, confidence)
      BY <1>14 DEF Enrichment!SubmitAny
    <2>1. /\ DOMAIN candidate' = Enrichment!Hashes /\ candidate[h] = "none"
          /\ \A g \in Enrichment!Hashes \ {h} : candidate'[g] = candidate[g]
      BY DEF Enrichment!Submit, EnrichmentInv
    <2>2. UNCHANGED <<contact, collector, collected, filledBy>>
      BY DEF Enrichment!Submit
    <2>3. ASSUME NEW g \in Enrichment!Hashes  PROVE CandidateSound(g)'
      BY <2>1 DEF Enrichment!Submit, EnrichmentInv, CandidateSound
    <2>4. ASSUME NEW c \in Contacts, NEW f \in Blanks  PROVE FieldSound(c, f)'
      <3>1. FieldSound(c, f)
        BY DEF EnrichmentInv
      <3>2. ASSUME NEW e \in filledBy[c][f]  PROVE candidate'[<<c, e>>] = candidate[<<c, e>>]
        <4>1. <<c, e>> \in Enrichment!Hashes /\ candidate[<<c, e>>] = "accepted"
          BY <3>1 DEF FieldSound, Enrichment!Hashes
        <4>. QED  BY <2>1, <4>1
      <3>. QED  BY <2>2, <3>1, <3>2 DEF FieldSound
    <2>. QED  BY <2>1, <2>2, <2>3, <2>4 DEF EnrichmentInv
  <1>15. ASSUME NEW h \in Enrichment!Hashes, Enrichment!Accept(h)  PROVE EnrichmentInv'
    <2>1. PICK c \in Contacts, e \in Evidence : h = <<c, e>>
      BY DEF Enrichment!Hashes
    <2>2. /\ candidate[h] \in {"pending", "doubtful"} /\ e.kind # "public_web"
          /\ contact[c].value[e.field] = Enrichment!None
          /\ contact' = [contact EXCEPT ![c].value[e.field] = e.value]
          /\ filledBy' = [filledBy EXCEPT ![c][e.field] = filledBy[c][e.field] \cup {e}]
          /\ collector' = collector /\ collected' = collected
      BY <1>15, <2>1 DEF Enrichment!Accept, Enrichment!Unpopulated, Enrichment!Pending,
         Enrichment!NeedsReview
    <2>3. /\ DOMAIN candidate' = Enrichment!Hashes
          /\ \A g \in Enrichment!Hashes : \/ g = h /\ candidate'[g] = "accepted"
                                          \/ g # h /\ candidate'[g] = candidate[g]
                                          \/ /\ g # h /\ candidate[g] \in {"pending", "doubtful"}
                                             /\ candidate'[g] = "superseded"
      BY <1>15, <2>1 DEF Enrichment!Accept, Enrichment!Pending
    <2>4. Enrichment!Submittable(e)
      BY <2>1, <2>2 DEF EnrichmentInv, CandidateSound
    <2>5. e.value \in Values
      BY <2>4 DEF Enrichment!Submittable, Enrichment!Normalizes
    <2>6. PICK next \in Enrichment!Contact : next = [contact[c] EXCEPT !.value[e.field] = e.value]
      BY <1>1, <2>5 DEF Enrichment!Contact
    <2>7. /\ contact' = [contact EXCEPT ![c] = next]
          /\ \A f \in Blanks : next.value[f] = IF f = e.field THEN e.value ELSE contact[c].value[f]
      BY <1>1, <2>2, <2>6 DEF EnrichmentInv, Enrichment!Contact
    <2>8. /\ contact' \in [Contacts -> Enrichment!Contact] /\ contact'[c] = next
          /\ \A d \in Contacts \ {c} : contact'[d] = contact[d]
      BY <2>7 DEF EnrichmentInv
    <2>9. /\ DOMAIN filledBy' = Contacts /\ \A d \in Contacts : DOMAIN filledBy'[d] = Blanks
          /\ \A d \in Contacts, f \in Blanks :
                filledBy'[d][f] = IF d = c /\ f = e.field THEN filledBy[c][f] \cup {e}
                                  ELSE filledBy[d][f]
      BY <1>2, <2>2
    <2>10. \A g \in Enrichment!Hashes : CandidateSound(g)'
      BY <2>1, <2>3, <2>4 DEF EnrichmentInv, CandidateSound
    <2>11. ASSUME NEW d \in Contacts, NEW f \in Blanks  PROVE FieldSound(d, f)'
      <3>1. FieldSound(d, f)
        BY DEF EnrichmentInv
      <3>2. ASSUME NEW g \in filledBy[d][f]  PROVE candidate'[<<d, g>>] = "accepted"
        <4>1. <<d, g>> \in Enrichment!Hashes /\ candidate[<<d, g>>] = "accepted"
          BY <3>1 DEF FieldSound, Enrichment!Hashes
        <4>. QED  BY <2>3, <4>1
      <3>3. CASE d = c /\ f = e.field
        <4>1. filledBy[d][f] = {} /\ filledBy'[d][f] = {e}
          BY <2>2, <2>9, <3>1, <3>3 DEF FieldSound
        <4>2. contact'[d].value[f] # Enrichment!None
          BY <2>5, <2>7, <2>8, <3>3
        <4>3. candidate'[<<d, e>>] = "accepted"
          BY <2>1, <2>3, <3>3
        <4>. QED  BY <2>2, <3>3, <4>1, <4>2, <4>3 DEF FieldSound
      <3>4. CASE ~(d = c /\ f = e.field)
        <4>1. filledBy'[d][f] = filledBy[d][f] /\ contact'[d].value[f] = contact[d].value[f]
          BY <2>7, <2>8, <2>9, <3>4
        <4>. QED  BY <3>1, <3>2, <4>1 DEF FieldSound
      <3>. QED  BY <3>3, <3>4
    <2>. QED  BY <1>8, <2>2, <2>3, <2>8, <2>9, <2>10, <2>11 DEF EnrichmentInv
  <1>. QED  BY <1>3, <1>4, <1>5, <1>6, <1>9, <1>10, <1>11, <1>13, <1>14, <1>15 DEF Enrichment!Next

LEMMA EnrichmentInit == ASSUME Enrichment!Init  PROVE EnrichmentInv
  <1>1. Enrichment!NoContact \in Enrichment!Contact
    BY DEF Enrichment!NoContact, Enrichment!Contact
  <1>2. contact \in [Contacts -> Enrichment!Contact]
    BY <1>1 DEF Enrichment!Init
  <1>3. DOMAIN collector = {"running", "names", "gathered"} /\ collector.gathered = {}
    BY DEF Enrichment!Init, Enrichment!NoCollector
  <1>4. \A h \in Enrichment!Hashes : CandidateSound(h)
    BY DEF Enrichment!Init, CandidateSound
  <1>5. \A c \in Contacts, f \in Blanks : FieldSound(c, f)
    BY DEF Enrichment!Init, FieldSound
  <1>. QED  BY <1>2, <1>3, <1>4, <1>5 DEF Enrichment!Init, EnrichmentInv

\* However old evidence is, and in whatever order candidates are accepted, a field takes one of
\* them until the owner empties it, and none from the web or from a place that is to be left
\* alone (runCollectorCli, submitCandidate, acceptCandidate, contactUpdate).
THEOREM EvidenceFillsFields ==
    ASSUME Enrichment!None \notin Values
    PROVE  Enrichment!Spec => []Enrichment!EvidenceFillsOnce
  <1>1. Enrichment!Init => EnrichmentInv
    BY EnrichmentInit
  <1>2. EnrichmentInv /\ [Enrichment!Next]_(Enrichment!enrichmentVars) => EnrichmentInv'
    BY EnrichmentStep
  <1>3. ASSUME EnrichmentInv, NEW c \in Contacts, NEW f \in Blanks
        PROVE  Enrichment!Cardinality(filledBy[c][f]) <= 1
    <2>1. \A d, e \in filledBy[c][f] : d = e
      BY <1>3 DEF EnrichmentInv, FieldSound
    <2>2. PICK filling : filling = filledBy[c][f]
      OBVIOUS
    <2>3. Enrichment!Cardinality(filledBy[c][f]) = Cardinality(filling)
      BY <2>2 DEF Enrichment!Cardinality, Cardinality
    <2>4. CASE filling = {}
      <3>1. Cardinality(filling) = 0
        BY <2>4, FS_EmptySet
      <3>. QED  BY <2>3, <3>1
    <2>5. CASE filling # {}
      <3>1. PICK e : filling = {e}
        BY <2>1, <2>2, <2>5
      <3>2. Cardinality(filling) = 1
        BY <3>1, FS_Singleton
      <3>. QED  BY <2>3, <3>2
    <2>. QED  BY <2>4, <2>5
  <1>4. ASSUME EnrichmentInv  PROVE Enrichment!EvidenceFillsOnce
    <2>1. \A h \in collected : h[2].place \in {"note", "card", "history", "sidebar", "site"}
      BY <1>4 DEF EnrichmentInv, Proposed, Seen
    <2>. QED  BY <1>3, <1>4, <2>1 DEF EnrichmentInv, FieldSound, Enrichment!EvidenceFillsOnce
  <1>. QED  BY <1>1, <1>2, <1>4, PTL DEF Enrichment!Spec

\* What the other rows and the collector hold.
EvidenceTypes ==
    /\ candidate \in [Enrichment!Hashes -> Enrichment!Statuses]
    /\ exported \in [Contacts -> SUBSET Names]
    /\ collector \in [running : BOOLEAN, names : [Contacts -> SUBSET Names],
                      gathered : SUBSET Enrichment!Hashes]
    /\ collected \in SUBSET Enrichment!Hashes
    /\ corrected \in SUBSET (Contacts \X Values \X Values)
    /\ filledBy \in [Contacts -> [Blanks -> SUBSET Evidence]]

\* Every step keeps them.
LEMMA EvidenceTypesStep ==
    ASSUME EnrichmentInv, EvidenceTypes, [Enrichment!Next]_(Enrichment!enrichmentVars)
    PROVE  EvidenceTypes'
  <1>. USE DEF EvidenceTypes, Enrichment!Statuses
  <1>1. /\ contact \in [Contacts -> Enrichment!Contact]
        /\ \A c \in Contacts : contact[c].names \in SUBSET Names
    BY DEF EnrichmentInv, Enrichment!Contact
  <1>2. Enrichment!NoCollector \in [running : BOOLEAN, names : [Contacts -> SUBSET Names],
                                    gathered : SUBSET Enrichment!Hashes]
    BY DEF Enrichment!NoCollector
  <1>3. ASSUME NEW c \in Contacts, Enrichment!CreateContact(c) \/ Enrichment!RenameContact(c)
        PROVE  EvidenceTypes'
    BY <1>3 DEF Enrichment!CreateContact, Enrichment!RenameContact
  <1>4. ASSUME NEW c \in Contacts, NEW f \in Blanks, Enrichment!WriteField(c, f)
        PROVE  EvidenceTypes'
    <2>1. \/ filledBy' = filledBy
          \/ filledBy' = [filledBy EXCEPT ![c][f] = {}]
      BY <1>4 DEF Enrichment!WriteField
    <2>2. [filledBy[c] EXCEPT ![f] = {}] \in [Blanks -> SUBSET Evidence]
      OBVIOUS
    <2>3. filledBy' \in [Contacts -> [Blanks -> SUBSET Evidence]]
      BY <2>1, <2>2
    <2>. QED  BY <1>4, <2>3 DEF Enrichment!WriteField
  <1>5. ASSUME NEW c \in Contacts, Enrichment!DeleteContact(c)  PROVE EvidenceTypes'
    <2>1. candidate' = [h \in Enrichment!Hashes |-> IF h[1] = c THEN "none" ELSE candidate[h]]
      BY <1>5 DEF Enrichment!DeleteContact
    <2>2. candidate' \in [Enrichment!Hashes -> Enrichment!Statuses]
      BY <2>1
    <2>3. [f \in Blanks |-> {}] \in [Blanks -> SUBSET Evidence]
      OBVIOUS
    <2>4. filledBy' \in [Contacts -> [Blanks -> SUBSET Evidence]]
      BY <1>5, <2>3 DEF Enrichment!DeleteContact
    <2>5. corrected' \in SUBSET (Contacts \X Values \X Values)
      BY <1>5 DEF Enrichment!DeleteContact
    <2>. QED  BY <1>5, <2>2, <2>4, <2>5 DEF Enrichment!DeleteContact
  <1>6. ASSUME NEW c \in Contacts, Enrichment!CorrectSocialLink(c)  PROVE EvidenceTypes'
    <2>1. PICK seen \in Values, better \in Values : corrected' = corrected \cup {<<c, seen, better>>}
      BY <1>6 DEF Enrichment!CorrectSocialLink
    <2>2. corrected' \in SUBSET (Contacts \X Values \X Values)
      BY <2>1
    <2>. QED  BY <1>6, <2>2 DEF Enrichment!CorrectSocialLink
  <1>7. CASE Enrichment!Export \/ UNCHANGED Enrichment!enrichmentVars
    <2>1. exported' = exported \/ exported' = [c \in Contacts |-> contact[c].names]
      BY <1>7 DEF Enrichment!Export, Enrichment!enrichmentVars
    <2>2. exported' \in [Contacts -> SUBSET Names]
      BY <1>1, <2>1
    <2>. QED  BY <1>7, <2>2 DEF Enrichment!Export, Enrichment!enrichmentVars
  <1>8. CASE Enrichment!StartCollector
    <2>1. collector' = [running |-> TRUE, names |-> exported, gathered |-> {}]
      BY <1>8 DEF Enrichment!StartCollector
    <2>. QED  BY <1>8, <2>1 DEF Enrichment!StartCollector
  <1>9. CASE Enrichment!FailCollector \/ Enrichment!WriteCandidates
    <2>1. collector' = Enrichment!NoCollector /\ (collected' = collected \/ collected' = collected \cup collector.gathered)
      BY <1>9 DEF Enrichment!FailCollector, Enrichment!WriteCandidates
    <2>2. collected' \in SUBSET Enrichment!Hashes
      BY <2>1
    <2>. QED  BY <1>2, <1>9, <2>1, <2>2 DEF Enrichment!FailCollector, Enrichment!WriteCandidates
  <1>10. ASSUME NEW e \in Evidence, NEW matches \in SUBSET Contacts, Enrichment!Gathered(matches, e)
         PROVE  EvidenceTypes'
    <2>1. {<<c, e>> : c \in matches} \subseteq Enrichment!Hashes
      BY DEF Enrichment!Hashes
    <2>2. collector' = [collector EXCEPT !.gathered = collector.gathered \cup {<<c, e>> : c \in matches}]
      BY <1>10 DEF Enrichment!Gathered
    <2>3. collector' \in [running : BOOLEAN, names : [Contacts -> SUBSET Names],
                          gathered : SUBSET Enrichment!Hashes]
      BY <2>1, <2>2
    <2>. QED  BY <1>10, <2>3 DEF Enrichment!Gathered
  <1>11. ASSUME NEW e \in Evidence,
                \/ Enrichment!CollectFromMarkdown(e) \/ Enrichment!CollectFromVCard(e)
                \/ Enrichment!CollectFromPublicResults(e) \/ Enrichment!CollectFromArcRows(e)
         PROVE  EvidenceTypes'
    <2>1. Enrichment!UniqueNameMatch(e.name) \in SUBSET Contacts
      BY DEF Enrichment!UniqueNameMatch
    <2>2. PICK matches \in SUBSET Contacts : Enrichment!Gathered(matches, e)
      BY <1>11, <2>1 DEF Enrichment!CollectFromMarkdown, Enrichment!CollectFromVCard,
         Enrichment!CollectFromPublicResults, Enrichment!CollectFromArcRows
    <2>. QED  BY <1>10, <2>2
  <1>12. ASSUME NEW h \in Enrichment!Hashes, Enrichment!SubmitAny(h)  PROVE EvidenceTypes'
    <2>1. PICK confidence : Enrichment!Submit(h, confidence)
      BY <1>12 DEF Enrichment!SubmitAny
    <2>2. candidate' \in [Enrichment!Hashes -> Enrichment!Statuses]
      BY <2>1 DEF Enrichment!Submit, Enrichment!Statuses
    <2>. QED  BY <2>1, <2>2 DEF Enrichment!Submit
  <1>13. ASSUME NEW h \in Enrichment!Hashes, Enrichment!Accept(h)  PROVE EvidenceTypes'
    <2>1. PICK c \in Contacts, e \in Evidence : h = <<c, e>>
      BY DEF Enrichment!Hashes
    <2>2. PICK rivals : candidate' = [g \in Enrichment!Hashes |-> IF g = h THEN "accepted"
                                         ELSE IF g \in rivals THEN "superseded" ELSE candidate[g]]
      BY <1>13 DEF Enrichment!Accept
    <2>3. candidate' \in [Enrichment!Hashes -> Enrichment!Statuses]
      BY <2>2
    <2>4. filledBy' = [filledBy EXCEPT ![c][e.field] = filledBy[c][e.field] \cup {e}]
      BY <1>13, <2>1 DEF Enrichment!Accept
    <2>5. filledBy[c] \in [Blanks -> SUBSET Evidence]
      OBVIOUS
    <2>6. [filledBy[c] EXCEPT ![e.field] = filledBy[c][e.field] \cup {e}] \in [Blanks -> SUBSET Evidence]
      <3>1. CASE e.field \in Blanks
        BY <2>5, <3>1
      <3>2. CASE e.field \notin Blanks
        BY <2>5, <3>2
      <3>. QED  BY <3>1, <3>2
    <2>7. filledBy' \in [Contacts -> [Blanks -> SUBSET Evidence]]
      BY <2>4, <2>6
    <2>. QED  BY <1>13, <2>3, <2>7 DEF Enrichment!Accept
  <1>. QED  BY <1>3, <1>4, <1>5, <1>6, <1>7, <1>8, <1>9, <1>11, <1>12, <1>13 DEF Enrichment!Next

\* The rows, the export and what the collector holds have their types: nothing is collected of
\* a contact or evidence that is not there.
THEOREM EnrichmentTypes ==
    ASSUME Enrichment!None \notin Values
    PROVE  Enrichment!Spec => []Enrichment!TypeOK
  <1>1. Enrichment!Init => EnrichmentInv /\ EvidenceTypes
    <2>. SUFFICES ASSUME Enrichment!Init  PROVE EnrichmentInv /\ EvidenceTypes
      OBVIOUS
    <2>1. EnrichmentInv
      BY EnrichmentInit
    <2>2. Enrichment!NoCollector \in [running : BOOLEAN, names : [Contacts -> SUBSET Names],
                                    gathered : SUBSET Enrichment!Hashes]
      BY DEF Enrichment!NoCollector
    <2>. QED  BY <2>1, <2>2 DEF Enrichment!Init, EvidenceTypes, Enrichment!Statuses
  <1>2. EnrichmentInv /\ EvidenceTypes /\ [Enrichment!Next]_(Enrichment!enrichmentVars)
           => (EnrichmentInv /\ EvidenceTypes)'
    BY EnrichmentStep, EvidenceTypesStep
  <1>3. EnrichmentInv /\ EvidenceTypes => Enrichment!TypeOK
    BY DEF EnrichmentInv, EvidenceTypes, Enrichment!TypeOK
  <1>. QED  BY <1>1, <1>2, <1>3, PTL DEF Enrichment!Spec

-----------------------------------------------------------------------------
(* An import.  As long as no other was committed since its snapshot, the   *)
(* rows it has written are those it saw: nobody else can touch them.       *)
CONSTANTS Vaults, Natives, Exports, DemoCount, ImportRuns
VARIABLES contacts, importing, touched
Import == INSTANCE MonicaImport WITH Runs <- ImportRuns, run <- importing

ContactFields == {"owner", "vault", "id", "demo", "text"}
ImportFields == {"phase", "lines", "seen", "mine", "written", "vault", "overtaken"}

\* Owners' own contacts have ids of their own, and exports are lists.
Lines == UNION {{e[i] : i \in DOMAIN e} : e \in Exports}
ImportAssumption == Exports \subseteq Seq(Lines) /\ \A n \in Natives : n.id \notin Import!Sources

Rows(some) == \A c \in some : DOMAIN c = ContactFields
At(some, key) == {c \in some : Import!Key(c) = key}

\* What an import holds: a row for every key it has written, which nobody has changed since.
ImportSound(local, committed) ==
    /\ DOMAIN local = ImportFields
    /\ Rows(local.seen) /\ Rows(local.mine)
    /\ local.lines \in Seq(Lines)
    /\ \A k \in local.written : \E c \in local.mine : Import!Key(c) = k
    /\ local.phase = "idle" => local.written = {}
    /\ local.phase \in {"lock", "prepare"} => local.mine = local.seen
    /\ local.overtaken \in BOOLEAN
    /\ local.phase \in Import!Open /\ ~local.overtaken =>
          \A k \in local.written : /\ At(committed, k) = At(local.seen, k)
                                   /\ k[2] \in Import!Sources \/ At(committed, k) # {}

ImportsInv ==
    /\ Rows(contacts)
    /\ DOMAIN importing = ImportRuns /\ \A r \in ImportRuns : ImportSound(importing[r], contacts)

\* A step of one import that writes no contact.
LEMMA RunOnly ==
    ASSUME ImportsInv, NEW r \in ImportRuns, NEW next, ImportSound(next, contacts),
           importing' = [importing EXCEPT ![r] = next], contacts' = contacts
    PROVE  ImportsInv'
  <1>1. DOMAIN importing' = ImportRuns /\ importing'[r] = next /\ \A q \in ImportRuns \ {r} : importing'[q] = importing[q]
    BY DEF ImportsInv
  <1>2. ASSUME NEW q \in ImportRuns  PROVE ImportSound(importing'[q], contacts)
    BY <1>1 DEF ImportsInv
  <1>3. ASSUME NEW q \in ImportRuns  PROVE ImportSound(importing[q], contacts)'
    BY <1>2 DEF ImportSound, At, Rows, Import!Key, Import!Sources
  <1>. QED  BY <1>1, <1>3 DEF ImportsInv, Rows

\* An import that is over holds nothing.
LEMMA ImportEnded == ASSUME NEW committed  PROVE ImportSound(Import!Ended, committed)
  <1>1. PICK vault : vault = CHOOSE v \in Vaults : TRUE
    OBVIOUS
  <1>2. Import!Ended = [[phase |-> "idle", lines |-> << >>, seen |-> {}, mine |-> {}, written |-> {},
                         vault |-> vault, overtaken |-> FALSE] EXCEPT !.phase = "over"]
    BY <1>1 DEF Import!Ended, Import!Waiting
  <1>3. /\ DOMAIN Import!Ended = ImportFields /\ Import!Ended.seen = {} /\ Import!Ended.mine = {}
        /\ Import!Ended.written = {} /\ Import!Ended.lines = << >> /\ Import!Ended.overtaken = FALSE
        /\ Import!Ended.phase = "over"
    BY <1>2 DEF ImportFields
  <1>4. Import!Ended.lines \in Seq(Lines)
    BY <1>3
  <1>6. "over" \notin Import!Open
    BY DEF Import!Open
  <1>. QED  BY <1>3, <1>4, <1>6 DEF ImportSound, Rows

\* What owners do leaves alone the rows that imports have written.
LEMMA OwnContactStep ==
    ASSUME ImportsInv, importing' = importing, Rows(contacts'),
           \A r \in ImportRuns : importing[r].phase \in Import!Open /\ ~importing[r].overtaken =>
              \A k \in importing[r].written : At(contacts', k) = At(contacts, k)
    PROVE  ImportsInv'
  <1>1. ASSUME NEW r \in ImportRuns  PROVE ImportSound(importing[r], contacts')
    BY DEF ImportsInv, ImportSound
  <1>2. ASSUME NEW r \in ImportRuns  PROVE ImportSound(importing[r], contacts)'
    BY <1>1 DEF ImportSound, At, Rows, Import!Key, Import!Sources
  <1>. QED  BY <1>2 DEF ImportsInv, Rows

\* An import writes rows that it saw, or its own.
LEMMA RowWritten ==
    ASSUME ImportsInv, NEW r \in ImportRuns, NEW old, NEW new, NEW next, Import!Write(r, old, new, next),
           ImportSound(next, contacts), next.phase \notin {"idle", "lock", "prepare"},
           next.seen = importing[r].seen, Rows(new),
           \A c \in old : \E d \in new : Import!Key(d) = Import!Key(c),
           \A c \in new : Import!Key(c)[2] \in Import!Sources \/ At(importing[r].seen, Import!Key(c)) # {},
           contacts' = contacts
    PROVE  ImportsInv'
  <1>. DEFINE keys == {Import!Key(c) : c \in new}
  <1>1. CASE ~Import!Writable(r, keys)
    <2>1. importing' = [importing EXCEPT ![r] = Import!Ended]
      BY <1>1 DEF Import!Write, Import!Go
    <2>. QED  BY <2>1, ImportEnded, RunOnly
  <1>2. CASE Import!Writable(r, keys)
    <2>1. PICK mine : mine = (next.mine \ old) \cup new
      OBVIOUS
    <2>2. PICK entered : entered = next.written \cup keys
      OBVIOUS
    <2>3. PICK local : local = [next EXCEPT !.mine = mine, !.written = entered]
      OBVIOUS
    <2>4. /\ DOMAIN local = ImportFields /\ local.phase = next.phase /\ local.seen = next.seen
          /\ local.lines = next.lines /\ local.overtaken = next.overtaken
          /\ local.mine = mine /\ local.written = entered
      BY <2>3 DEF ImportSound, ImportFields
    <2>5. importing' = [importing EXCEPT ![r] = local]
      BY <1>2, <2>1, <2>2, <2>3 DEF Import!Write, Import!Go, ImportSound, ImportFields
    <2>6. Rows(mine)
      BY <2>1 DEF ImportSound, Rows
    <2>7. ASSUME NEW k \in entered  PROVE \E c \in mine : Import!Key(c) = k
      <3>1. CASE k \in keys
        BY <2>1, <3>1
      <3>2. CASE k \notin keys
        <4>1. PICK c \in next.mine : Import!Key(c) = k
          BY <2>2, <2>7, <3>2 DEF ImportSound
        <4>2. c \notin old
          BY <3>2, <4>1
        <4>. QED  BY <2>1, <4>1, <4>2
      <3>. QED  BY <3>1, <3>2
    <2>8. ASSUME NEW k \in keys
          PROVE  /\ At(contacts, k) = At(next.seen, k)
                 /\ k[2] \in Import!Sources \/ At(contacts, k) # {}
      <3>1. {c \in contacts : Import!Key(c) \in keys} = {c \in importing[r].seen : Import!Key(c) \in keys}
        BY <1>2 DEF Import!Writable
      <3>2. At(contacts, k) = At(importing[r].seen, k)
        BY <2>8, <3>1 DEF At
      <3>. QED  BY <2>8, <3>2
    <2>. HIDE DEF keys
    <2>9. next.phase \in Import!Open /\ ~next.overtaken =>
             \A k \in entered : /\ At(contacts, k) = At(next.seen, k)
                                /\ k[2] \in Import!Sources \/ At(contacts, k) # {}
      BY <2>2, <2>8 DEF ImportSound
    <2>10. ImportSound(local, contacts)
      BY <2>4, <2>6, <2>7, <2>9 DEF ImportSound
    <2>. QED  BY <2>5, <2>10, RunOnly
  <1>. QED  BY <1>1, <1>2

\* Another phase of the same transaction, or its end.
LEMMA PhaseStep ==
    ASSUME ImportsInv, NEW r \in ImportRuns, NEW next, contacts' = contacts,
           /\ DOMAIN next = ImportFields
           /\ next.seen = importing[r].seen /\ next.mine = importing[r].mine /\ next.written = importing[r].written
           /\ next.overtaken = importing[r].overtaken
           /\ next.lines = importing[r].lines
           /\ importing[r].phase \in Import!Open
           /\ next.phase \in Import!Open \ {"lock", "prepare"} \/ importing[r].phase = "lock",
           next.phase # "idle"
    PROVE  ImportSound(next, contacts)
  <1>1. ImportSound(importing[r], contacts)
    BY DEF ImportsInv
  <1>. QED  BY <1>1 DEF ImportSound, Import!Open

\* What is parsed are lines of an export.
LEMMA StreamLines ==
    ASSUME ImportAssumption, NEW stream \in Import!Streams, NEW expected, Import!Parsed(stream, expected)
    PROVE  stream.lines \in Seq(Lines)
  <1>1. stream.trailer = Import!NoTrailer \/ \E f \in Exports : stream.trailer = Import!Trailer(f)
    BY DEF Import!Streams
  <1>2. PICK f \in Exports : stream.trailer = Import!Trailer(f)
    BY <1>1 DEF Import!Parsed
  <1>3. stream.lines = f
    BY <1>2 DEF Import!Parsed, Import!Trailer
  <1>. QED  BY <1>2, <1>3 DEF ImportAssumption

\* A line has a source.
LEMMA LineSource ==
    ASSUME NEW line \in Lines
    PROVE  line.source \in Import!Sources
  <1>1. PICK e \in Exports : \E i \in DOMAIN e : line = e[i]
    BY DEF Lines
  <1>2. line \in Import!ToSet(e)
    BY <1>1 DEF Import!ToSet
  <1>. QED  BY <1>2 DEF Import!Sources

\* Every step keeps the invariant of the imports.
LEMMA ImportsStep ==
    ASSUME ImportsInv, ImportAssumption, [Import!Next]_(Import!importVars)
    PROVE  ImportsInv'
  <1>1. ASSUME NEW r \in ImportRuns  PROVE ImportSound(importing[r], contacts) /\ DOMAIN importing[r] = ImportFields
    BY DEF ImportsInv, ImportSound
  <1>2. ASSUME NEW c \in contacts  PROVE DOMAIN c = ContactFields
    BY DEF ImportsInv, Rows
  <1>3. ASSUME NEW n \in Natives, Import!Add(n)  PROVE ImportsInv'
    <2>1. PICK new : new = [owner |-> n.owner, vault |-> n.vault, id |-> n.id, demo |-> FALSE,
                            text |-> "own"]
      OBVIOUS
    <2>2. contacts' = contacts \cup {new} /\ importing' = importing /\ \A c \in contacts : Import!Key(c) # Import!Key(n)
      BY <1>3, <2>1 DEF Import!Add, Import!Contact
    <2>3. DOMAIN new = ContactFields /\ Import!Key(new) = Import!Key(n) /\ Import!Key(n)[2] = n.id
      BY <2>1 DEF ContactFields, Import!Key
    <2>4. Rows(contacts')
      BY <1>2, <2>2, <2>3 DEF Rows
    <2>5. ASSUME NEW r \in ImportRuns, importing[r].phase \in Import!Open, ~importing[r].overtaken, NEW k \in importing[r].written
          PROVE  At(contacts', k) = At(contacts, k)
      <3>1. k[2] \in Import!Sources \/ At(contacts, k) # {}
        BY <1>1, <2>5 DEF ImportSound
      <3>2. k # Import!Key(n)
        BY <2>2, <2>3, <3>1 DEF ImportAssumption, At
      <3>. QED  BY <2>2, <2>3, <3>2 DEF At
    <2>. QED  BY <2>2, <2>4, <2>5, OwnContactStep
  <1>4. ASSUME NEW c \in contacts, Import!Edit(c)  PROVE ImportsInv'
    <2>1. PICK new : new = [c EXCEPT !.text = "edited"]
      OBVIOUS
    <2>2. contacts' = (contacts \ {c}) \cup {new} /\ importing' = importing
      BY <1>4, <2>1 DEF Import!Edit
    <2>3. DOMAIN new = ContactFields /\ Import!Key(new) = Import!Key(c)
      BY <1>2, <2>1 DEF ContactFields, Import!Key
    <2>4. Rows(contacts')
      BY <1>2, <2>2, <2>3 DEF Rows
    <2>5. ASSUME NEW r \in ImportRuns, importing[r].phase \in Import!Open, ~importing[r].overtaken, NEW k \in importing[r].written
          PROVE  At(contacts', k) = At(contacts, k)
      <3>1. k # Import!Key(c)
        BY <1>4, <2>5 DEF Import!Edit, Import!Unlocked
      <3>. QED  BY <2>2, <2>3, <3>1 DEF At
    <2>. QED  BY <2>2, <2>4, <2>5, OwnContactStep
  <1>5. ASSUME NEW c \in contacts, Import!Delete(c)  PROVE ImportsInv'
    <2>1. contacts' = contacts \ {c} /\ importing' = importing
      BY <1>5 DEF Import!Delete
    <2>2. Rows(contacts')
      BY <1>2, <2>1 DEF Rows
    <2>3. ASSUME NEW r \in ImportRuns, importing[r].phase \in Import!Open, ~importing[r].overtaken, NEW k \in importing[r].written
          PROVE  At(contacts', k) = At(contacts, k)
      <3>1. k # Import!Key(c)
        BY <1>5, <2>3 DEF Import!Delete, Import!Unlocked
      <3>. QED  BY <2>1, <3>1 DEF At
    <2>. QED  BY <2>1, <2>2, <2>3, OwnContactStep
  <1>6. ASSUME NEW r \in ImportRuns, NEW stream \in Import!Streams, NEW expected,
               Import!Begin(r, stream, expected)
        PROVE  ImportsInv'
    <2>1. contacts' = contacts /\ importing[r].phase = "idle"
      BY <1>6 DEF Import!Begin
    <2>2. CASE ~Import!Parsed(stream, expected)
      <3>1. importing' = [importing EXCEPT ![r] = Import!Ended]
        BY <1>6, <2>2 DEF Import!Begin
      <3>. QED  BY <2>1, <3>1, ImportEnded, RunOnly
    <2>3. CASE Import!Parsed(stream, expected)
      <3>1. PICK next : next = [importing[r] EXCEPT !.phase = "lock", !.lines = stream.lines,
                                              !.seen = contacts, !.mine = contacts]
        OBVIOUS
      <3>2. importing' = [importing EXCEPT ![r] = next]
        BY <1>1, <1>6, <2>3, <3>1 DEF Import!Begin, ImportsInv
      <3>3. /\ DOMAIN next = ImportFields /\ next.phase = "lock" /\ next.lines = stream.lines
            /\ next.seen = contacts /\ next.mine = contacts /\ next.written = importing[r].written
            /\ next.overtaken = importing[r].overtaken
        BY <1>1, <3>1 DEF ImportFields
      <3>4. importing[r].written = {} /\ importing[r].overtaken \in BOOLEAN
        BY <1>1, <2>1 DEF ImportSound
      <3>5. ImportSound(next, contacts)
        BY <1>2, <2>3, <3>3, <3>4, StreamLines DEF ImportSound, Rows
      <3>. QED  BY <2>1, <3>2, <3>5, RunOnly
    <2>. QED  BY <2>2, <2>3
  <1>7. ASSUME NEW r \in ImportRuns, importing' = [importing EXCEPT ![r] = Import!Ended], contacts' = contacts
        PROVE  ImportsInv'
    BY <1>7, ImportEnded, RunOnly
  <1>8. ASSUME NEW r \in ImportRuns, Import!SelectOwnerVault(r)  PROVE ImportsInv'
    <2>1. contacts' = contacts /\ importing[r].phase = "lock"
      BY <1>8 DEF Import!SelectOwnerVault
    <2>2. CASE importing' = [importing EXCEPT ![r] = Import!Ended]
      BY <1>7, <2>1, <2>2
    <2>3. ASSUME NEW v, importing' = [importing EXCEPT ![r] = [importing[r] EXCEPT !.phase = "prepare", !.vault = v]]
          PROVE  ImportsInv'
      <3>1. PICK next : next = [importing[r] EXCEPT !.phase = "prepare", !.vault = v]
        OBVIOUS
      <3>2. /\ DOMAIN next = ImportFields /\ next.phase = "prepare" /\ next.lines = importing[r].lines
            /\ next.seen = importing[r].seen /\ next.mine = importing[r].mine /\ next.written = importing[r].written
            /\ next.overtaken = importing[r].overtaken
        BY <1>1, <3>1 DEF ImportFields
      <3>3. importing[r].phase \in Import!Open
        BY <2>1 DEF Import!Open
      <3>4. ImportSound(next, contacts)
        BY <2>1, <3>2, <3>3, PhaseStep
      <3>. QED  BY <2>1, <2>3, <3>1, <3>4, RunOnly
    <2>. QED  BY <1>8, <2>2, <2>3 DEF Import!SelectOwnerVault, Import!Go
  <1>9. ASSUME NEW r \in ImportRuns, Import!PrepareDemoBaseline(r)  PROVE ImportsInv'
    <2>1. contacts' = contacts /\ importing[r].phase = "prepare"
      BY <1>9 DEF Import!PrepareDemoBaseline
    <2>2. PICK next : next = [importing[r] EXCEPT !.phase = "upsert"]
      OBVIOUS
    <2>3. PICK old : old = Import!Baseline({c \in importing[r].mine : c.owner = importing[r].vault.owner})
      OBVIOUS
    <2>4. PICK new : new = {[c EXCEPT !.demo = TRUE] : c \in old}
      OBVIOUS
    <2>5. /\ DOMAIN next = ImportFields /\ next.phase = "upsert" /\ next.lines = importing[r].lines
          /\ next.seen = importing[r].seen /\ next.mine = importing[r].mine /\ next.written = importing[r].written
          /\ next.overtaken = importing[r].overtaken
      BY <1>1, <2>2 DEF ImportFields
    <2>6. importing[r].phase \in Import!Open /\ "upsert" \in Import!Open \ {"lock", "prepare"}
      BY <2>1 DEF Import!Open
    <2>7. ImportSound(next, contacts)
      BY <2>1, <2>5, <2>6, PhaseStep
    <2>8. \/ importing' = [importing EXCEPT ![r] = next] \/ importing' = [importing EXCEPT ![r] = Import!Ended]
          \/ Import!Write(r, old, new, next)
      BY <1>9, <2>2, <2>3, <2>4 DEF Import!PrepareDemoBaseline, Import!Go
    <2>9. ASSUME Import!Write(r, old, new, next)  PROVE ImportsInv'
      <3>1. importing[r].mine = importing[r].seen /\ Rows(importing[r].seen)
        BY <1>1, <2>1 DEF ImportSound
      <3>2. old \subseteq importing[r].seen
        BY <2>3, <3>1 DEF Import!Baseline
      <3>3. ASSUME NEW c \in old
            PROVE  /\ DOMAIN [c EXCEPT !.demo = TRUE] = ContactFields
                   /\ Import!Key([c EXCEPT !.demo = TRUE]) = Import!Key(c)
        <4>1. DOMAIN c = ContactFields
          BY <3>1, <3>2 DEF Rows
        <4>. QED  BY <4>1 DEF ContactFields, Import!Key
      <3>4. Rows(new) /\ \A c \in old : \E d \in new : Import!Key(d) = Import!Key(c)
        BY <2>4, <3>3 DEF Rows
      <3>5. ASSUME NEW d \in new  PROVE At(importing[r].seen, Import!Key(d)) # {}
        BY <2>4, <3>2, <3>3 DEF At
      <3>. QED  BY <2>1, <2>5, <2>7, <2>9, <3>4, <3>5, RowWritten
    <2>. QED  BY <1>7, <2>1, <2>7, <2>8, <2>9, RunOnly
  <1>10. ASSUME NEW r \in ImportRuns, Import!UpsertContact(r)  PROVE ImportsInv'
    <2>1. contacts' = contacts /\ importing[r].phase = "upsert"
      BY <1>10 DEF Import!UpsertContact
    <2>2. CASE importing[r].lines = << >>
      <3>1. PICK next : next = [importing[r] EXCEPT !.phase = "commit"]
        OBVIOUS
      <3>2. /\ DOMAIN next = ImportFields /\ next.phase = "commit" /\ next.lines = importing[r].lines
            /\ next.seen = importing[r].seen /\ next.mine = importing[r].mine /\ next.written = importing[r].written
            /\ next.overtaken = importing[r].overtaken
        BY <1>1, <3>1 DEF ImportFields
      <3>3. importing[r].phase \in Import!Open /\ "commit" \in Import!Open \ {"lock", "prepare"}
        BY <2>1 DEF Import!Open
      <3>4. ImportSound(next, contacts)
        BY <2>1, <3>2, <3>3, PhaseStep
      <3>5. importing' = [importing EXCEPT ![r] = next] \/ importing' = [importing EXCEPT ![r] = Import!Ended]
        BY <1>10, <2>2, <3>1 DEF Import!UpsertContact, Import!Go
      <3>. QED  BY <1>7, <2>1, <3>4, <3>5, RunOnly
    <2>3. CASE importing[r].lines # << >>
      <3>1. PICK line : line = Head(importing[r].lines)
        OBVIOUS
      <3>2. PICK new : new = [owner |-> importing[r].vault.owner, vault |-> importing[r].vault.vault,
                              id |-> line.source, demo |-> FALSE, text |-> line.text]
        OBVIOUS
      <3>3. PICK old : old = {c \in importing[r].mine : Import!Key(c) = Import!Key(new)}
        OBVIOUS
      <3>4. PICK next : next = [importing[r] EXCEPT !.lines = Tail(importing[r].lines)]
        OBVIOUS
      <3>5. Import!Write(r, old, {new}, next)
        BY <1>1, <1>10, <2>3, <3>1, <3>2, <3>3, <3>4 DEF Import!UpsertContact, Import!Contact,
           ImportFields
      <3>6. /\ DOMAIN next = ImportFields /\ next.phase = "upsert" /\ next.lines = Tail(importing[r].lines)
            /\ next.seen = importing[r].seen /\ next.mine = importing[r].mine /\ next.written = importing[r].written
            /\ next.overtaken = importing[r].overtaken
        BY <1>1, <2>1, <3>4 DEF ImportFields
      <3>7. importing[r].lines \in Seq(Lines) /\ line \in Lines /\ Tail(importing[r].lines) \in Seq(Lines)
        BY <1>1, <2>3, <3>1 DEF ImportSound
      <3>8. ImportSound(next, contacts)
        BY <1>1, <2>1, <3>6, <3>7 DEF ImportSound
      <3>9. DOMAIN new = ContactFields /\ Import!Key(new)[2] = line.source
        BY <3>2 DEF ContactFields, Import!Key
      <3>10. Rows({new}) /\ Import!Key(new)[2] \in Import!Sources
        BY <3>7, <3>9, LineSource DEF Rows
      <3>11. \A c \in old : \E d \in {new} : Import!Key(d) = Import!Key(c)
        BY <3>3
      <3>. QED  BY <2>1, <3>5, <3>6, <3>8, <3>10, <3>11, RowWritten
    <2>. QED  BY <2>2, <2>3
  <1>11. ASSUME NEW r \in ImportRuns, Import!Fail(r)  PROVE ImportsInv'
    BY <1>7, <1>11 DEF Import!Fail, Import!Go
  <1>12. ASSUME NEW r \in ImportRuns, Import!Commit(r)  PROVE ImportsInv'
    <2>1. CASE importing' = [importing EXCEPT ![r] = Import!Ended] /\ contacts' = contacts
      BY <1>7, <2>1
    <2>2. ASSUME contacts' = {c \in contacts : Import!Key(c) \notin importing[r].written}
                                \cup {c \in importing[r].mine : Import!Key(c) \in importing[r].written},
                 importing' = [q \in ImportRuns |-> IF q = r THEN Import!Ended
                                ELSE IF importing[q].phase \in Import!Open
                                THEN [importing[q] EXCEPT !.overtaken = TRUE] ELSE importing[q]]
          PROVE  ImportsInv'
      <3>1. Rows(contacts')
        BY <1>1, <1>2, <2>2 DEF ImportSound, Rows
      <3>2. ASSUME NEW q \in ImportRuns  PROVE ImportSound(importing'[q], contacts')
        <4>1. CASE q = r
          BY <2>2, <4>1, ImportEnded
        <4>2. CASE q # r /\ importing[q].phase \in Import!Open
          <5>1. PICK next : next = [importing[q] EXCEPT !.overtaken = TRUE]
            OBVIOUS
          <5>2. /\ DOMAIN next = ImportFields /\ next.phase = importing[q].phase /\ next.lines = importing[q].lines
                /\ next.seen = importing[q].seen /\ next.mine = importing[q].mine
                /\ next.written = importing[q].written /\ next.overtaken = TRUE
            BY <1>1, <5>1 DEF ImportFields
          <5>3. ImportSound(next, contacts')
            BY <1>1, <5>2 DEF ImportSound
          <5>. QED  BY <2>2, <4>2, <5>1, <5>3
        <4>3. CASE q # r /\ importing[q].phase \notin Import!Open
          BY <1>1, <2>2, <4>3 DEF ImportSound
        <4>. QED  BY <4>1, <4>2, <4>3
      <3>3. ASSUME NEW q \in ImportRuns  PROVE ImportSound(importing[q], contacts)'
        BY <3>2 DEF ImportSound, At, Rows, Lines, Import!Key, Import!Sources
      <3>. QED  BY <2>2, <3>1, <3>3 DEF ImportsInv, Rows
    <2>. QED  BY <1>12, <2>1, <2>2 DEF Import!Commit, Import!Go
  <1>13. ASSUME UNCHANGED Import!importVars  PROVE ImportsInv'
    BY <1>2, <1>13, OwnContactStep DEF Import!importVars, Rows
  <1>. QED  BY <1>3, <1>4, <1>5, <1>6, <1>8, <1>9, <1>10, <1>11, <1>12, <1>13 DEF Import!Next

\* At the start owners have their own contacts, and no run has any.
LEMMA ImportsStart ==
    ASSUME Import!Init
    PROVE  ImportsInv
  <1>1. PICK some \in SUBSET {Import!Contact(n, n.id, FALSE, "own") : n \in Natives} : contacts = some
    BY DEF Import!Init
  <1>2. Rows(contacts)
    BY <1>1 DEF Import!Contact, Rows, ContactFields
  <1>3. ImportSound(Import!Waiting, contacts)
    <2>1. PICK vault : vault = CHOOSE v \in Vaults : TRUE
      OBVIOUS
    <2>2. Import!Waiting = [phase |-> "idle", lines |-> << >>, seen |-> {}, mine |-> {},
                            written |-> {}, vault |-> vault, overtaken |-> FALSE]
      BY <2>1 DEF Import!Waiting
    <2>3. << >> \in Seq(Lines) /\ "idle" \notin Import!Open
      BY DEF Import!Open
    <2>. QED  BY <2>2, <2>3 DEF ImportSound, Rows, ImportFields
  <1>4. importing = [r \in ImportRuns |-> Import!Waiting]
    BY DEF Import!Init
  <1>. QED  BY <1>2, <1>3, <1>4 DEF ImportsInv

\* An import takes nothing away, and overwrites nothing that an owner wrote after it began, even
\* if it waited for another one with its snapshot (selectOwnerVault, upsertContact and the
\* serializable transaction of cli/monica-import.ts).
THEOREM ImportTakesNothing ==
    ASSUME ImportAssumption
    PROVE  Import!Spec => [][Import!ImportLosesNothing]_(Import!importVars)
  <1>1. Import!Init => ImportsInv
    BY ImportsStart
  <1>2. ImportsInv /\ [Import!Next]_(Import!importVars) => ImportsInv'
    BY ImportsStep
  <1>3. ASSUME ImportsInv, Import!Next  PROVE Import!ImportLosesNothing
    <2>1. ASSUME NEW r \in ImportRuns, importing[r].phase = "commit", importing'[r].phase # "commit"
          PROVE  /\ {Import!Key(c) : c \in contacts} \subseteq {Import!Key(c) : c \in contacts'}
                 /\ contacts \ importing[r].seen \subseteq contacts'
      <3>1. CASE Import!Commit(r) /\ contacts' # contacts
        <4>1. /\ ~importing[r].overtaken
              /\ contacts' = {c \in contacts : Import!Key(c) \notin importing[r].written}
                                \cup {c \in importing[r].mine : Import!Key(c) \in importing[r].written}
          BY <3>1 DEF Import!Commit, Import!Serializable
        <4>2. ImportSound(importing[r], contacts) /\ importing[r].phase \in Import!Open
          BY <1>3, <2>1 DEF ImportsInv, Import!Open
        <4>3. ASSUME NEW c \in contacts  PROVE \E d \in contacts' : Import!Key(d) = Import!Key(c)
          BY <4>1, <4>2 DEF ImportSound
        <4>4. ASSUME NEW c \in contacts, c \notin importing[r].seen  PROVE c \in contacts'
          <5>1. ASSUME Import!Key(c) \in importing[r].written  PROVE FALSE
            <6>1. At(contacts, Import!Key(c)) = At(importing[r].seen, Import!Key(c))
              BY <4>1, <4>2, <5>1 DEF ImportSound
            <6>. QED  BY <4>4, <6>1 DEF At
          <5>. QED  BY <4>1, <5>1
        <4>. QED  BY <4>3, <4>4
      <3>2. CASE contacts' = contacts
        BY <3>2
      <3>3. ASSUME NEW q \in ImportRuns, q # r, Import!Commit(q)  PROVE FALSE
        <4>1. DOMAIN importing = ImportRuns /\ DOMAIN importing[r] = ImportFields
          BY <1>3 DEF ImportsInv, ImportSound
        <4>2. importing'[r].phase = importing[r].phase
          BY <3>3, <4>1 DEF Import!Commit, Import!Go, ImportFields
        <4>. QED  BY <2>1, <4>2
      <3>4. ~(\E n \in Natives : Import!Add(n)) /\ ~(\E c \in contacts : Import!Edit(c) \/ Import!Delete(c))
        BY <2>1 DEF Import!Add, Import!Edit, Import!Delete
      <3>. QED  BY <1>3, <3>1, <3>2, <3>3, <3>4 DEF Import!Next, Import!Begin, Import!SelectOwnerVault,
                   Import!PrepareDemoBaseline, Import!UpsertContact, Import!Fail
    <2>. QED  BY <2>1 DEF Import!ImportLosesNothing
  <1>. QED  BY <1>1, <1>2, <1>3, PTL DEF Import!Spec

-----------------------------------------------------------------------------
(* The whole of an export.  Since a run looked, owners have added none of  *)
(* what it counts and edited no demo (Kept), so what it has counted of its *)
(* own rows is what there is once they are committed: the lines of one     *)
(* export that it has entered so far (Entered), and the demos that it has  *)
(* marked, or found (Marked).                                              *)

\* Every owner's own contacts are in a vault of theirs, and no two have one id.
WholeAssumption ==
    /\ ImportAssumption
    /\ IsFiniteSet(Vaults) /\ IsFiniteSet(Natives)
    /\ \A n \in Natives : \E v \in Vaults : n.owner = v.owner /\ n.vault = v.vault
    /\ \A m, n \in Natives : m.owner = n.owner /\ m.id = n.id => m.vault = n.vault

Single(some) == \A c, d \in some : Import!Key(c) = Import!Key(d) => c = d
Housed(c) == \E v \in Vaults : c.owner = v.owner /\ c.vault = v.vault
Tidy(some) ==
    /\ IsFiniteSet(some) /\ Single(some)
    /\ \A c \in some : Housed(c) /\ c.demo \in BOOLEAN /\ (c.demo => c.id \notin Import!Sources)

OwnRows(some, o) == {c \in some : c.owner = o}
Distinct(e) == \A i, j \in DOMAIN e : i # j => e[i].source # e[j].source

\* What an owner has is one export.
OfOneExport(own) ==
    Import!Imported(own) # {} =>
        /\ Import!Cardinality(Import!Demos(own)) = DemoCount
        /\ \E e \in Exports :
              /\ Distinct(e)
              /\ {c.id : c \in Import!Imported(own)} = {e[i].source : i \in DOMAIN e}
              /\ \A c \in Import!Imported(own), i \in DOMAIN e :
                    c.id = e[i].source => c.text \in {e[i].text, "edited"}

Kept(seen, now, gone) ==
    /\ \A c \in Import!Imported(now) : \E d \in Import!Imported(seen) : Import!Key(d) = Import!Key(c)
    /\ Import!Demos(now) \subseteq Import!Demos(seen)
    /\ \A c \in Import!Demos(seen) : c.owner \in gone \/ c \in now

LineKey(local, line) == <<local.vault.owner, line.source>>
LineRow(local, line) == Import!Contact(local.vault, line.source, FALSE, line.text)

Entered(local, e) ==
    \E k \in 0 .. Len(e) :
        /\ Len(local.lines) = Len(e) - k
        /\ \A i \in 1 .. Len(e) - k : local.lines[i] = e[k + i]
        /\ \A i \in 1 .. k : /\ LineKey(local, e[i]) \in local.written
                             /\ LineRow(local, e[i]) \in local.mine
        /\ \A key \in local.written : key[2] \in Import!Sources =>
              \E i \in 1 .. k : key = LineKey(local, e[i])

OwnDemos(some, local) == Import!Demos(OwnRows(some, local.vault.owner))
Marked(local) ==
    \/ /\ \A key \in local.written : key[2] \in Import!Sources
       /\ OwnDemos(local.mine, local) = OwnDemos(local.seen, local)
    \/ /\ OwnDemos(local.seen, local) = {}
       /\ \A c \in OwnDemos(local.mine, local) : Import!Key(c) \in local.written

Counted(local) ==
    /\ local.lines = << >>
    /\ Import!Cardinality(Import!Imported(OwnRows(local.mine, local.vault.owner))) =
          Import!Cardinality({key \in local.written : key[2] \in Import!Sources})
    /\ Import!Cardinality(OwnDemos(local.mine, local)) = DemoCount

\* What may be said of a run on its way, all that is committed, and the owners who deleted some.
RunWhole(local, now, gone) ==
    local.phase \in Import!Open =>
        /\ Tidy(local.seen) /\ Tidy(local.mine)
        /\ ~local.overtaken => Kept(local.seen, now, gone)
        /\ \A c \in Import!Imported(local.seen) :
              \E d \in Import!Imported(local.mine) : Import!Key(d) = Import!Key(c)
        /\ local.phase # "lock" =>
              /\ local.vault \in Vaults
              /\ \A c \in Import!Imported(local.seen) : c.owner = local.vault.owner
        /\ \E e \in Exports :
              /\ Distinct(e)
              /\ local.phase \in {"lock", "prepare"} => local.lines = e /\ local.written = {}
              /\ local.phase \in {"upsert", "commit"} => Entered(local, e)
        /\ local.phase \in {"upsert", "commit"} => Marked(local)
        /\ local.phase = "commit" => Counted(local)

WholeInv ==
    /\ Tidy(contacts)
    /\ \A c, d \in Import!Imported(contacts) : c.owner = d.owner
    /\ \A o \in Import!Owners \ touched : OfOneExport(OwnRows(contacts, o))
    /\ \A r \in ImportRuns : RunWhole(importing[r], contacts, touched)

-----------------------------------------------------------------------------
(* Counting rows by their keys, and lines by their sources.                *)

\* The module's count is that of the library.
LEMMA ImportCounts == ASSUME NEW some  PROVE Import!Cardinality(some) = Cardinality(some)
  BY DEF Import!Cardinality, Cardinality

\* Rows whose keys differ are as many as their keys.
LEMMA KeysCounted ==
    ASSUME NEW some, IsFiniteSet(some), Single(some)
    PROVE  /\ IsFiniteSet({Import!Key(c) : c \in some})
           /\ Cardinality({Import!Key(c) : c \in some}) = Cardinality(some)
  <1>. DEFINE keys == {Import!Key(c) : c \in some}
              key == [c \in some |-> Import!Key(c)]
  <1>1. key \in Bijection(some, keys)
    BY DEF Single, Bijection, Injection, Surjection, IsInjective
  <1>. QED  BY <1>1, FS_Bijection DEF ExistsBijection

\* Rows of one owner are as many as their ids.
LEMMA IdsCounted ==
    ASSUME NEW some, IsFiniteSet(some), Single(some), NEW o, \A c \in some : c.owner = o
    PROVE  Cardinality({c.id : c \in some}) = Cardinality(some)
  <1>. DEFINE ids == {c.id : c \in some}
              id == [c \in some |-> c.id]
  <1>1. \A c, d \in some : c.id = d.id => c = d
    BY DEF Single, Import!Key
  <1>2. id \in Bijection(some, ids)
    BY <1>1 DEF Bijection, Injection, Surjection, IsInjective
  <1>. QED  BY <1>2, FS_Bijection DEF ExistsBijection

\* Lines whose sources differ are as many as their sources.
LEMMA SourcesCounted ==
    ASSUME NEW e \in Seq(Lines), Distinct(e)
    PROVE  Cardinality({e[i].source : i \in DOMAIN e}) = Len(e)
  <1>. DEFINE sources == {e[i].source : i \in DOMAIN e}
              at == [i \in 1 .. Len(e) |-> e[i].source]
  <1>1. Len(e) \in Nat /\ DOMAIN e = 1 .. Len(e)
    OBVIOUS
  <1>2. at \in Bijection(1 .. Len(e), sources)
    BY <1>1 DEF Distinct, Bijection, Injection, Surjection, IsInjective
  <1>3. IsFiniteSet(1 .. Len(e)) /\ Cardinality(1 .. Len(e)) = Len(e)
    BY <1>1, FS_Interval
  <1>. HIDE DEF at, sources
  <1>4. Cardinality(sources) = Len(e)
    BY <1>2, <1>3, FS_Bijection DEF ExistsBijection
  <1>. QED  BY <1>4 DEF sources

\* What is counted of an owner who has one export is what is in it.
LEMMA WholeFollows ==
    ASSUME WholeAssumption, WholeInv
    PROVE  Import!ImportIsWhole
  <1>. DEFINE owners == {c.owner : c \in Import!Imported(contacts)}
  <1>1. Import!Cardinality(owners) <= 1
    <2>1. Import!Cardinality({}) = 0 /\ \A o : Import!Cardinality({o}) = 1
      BY ImportCounts, FS_EmptySet, FS_Singleton
    <2>2. owners = {} \/ \E o : owners = {o}
      BY DEF WholeInv
    <2>. HIDE DEF owners
    <2>3. CASE owners = {}
      BY <2>1, <2>3
    <2>4. ASSUME NEW o, owners = {o}  PROVE Import!Cardinality(owners) = 1
      BY <2>1, <2>4
    <2>. QED  BY <2>2, <2>3, <2>4
  <1>2. ASSUME NEW o \in Import!Owners \ touched, Import!Imported(OwnRows(contacts, o)) # {}
        PROVE  /\ Import!Cardinality(Import!Demos(OwnRows(contacts, o))) = DemoCount
               /\ \E e \in Exports :
                    /\ {c.id : c \in Import!Imported(OwnRows(contacts, o))} = {e[i].source : i \in DOMAIN e}
                    /\ Import!Cardinality(Import!Imported(OwnRows(contacts, o))) = Len(e)
                    /\ \A c \in Import!Imported(OwnRows(contacts, o)), i \in DOMAIN e :
                         c.id = e[i].source => c.text \in {e[i].text, "edited"}
    <2>. DEFINE own == Import!Imported(OwnRows(contacts, o))
    <2>1. OfOneExport(OwnRows(contacts, o))
      BY <1>2 DEF WholeInv
    <2>2. PICK e \in Exports :
              /\ Distinct(e)
              /\ {c.id : c \in own} = {e[i].source : i \in DOMAIN e}
              /\ \A c \in own, i \in DOMAIN e : c.id = e[i].source => c.text \in {e[i].text, "edited"}
      BY <1>2, <2>1 DEF OfOneExport
    <2>3. own \subseteq contacts /\ \A c \in own : c.owner = o
      BY DEF Import!Imported, OwnRows
    <2>4. IsFiniteSet(contacts) /\ Single(contacts)
      BY DEF WholeInv, Tidy
    <2>. HIDE DEF own
    <2>5. IsFiniteSet(own) /\ Single(own)
      BY <2>3, <2>4, FS_Subset DEF Single
    <2>6. Cardinality({c.id : c \in own}) = Cardinality(own)
      BY <2>3, <2>5, IdsCounted
    <2>7. e \in Seq(Lines)
      BY DEF WholeAssumption, ImportAssumption
    <2>8. Import!Cardinality(own) = Len(e)
      BY <2>2, <2>6, <2>7, SourcesCounted, ImportCounts
    <2>9. Import!Cardinality(Import!Demos(OwnRows(contacts, o))) = DemoCount
      BY <1>2, <2>1 DEF OfOneExport
    <2>. QED  BY <2>2, <2>8, <2>9 DEF own
  <1>. HIDE DEF owners
  <1>3. Import!Cardinality({c.owner : c \in Import!Imported(contacts)}) <= 1
    BY <1>1 DEF owners
  <1>. QED  BY <1>2, <1>3 DEF Import!ImportIsWhole, OwnRows

-----------------------------------------------------------------------------
(* What a run keeps of these.                                              *)

\* The vault that is chosen has all there was of an import.
LEMMA ChosenAlone ==
    ASSUME WholeAssumption, NEW seen, Tidy(seen), NEW n, NEW v \in Import!Candidates(seen, n)
    PROVE  v \in Vaults /\ \A c \in Import!Imported(seen) : c.owner = v.owner
  <1>. DEFINE Fit(w) == \/ Import!IsFirstRun(Import!Of(seen, w))
                        \/ Import!IsCompleteRerun(Import!Of(seen, w), n)
              all == {w \in Vaults : Fit(w)}
              partial == \E w \in Vaults : /\ Import!Imported(Import!Of(seen, w)) # {}
                                           /\ ~Import!IsCompleteRerun(Import!Of(seen, w), n)
  <1>1. Import!Candidates(seen, n) = IF partial \/ Import!Cardinality(all) # 1 THEN {} ELSE all
    BY DEF Import!Candidates
  <1>2. ~partial /\ Import!Cardinality(all) = 1 /\ v \in all
    BY <1>1
  <1>3. IsFiniteSet(all)
    BY FS_Subset DEF WholeAssumption
  <1>. HIDE DEF all
  <1>4. \A w \in all : w = v
    BY <1>2, <1>3, ImportCounts, FS_Singleton
  <1>5. ASSUME NEW c \in Import!Imported(seen)  PROVE c.owner = v.owner
    <2>1. PICK w \in Vaults : c.owner = w.owner /\ c.vault = w.vault
      BY DEF Tidy, Housed, Import!Imported
    <2>2. c \in Import!Imported(Import!Of(seen, w))
      BY <2>1 DEF Import!Imported, Import!Of
    <2>3. w \in all
      BY <1>2, <2>2 DEF all
    <2>. QED  BY <1>4, <2>1, <2>3
  <1>. QED  BY <1>2, <1>5 DEF all

\* Owners add none of what is counted, edit no demo, and are remembered when they delete.
LEMMA KeptStep ==
    ASSUME NEW seen, NEW now, NEW gone, Kept(seen, now, gone), NEW later, NEW left,
           \A c \in Import!Imported(later) : \E d \in Import!Imported(now) : Import!Key(d) = Import!Key(c),
           Import!Demos(later) \subseteq Import!Demos(now),
           \A c \in Import!Demos(now) : c \in later \/ c.owner \in left,
           gone \subseteq left
    PROVE  Kept(seen, later, left)
  <1>1. ASSUME NEW c \in Import!Imported(later)
        PROVE  \E d \in Import!Imported(seen) : Import!Key(d) = Import!Key(c)
    <2>1. PICK d \in Import!Imported(now) : Import!Key(d) = Import!Key(c)
      OBVIOUS
    <2>. QED  BY <2>1 DEF Kept
  <1>2. Import!Demos(later) \subseteq Import!Demos(seen)
    BY DEF Kept
  <1>3. ASSUME NEW c \in Import!Demos(seen)  PROVE c.owner \in left \/ c \in later
    <2>1. c.owner \in gone \/ c \in Import!Demos(now)
      BY DEF Kept, Import!Demos
    <2>. QED  BY <2>1
  <1>. QED  BY <1>1, <1>2, <1>3 DEF Kept

\* All that the invariant says is of these three.
LEMMA WholeAfter ==
    ASSUME Tidy(contacts'), \A c, d \in Import!Imported(contacts') : c.owner = d.owner,
           \A o \in Import!Owners \ touched' : OfOneExport(OwnRows(contacts', o)),
           \A r \in ImportRuns : RunWhole(importing'[r], contacts', touched')
    PROVE  WholeInv'
  <1>. DEFINE One(some) == \A c, d \in Import!Imported(some) : c.owner = d.owner
              Wholes(some, gone) == \A o \in Import!Owners \ gone : OfOneExport(OwnRows(some, o))
              All(runs, some, gone) == \A r \in ImportRuns : RunWhole(runs[r], some, gone)
  <1>1. Tidy(contacts') /\ One(contacts') /\ Wholes(contacts', touched')
        /\ All(importing', contacts', touched')
    OBVIOUS
  <1>. QED  BY <1>1 DEF WholeInv, Tidy, Single, Housed, OfOneExport, OwnRows, Distinct, RunWhole,
               Kept, Entered, Marked, Counted, OwnDemos, LineKey, LineRow,
               Import!Imported, Import!Demos, Import!Owners, Import!Key, Import!Sources, Import!Open,
               Import!Contact, Import!Cardinality, Import!ToSet

\* A step of an owner.
LEMMA OwnerWhole ==
    ASSUME WholeInv, importing' = importing, Tidy(contacts'), touched \subseteq touched',
           \A c \in Import!Imported(contacts') :
              \E d \in Import!Imported(contacts) : Import!Key(d) = Import!Key(c),
           Import!Demos(contacts') \subseteq Import!Demos(contacts),
           \A c \in Import!Demos(contacts) : c \in contacts' \/ c.owner \in touched',
           \A o \in Import!Owners \ touched' : OfOneExport(OwnRows(contacts', o))
    PROVE  WholeInv'
  <1>1. ASSUME NEW r \in ImportRuns  PROVE RunWhole(importing'[r], contacts', touched')
    <2>1. RunWhole(importing[r], contacts, touched)
      BY DEF WholeInv
    <2>2. ASSUME Kept(importing[r].seen, contacts, touched)
          PROVE  Kept(importing[r].seen, contacts', touched')
      BY <2>2, KeptStep
    <2>3. RunWhole(importing[r], contacts', touched')
      BY <2>1, <2>2 DEF RunWhole
    <2>. QED  BY <2>3
  <1>2. ASSUME NEW c \in Import!Imported(contacts'), NEW d \in Import!Imported(contacts')
        PROVE  c.owner = d.owner
    <2>1. PICK c0 \in Import!Imported(contacts) : Import!Key(c0) = Import!Key(c)
      OBVIOUS
    <2>2. PICK d0 \in Import!Imported(contacts) : Import!Key(d0) = Import!Key(d)
      OBVIOUS
    <2>. QED  BY <2>1, <2>2 DEF WholeInv, Import!Key
  <1>. QED  BY <1>1, <1>2, WholeAfter

\* A step of one run that commits nothing.
LEMMA RunWholeStep ==
    ASSUME ImportsInv, WholeInv, NEW r \in ImportRuns, NEW next, RunWhole(next, contacts, touched),
           importing' = [importing EXCEPT ![r] = next], contacts' = contacts, touched' = touched
    PROVE  WholeInv'
  <1>1. \A q \in ImportRuns : RunWhole(importing'[q], contacts', touched')
    BY DEF WholeInv, ImportsInv
  <1>2. /\ Tidy(contacts')
        /\ \A c, d \in Import!Imported(contacts') : c.owner = d.owner
        /\ \A o \in Import!Owners \ touched' : OfOneExport(OwnRows(contacts', o))
    BY DEF WholeInv
  <1>. QED  BY <1>1, <1>2, WholeAfter

\* A run that is over holds nothing.
LEMMA EndWhole ==
    ASSUME ImportsInv, WholeInv, NEW r \in ImportRuns, contacts' = contacts, touched' = touched,
           importing' = [importing EXCEPT ![r] = Import!Ended]
    PROVE  WholeInv'
  <1>1. PICK vault : vault = CHOOSE v \in Vaults : TRUE
    OBVIOUS
  <1>2. Import!Ended.phase = "over"
    BY <1>1 DEF Import!Ended, Import!Waiting
  <1>3. RunWhole(Import!Ended, contacts, touched)
    BY <1>2 DEF RunWhole, Import!Open
  <1>. QED  BY <1>3, RunWholeStep

\* An owner adds a contact of their own.
LEMMA AddWhole ==
    ASSUME WholeAssumption, ImportsInv, WholeInv, NEW n \in Natives, Import!Add(n)
    PROVE  WholeInv'
  <1>1. PICK new : new = [owner |-> n.owner, vault |-> n.vault, id |-> n.id, demo |-> FALSE,
                          text |-> "own"]
    OBVIOUS
  <1>2. /\ contacts' = contacts \cup {new} /\ importing' = importing /\ touched' = touched
        /\ \A c \in contacts : Import!Key(c) # Import!Key(n)
    BY <1>1 DEF Import!Add, Import!Contact
  <1>3. Import!Key(new) = Import!Key(n) /\ ~new.demo /\ new.demo \in BOOLEAN /\ new.id \notin Import!Sources
    BY <1>1 DEF Import!Key, WholeAssumption, ImportAssumption
  <1>4. Housed(new)
    BY <1>1 DEF WholeAssumption, Housed
  <1>5. Tidy(contacts')
    <2>1. IsFiniteSet(contacts')
      BY <1>2, FS_AddElement DEF WholeInv, Tidy
    <2>2. Single(contacts')
      BY <1>2, <1>3 DEF WholeInv, Tidy, Single
    <2>. QED  BY <1>2, <1>3, <1>4, <2>1, <2>2 DEF WholeInv, Tidy
  <1>6. \A some : /\ Import!Imported(some \cup {new}) = Import!Imported(some)
                  /\ Import!Demos(some \cup {new}) = Import!Demos(some)
    BY <1>3 DEF Import!Imported, Import!Demos
  <1>7. ASSUME NEW o \in Import!Owners \ touched'  PROVE OfOneExport(OwnRows(contacts', o))
    <2>1. OwnRows(contacts', o) \in {OwnRows(contacts, o), OwnRows(contacts, o) \cup {new}}
      BY <1>2 DEF OwnRows
    <2>2. /\ Import!Imported(OwnRows(contacts', o)) = Import!Imported(OwnRows(contacts, o))
          /\ Import!Demos(OwnRows(contacts', o)) = Import!Demos(OwnRows(contacts, o))
      BY <1>6, <2>1
    <2>3. OfOneExport(OwnRows(contacts, o))
      BY <1>2, <1>7 DEF WholeInv
    <2>. QED  BY <2>2, <2>3 DEF OfOneExport
  <1>8. /\ Import!Imported(contacts') = Import!Imported(contacts)
        /\ Import!Demos(contacts') = Import!Demos(contacts)
        /\ Import!Demos(contacts) \subseteq contacts'
    BY <1>2, <1>6 DEF Import!Demos
  <1>. QED  BY <1>2, <1>5, <1>7, <1>8, OwnerWhole

\* An owner edits a contact that is no demo.
LEMMA EditWhole ==
    ASSUME WholeAssumption, ImportsInv, WholeInv, NEW c \in contacts, Import!Edit(c)
    PROVE  WholeInv'
  <1>1. PICK new : new = [c EXCEPT !.text = "edited"]
    OBVIOUS
  <1>2. /\ contacts' = (contacts \ {c}) \cup {new} /\ importing' = importing /\ touched' = touched
        /\ ~c.demo
    BY <1>1 DEF Import!Edit
  <1>3. /\ new.owner = c.owner /\ new.vault = c.vault /\ new.id = c.id /\ new.demo = c.demo
        /\ new.text = "edited" /\ Import!Key(new) = Import!Key(c)
    BY <1>1 DEF ImportsInv, Rows, ContactFields, Import!Key
  <1>4. Tidy(contacts')
    <2>1. IsFiniteSet(contacts')
      BY <1>2, FS_AddElement, FS_RemoveElement DEF WholeInv, Tidy
    <2>2. Single(contacts')
      BY <1>2, <1>3 DEF WholeInv, Tidy, Single
    <2>3. Housed(new)
      BY <1>3 DEF WholeInv, Tidy, Housed
    <2>. QED  BY <1>2, <1>3, <2>1, <2>2, <2>3 DEF WholeInv, Tidy
  <1>5. /\ Import!Demos(contacts') = Import!Demos(contacts)
        /\ Import!Demos(contacts) \subseteq contacts'
        /\ \A d \in Import!Imported(contacts') :
              \E old \in Import!Imported(contacts) : Import!Key(old) = Import!Key(d)
    BY <1>2, <1>3 DEF Import!Demos, Import!Imported
  <1>6. ASSUME NEW o \in Import!Owners \ touched'  PROVE OfOneExport(OwnRows(contacts', o))
    <2>1. OfOneExport(OwnRows(contacts, o))
      BY <1>2, <1>6 DEF WholeInv
    <2>2. Import!Demos(OwnRows(contacts', o)) = Import!Demos(OwnRows(contacts, o))
      BY <1>2, <1>3 DEF Import!Demos, OwnRows
    <2>3. \A d \in Import!Imported(OwnRows(contacts', o)) :
             \E old \in Import!Imported(OwnRows(contacts, o)) :
                 old.id = d.id /\ d.text \in {old.text, "edited"}
      BY <1>2, <1>3 DEF Import!Imported, OwnRows
    <2>4. \A old \in Import!Imported(OwnRows(contacts, o)) :
             \E d \in Import!Imported(OwnRows(contacts', o)) : old.id = d.id
      BY <1>2, <1>3 DEF Import!Imported, OwnRows
    <2>5. {d.id : d \in Import!Imported(OwnRows(contacts', o))}
             = {d.id : d \in Import!Imported(OwnRows(contacts, o))}
      BY <2>3, <2>4
    <2>6. ASSUME Import!Imported(OwnRows(contacts', o)) # {}
          PROVE  OfOneExport(OwnRows(contacts', o))
      <3>1. PICK e \in Exports :
                /\ Distinct(e)
                /\ {d.id : d \in Import!Imported(OwnRows(contacts, o))} = {e[i].source : i \in DOMAIN e}
                /\ \A d \in Import!Imported(OwnRows(contacts, o)), i \in DOMAIN e :
                      d.id = e[i].source => d.text \in {e[i].text, "edited"}
        BY <2>1, <2>3, <2>6 DEF OfOneExport
      <3>2. \A d \in Import!Imported(OwnRows(contacts', o)), i \in DOMAIN e :
                d.id = e[i].source => d.text \in {e[i].text, "edited"}
        BY <2>3, <3>1
      <3>3. Import!Cardinality(Import!Demos(OwnRows(contacts', o))) = DemoCount
        BY <2>1, <2>2, <2>3, <2>6 DEF OfOneExport
      <3>. QED  BY <2>5, <3>1, <3>2, <3>3 DEF OfOneExport
    <2>7. Import!Imported(OwnRows(contacts', o)) = {} => OfOneExport(OwnRows(contacts', o))
      BY DEF OfOneExport
    <2>. QED  BY <2>6, <2>7
  <1>. QED  BY <1>2, <1>4, <1>5, <1>6, OwnerWhole

\* An owner deletes a contact.
LEMMA DeleteWhole ==
    ASSUME WholeAssumption, ImportsInv, WholeInv, NEW c \in contacts, Import!Delete(c)
    PROVE  WholeInv'
  <1>1. /\ contacts' = contacts \ {c} /\ importing' = importing /\ touched \subseteq touched'
        /\ c \in Import!Baseline({c}) \/ c.owner \in touched'
    BY DEF Import!Delete
  <1>2. Tidy(contacts')
    BY <1>1, FS_RemoveElement DEF WholeInv, Tidy, Single
  <1>3. c \in Import!Baseline({c}) => c \notin Import!Imported({c}) /\ c \notin Import!Demos({c})
    BY DEF Import!Baseline, Import!Imported, Import!Demos
  <1>4. /\ Import!Imported(contacts') \subseteq Import!Imported(contacts)
        /\ Import!Demos(contacts') \subseteq Import!Demos(contacts)
        /\ \A d \in Import!Demos(contacts) : d \in contacts' \/ d.owner \in touched'
    BY <1>1, <1>3 DEF Import!Imported, Import!Demos
  <1>5. ASSUME NEW o \in Import!Owners \ touched'  PROVE OfOneExport(OwnRows(contacts', o))
    <2>1. /\ Import!Imported(OwnRows(contacts', o)) = Import!Imported(OwnRows(contacts, o))
          /\ Import!Demos(OwnRows(contacts', o)) = Import!Demos(OwnRows(contacts, o))
      BY <1>1, <1>3, <1>5 DEF Import!Imported, Import!Demos, OwnRows
    <2>2. OfOneExport(OwnRows(contacts, o))
      BY <1>1, <1>5 DEF WholeInv
    <2>. QED  BY <2>1, <2>2 DEF OfOneExport
  <1>. QED  BY <1>1, <1>2, <1>4, <1>5, OwnerWhole

-----------------------------------------------------------------------------
(* The steps of a run.                                                     *)

\* A run begins with what is committed and with an export that is whole.
LEMMA BeginWhole ==
    ASSUME WholeAssumption, ImportsInv, WholeInv, NEW r \in ImportRuns,
           NEW stream \in Import!Streams, NEW expected, Import!Begin(r, stream, expected)
    PROVE  WholeInv'
  <1>1. contacts' = contacts /\ touched' = touched /\ importing[r].phase = "idle"
    BY DEF Import!Begin
  <1>2. CASE ~Import!Parsed(stream, expected)
    BY <1>1, <1>2, EndWhole DEF Import!Begin
  <1>3. CASE Import!Parsed(stream, expected)
    <2>1. PICK next : next = [importing[r] EXCEPT !.phase = "lock", !.lines = stream.lines,
                                                  !.seen = contacts, !.mine = contacts]
      OBVIOUS
    <2>2. importing' = [importing EXCEPT ![r] = next]
      BY <1>3, <2>1 DEF Import!Begin, ImportsInv, ImportSound, ImportFields
    <2>3. /\ next.phase = "lock" /\ next.lines = stream.lines /\ next.seen = contacts
          /\ next.mine = contacts /\ next.written = importing[r].written
      BY <2>1 DEF ImportsInv, ImportSound, ImportFields
    <2>4. next.written = {}
      BY <1>1, <2>3 DEF ImportsInv, ImportSound
    <2>5. PICK f \in Exports : stream.trailer = Import!Trailer(f)
      BY <1>3 DEF Import!Streams, Import!Parsed
    <2>6. stream.lines = f /\ Distinct(f)
      BY <1>3, <2>5 DEF Import!Parsed, Import!Trailer, Distinct
    <2>7. Kept(contacts, contacts, touched) /\ Tidy(contacts)
      BY DEF Kept, WholeInv, Import!Demos
    <2>8. RunWhole(next, contacts, touched)
      BY <2>3, <2>4, <2>6, <2>7 DEF RunWhole
    <2>. QED  BY <1>1, <2>2, <2>8, RunWholeStep
  <1>. QED  BY <1>2, <1>3

\* It chooses the vault.
LEMMA SelectWhole ==
    ASSUME WholeAssumption, ImportsInv, WholeInv, NEW r \in ImportRuns, Import!SelectOwnerVault(r)
    PROVE  WholeInv'
  <1>1. contacts' = contacts /\ touched' = touched /\ importing[r].phase = "lock"
    BY DEF Import!SelectOwnerVault
  <1>2. RunWhole(importing[r], contacts, touched) /\ ImportSound(importing[r], contacts)
    BY DEF WholeInv, ImportsInv
  <1>3. "lock" \in Import!Open
    BY DEF Import!Open
  <1>4. ASSUME NEW v \in Import!Candidates(importing[r].mine, Len(importing[r].lines)),
               importing' = [importing EXCEPT ![r] = [importing[r] EXCEPT !.phase = "prepare",
                                                                          !.vault = v]]
        PROVE  WholeInv'
    <2>1. PICK next : next = [importing[r] EXCEPT !.phase = "prepare", !.vault = v]
      OBVIOUS
    <2>2. /\ next.phase = "prepare" /\ next.lines = importing[r].lines /\ next.vault = v
          /\ next.seen = importing[r].seen /\ next.mine = importing[r].mine
          /\ next.written = importing[r].written /\ next.overtaken = importing[r].overtaken
      BY <1>2, <2>1 DEF ImportSound, ImportFields
    <2>3. importing[r].mine = importing[r].seen /\ Tidy(importing[r].seen)
      BY <1>1, <1>2, <1>3 DEF ImportSound, RunWhole
    <2>4. v \in Vaults /\ \A c \in Import!Imported(importing[r].seen) : c.owner = v.owner
      BY <1>4, <2>3, ChosenAlone
    <2>5. RunWhole(next, contacts, touched)
      BY <1>1, <1>2, <1>3, <2>2, <2>4 DEF RunWhole
    <2>. QED  BY <1>1, <1>4, <2>1, <2>5, RunWholeStep
  <1>5. \/ importing' = [importing EXCEPT ![r] = Import!Ended]
        \/ \E v \in Import!Candidates(importing[r].mine, Len(importing[r].lines)) :
              importing' = [importing EXCEPT ![r] = [importing[r] EXCEPT !.phase = "prepare",
                                                                          !.vault = v]]
    BY DEF Import!SelectOwnerVault, Import!Go
  <1>. QED  BY <1>1, <1>4, <1>5, EndWhole

\* What it writes is a record of its own, or the end of it.
LEMMA WriteWhole ==
    ASSUME ImportsInv, WholeInv, NEW r \in ImportRuns, NEW old, NEW new, NEW next,
           DOMAIN next = ImportFields, Import!Write(r, old, new, next),
           contacts' = contacts, touched' = touched,
           \A local : /\ DOMAIN local = ImportFields
                      /\ local.phase = next.phase /\ local.lines = next.lines
                      /\ local.seen = next.seen /\ local.vault = next.vault
                      /\ local.overtaken = next.overtaken
                      /\ local.mine = (next.mine \ old) \cup new
                      /\ local.written = next.written \cup {Import!Key(c) : c \in new}
                    => RunWhole(local, contacts, touched)
    PROVE  WholeInv'
  <1>. DEFINE keys == {Import!Key(c) : c \in new}
  <1>1. CASE ~Import!Writable(r, keys)
    BY <1>1, EndWhole DEF Import!Write, Import!Go
  <1>2. CASE Import!Writable(r, keys)
    <2>1. PICK mine : mine = (next.mine \ old) \cup new
      OBVIOUS
    <2>2. PICK entered : entered = next.written \cup keys
      OBVIOUS
    <2>3. PICK local : local = [next EXCEPT !.mine = mine, !.written = entered]
      OBVIOUS
    <2>4. /\ DOMAIN local = ImportFields /\ local.phase = next.phase /\ local.seen = next.seen
          /\ local.lines = next.lines /\ local.overtaken = next.overtaken
          /\ local.vault = next.vault /\ local.mine = mine /\ local.written = entered
      BY <2>3 DEF ImportFields
    <2>5. importing' = [importing EXCEPT ![r] = local]
      BY <1>2, <2>1, <2>2, <2>3 DEF Import!Write, Import!Go, ImportFields
    <2>6. RunWhole(local, contacts, touched)
      BY <2>1, <2>2, <2>4
    <2>. QED  BY <2>5, <2>6, RunWholeStep
  <1>. QED  BY <1>1, <1>2

\* It marks what the owner had as demos, or finds those that are.
LEMMA PrepareWhole ==
    ASSUME WholeAssumption, ImportsInv, WholeInv, NEW r \in ImportRuns, Import!PrepareDemoBaseline(r)
    PROVE  WholeInv'
  <1>1. contacts' = contacts /\ touched' = touched /\ importing[r].phase = "prepare"
    BY DEF Import!PrepareDemoBaseline
  <1>2. RunWhole(importing[r], contacts, touched) /\ ImportSound(importing[r], contacts)
    BY DEF WholeInv, ImportsInv
  <1>3. "prepare" \in Import!Open /\ "upsert" \in Import!Open
    BY DEF Import!Open
  <1>4. PICK next : next = [importing[r] EXCEPT !.phase = "upsert"]
    OBVIOUS
  <1>5. /\ DOMAIN next = ImportFields /\ next.phase = "upsert" /\ next.lines = importing[r].lines
        /\ next.seen = importing[r].seen /\ next.mine = importing[r].mine
        /\ next.written = importing[r].written /\ next.vault = importing[r].vault
        /\ next.overtaken = importing[r].overtaken
    BY <1>2, <1>4 DEF ImportSound, ImportFields
  <1>6. PICK some : some = {c \in importing[r].mine : c.owner = importing[r].vault.owner}
    OBVIOUS
  <1>7. PICK old : old = Import!Baseline(some)
    OBVIOUS
  <1>8. PICK new : new = {[c EXCEPT !.demo = TRUE] : c \in old}
    OBVIOUS
  <1>9. /\ next.mine = next.seen /\ Tidy(next.seen) /\ next.written = {}
        /\ ~next.overtaken => Kept(next.seen, contacts, touched)
        /\ next.vault \in Vaults
        /\ \A c \in Import!Imported(next.seen) : c.owner = next.vault.owner
        /\ \E e \in Exports : Distinct(e) /\ next.lines = e
    BY <1>1, <1>2, <1>3, <1>5 DEF RunWhole, ImportSound
  <1>10. PICK e \in Exports : Distinct(e) /\ next.lines = e
    BY <1>9
  <1>11. e \in Seq(Lines) /\ Len(e) \in Nat
    BY DEF WholeAssumption, ImportAssumption
  <1>12. CASE importing' = [importing EXCEPT ![r] = next]
    <2>1. Entered(next, e)
      BY <1>9, <1>10, <1>11 DEF Entered
    <2>2. Marked(next)
      BY <1>9 DEF Marked
    <2>3. RunWhole(next, contacts, touched)
      BY <1>5, <1>9, <1>10, <2>1, <2>2 DEF RunWhole
    <2>. QED  BY <1>1, <1>12, <2>3, RunWholeStep
  <1>13. CASE Import!Demos(some) = {} /\ Import!Write(r, old, new, next)
    <2>1. /\ old \subseteq next.seen
          /\ \A c \in old : c.owner = next.vault.owner /\ c.id \notin Import!Sources
      BY <1>5, <1>6, <1>7, <1>9 DEF Import!Baseline
    <2>2. ASSUME NEW c \in old, NEW d, d = [c EXCEPT !.demo = TRUE]
          PROVE  /\ d.owner = c.owner /\ d.vault = c.vault /\ d.id = c.id /\ d.demo = TRUE
                 /\ Import!Key(d) = Import!Key(c)
      BY <1>2, <1>5, <2>1, <2>2 DEF ImportSound, Rows, ContactFields, Import!Key
    <2>3. \A d \in new : \E c \in old :
             /\ d.owner = c.owner /\ d.vault = c.vault /\ d.id = c.id /\ d.demo = TRUE
             /\ Import!Key(d) = Import!Key(c)
      BY ZenonT(60), <1>8, <2>2
    <2>4. ASSUME NEW local, DOMAIN local = ImportFields, local.phase = next.phase,
                 local.lines = next.lines, local.seen = next.seen, local.vault = next.vault,
                 local.overtaken = next.overtaken, local.mine = (next.mine \ old) \cup new,
                 local.written = next.written \cup {Import!Key(c) : c \in new}
          PROVE  RunWhole(local, contacts, touched)
      <3>1. Tidy(local.mine)
        <4>1. IsFiniteSet(next.seen) /\ Single(next.seen)
          BY <1>9 DEF Tidy
        <4>2. IsFiniteSet(old) /\ IsFiniteSet(next.seen \ old)
          BY <2>1, <4>1, FS_Subset
        <4>3. IsFiniteSet(new)
          <5>. DEFINE mark == [c \in old |-> [c EXCEPT !.demo = TRUE]]
          <5>1. mark \in Surjection(old, new)
            BY <1>8 DEF Surjection
          <5>. QED  BY <4>2, <5>1, FS_Surjection
        <4>4. IsFiniteSet(local.mine)
          <5>1. local.mine = (next.seen \ old) \cup new
            BY <1>9, <2>4
          <5>2. IsFiniteSet((next.seen \ old) \cup new)
            BY <4>2, <4>3, FS_Union
          <5>. QED  BY <5>1, <5>2
        <4>5. \A d, f \in new : Import!Key(d) = Import!Key(f) => d = f
          <5>1. ASSUME NEW d \in new, NEW f \in new, Import!Key(d) = Import!Key(f)  PROVE d = f
            <6>1. PICK c \in old : d = [c EXCEPT !.demo = TRUE]
              BY <1>8
            <6>2. PICK g \in old : f = [g EXCEPT !.demo = TRUE]
              BY <1>8
            <6>3. Import!Key(c) = Import!Key(g)
              BY <2>2, <5>1, <6>1, <6>2
            <6>4. c = g
              BY <2>1, <4>1, <6>3 DEF Single
            <6>. QED  BY <6>1, <6>2, <6>4
          <5>. QED  BY <5>1
        <4>6. ASSUME NEW d \in new, NEW f \in next.mine \ old  PROVE Import!Key(d) # Import!Key(f)
          <5>1. PICK c \in old : Import!Key(d) = Import!Key(c)
            BY <2>3
          <5>. QED  BY <1>9, <2>1, <4>1, <5>1 DEF Single
        <4>7. Single(local.mine)
          BY <1>9, <2>4, <4>1, <4>5, <4>6 DEF Single
        <4>8. \A c \in local.mine : Housed(c) /\ c.demo \in BOOLEAN /\ (c.demo => c.id \notin Import!Sources)
          <5>1. ASSUME NEW c \in new  PROVE Housed(c) /\ c.demo \in BOOLEAN /\ c.id \notin Import!Sources
            <6>1. PICK d \in old : /\ c.owner = d.owner /\ c.vault = d.vault /\ c.id = d.id
                                   /\ c.demo = TRUE
              BY <2>3
            <6>2. Housed(d) /\ d.id \notin Import!Sources
              BY <1>9, <2>1 DEF Tidy
            <6>3. c.demo \in BOOLEAN
              BY <6>1
            <6>. QED  BY <6>1, <6>2, <6>3 DEF Housed
          <5>. QED  BY <1>9, <2>4, <5>1 DEF Tidy
        <4>. QED  BY <4>4, <4>7, <4>8 DEF Tidy
      <3>2. ASSUME NEW c \in Import!Imported(local.seen)
            PROVE  \E d \in Import!Imported(local.mine) : Import!Key(d) = Import!Key(c)
        BY <1>9, <2>1, <2>4 DEF Import!Imported
      <3>3. \A key \in local.written : key[2] \notin Import!Sources
        <4>1. ASSUME NEW c \in new  PROVE Import!Key(c)[2] \notin Import!Sources
          BY <2>1, <2>3 DEF Import!Key
        <4>. QED  BY <1>9, <2>4, <4>1
      <3>4. Entered(local, e)
        BY <1>10, <1>11, <2>4, <3>3 DEF Entered
      <3>5. Marked(local)
        <4>1. OwnDemos(local.seen, local) = {}
          BY <1>5, <1>6, <1>9, <1>13, <2>4 DEF OwnDemos, OwnRows
        <4>2. ASSUME NEW c \in OwnDemos(local.mine, local)  PROVE Import!Key(c) \in local.written
          <5>1. c \in new
            BY <1>9, <2>4, <4>1, <4>2 DEF OwnDemos, OwnRows, Import!Demos
          <5>. QED  BY <2>4, <5>1
        <4>. QED  BY <4>1, <4>2 DEF Marked
      <3>. QED  BY <1>5, <1>9, <1>10, <2>4, <3>1, <3>2, <3>4, <3>5 DEF RunWhole
    <2>. QED  BY <1>1, <1>5, <1>13, <2>4, WriteWhole
  <1>14. \/ importing' = [importing EXCEPT ![r] = next]
         \/ importing' = [importing EXCEPT ![r] = Import!Ended]
         \/ Import!Demos(some) = {} /\ Import!Write(r, old, new, next)
    BY <1>4, <1>6, <1>7, <1>8 DEF Import!PrepareDemoBaseline, Import!Go
  <1>. QED  BY <1>1, <1>12, <1>13, <1>14, EndWhole

\* Which lines are entered is seen in these four.
LEMMA EnteredSame ==
    ASSUME NEW a, NEW b, NEW e, Entered(a, e), b.lines = a.lines, b.written = a.written,
           b.mine = a.mine, b.vault = a.vault
    PROVE  Entered(b, e)
  <1>1. PICK k \in 0 .. Len(e) :
            /\ Len(a.lines) = Len(e) - k
            /\ \A i \in 1 .. Len(e) - k : a.lines[i] = e[k + i]
            /\ \A i \in 1 .. k : LineKey(a, e[i]) \in a.written /\ LineRow(a, e[i]) \in a.mine
            /\ \A key \in a.written : key[2] \in Import!Sources =>
                  \E i \in 1 .. k : key = LineKey(a, e[i])
    BY DEF Entered
  <1>2. \A l : LineKey(b, l) = LineKey(a, l) /\ LineRow(b, l) = LineRow(a, l)
    BY DEF LineKey, LineRow
  <1>3. /\ Len(b.lines) = Len(e) - k
        /\ \A i \in 1 .. Len(e) - k : b.lines[i] = e[k + i]
    BY <1>1
  <1>4. \A i \in 1 .. k : LineKey(b, e[i]) \in b.written /\ LineRow(b, e[i]) \in b.mine
    BY <1>1, <1>2
  <1>5. \A key \in b.written : key[2] \in Import!Sources =>
            \E i \in 1 .. k : key = LineKey(b, e[i])
    BY <1>1, <1>2
  <1>. QED  BY <1>1, <1>3, <1>4, <1>5 DEF Entered

\* It enters the next line, or has counted what it entered.
LEMMA UpsertWhole ==
    ASSUME WholeAssumption, ImportsInv, WholeInv, NEW r \in ImportRuns, Import!UpsertContact(r)
    PROVE  WholeInv'
  <1>1. contacts' = contacts /\ touched' = touched /\ importing[r].phase = "upsert"
    BY DEF Import!UpsertContact
  <1>2. RunWhole(importing[r], contacts, touched) /\ ImportSound(importing[r], contacts)
    BY DEF WholeInv, ImportsInv
  <1>3. "upsert" \in Import!Open /\ "commit" \in Import!Open
    BY DEF Import!Open
  <1>4. PICK e \in Exports : Distinct(e) /\ Entered(importing[r], e)
    BY <1>1, <1>2, <1>3 DEF RunWhole
  <1>5. e \in Seq(Lines) /\ Len(e) \in Nat
    BY DEF WholeAssumption, ImportAssumption
  <1>6. CASE importing[r].lines = << >>
    <2>1. PICK next : next = [importing[r] EXCEPT !.phase = "commit"]
      OBVIOUS
    <2>2. /\ DOMAIN next = ImportFields /\ next.phase = "commit" /\ next.lines = importing[r].lines
          /\ next.seen = importing[r].seen /\ next.mine = importing[r].mine
          /\ next.written = importing[r].written /\ next.vault = importing[r].vault
          /\ next.overtaken = importing[r].overtaken
      BY <1>2, <2>1 DEF ImportSound, ImportFields
    <2>3. \/ importing' = [importing EXCEPT ![r] = Import!Ended]
          \/ Import!FinalCounts(r) /\ importing' = [importing EXCEPT ![r] = next]
      BY <1>6, <2>1 DEF Import!UpsertContact, Import!Go
    <2>4. ASSUME Import!FinalCounts(r)  PROVE RunWhole(next, contacts, touched)
      <3>1. Counted(next)
        BY <1>6, <2>2, <2>4 DEF Import!FinalCounts, Counted, OwnRows, OwnDemos
      <3>2. Entered(next, e)
        BY <1>4, <2>2, EnteredSame
      <3>3. Marked(next)
        BY <1>1, <1>2, <1>3, <2>2 DEF RunWhole, Marked, OwnDemos
      <3>. QED  BY <1>1, <1>2, <1>3, <1>4, <2>2, <3>1, <3>2, <3>3 DEF RunWhole
    <2>. QED  BY <1>1, <2>3, <2>4, EndWhole, RunWholeStep
  <1>7. CASE importing[r].lines # << >>
    <2>1. PICK line : line = Head(importing[r].lines)
      OBVIOUS
    <2>2. PICK new : new = [owner |-> importing[r].vault.owner, vault |-> importing[r].vault.vault,
                            id |-> line.source, demo |-> FALSE, text |-> line.text]
      OBVIOUS
    <2>3. PICK old : old = {c \in importing[r].mine : Import!Key(c) = Import!Key(new)}
      OBVIOUS
    <2>4. PICK next : next = [importing[r] EXCEPT !.lines = Tail(importing[r].lines)]
      OBVIOUS
    <2>5. Import!Write(r, old, {new}, next)
      BY <1>2, <1>7, <2>1, <2>2, <2>3, <2>4 DEF Import!UpsertContact, Import!Contact,
         ImportSound, ImportFields
    <2>6. /\ DOMAIN next = ImportFields /\ next.phase = "upsert"
          /\ next.lines = Tail(importing[r].lines)
          /\ next.seen = importing[r].seen /\ next.mine = importing[r].mine
          /\ next.written = importing[r].written /\ next.vault = importing[r].vault
          /\ next.overtaken = importing[r].overtaken
      BY <1>1, <1>2, <2>4 DEF ImportSound, ImportFields
    <2>7. PICK k \in 0 .. Len(e) :
              /\ Len(importing[r].lines) = Len(e) - k
              /\ \A i \in 1 .. Len(e) - k : importing[r].lines[i] = e[k + i]
              /\ \A i \in 1 .. k : /\ LineKey(importing[r], e[i]) \in importing[r].written
                                   /\ LineRow(importing[r], e[i]) \in importing[r].mine
              /\ \A key \in importing[r].written : key[2] \in Import!Sources =>
                    \E i \in 1 .. k : key = LineKey(importing[r], e[i])
      BY <1>4 DEF Entered
    <2>8. importing[r].lines \in Seq(Lines)
      BY <1>2 DEF ImportSound
    <2>9. /\ k + 1 \in 1 .. Len(e) /\ line = e[k + 1] /\ line \in Lines
          /\ Len(next.lines) = Len(e) - (k + 1)
          /\ \A i \in 1 .. Len(e) - (k + 1) : next.lines[i] = e[(k + 1) + i]
      <3>1. importing[r].lines # << >> /\ Len(importing[r].lines) \in Nat
        BY <1>7, <2>8
      <3>2. Len(importing[r].lines) > 0 /\ Len(e) \in Nat
        BY <1>5, <2>8, <3>1
      <3>3. k + 1 \in 1 .. Len(e) /\ line = e[k + 1] /\ line \in Lines
        BY <1>5, <2>1, <2>7, <2>8, <3>2
      <3>4. /\ Len(next.lines) = Len(importing[r].lines) - 1
            /\ \A i \in 1 .. Len(importing[r].lines) - 1 : next.lines[i] = importing[r].lines[i + 1]
        BY <2>6, <2>8, <3>1
      <3>5. ASSUME NEW i \in 1 .. Len(e) - (k + 1)  PROVE next.lines[i] = e[(k + 1) + i]
        <4>1. i + 1 \in 1 .. Len(e) - k /\ i \in 1 .. Len(importing[r].lines) - 1
              /\ k + (i + 1) = (k + 1) + i
          BY <2>7, <3>2
        <4>. QED  BY <2>7, <3>4, <4>1
      <3>. QED  BY <2>7, <3>2, <3>3, <3>4, <3>5
    <2>10. line.source \in Import!Sources
      BY <2>9, LineSource
    <2>11. /\ new.owner = next.vault.owner /\ new.vault = next.vault.vault /\ new.id = line.source
           /\ new.demo = FALSE /\ new.text = line.text
           /\ Import!Key(new) = LineKey(next, line) /\ new = LineRow(next, line)
           /\ Import!Key(new)[2] = line.source
      BY <2>2, <2>6 DEF Import!Key, LineKey, LineRow, Import!Contact
    <2>12. /\ Tidy(next.seen) /\ Tidy(next.mine) /\ next.vault \in Vaults
           /\ ~next.overtaken => Kept(next.seen, contacts, touched)
           /\ \A c \in Import!Imported(next.seen) :
                 \E d \in Import!Imported(next.mine) : Import!Key(d) = Import!Key(c)
           /\ \A c \in Import!Imported(next.seen) : c.owner = next.vault.owner
           /\ Marked(importing[r])
      BY <1>1, <1>2, <1>3, <2>6 DEF RunWhole
    <2>13. \A c \in old : Import!Key(c) = Import!Key(new) /\ c.id = line.source
      BY <2>2, <2>3 DEF Import!Key
    <2>14. ASSUME NEW local, DOMAIN local = ImportFields, local.phase = next.phase,
                  local.lines = next.lines, local.seen = next.seen, local.vault = next.vault,
                  local.overtaken = next.overtaken, local.mine = (next.mine \ old) \cup {new},
                  local.written = next.written \cup {Import!Key(c) : c \in {new}}
           PROVE  RunWhole(local, contacts, touched)
      <3>1. local.written = next.written \cup {Import!Key(new)}
        BY <2>14
      <3>2. Tidy(local.mine)
        <4>1. IsFiniteSet(local.mine)
          <5>1. IsFiniteSet(next.mine \ old)
            BY <2>12, FS_Subset DEF Tidy
          <5>2. IsFiniteSet((next.mine \ old) \cup {new})
            BY <5>1, FS_AddElement
          <5>. QED  BY <2>14, <5>2
        <4>2. Single(local.mine)
          BY <2>3, <2>6, <2>12, <2>14 DEF Tidy, Single
        <4>3. Housed(new) /\ new.demo \in BOOLEAN /\ ~new.demo
          BY <2>11, <2>12 DEF Housed
        <4>. QED  BY <2>12, <2>14, <4>1, <4>2, <4>3 DEF Tidy
      <3>3. ASSUME NEW c \in Import!Imported(local.seen)
            PROVE  \E d \in Import!Imported(local.mine) : Import!Key(d) = Import!Key(c)
        <4>1. PICK d \in Import!Imported(next.mine) : Import!Key(d) = Import!Key(c)
          BY <2>12, <2>14
        <4>2. new \in Import!Imported(local.mine)
          BY <2>10, <2>11, <2>14 DEF Import!Imported
        <4>3. d \in old \/ d \in Import!Imported(local.mine)
          BY <2>14, <4>1 DEF Import!Imported
        <4>. QED  BY <2>13, <4>1, <4>2, <4>3
      <3>4. \A l : LineKey(local, l) = LineKey(importing[r], l) /\ LineRow(local, l) = LineRow(importing[r], l)
        BY <2>6, <2>14 DEF LineKey, LineRow
      <3>5. Import!Key(new) = LineKey(local, line) /\ new = LineRow(local, line)
        BY <2>11, <2>14 DEF LineKey, LineRow
      <3>6. Entered(local, e)
        <4>1. ASSUME NEW i \in 1 .. k + 1
              PROVE  LineKey(local, e[i]) \in local.written /\ LineRow(local, e[i]) \in local.mine
          <5>1. CASE i = k + 1
            BY <2>9, <2>14, <3>1, <3>5, <5>1
          <5>2. CASE i # k + 1
            <6>1. i \in 1 .. k /\ i \in DOMAIN e /\ k + 1 \in DOMAIN e
              BY <1>5, <2>9, <4>1, <5>2
            <6>2. /\ LineKey(importing[r], e[i]) \in importing[r].written
                  /\ LineRow(importing[r], e[i]) \in importing[r].mine
              BY <2>7, <6>1
            <6>3. e[i].source # line.source
              BY <1>4, <2>9, <5>2, <6>1 DEF Distinct
            <6>4. LineRow(importing[r], e[i]).id = e[i].source
              BY DEF LineRow, Import!Contact
            <6>5. LineRow(importing[r], e[i]) \notin old
              BY <2>13, <6>3, <6>4
            <6>. QED  BY <2>6, <2>14, <3>1, <3>4, <6>2, <6>5
          <5>. QED  BY <5>1, <5>2
        <4>2. ASSUME NEW key \in local.written, key[2] \in Import!Sources
              PROVE  \E i \in 1 .. k + 1 : key = LineKey(local, e[i])
          <5>1. CASE key = Import!Key(new)
            BY <2>9, <3>5, <5>1
          <5>2. CASE key # Import!Key(new)
            <6>1. key \in importing[r].written
              BY <2>6, <3>1, <4>2, <5>2
            <6>2. PICK i \in 1 .. k : key = LineKey(importing[r], e[i])
              BY <2>7, <4>2, <6>1
            <6>3. i \in 1 .. k + 1
              BY <6>2
            <6>. QED  BY <3>4, <6>2, <6>3
          <5>. QED  BY <5>1, <5>2
        <4>3. /\ k + 1 \in 0 .. Len(e) /\ Len(local.lines) = Len(e) - (k + 1)
              /\ \A i \in 1 .. Len(e) - (k + 1) : local.lines[i] = e[(k + 1) + i]
          BY <2>9, <2>14
        <4>. QED  BY <4>1, <4>2, <4>3 DEF Entered
      <3>7. Marked(local)
        <4>1. \A c \in old : ~c.demo
          BY <2>3, <2>6, <2>10, <2>12, <2>13 DEF Tidy
        <4>2. OwnDemos(local.mine, local) = OwnDemos(importing[r].mine, importing[r])
          BY <2>6, <2>11, <2>14, <4>1 DEF OwnDemos, OwnRows, Import!Demos
        <4>3. OwnDemos(local.seen, local) = OwnDemos(importing[r].seen, importing[r])
          BY <2>6, <2>14 DEF OwnDemos
        <4>. QED  BY <2>6, <2>10, <2>11, <2>12, <3>1, <4>2, <4>3 DEF Marked
      <3>. QED  BY <1>4, <2>6, <2>12, <2>14, <3>2, <3>3, <3>6, <3>7 DEF RunWhole
    <2>. QED  BY <1>1, <2>5, <2>6, <2>14, WriteWhole
  <1>. QED  BY <1>6, <1>7

\* What an owner has of an import whose run has counted it are the lines of one export.
LEMMA ImportedAreWritten ==
    ASSUME WholeAssumption, NEW local, Tidy(local.mine), NEW e \in Exports, Entered(local, e),
           Counted(local), NEW c \in Import!Imported(local.mine), c.owner = local.vault.owner
    PROVE  Import!Key(c) \in local.written
  <1>. DEFINE some == Import!Imported(OwnRows(local.mine, local.vault.owner))
              keys == {Import!Key(d) : d \in some}
              entered == {key \in local.written : key[2] \in Import!Sources}
  <1>1. some \subseteq local.mine
    BY DEF Import!Imported, OwnRows
  <1>2. IsFiniteSet(some) /\ Single(some)
    BY <1>1, FS_Subset DEF Tidy, Single
  <1>3. e \in Seq(Lines) /\ Len(e) \in Nat /\ DOMAIN e = 1 .. Len(e)
    BY DEF WholeAssumption, ImportAssumption
  <1>4. ASSUME NEW key \in entered  PROVE key \in keys
    <2>1. PICK i \in 1 .. Len(e) : key = LineKey(local, e[i]) /\ LineRow(local, e[i]) \in local.mine
      <3>1. PICK k \in 0 .. Len(e) :
                /\ Len(local.lines) = Len(e) - k
                /\ \A i \in 1 .. k : /\ LineKey(local, e[i]) \in local.written
                                     /\ LineRow(local, e[i]) \in local.mine
                /\ \A left \in local.written : left[2] \in Import!Sources =>
                      \E i \in 1 .. k : left = LineKey(local, e[i])
        BY DEF Entered
      <3>2. PICK i \in 1 .. k : key = LineKey(local, e[i])
        BY <1>4, <3>1
      <3>3. LineRow(local, e[i]) \in local.mine
        BY <3>1, <3>2
      <3>4. i \in 1 .. Len(e)
        <4>1. Len(e) \in Nat
          BY <1>3
        <4>2. k \in 0 .. Len(e)
          BY <3>1
        <4>3. i \in 1 .. k
          BY <3>2
        <4>. QED  BY <4>1, <4>2, <4>3
      <3>. QED  BY <3>2, <3>3, <3>4
    <2>2. PICK d : d = LineRow(local, e[i])
      OBVIOUS
    <2>3. d.owner = local.vault.owner /\ d.id = e[i].source /\ d.demo = FALSE /\ Import!Key(d) = key
      BY <2>1, <2>2 DEF LineRow, LineKey, Import!Contact, Import!Key
    <2>4. e[i] \in Lines
      BY <1>3
    <2>5. d.id \in Import!Sources
      BY <2>3, <2>4, LineSource
    <2>6. d \in some
      BY <2>1, <2>2, <2>3, <2>5 DEF Import!Imported, OwnRows
    <2>. QED  BY <2>3, <2>6
  <1>5. IsFiniteSet(keys) /\ Cardinality(keys) = Cardinality(some)
    BY <1>2, KeysCounted
  <1>6. Cardinality(some) = Cardinality(entered)
    BY ImportCounts DEF Counted
  <1>7. c \in some
    BY DEF Import!Imported, OwnRows
  <1>8. Import!Key(c) \in keys
    BY <1>7
  <1>. HIDE DEF keys, entered, some
  <1>9. entered \in SUBSET keys
    BY <1>4
  <1>10. entered = keys
    BY <1>5, <1>6, <1>9, FS_Subset
  <1>. QED  BY <1>8, <1>10 DEF entered

\* What it has entered is committed as a whole.
LEMMA CommitWhole ==
    ASSUME WholeAssumption, ImportsInv, WholeInv, NEW r \in ImportRuns, Import!Commit(r)
    PROVE  WholeInv'
  <1>1. touched' = touched /\ importing[r].phase = "commit"
    BY DEF Import!Commit
  <1>2. RunWhole(importing[r], contacts, touched) /\ ImportSound(importing[r], contacts)
    BY DEF WholeInv, ImportsInv
  <1>3. CASE contacts' = contacts /\ importing' = [importing EXCEPT ![r] = Import!Ended]
    BY <1>1, <1>3, EndWhole
  <1>4. ASSUME ~importing[r].overtaken,
               contacts' = {c \in contacts : Import!Key(c) \notin importing[r].written}
                              \cup {c \in importing[r].mine : Import!Key(c) \in importing[r].written},
               importing' = [q \in ImportRuns |-> IF q = r THEN Import!Ended
                                    ELSE IF importing[q].phase \in Import!Open
                                    THEN [importing[q] EXCEPT !.overtaken = TRUE] ELSE importing[q]]
        PROVE  WholeInv'
    <2>1. PICK local : local = importing[r]
      OBVIOUS
    <2>2. /\ Tidy(local.seen) /\ Tidy(local.mine) /\ Kept(local.seen, contacts, touched)
          /\ \A c \in Import!Imported(local.seen) :
                \E d \in Import!Imported(local.mine) : Import!Key(d) = Import!Key(c)
          /\ \A c \in Import!Imported(local.seen) : c.owner = local.vault.owner
          /\ Marked(local) /\ Counted(local)
          /\ \E e \in Exports : Distinct(e) /\ Entered(local, e)
      BY <1>1, <1>2, <1>4, <2>1 DEF RunWhole, Import!Open
    <2>3. PICK e \in Exports : Distinct(e) /\ Entered(local, e)
      BY <2>2
    <2>4. e \in Seq(Lines) /\ Len(e) \in Nat /\ DOMAIN e = 1 .. Len(e)
      BY DEF WholeAssumption, ImportAssumption
    <2>5. /\ \A i \in DOMAIN e : /\ LineKey(local, e[i]) \in local.written
                                 /\ LineRow(local, e[i]) \in local.mine
          /\ \A key \in local.written : key[2] \in Import!Sources =>
                \E i \in DOMAIN e : key = LineKey(local, e[i])
      <3>1. PICK k \in 0 .. Len(e) :
                /\ Len(local.lines) = Len(e) - k
                /\ \A i \in 1 .. k : /\ LineKey(local, e[i]) \in local.written
                                     /\ LineRow(local, e[i]) \in local.mine
                /\ \A key \in local.written : key[2] \in Import!Sources =>
                      \E i \in 1 .. k : key = LineKey(local, e[i])
        BY <2>3 DEF Entered
      <3>2. Len(local.lines) = 0
        BY <2>2 DEF Counted
      <3>3. k = Len(e)
        <4>1. Len(e) \in Nat
          BY <2>4
        <4>2. k \in 0 .. Len(e) /\ Len(e) - k = 0
          BY <3>1, <3>2
        <4>. QED  BY <4>1, <4>2
      <3>4. DOMAIN e = 1 .. k
        BY <2>4, <3>3
      <3>. QED  BY <3>1, <3>4
    <2>6. contacts' = {c \in contacts : Import!Key(c) \notin local.written}
                         \cup {c \in local.mine : Import!Key(c) \in local.written}
      BY <1>4, <2>1
    <2>7. Tidy(contacts')
      <3>1. IsFiniteSet(contacts')
        <4>1. /\ IsFiniteSet({c \in contacts : Import!Key(c) \notin local.written})
              /\ IsFiniteSet({c \in local.mine : Import!Key(c) \in local.written})
          BY <2>2, FS_Subset DEF WholeInv, Tidy
        <4>. QED  BY <2>6, <4>1, FS_Union
      <3>2. Single(contacts')
        BY <2>2, <2>6 DEF WholeInv, Tidy, Single
      <3>. QED  BY <2>2, <2>6, <3>1, <3>2 DEF WholeInv, Tidy

    \* All that is imported then is what this run has entered.
    <2>8. ASSUME NEW c \in Import!Imported(contacts')
          PROVE  \E i \in DOMAIN e : c = LineRow(local, e[i])
      <3>1. CASE Import!Key(c) \in local.written /\ c \in local.mine
        <4>1. Import!Key(c)[2] \in Import!Sources
          BY <2>8 DEF Import!Imported, Import!Key
        <4>2. PICK i \in DOMAIN e : Import!Key(c) = LineKey(local, e[i])
          BY <2>5, <3>1, <4>1
        <4>3. Import!Key(LineRow(local, e[i])) = LineKey(local, e[i])
          BY DEF LineRow, LineKey, Import!Contact, Import!Key
        <4>4. c = LineRow(local, e[i])
          BY <2>2, <2>5, <3>1, <4>2, <4>3 DEF Tidy, Single
        <4>. QED  BY <4>4
      <3>2. CASE Import!Key(c) \notin local.written /\ c \in contacts
        <4>1. c \in Import!Imported(contacts)
          BY <2>8, <3>2 DEF Import!Imported
        <4>2. PICK d \in Import!Imported(local.seen) : Import!Key(d) = Import!Key(c)
          BY <2>2, <4>1 DEF Kept
        <4>3. PICK f \in Import!Imported(local.mine) : Import!Key(f) = Import!Key(d)
          BY <2>2
        <4>4. f.owner = local.vault.owner
          BY <2>2, <4>3 DEF Import!Key
        <4>5. Import!Key(f) \in local.written
          BY <2>2, <2>3, <4>4, ImportedAreWritten
        <4>. QED  BY <3>2, <4>2, <4>3, <4>5
      <3>. QED  BY <2>6, <2>8, <3>1, <3>2 DEF Import!Imported
    <2>9. ASSUME NEW i \in DOMAIN e  PROVE LineRow(local, e[i]) \in Import!Imported(contacts')
      <3>1. PICK d : d = LineRow(local, e[i])
        OBVIOUS
      <3>2. d.id = e[i].source /\ d.demo = FALSE /\ Import!Key(d) = LineKey(local, e[i])
        BY <3>1 DEF LineRow, LineKey, Import!Contact, Import!Key
      <3>3. d.id \in Import!Sources
        BY <2>4, <3>2, LineSource
      <3>4. d \in contacts'
        BY <2>5, <2>6, <3>1, <3>2
      <3>. QED  BY <3>1, <3>2, <3>3, <3>4 DEF Import!Imported
    <2>10. \A i \in DOMAIN e : /\ LineRow(local, e[i]).owner = local.vault.owner
                               /\ LineRow(local, e[i]).id = e[i].source
                               /\ LineRow(local, e[i]).text = e[i].text
      BY DEF LineRow, Import!Contact
    <2>11. \A c, d \in Import!Imported(contacts') : c.owner = d.owner
      BY <2>8, <2>10

    \* The demos of the owner are those it has counted.
    <2>12. ASSUME local.vault.owner \notin touched
           PROVE  Import!Demos(OwnRows(contacts', local.vault.owner)) = OwnDemos(local.mine, local)
      <3>1. \A c \in OwnDemos(local.seen, local) : c \in contacts
        BY <2>2, <2>12 DEF Kept, OwnDemos, OwnRows, Import!Demos
      <3>2. \A c \in contacts : c.demo /\ c.owner = local.vault.owner => c \in OwnDemos(local.seen, local)
        BY <2>2 DEF Kept, OwnDemos, OwnRows, Import!Demos
      <3>3. \A c \in local.mine : c.demo => Import!Key(c)[2] \notin Import!Sources
        BY <2>2 DEF Tidy, Import!Key
      <3>4. CASE /\ \A key \in local.written : key[2] \in Import!Sources
                 /\ OwnDemos(local.mine, local) = OwnDemos(local.seen, local)
        <4>1. ASSUME NEW c \in Import!Demos(OwnRows(contacts', local.vault.owner))
              PROVE  c \in OwnDemos(local.mine, local)
          BY <2>6, <3>2, <3>4, <4>1 DEF OwnDemos, OwnRows, Import!Demos
        <4>2. ASSUME NEW c \in OwnDemos(local.mine, local)
              PROVE  c \in Import!Demos(OwnRows(contacts', local.vault.owner))
          BY <2>6, <3>1, <3>3, <3>4, <4>2 DEF OwnDemos, OwnRows, Import!Demos
        <4>. QED  BY <4>1, <4>2
      <3>5. CASE /\ OwnDemos(local.seen, local) = {}
                 /\ \A c \in OwnDemos(local.mine, local) : Import!Key(c) \in local.written
        <4>1. ASSUME NEW c \in Import!Demos(OwnRows(contacts', local.vault.owner))
              PROVE  c \in OwnDemos(local.mine, local)
          BY <2>6, <3>2, <3>5, <4>1 DEF OwnDemos, OwnRows, Import!Demos
        <4>2. ASSUME NEW c \in OwnDemos(local.mine, local)
              PROVE  c \in Import!Demos(OwnRows(contacts', local.vault.owner))
          BY <2>6, <3>5, <4>2 DEF OwnDemos, OwnRows, Import!Demos
        <4>. QED  BY <4>1, <4>2
      <3>. QED  BY <2>2, <3>4, <3>5 DEF Marked
    <2>13. ASSUME NEW o \in Import!Owners \ touched'  PROVE OfOneExport(OwnRows(contacts', o))
      <3>1. CASE o # local.vault.owner
        <4>1. Import!Imported(OwnRows(contacts', o)) = {}
          BY <2>8, <2>10, <3>1 DEF Import!Imported, OwnRows
        <4>. QED  BY <4>1 DEF OfOneExport
      <3>2. CASE o = local.vault.owner
        <4>1. Import!Cardinality(Import!Demos(OwnRows(contacts', o))) = DemoCount
          BY <1>1, <2>2, <2>12, <2>13, <3>2 DEF Counted
        <4>2. /\ \A c \in Import!Imported(OwnRows(contacts', o)) : \E i \in DOMAIN e : c = LineRow(local, e[i])
              /\ \A i \in DOMAIN e : LineRow(local, e[i]) \in Import!Imported(OwnRows(contacts', o))
          BY <2>8, <2>9, <2>10, <3>2 DEF Import!Imported, OwnRows
        <4>3. {c.id : c \in Import!Imported(OwnRows(contacts', o))} = {e[i].source : i \in DOMAIN e}
          <5>1. ASSUME NEW c \in Import!Imported(OwnRows(contacts', o))
                PROVE  c.id \in {e[i].source : i \in DOMAIN e}
            BY <2>10, <4>2
          <5>2. ASSUME NEW i \in DOMAIN e
                PROVE  e[i].source \in {c.id : c \in Import!Imported(OwnRows(contacts', o))}
            BY <2>10, <4>2
          <5>. QED  BY <5>1, <5>2
        <4>4. \A c \in Import!Imported(OwnRows(contacts', o)), i \in DOMAIN e :
                  c.id = e[i].source => c.text \in {e[i].text, "edited"}
          BY <2>3, <2>10, <4>2 DEF Distinct
        <4>. QED  BY <2>3, <4>1, <4>3, <4>4 DEF OfOneExport
      <3>. QED  BY <3>1, <3>2

    \* Whoever is on the way has been overtaken.
    <2>14. ASSUME NEW q \in ImportRuns  PROVE RunWhole(importing'[q], contacts', touched')
      <3>1. CASE q = r
        <4>1. PICK vault : vault = CHOOSE v \in Vaults : TRUE
          OBVIOUS
        <4>2. Import!Ended.phase = "over"
          BY <4>1 DEF Import!Ended, Import!Waiting
        <4>. QED  BY <1>4, <3>1, <4>2 DEF RunWhole, Import!Open
      <3>2. CASE q # r /\ importing[q].phase \in Import!Open
        <4>1. PICK next : next = [importing[q] EXCEPT !.overtaken = TRUE]
          OBVIOUS
        <4>2. /\ next.phase = importing[q].phase /\ next.lines = importing[q].lines
              /\ next.seen = importing[q].seen /\ next.mine = importing[q].mine
              /\ next.written = importing[q].written /\ next.vault = importing[q].vault
              /\ next.overtaken = TRUE
          BY <4>1 DEF ImportsInv, ImportSound, ImportFields
        <4>3. RunWhole(importing[q], contacts, touched)
          BY DEF WholeInv
        <4>5. \A f : Entered(importing[q], f) => Entered(next, f)
          BY <4>2, EnteredSame
        <4>6. \A some : OwnDemos(some, next) = OwnDemos(some, importing[q])
          BY <4>2 DEF OwnDemos
        <4>7. (Marked(next) <=> Marked(importing[q])) /\ (Counted(next) <=> Counted(importing[q]))
          BY <4>2, <4>6 DEF Marked, Counted
        <4>8. RunWhole(next, contacts', touched')
          BY <4>2, <4>3, <4>5, <4>7 DEF RunWhole
        <4>. QED  BY <1>4, <3>2, <4>1, <4>8
      <3>3. CASE q # r /\ importing[q].phase \notin Import!Open
        BY <1>4, <3>3 DEF RunWhole
      <3>. QED  BY <3>1, <3>2, <3>3
    <2>. QED  BY <2>7, <2>11, <2>13, <2>14, WholeAfter
  <1>. QED  BY <1>3, <1>4 DEF Import!Commit, Import!Go, Import!Serializable

\* Every import keeps what it needs of the contacts, and the contacts are of one export.
LEMMA ImportsStayWhole ==
    ASSUME WholeAssumption
    PROVE  Import!Spec => [](ImportsInv /\ WholeInv)
  <1>. DEFINE Inv == ImportsInv /\ WholeInv
  <1>1. ASSUME Import!Init  PROVE Inv
    <2>1. PICK some \in SUBSET {Import!Contact(n, n.id, FALSE, "own") : n \in Natives} : contacts = some
      BY <1>1 DEF Import!Init
    <2>2. \A c \in contacts : \E n \in Natives :
              c = [owner |-> n.owner, vault |-> n.vault, id |-> n.id, demo |-> FALSE, text |-> "own"]
      BY <2>1 DEF Import!Contact
    <2>3. IsFiniteSet(contacts)
      <3>. DEFINE all == {Import!Contact(n, n.id, FALSE, "own") : n \in Natives}
                  own == [n \in Natives |-> Import!Contact(n, n.id, FALSE, "own")]
      <3>1. own \in Surjection(Natives, all)
        BY DEF Surjection
      <3>2. IsFiniteSet(all)
        BY <3>1, FS_Surjection DEF WholeAssumption
      <3>. HIDE DEF all
      <3>3. contacts \in SUBSET all
        BY <2>1 DEF all
      <3>. QED  BY <3>2, <3>3, FS_Subset
    <2>4. Single(contacts)
      <3>1. ASSUME NEW c \in contacts, NEW d \in contacts, Import!Key(c) = Import!Key(d)
            PROVE  c = d
        <4>1. PICK m \in Natives :
                  c = [owner |-> m.owner, vault |-> m.vault, id |-> m.id, demo |-> FALSE, text |-> "own"]
          BY <2>2
        <4>2. PICK n \in Natives :
                  d = [owner |-> n.owner, vault |-> n.vault, id |-> n.id, demo |-> FALSE, text |-> "own"]
          BY <2>2
        <4>3. m.owner = n.owner /\ m.id = n.id
          BY <3>1, <4>1, <4>2 DEF Import!Key
        <4>. QED  BY <4>1, <4>2, <4>3 DEF WholeAssumption
      <3>. QED  BY <3>1 DEF Single
    <2>5. \A c \in contacts : /\ Housed(c) /\ c.demo = FALSE
                              /\ c.id \notin Import!Sources
      BY <2>2 DEF Housed, WholeAssumption, ImportAssumption
    <2>6. Tidy(contacts)
      BY <2>3, <2>4, <2>5 DEF Tidy
    <2>7. Import!Imported(contacts) = {} /\ \A o : Import!Imported(OwnRows(contacts, o)) = {}
      BY <2>5 DEF Import!Imported, OwnRows
    <2>8. ASSUME NEW r \in ImportRuns  PROVE RunWhole(importing[r], contacts, touched)
      <3>1. PICK vault : vault = CHOOSE v \in Vaults : TRUE
        OBVIOUS
      <3>2. Import!Waiting.phase = "idle"
        BY <3>1 DEF Import!Waiting
      <3>3. importing[r].phase = "idle"
        BY <1>1, <3>2 DEF Import!Init
      <3>. QED  BY <3>3 DEF RunWhole, Import!Open
    <2>9. WholeInv
      BY <2>6, <2>7, <2>8 DEF WholeInv, OfOneExport
    <2>. QED  BY <1>1, <2>9, ImportsStart
  <1>2. ASSUME Inv, [Import!Next]_(Import!importVars)  PROVE Inv'
    <2>1. ImportsInv'
      BY <1>2, ImportsStep DEF WholeAssumption
    <2>2. CASE UNCHANGED Import!importVars
      <3>1. \A r \in ImportRuns : RunWhole(importing'[r], contacts', touched')
        BY <1>2, <2>2 DEF WholeInv, Import!importVars
      <3>2. /\ Tidy(contacts')
            /\ \A c, d \in Import!Imported(contacts') : c.owner = d.owner
            /\ \A o \in Import!Owners \ touched' : OfOneExport(OwnRows(contacts', o))
        BY <1>2, <2>2 DEF WholeInv, Import!importVars
      <3>. QED  BY <2>1, <3>1, <3>2, WholeAfter
    <2>3. CASE Import!Next
      <3>1. ASSUME NEW r \in ImportRuns, Import!Fail(r)  PROVE WholeInv'
        BY <1>2, <3>1, EndWhole DEF Import!Fail, Import!Go
      <3>2. WholeInv'
        BY <1>2, <2>3, <3>1, AddWhole, EditWhole, DeleteWhole, BeginWhole, SelectWhole,
           PrepareWhole, UpsertWhole, CommitWhole DEF Import!Next
      <3>. QED  BY <2>1, <3>2
    <2>. QED  BY <1>2, <2>2, <2>3
  <1>. HIDE DEF Inv
  <1>3. Import!Spec => []Inv
    BY <1>1, <1>2, PTL DEF Import!Spec
  <1>. QED  BY <1>3 DEF Inv

\* Whatever failed, was killed or cut off, or went on at the same time: what an owner has of an
\* import are the contacts of one export, all of them, with as many demos as there must be, unless
\* the owner deleted some; and only one owner has any (parseMonicaExport, selectOwnerVault,
\* prepareDemoBaseline, upsertContact and assertFinalCounts of cli/monica-import.ts).
THEOREM ImportIsOfOneExport ==
    ASSUME WholeAssumption
    PROVE  Import!Spec => []Import!ImportIsWhole
  <1>1. ImportsInv /\ WholeInv => Import!ImportIsWhole
    BY WholeFollows
  <1>. QED  BY <1>1, ImportsStayWhole, PTL

\* One import at a time has the lock.
ImportsAlone ==
    \A q, r \in ImportRuns : importing[q].phase \in Import!Locked /\ importing[r].phase \in Import!Locked => q = r

\* Keys are unique, demos are no lines of an export, and one import at a time has the lock
\* (acquireImportLock).
THEOREM ImportTypes ==
    ASSUME WholeAssumption
    PROVE  Import!Spec => []Import!TypeOK
  <1>. DEFINE Inv == ImportsAlone /\ touched \subseteq Import!Owners
  <1>1. Import!Init => Inv
    <2>1. PICK vault : vault = CHOOSE v \in Vaults : TRUE
      OBVIOUS
    <2>2. Import!Waiting.phase = "idle"
      BY <2>1 DEF Import!Waiting
    <2>. QED  BY <2>2 DEF Import!Init, ImportsAlone, Import!Locked, Import!Open
  <1>2. ASSUME ImportsInv, WholeInv, Inv, [Import!Next]_(Import!importVars)  PROVE Inv'
    <2>1. DOMAIN importing = ImportRuns /\ \A r \in ImportRuns : DOMAIN importing[r] = ImportFields
      BY <1>2 DEF ImportsInv, ImportSound
    <2>2. Import!Ended.phase = "over" /\ "over" \notin Import!Locked
      BY ImportEnded DEF ImportSound, Import!Locked, Import!Open, Import!Ended, Import!Waiting, ImportFields
    <2>3. ASSUME UNCHANGED importing  PROVE ImportsAlone'
      BY <1>2, <2>3 DEF ImportsAlone
    <2>4. ASSUME NEW r \in ImportRuns, NEW next, importing' = [importing EXCEPT ![r] = next],
                 next.phase \in Import!Locked =>
                     \/ importing[r].phase \in Import!Locked
                     \/ \A q \in ImportRuns : importing[q].phase \notin Import!Locked
          PROVE  ImportsAlone'
      <3>1. importing'[r] = next /\ \A q \in ImportRuns \ {r} : importing'[q] = importing[q]
        BY <2>1, <2>4
      <3>. QED  BY <1>2, <2>4, <3>1 DEF ImportsAlone
    <2>5. ASSUME NEW n \in Natives, Import!Add(n)  PROVE Inv'
      BY <1>2, <2>3, <2>5 DEF Import!Add
    <2>6. ASSUME NEW c \in contacts, Import!Edit(c)  PROVE Inv'
      BY <1>2, <2>3, <2>6 DEF Import!Edit
    <2>7. ASSUME NEW c \in contacts, Import!Delete(c)  PROVE Inv'
      <3>1. c.owner \in Import!Owners
        BY <1>2 DEF WholeInv, Tidy, Housed, Import!Owners
      <3>2. touched' \subseteq Import!Owners
        BY <1>2, <2>7, <3>1 DEF Import!Delete
      <3>. QED  BY <2>3, <2>7, <3>2 DEF Import!Delete
    <2>8. ASSUME NEW r \in ImportRuns, NEW stream, NEW expected, Import!Begin(r, stream, expected)
          PROVE  Inv'
      <3>1. PICK next : /\ importing' = [importing EXCEPT ![r] = next]
                        /\ next = IF ~Import!Parsed(stream, expected) THEN Import!Ended
                                  ELSE [importing[r] EXCEPT !.phase = "lock", !.lines = stream.lines,
                                                            !.seen = contacts, !.mine = contacts]
        BY <2>8 DEF Import!Begin
      <3>2. next.phase \in {"over", "lock"}
        BY <2>1, <2>2, <3>1 DEF ImportFields
      <3>3. next.phase \notin Import!Locked
        BY <3>2 DEF Import!Locked, Import!Open
      <3>. QED  BY <1>2, <2>4, <2>8, <3>1, <3>3 DEF Import!Begin
    <2>9. ASSUME NEW r \in ImportRuns, Import!SelectOwnerVault(r)  PROVE Inv'
      <3>1. PICK next : importing' = [importing EXCEPT ![r] = next]
        BY <2>9 DEF Import!SelectOwnerVault, Import!Go
      <3>2. \A q \in ImportRuns : importing[q].phase \notin Import!Locked
        BY <2>9 DEF Import!SelectOwnerVault
      <3>. QED  BY <1>2, <2>4, <2>9, <3>1, <3>2 DEF Import!SelectOwnerVault
    <2>10. ASSUME NEW r \in ImportRuns, Import!PrepareDemoBaseline(r) \/ Import!UpsertContact(r)  PROVE Inv'
      <3>1. importing[r].phase \in Import!Locked
        BY <2>10 DEF Import!PrepareDemoBaseline, Import!UpsertContact, Import!Locked, Import!Open
      <3>2. \E next : importing' = [importing EXCEPT ![r] = next]
        BY <2>10 DEF Import!PrepareDemoBaseline, Import!UpsertContact, Import!Go, Import!Write
      <3>. QED  BY <1>2, <2>4, <2>10, <3>1, <3>2 DEF Import!PrepareDemoBaseline, Import!UpsertContact
    <2>11. ASSUME NEW r \in ImportRuns, Import!Commit(r)  PROVE Inv'
      <3>1. CASE importing' = [importing EXCEPT ![r] = Import!Ended]
        BY <1>2, <2>2, <2>4, <2>11, <3>1 DEF Import!Commit
      <3>2. CASE importing' = [q \in ImportRuns |-> IF q = r THEN Import!Ended
                                    ELSE IF importing[q].phase \in Import!Open
                                    THEN [importing[q] EXCEPT !.overtaken = TRUE] ELSE importing[q]]
        <4>1. ASSUME NEW q \in ImportRuns  PROVE importing'[q].phase \in {"over", importing[q].phase}
          <5>1. [importing[q] EXCEPT !.overtaken = TRUE].phase = importing[q].phase
            BY <2>1 DEF ImportFields
          <5>. QED  BY <2>2, <3>2, <5>1
        <4>. QED  BY <1>2, <2>2, <2>11, <4>1 DEF Import!Commit, ImportsAlone
      <3>. QED  BY <2>11, <3>1, <3>2 DEF Import!Commit, Import!Go
    <2>12. ASSUME NEW r \in ImportRuns, Import!Fail(r)  PROVE Inv'
      BY <1>2, <2>2, <2>4, <2>12 DEF Import!Fail, Import!Go
    <2>13. CASE UNCHANGED Import!importVars
      BY <1>2, <2>3, <2>13 DEF Import!importVars
    <2>. QED  BY <1>2, <2>5, <2>6, <2>7, <2>8, <2>9, <2>10, <2>11, <2>12, <2>13 DEF Import!Next
  <1>3. ASSUME WholeInv, Inv  PROVE Import!TypeOK
    <2>1. /\ \A c, d \in contacts : Import!Key(c) = Import!Key(d) => c = d
          /\ \A c \in Import!Demos(contacts) : c.id \notin Import!Sources
      BY <1>3 DEF WholeInv, Tidy, Single, Import!Demos
    <2>2. PICK locked : locked = {r \in ImportRuns : importing[r].phase \in Import!Locked}
      OBVIOUS
    <2>3. locked = {} \/ \E r : locked = {r}
      BY <1>3, <2>2 DEF ImportsAlone
    <2>4. Cardinality(locked) <= 1
      <3>1. CASE locked = {}
        BY <3>1, FS_EmptySet
      <3>2. CASE \E r : locked = {r}
        <4>1. \A r : Cardinality({r}) = 1
          BY FS_Singleton
        <4>. QED  BY <3>2, <4>1
      <3>. QED  BY <2>3, <3>1, <3>2
    <2>5. Import!Cardinality(locked) <= 1
      BY <2>4, ImportCounts
    <2>. QED  BY <1>3, <2>1, <2>2, <2>5 DEF Import!TypeOK
  <1>. HIDE DEF Inv
  <1>. QED  BY <1>1, <1>2, <1>3, ImportsStayWhole, PTL DEF Import!Spec

-----------------------------------------------------------------------------
(* Places in an order: of a finite set, the first has none below it, and   *)
(* every number up to the size of the set is the place of one of it.       *)

\* In a strict order of all of a set, elements have places.
LEMMA Places ==
    ASSUME NEW S, IsFiniteSet(S), NEW below \in [S -> SUBSET S],
           \A s \in S : s \notin below[s],
           \A r, s \in S : r # s => r \in below[s] \/ s \in below[r],
           \A r, s \in S : r \in below[s] => below[r] \subseteq below[s]
    PROVE  /\ \A s \in S : /\ IsFiniteSet(below[s])
                           /\ Cardinality(below[s]) \in 0 .. Cardinality(S) - 1
           /\ \A r, s \in S : r \in below[s] <=> Cardinality(below[r]) < Cardinality(below[s])
           /\ \A n \in 0 .. Cardinality(S) - 1 : \E s \in S : Cardinality(below[s]) = n
  <1>1. Cardinality(S) \in Nat
    BY FS_CardinalityType
  <1>2. ASSUME NEW s \in S
        PROVE  /\ IsFiniteSet(below[s])
               /\ Cardinality(below[s]) \in Nat
               /\ Cardinality(below[s]) \in 0 .. Cardinality(S) - 1
    <2>1. below[s] \in SUBSET S /\ IsFiniteSet(below[s])
      BY FS_Subset
    <2>2. Cardinality(below[s]) \in Nat /\ Cardinality(below[s]) <= Cardinality(S)
      BY <2>1, FS_Subset, FS_CardinalityType
    <2>3. Cardinality(below[s]) # Cardinality(S)
      BY <2>1, FS_Subset
    <2>. QED  BY <1>1, <2>1, <2>2, <2>3
  <1>3. ASSUME NEW r \in S, NEW s \in S, r \in below[s]
        PROVE  Cardinality(below[r]) < Cardinality(below[s])
    <2>1. below[r] \in SUBSET below[s] /\ below[r] # below[s]
      BY <1>3
    <2>2. /\ Cardinality(below[r]) <= Cardinality(below[s])
          /\ Cardinality(below[r]) # Cardinality(below[s])
      BY <1>2, <2>1, FS_Subset
    <2>. QED  BY <1>2, <2>2
  <1>4. ASSUME NEW r \in S, NEW s \in S, Cardinality(below[r]) < Cardinality(below[s])
        PROVE  r \in below[s]
    <2>1. CASE s \in below[r]
      BY <1>2, <1>3, <1>4, <2>1
    <2>2. r # s
      BY <1>2, <1>4
    <2>. QED  BY <2>1, <2>2
  <1>5. ASSUME NEW n \in 0 .. Cardinality(S) - 1  PROVE \E s \in S : Cardinality(below[s]) = n
    <2>. DEFINE rank == [s \in S |-> Cardinality(below[s])]
                ranks == 0 .. Cardinality(S) - 1
    <2>1. rank \in [S -> ranks]
      BY <1>2
    <2>2. \A r, s \in S : rank[r] = rank[s] => r = s
      BY <1>2, <1>3
    <2>3. rank \in Injection(S, ranks)
      BY <2>1, <2>2 DEF Injection, IsInjective
    <2>4. IsFiniteSet(ranks) /\ Cardinality(ranks) = Cardinality(S)
      BY <1>1, FS_Interval
    <2>5. rank \in Surjection(S, ranks)
      BY <2>3, <2>4, FS_Injection
    <2>6. \E s \in S : rank[s] = n
      BY <2>5 DEF Surjection
    <2>. QED  BY <2>6
  <1>. QED  BY <1>2, <1>3, <1>4, <1>5

-----------------------------------------------------------------------------
(* Pages of the catalogue.  Every listing that has been there all along    *)
(* has been shown if the cursor is at or past it, and nothing past the     *)
(* cursor has: a page ends with the last that it shows, and leaves none    *)
(* out on the way to it.                                                   *)
CONSTANTS Slugs, LeafSize
VARIABLES posted, followed, leaf
Catalog == INSTANCE EventCatalog WITH listed <- posted, page <- leaf, PageSize <- LeafSize

CatalogAssumption == IsFiniteSet(Slugs) /\ Slugs \subseteq Nat \ {0} /\ LeafSize \in Nat \ {0}

Filters == {"any", "followed", "unfollowed"}

PagesInv ==
    /\ Catalog!TypeOK
    /\ leaf.twice = {}
    /\ leaf.lasting \subseteq Catalog!Matching(leaf.filter, posted, followed)
    /\ leaf.more => /\ \A s \in leaf.shown : s <= leaf.cursor
                    /\ \A s \in leaf.lasting : s <= leaf.cursor => s \in leaf.shown
    /\ ~leaf.more => leaf.lasting \subseteq leaf.shown

\* A page is the start of what is left, and ends with the last of it that it shows.
LEMMA PageIsStart ==
    ASSUME CatalogAssumption, NEW rest \in SUBSET Slugs
    PROVE  LET more == Catalog!Cardinality(rest) > LeafSize
               items == {s \in rest : Catalog!Cardinality({r \in rest : r < s}) < LeafSize}
           IN /\ more => \E s \in items : /\ \A r \in items : r <= s
                                          /\ \A r \in rest : r <= s => r \in items
              /\ ~more => items = rest
  <1>. DEFINE below == [s \in rest |-> {r \in rest : r < s}]
  <1>1. \A some : Catalog!Cardinality(some) = Cardinality(some)
    BY DEF Catalog!Cardinality, Cardinality
  <1>2. IsFiniteSet(rest) /\ rest \subseteq Nat /\ LeafSize \in Nat \ {0}
    BY FS_Subset DEF CatalogAssumption
  <1>3. Cardinality(rest) \in Nat
    BY <1>2, FS_CardinalityType
  <1>4. /\ below \in [rest -> SUBSET rest]
        /\ \A s \in rest : s \notin below[s]
        /\ \A r, s \in rest : r # s => r \in below[s] \/ s \in below[r]
        /\ \A r, s \in rest : r \in below[s] => below[r] \subseteq below[s]
    <2>1. below \in [rest -> SUBSET rest]
      OBVIOUS
    <2>2. \A s \in rest : below[s] = {r \in rest : r < s}
      OBVIOUS
    <2>3. \A r, s, t \in rest : ~(s < s) /\ (r # s => r < s \/ s < r) /\ (r < s /\ s < t => r < t)
      BY <1>2
    <2>. HIDE DEF below
    <2>4. \A r, s \in rest : r # s => r \in below[s] \/ s \in below[r]
      BY <2>2, <2>3
    <2>5. \A r, s \in rest : r \in below[s] => below[r] \subseteq below[s]
      BY <2>2, <2>3
    <2>. QED  BY <2>1, <2>2, <2>3, <2>4, <2>5
  <1>. HIDE DEF below
  <1>5. /\ \A s \in rest : Cardinality(below[s]) \in 0 .. Cardinality(rest) - 1
        /\ \A r, s \in rest : r \in below[s] <=> Cardinality(below[r]) < Cardinality(below[s])
        /\ \A n \in 0 .. Cardinality(rest) - 1 : \E s \in rest : Cardinality(below[s]) = n
    BY <1>2, <1>4, Places
  <1>6. \A s \in rest : Catalog!Cardinality({r \in rest : r < s}) = Cardinality(below[s])
    BY <1>1 DEF below
  <1>7. \A r, s \in rest : r \in below[s] <=> r < s
    BY DEF below
  <1>8. ASSUME Cardinality(rest) > LeafSize
        PROVE  \E s \in rest : /\ Cardinality(below[s]) < LeafSize
                               /\ \A r \in rest : Cardinality(below[r]) < LeafSize => r <= s
                               /\ \A r \in rest : r <= s => Cardinality(below[r]) < LeafSize
    <2>1. LeafSize - 1 \in 0 .. Cardinality(rest) - 1
      BY <1>2, <1>3, <1>8
    <2>2. PICK s \in rest : Cardinality(below[s]) = LeafSize - 1
      BY <1>5, <2>1
    <2>3. ASSUME NEW r \in rest, Cardinality(below[r]) < LeafSize  PROVE r <= s
      <3>1. ~(Cardinality(below[s]) < Cardinality(below[r]))
        BY <1>2, <1>3, <1>5, <2>2, <2>3
      <3>2. ~(s < r)
        BY <1>5, <1>7, <3>1
      <3>. QED  BY <1>2, <3>2
    <2>4. ASSUME NEW r \in rest, r <= s  PROVE Cardinality(below[r]) < LeafSize
      <3>1. ~(s < r)
        BY <1>2, <2>4
      <3>2. ~(Cardinality(below[s]) < Cardinality(below[r]))
        BY <1>5, <1>7, <3>1
      <3>. QED  BY <1>2, <1>3, <1>5, <2>2, <3>2
    <2>. QED  BY <1>2, <2>2, <2>3, <2>4
  <1>9. ASSUME ~(Cardinality(rest) > LeafSize), NEW s \in rest  PROVE Cardinality(below[s]) < LeafSize
    BY <1>2, <1>3, <1>5, <1>9
  <1>. QED  BY <1>1, <1>6, <1>8, <1>9

\* What has been there all along stays that, or is less.
LEMMA LastingShrinks ==
    ASSUME PagesInv, leaf' = Catalog!Lasting(posted', followed'),
           posted' \in SUBSET Slugs, followed' \in [Slugs -> {"none", "active", "paused"}]
    PROVE  PagesInv'
  <1>1. leaf \in [filter : Filters, cursor : Slugs \cup {0}, more : BOOLEAN,
                  shown : SUBSET Slugs, twice : SUBSET Slugs, lasting : SUBSET Slugs]
    BY DEF PagesInv, Catalog!TypeOK, Filters
  <1>2. /\ leaf'.filter = leaf.filter /\ leaf'.cursor = leaf.cursor /\ leaf'.more = leaf.more
        /\ leaf'.shown = leaf.shown /\ leaf'.twice = leaf.twice
        /\ leaf'.lasting = leaf.lasting \cap Catalog!Matching(leaf.filter, posted', followed')
        /\ leaf' \in [filter : Filters, cursor : Slugs \cup {0}, more : BOOLEAN,
                      shown : SUBSET Slugs, twice : SUBSET Slugs, lasting : SUBSET Slugs]
    BY <1>1 DEF Catalog!Lasting
  <1>3. Catalog!TypeOK'
    BY <1>2 DEF Catalog!TypeOK, Filters
  <1>. QED  BY <1>2, <1>3 DEF PagesInv, Catalog!Matching

\* A walk begins with nothing shown.
LEMMA WalkStarts ==
    ASSUME CatalogAssumption, NEW filter \in Filters, leaf' = Catalog!Walk(filter),
           posted' = posted, followed' = followed,
           posted \in SUBSET Slugs, followed \in [Slugs -> {"none", "active", "paused"}]
    PROVE  PagesInv'
  <1>1. /\ leaf'.filter = filter /\ leaf'.cursor = 0 /\ leaf'.more = TRUE
        /\ leaf'.shown = {} /\ leaf'.twice = {}
        /\ leaf'.lasting = Catalog!Matching(filter, posted, followed)
        /\ leaf' \in [filter : Filters, cursor : Slugs \cup {0}, more : BOOLEAN,
                      shown : SUBSET Slugs, twice : SUBSET Slugs, lasting : SUBSET Slugs]
    BY DEF Catalog!Walk, Catalog!Matching
  <1>2. Catalog!TypeOK'
    BY <1>1 DEF Catalog!TypeOK, Filters
  <1>3. \A s \in leaf'.lasting : ~(s <= 0)
    BY <1>1 DEF CatalogAssumption, Catalog!Matching
  <1>. QED  BY <1>1, <1>2, <1>3 DEF PagesInv, Catalog!Matching

\* The next page goes on where the last one ended.
LEMMA PageGoesOn ==
    ASSUME CatalogAssumption, PagesInv, Catalog!NextPage
    PROVE  PagesInv'
  <1>. DEFINE rest == {s \in Catalog!Matching(leaf.filter, posted, followed) : Catalog!After(leaf.cursor, s)}
              more == Catalog!Cardinality(rest) > LeafSize
              items == {s \in rest : Catalog!Cardinality({r \in rest : r < s}) < LeafSize}
  <1>1. leaf \in [filter : Filters, cursor : Slugs \cup {0}, more : BOOLEAN,
                  shown : SUBSET Slugs, twice : SUBSET Slugs, lasting : SUBSET Slugs]
        /\ posted \in SUBSET Slugs /\ leaf.more
    BY DEF PagesInv, Catalog!TypeOK, Filters, Catalog!NextPage
  <1>2. rest \in SUBSET Slugs /\ Slugs \subseteq Nat \ {0} /\ leaf.cursor \in Nat
    <2>1. Slugs \subseteq Nat \ {0}
      BY DEF CatalogAssumption
    <2>2. leaf.cursor \in Slugs \cup {0}
      BY <1>1
    <2>3. rest \subseteq posted
      BY DEF Catalog!Matching
    <2>4. leaf.cursor \in Nat
      <3>1. \A s \in Slugs : s \in Nat
        BY <2>1
      <3>2. leaf.cursor \in Slugs \/ leaf.cursor = 0
        BY <2>2
      <3>. HIDE DEF rest
      <3>. QED  BY <3>1, <3>2
    <2>. HIDE DEF rest
    <2>. QED  BY <1>1, <2>1, <2>3, <2>4
  <1>3. \A s \in rest : leaf.cursor < s
    BY DEF Catalog!After
  <1>4. \A s \in leaf.lasting : s <= leaf.cursor \/ s \in rest
    BY <1>1, <1>2 DEF PagesInv, Catalog!After
  <1>5. /\ more => \E s \in items : /\ \A r \in items : r <= s
                                    /\ \A r \in rest : r <= s => r \in items
        /\ ~more => items = rest
    BY <1>2, PageIsStart
  <1>6. /\ items \subseteq rest /\ posted' = posted /\ followed' = followed /\ more \in BOOLEAN
        /\ leaf' = [leaf EXCEPT !.shown = @ \cup items, !.twice = @ \cup (items \cap leaf.shown),
                       !.more = more,
                       !.cursor = IF more THEN CHOOSE s \in items : \A r \in items : r <= s ELSE @]
    BY DEF Catalog!NextPage
  <1>. HIDE DEF items, more, rest
  <1>7. items \cap leaf.shown = {}
    BY <1>1, <1>2, <1>3, <1>6 DEF PagesInv
  <1>8. leaf.twice = {} /\ leaf.shown \in SUBSET Slugs
    BY <1>1 DEF PagesInv
  <1>9. PICK end : end = IF more THEN CHOOSE s \in items : \A r \in items : r <= s ELSE leaf.cursor
    OBVIOUS
  <1>10. /\ leaf'.filter = leaf.filter /\ leaf'.cursor = end /\ leaf'.more = more
         /\ leaf'.shown = leaf.shown \cup items /\ leaf'.twice = {}
         /\ leaf'.lasting = leaf.lasting
    BY <1>1, <1>6, <1>7, <1>8, <1>9
  <1>11. CASE more
    <2>1. /\ end \in items /\ \A r \in items : r <= end
          /\ \A r \in rest : r <= end => r \in items
      <3>1. PICK s \in items : (\A r \in items : r <= s) /\ (\A r \in rest : r <= s => r \in items)
        BY <1>5, <1>11
      <3>2. end \in items /\ \A r \in items : r <= end
        BY <1>9, <1>11, <3>1
      <3>3. end = s
        BY <1>2, <1>6, <3>1, <3>2
      <3>. QED  BY <3>1, <3>2, <3>3
    <2>2. end \in Slugs /\ end \in Nat /\ leaf.cursor < end
      BY <1>2, <1>3, <1>6, <2>1
    <2>3. \A s \in leaf'.shown : s <= leaf'.cursor
      <3>1. \A s \in leaf.shown : s \in Nat /\ s <= leaf.cursor
        BY <1>1, <1>2, <1>8 DEF PagesInv
      <3>2. \A s \in leaf.shown : s <= end
        BY <1>2, <2>2, <3>1
      <3>. QED  BY <1>10, <2>1, <3>2
    <2>4. \A s \in leaf'.lasting : s <= leaf'.cursor => s \in leaf'.shown
      BY <1>1, <1>4, <1>10, <2>1 DEF PagesInv
    <2>5. leaf' \in [filter : Filters, cursor : Slugs \cup {0}, more : BOOLEAN,
                     shown : SUBSET Slugs, twice : SUBSET Slugs, lasting : SUBSET Slugs]
      BY <1>1, <1>2, <1>6, <1>7, <1>8, <1>9, <2>2
    <2>6. Catalog!TypeOK'
      BY <1>6, <2>5 DEF PagesInv, Catalog!TypeOK, Filters
    <2>7. leaf'.lasting \subseteq Catalog!Matching(leaf'.filter, posted', followed')
      BY <1>6, <1>10 DEF PagesInv
    <2>. QED  BY <1>10, <1>11, <2>3, <2>4, <2>6, <2>7 DEF PagesInv, Catalog!Matching
  <1>12. CASE ~more
    <2>1. leaf'.lasting \subseteq leaf'.shown
      BY <1>1, <1>4, <1>5, <1>10, <1>12 DEF PagesInv
    <2>2. leaf' \in [filter : Filters, cursor : Slugs \cup {0}, more : BOOLEAN,
                     shown : SUBSET Slugs, twice : SUBSET Slugs, lasting : SUBSET Slugs]
      BY <1>1, <1>2, <1>6, <1>7, <1>8, <1>9, <1>12
    <2>3. Catalog!TypeOK'
      BY <1>6, <2>2 DEF PagesInv, Catalog!TypeOK, Filters
    <2>4. leaf'.lasting \subseteq Catalog!Matching(leaf'.filter, posted', followed')
      BY <1>6, <1>10 DEF PagesInv
    <2>. QED  BY <1>10, <1>12, <2>1, <2>3, <2>4 DEF PagesInv, Catalog!Matching
  <1>. QED  BY <1>11, <1>12

\* Who reads the catalogue to the last page has seen once everything that was there all the while,
\* whatever is listed and followed meanwhile (search of event-catalog.service.ts).
THEOREM CatalogIsCovered ==
    ASSUME CatalogAssumption
    PROVE  Catalog!Init /\ [][Catalog!Next]_(Catalog!catalogVars)
              => [](Catalog!TypeOK /\ Catalog!PagesCoverListing)
  <1>1. Catalog!Init => PagesInv
    <2>1. SUFFICES ASSUME Catalog!Init  PROVE PagesInv
      OBVIOUS
    <2>2. /\ leaf.filter = "any" /\ leaf.cursor = 0 /\ leaf.more = TRUE
          /\ leaf.shown = {} /\ leaf.twice = {}
          /\ leaf.lasting = Catalog!Matching("any", posted, followed)
          /\ posted \in SUBSET Slugs
          /\ followed \in [Slugs -> {"none", "active", "paused"}]
          /\ leaf \in [filter : Filters, cursor : Slugs \cup {0}, more : BOOLEAN,
                       shown : SUBSET Slugs, twice : SUBSET Slugs, lasting : SUBSET Slugs]
      BY <2>1 DEF Catalog!Init, Catalog!Walk, Catalog!Matching, Filters
    <2>3. \A s \in leaf.lasting : ~(s <= 0)
      BY <2>2 DEF CatalogAssumption, Catalog!Matching
    <2>. QED  BY <2>2, <2>3 DEF PagesInv, Catalog!TypeOK, Filters
  <1>2. PagesInv /\ [Catalog!Next]_(Catalog!catalogVars) => PagesInv'
    <2>1. SUFFICES ASSUME PagesInv, [Catalog!Next]_(Catalog!catalogVars)  PROVE PagesInv'
      OBVIOUS
    <2>2. posted \in SUBSET Slugs /\ followed \in [Slugs -> {"none", "active", "paused"}]
      BY <2>1 DEF PagesInv, Catalog!TypeOK
    <2>3. CASE Catalog!Reseed
      <3>1. posted' \in SUBSET Slugs /\ followed' = followed
            /\ leaf' = Catalog!Lasting(posted', followed')
        BY <2>2, <2>3 DEF Catalog!Reseed
      <3>. QED  BY <2>1, <2>2, <3>1, LastingShrinks
    <2>4. ASSUME NEW s \in Slugs, NEW status \in {"active", "paused"}, Catalog!Follow(s, status)
          PROVE  PagesInv'
      <3>1. /\ posted' = posted /\ followed' = [followed EXCEPT ![s] = status]
            /\ leaf' = Catalog!Lasting(posted', followed')
        BY <2>4 DEF Catalog!Follow
      <3>2. followed' \in [Slugs -> {"none", "active", "paused"}]
        BY <2>2, <3>1
      <3>. QED  BY <2>1, <2>2, <3>1, <3>2, LastingShrinks
    <2>5. ASSUME NEW filter \in Filters, Catalog!StartWalk(filter)  PROVE PagesInv'
      BY <2>2, <2>5, WalkStarts DEF Catalog!StartWalk
    <2>6. CASE Catalog!NextPage
      BY <2>1, <2>6, PageGoesOn
    <2>7. CASE UNCHANGED Catalog!catalogVars
      BY <2>1, <2>7 DEF PagesInv, Catalog!catalogVars, Catalog!TypeOK, Catalog!Matching
    <2>. QED  BY <2>1, <2>3, <2>4, <2>5, <2>6, <2>7 DEF Catalog!Next, Filters
  <1>3. PagesInv => Catalog!TypeOK /\ Catalog!PagesCoverListing
    BY DEF PagesInv, Catalog!PagesCoverListing
  <1>. QED  BY <1>1, <1>2, <1>3, PTL

-----------------------------------------------------------------------------
(* Days to be reminded of.  An attachment is to a celebration that has a   *)
(* date, whatever was deleted while it was made; and a date that is past   *)
(* in this year falls on a day from now on in the next.                    *)
CONSTANTS KeepingContacts, System, OwnersDays, YearDays, LeapDay, Dates, ReminderWindow, MaxListed,
          MaxToday
VARIABLES celebration, attachment, attaching, telling, today
Days == INSTANCE Celebrations WITH Contacts <- KeepingContacts, Own <- OwnersDays

DaysAssumption ==
    /\ KeepingContacts # {} /\ System \cup OwnersDays # {}
    /\ YearDays \in Nat \ {0} /\ ReminderWindow \in Nat
    /\ Dates \subseteq [kind : {"fixed", "lunar", "full"}, day : Nat]

DaysInv ==
    /\ Days!TypeOK
    /\ \A p \in Days!Pairs : attachment[p] # Days!Unattached => celebration[p[2]] # Days!None

\* A date of each year or moon's year is not before its year, and a year ends after now.
LEMMA DayIsOfYear ==
    ASSUME DaysAssumption, NEW date \in Dates, date.kind # "full", NEW now \in Nat
    PROVE  /\ Days!Year(now) \in Nat
           /\ now < 2 * ((Days!Year(now) + 1) * YearDays)
           /\ \A y \in Nat : \A d \in Days!Gregorian(date, y) : d \in Int /\ 2 * (y * YearDays) <= d
  <1>1. YearDays \in Nat /\ YearDays > 0 /\ date.day \in Nat /\ date.kind \in {"fixed", "lunar"}
    BY DEF DaysAssumption
  <1>2. PICK y : y = Days!Year(now)
    OBVIOUS
  <1>3. /\ y \in Nat /\ now < 2 * ((y + 1) * YearDays)
    <2>1. PICK n \in Nat : n = 2 * YearDays /\ n > 0
      BY <1>1
    <2>2. y = now \div n
      BY <1>2, <2>1 DEF Days!Year
    <2>3. y \in Nat /\ now < (y + 1) * n
      BY <2>1, <2>2
    <2>4. (y + 1) * n = 2 * ((y + 1) * YearDays)
      BY <1>1, <2>1, <2>3
    <2>. QED  BY <2>3, <2>4
  <1>4. ASSUME NEW year \in Nat, NEW d \in Days!Gregorian(date, year)
        PROVE  d \in Int /\ 2 * (year * YearDays) <= d
    <2>1. PICK slot \in Nat : d = 2 * (year * YearDays + slot)
      <3>1. CASE date.kind = "lunar"
        <4>1. (date.day - year) % YearDays \in Nat
          BY <1>1
        <4>. QED  BY <1>4, <3>1, <4>1 DEF Days!Gregorian, Days!LunarToGregorian, Days!Midnight
      <3>2. CASE date.kind = "fixed"
        BY <1>1, <1>4, <3>2 DEF Days!Gregorian, Days!Midnight
      <3>. QED  BY <1>1, <3>1, <3>2
    <2>2. PICK first \in Nat : first = year * YearDays
      BY <1>1
    <2>. QED  BY <2>1, <2>2
  <1>. QED  BY <1>2, <1>3, <1>4

\* The day to remind of is from now on and near, and the first of those there are.
LEMMA RemindsRightly ==
    ASSUME DaysAssumption, NEW date \in Dates, date.kind # "full", today \in Nat
    PROVE  LET all == UNION {Days!Gregorian(date, y) : y \in Days!Year(today) .. Days!Year(today) + 2}
               near == {d \in all : today <= d /\ d <= today + 2 * ReminderWindow}
           IN /\ Days!ToRemind(date, today) \subseteq near
              /\ date.kind = "fixed" /\ date.day # LeapDay =>
                    Days!ToRemind(date, today) = {d \in near : \A other \in near : d <= other}
  <1>. DEFINE y == Days!Year(today)
              all == UNION {Days!Gregorian(date, z) : z \in y .. y + 2}
              near == {d \in all : today <= d /\ d <= today + 2 * ReminderWindow}
  <1>1. /\ y \in Nat /\ today < 2 * ((y + 1) * YearDays)
        /\ \A z \in Nat : \A d \in Days!Gregorian(date, z) : d \in Int /\ 2 * (z * YearDays) <= d
    BY DayIsOfYear
  <1>2. YearDays \in Nat /\ YearDays > 0 /\ date.day \in Nat /\ ReminderWindow \in Nat
    BY DEF DaysAssumption
  <1>3. Days!ToRemind(date, today) =
            {d \in Days!Gregorian(date, y) : today <= d /\ d <= today + 2 * ReminderWindow}
            \cup {d \in Days!Gregorian(date, y + 1) :
                     /\ \E once \in Days!Gregorian(date, y) : once < today
                     /\ d <= today + 2 * ReminderWindow}
    BY DEF Days!ToRemind
  <1>. HIDE DEF y
  <1>4. Days!Gregorian(date, y) \subseteq all /\ Days!Gregorian(date, y + 1) \subseteq all
    BY <1>1
  <1>5. \A d \in Days!Gregorian(date, y + 1) : today <= d
    <2>1. PICK next \in Nat : next = 2 * ((y + 1) * YearDays)
      BY <1>1, <1>2
    <2>2. y + 1 \in Nat
      BY <1>1
    <2>. QED  BY <1>1, <2>1, <2>2
  <1>6. Days!ToRemind(date, today) \subseteq near
    BY <1>3, <1>4, <1>5
  <1>7. ASSUME date.kind = "fixed", date.day # LeapDay
        PROVE  Days!ToRemind(date, today) = {d \in near : \A other \in near : d <= other}
    <2>1. PICK first \in Nat : first = 2 * (y * YearDays + date.day)
      BY <1>1, <1>2
    <2>2. PICK year \in Nat : year = 2 * YearDays /\ year > 0
      BY <1>2
    <2>3. /\ Days!Gregorian(date, y) = {first}
          /\ Days!Gregorian(date, y + 1) = {first + year}
          /\ Days!Gregorian(date, y + 2) = {first + 2 * year}
      <3>1. \A z : Days!Gregorian(date, z) = {2 * (z * YearDays + date.day)}
        BY <1>7 DEF Days!Gregorian, Days!Midnight
      <3>2. /\ 2 * ((y + 1) * YearDays + date.day) = first + year
            /\ 2 * ((y + 2) * YearDays + date.day) = first + 2 * year
        BY <1>1, <1>2, <2>1, <2>2
      <3>. QED  BY <2>1, <3>1, <3>2
    <2>4. all = {first, first + year, first + 2 * year}
      <3>1. y .. y + 2 = {y, y + 1, y + 2}
        BY <1>1
      <3>. QED  BY <2>3, <3>1
    <2>5. today <= first + year
      BY <1>5, <2>3
    <2>6. \A d : d \in near <=> /\ d \in {first, first + year, first + 2 * year}
                                /\ today <= d /\ d <= today + 2 * ReminderWindow
      BY <2>4
    <2>7. \A d : d \in Days!ToRemind(date, today) <=>
                    \/ d = first /\ today <= first /\ first <= today + 2 * ReminderWindow
                    \/ d = first + year /\ first < today /\ first + year <= today + 2 * ReminderWindow
      BY <1>3, <2>3
    <2>. HIDE DEF near
    <2>8. PICK far \in Nat : far = today + 2 * ReminderWindow
      BY <1>2
    <2>9. ASSUME NEW d \in Days!ToRemind(date, today)
          PROVE  d \in near /\ \A other \in near : d <= other
      BY <2>1, <2>2, <2>5, <2>6, <2>7, <2>8, <2>9
    <2>10. ASSUME NEW d \in near, \A other \in near : d <= other
           PROVE  d \in Days!ToRemind(date, today)
      <3>1. CASE today <= first
        BY <2>1, <2>2, <2>6, <2>7, <2>8, <2>10, <3>1
      <3>2. CASE first < today
        BY <2>1, <2>2, <2>5, <2>6, <2>7, <2>8, <2>10, <3>2
      <3>. QED  BY <2>1, <3>1, <3>2
    <2>. QED  BY <2>9, <2>10
  <1>. QED  BY <1>6, <1>7 DEF y

\* There are pairs.
LEMMA SomePair == ASSUME DaysAssumption  PROVE \E p : p \in Days!Pairs
  <1>1. PICK c \in KeepingContacts, k \in System \cup OwnersDays : TRUE
    BY DEF DaysAssumption
  <1>2. <<c, k>> \in Days!Pairs
    BY DEF Days!Pairs
  <1>. QED  BY <1>2

\* Every step keeps the types, and attachments to what has a date.
LEMMA DaysStep ==
    ASSUME DaysAssumption, DaysInv, [Days!Next]_(Days!celebrationVars)
    PROVE  DaysInv'
  <1>. USE DEF Days!TypeOK, Days!Pairs, Days!Unattached, Days!None, Days!Attachment
  <1>1. /\ celebration \in [System \cup OwnersDays -> Dates \cup {Days!None}]
        /\ attachment \in [Days!Pairs -> Days!Attachment]
        /\ attaching \in [pc : {"idle", "read"}, pair : Days!Pairs, existing : Days!Attachment]
        /\ telling \in SUBSET Days!Pairs /\ today \in Nat
        /\ \A p \in Days!Pairs : attachment[p] # Days!Unattached => celebration[p[2]] # Days!None
    BY DEF DaysInv
  <1>2. \A date \in Dates : date # Days!None
    BY DEF DaysAssumption
  <1>3. Days!Idle \in [pc : {"idle", "read"}, pair : Days!Pairs, existing : Days!Attachment]
    <2>1. \E p : p \in Days!Pairs
      BY SomePair
    <2>2. PICK q : q = CHOOSE p \in Days!Pairs : TRUE
      OBVIOUS
    <2>3. q \in Days!Pairs
      BY <2>1, <2>2
    <2>. QED  BY <2>2, <2>3 DEF Days!Idle
  <1>4. \A p \in Days!Pairs : p[2] \in System \cup OwnersDays
    OBVIOUS
  <1>5. ASSUME NEW k \in System \cup OwnersDays, NEW date \in Dates, Days!WriteCelebration(k, date)
        PROVE  DaysInv'
    BY <1>1, <1>2, <1>5 DEF Days!WriteCelebration, DaysInv
  <1>6. ASSUME NEW k \in System \cup OwnersDays, NEW s \in {"active", "ignored"},
               Days!SetGlobalStatus(k, s)
        PROVE  DaysInv'
    BY <1>1, <1>6 DEF Days!SetGlobalStatus, DaysInv
  <1>7. CASE Days!DeleteCelebrations
    <2>1. PICK gone : /\ celebration' = [k \in DOMAIN celebration |->
                                            IF k \in gone THEN Days!None ELSE celebration[k]]
                      /\ attachment' = [p \in Days!Pairs |->
                                            IF p[2] \in gone THEN Days!Unattached ELSE attachment[p]]
                      /\ attaching' = attaching /\ telling' = telling /\ today' = today
      BY <1>7 DEF Days!DeleteCelebrations
    <2>2. celebration' \in [System \cup OwnersDays -> Dates \cup {Days!None}]
      BY <1>1, <2>1
    <2>3. attachment' \in [Days!Pairs -> Days!Attachment]
      BY <1>1, <2>1
    <2>4. \A p \in Days!Pairs : attachment'[p] # Days!Unattached => celebration'[p[2]] # Days!None
      BY <1>1, <1>4, <2>1
    <2>. QED  BY <1>1, <2>1, <2>2, <2>3, <2>4 DEF DaysInv
  <1>8. ASSUME NEW p \in Days!Pairs, Days!BeginAttach(p) \/ Days!Detach(p) \/ Days!Tell(p)
        PROVE  DaysInv'
    <2>1. CASE Days!BeginAttach(p)
      BY <1>1, <2>1 DEF Days!BeginAttach, DaysInv
    <2>2. CASE Days!Detach(p)
      BY <1>1, <2>2 DEF Days!Detach, DaysInv
    <2>3. CASE Days!Tell(p)
      BY <1>1, <2>3 DEF Days!Tell, DaysInv
    <2>. QED  BY <1>8, <2>1, <2>2, <2>3
  <1>9. ASSUME NEW p \in Days!Pairs, NEW s \in {"active", "ignored"}, NEW r \in BOOLEAN,
               Days!UpdateAttachment(p, s, r)
        PROVE  DaysInv'
    <2>1. PICK one \in Days!Attachment : one = [status |-> s, remind |-> r]
      BY <1>9
    <2>2. /\ attachment' = [attachment EXCEPT ![p] = one] /\ attachment[p] # Days!Unattached
          /\ celebration' = celebration /\ attaching' = attaching
          /\ telling' = telling /\ today' = today
      BY <1>9, <2>1 DEF Days!UpdateAttachment
    <2>. QED  BY <1>1, <2>2 DEF DaysInv
  <1>10. ASSUME NEW s \in {"active", "ignored"}, NEW r \in BOOLEAN, Days!EndAttach(s, r)
         PROVE  DaysInv'
    <2>1. PICK p \in Days!Pairs : p = attaching.pair
      BY <1>1
    <2>2. PICK one \in Days!Attachment : one = [status |-> s, remind |-> r]
      BY <1>10
    <2>3. /\ \/ attachment' = attachment
             \/ celebration[p[2]] # Days!None /\ attachment' = [attachment EXCEPT ![p] = one]
          /\ attaching' = Days!Idle /\ celebration' = celebration
          /\ telling' = telling /\ today' = today
      BY <1>10, <2>1, <2>2 DEF Days!EndAttach
    <2>. QED  BY <1>1, <1>3, <2>3 DEF DaysInv
  <1>11. CASE Days!BeginTelling
    <2>1. telling' \in SUBSET Days!Due /\ celebration' = celebration /\ attachment' = attachment
          /\ attaching' = attaching /\ today' = today
      BY <1>11 DEF Days!BeginTelling
    <2>2. Days!Due \subseteq Days!Pairs
      BY DEF Days!Due
    <2>. QED  BY <1>1, <2>1, <2>2 DEF DaysInv
  <1>12. CASE Days!Midday
    BY <1>1, <1>12 DEF Days!Midday, DaysInv
  <1>13. CASE UNCHANGED Days!celebrationVars
    BY <1>1, <1>13 DEF Days!celebrationVars, DaysInv
  <1>. QED  BY <1>5, <1>6, <1>7, <1>8, <1>9, <1>10, <1>11, <1>12, <1>13 DEF Days!Next

\* Whatever is written, deleted and attached meanwhile: who keeps a celebration is reminded of the
\* first day that it falls on from now, when that is within the window, and of no other day, but
\* of dates of a single year, and of February 29 only as far as it is a right day at all
\* (getReminderCelebrations and attachToContact of celebrations.service.ts).
THEOREM RemindersAreOfTheNext ==
    ASSUME DaysAssumption
    PROVE  Days!Init /\ [][Days!Next]_(Days!celebrationVars)
              => [](Days!TypeOK /\ Days!RemindsOfTheNext)
  <1>1. ASSUME Days!Init  PROVE DaysInv
    <2>1. \E p : p \in Days!Pairs
      BY SomePair
    <2>2. PICK q : q = CHOOSE p \in Days!Pairs : TRUE
      OBVIOUS
    <2>3. q \in Days!Pairs
      BY <2>1, <2>2
    <2>. QED  BY <1>1, <2>2, <2>3 DEF Days!Init, DaysInv, Days!TypeOK, Days!Idle, Days!Unattached,
                Days!Attachment
  <1>2. DaysInv /\ [Days!Next]_(Days!celebrationVars) => DaysInv'
    BY DaysStep
  <1>3. ASSUME DaysInv  PROVE Days!TypeOK /\ Days!RemindsOfTheNext
    <2>1. ASSUME NEW p \in Days!Pairs, attachment[p].status = "active"
          PROVE  celebration[p[2]] \in Dates /\ celebration[p[2]] # Days!None
      <3>1. attachment[p] # Days!Unattached
        BY <2>1 DEF Days!Unattached
      <3>2. p[2] \in System \cup OwnersDays
        BY DEF Days!Pairs
      <3>. QED  BY <1>3, <3>1, <3>2 DEF DaysInv, Days!TypeOK
    <2>2. today \in Nat
      BY <1>3 DEF DaysInv, Days!TypeOK
    <2>3. Days!RemindsOfTheNext
      BY <2>1, <2>2, RemindsRightly DEF Days!RemindsOfTheNext
    <2>. QED  BY <1>3, <2>3 DEF DaysInv
  <1>. QED  BY <1>1, <1>2, <1>3, PTL

-----------------------------------------------------------------------------
(* What is kept of events.  An event that did not change since its token   *)
(* is kept as it is, and one that did not change since a run began has     *)
(* been listed as it is, unless it is due or the run had no reason to.     *)
CONSTANTS Occurrences, Forms, Zones, SourceZone, Nil, DayLength, CorrectionAttempts
VARIABLES theirs, moved, kept, synced, gathering
Contents == INSTANCE EventContents WITH Attempts <- CorrectionAttempts

\* The third time that a clock is corrected shows nothing new.
ContentsAssumption ==
    /\ CorrectionAttempts \in Nat \ {0, 1} /\ DayLength \in Nat /\ Nil \notin Int
    /\ \A z \in DOMAIN Zones : Zones[z] \in [before : Int, after : Int, at : Int]
    /\ SourceZone \in DOMAIN Zones
    /\ \A form \in Forms :
          /\ DOMAIN form = {"status", "shape", "zone", "start", "end", "text", "series"}
          /\ form.shape \in {"timed", "allDay", "none"} /\ form.zone \in DOMAIN Zones \cup {Nil}
          /\ form.start \in Int /\ form.end \in Int

\* The correction of a clock.
Corrected(zone, wanted, c) == c - (Contents!Local(zone, c) - wanted)
Corrections(zone, wanted, guess) ==
    guess = [n \in 0 .. CorrectionAttempts |->
                IF n = 0 THEN wanted ELSE Corrected(zone, wanted, guess[n - 1])]

\* A correction leads to one of two times, and to one that needs none if there is any.
LEMMA TwoTimes ==
    ASSUME NEW zone \in [before : Int, after : Int, at : Int], NEW wanted \in Int, NEW c \in Int
    PROVE  /\ Corrected(zone, wanted, c) \in Int
           /\ Corrected(zone, wanted, c) = wanted - Contents!Offset(zone, c)
           /\ Contents!Offset(zone, c) \in {zone.before, zone.after}
           /\ Contents!Local(zone, c) = wanted <=> Corrected(zone, wanted, c) = c
  BY DEF Corrected, Contents!Local, Contents!Offset

\* The corrections there are, which are the only ones.
LEMMA CorrectionsAre ==
    ASSUME ContentsAssumption, NEW zone \in [before : Int, after : Int, at : Int], NEW wanted \in Int
    PROVE  /\ \E guess : Corrections(zone, wanted, guess)
           /\ \A guess : Corrections(zone, wanted, guess) =>
                 /\ guess[CorrectionAttempts] \in {wanted - zone.before, wanted - zone.after}
                 /\ (\E t \in {wanted - zone.before, wanted - zone.after} :
                        Contents!Local(zone, t) = wanted)
                    => Contents!Local(zone, guess[CorrectionAttempts]) = wanted
  <1>. DEFINE Redo(c) == Corrected(zone, wanted, c)
              t == {wanted - zone.before, wanted - zone.after}
  <1>0. t \subseteq Int /\ CorrectionAttempts \in Nat /\ CorrectionAttempts > 1
    BY DEF ContentsAssumption
  <1>1. PICK first \in t : first = Redo(wanted)
    BY TwoTimes
  <1>2. PICK second \in t : second = Redo(first)
    BY <1>0, TwoTimes
  <1>3. PICK third \in t : third = Redo(second)
    BY <1>0, TwoTimes
  <1>4. \A c \in Int : Redo(c) \in t /\ (Contents!Local(zone, c) = wanted <=> Redo(c) = c)
    BY TwoTimes
  <1>5. third \in {first, second}
    BY <1>1, <1>2, <1>3
  <1>. HIDE DEF Redo
  <1>. DEFINE guess0 == [n \in 0 .. CorrectionAttempts |->
                            IF n = 0 THEN wanted ELSE IF n = 1 THEN first
                            ELSE IF third = second THEN second
                            ELSE IF n % 2 = 0 THEN second ELSE first]
  <1>a. \A n \in 0 .. CorrectionAttempts :
           guess0[n] = IF n = 0 THEN wanted ELSE IF n = 1 THEN first
                       ELSE IF third = second THEN second
                       ELSE IF n % 2 = 0 THEN second ELSE first
    OBVIOUS
  <1>b. DOMAIN guess0 = 0 .. CorrectionAttempts
    OBVIOUS
  <1>c. guess0 = [n \in 0 .. CorrectionAttempts |-> guess0[n]]
    OBVIOUS
  <1>. HIDE DEF guess0
  <1>6. ASSUME NEW n \in 1 .. CorrectionAttempts  PROVE guess0[n] = Redo(guess0[n - 1])
    <2>1. n - 1 \in 0 .. CorrectionAttempts /\ n \in 0 .. CorrectionAttempts /\ n - 1 \in Nat
      BY <1>0
    <2>. DEFINE Value(m) == IF m = 0 THEN wanted ELSE IF m = 1 THEN first
                            ELSE IF third = second THEN second
                            ELSE IF m % 2 = 0 THEN second ELSE first
    <2>v. guess0[n] = Value(n) /\ guess0[n - 1] = Value(n - 1)
      BY <1>a, <2>1
    <2>. SUFFICES Value(n) = Redo(Value(n - 1))
      BY <2>v
    <2>2. CASE n = 1
      BY <1>1, <2>2
    <2>3. CASE n = 2
      <3>1. Value(n) = second /\ Value(n - 1) = first
        <4>1. n - 1 = 1 /\ n # 0 /\ n # 1 /\ n % 2 = 0 /\ n - 1 # 0
          BY <2>3
        <4>2. second = IF third = second THEN second ELSE second
          OBVIOUS
        <4>. QED  BY <4>1, <4>2
      <3>. QED  BY <1>2, <3>1
    <2>4. CASE n > 2 /\ third = second
      <3>1. n # 0 /\ n # 1 /\ n - 1 # 0 /\ n - 1 # 1
        BY <2>1, <2>4
      <3>2. Value(n) = second /\ Value(n - 1) = second
        BY <2>4, <3>1
      <3>. QED  BY <1>3, <2>4, <3>2
    <2>5. CASE n > 2 /\ third # second
      <3>1. third = first
        BY <1>5, <2>5
      <3>2. CASE n % 2 = 0
        <4>1. (n - 1) % 2 # 0 /\ n # 0 /\ n # 1 /\ n - 1 # 0 /\ n - 1 # 1
          BY <2>1, <2>5, <3>2
        <4>2. Value(n) = second /\ Value(n - 1) = first
          BY <2>5, <3>2, <4>1
        <4>. QED  BY <1>2, <4>2
      <3>3. CASE n % 2 # 0
        <4>1. (n - 1) % 2 = 0 /\ n # 0 /\ n # 1 /\ n - 1 # 0 /\ n - 1 # 1
          BY <2>1, <2>5, <3>3
        <4>2. Value(n) = first /\ Value(n - 1) = second
          BY <2>5, <3>3, <4>1
        <4>. QED  BY <1>3, <3>1, <4>2
      <3>. QED  BY <3>2, <3>3
    <2>. QED  BY <1>0, <2>2, <2>3, <2>4, <2>5
  <1>7. guess0[0] = wanted
    BY <1>0, <1>a
  <1>8. guess0[CorrectionAttempts] \in t
    BY <1>0, <1>a
  <1>9. ASSUME \E c \in t : Contents!Local(zone, c) = wanted
        PROVE  Contents!Local(zone, guess0[CorrectionAttempts]) = wanted
    <2>1. PICK c \in t : Redo(c) = c
      BY <1>0, <1>4, <1>9
    <2>2. third = second
      BY <1>1, <1>2, <1>3, <2>1
    <2>3. guess0[CorrectionAttempts] = second
      BY <1>0, <1>a, <2>2
    <2>. QED  BY <1>0, <1>3, <1>4, <2>2, <2>3
  <1>10. guess0 = [n \in 0 .. CorrectionAttempts |->
                     IF n = 0 THEN wanted ELSE Redo(guess0[n - 1])]
    <2>1. \A n \in 0 .. CorrectionAttempts :
             guess0[n] = IF n = 0 THEN wanted ELSE Redo(guess0[n - 1])
      BY <1>0, <1>6, <1>7
    <2>. QED  BY <1>c, <2>1
  <1>11. Corrections(zone, wanted, guess0)
    BY <1>10 DEF Corrections, Redo
  <1>12. ASSUME NEW guess, Corrections(zone, wanted, guess)
         PROVE  guess[CorrectionAttempts] = guess0[CorrectionAttempts]
    <2>. DEFINE odd == {n \in 0 .. CorrectionAttempts : guess[n] # guess0[n]}
    <2>0. guess = [n \in 0 .. CorrectionAttempts |->
                     IF n = 0 THEN wanted ELSE Redo(guess[n - 1])]
      BY <1>12 DEF Corrections, Redo
    <2>1. /\ guess[0] = wanted
          /\ \A n \in 1 .. CorrectionAttempts : guess[n] = Redo(guess[n - 1])
      BY <1>0, <2>0
    <2>2. ASSUME odd # {}  PROVE FALSE
      <3>1. PICK n \in odd : \A m \in odd : n <= m
        <4>1. odd \subseteq Nat
          BY <1>0
        <4>. HIDE DEF odd
        <4>. QED  BY <2>2, <4>1, Earliest
      <3>2. n # 0
        BY <1>7, <2>1, <3>1
      <3>3. n \in 1 .. CorrectionAttempts /\ n - 1 \in 0 .. CorrectionAttempts /\ ~(n <= n - 1)
        BY <1>0, <3>1, <3>2
      <3>4. guess[n - 1] = guess0[n - 1]
        BY <3>1, <3>3
      <3>. QED  BY <1>6, <2>1, <3>1, <3>3, <3>4
    <2>3. CorrectionAttempts \in 0 .. CorrectionAttempts
      BY <1>0
    <2>. QED  BY <2>2, <2>3
  <1>. QED  BY <1>8, <1>9, <1>11, <1>12

\* A midnight that is found is one that a clock shows, and one is found if there is any.
LEMMA MidnightFound ==
    ASSUME ContentsAssumption, NEW zone \in [before : Int, after : Int, at : Int], NEW date \in Int
    PROVE  /\ Contents!ZonedMidnight(zone, date) \in Contents!Midnights(zone, date) \cup {Nil}
           /\ Contents!Midnights(zone, date) # {} => Contents!ZonedMidnight(zone, date) # Nil
           /\ Contents!Midnights(zone, date) \subseteq Int
  <1>1. PICK wanted \in Int : wanted = DayLength * date
    BY DEF ContentsAssumption
  <1>2. PICK guess : Corrections(zone, wanted, guess) /\
           Contents!ZonedMidnight(zone, date) =
              IF Contents!Local(zone, guess[CorrectionAttempts]) = wanted
              THEN guess[CorrectionAttempts] ELSE Nil
    <2>. DEFINE guess == CHOOSE g : Corrections(zone, wanted, g)
    <2>1. Corrections(zone, wanted, guess)
      BY CorrectionsAre
    <2>2. Contents!ZonedMidnight(zone, date) =
              IF Contents!Local(zone, guess[CorrectionAttempts]) = wanted
              THEN guess[CorrectionAttempts] ELSE Nil
      BY <1>1 DEF Contents!ZonedMidnight, Corrections, Corrected
    <2>. HIDE DEF guess
    <2>. QED  BY <2>1, <2>2
  <1>3. guess[CorrectionAttempts] \in {wanted - zone.before, wanted - zone.after}
    BY <1>2, CorrectionsAre
  <1>4. (\E t \in {wanted - zone.before, wanted - zone.after} : Contents!Local(zone, t) = wanted)
           => Contents!Local(zone, guess[CorrectionAttempts]) = wanted
    BY <1>2, CorrectionsAre
  <1>5. Contents!Midnights(zone, date) =
           {t \in {wanted - zone.before, wanted - zone.after} : Contents!Local(zone, t) = wanted}
    BY <1>1 DEF Contents!Midnights
  <1>6. {wanted - zone.before, wanted - zone.after} \subseteq Int
    OBVIOUS
  <1>7. Nil \notin Int
    BY DEF ContentsAssumption
  <1>. QED  BY <1>2, <1>3, <1>4, <1>5, <1>6, <1>7

RowFields == {"status", "startAt", "endAt", "series", "details"}
RowOrNone(one) == one = Contents!Unlisted \/ DOMAIN one = RowFields

\* A row, or none, that says what the form says, of what there is to say.
Shown(form, one) ==
    LET starts == IF form.shape = "none" THEN {} ELSE Contents!Meant(form, form.start)
        ends == IF form.shape = "none" \/ form.end <= form.start THEN {}
                ELSE Contents!Meant(form, form.end)
    IN IF Contents!Cancelled(form)
       THEN form.shape # "allDay" \/ (starts # {} /\ ends # {}) =>
               one # Contents!Unlisted /\ one.status = "cancelled"
       ELSE starts # {} /\ ends # {} =>
               /\ one # Contents!Unlisted /\ one.status = form.status
               /\ one.startAt \in starts /\ one.endAt \in ends
               /\ one.series = form.series /\ one.details = [text |-> form.text]

\* What may be said of an event that did not change since the run began.
Listed(job, e) ==
    \/ e \in job.due /\ job.items[e] = Contents!Unlisted /\ (job.full \/ e \in moved)
    \/ e \notin job.due /\ job.items[e] = Contents!Normalized(theirs[e]) /\ (job.full \/ e \in moved)
    \/ e \notin job.due /\ job.items[e] = Contents!Unlisted /\ ~job.full /\ e \notin moved

RunTypes(job) ==
    /\ DOMAIN job = {"full", "due", "items", "since"} /\ DOMAIN job.items = Occurrences
    /\ job.full \in BOOLEAN /\ job.due \cup job.since \subseteq Contents!Existing
    /\ \A e \in Occurrences :
          RowOrNone(job.items[e]) /\ (job.items[e] # Contents!Unlisted => e \in Contents!Existing)

ContentsInv ==
    /\ Contents!TypeOK
    /\ \A e \in Occurrences : RowOrNone(kept[e])
    /\ synced => \A e \in Contents!Existing \ moved : Shown(theirs[e], kept[e])
    /\ Contents!Running =>
          /\ RunTypes(gathering) /\ (synced \/ gathering.full)
          /\ \A e \in Contents!Existing \ gathering.since : Listed(gathering, e)

\* What is made of an item says what the item says, over what was kept before or not.
LEMMA NormalizedSays ==
    ASSUME ContentsAssumption, NEW form \in Forms
    PROVE  LET new == Contents!Normalized(form)
           IN /\ RowOrNone(new) /\ form # Contents!Unlisted
              /\ new = Contents!Unlisted => \A old : Shown(form, old)
              /\ new # Contents!Unlisted =>
                    /\ Shown(form, new)
                    /\ \A old : DOMAIN old = RowFields => Shown(form, Contents!Updated(old, new))
  <1>. DEFINE new == Contents!Normalized(form)
              zone == Contents!ZoneOf(form)
              start == Contents!ZonedMidnight(zone, form.start)
              end == Contents!ZonedMidnight(zone, form.end)
  <1>1. /\ DOMAIN form = {"status", "shape", "zone", "start", "end", "text", "series"}
        /\ form.shape \in {"timed", "allDay", "none"}
        /\ form.start \in Int /\ form.end \in Int /\ Nil \notin Int
    BY DEF ContentsAssumption
  <1>2. zone \in [before : Int, after : Int, at : Int]
    BY DEF ContentsAssumption, Contents!ZoneOf
  <1>3. /\ start \in Contents!Midnights(zone, form.start) \cup {Nil}
        /\ end \in Contents!Midnights(zone, form.end) \cup {Nil}
        /\ Contents!Midnights(zone, form.start) # {} => start # Nil
        /\ Contents!Midnights(zone, form.end) # {} => end # Nil
        /\ Contents!Midnights(zone, form.start) \subseteq Int
        /\ Contents!Midnights(zone, form.end) \subseteq Int
    BY <1>1, <1>2, MidnightFound
  <1>. HIDE DEF zone, start, end
  <1>4. form # Contents!Unlisted
    <2>1. DOMAIN Contents!Unlisted = {"status"}
      BY DEF Contents!Unlisted
    <2>2. "shape" \in DOMAIN form
      BY <1>1
    <2>. QED  BY <2>1, <2>2
  <1>5. \A at, to : /\ DOMAIN Contents!Row(form, at, to) = RowFields
                    /\ Contents!Row(form, at, to).status = form.status
                    /\ Contents!Row(form, at, to).startAt = at
                    /\ Contents!Row(form, at, to).endAt = to
                    /\ Contents!Row(form, at, to).series = form.series
                    /\ ~Contents!Cancelled(form) =>
                          Contents!Row(form, at, to).details = [text |-> form.text]
    BY DEF Contents!Row, RowFields
  <1>6. DOMAIN Contents!Tombstone = RowFields /\ Contents!Tombstone.status = "cancelled"
    BY DEF Contents!Tombstone, RowFields
  <1>7. \A one : DOMAIN one = RowFields => one # Contents!Unlisted
    <2>1. DOMAIN Contents!Unlisted = {"status"}
      BY DEF Contents!Unlisted
    <2>2. "series" \in RowFields
      BY DEF RowFields
    <2>. QED  BY <2>1, <2>2
  <1>8. /\ Contents!Meant(form, form.start) =
              IF form.shape = "timed" THEN {form.start} ELSE Contents!Midnights(zone, form.start)
        /\ Contents!Meant(form, form.end) =
              IF form.shape = "timed" THEN {form.end} ELSE Contents!Midnights(zone, form.end)
    BY DEF Contents!Meant, zone

  \* It is a row of the form's status, or passed over as nothing can be said of it.
  <1>9. \/ /\ new = Contents!Unlisted /\ \A old : Shown(form, old)
        \/ /\ DOMAIN new = RowFields /\ new.status = form.status /\ Shown(form, new)
    <2>1. CASE form.shape = "none"
      <3>1. new = IF Contents!Cancelled(form) THEN Contents!Row(form, Nil, Nil) ELSE Contents!Unlisted
        BY <2>1 DEF Contents!Normalized
      <3>. QED  BY <1>5, <1>7, <2>1, <3>1 DEF Shown, Contents!Cancelled
    <2>2. CASE form.shape # "none" /\ form.end <= form.start
      <3>1. new = IF Contents!Cancelled(form) THEN Contents!Tombstone ELSE Contents!Unlisted
        BY <1>1, <2>2 DEF Contents!Normalized
      <3>. QED  BY <1>6, <1>7, <2>2, <3>1 DEF Shown, Contents!Cancelled
    <2>3. CASE form.shape = "timed" /\ ~(form.end <= form.start)
      <3>1. new = Contents!Row(form, form.start, form.end)
        BY <1>1, <2>3 DEF Contents!Normalized
      <3>. QED  BY <1>5, <1>7, <1>8, <2>3, <3>1 DEF Shown, Contents!Cancelled
    <2>4. CASE form.shape = "allDay" /\ ~(form.end <= form.start)
      <3>1. new = IF Nil \in {start, end} THEN Contents!Unlisted ELSE Contents!Row(form, start, end)
        BY <1>1, <2>4 DEF Contents!Normalized, start, end, zone
      <3>2. CASE Nil \in {start, end}
        BY <1>3, <1>8, <2>4, <3>1, <3>2 DEF Shown
      <3>3. CASE Nil \notin {start, end}
        <4>1. /\ start \in Contents!Midnights(zone, form.start)
              /\ end \in Contents!Midnights(zone, form.end)
          BY <1>3, <3>3
        <4>. QED  BY <1>5, <1>7, <1>8, <2>4, <3>1, <3>3, <4>1 DEF Shown, Contents!Cancelled
      <3>. QED  BY <3>2, <3>3
    <2>. QED  BY <1>1, <2>1, <2>2, <2>3, <2>4
  <1>. HIDE DEF new

  \* Over another row, it says the same, or that the event was cancelled.
  <1>10. ASSUME DOMAIN new = RowFields, new.status = form.status, Shown(form, new),
                NEW old, DOMAIN old = RowFields
         PROVE  Shown(form, Contents!Updated(old, new))
    <2>1. CASE Contents!Cancelled(new) /\ new.startAt = Nil
      <3>1. PICK one : one = [old EXCEPT !.status = "cancelled",
                                 !.series = IF new.series = Nil THEN @ ELSE new.series]
        OBVIOUS
      <3>2. DOMAIN one = RowFields /\ one.status = "cancelled"
        BY <1>10, <3>1 DEF RowFields
      <3>3. Contents!Updated(old, new) = one
        BY <2>1, <3>1 DEF Contents!Updated
      <3>4. Contents!Cancelled(form)
        BY <1>10, <2>1 DEF Contents!Cancelled
      <3>. QED  BY <1>7, <3>2, <3>3, <3>4 DEF Shown
    <2>2. CASE ~(Contents!Cancelled(new) /\ new.startAt = Nil)
      BY <1>10, <2>2 DEF Contents!Updated
    <2>. QED  BY <2>1, <2>2
  <1>. QED  BY <1>4, <1>7, <1>9, <1>10 DEF RowOrNone, new

\* What an event is at the provider, and what is kept of it, have types.
LEMMA ContentTypes ==
    ASSUME ContentsAssumption, ContentsInv
    PROVE  /\ theirs \in [Occurrences -> Forms \cup {Contents!Unlisted}]
           /\ moved \subseteq Contents!Existing /\ synced \in BOOLEAN
           /\ \A e \in Occurrences : /\ RowOrNone(kept[e])
                                     /\ kept[e] # Contents!Unlisted => theirs[e] # Contents!Unlisted
                                     /\ e \in Contents!Existing <=> theirs[e] # Contents!Unlisted
           /\ Contents!Existing \subseteq Occurrences
           /\ \A e \in Contents!Existing : theirs[e] \in Forms
           /\ \A form \in Forms : form # Contents!Unlisted
  BY NormalizedSays DEF ContentsInv, Contents!TypeOK, Contents!Existing

\* The invariant of what only the provider and the mirror are, and of a run.
LEMMA ContentsAfter ==
    ASSUME Contents!TypeOK', \A e \in Occurrences : RowOrNone(kept'[e]),
           synced' => \A e \in Contents!Existing' \ moved' : Shown(theirs'[e], kept'[e]),
           Contents!Running' =>
              /\ RunTypes(gathering)' /\ (synced' \/ gathering'.full)
              /\ \A e \in Contents!Existing' \ gathering'.since : Listed(gathering, e)'
    PROVE  ContentsInv'
  <1>1. (\A e \in Occurrences : RowOrNone(kept[e]))'
    BY DEF RowOrNone, Contents!Unlisted
  <1>2. (synced => \A e \in Contents!Existing \ moved : Shown(theirs[e], kept[e]))'
    BY DEF Shown, Contents!Unlisted, Contents!Meant, Contents!Midnights, Contents!ZoneOf,
           Contents!Local, Contents!Offset, Contents!Cancelled
  <1>. QED  BY <1>1, <1>2 DEF ContentsInv

\* What is made of an item is of that item only.
LEMMA NormalizedStays == \A form : Contents!Normalized(form)' = Contents!Normalized(form)
  BY DEF Contents!Normalized, Contents!Row, Contents!Tombstone, Contents!Unlisted,
         Contents!Cancelled, Contents!ZonedMidnight, Contents!ZoneOf, Contents!Local,
         Contents!Offset

\* An event changes at the provider.
LEMMA ChangeKeepsContents ==
    ASSUME ContentsAssumption, ContentsInv, NEW e \in Occurrences, NEW form \in Forms,
           Contents!Change(e, form)
    PROVE  ContentsInv'
  <1>1. /\ theirs' = [theirs EXCEPT ![e] = form] /\ moved' = moved \cup {e}
        /\ kept' = kept /\ synced' = synced
        /\ gathering' = IF Contents!Running THEN [gathering EXCEPT !.since = @ \cup {e}] ELSE gathering
    BY DEF Contents!Change
  <1>2. /\ theirs' \in [Occurrences -> Forms \cup {Contents!Unlisted}]
        /\ theirs'[e] = form /\ form # Contents!Unlisted
        /\ \A o \in Occurrences \ {e} : theirs'[o] = theirs[o]
    BY <1>1, ContentTypes
  <1>3. /\ Contents!Existing' = Contents!Existing \cup {e}
        /\ Contents!Existing' \subseteq Occurrences
    <2>1. Contents!Existing' = {o \in Occurrences : theirs'[o] # Contents!Unlisted}
      BY DEF Contents!Existing, Contents!Unlisted
    <2>. QED  BY <1>2, <2>1 DEF Contents!Existing
  <1>4. CASE ~Contents!Running
    <2>1. ~Contents!Running'
      BY <1>1, <1>4 DEF Contents!Running
    <2>2. Contents!TypeOK'
      BY <1>1, <1>2, <1>3, <2>1, ContentTypes DEF Contents!TypeOK, Contents!Unlisted
    <2>. QED  BY <1>1, <1>2, <1>3, <2>1, <2>2, ContentTypes, ContentsAfter DEF ContentsInv
  <1>5. CASE Contents!Running
    <2>1. RunTypes(gathering) /\ (synced \/ gathering.full)
          /\ \A o \in Contents!Existing \ gathering.since : Listed(gathering, o)
      BY <1>5 DEF ContentsInv
    <2>2. /\ gathering' = [gathering EXCEPT !.since = gathering.since \cup {e}]
          /\ gathering'.since = gathering.since \cup {e}
          /\ gathering'.full = gathering.full /\ gathering'.due = gathering.due
          /\ gathering'.items = gathering.items
          /\ DOMAIN gathering' = {"full", "due", "items", "since"}
      BY <1>1, <1>5, <2>1 DEF RunTypes
    <2>3. RunTypes(gathering)'
      <3>1. \A o \in Occurrences :
               /\ gathering'.items[o] = Contents!Unlisted \/ DOMAIN gathering'.items[o] = RowFields
               /\ gathering'.items[o] # Contents!Unlisted => o \in Contents!Existing'
        BY <1>3, <2>1, <2>2 DEF RunTypes, RowOrNone
      <3>2. /\ DOMAIN gathering'.items = Occurrences /\ gathering'.full \in BOOLEAN
            /\ gathering'.due \cup gathering'.since \subseteq Contents!Existing'
        BY <1>3, <2>1, <2>2 DEF RunTypes
      <3>. QED  BY <2>2, <3>1, <3>2 DEF RunTypes, RowOrNone, Contents!Unlisted
    <2>4. ASSUME NEW o \in Contents!Existing' \ gathering'.since  PROVE Listed(gathering, o)'
      <3>1. o \in Occurrences \ {e} /\ o \in Contents!Existing \ gathering.since
        BY <1>3, <2>2
      <3>2. Listed(gathering, o) /\ theirs'[o] = theirs[o] /\ (o \in moved' <=> o \in moved)
        BY <1>1, <1>2, <2>1, <3>1
      <3>. QED  BY <2>2, <3>2, NormalizedStays DEF Listed, Contents!Unlisted
    <2>5. Contents!TypeOK'
      BY <1>1, <1>2, <1>3, <2>1, <2>2, ContentTypes DEF Contents!TypeOK, Contents!Unlisted, RunTypes
    <2>. QED  BY <1>1, <1>2, <1>3, <2>1, <2>2, <2>3, <2>4, <2>5, ContentTypes, ContentsAfter DEF ContentsInv
  <1>. QED  BY <1>4, <1>5

\* A run begins.
LEMMA BeginKeepsContents ==
    ASSUME ContentsAssumption, ContentsInv, NEW full \in BOOLEAN, Contents!Begin(full)
    PROVE  ContentsInv'
  <1>1. /\ theirs' = theirs /\ moved' = moved /\ kept' = kept /\ synced' = synced
        /\ synced \/ full
        /\ gathering' = [Contents!NoRun EXCEPT !.full = full,
                            !.due = IF full THEN Contents!Existing ELSE moved]
    BY DEF Contents!Begin
  <1>2. /\ DOMAIN gathering' = {"full", "due", "items", "since"}
        /\ gathering'.full = full /\ gathering'.since = {}
        /\ gathering'.due = IF full THEN Contents!Existing ELSE moved
        /\ gathering'.items = [e \in Occurrences |-> Contents!Unlisted]
    BY <1>1 DEF Contents!NoRun
  <1>3. Contents!Existing' = Contents!Existing
    BY <1>1 DEF Contents!Existing, Contents!Unlisted
  <1>4. RunTypes(gathering)'
    <2>1. \A e \in Occurrences : gathering'.items[e] = Contents!Unlisted
      BY <1>2
    <2>2. gathering'.due \cup gathering'.since \subseteq Contents!Existing'
      BY <1>2, <1>3, ContentTypes
    <2>3. DOMAIN gathering'.items = Occurrences
      BY <1>2
    <2>. QED  BY <1>2, <2>1, <2>2, <2>3 DEF RunTypes, RowOrNone, Contents!Unlisted
  <1>5. ASSUME NEW e \in Contents!Existing' \ gathering'.since  PROVE Listed(gathering, e)'
    <2>1. e \in Contents!Existing /\ e \in Occurrences
      BY <1>3, <1>5, ContentTypes
    <2>2. gathering'.items[e] = Contents!Unlisted
      BY <1>2, <2>1
    <2>. QED  BY <1>1, <1>2, <2>1, <2>2 DEF Listed, Contents!Unlisted
  <1>6. Contents!TypeOK'
    BY <1>1, <1>3, <1>4, ContentTypes DEF Contents!TypeOK, Contents!Unlisted, RunTypes
  <1>. QED  BY <1>1, <1>2, <1>3, <1>4, <1>5, <1>6, ContentTypes, ContentsAfter DEF ContentsInv

\* A run reads an item.
LEMMA ListKeepsContents ==
    ASSUME ContentsAssumption, ContentsInv, NEW e \in Occurrences, Contents!List(e)
    PROVE  ContentsInv'
  <1>1. /\ theirs' = theirs /\ moved' = moved /\ kept' = kept /\ synced' = synced
        /\ Contents!Running /\ e \in gathering.due \cup gathering.since
        /\ gathering' = [gathering EXCEPT !.due = @ \ {e},
                            !.items[e] = Contents!LastItem(@, Contents!Normalized(theirs[e]))]
    BY DEF Contents!List
  <1>2. RunTypes(gathering) /\ (synced \/ gathering.full)
        /\ \A o \in Contents!Existing \ gathering.since : Listed(gathering, o)
    BY <1>1 DEF ContentsInv
  <1>3. e \in Contents!Existing /\ theirs[e] \in Forms
    BY <1>1, <1>2, ContentTypes DEF RunTypes
  <1>4. PICK item : item = Contents!LastItem(gathering.items[e], Contents!Normalized(theirs[e]))
    OBVIOUS
  <1>5. /\ DOMAIN gathering' = {"full", "due", "items", "since"}
        /\ gathering'.full = gathering.full /\ gathering'.since = gathering.since
        /\ gathering'.due = gathering.due \ {e}
        /\ gathering'.items = [gathering.items EXCEPT ![e] = item]
    BY <1>1, <1>2, <1>4 DEF RunTypes
  <1>6. /\ RowOrNone(item)
        /\ item = Contents!Normalized(theirs[e]) \/ item = gathering.items[e]
    BY <1>2, <1>3, <1>4, NormalizedSays DEF RunTypes, Contents!LastItem
  <1>7. Contents!Existing' = Contents!Existing
    BY <1>1 DEF Contents!Existing, Contents!Unlisted
  <1>8. RunTypes(gathering)'
    <2>1. \A o \in Occurrences :
             /\ gathering'.items[o] = Contents!Unlisted \/ DOMAIN gathering'.items[o] = RowFields
             /\ gathering'.items[o] # Contents!Unlisted => o \in Contents!Existing'
      BY <1>2, <1>3, <1>5, <1>6, <1>7 DEF RunTypes, RowOrNone
    <2>2. /\ DOMAIN gathering'.items = Occurrences /\ gathering'.full \in BOOLEAN
          /\ gathering'.due \cup gathering'.since \subseteq Contents!Existing'
      BY <1>2, <1>5, <1>7 DEF RunTypes
    <2>. QED  BY <1>5, <2>1, <2>2 DEF RunTypes, RowOrNone, Contents!Unlisted
  <1>9. ASSUME NEW o \in Contents!Existing' \ gathering'.since  PROVE Listed(gathering, o)'
    <2>1. o \in Contents!Existing \ gathering.since /\ o \in Occurrences /\ Listed(gathering, o)
      BY <1>2, <1>5, <1>7, <1>9, ContentTypes
    <2>2. CASE o # e
      <3>1. gathering'.items[o] = gathering.items[o] /\ (o \in gathering'.due <=> o \in gathering.due)
        BY <1>2, <1>5, <2>1, <2>2 DEF RunTypes
      <3>2. \/ o \in gathering'.due /\ gathering'.items[o] = Contents!Unlisted /\ (gathering'.full \/ o \in moved)
            \/ o \notin gathering'.due /\ gathering'.items[o] = Contents!Normalized(theirs[o]) /\ (gathering'.full \/ o \in moved)
            \/ o \notin gathering'.due /\ gathering'.items[o] = Contents!Unlisted /\ ~gathering'.full /\ o \notin moved
        BY <1>5, <2>1, <3>1 DEF Listed
      <3>. QED  BY <1>1, <3>2, NormalizedStays DEF Listed, Contents!Unlisted
    <2>3. CASE o = e
      <3>1. e \in gathering.due /\ gathering.items[e] = Contents!Unlisted /\ (gathering.full \/ e \in moved)
        BY <1>1, <2>1, <2>3 DEF Listed
      <3>2. item = Contents!Normalized(theirs[e])
        BY <1>4, <3>1 DEF Contents!LastItem
      <3>3. gathering'.items[e] = Contents!Normalized(theirs[e]) /\ e \notin gathering'.due
            /\ (gathering'.full \/ e \in moved)
        BY <1>2, <1>5, <3>1, <3>2 DEF RunTypes
      <3>. QED  BY <1>1, <2>3, <3>3, NormalizedStays DEF Listed, Contents!Unlisted
    <2>. QED  BY <2>2, <2>3
  <1>10. Contents!TypeOK'
    BY <1>1, <1>7, <1>8, ContentTypes DEF Contents!TypeOK, Contents!Unlisted, RunTypes
  <1>. QED  BY <1>1, <1>2, <1>5, <1>7, <1>8, <1>9, <1>10, ContentTypes, ContentsAfter DEF ContentsInv

\* What is kept of an event after a commit.
KeptAfter(e) ==
    LET old == IF gathering.full THEN Contents!Unlisted ELSE kept[e]
        new == gathering.items[e]
    IN IF new = Contents!Unlisted THEN old
       ELSE IF old = Contents!Unlisted THEN new ELSE Contents!Updated(old, new)

\* An event that did not change since the run began is kept as it is.
LEMMA CommittedSays ==
    ASSUME ContentsAssumption, ContentsInv, Contents!Running, gathering.due = {}, NEW e \in Occurrences
    PROVE  /\ RowOrNone(KeptAfter(e))
           /\ KeptAfter(e) # Contents!Unlisted => theirs[e] # Contents!Unlisted
           /\ e \in Contents!Existing \ gathering.since => Shown(theirs[e], KeptAfter(e))
  <1>1. /\ RunTypes(gathering) /\ (synced \/ gathering.full)
        /\ \A o \in Contents!Existing \ gathering.since : Listed(gathering, o)
    BY DEF ContentsInv
  <1>2. PICK old : old = IF gathering.full THEN Contents!Unlisted ELSE kept[e]
    OBVIOUS
  <1>3. PICK new : new = gathering.items[e]
    OBVIOUS
  <1>4. /\ RowOrNone(old) /\ RowOrNone(new)
        /\ old # Contents!Unlisted \/ new # Contents!Unlisted => theirs[e] # Contents!Unlisted
    BY <1>1, <1>2, <1>3, ContentTypes DEF RunTypes, RowOrNone
  <1>5. KeptAfter(e) = IF new = Contents!Unlisted THEN old
                        ELSE IF old = Contents!Unlisted THEN new ELSE Contents!Updated(old, new)
    BY <1>2, <1>3 DEF KeptAfter
  <1>6. DOMAIN old = RowFields /\ DOMAIN new = RowFields => DOMAIN Contents!Updated(old, new) = RowFields
    BY DEF Contents!Updated
  <1>7. RowOrNone(KeptAfter(e)) /\ (KeptAfter(e) # Contents!Unlisted => theirs[e] # Contents!Unlisted)
    BY <1>4, <1>5, <1>6 DEF RowOrNone
  <1>8. ASSUME e \in Contents!Existing \ gathering.since  PROVE Shown(theirs[e], KeptAfter(e))
    <2>1. theirs[e] \in Forms /\ Listed(gathering, e)
      BY <1>1, <1>8, ContentTypes
    <2>2. CASE new = Contents!Normalized(theirs[e])
      <3>1. /\ new = Contents!Unlisted => \A one : Shown(theirs[e], one)
            /\ new # Contents!Unlisted =>
                  /\ Shown(theirs[e], new)
                  /\ \A one : DOMAIN one = RowFields => Shown(theirs[e], Contents!Updated(one, new))
        BY <2>1, <2>2, NormalizedSays
      <3>. QED  BY <1>4, <1>5, <3>1 DEF RowOrNone
    <2>3. CASE new = Contents!Unlisted /\ ~gathering.full /\ e \notin moved
      <3>1. Shown(theirs[e], kept[e])
        BY <1>1, <1>8, <2>3 DEF ContentsInv
      <3>. QED  BY <1>2, <1>5, <2>3, <3>1
    <2>. QED  BY <1>3, <2>1, <2>2, <2>3 DEF Listed
  <1>. QED  BY <1>7, <1>8

\* The run commits.
LEMMA CommitKeepsContents ==
    ASSUME ContentsAssumption, ContentsInv, Contents!Commit
    PROVE  ContentsInv'
  <1>1. /\ theirs' = theirs /\ moved' = gathering.since /\ synced' = TRUE /\ gathering' = Nil
        /\ Contents!Running /\ gathering.due = {}
        /\ kept' = [e \in Occurrences |-> KeptAfter(e)]
    BY DEF Contents!Commit, KeptAfter
  <1>2. ~Contents!Running' /\ Contents!Existing' = Contents!Existing
    BY <1>1 DEF Contents!Running, Contents!Existing, Contents!Unlisted
  <1>3. \A e \in Occurrences : kept'[e] = KeptAfter(e)
    BY <1>1
  <1>4. RunTypes(gathering)
    BY <1>1 DEF ContentsInv
  <1>5. Contents!TypeOK'
    <2>1. \A e \in Occurrences : kept'[e] # Contents!Unlisted => theirs'[e] # Contents!Unlisted
      BY <1>1, <1>3, CommittedSays
    <2>2. moved' \subseteq Contents!Existing'
      BY <1>1, <1>2, <1>4 DEF RunTypes
    <2>. QED  BY <1>1, <1>2, <2>1, <2>2, ContentTypes DEF Contents!TypeOK, Contents!Unlisted
  <1>6. \A e \in Occurrences : RowOrNone(kept'[e])
    BY <1>1, <1>3, CommittedSays
  <1>7. \A e \in Contents!Existing' \ moved' : Shown(theirs'[e], kept'[e])
    BY <1>1, <1>2, <1>3, CommittedSays, ContentTypes
  <1>. QED  BY <1>2, <1>5, <1>6, <1>7, ContentsAfter

\* A run ends without a commit.
LEMMA EndKeepsContents ==
    ASSUME ContentsAssumption, ContentsInv, Contents!GiveUp \/ Contents!FailCloseGone
    PROVE  ContentsInv'
  <1>1. /\ theirs' = theirs /\ moved' = moved /\ gathering' = Nil
        /\ \/ kept' = kept /\ synced' = synced
           \/ kept' = [e \in Occurrences |-> Contents!Unlisted] /\ synced' = FALSE
    BY DEF Contents!GiveUp, Contents!FailCloseGone
  <1>2. ~Contents!Running' /\ Contents!Existing' = Contents!Existing
    BY <1>1 DEF Contents!Running, Contents!Existing, Contents!Unlisted
  <1>3. /\ \A e \in Occurrences :
              RowOrNone(kept'[e]) /\ (kept'[e] # Contents!Unlisted => theirs'[e] # Contents!Unlisted)
        /\ synced' \in BOOLEAN
        /\ synced' => \A e \in Contents!Existing' \ moved' : Shown(theirs'[e], kept'[e])
    <2>1. CASE kept' = kept /\ synced' = synced
      BY <1>1, <1>2, <2>1, ContentTypes DEF ContentsInv
    <2>2. CASE kept' = [e \in Occurrences |-> Contents!Unlisted] /\ synced' = FALSE
      BY <2>2 DEF RowOrNone
    <2>. QED  BY <1>1, <2>1, <2>2
  <1>4. Contents!TypeOK'
    BY <1>1, <1>2, <1>3, ContentTypes DEF Contents!TypeOK, Contents!Unlisted
  <1>. QED  BY <1>2, <1>3, <1>4, ContentsAfter

\* A cancellation that says nothing else takes nothing else away.
LEMMA CancellingKeeps ==
    ASSUME ContentsAssumption, ContentsInv, [Contents!Next]_(Contents!contentVars)
    PROVE  Contents!CancelledKeepsContents
  <1>1. SUFFICES ASSUME NEW e \in Occurrences, kept[e] # Contents!Unlisted,
                        kept'[e] # Contents!Unlisted, kept'[e] # kept[e], ~gathering.full,
                        Contents!Normalized(theirs[e]) = Contents!Tombstone, e \notin gathering.since
                 PROVE  kept'[e] = [kept[e] EXCEPT !.status = "cancelled"]
    BY DEF Contents!CancelledKeepsContents, Contents!Unlisted
  <1>2. Contents!Commit
    <2>1. kept' # kept
      BY <1>1
    <2>2. ~Contents!FailCloseGone
      BY <1>1 DEF Contents!FailCloseGone, Contents!Unlisted
    <2>. QED  BY <2>1, <2>2 DEF Contents!Next, Contents!Change, Contents!Begin, Contents!List,
                 Contents!GiveUp, Contents!contentVars
  <1>3. /\ kept'[e] = KeptAfter(e) /\ Contents!Running /\ gathering.due = {}
    BY <1>2 DEF Contents!Commit, KeptAfter
  <1>4. e \in Contents!Existing \ gathering.since
    BY <1>1, ContentTypes
  <1>5. Listed(gathering, e)
    BY <1>3, <1>4 DEF ContentsInv
  <1>6. Contents!Tombstone # Contents!Unlisted /\ DOMAIN kept[e] = RowFields
    <2>1. DOMAIN Contents!Unlisted = {"status"} /\ "series" \in DOMAIN Contents!Tombstone
      BY DEF Contents!Unlisted, Contents!Tombstone
    <2>. QED  BY <1>1, <2>1, ContentTypes DEF RowOrNone
  <1>7. gathering.items[e] = Contents!Tombstone
    BY <1>1, <1>3, <1>5, <1>6 DEF Listed, KeptAfter
  <1>8. KeptAfter(e) = Contents!Updated(kept[e], Contents!Tombstone)
    BY <1>1, <1>6, <1>7 DEF KeptAfter
  <1>9. Contents!Updated(kept[e], Contents!Tombstone)
           = [kept[e] EXCEPT !.status = "cancelled", !.series = kept[e].series]
    BY DEF Contents!Updated, Contents!Tombstone, Contents!Cancelled
  <1>10. [kept[e] EXCEPT !.status = "cancelled", !.series = kept[e].series]
            = [kept[e] EXCEPT !.status = "cancelled"]
    BY <1>6 DEF RowFields
  <1>. QED  BY <1>3, <1>8, <1>9, <1>10

\* Once listed, an event that takes place is kept with what it says at the provider, on whatever
\* way it came to that, one that was cancelled is never kept as if it took place, and a
\* cancellation that says nothing else takes nothing else away (normalizeProviderEvent,
\* updateEvent and commitEvents of calendar-sync.service.ts).
THEOREM EventsAreKeptAsTheirs ==
    ASSUME ContentsAssumption
    PROVE  Contents!Spec => /\ [](Contents!TypeOK /\ Contents!KeptAsTheirs)
                            /\ [][Contents!CancelledKeepsContents]_(Contents!contentVars)
  <1>1. ASSUME Contents!Init  PROVE ContentsInv
    <2>1. /\ \A e \in Occurrences : theirs[e] = Contents!Unlisted /\ kept[e] = Contents!Unlisted
          /\ theirs \in [Occurrences -> Forms \cup {Contents!Unlisted}]
          /\ moved = {} /\ synced = FALSE /\ ~Contents!Running
      BY <1>1 DEF Contents!Init, Contents!Running
    <2>. QED  BY <2>1 DEF ContentsInv, Contents!TypeOK, RowOrNone
  <1>2. ASSUME ContentsInv, [Contents!Next]_(Contents!contentVars)  PROVE ContentsInv'
    <2>1. CASE UNCHANGED Contents!contentVars
      <3>1. /\ theirs' = theirs /\ moved' = moved /\ kept' = kept /\ synced' = synced
            /\ gathering' = gathering
        BY <2>1 DEF Contents!contentVars
      <3>2. Contents!Existing' = Contents!Existing /\ (Contents!Running' <=> Contents!Running)
        BY <3>1 DEF Contents!Existing, Contents!Running, Contents!Unlisted
      <3>3. Contents!TypeOK'
        BY <1>2, <3>1, <3>2, ContentTypes DEF ContentsInv, Contents!TypeOK, Contents!Unlisted
      <3>4. ASSUME Contents!Running
            PROVE  RunTypes(gathering)' /\ \A e \in Contents!Existing' \ gathering'.since : Listed(gathering, e)'
        <4>1. RunTypes(gathering) /\ \A e \in Contents!Existing \ gathering.since : Listed(gathering, e)
          BY <1>2, <3>4 DEF ContentsInv
        <4>2. RunTypes(gathering)'
          BY <3>1, <3>2, <4>1 DEF RunTypes, RowOrNone, Contents!Unlisted
        <4>3. ASSUME NEW e \in Contents!Existing \ gathering.since  PROVE Listed(gathering, e)'
          BY <3>1, <4>1, NormalizedStays DEF Listed, Contents!Unlisted
        <4>. QED  BY <3>1, <3>2, <4>2, <4>3
      <3>. QED  BY <1>2, <3>1, <3>2, <3>3, <3>4, ContentsAfter DEF ContentsInv
    <2>. QED  BY <1>2, <2>1, ChangeKeepsContents, BeginKeepsContents, ListKeepsContents,
                 CommitKeepsContents, EndKeepsContents DEF Contents!Next
  <1>3. ASSUME ContentsInv  PROVE Contents!TypeOK /\ Contents!KeptAsTheirs
    BY <1>3 DEF ContentsInv, Contents!KeptAsTheirs, Shown
  <1>4. ContentsInv /\ [Contents!Next]_(Contents!contentVars) => Contents!CancelledKeepsContents
    BY CancellingKeeps
  <1>. QED  BY <1>1, <1>2, <1>3, <1>4, PTL DEF Contents!Spec

-----------------------------------------------------------------------------
(* Reading a feed.  What the loop has put out is what the occurrences it   *)
(* has come by yield (Yield), and none of these was past what it looks     *)
(* for: when it stops, those to come are outside of the window, unless the *)
(* work that is allowed was too little, or what is named never occurs.     *)
CONSTANTS Packs, Now, ReadAhead, MaxWork
VARIABLES pack, turn, past, instances
Ics == INSTANCE IcsFeed WITH Feeds <- Packs, feed <- pack, step <- turn, seen <- past

MasterForms == [start : Nat, length : Nat, interval : Nat, count : Nat, cancelled : BOOLEAN]
ExceptionForms == [id : Nat, moved : BOOLEAN, start : Nat, length : Nat, cancelled : BOOLEAN]
IcsAssumption ==
    /\ Now \in Nat /\ ReadAhead \in Nat /\ MaxWork \in Nat \ {0}
    /\ \A f \in Packs : /\ f.masters \subseteq MasterForms /\ f.exceptions \subseteq ExceptionForms
                        /\ f.exdates \subseteq Nat
                        /\ IsFiniteSet(f.masters) /\ IsFiniteSet(f.exceptions) /\ IsFiniteSet(f.exdates)

\* The instances of an occurrence: where it takes place, if that is in the window.
MovedTo(id) == {x \in pack.exceptions : x.id = id /\ x.moved}
Place(id) ==
    {<<x.start, x.start + x.length>> : x \in MovedTo(id)} \cup
    (IF MovedTo(id) = {} THEN {<<id, id + Ics!Master.length>>} ELSE {})
CalledOff(id) ==
    \/ Ics!Master.cancelled \/ id \in pack.exdates
    \/ \E x \in pack.exceptions : x.id = id /\ x.cancelled
Yield(id) ==
    {[id |-> id, start |-> p[1], end |-> p[2], status |-> Ics!Status(CalledOff(id))] :
        p \in {p \in Place(id) : p[1] < Ics!WindowEnd /\ p[2] > Now}}

Reading == turn \in Nat
IcsInv ==
    /\ Ics!TypeOK
    /\ Reading =>
          /\ turn <= MaxWork
          /\ turn # 0 => Ics!WellFormed /\ Ics!Master.interval > 0
          /\ \A n \in 0 .. turn - 1 : ~Ics!Ends(n) /\ ~Ics!Exhausted(n) /\ ~Ics!Enough(Ics!Occurrence(n))
          /\ past = {Ics!Occurrence(n) : n \in 0 .. turn - 1}
          /\ instances = UNION {Yield(Ics!Occurrence(n)) : n \in 0 .. turn - 1}
    /\ Ics!ReadsTheWindow

\* What is checked before the loop gives one master, and one exception of an occurrence.
LEMMA FormedWell ==
    ASSUME IcsAssumption, pack \in Packs, Ics!WellFormed
    PROVE  /\ Ics!Master \in MasterForms /\ Ics!Master.length > 0
           /\ \A x, y \in pack.exceptions : x.id = y.id => x = y
           /\ Cardinality(pack.exdates) \in Nat
           /\ Ics!Named \subseteq Nat /\ pack.exdates \subseteq Nat
  <1>1. \A some : Ics!Cardinality(some) = Cardinality(some)
    BY DEF Ics!Cardinality, Cardinality
  <1>2. /\ pack.masters \subseteq MasterForms /\ pack.exceptions \subseteq ExceptionForms
        /\ pack.exdates \subseteq Nat /\ IsFiniteSet(pack.masters)
        /\ IsFiniteSet(pack.exceptions) /\ IsFiniteSet(pack.exdates)
    BY DEF IcsAssumption
  <1>3. Ics!Master \in pack.masters
    <2>1. pack.masters # {}
      BY <1>1, <1>2, FS_EmptySet DEF Ics!WellFormed
    <2>. QED  BY <2>1 DEF Ics!Master
  <1>4. \A x, y \in pack.exceptions : x.id = y.id => x = y
    <2>. DEFINE id == [x \in pack.exceptions |-> x.id]
    <2>1. id \in Surjection(pack.exceptions, Ics!Named)
      BY DEF Surjection, Ics!Named
    <2>2. Cardinality(Ics!Named) = Cardinality(pack.exceptions)
      BY <1>1 DEF Ics!WellFormed
    <2>3. id \in Injection(pack.exceptions, Ics!Named)
      BY <1>2, <2>1, <2>2, FS_Surjection
    <2>4. \A x, y \in pack.exceptions : id[x] = id[y] => x = y
      BY <2>3 DEF Injection, IsInjective
    <2>. QED  BY <2>4
  <1>5. Cardinality(pack.exdates) \in Nat
    BY <1>2, FS_CardinalityType
  <1>6. Ics!Named \subseteq Nat
    BY <1>2 DEF Ics!Named, ExceptionForms
  <1>. QED  BY <1>2, <1>3, <1>4, <1>5, <1>6 DEF Ics!WellFormed

\* Occurrences come one after the other.
LEMMA OccurrencesGrow ==
    ASSUME Ics!Master \in MasterForms, NEW m \in Int, NEW n \in Int, m <= n
    PROVE  /\ Ics!Occurrence(m) \in Int /\ Ics!Occurrence(n) \in Int
           /\ Ics!Occurrence(m) <= Ics!Occurrence(n)
           /\ Ics!Occurrence(0) = Ics!Master.start
           /\ m >= 0 => Ics!Occurrence(m) \in Nat
  <1>1. PICK start \in Nat, interval \in Nat : start = Ics!Master.start /\ interval = Ics!Master.interval
    BY DEF MasterForms
  <1>2. \A k \in Int : Ics!Occurrence(k) = start + k * interval
    BY <1>1 DEF Ics!Occurrence
  <1>3. PICK d \in Nat : n = m + d
    BY Z3
  <1>4. n * interval = m * interval + d * interval
    BY <1>1, <1>3
  <1>5. m * interval \in Int /\ d * interval \in Nat /\ (m >= 0 => m * interval \in Nat)
    BY <1>1, <1>3
  <1>6. 0 * interval = 0
    BY <1>1
  <1>. QED  BY <1>1, <1>2, <1>4, <1>5, <1>6

\* A step of the loop puts out what its occurrence yields.
LEMMA IterateYields ==
    ASSUME IcsAssumption, pack \in Packs, turn \in Nat, Ics!Iterate
    PROVE  /\ instances' = instances \cup Yield(Ics!Occurrence(turn))
           /\ past' = past \cup {Ics!Occurrence(turn)} /\ pack' = pack
           /\ \/ turn' = turn + 1
              \/ turn' = Ics!Failed /\ \E x \in pack.exceptions : x.moved /\ x.length <= 0
           /\ Yield(Ics!Occurrence(turn)) \subseteq
                 [id : Nat, start : Nat, end : Nat, status : {"scheduled", "cancelled"}]
  <1>1. PICK at : at = Ics!Occurrence(turn)
    OBVIOUS
  <1>2. PICK exceptions : exceptions = {x \in pack.exceptions : x.id = at}
    OBVIOUS
  <1>3. PICK cancelled : cancelled = (Ics!Master.cancelled \/ at \in pack.exdates
                                        \/ \E x \in exceptions : x.cancelled)
    OBVIOUS
  <1>4. PICK start : start = IF \E x \in exceptions : x.moved
                             THEN (CHOOSE x \in exceptions : TRUE).start ELSE at
    OBVIOUS
  <1>5. PICK length : length = IF \E x \in exceptions : x.moved
                               THEN (CHOOSE x \in exceptions : TRUE).length ELSE Ics!Master.length
    OBVIOUS
  <1>6. /\ instances' = IF Ics!Overlaps(start, start + length)
                        THEN instances \cup {Ics!NormalizeInstance(at, start, length, cancelled)}
                        ELSE instances
        /\ past' = past \cup {at} /\ pack' = pack /\ Ics!WellFormed
        /\ turn' = IF length <= 0 THEN Ics!Failed ELSE turn + 1
    BY <1>1, <1>2, <1>3, <1>4, <1>5 DEF Ics!Iterate
  <1>7. /\ Ics!Master \in MasterForms /\ Ics!Master.length > 0
        /\ \A x, y \in pack.exceptions : x.id = y.id => x = y
    BY <1>6, FormedWell
  <1>8. at \in Nat
    BY <1>1, <1>7, OccurrencesGrow
  <1>9. pack.exceptions \subseteq ExceptionForms
    BY DEF IcsAssumption
  <1>10. cancelled = CalledOff(at)
    BY <1>2, <1>3 DEF CalledOff
  <1>11. /\ Place(at) = {<<start, start + length>>}
         /\ start \in Nat /\ length \in Nat
         /\ length <= 0 => \E x \in pack.exceptions : x.moved /\ x.length <= 0
    <2>1. CASE \E x \in exceptions : x.moved
      <3>1. PICK x \in exceptions : x.moved
        BY <2>1
      <3>2. exceptions = {x}
        BY <1>2, <1>7, <3>1
      <3>3. (CHOOSE y \in exceptions : TRUE) = x
        BY <3>2
      <3>4. start = x.start /\ length = x.length
        BY <1>4, <1>5, <2>1, <3>3
      <3>5. MovedTo(at) = {x}
        BY <1>2, <3>1, <3>2 DEF MovedTo
      <3>6. x \in ExceptionForms /\ x \in pack.exceptions
        BY <1>2, <1>9, <3>1
      <3>. QED  BY <3>1, <3>4, <3>5, <3>6 DEF Place, ExceptionForms
    <2>2. CASE ~\E x \in exceptions : x.moved
      <3>1. MovedTo(at) = {}
        BY <1>2, <2>2 DEF MovedTo
      <3>2. start = at /\ length = Ics!Master.length
        BY <1>4, <1>5, <2>2
      <3>. QED  BY <1>7, <1>8, <3>1, <3>2 DEF Place, MasterForms
    <2>. QED  BY <2>1, <2>2
  <1>12. Yield(at) = IF Ics!Overlaps(start, start + length)
                     THEN {Ics!NormalizeInstance(at, start, length, cancelled)} ELSE {}
    <2>0. PICK p : p = <<start, start + length>>
      OBVIOUS
    <2>1. p = <<start, start + length>> /\ p[1] = start /\ p[2] = start + length
      BY <2>0
    <2>2. PICK there : there = {q \in Place(at) : q[1] < Ics!WindowEnd /\ q[2] > Now}
      OBVIOUS
    <2>3. there = IF Ics!Overlaps(start, start + length) THEN {p} ELSE {}
      BY <1>11, <2>1, <2>2 DEF Ics!Overlaps
    <2>4. Yield(at) = {[id |-> at, start |-> q[1], end |-> q[2], status |-> Ics!Status(CalledOff(at))] :
                          q \in there}
      BY <2>2 DEF Yield
    <2>5. Ics!NormalizeInstance(at, start, length, cancelled)
             = [id |-> at, start |-> p[1], end |-> p[2], status |-> Ics!Status(CalledOff(at))]
      BY <1>10, <2>1 DEF Ics!NormalizeInstance
    <2>. QED  BY <2>3, <2>4, <2>5
  <1>13. Ics!NormalizeInstance(at, start, length, cancelled) \in
            [id : Nat, start : Nat, end : Nat, status : {"scheduled", "cancelled"}]
    BY <1>8, <1>11 DEF Ics!NormalizeInstance, Ics!Status
  <1>. QED  BY <1>1, <1>6, <1>11, <1>12, <1>13

\* A place that is not named is where the rule put it.
LEMMA FarYieldsNothing ==
    ASSUME IcsAssumption, Ics!Master \in MasterForms, NEW id \in Nat, id >= Ics!WindowEnd, id \notin Ics!Named
    PROVE  Yield(id) = {}
  <1>1. MovedTo(id) = {}
    BY DEF MovedTo, Ics!Named
  <1>2. Place(id) = {<<id, id + Ics!Master.length>>}
    BY <1>1 DEF Place
  <1>3. Ics!WindowEnd \in Nat
    BY DEF IcsAssumption, Ics!WindowEnd
  <1>4. \A p \in Place(id) : ~(p[1] < Ics!WindowEnd)
    BY <1>2, <1>3
  <1>. QED  BY <1>4 DEF Yield

\* What depends on the feed alone stays.
LEMMA SameFeed ==
    ASSUME pack' = pack
    PROVE  /\ Ics!Master' = Ics!Master /\ Ics!Named' = Ics!Named
           /\ \A n : Ics!Occurrence(n)' = Ics!Occurrence(n)
           /\ \A n : (Ics!Ends(n)' <=> Ics!Ends(n)) /\ (Ics!Exhausted(n)' <=> Ics!Exhausted(n))
           /\ \A n : Ics!Enough(n)' <=> Ics!Enough(n)
           /\ Ics!Occurrences' = Ics!Occurrences
           /\ \A id : Yield(id)' = Yield(id)
           /\ Ics!WellFormed' <=> Ics!WellFormed
  <1>1. Ics!Master' = Ics!Master /\ Ics!Named' = Ics!Named
    BY DEF Ics!Master, Ics!Named
  <1>2. /\ \A n : Ics!Occurrence(n)' = Ics!Occurrence(n)
        /\ \A n : (Ics!Ends(n)' <=> Ics!Ends(n))
        /\ \A n : (Ics!Exhausted(n)' <=> Ics!Exhausted(n))
        /\ \A n : Ics!Enough(n)' <=> Ics!Enough(n)
    BY <1>1 DEF Ics!Occurrence, Ics!Ends, Ics!Exhausted, Ics!Enough, Ics!WindowEnd
  <1>3. Ics!Occurrences' = Ics!Occurrences
    BY <1>1, <1>2 DEF Ics!Occurrences
  <1>4. \A id : MovedTo(id)' = MovedTo(id)
    BY DEF MovedTo
  <1>5. \A id : Place(id)' = Place(id)
    BY <1>1, <1>4 DEF Place
  <1>6. \A id : CalledOff(id)' <=> CalledOff(id)
    BY <1>1 DEF CalledOff
  <1>7. \A id : Yield(id)' = Yield(id)
    BY <1>5, <1>6 DEF Yield, Ics!Status, Ics!WindowEnd
  <1>8. Ics!WellFormed' <=> Ics!WellFormed
    BY <1>1 DEF Ics!WellFormed
  <1>. QED  BY <1>1, <1>2, <1>3, <1>7, <1>8

\* What the reading is right about when it ends.
LEMMA ReadsIf ==
    ASSUME pack' = pack,
           turn' = Ics!Done => instances' = UNION {Yield(id) : id \in Ics!Occurrences},
           turn' = Ics!Failed =>
              \/ ~Ics!WellFormed
              \/ \E x \in pack.exceptions : x.moved /\ x.length <= 0
              \/ ~(Ics!Named \cup pack.exdates \subseteq Ics!Occurrences)
              \/ LET last == Ics!Occurrence(MaxWork - 1 - Ics!Cardinality(pack.exdates))
                 IN last < Ics!WindowEnd \/ \E id \in Ics!Named \cup pack.exdates : last <= id
    PROVE  Ics!ReadsTheWindow'
  <1>1. (UNION {Yield(id) : id \in Ics!Occurrences} =
           LET Moved(id) == {x \in pack.exceptions : x.id = id /\ x.moved}
               Place0(id) == {<<x.start, x.start + x.length>> : x \in Moved(id)} \cup
                             (IF Moved(id) = {} THEN {<<id, id + Ics!Master.length>>} ELSE {})
               CalledOff0(id) == \/ Ics!Master.cancelled \/ id \in pack.exdates
                                 \/ \E x \in pack.exceptions : x.id = id /\ x.cancelled
           IN UNION {{[id |-> id, start |-> p[1], end |-> p[2], status |-> Ics!Status(CalledOff0(id))] :
                            p \in {p \in Place0(id) : p[1] < Ics!WindowEnd /\ p[2] > Now}} :
                     id \in Ics!Occurrences})'
    BY DEF Yield, Place, MovedTo, CalledOff
  <1>2. /\ Ics!Master' = Ics!Master /\ Ics!Named' = Ics!Named
        /\ \A n : Ics!Occurrence(n)' = Ics!Occurrence(n)
        /\ Ics!Occurrences' = Ics!Occurrences
        /\ \A id : Yield(id)' = Yield(id)
        /\ Ics!WellFormed' <=> Ics!WellFormed
    BY SameFeed
  <1>9. (UNION {Yield(id) : id \in Ics!Occurrences})' = UNION {Yield(id) : id \in Ics!Occurrences}
    BY <1>2
  <1>11. (turn = Ics!Done => instances = UNION {Yield(id) : id \in Ics!Occurrences})'
    BY <1>9 DEF Ics!Done
  <1>12. (turn = Ics!Failed =>
              \/ ~Ics!WellFormed
              \/ \E x \in pack.exceptions : x.moved /\ x.length <= 0
              \/ ~(Ics!Named \cup pack.exdates \subseteq Ics!Occurrences)
              \/ LET last == Ics!Occurrence(MaxWork - 1 - Ics!Cardinality(pack.exdates))
                 IN last < Ics!WindowEnd \/ \E id \in Ics!Named \cup pack.exdates : last <= id)'
    BY <1>2 DEF Ics!Failed, Ics!WindowEnd
  <1>. QED  BY <1>1, <1>11, <1>12 DEF Ics!ReadsTheWindow

\* The occurrences that count, from the first that the loop has not come by on.
LEMMA OccurrencesAre ==
    ASSUME IcsAssumption, pack \in Packs, Ics!WellFormed, Ics!Master.interval > 0,
           turn \in Nat, turn <= MaxWork, \A n \in 0 .. turn - 1 : ~Ics!Ends(n)
    PROVE  /\ {Ics!Occurrence(n) : n \in 0 .. turn - 1} \subseteq Ics!Occurrences
           /\ \A id \in Ics!Occurrences : \/ \E n \in 0 .. turn - 1 : id = Ics!Occurrence(n)
                                          \/ id >= Ics!Occurrence(turn) /\ id \in Nat /\ ~Ics!Ends(turn)
           /\ \A id \in Ics!Occurrences : id \in Nat /\ id >= Ics!Master.start
  <1>1. Ics!Master \in MasterForms
    BY FormedWell
  <1>2. Ics!Occurrences = {Ics!Occurrence(n) : n \in {n \in 0 .. MaxWork : ~Ics!Ends(n)}}
    BY <1>1 DEF Ics!Occurrences, MasterForms
  <1>3. MaxWork \in Nat
    BY DEF IcsAssumption
  <1>4. {Ics!Occurrence(n) : n \in 0 .. turn - 1} \subseteq Ics!Occurrences
    BY <1>2, <1>3
  <1>5. ASSUME NEW id \in Ics!Occurrences
        PROVE  /\ \/ \E n \in 0 .. turn - 1 : id = Ics!Occurrence(n)
                  \/ id >= Ics!Occurrence(turn) /\ id \in Nat /\ ~Ics!Ends(turn)
               /\ id \in Nat /\ id >= Ics!Master.start
    <2>1. PICK n \in 0 .. MaxWork : ~Ics!Ends(n) /\ id = Ics!Occurrence(n)
      BY <1>2
    <2>2. /\ Ics!Occurrence(n) \in Nat /\ Ics!Occurrence(0) <= Ics!Occurrence(n)
          /\ Ics!Occurrence(0) = Ics!Master.start
      <3>1. n \in Int /\ n >= 0 /\ 0 <= n /\ 0 \in Int
        BY <1>3
      <3>2. /\ Ics!Occurrence(0) <= Ics!Occurrence(n) /\ Ics!Occurrence(0) = Ics!Master.start
        BY <1>1, <3>1, OccurrencesGrow
      <3>3. n <= n
        BY <3>1
      <3>4. Ics!Occurrence(n) \in Nat
        BY <1>1, <3>1, <3>3, OccurrencesGrow
      <3>. QED  BY <3>2, <3>4
    <2>3. CASE n < turn
      BY <2>1, <2>2, <2>3
    <2>4. CASE ~(n < turn)
      <3>1. turn <= n /\ turn \in Int /\ n \in Int
        BY <1>3, <2>4
      <3>2. Ics!Occurrence(turn) <= Ics!Occurrence(n) /\ Ics!Occurrence(turn) \in Int
        BY <1>1, <3>1, OccurrencesGrow
      <3>3. ~Ics!Ends(turn)
        BY <1>1, <2>1, <3>1 DEF Ics!Ends, MasterForms
      <3>. QED  BY <2>1, <2>2, <3>2, <3>3
    <2>. QED  BY <2>3, <2>4
  <1>. QED  BY <1>4, <1>5

\* After the loop, nothing more is in the window, or something named is out of reach.
LEMMA FinishReads ==
    ASSUME IcsAssumption, IcsInv, Ics!Finish
    PROVE  IcsInv'
  <1>1. /\ turn \in Nat /\ Ics!WellFormed /\ Ics!Master.interval > 0 /\ pack \in Packs
        /\ Ics!Ends(turn) \/ Ics!Exhausted(turn) \/ Ics!Enough(Ics!Occurrence(turn))
        /\ turn' = IF (Ics!Ends(turn) \/ ~Ics!Exhausted(turn)) /\ Ics!Named \cup pack.exdates \subseteq past
                   THEN Ics!Done ELSE Ics!Failed
        /\ pack' = pack /\ past' = past /\ instances' = instances
    BY DEF Ics!Finish, IcsInv, Ics!TypeOK, Ics!Failed, Ics!Done
  <1>2. /\ turn <= MaxWork
        /\ \A n \in 0 .. turn - 1 : ~Ics!Ends(n) /\ ~Ics!Exhausted(n) /\ ~Ics!Enough(Ics!Occurrence(n))
        /\ past = {Ics!Occurrence(n) : n \in 0 .. turn - 1}
        /\ instances = UNION {Yield(Ics!Occurrence(n)) : n \in 0 .. turn - 1}
    BY <1>1 DEF IcsInv, Reading
  <1>3. /\ Ics!Master \in MasterForms /\ Cardinality(pack.exdates) \in Nat
        /\ Ics!Named \subseteq Nat /\ pack.exdates \subseteq Nat
    BY <1>1, FormedWell
  <1>4. /\ {Ics!Occurrence(n) : n \in 0 .. turn - 1} \subseteq Ics!Occurrences
        /\ \A id \in Ics!Occurrences : \/ \E n \in 0 .. turn - 1 : id = Ics!Occurrence(n)
                                       \/ id >= Ics!Occurrence(turn) /\ id \in Nat /\ ~Ics!Ends(turn)
        /\ \A id \in Ics!Occurrences : id \in Nat /\ id >= Ics!Master.start
    BY <1>1, <1>2, OccurrencesAre
  <1>5. Ics!Occurrence(turn) \in Nat /\ MaxWork \in Nat /\ MaxWork > 0 /\ Ics!WindowEnd \in Nat
    BY <1>1, <1>3, OccurrencesGrow DEF IcsAssumption, Ics!WindowEnd
  <1>6. ASSUME turn' = Ics!Done
        PROVE  instances = UNION {Yield(id) : id \in Ics!Occurrences}
    <2>1. Ics!Ends(turn) \/ (~Ics!Exhausted(turn) /\ Ics!Enough(Ics!Occurrence(turn)))
      BY <1>1, <1>6 DEF Ics!Done, Ics!Failed
    <2>2. ASSUME NEW id \in Ics!Occurrences, ~\E n \in 0 .. turn - 1 : id = Ics!Occurrence(n)
          PROVE  Yield(id) = {}
      <3>1. id >= Ics!Occurrence(turn) /\ id \in Nat /\ ~Ics!Ends(turn)
        BY <1>4, <2>2
      <3>2. Ics!Occurrence(turn) >= Ics!WindowEnd /\ \A k \in Ics!Named : Ics!Occurrence(turn) > k
        BY <2>1, <3>1 DEF Ics!Enough
      <3>3. id >= Ics!WindowEnd /\ id \notin Ics!Named
        BY <1>3, <1>5, <3>1, <3>2
      <3>. QED  BY <1>3, <3>1, <3>3, FarYieldsNothing
    <2>3. ASSUME NEW i \in UNION {Yield(id) : id \in Ics!Occurrences}  PROVE i \in instances
      <3>1. PICK id \in Ics!Occurrences : i \in Yield(id)
        BY <2>3
      <3>2. PICK n \in 0 .. turn - 1 : id = Ics!Occurrence(n)
        BY <2>2, <3>1
      <3>. QED  BY <1>2, <3>1, <3>2
    <2>4. ASSUME NEW i \in instances  PROVE i \in UNION {Yield(id) : id \in Ics!Occurrences}
      BY <1>2, <1>4, <2>4
    <2>. QED  BY <2>3, <2>4
  <1>7. ASSUME turn' = Ics!Failed
        PROVE  \/ ~(Ics!Named \cup pack.exdates \subseteq Ics!Occurrences)
               \/ LET last == Ics!Occurrence(MaxWork - 1 - Ics!Cardinality(pack.exdates))
                  IN last < Ics!WindowEnd \/ \E id \in Ics!Named \cup pack.exdates : last <= id
    <2>1. \/ ~Ics!Ends(turn) /\ Ics!Exhausted(turn)
          \/ (Ics!Ends(turn) \/ ~Ics!Exhausted(turn)) /\ ~(Ics!Named \cup pack.exdates \subseteq past)
      BY <1>1, <1>7 DEF Ics!Done, Ics!Failed
    <2>2. PICK c \in Nat : c = Ics!Cardinality(pack.exdates)
      BY <1>3 DEF Ics!Cardinality, Cardinality
    <2>3. \A n : Ics!Exhausted(n) <=> n + 1 + c > MaxWork
      BY <2>2 DEF Ics!Exhausted
    <2>4. CASE Ics!Exhausted(turn) /\ turn # 0
      <3>1. turn - 1 \in 0 .. turn - 1
        BY <1>1, <2>4
      <3>2. ~Ics!Exhausted(turn - 1) /\ ~Ics!Enough(Ics!Occurrence(turn - 1))
        BY <1>2, <3>1
      <3>3. MaxWork - 1 - c = turn - 1
        BY <1>1, <1>5, <2>3, <2>4, <3>2
      <3>4. Ics!Occurrence(turn - 1) \in Int
        <4>1. turn - 1 \in Int /\ turn \in Int /\ turn - 1 <= turn
          BY <1>1
        <4>. QED  BY <1>3, <4>1, OccurrencesGrow
      <3>5. \/ Ics!Occurrence(turn - 1) < Ics!WindowEnd
            \/ \E id \in Ics!Named \cup pack.exdates : Ics!Occurrence(turn - 1) <= id
        <4>1. \/ ~(Ics!Occurrence(turn - 1) >= Ics!WindowEnd)
              \/ ~\A id \in Ics!Named \cup pack.exdates : Ics!Occurrence(turn - 1) > id
          BY <3>2 DEF Ics!Enough
        <4>2. \A id \in Ics!Named \cup pack.exdates : id \in Nat
          BY <1>3, Zenon
        <4>. QED  BY <1>5, <3>4, <4>1, <4>2
      <3>. QED  BY <2>2, <3>3, <3>5
    <2>5. CASE Ics!Exhausted(turn) /\ turn = 0
      <3>1. c >= MaxWork /\ MaxWork - 1 - c \in Int /\ MaxWork - 1 - c <= 0
        BY <1>5, <2>3, <2>5
      <3>2. pack.exdates # {}
        <4>1. c # 0
          BY <1>5, <3>1
        <4>. QED  BY <2>2, <4>1, FS_EmptySet DEF Ics!Cardinality, Cardinality
      <3>3. PICK id \in pack.exdates : id \in Nat
        BY <1>3, <3>2
      <3>4. /\ Ics!Occurrence(MaxWork - 1 - c) \in Int
            /\ Ics!Occurrence(MaxWork - 1 - c) <= Ics!Master.start
        <4>1. 0 \in Int
          OBVIOUS
        <4>. QED  BY <1>3, <3>1, <4>1, OccurrencesGrow
      <3>5. CASE id \in Ics!Occurrences
        <4>1. id >= Ics!Master.start /\ Ics!Master.start \in Nat
          BY <1>3, <1>4, <3>5 DEF MasterForms
        <4>2. Ics!Occurrence(MaxWork - 1 - c) <= id
          BY <3>3, <3>4, <4>1
        <4>. QED  BY <2>2, <4>2
      <3>6. CASE id \notin Ics!Occurrences
        BY <3>6
      <3>. QED  BY <3>5, <3>6
    <2>6. CASE /\ Ics!Ends(turn) \/ ~Ics!Exhausted(turn)
               /\ ~(Ics!Named \cup pack.exdates \subseteq past)
      <3>1. PICK id \in Ics!Named \cup pack.exdates : id \notin past /\ id \in Nat
        BY <1>3, <2>6
      <3>2. Ics!Ends(turn) \/ Ics!Enough(Ics!Occurrence(turn))
        BY <1>1, <2>6
      <3>3. ASSUME id \in Ics!Occurrences  PROVE FALSE
        <4>1. id >= Ics!Occurrence(turn) /\ ~Ics!Ends(turn)
          BY <1>2, <1>4, <3>1, <3>3
        <4>2. Ics!Occurrence(turn) > id
          BY <3>2, <4>1 DEF Ics!Enough
        <4>. QED  BY <1>5, <3>1, <4>1, <4>2
      <3>. QED  BY <3>3
    <2>. QED  BY <2>1, <2>4, <2>5, <2>6
  <1>8. turn' \in {Ics!Done, Ics!Failed} /\ turn' \notin Nat /\ Ics!Done # Ics!Failed
    BY <1>1 DEF Ics!Done, Ics!Failed
  <1>9. Ics!TypeOK'
    BY <1>1, <1>8 DEF IcsInv, Ics!TypeOK, Ics!Done, Ics!Failed
  <1>10. Ics!ReadsTheWindow'
    BY <1>1, <1>6, <1>7, ReadsIf
  <1>. QED  BY <1>8, <1>9, <1>10 DEF IcsInv, Reading

\* A feed that is not one event is turned away.
LEMMA RejectReads ==
    ASSUME IcsInv, Ics!Reject
    PROVE  IcsInv'
  <1>1. /\ ~Ics!WellFormed /\ turn' = Ics!Failed
        /\ pack' = pack /\ past' = past /\ instances' = instances
    BY DEF Ics!Reject
  <1>2. turn' \notin Nat /\ turn' # Ics!Done
    BY <1>1 DEF Ics!Done, Ics!Failed
  <1>3. Ics!TypeOK'
    BY <1>1 DEF IcsInv, Ics!TypeOK
  <1>4. Ics!ReadsTheWindow'
    BY <1>1, <1>2, ReadsIf
  <1>. QED  BY <1>2, <1>3, <1>4 DEF IcsInv, Reading

\* An event that does not recur has the one occurrence.
LEMMA ReadOnceReads ==
    ASSUME IcsAssumption, IcsInv, Ics!ReadOnce
    PROVE  IcsInv'
  <1>1. /\ Ics!WellFormed /\ Ics!Master.interval = 0 /\ turn' = Ics!Done /\ pack \in Packs
        /\ pack' = pack /\ past' = past
        /\ instances' = IF Ics!Overlaps(Ics!Master.start, Ics!Master.start + Ics!Master.length)
                        THEN {Ics!NormalizeInstance(Ics!Master.start, Ics!Master.start,
                                                    Ics!Master.length, Ics!Master.cancelled)}
                        ELSE {}
    BY DEF Ics!ReadOnce, IcsInv, Ics!TypeOK
  <1>2. turn' \notin Nat /\ turn' # Ics!Failed
    BY <1>1 DEF Ics!Done, Ics!Failed
  <1>3. Ics!Master \in MasterForms
    BY <1>1, FormedWell
  <1>4. pack.exceptions = {} /\ pack.exdates = {}
    BY <1>1 DEF Ics!WellFormed
  <1>5. PICK at : at = Ics!Master.start
    OBVIOUS
  <1>6. PICK length : length = Ics!Master.length
    OBVIOUS
  <1>7. PICK p : p = <<at, at + length>>
    OBVIOUS
  <1>8. p[1] = at /\ p[2] = at + length
    BY <1>7
  <1>9. Place(at) = {p}
    BY <1>4, <1>6, <1>7 DEF Place, MovedTo
  <1>10. CalledOff(at) = Ics!Master.cancelled
    BY <1>3, <1>4 DEF CalledOff, MasterForms
  <1>11. PICK there : there = {q \in Place(at) : q[1] < Ics!WindowEnd /\ q[2] > Now}
    OBVIOUS
  <1>12. there = IF Ics!Overlaps(at, at + length) THEN {p} ELSE {}
    BY <1>8, <1>9, <1>11 DEF Ics!Overlaps
  <1>13. Yield(at) = {[id |-> at, start |-> q[1], end |-> q[2], status |-> Ics!Status(CalledOff(at))] :
                         q \in there}
    BY <1>11 DEF Yield
  <1>14. Ics!NormalizeInstance(at, at, length, Ics!Master.cancelled)
            = [id |-> at, start |-> p[1], end |-> p[2], status |-> Ics!Status(CalledOff(at))]
    BY <1>8, <1>10 DEF Ics!NormalizeInstance
  <1>15. instances' = Yield(at)
    BY <1>1, <1>5, <1>6, <1>12, <1>13, <1>14
  <1>16. Ics!Occurrences = {at}
    BY <1>1, <1>5 DEF Ics!Occurrences
  <1>17. instances' = UNION {Yield(id) : id \in Ics!Occurrences}
    BY <1>15, <1>16
  <1>18. Ics!ReadsTheWindow'
    BY <1>1, <1>2, <1>17, ReadsIf
  <1>19. Ics!NormalizeInstance(at, at, length, Ics!Master.cancelled) \in
            [id : Nat, start : Nat, end : Nat, status : {"scheduled", "cancelled"}]
    BY <1>3, <1>5, <1>6 DEF Ics!NormalizeInstance, Ics!Status, MasterForms
  <1>20. Ics!TypeOK'
    BY <1>1, <1>5, <1>6, <1>19 DEF IcsInv, Ics!TypeOK
  <1>. QED  BY <1>2, <1>18, <1>20 DEF IcsInv, Reading

\* The occurrence is added to those that the loop has come by.
LEMMA IterateReads ==
    ASSUME IcsAssumption, IcsInv, Ics!Iterate
    PROVE  IcsInv'
  <1>1. /\ turn \in Nat /\ pack \in Packs /\ Ics!WellFormed /\ Ics!Master.interval > 0
        /\ ~Ics!Ends(turn) /\ ~Ics!Exhausted(turn) /\ ~Ics!Enough(Ics!Occurrence(turn))
    BY DEF Ics!Iterate, IcsInv, Ics!TypeOK, Ics!Failed, Ics!Done
  <1>2. /\ instances' = instances \cup Yield(Ics!Occurrence(turn))
        /\ past' = past \cup {Ics!Occurrence(turn)} /\ pack' = pack
        /\ \/ turn' = turn + 1
           \/ turn' = Ics!Failed /\ \E x \in pack.exceptions : x.moved /\ x.length <= 0
        /\ Yield(Ics!Occurrence(turn)) \subseteq
              [id : Nat, start : Nat, end : Nat, status : {"scheduled", "cancelled"}]
    BY <1>1, IterateYields
  <1>3. /\ turn <= MaxWork
        /\ \A n \in 0 .. turn - 1 : ~Ics!Ends(n) /\ ~Ics!Exhausted(n) /\ ~Ics!Enough(Ics!Occurrence(n))
        /\ past = {Ics!Occurrence(n) : n \in 0 .. turn - 1}
        /\ instances = UNION {Yield(Ics!Occurrence(n)) : n \in 0 .. turn - 1}
    BY <1>1 DEF IcsInv, Reading
  <1>4. Ics!Master \in MasterForms /\ Cardinality(pack.exdates) \in Nat
    BY <1>1, FormedWell
  <1>5. Ics!Occurrence(turn) \in Nat
    BY <1>1, <1>4, OccurrencesGrow
  <1>6. Ics!TypeOK'
    <2>1. /\ past \in SUBSET Nat
          /\ instances \in SUBSET [id : Nat, start : Nat, end : Nat, status : {"scheduled", "cancelled"}]
      BY DEF IcsInv, Ics!TypeOK
    <2>2. past' \in SUBSET Nat
      BY <1>2, <1>5, <2>1
    <2>3. instances' \in SUBSET [id : Nat, start : Nat, end : Nat, status : {"scheduled", "cancelled"}]
      <3>. DEFINE Ones == [id : Nat, start : Nat, end : Nat, status : {"scheduled", "cancelled"}]
                  Its == Yield(Ics!Occurrence(turn))
      <3>1. instances \subseteq Ones /\ Its \subseteq Ones /\ instances' = instances \cup Its
        BY <1>2, <2>1
      <3>. HIDE DEF Ones, Its
      <3>2. instances' \subseteq Ones
        BY <3>1
      <3>. QED  BY <3>2 DEF Ones
    <2>4. turn' \in Nat \cup {Ics!Failed, Ics!Done}
      BY <1>1, <1>2
    <2>. QED  BY <1>1, <1>2, <2>2, <2>3, <2>4 DEF Ics!TypeOK
  <1>7. CASE turn' = Ics!Failed /\ \E x \in pack.exceptions : x.moved /\ x.length <= 0
    <2>1. turn' \notin Nat /\ turn' # Ics!Done
      BY <1>7 DEF Ics!Done, Ics!Failed
    <2>2. Ics!ReadsTheWindow'
      BY <1>2, <1>7, <2>1, ReadsIf
    <2>. QED  BY <1>6, <2>1, <2>2 DEF IcsInv, Reading
  <1>8. CASE turn' = turn + 1
    <2>1. turn' \in Nat /\ turn' # Ics!Done /\ turn' # Ics!Failed
      BY <1>1, <1>8 DEF Ics!Done, Ics!Failed
    <2>2. Ics!ReadsTheWindow'
      BY <1>2, <2>1, ReadsIf
    <2>3. turn + 1 <= MaxWork
      <3>1. PICK c \in Nat : c = Ics!Cardinality(pack.exdates)
        BY <1>4 DEF Ics!Cardinality, Cardinality
      <3>2. ~(turn + 1 + c > MaxWork)
        BY <1>1, <3>1 DEF Ics!Exhausted
      <3>. QED  BY <1>1, <3>1, <3>2 DEF IcsAssumption
    <2>4. \A n : n \in 0 .. turn <=> n \in 0 .. turn - 1 \/ n = turn
      BY <1>1
    <2>5. /\ \A n \in 0 .. turn : ~Ics!Ends(n) /\ ~Ics!Exhausted(n) /\ ~Ics!Enough(Ics!Occurrence(n))
          /\ past' = {Ics!Occurrence(n) : n \in 0 .. turn}
      BY <1>1, <1>2, <1>3, <2>4
    <2>6. instances' = UNION {Yield(Ics!Occurrence(n)) : n \in 0 .. turn}
      <3>1. ASSUME NEW i \in instances'  PROVE \E n \in 0 .. turn : i \in Yield(Ics!Occurrence(n))
        BY <1>2, <1>3, <2>4, <3>1
      <3>2. ASSUME NEW n \in 0 .. turn  PROVE Yield(Ics!Occurrence(n)) \subseteq instances'
        BY <1>2, <1>3, <2>4, <3>2
      <3>. QED  BY <3>1, <3>2
    <2>7. turn' - 1 = turn
      BY <1>1, <1>8
    <2>8. /\ Ics!Master' = Ics!Master
          /\ \A n : Ics!Occurrence(n)' = Ics!Occurrence(n)
          /\ \A n : (Ics!Ends(n)' <=> Ics!Ends(n)) /\ (Ics!Exhausted(n)' <=> Ics!Exhausted(n))
          /\ \A n : Ics!Enough(n)' <=> Ics!Enough(n)
          /\ \A id : Yield(id)' = Yield(id)
          /\ Ics!WellFormed' <=> Ics!WellFormed
      BY <1>2, SameFeed
    <2>9. /\ (\A n \in 0 .. turn - 1 : ~Ics!Ends(n) /\ ~Ics!Exhausted(n) /\ ~Ics!Enough(Ics!Occurrence(n)))'
          /\ (past = {Ics!Occurrence(n) : n \in 0 .. turn - 1})'
          /\ (instances = UNION {Yield(Ics!Occurrence(n)) : n \in 0 .. turn - 1})'
      BY <2>5, <2>6, <2>7, <2>8
    <2>. QED  BY <1>1, <1>6, <1>8, <2>2, <2>3, <2>8, <2>9 DEF IcsInv, Reading
  <1>. QED  BY <1>2, <1>7, <1>8

\* A step that changes nothing keeps what it was.
LEMMA StayReads ==
    ASSUME IcsInv, UNCHANGED Ics!feedVars
    PROVE  IcsInv'
  <1>1. pack' = pack /\ turn' = turn /\ past' = past /\ instances' = instances
    BY DEF Ics!feedVars
  <1>2. Ics!TypeOK'
    BY <1>1 DEF IcsInv, Ics!TypeOK
  <1>3. /\ Ics!Master' = Ics!Master
        /\ \A n : Ics!Occurrence(n)' = Ics!Occurrence(n)
        /\ \A n : (Ics!Ends(n)' <=> Ics!Ends(n)) /\ (Ics!Exhausted(n)' <=> Ics!Exhausted(n))
        /\ \A n : Ics!Enough(n)' <=> Ics!Enough(n)
        /\ \A id : Yield(id)' = Yield(id)
        /\ Ics!WellFormed' <=> Ics!WellFormed
    BY <1>1, SameFeed
  <1>4. CASE ~Reading
    <2>1. Ics!ReadsTheWindow
      BY DEF IcsInv
    <2>2. turn = Ics!Done => instances = UNION {Yield(id) : id \in Ics!Occurrences}
      BY <2>1 DEF Ics!ReadsTheWindow, Yield, Place, MovedTo, CalledOff
    <2>3. turn = Ics!Failed =>
              \/ ~Ics!WellFormed
              \/ \E x \in pack.exceptions : x.moved /\ x.length <= 0
              \/ ~(Ics!Named \cup pack.exdates \subseteq Ics!Occurrences)
              \/ LET last == Ics!Occurrence(MaxWork - 1 - Ics!Cardinality(pack.exdates))
                 IN last < Ics!WindowEnd \/ \E id \in Ics!Named \cup pack.exdates : last <= id
      BY <2>1 DEF Ics!ReadsTheWindow
    <2>4. Ics!ReadsTheWindow'
      BY <1>1, <2>2, <2>3, ReadsIf DEF Ics!Done, Ics!Failed
    <2>5. ~Reading'
      BY <1>1, <1>4 DEF Reading
    <2>. QED  BY <1>2, <2>4, <2>5 DEF IcsInv
  <1>5. CASE Reading
    <2>1. turn' # Ics!Done /\ turn' # Ics!Failed
      BY <1>1, <1>5 DEF Reading, Ics!Done, Ics!Failed
    <2>2. Ics!ReadsTheWindow'
      BY <1>1, <2>1, ReadsIf
    <2>3. /\ turn <= MaxWork
          /\ turn # 0 => Ics!WellFormed /\ Ics!Master.interval > 0
          /\ \A n \in 0 .. turn - 1 : ~Ics!Ends(n) /\ ~Ics!Exhausted(n) /\ ~Ics!Enough(Ics!Occurrence(n))
          /\ past = {Ics!Occurrence(n) : n \in 0 .. turn - 1}
          /\ instances = UNION {Yield(Ics!Occurrence(n)) : n \in 0 .. turn - 1}
      BY <1>5 DEF IcsInv
    <2>4. /\ (\A n \in 0 .. turn - 1 : ~Ics!Ends(n) /\ ~Ics!Exhausted(n) /\ ~Ics!Enough(Ics!Occurrence(n)))'
          /\ (past = {Ics!Occurrence(n) : n \in 0 .. turn - 1})'
          /\ (instances = UNION {Yield(Ics!Occurrence(n)) : n \in 0 .. turn - 1})'
      BY <1>1, <1>3, <2>3
    <2>. QED  BY <1>1, <1>2, <1>3, <2>2, <2>3, <2>4 DEF IcsInv
  <1>. QED  BY <1>4, <1>5

\* A feed that is read to the end has put out each occurrence that takes place in the window,
\* as the feed says; and one that is not is wrong, or names what is too far off.
THEOREM FeedsAreRead ==
    ASSUME IcsAssumption
    PROVE  Ics!Init /\ [][Ics!Next]_(Ics!feedVars) => [](Ics!TypeOK /\ Ics!ReadsTheWindow)
  <1>1. ASSUME Ics!Init  PROVE IcsInv
    <2>1. /\ pack \in Packs /\ turn = 0 /\ past = {} /\ instances = {}
      BY <1>1 DEF Ics!Init
    <2>2. turn # Ics!Done /\ turn # Ics!Failed
      BY <2>1 DEF Ics!Done, Ics!Failed
    <2>3. Ics!TypeOK /\ Ics!ReadsTheWindow
      BY <2>1, <2>2 DEF Ics!TypeOK, Ics!ReadsTheWindow
    <2>4. 0 .. turn - 1 = {}
      BY <2>1
    <2>. QED  BY <2>1, <2>3, <2>4 DEF IcsInv, IcsAssumption
  <1>2. IcsInv /\ [Ics!Next]_(Ics!feedVars) => IcsInv'
    BY RejectReads, ReadOnceReads, IterateReads, FinishReads, StayReads DEF Ics!Next
  <1>3. IcsInv => Ics!TypeOK /\ Ics!ReadsTheWindow
    BY DEF IcsInv
  <1>. QED  BY <1>1, <1>2, <1>3, PTL

-----------------------------------------------------------------------------
(* Recommendations.  No snooze lasts longer than what is said is           *)
(* remembered, so that all that the owner said and that still counts is    *)
(* heard.  Scores, times and ids order the events one before the other,    *)
(* and the places in that order are those of the advice.                   *)
CONSTANTS PublicEvents, MaxDistance, Travel, DismissalLasts, Remembered, BusyDays, MaxSnooze,
          MaxSaid, MaxDay
VARIABLES talk, busy, resync, advised, day
Advice == INSTANCE EventRecommendation WITH Events <- PublicEvents, said <- talk

PublicForm(e) ==
    /\ e.id \in Int /\ e.startAt \in Int /\ e.endAt \in Int /\ e.distance \in Int
    /\ e.tags \in Int /\ e.weight \in Int /\ e.contacts \in Int
Padding(e) == Travel[IF e.distance < 0 THEN 0 ELSE e.distance]
AdviceAssumption ==
    /\ IsFiniteSet(PublicEvents)
    /\ \A e, g \in PublicEvents : e.id = g.id => e = g
    /\ \A e \in PublicEvents : PublicForm(e) /\ Padding(e) \in Nat
    /\ MaxDistance \in Nat \ {0} /\ BusyDays \subseteq Int
    /\ DismissalLasts \in Nat /\ MaxSnooze \in Nat /\ Remembered \in Nat /\ MaxDay \in Nat
    /\ DismissalLasts <= Remembered /\ MaxSnooze <= Remembered

AdviceInv ==
    /\ Advice!TypeOK /\ IsFiniteSet(talk)
    /\ \A f \in talk : f.at <= day /\ f.until <= f.at + MaxSnooze

\* Scores are numbers.
LEMMA ScoresAre ==
    ASSUME AdviceAssumption, AdviceInv, NEW e \in PublicEvents
    PROVE  Advice!Score(e) \in Int
  <1>1. /\ e.startAt \in Int /\ e.distance \in Int /\ e.tags \in Int /\ e.weight \in Int
        /\ e.contacts \in Int /\ MaxDistance \in Nat \ {0} /\ day \in Int
    <2>1. PublicForm(e) /\ MaxDistance \in Nat \ {0} /\ MaxDay \in Nat
      BY DEF AdviceAssumption
    <2>2. day \in 0 .. MaxDay
      BY DEF AdviceInv, Advice!TypeOK
    <2>. QED  BY <2>1, <2>2 DEF PublicForm
  <1>2. \A some \in SUBSET talk : Advice!Cardinality(some) \in Nat
    <2>1. ASSUME NEW some \in SUBSET talk  PROVE Cardinality(some) \in Nat
      <3>1. IsFiniteSet(some)
        BY FS_Subset DEF AdviceInv
      <3>. QED  BY <3>1, FS_CardinalityType
    <2>. QED  BY <2>1 DEF Advice!Cardinality, Cardinality
  <1>3. Advice!TimeScore(e) \in Int
    BY DEF Advice!TimeScore
  <1>4. Advice!DistanceScore(e) \in Int
    <2>1. PICK k \in Int : k = 25 * (MaxDistance - e.distance) + MaxDistance \div 2
      BY <1>1
    <2>2. k \div MaxDistance \in Int
      BY <1>1, <2>1
    <2>. QED  BY <2>1, <2>2 DEF Advice!DistanceScore
  <1>5. Advice!SocialScore(e) \in Int
    <2>1. PICK k \in Int : k = e.weight + IF e.category \in {"social", "networking", "community"} THEN 5 ELSE 0
      BY <1>1
    <2>. QED  BY <2>1 DEF Advice!SocialScore, Advice!Least
  <1>6. Advice!NoveltyScore(e) \in Int
    BY DEF Advice!NoveltyScore
  <1>7. Advice!FeedbackScore(e) \in Int
    <2>1. \A action : Advice!Cardinality({f \in Advice!Heard : /\ f.event.category = e.category
                                                              /\ e.category # "" /\ f.action = action}) \in Nat
      BY <1>2 DEF Advice!Heard
    <2>2. PICK a \in Nat : a = Advice!Cardinality({f \in Advice!Heard : /\ f.event.category = e.category
                                                              /\ e.category # "" /\ f.action = "accept"})
      BY <2>1
    <2>3. PICK d \in Nat : d = Advice!Cardinality({f \in Advice!Heard : /\ f.event.category = e.category
                                                              /\ e.category # "" /\ f.action = "dismiss"})
      BY <2>1
    <2>4. Advice!FeedbackScore(e) = IF 3 + a - d < 0 THEN 0 ELSE Advice!Least(5, 3 + a - d)
      BY <2>2, <2>3 DEF Advice!FeedbackScore
    <2>. QED  BY <2>4 DEF Advice!Least
  <1>8. \A a, b \in Int : Advice!Least(a, b) \in Int
    BY DEF Advice!Least
  <1>9. Advice!Least(15, 5 * e.tags) \in Int /\ Advice!Least(10, 2 * e.contacts) \in Int
    <2>1. Advice!Least(15, 5 * e.tags) = IF 15 < 5 * e.tags THEN 15 ELSE 5 * e.tags
      BY DEF Advice!Least
    <2>2. Advice!Least(10, 2 * e.contacts) = IF 10 < 2 * e.contacts THEN 10 ELSE 2 * e.contacts
      BY DEF Advice!Least
    <2>. QED  BY <1>1, <2>1, <2>2
  <1>10. PICK sum \in Int : sum = Advice!TimeScore(e) + Advice!DistanceScore(e) + Advice!Least(15, 5 * e.tags)
                                 + Advice!SocialScore(e) + Advice!Least(10, 2 * e.contacts)
                                 + Advice!NoveltyScore(e) + Advice!FeedbackScore(e)
    BY <1>3, <1>4, <1>5, <1>6, <1>7, <1>9
  <1>. QED  BY <1>8, <1>10 DEF Advice!Score

\* Of some events, those that come before others have places.
LEMMA BeforeOrders ==
    ASSUME AdviceAssumption, AdviceInv, NEW some \in SUBSET PublicEvents
    PROVE  LET ahead == [e \in some |-> {r \in some : Advice!Before(r, e)}]
           IN /\ IsFiniteSet(some) /\ Cardinality(some) \in Nat
              /\ \A e \in some : /\ IsFiniteSet(ahead[e])
                                 /\ Cardinality(ahead[e]) \in 0 .. Cardinality(some) - 1
              /\ \A r, e \in some : Advice!Before(r, e) <=> Cardinality(ahead[r]) < Cardinality(ahead[e])
              /\ \A r, e \in some : Cardinality(ahead[r]) = Cardinality(ahead[e]) => r = e
              /\ \A n \in 0 .. Cardinality(some) - 1 : \E e \in some : Cardinality(ahead[e]) = n
  <1>. DEFINE ahead == [e \in some |-> {r \in some : Advice!Before(r, e)}]
  <1>1. IsFiniteSet(some) /\ Cardinality(some) \in Nat
    BY FS_Subset, FS_CardinalityType DEF AdviceAssumption
  <1>2. \A e \in some : Advice!Score(e) \in Int /\ e.startAt \in Int /\ e.id \in Int
    BY ScoresAre DEF AdviceAssumption, PublicForm
  <1>3. \A e, g \in some : e.id = g.id => e = g
    BY DEF AdviceAssumption
  <1>4. /\ \A e \in some : ~Advice!Before(e, e)
        /\ \A r, e \in some : r # e => Advice!Before(r, e) \/ Advice!Before(e, r)
        /\ \A q, r, e \in some : Advice!Before(q, r) /\ Advice!Before(r, e) => Advice!Before(q, e)
    BY <1>2, <1>3 DEF Advice!Before
  <1>5. ahead \in [some -> SUBSET some] /\ \A e \in some : ahead[e] = {r \in some : Advice!Before(r, e)}
    OBVIOUS
  <1>. HIDE DEF ahead
  <1>6. \A r, e \in some : r \in ahead[e] <=> Advice!Before(r, e)
    BY <1>5
  <1>7. /\ \A e \in some : e \notin ahead[e]
        /\ \A r, e \in some : r # e => r \in ahead[e] \/ e \in ahead[r]
        /\ \A r, e \in some : r \in ahead[e] => ahead[r] \subseteq ahead[e]
    BY <1>4, <1>5, <1>6
  <1>8. /\ \A e \in some : /\ IsFiniteSet(ahead[e])
                           /\ Cardinality(ahead[e]) \in 0 .. Cardinality(some) - 1
        /\ \A r, e \in some : r \in ahead[e] <=> Cardinality(ahead[r]) < Cardinality(ahead[e])
        /\ \A n \in 0 .. Cardinality(some) - 1 : \E e \in some : Cardinality(ahead[e]) = n
    BY <1>1, <1>5, <1>7, Places
  <1>9. \A r, e \in some : Cardinality(ahead[r]) = Cardinality(ahead[e]) => r = e
    <2>. SUFFICES ASSUME NEW r \in some, NEW e \in some, Cardinality(ahead[r]) = Cardinality(ahead[e]), r # e
                  PROVE  FALSE
      OBVIOUS
    <2>1. Cardinality(ahead[r]) < Cardinality(ahead[e]) \/ Cardinality(ahead[e]) < Cardinality(ahead[r])
      BY <1>7, <1>8
    <2>2. Cardinality(ahead[r]) \in Int
      BY <1>8
    <2>. QED  BY <2>1, <2>2
  <1>10. \A r, e \in some : Advice!Before(r, e) <=> Cardinality(ahead[r]) < Cardinality(ahead[e])
    BY <1>6, <1>8
  <1>. QED  BY <1>1, <1>8, <1>9, <1>10 DEF ahead

\* What is recommended is the first of what the owner has time for, in their order.
LEMMA ChosenAre ==
    ASSUME AdviceAssumption, AdviceInv, Advice!Recommend, ~resync
    PROVE  LET going == {e \in Advice!Ranked : ~Advice!HasConflict(e)}
               clear == Advice!Clear
           IN /\ clear \subseteq going /\ going \subseteq PublicEvents
              /\ Cardinality(clear) \in 0 .. 3 /\ advised' \in [1 .. Cardinality(clear) -> clear]
              /\ \A e \in clear : \E n \in 1 .. Cardinality(clear) : advised'[n] = e
              /\ \A n, m \in 1 .. Cardinality(clear) :
                    n < m => advised'[n] # advised'[m] /\ Advice!Before(advised'[n], advised'[m])
              /\ \A e \in going \ clear :
                    Cardinality(clear) = 3 /\ \A a \in clear : Advice!Before(a, e)
  <1>1. PICK going : going = {e \in Advice!Ranked : ~Advice!HasConflict(e)}
    OBVIOUS
  <1>2. PICK clear : clear = Advice!Clear
    OBVIOUS
  <1>3. \A some : Advice!Cardinality(some) = Cardinality(some)
    BY DEF Advice!Cardinality, Cardinality
  <1>4. going \subseteq PublicEvents
    BY <1>1 DEF Advice!Ranked
  <1>5. clear = {e \in going : Cardinality({r \in going : Advice!Before(r, e)}) < 3}
    BY <1>1, <1>2, <1>3 DEF Advice!Clear
  <1>6. clear \subseteq going /\ clear \subseteq PublicEvents
    BY <1>4, <1>5
  <1>7. advised' = [n \in 1 .. Cardinality(clear) |->
                      CHOOSE e \in clear : Cardinality({r \in clear : Advice!Before(r, e)}) = n - 1]
    <2>1. advised' = [n \in 1 .. Advice!Cardinality(clear) |->
                      CHOOSE e \in clear : Advice!Cardinality({r \in clear : Advice!Before(r, e)}) = n - 1]
      BY <1>2 DEF Advice!Recommend
    <2>. QED  BY <2>1 DEF Advice!Cardinality, Cardinality
  <1>. DEFINE ahead == [e \in going |-> {r \in going : Advice!Before(r, e)}]
              first == [e \in clear |-> {r \in clear : Advice!Before(r, e)}]
  <1>8. /\ IsFiniteSet(going) /\ Cardinality(going) \in Nat
        /\ \A e \in going : /\ IsFiniteSet(ahead[e])
                            /\ Cardinality(ahead[e]) \in 0 .. Cardinality(going) - 1
        /\ \A r, e \in going : Advice!Before(r, e) <=> Cardinality(ahead[r]) < Cardinality(ahead[e])
        /\ \A r, e \in going : Cardinality(ahead[r]) = Cardinality(ahead[e]) => r = e
        /\ \A n \in 0 .. Cardinality(going) - 1 : \E e \in going : Cardinality(ahead[e]) = n
    BY <1>4, BeforeOrders
  <1>9. /\ IsFiniteSet(clear) /\ Cardinality(clear) \in Nat
        /\ \A e \in clear : /\ IsFiniteSet(first[e])
                            /\ Cardinality(first[e]) \in 0 .. Cardinality(clear) - 1
        /\ \A r, e \in clear : Advice!Before(r, e) <=> Cardinality(first[r]) < Cardinality(first[e])
        /\ \A r, e \in clear : Cardinality(first[r]) = Cardinality(first[e]) => r = e
        /\ \A n \in 0 .. Cardinality(clear) - 1 : \E e \in clear : Cardinality(first[e]) = n
    BY <1>6, BeforeOrders
  <1>10. /\ \A e \in going : ahead[e] = {r \in going : Advice!Before(r, e)}
         /\ \A e \in clear : first[e] = {r \in clear : Advice!Before(r, e)}
    OBVIOUS
  <1>. HIDE DEF ahead, first
  <1>11. \A e \in going : e \in clear <=> Cardinality(ahead[e]) < 3
    BY <1>5, <1>10
  <1>12. ASSUME NEW e \in clear  PROVE first[e] = ahead[e]
    <2>1. ASSUME NEW r \in ahead[e]  PROVE r \in clear
      <3>1. r \in going /\ Advice!Before(r, e) /\ e \in going
        BY <1>6, <1>10, <1>12, <2>1
      <3>2. Cardinality(ahead[r]) < Cardinality(ahead[e]) /\ Cardinality(ahead[e]) < 3
        BY <1>8, <1>11, <3>1
      <3>3. Cardinality(ahead[r]) \in Int /\ Cardinality(ahead[e]) \in Int
        BY <1>8, <3>1
      <3>. QED  BY <1>11, <3>1, <3>2, <3>3
    <2>. QED  BY <1>6, <1>10, <2>1
  <1>13. Cardinality(clear) \in 0 .. 3
    <2>. SUFFICES ASSUME Cardinality(clear) > 3  PROVE FALSE
      BY <1>9
    <2>1. 3 \in 0 .. Cardinality(clear) - 1
      BY <1>9
    <2>2. PICK e \in clear : Cardinality(first[e]) = 3
      BY <1>9, <2>1
    <2>3. Cardinality(ahead[e]) < 3
      BY <1>6, <1>11
    <2>. QED  BY <1>12, <2>2, <2>3
  <1>14. ASSUME NEW n \in 1 .. Cardinality(clear)
         PROVE  advised'[n] \in clear /\ Cardinality(first[advised'[n]]) = n - 1
    <2>1. n - 1 \in 0 .. Cardinality(clear) - 1
      BY <1>9
    <2>2. \E e \in clear : Cardinality(first[e]) = n - 1
      BY <1>9, <2>1
    <2>3. \E e \in clear : Cardinality({r \in clear : Advice!Before(r, e)}) = n - 1
      BY <1>10, <2>2
    <2>4. advised'[n] = CHOOSE e \in clear : Cardinality({r \in clear : Advice!Before(r, e)}) = n - 1
      BY <1>7
    <2>5. advised'[n] \in clear /\ Cardinality({r \in clear : Advice!Before(r, advised'[n])}) = n - 1
      BY <2>3, <2>4
    <2>. QED  BY <1>10, <2>5
  <1>15. advised' \in [1 .. Cardinality(clear) -> clear]
    BY <1>7, <1>14
  <1>16. ASSUME NEW e \in clear  PROVE \E n \in 1 .. Cardinality(clear) : advised'[n] = e
    <2>1. PICK k \in 0 .. Cardinality(clear) - 1 : k = Cardinality(first[e])
      BY <1>9
    <2>2. k + 1 \in 1 .. Cardinality(clear) /\ (k + 1) - 1 = k
      BY <1>9
    <2>3. advised'[k + 1] \in clear /\ Cardinality(first[advised'[k + 1]]) = k
      BY <1>14, <2>2
    <2>4. advised'[k + 1] = e
      BY <1>9, <2>1, <2>3
    <2>. QED  BY <2>2, <2>4
  <1>17. ASSUME NEW n \in 1 .. Cardinality(clear), NEW m \in 1 .. Cardinality(clear), n < m
         PROVE  advised'[n] # advised'[m] /\ Advice!Before(advised'[n], advised'[m])
    <2>1. /\ advised'[n] \in clear /\ Cardinality(first[advised'[n]]) = n - 1
          /\ advised'[m] \in clear /\ Cardinality(first[advised'[m]]) = m - 1
      BY <1>14
    <2>2. n - 1 < m - 1 /\ n - 1 # m - 1
      BY <1>9, <1>17
    <2>. QED  BY <1>9, <2>1, <2>2
  <1>18. ASSUME NEW e \in going \ clear
         PROVE  Cardinality(clear) = 3 /\ \A a \in clear : Advice!Before(a, e)
    <2>1. Cardinality(ahead[e]) \in 0 .. Cardinality(going) - 1 /\ ~(Cardinality(ahead[e]) < 3)
      BY <1>8, <1>11
    <2>2. 2 \in 0 .. Cardinality(going) - 1
      BY <1>8, <2>1
    <2>3. PICK r \in going : Cardinality(ahead[r]) = 2
      BY <1>8, <2>2
    <2>4. r \in clear /\ Cardinality(first[r]) = 2
      BY <1>11, <1>12, <2>3
    <2>5. 2 \in 0 .. Cardinality(clear) - 1
      BY <1>9, <2>4
    <2>6. Cardinality(clear) = 3
      BY <1>9, <1>13, <2>5
    <2>7. ASSUME NEW a \in clear  PROVE Advice!Before(a, e)
      <3>1. Cardinality(ahead[a]) < 3 /\ Cardinality(ahead[a]) \in Int /\ a \in going
        BY <1>6, <1>8, <1>11
      <3>2. Cardinality(ahead[a]) < Cardinality(ahead[e])
        BY <2>1, <3>1
      <3>. QED  BY <1>8, <3>1, <3>2
    <2>. QED  BY <2>6, <2>7
  <1>. QED  BY <1>1, <1>2, <1>4, <1>6, <1>13, <1>15, <1>16, <1>17, <1>18

\* What the owner said and what still counts is heard.
LEMMA SaidIsHeard ==
    ASSUME AdviceAssumption, AdviceInv, NEW f \in talk,
           f.until > day \/ f.at >= day - DismissalLasts
    PROVE  f \in Advice!Heard
  <1>1. /\ f.at \in Int /\ f.until \in Int /\ day \in Int
        /\ f.at <= day /\ f.until <= f.at + MaxSnooze
    <2>1. f \in Advice!Feedback /\ f.at <= day /\ f.until <= f.at + MaxSnooze
      BY DEF AdviceInv, Advice!TypeOK
    <2>2. day \in 0 .. MaxDay /\ MaxDay \in Nat
      BY DEF AdviceInv, Advice!TypeOK, AdviceAssumption
    <2>. QED  BY <2>1, <2>2 DEF Advice!Feedback
  <1>2. /\ DismissalLasts \in Int /\ MaxSnooze \in Int /\ Remembered \in Int
        /\ DismissalLasts <= Remembered /\ MaxSnooze <= Remembered
    BY DEF AdviceAssumption
  <1>3. day - Remembered <= f.at
    BY <1>1, <1>2
  <1>. QED  BY <1>3 DEF Advice!Heard

\* A recommendation is good.
LEMMA RecommendsWell ==
    ASSUME AdviceAssumption, AdviceInv, Advice!Recommend
    PROVE  Advice!GoodAdvice
  <1>. SUFFICES ASSUME ~resync  PROVE Advice!GoodAdvice
    BY DEF Advice!GoodAdvice
  <1>1. PICK going : going = {e \in Advice!Ranked : ~Advice!HasConflict(e)}
    OBVIOUS
  <1>2. PICK clear : clear = Advice!Clear
    OBVIOUS
  <1>3. /\ clear \subseteq going /\ going \subseteq PublicEvents
        /\ Cardinality(clear) \in 0 .. 3 /\ advised' \in [1 .. Cardinality(clear) -> clear]
        /\ \A e \in clear : \E n \in 1 .. Cardinality(clear) : advised'[n] = e
        /\ \A n, m \in 1 .. Cardinality(clear) :
              n < m => advised'[n] # advised'[m] /\ Advice!Before(advised'[n], advised'[m])
        /\ \A e \in going \ clear :
              Cardinality(clear) = 3 /\ \A a \in clear : Advice!Before(a, e)
    BY <1>1, <1>2, ChosenAre
  <1>4. DOMAIN advised' = 1 .. Cardinality(clear) /\ \A n \in DOMAIN advised' : advised'[n] \in clear
    BY <1>3
  <1>5. {advised'[n] : n \in DOMAIN advised'} = clear
    BY <1>3, <1>4
  <1>6. \A r, e \in PublicEvents : Advice!Before(r, e) => Advice!Score(r) >= Advice!Score(e)
    BY ScoresAre DEF Advice!Before
  <1>7. ASSUME NEW e \in clear
        PROVE  /\ e.endAt > day /\ \A d \in busy : d < e.startAt \/ d >= e.endAt
               /\ ~\E f \in talk : /\ f.event = e
                                   /\ f.until > day \/ (f.action = "dismiss" /\ f.at >= day - DismissalLasts)
    <2>1. e \in PublicEvents /\ e.endAt > day /\ ~Advice!IsExcluded(e) /\ ~Advice!HasConflict(e)
      BY <1>1, <1>3 DEF Advice!Ranked
    <2>2. /\ e.startAt \in Int /\ e.endAt \in Int /\ Padding(e) \in Nat /\ busy \subseteq Int
      BY <2>1 DEF AdviceAssumption, AdviceInv, Advice!TypeOK, PublicForm
    <2>3. \A d \in busy : ~(e.startAt - Padding(e) <= d /\ d < e.endAt + Padding(e))
      BY <2>1 DEF Advice!HasConflict, Padding
    <2>4. \A d \in busy : d < e.startAt \/ d >= e.endAt
      BY <2>2, <2>3
    <2>5. ASSUME NEW f \in talk, f.event = e,
                 f.until > day \/ (f.action = "dismiss" /\ f.at >= day - DismissalLasts)
          PROVE  FALSE
      <3>1. f \in Advice!Heard
        BY <2>5, SaidIsHeard
      <3>2. f.at >= day - DismissalLasts <=> day - DismissalLasts <= f.at
        OBVIOUS
      <3>. QED  BY <2>1, <2>5, <3>1, <3>2 DEF Advice!IsExcluded
    <2>. QED  BY <2>1, <2>4, <2>5
  <1>8. ASSUME NEW e \in PublicEvents \ clear
        PROVE  \/ e \notin Advice!Ranked \/ Advice!HasConflict(e)
               \/ Advice!Cardinality(clear) = 3 /\ (\A a \in clear : Advice!Score(a) >= Advice!Score(e))
    BY <1>1, <1>3, <1>6 DEF Advice!Cardinality, Cardinality
  <1>9. \A n, m \in DOMAIN advised' : n < m => /\ advised'[n] # advised'[m]
                                              /\ Advice!Score(advised'[n]) >= Advice!Score(advised'[m])
    BY <1>3, <1>4, <1>6
  <1>. QED  BY <1>5, <1>7, <1>8, <1>9 DEF Advice!GoodAdvice

\* Advice is of three events at most, whatever calendar there is.
LEMMA AdviceTypes ==
    ASSUME AdviceAssumption, AdviceInv, Advice!Recommend
    PROVE  AdviceInv'
  <1>1. advised' \in UNION {[1 .. n -> PublicEvents] : n \in 0 .. 3}
    <2>1. CASE resync
      <3>1. advised' = << >>
        BY <2>1 DEF Advice!Recommend
      <3>2. advised' \in [1 .. 0 -> PublicEvents]
        BY <3>1
      <3>. QED  BY <3>2
    <2>2. CASE ~resync
      <3>1. PICK clear : /\ clear \subseteq PublicEvents /\ Cardinality(clear) \in 0 .. 3
                         /\ advised' \in [1 .. Cardinality(clear) -> clear]
        BY <2>2, ChosenAre
      <3>2. advised' \in [1 .. Cardinality(clear) -> PublicEvents]
        BY <3>1
      <3>. QED  BY <3>1, <3>2
    <2>. QED  BY <2>1, <2>2
  <1>2. talk' = talk /\ busy' = busy /\ resync' = resync /\ day' = day
    BY DEF Advice!Recommend
  <1>. QED  BY <1>1, <1>2 DEF AdviceInv, Advice!TypeOK, Advice!Feedback

\* What is recommended is what the owner can go to and has not turned down, in order, and
\* nothing better is missed.
THEOREM AdviceIsGood ==
    ASSUME AdviceAssumption
    PROVE  Advice!Init /\ [][Advice!Next]_(Advice!recommendationVars) =>
              /\ []Advice!TypeOK
              /\ [][advised' # advised => Advice!GoodAdvice]_(Advice!recommendationVars)
  <1>1. Advice!Init => AdviceInv
    <2>. SUFFICES ASSUME Advice!Init  PROVE AdviceInv
      OBVIOUS
    <2>1. talk = {} /\ busy \in SUBSET BusyDays /\ resync = FALSE /\ advised = << >> /\ day = 0
      BY DEF Advice!Init
    <2>2. advised \in [1 .. 0 -> PublicEvents]
      BY <2>1
    <2>3. IsFiniteSet(talk)
      BY <2>1, FS_EmptySet
    <2>4. advised \in UNION {[1 .. n -> PublicEvents] : n \in 0 .. 3}
      BY <2>2
    <2>5. day \in 0 .. MaxDay
      BY <2>1 DEF AdviceAssumption
    <2>. QED  BY <2>1, <2>3, <2>4, <2>5 DEF AdviceInv, Advice!TypeOK
  <1>2. ASSUME AdviceInv, Advice!Next
        PROVE  AdviceInv' /\ (advised' # advised => Advice!GoodAdvice)
    <2>1. CASE Advice!Recommend
      BY <1>2, <2>1, AdviceTypes, RecommendsWell
    <2>2. CASE Advice!ChangeCalendar
      <3>1. talk' = talk /\ advised' = advised /\ day' = day
            /\ busy' \in SUBSET BusyDays /\ resync' \in BOOLEAN
        BY <1>2, <2>2 DEF Advice!ChangeCalendar, AdviceInv, Advice!TypeOK
      <3>. QED  BY <1>2, <3>1 DEF AdviceInv, Advice!TypeOK, Advice!Feedback
    <2>3. CASE Advice!NextDay
      <3>1. /\ talk' = talk /\ advised' = advised /\ busy' = busy /\ resync' = resync
            /\ day' = day + 1 /\ day < MaxDay /\ day \in 0 .. MaxDay /\ MaxDay \in Nat
        BY <1>2, <2>3 DEF Advice!NextDay, AdviceInv, Advice!TypeOK, AdviceAssumption
      <3>2. day' \in 0 .. MaxDay
        BY <3>1
      <3>3. \A f \in talk : f.at \in Nat /\ f.at <= day
        BY <1>2 DEF AdviceInv, Advice!TypeOK, Advice!Feedback
      <3>4. \A f \in talk : f.at <= day'
        BY <3>1, <3>3
      <3>. QED  BY <1>2, <3>1, <3>2, <3>4 DEF AdviceInv, Advice!TypeOK, Advice!Feedback
    <2>4. ASSUME NEW e \in PublicEvents, NEW action \in {"accept", "dismiss", "snooze"}, Advice!Say(e, action)
          PROVE  AdviceInv' /\ advised' = advised
      <3>1. PICK until \in IF action = "snooze" THEN day + 1 .. day + MaxSnooze ELSE {0} :
               talk' = talk \cup {[event |-> e, action |-> action, at |-> day, until |-> until]}
        BY <2>4 DEF Advice!Say
      <3>2. busy' = busy /\ resync' = resync /\ advised' = advised /\ day' = day
        BY <2>4 DEF Advice!Say
      <3>3. day \in Nat /\ MaxSnooze \in Nat
        BY <1>2 DEF AdviceInv, Advice!TypeOK, AdviceAssumption
      <3>4. until \in Nat /\ until <= day + MaxSnooze
        BY <3>1, <3>3
      <3>5. PICK one : one = [event |-> e, action |-> action, at |-> day, until |-> until]
        OBVIOUS
      <3>6. one \in Advice!Feedback /\ one.at = day /\ one.until = until
        BY <3>3, <3>4, <3>5 DEF Advice!Feedback
      <3>7. talk' = talk \cup {one} /\ IsFiniteSet(talk')
        BY <1>2, <3>1, <3>5, FS_AddElement DEF AdviceInv
      <3>8. \A f \in talk' : f.at <= day /\ f.until <= f.at + MaxSnooze
        BY <1>2, <3>3, <3>4, <3>6, <3>7 DEF AdviceInv
      <3>9. talk' \subseteq Advice!Feedback
        BY <1>2, <3>6, <3>7 DEF AdviceInv, Advice!TypeOK
      <3>. QED  BY <1>2, <3>2, <3>7, <3>8, <3>9 DEF AdviceInv, Advice!TypeOK, Advice!Feedback
    <2>. QED  BY <1>2, <2>1, <2>2, <2>3, <2>4 DEF Advice!Next
  <1>3. AdviceInv /\ UNCHANGED Advice!recommendationVars => AdviceInv'
    BY DEF AdviceInv, Advice!TypeOK, Advice!recommendationVars, Advice!Feedback
  <1>4. AdviceInv => Advice!TypeOK
    BY DEF AdviceInv
  <1>5. AdviceInv /\ [Advice!Next]_(Advice!recommendationVars)
           => AdviceInv' /\ [advised' # advised => Advice!GoodAdvice]_(Advice!recommendationVars)
    BY <1>2, <1>3
  <1>. QED  BY <1>1, <1>4, <1>5, PTL

=============================================================================
