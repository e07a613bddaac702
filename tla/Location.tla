------------------------------- MODULE Location -------------------------------
(* One location device (modules/location): what the phone delivers is      *)
(* stored (location-ingest.service.ts), visits are derived from it         *)
(* (visit-derivation.service.ts), and old samples and visits are removed   *)
(* every night (location-retention.service.ts).                            *)
(*                                                                         *)
(* A delivery is authenticated, stored in one transaction and derived      *)
(* from in another one; deliveries run concurrently, late, repeatedly and  *)
(* in any order.  Derivations hold the lock of the device, one at a time;  *)
(* retention does not.  Both read and write in steps of their own: their   *)
(* transactions are READ COMMITTED.                                        *)
EXTENDS Integers, FiniteSets, Sequences, SequencesExt, TLC

CONSTANTS
    OpenRadius,       \* OPEN_RADIUS_M
    AwayRadius,       \* AWAY_RADIUS_M
    OpenDuration,     \* OPEN_DURATION_MS
    AwayDuration,     \* AWAY_DURATION_MS
    Payloads,         \* what the phone reports: samples without receivedAt
    Requests,         \* deliveries in progress
    FollowingWindow,  \* FOLLOWING_WINDOW_MS
    Cutoffs,          \* the times before which nothing is retained, one for each night
    MayFail,          \* whether a delivery may fail, or its process restart
    MaxWritten        \* bound on how often visits are written

Never == 0  \* departedAt of an open visit: null

\* Samples have the fields at (recordedAt), order (of their ids), place, weight (the
\* inverse of their accuracy) and fine (accurate within 200 m, or of unknown accuracy).
Before(s, t) == s.at < t.at \/ (s.at = t.at /\ s.order < t.order)

Ordered(S) == \A s, t \in S : Before(s, t) \/ Before(t, s) \/ s = t

ASSUME ConstantsAssumption ==
    /\ \A p \in Payloads : /\ p.at \in Nat \ {Never} /\ p.weight \in Nat \ {0}
                            /\ p.order \in Nat /\ p.place \in Int /\ p.fine \in BOOLEAN
    /\ Ordered(Payloads)
    /\ {OpenRadius, AwayRadius} \subseteq Nat /\ OpenRadius <= AwayRadius
    /\ {OpenDuration, AwayDuration, FollowingWindow} \subseteq Nat \ {0}
    /\ Cutoffs \subseteq Nat /\ MayFail \in BOOLEAN /\ MaxWritten \in Nat

VARIABLES
    status,     \* of the LocationDevice: "active" or "revoked"
    lastSeenAt, \* of the LocationDevice, Never if null
    samples,    \* LocationSample rows
    visits,     \* DerivedVisit rows; their samples stand for sourceMac
    request,    \* local state of the deliveries
    retention,  \* local state of the nightly retention
    nights,     \* the cutoffs of the nights that were
    written     \* how often visits were written: the time, as far as receivedAt and
                \* updatedAt are compared by it

vars == <<status, lastSeenAt, samples, visits, request, retention, nights, written>>
device == <<status, lastSeenAt>>
nightly == <<retention, nights>>

Sample(p, n) == [at |-> p.at, order |-> p.order, place |-> p.place, weight |-> p.weight,
                 fine |-> p.fine, receivedAt |-> n]

Payload(s) == [at |-> s.at, order |-> s.order, place |-> s.place, weight |-> s.weight,
               fine |-> s.fine]

AllSamples == {Sample(p, n) : p \in Payloads, n \in 0 .. MaxWritten}

Idle == [pc |-> "idle"]
Visits == [pc |-> "visits"]

\* A row of visits.  beside is the model's own note: the row is open, and while its samples
\* had been read and it was not yet written, retention was about to delete samples.
VisitRow(v) ==
    /\ v.samples \subseteq AllSamples /\ v.updatedAt \in Nat
    /\ v.arrivedAt \in Nat /\ v.departedAt \in Nat /\ v.beside \in BOOLEAN

\* What a delivery holds: its sample; then its window, and the visits that bear on it; then
\* those and the samples inside.
InProgress(q) ==
    \/ q = Idle
    \/ q \in [pc : {"store", "derive"}, sample : AllSamples, current : BOOLEAN]
    \/ q.pc \in {"widen", "read"} /\ \A v \in q.over : VisitRow(v)
    \/ /\ q.pc = "write" /\ q.inside \subseteq AllSamples /\ q.beside \in BOOLEAN
       /\ \A v \in q.over : VisitRow(v)

TypeOK ==
    /\ status \in {"active", "revoked"} /\ lastSeenAt \in Nat /\ written \in Nat
    /\ samples \subseteq AllSamples
    /\ \A s, t \in samples : Payload(s) = Payload(t) => s = t
    /\ \A v \in visits : VisitRow(v) /\ \A o \in visits : o.samples = v.samples => o = v
    /\ DOMAIN request = Requests /\ \A r \in Requests : InProgress(request[r])
    /\ \/ retention = Idle
       \/ retention \in [pc : {"select"}, before : Nat]
       \/ retention \in [pc : {"delete"}, rows : SUBSET AllSamples]
       \/ retention = Visits
    /\ nights \subseteq Cutoffs

Init ==
    /\ status = "active" /\ lastSeenAt = Never
    /\ samples = {} /\ visits = {}
    /\ request = [r \in Requests |-> Idle] /\ retention = Idle /\ nights = {}
    /\ written = 0

-----------------------------------------------------------------------------
(* Visits from samples (deriveVisits): the owner is at a place once enough *)
(* samples stay close together for long enough, and leaves it with the     *)
(* first of a long enough run of samples away from it.                     *)
(*                                                                         *)
(* Places are points of a line.  A centroid is kept as its numerator and   *)
(* denominator, so that distances to it are compared without division.     *)
\* The accumulator of a centroid.
Weight(s) == FoldLeft(LAMBDA sum, e : sum + e.weight, 0, s)
Moment(s) == FoldLeft(LAMBDA sum, e : sum + e.weight * e.place, 0, s)

\* Sample e is within radius of the weighted centroid of the sequence s.
Near(e, s, radius) ==
    LET offset == Weight(s) * e.place - Moment(s)
    IN  offset <= radius * Weight(s) /\ -offset <= radius * Weight(s)

Stable(s) == \A i \in DOMAIN s : Near(s[i], s, OpenRadius)

\* From the first sample that the rest is stable from, or else the last.
StableSuffix(s) ==
    LET starts == {i \in DOMAIN s : Stable(SubSeq(s, i, Len(s)))} \cup {Len(s)}
        start == CHOOSE i \in starts : \A j \in starts : i <= j
    IN  SubSeq(s, start, Len(s))

Span(s) == Last(s).at - Head(s).at

CanOpen(s) == Len(s) >= 3 /\ Span(s) >= OpenDuration

Visit(s, departedAt) ==
    [arrivedAt |-> Head(s).at, departedAt |-> departedAt, samples |-> ToSet(s)]

\* deriveVisits goes through the samples with a candidate for the next place, the
\* samples at the present one (none: resident is null), and those away from it since.
Open(w) ==
    IF CanOpen(w.candidate)
    THEN [w EXCEPT !.resident = w.candidate, !.candidate = <<>>]
    ELSE w

Leave(w, run) ==
    Open([candidate |-> StableSuffix(run), resident |-> <<>>, away |-> <<>>,
          visits |-> w.visits \cup {Visit(w.resident, Head(run).at)}])

Stay(w, e) == [w EXCEPT !.resident = Append(@, e), !.away = <<>>]

Follow(w, e) ==
    LET run == Append(w.away, e)
    IN  CASE w.resident = <<>> ->
               Open([w EXCEPT !.candidate = StableSuffix(Append(@, e))])
          [] w.resident # <<>> /\ Near(e, w.resident, AwayRadius) -> Stay(w, e)
          [] OTHER -> IF Span(run) >= AwayDuration THEN Leave(w, run)
                                                   ELSE [w EXCEPT !.away = run]

LastOf(T) == CHOOSE e \in T : \A s \in T \ {e} : Before(s, e)

Start == [candidate |-> <<>>, resident |-> <<>>, away |-> <<>>, visits |-> {}]

\* Through a set of samples, from the first one to the last.
Walk(S) ==
    LET walk[T \in SUBSET S] ==
            IF T = {} THEN Start ELSE Follow(walk[T \ {LastOf(T)}], LastOf(T))
    IN  walk[S]

\* The visits of a set of samples.
DeriveVisits(S) ==
    LET end == Walk({s \in S : s.fine})
    IN  end.visits \cup (IF end.resident = <<>> THEN {} ELSE {Visit(end.resident, Never)})

\* The visits of S rest on samples in S, of which the first ones are those of the arrival.
VisitsRestOn(S) ==
    LET derived == DeriveVisits(S)
    IN  /\ \A c \in derived :
              /\ c.samples \subseteq S /\ c.arrivedAt \in Nat /\ c.departedAt \in Nat
              /\ \E s \in c.samples : s.at = c.arrivedAt
              /\ \A s \in c.samples : c.arrivedAt <= s.at
        /\ \A c, d \in derived : c.samples = d.samples => c = d

-----------------------------------------------------------------------------
\* Deliveries.

\* The guard compares the credentials; the phone has those of the device.
Authenticate(r, p) ==
    /\ request[r] = Idle
    /\ status = "active" /\ written < MaxWritten
    /\ request' = [request EXCEPT ![r] = [pc |-> "store", sample |-> Sample(p, written),
                                          current |-> TRUE]]
    /\ UNCHANGED <<device, samples, visits, nightly, written>>

\* The device is active and its username still that of the guard.
Current(q) == status = "active" /\ q.current

\* Mutant: the last time a phone was seen is that of whatever it delivers.
SeeAnything(q) == lastSeenAt' = IF Current(q) THEN q.sample.at ELSE lastSeenAt

\* The guarded update of monotonicLastSeenWhere.
See(q) ==
    lastSeenAt' = IF Current(q) /\ lastSeenAt < q.sample.at THEN q.sample.at ELSE lastSeenAt

\* Mutant: no unique index.
NoDuplicate(s) == FALSE

Duplicate(s) == \E t \in samples : Payload(t) = Payload(s)

Store(r) ==
    LET q == request[r] IN
    /\ q.pc = "store" /\ Current(q)
    /\ ~Duplicate(q.sample)
    /\ samples' = samples \cup {q.sample}
    /\ See(q)
    /\ request' = [request EXCEPT ![r].pc = "derive"]
    /\ UNCHANGED <<status, visits, nightly, written>>

\* The unique index refuses the row, the delivery is accepted all the same.
StoreAgain(r) ==
    LET q == request[r] IN
    /\ q.pc = "store" /\ Current(q)
    /\ Duplicate(q.sample)
    /\ See(q)
    /\ request' = [request EXCEPT ![r] = Idle]
    /\ UNCHANGED <<status, samples, visits, nightly, written>>

\* 401: the credentials were rotated or revoked since the guard saw them.
Refuse(r) ==
    /\ request[r].pc = "store" /\ ~Current(request[r])
    /\ request' = [request EXCEPT ![r] = Idle]
    /\ UNCHANGED <<device, samples, visits, nightly, written>>

\* An error or a restart: the phone is told, and may deliver again, unless the error is
\* one of the derivation, which ingest ignores.
Abandon(r) ==
    /\ MayFail
    /\ request[r] # Idle
    /\ request' = [request EXCEPT ![r] = Idle]
    /\ UNCHANGED <<device, samples, visits, nightly, written>>

-----------------------------------------------------------------------------
\* recomputeForSample, under the lock of the device.

Times(S) == {s.at : s \in S}
Latest(S) == CHOOSE t \in Times(S) : \A u \in Times(S) : u <= t
Earliest(T) == CHOOSE t \in T : \A u \in T : t <= u

Locked == \E r \in Requests : request[r].pc \in {"widen", "read", "write"}

\* The visits that a window of time bears on: visitOverlapWhere.
Overlapping(w) ==
    {v \in visits : /\ v.arrivedAt < w.end
                    /\ \/ v.departedAt = Never
                       \/ v.departedAt >= w.start - FollowingWindow}

\* From the sample before the new one through the following window.
Window(s) ==
    LET earlier == {t \in samples : Before(t, s)}
    IN  [pc |-> "widen", over |-> {},
         start |-> IF earlier = {} THEN s.at ELSE Latest(earlier),
         end |-> s.at + FollowingWindow]

\* The sample is still there, and is read once the lock is taken.
BeginDerive(r) ==
    LET s == request[r].sample IN
    /\ request[r].pc = "derive" /\ ~Locked
    /\ request' = [request EXCEPT ![r] = IF s \in samples THEN Window(s) ELSE Idle]
    /\ UNCHANGED <<device, samples, visits, nightly, written>>

\* The window begins before the visits that overlap it and ends a window after those
\* that are closed, and with the last sample if one is open.
WidestStart(w) ==
    LET arrival == Earliest({w.start} \cup {v.arrivedAt : v \in Overlapping(w)})
        previous == {t \in samples : t.at < arrival}
    IN  IF arrival = w.start \/ previous = {} THEN arrival ELSE Latest(previous)

WidestEnd(w) ==
    LET over == Overlapping(w)
        ends == {w.end} \cup {v.departedAt + FollowingWindow :
                              v \in {o \in over : o.departedAt # Never}}
        end == CHOOSE t \in ends : \A u \in ends : u <= t
        open == \E v \in over : v.departedAt = Never
    IN  IF open /\ samples # {} /\ Latest(samples) >= end THEN Latest(samples) + 1 ELSE end

\* Widened once; a window that stays as it is is read.
Widen(r) ==
    LET q == request[r]
        start == WidestStart(q)
        end == WidestEnd(q)
    IN  /\ q.pc = "widen"
        /\ request' = [request EXCEPT ![r] =
               [pc |-> IF start = q.start /\ end = q.end THEN "read" ELSE "widen",
                over |-> q.over \cup Overlapping(q), start |-> start, end |-> end]]
        /\ UNCHANGED <<device, samples, visits, nightly, written>>

\* Mutant: visits are rewritten from what is left of their samples.
AnySupport(v, S) == TRUE

\* hasExactOpeningSupport: the sample a visit began with is among S, and was received
\* before the visit was written.
OpeningSupport(v, S) ==
    \E s \in S : s.at = v.arrivedAt /\ s.fine /\ s.receivedAt <= v.updatedAt

Inside(w) == {s \in samples : w.start <= s.at /\ s.at < w.end}

\* The samples of the window are read; visits are left alone if one has lost its opening.
ReadSamples(r) ==
    LET q == request[r]
        supported == \A v \in q.over : OpeningSupport(v, Inside(q))
    IN  /\ q.pc = "read"
        /\ request' = [request EXCEPT ![r] =
               IF supported
               THEN [pc |-> "write", over |-> q.over, inside |-> Inside(q),
                     beside |-> retention.pc \in {"select", "delete"}]
               ELSE Idle]
        /\ UNCHANGED <<device, samples, visits, nightly, written>>

\* The row of a derived visit: the one there is if it is the same, else as of now.
Row(c, beside) ==
    LET same == {v \in visits : v.samples = c.samples /\ v.departedAt = c.departedAt}
    IN  IF same # {} THEN CHOOSE v \in same : TRUE
        ELSE [arrivedAt |-> c.arrivedAt, departedAt |-> c.departedAt,
              samples |-> c.samples, updatedAt |-> written,
              beside |-> c.departedAt = Never /\ beside]

\* Derived visits whose row retention removed since it was read.
Lost(q) == {c \in DeriveVisits(q.inside) : \E v \in q.over \ visits : v.samples = c.samples}

Replace(q, derived) ==
    {v \in visits \ q.over : \A c \in derived : c.samples # v.samples}
        \cup {Row(c, q.beside) : c \in derived}

\* A row that was there when it was looked for, but not when it was updated, is lost.
Write(r) ==
    LET q == request[r] IN
    /\ q.pc = "write"
    /\ \E lost \in SUBSET Lost(q) : visits' = Replace(q, DeriveVisits(q.inside) \ lost)
    /\ request' = [request EXCEPT ![r] = Idle]
    /\ written' = IF visits' = visits THEN written ELSE written + 1
    /\ UNCHANGED <<device, samples, nightly>>

Derive(r) == BeginDerive(r) \/ Widen(r) \/ ReadSamples(r) \/ Write(r)

-----------------------------------------------------------------------------
\* The owner, and the nightly retention, all batches of a device as one.

\* Deliveries that the guard let pass with the old username are refused.
Rotate ==
    /\ status = "active"
    /\ \E r \in Requests : request[r].pc = "store" /\ request[r].current
    /\ request' = [r \in Requests |-> IF request[r].pc = "store"
                                      THEN [request[r] EXCEPT !.current = FALSE]
                                      ELSE request[r]]
    /\ UNCHANGED <<device, samples, visits, nightly, written>>

Revoke ==
    /\ status = "active"
    /\ status' = "revoked"
    /\ UNCHANGED <<lastSeenAt, samples, visits, request, nightly, written>>

\* Mutant: the samples of open visits are not spared.
NoneOpen(cutoff) == {}

OpenBefore(cutoff) == {v \in visits : v.departedAt = Never /\ v.arrivedAt < cutoff}

\* deleteSampleBatches: the open visit that began first, the samples before it and before
\* the cutoff, and their deletion, each by a statement of its own and without the lock.
ReadOpen(cutoff) ==
    LET arrivals == {v.arrivedAt : v \in OpenBefore(cutoff)}
    IN  /\ retention = Idle /\ cutoff \notin nights
        /\ retention' = [pc |-> "select", before |-> Earliest({cutoff} \cup arrivals)]
        /\ nights' = nights \cup {cutoff}
        /\ request' = [r \in Requests |-> IF request[r].pc = "write"
                                          THEN [request[r] EXCEPT !.beside = TRUE]
                                          ELSE request[r]]
        /\ UNCHANGED <<device, samples, visits, written>>

SelectSamples ==
    LET rows == {s \in samples : s.at < retention.before}
    IN  /\ retention.pc = "select"
        /\ retention' = IF rows = {} THEN Visits ELSE [pc |-> "delete", rows |-> rows]
        /\ UNCHANGED <<device, samples, visits, request, nights, written>>

DeleteSamples ==
    /\ retention.pc = "delete"
    /\ samples' = samples \ retention.rows
    /\ retention' = Visits
    /\ UNCHANGED <<device, visits, request, nights, written>>

Expired(v, cutoff) == v.departedAt # Never /\ v.departedAt < cutoff

\* deleteVisitBatches, which end the night.  Visits may be kept longer than samples.
DeleteVisits(cutoff) ==
    /\ retention = Visits
    /\ visits' = {v \in visits : ~Expired(v, cutoff)}
    /\ retention' = Idle
    /\ UNCHANGED <<device, samples, request, nights, written>>

\* An error or a restart: the rest is for the next night.
StopRetention ==
    /\ MayFail /\ retention # Idle
    /\ retention' = Idle
    /\ UNCHANGED <<device, samples, visits, request, nights, written>>

Retention ==
    \/ \E c \in Cutoffs : ReadOpen(c) \/ DeleteVisits(c)
    \/ SelectSamples \/ DeleteSamples \/ StopRetention

Deliver(r) ==
    \/ \E p \in Payloads : Authenticate(r, p)
    \/ Store(r) \/ StoreAgain(r) \/ Refuse(r) \/ Derive(r) \/ Abandon(r)

Next == Rotate \/ Revoke \/ Retention \/ \E r \in Requests : Deliver(r)

Spec == Init /\ [][Next]_vars

-----------------------------------------------------------------------------
\* Properties.

\* Whatever arrives late or twice, the time a device was last seen never goes back
\* (monotonicLastSeenWhere).
LastSeenNeverBack == [][lastSeenAt' >= lastSeenAt]_vars

\* Retention leaves an open visit all the samples it stands for, so that it can be
\* derived again (deleteSampleBatches): whatever deliveries and retention do, except when
\* retention was under way while the visit was derived and written.
OpenVisitsKeepSamples ==
    \A v \in visits : v.departedAt = Never /\ ~v.beside => v.samples \subseteq samples

\* The samples a visit began with are gone, and no derivation has read them; others of the
\* same time may have come later.
OpeningGone(v) ==
    \A s \in samples \cup UNION {request[r].inside :
                                 r \in {q \in Requests : request[q].pc = "write"}} :
        s.at = v.arrivedAt => s.receivedAt > v.updatedAt

\* A visit whose opening is no longer retained is history: nothing that is delivered
\* late changes or removes it (hasExactOpeningSupport).
HistoryStands ==
    [][request' # request => \A v \in visits : OpeningGone(v) => v \in visits']_vars

\* "open after three samples remain within 150 m for 10 minutes"
\* (docs/superpowers/plans/2026-07-16-calendar-location.md:490): when a stay is all that
\* was delivered, and nothing is in progress, there is a visit.
StaysAreVisits ==
    (\A r \in Requests : request[r] = Idle) /\ DeriveVisits(samples) # {} => visits # {}

\* The phone delivers its samples in the order it took them.
InOrder == \A s \in samples' \ samples, t \in samples : t.at <= s.at

OrderedSpec == Init /\ [][Next /\ InOrder]_vars

-----------------------------------------------------------------------------
(* Instances for TLC, five minutes to the unit of time: a visit opens      *)
(* after 2 units and closes after 1, the following window has 3 units.     *)
(* Home and work are farther apart than any of the radii.                  *)
Home == 0
Work == 9

At(place, at, order) ==
    [at |-> at, order |-> order, place |-> place, weight |-> 1, fine |-> TRUE]

\* The owner leaves home for work.
DayOut == {At(Home, 1, 1), At(Home, 2, 2), At(Home, 3, 3),
           At(Work, 4, 4), At(Work, 5, 5)}

\* The owner stays at home.
OneStay == {At(Home, 1, 1), At(Home, 2, 2), At(Home, 3, 3)}

Symmetry == Permutations(Requests)

=============================================================================
