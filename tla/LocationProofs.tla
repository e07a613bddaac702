---------------------------- MODULE LocationProofs ----------------------------
(* Proofs about Location: what deliveries that are late, repeated and in   *)
(* any order, the derivations that follow them, and retention do to the    *)
(* visits of a device, for any samples, any number of deliveries at once   *)
(* and any cutoffs.                                                        *)
(*                                                                         *)
(* deriveVisits is a fold over the samples.  A set of samples has a last   *)
(* one, so there is a walk through them, and what it has found at every    *)
(* sample rests on the samples it came by (DerivationRests): that is what  *)
(* the rows of visits need.                                                *)
(*                                                                         *)
(* The second half is about the run that Location shares with the other    *)
(* components that meet providers and feeds (MCProviders): what holds of   *)
(* each of them alone (SceneProofs) holds of the run.                      *)
EXTENDS MCProviders, FiniteSetTheorems, WellFoundedInduction, TLAPS

-----------------------------------------------------------------------------
(* The invariant.                                                          *)

\* Samples that were received up to the time n, of which no two have the same payload.
SampleSet(S, n) ==
    /\ S \subseteq AllSamples /\ IsFiniteSet(S)
    /\ \A s, t \in S : Payload(s) = Payload(t) => s = t
    /\ \A s \in S : s.receivedAt <= n

SamplesOK ==
    /\ status \in {"active", "revoked"} /\ lastSeenAt \in Nat /\ written \in Nat
    /\ SampleSet(samples, written)

Deriving == {"widen", "read", "write"}

\* What a delivery holds of its own, at the time n.
Held(q, n) ==
    \/ q = Idle
    \/ /\ q \in [pc : {"store", "derive"}, sample : AllSamples, current : BOOLEAN]
       /\ q.sample.receivedAt <= n
    \/ q.pc \in Deriving

RequestsOK ==
    /\ request = [r \in Requests |-> request[r]]
    /\ \A r \in Requests : Held(request[r], written)

\* A visit begins with one of its samples, which was received before it was written.
Rests(v) ==
    /\ VisitRow(v)
    /\ \E s \in v.samples : s.at = v.arrivedAt /\ s.receivedAt <= v.updatedAt
    /\ \A s \in v.samples : v.arrivedAt <= s.at

VisitsOK ==
    /\ \A v \in visits : Rests(v)
    /\ \A v, o \in visits : o.samples = v.samples => o = v

\* The state of a derivation that has read its samples, and is noted b.
WithRead(q, b) == [pc |-> "write", over |-> q.over, inside |-> q.inside, beside |-> b]

\* What a derivation has read: the visits that bear on its window, and then its samples,
\* which are still there unless retention was beside it.
DerivationsOK ==
    /\ \A r \in Requests : request[r].pc \in Deriving =>
           \A v \in request[r].over : VisitRow(v)
    /\ \A r \in Requests : request[r].pc = "write" =>
           /\ SampleSet(request[r].inside, written) /\ request[r].beside \in BOOLEAN
           /\ \A v \in request[r].over : OpeningSupport(v, request[r].inside)
           /\ request[r] = WithRead(request[r], request[r].beside)
    /\ \A r \in Requests : request[r].pc = "write" /\ ~request[r].beside =>
           request[r].inside \subseteq samples /\ retention.pc \notin {"select", "delete"}

\* Open visits that retention is to spare.
Spared == {v \in visits : v.departedAt = Never /\ ~v.beside}

\* What retention is about to delete is from before they began.
RetentionOK ==
    /\ nights \subseteq Cutoffs
    /\ \/ retention \in {Idle, Visits}
       \/ /\ retention \in [pc : {"select"}, before : Nat]
          /\ \A v \in Spared : retention.before <= v.arrivedAt
       \/ /\ retention \in [pc : {"delete"}, rows : SUBSET AllSamples]
          /\ \A v \in Spared : \A s \in retention.rows : s.at < v.arrivedAt

\* This part needs nothing of what is derived.
DeliveryInv == SamplesOK /\ RequestsOK

LocationInv ==
    DeliveryInv /\ VisitsOK /\ DerivationsOK /\ RetentionOK /\ OpenVisitsKeepSamples

-----------------------------------------------------------------------------
(* Times and samples.                                                      *)

\* A set of times has an earliest one.
LEMMA EarliestIsFirst ==
    ASSUME NEW T, T \subseteq Nat, T # {}
    PROVE  Earliest(T) \in T /\ \A u \in T : Earliest(T) <= u
  <1>. DEFINE Less == {p \in Nat \X Nat : p[1] < p[2]}
  <1>1. Less = OpToRel(<, Nat)
    BY DEF OpToRel
  <1>2. IsWellFoundedOn(Less, Nat)
    BY <1>1, NatLessThanWellFounded
  <1>3. PICK t \in T : \A u \in T : <<u, t>> \notin Less
    <2>. HIDE DEF Less
    <2>. QED  BY <1>2, WFMin
  <1>4. ASSUME NEW u \in T  PROVE t <= u
    <2>1. <<u, t>> \notin Less
      BY <1>3
    <2>2. u \in Nat /\ t \in Nat
      OBVIOUS
    <2>. QED  BY <2>1, <2>2
  <1>. QED  BY <1>4 DEF Earliest

\* The fields of samples.
LEMMA SampleFields ==
    ASSUME NEW s \in AllSamples
    PROVE  /\ s.at \in Nat /\ s.at > Never /\ s.receivedAt \in Nat
           /\ Payload(s) \in {Payload(p) : p \in Payloads}
  BY ConstantsAssumption DEF AllSamples, Sample, Payload, Never


-----------------------------------------------------------------------------
(* The walk through samples.  There is one, since a finite set that is     *)
(* ordered has a last element; it is found by taking the smallest set, or  *)
(* the smallest number, for which there is none.                           *)

\* Sets of samples that visits are derived from.
Walkable(S) == S \subseteq AllSamples /\ IsFiniteSet(S) /\ Ordered(S)

\* A part of what can be walked can be walked, and has no more samples.
LEMMA WalkableSubset ==
    ASSUME NEW S, Walkable(S), NEW T \in SUBSET S
    PROVE  Walkable(T) /\ Cardinality(T) \in Nat /\ Cardinality(T) <= Cardinality(S)
  <1>1. IsFiniteSet(T) /\ Cardinality(T) <= Cardinality(S)
    BY FS_Subset DEF Walkable
  <1>2. Cardinality(T) \in Nat
    BY <1>1, FS_CardinalityType
  <1>. QED  BY <1>1, <1>2 DEF Walkable, Ordered

\* Of some subsets of a finite set, there is one with the fewest elements.
LEMMA FewestElements ==
    ASSUME NEW S, Walkable(S), NEW Some \in SUBSET (SUBSET S), Some # {}
    PROVE  \E T \in Some : \A U \in Some : Cardinality(T) <= Cardinality(U)
  <1>. DEFINE sizes == {Cardinality(T) : T \in Some}
  <1>1. sizes \subseteq Nat /\ sizes # {}
    BY WalkableSubset
  <1>2. Earliest(sizes) \in sizes /\ \A n \in sizes : Earliest(sizes) <= n
    <2>. HIDE DEF sizes
    <2>. QED  BY <1>1, EarliestIsFirst
  <1>. QED  BY <1>2

\* The order of samples is transitive.
LEMMA BeforeIsTransitive ==
    ASSUME NEW s \in AllSamples, NEW t \in AllSamples, NEW u \in AllSamples,
           Before(s, t), Before(t, u)
    PROVE  Before(s, u)
  <1>1. \A v \in AllSamples : v.at \in Nat /\ v.order \in Nat
    BY ConstantsAssumption DEF AllSamples, Sample
  <1>. QED  BY <1>1 DEF Before

\* Samples have a last one.
LEMMA LastExists ==
    ASSUME NEW S, Walkable(S), S # {}
    PROVE  LastOf(S) \in S /\ \A s \in S \ {LastOf(S)} : Before(s, LastOf(S))
  <1>. DEFINE HasLast(T) == \E e \in T : \A s \in T \ {e} : Before(s, e)
              Without == {T \in SUBSET S : T # {} /\ ~HasLast(T)}
  <1>1. Without = {}
    <2>. SUFFICES ASSUME Without # {}  PROVE FALSE
      OBVIOUS
    <2>1. PICK T \in Without : \A U \in Without : Cardinality(T) <= Cardinality(U)
      <3>1. Without \in SUBSET (SUBSET S)
        OBVIOUS
      <3>. HIDE DEF Without
      <3>. QED  BY <3>1, FewestElements
    <2>2. T \in SUBSET S /\ T # {} /\ ~HasLast(T)
      OBVIOUS
    <2>3. PICK x \in T : TRUE
      BY <2>2
    <2>4. Walkable(T) /\ Cardinality(T) \in Nat
      BY <2>2, WalkableSubset
    <2>5. Cardinality(T \ {x}) = Cardinality(T) - 1
      BY <2>4, FS_RemoveElement DEF Walkable
    <2>6. T \ {x} # {} /\ HasLast(T \ {x})
      <3>1. T \ {x} # {}
        BY <2>2
      <3>2. T \ {x} \notin Without
        <4>. SUFFICES ASSUME T \ {x} \in Without  PROVE FALSE
          OBVIOUS
        <4>1. Cardinality(T) <= Cardinality(T \ {x})
          <5>. HIDE DEF Without
          <5>. QED  BY <2>1
        <4>. QED  BY <2>4, <2>5, <4>1
      <3>. QED  BY <2>2, <3>1, <3>2
    <2>7. PICK e \in T \ {x} : \A s \in (T \ {x}) \ {e} : Before(s, e)
      BY <2>6
    <2>8. T \subseteq AllSamples /\ (Before(x, e) \/ Before(e, x))
      BY <2>4, <2>7 DEF Walkable, Ordered
    <2>9. CASE Before(x, e)
      BY <2>2, <2>7, <2>9
    <2>10. CASE Before(e, x)
      <3>1. \A s \in T \ {x} : Before(s, x)
        BY <2>7, <2>8, <2>10, BeforeIsTransitive
      <3>. QED  BY <2>2, <3>1
    <2>. QED  BY <2>8, <2>9, <2>10
  <1>2. HasLast(S)
    BY <1>1
  <1>. QED  BY <1>2 DEF LastOf

\* What the walk is at T, if walk is what it was before.
Onward(walk, T) == IF T = {} THEN Start ELSE Follow(walk[T \ {LastOf(T)}], LastOf(T))

\* There is a walk through the subsets of at most n elements.
LEMMA WalkOfSize ==
    ASSUME NEW S, Walkable(S), NEW n \in Nat
    PROVE  \E walk : walk = [T \in {T \in SUBSET S : Cardinality(T) <= n} |-> Onward(walk, T)]
  <1>. DEFINE Small(k) == {T \in SUBSET S : Cardinality(T) <= k}
              Walks(walk, k) == walk = [T \in Small(k) |-> Onward(walk, T)]
              Missing == {k \in Nat : ~\E walk : Walks(walk, k)}
  <1>1. Missing = {}
    <2>. SUFFICES ASSUME Missing # {}  PROVE FALSE
      OBVIOUS
    <2>1. PICK k \in Missing : \A j \in Missing : k <= j
      <3>1. Missing \subseteq Nat
        OBVIOUS
      <3>. HIDE DEF Missing
      <3>. QED  BY <3>1, EarliestIsFirst
    <2>2. k \in Nat /\ ~\E walk : Walks(walk, k)
      OBVIOUS
    <2>3. CASE k = 0
      <3>. DEFINE walk == [T \in Small(0) |-> Start]
      <3>1. \A T \in Small(0) : T = {}
        <4>. SUFFICES ASSUME NEW T \in Small(0)  PROVE T = {}
          OBVIOUS
        <4>1. Walkable(T) /\ Cardinality(T) \in Nat /\ Cardinality(T) <= 0
          BY WalkableSubset
        <4>. QED  BY <4>1, FS_EmptySet DEF Walkable
      <3>2. Walks(walk, 0)
        BY <3>1 DEF Onward
      <3>. QED  BY <2>2, <2>3, <3>2
    <2>4. CASE k # 0
      <3>1. k - 1 \in Nat /\ k - 1 \notin Missing
        <4>1. k - 1 \in Nat /\ ~(k <= k - 1)
          BY <2>2, <2>4
        <4>. HIDE DEF Missing
        <4>. QED  BY <2>1, <4>1
      <3>2. PICK shorter : Walks(shorter, k - 1)
        BY <3>1
      <3>. DEFINE walk == [T \in Small(k) |-> Onward(shorter, T)]
      <3>3. ASSUME NEW T \in Small(k), T # {}
            PROVE  /\ T \ {LastOf(T)} \in Small(k - 1)
                   /\ T \ {LastOf(T)} \in Small(k)
        <4>1. Walkable(T) /\ Cardinality(T) \in Nat
          BY WalkableSubset
        <4>2. LastOf(T) \in T
          BY <3>3, <4>1, LastExists
        <4>3. Cardinality(T \ {LastOf(T)}) = Cardinality(T) - 1
          BY <4>1, <4>2, FS_RemoveElement DEF Walkable
        <4>. QED  BY <2>2, <4>1, <4>3
      <3>4. ASSUME NEW T \in Small(k - 1)  PROVE T \in Small(k) /\ walk[T] = shorter[T]
        <4>1. Cardinality(T) \in Nat
          BY WalkableSubset
        <4>2. T \in Small(k)
          BY <2>2, <4>1
        <4>3. shorter[T] = Onward(shorter, T)
          <5>. HIDE DEF Small
          <5>. QED  BY <3>2
        <4>. QED  BY <4>2, <4>3
      <3>5. ASSUME NEW T \in Small(k)  PROVE walk[T] = Onward(walk, T)
        <4>1. CASE T = {}
          BY <4>1 DEF Onward
        <4>2. CASE T # {}
          <5>1. walk[T \ {LastOf(T)}] = shorter[T \ {LastOf(T)}]
            BY <3>3, <3>4, <4>2
          <5>2. walk[T] = Onward(shorter, T)
            OBVIOUS
          <5>. HIDE DEF walk
          <5>. QED  BY <4>2, <5>1, <5>2 DEF Onward
        <4>. QED  BY <4>1, <4>2
      <3>6. Walks(walk, k)
        <4>1. walk = [T \in Small(k) |-> walk[T]]
          OBVIOUS
        <4>. HIDE DEF walk, Small
        <4>. QED  BY <3>5, <4>1
      <3>. QED  BY <2>2, <3>6
    <2>. QED  BY <2>3, <2>4
  <1>. QED  BY <1>1

\* The walk through S is a step further than the one through all but its last sample.
LEMMA WalkSteps ==
    ASSUME NEW S, Walkable(S)
    PROVE  \E walk : /\ Walk(S) = walk[S]
                     /\ \A T \in SUBSET S : walk[T] = Onward(walk, T)
  <1>. DEFINE Walks(walk) == walk = [T \in SUBSET S |-> Onward(walk, T)]
              small == {T \in SUBSET S : Cardinality(T) <= Cardinality(S)}
  <1>1. \E walk : Walks(walk)
    <2>1. Cardinality(S) \in Nat
      BY FS_CardinalityType DEF Walkable
    <2>2. \E walk : walk = [T \in small |-> Onward(walk, T)]
      BY <2>1, WalkOfSize
    <2>3. small = SUBSET S
      BY WalkableSubset
    <2>. HIDE DEF small
    <2>. QED  BY <2>2, <2>3
  <1>. DEFINE walk == CHOOSE walk : Walks(walk)
  <1>2. Walks(walk)
    BY <1>1
  <1>3. Walk(S) = walk[S]
    BY DEF Walk, Onward
  <1>4. \A T \in SUBSET S : walk[T] = Onward(walk, T)
    <2>. HIDE DEF walk
    <2>. QED  BY <1>2
  <1>. QED  BY <1>3, <1>4

-----------------------------------------------------------------------------
(* What the walk has when it has gone through the samples T.               *)

InOrderOf(s) == \A i, j \in 1 .. Len(s) : i <= j => s[i].at <= s[j].at

\* A visit that rests on T.
RestsOn(v, T) ==
    /\ v.samples \subseteq T /\ v.arrivedAt \in Nat /\ v.departedAt \in Nat
    /\ \E s \in v.samples : s.at = v.arrivedAt
    /\ \A s \in v.samples : v.arrivedAt <= s.at

Apart(visited, s) == \A v \in visited : v.samples \cap ToSet(s) = {}

\* A sample is of one visit, or of the present place, or away from it.
WalkOK(w, T) ==
    /\ w = [candidate |-> w.candidate, resident |-> w.resident, away |-> w.away,
            visits |-> w.visits]
    /\ \A s \in {w.candidate, w.resident, w.away} :
          s \in Seq(T) /\ InOrderOf(s) /\ Apart(w.visits, s)
    /\ ToSet(w.resident) \cap ToSet(w.away) = {}
    /\ w.resident = <<>> => w.away = <<>>
    /\ \A v \in w.visits : RestsOn(v, T)
    /\ \A v, u \in w.visits : v.samples \cap u.samples # {} => v = u

\* A sample that comes last is appended in order.
LEMMA AppendInOrder ==
    ASSUME NEW T, T \subseteq AllSamples, NEW e \in T, \A s \in T : s.at <= e.at,
           NEW s \in Seq(T \ {e}), InOrderOf(s)
    PROVE  /\ Append(s, e) \in Seq(T) /\ InOrderOf(Append(s, e)) /\ Append(s, e) # <<>>
           /\ ToSet(Append(s, e)) = ToSet(s) \cup {e} /\ e \notin ToSet(s)
  <1>1. /\ Append(s, e) \in Seq(T) /\ Len(Append(s, e)) = Len(s) + 1 /\ Len(s) \in Nat
        /\ \A i \in 1 .. Len(s) : Append(s, e)[i] = s[i] /\ s[i] \in T \ {e}
        /\ Append(s, e)[Len(s) + 1] = e
    OBVIOUS
  <1>2. \A t \in T : t.at \in Nat
    BY SampleFields
  <1>3. InOrderOf(Append(s, e))
    <2>. SUFFICES ASSUME NEW i \in 1 .. Len(s) + 1, NEW j \in 1 .. Len(s) + 1, i <= j
                  PROVE  Append(s, e)[i].at <= Append(s, e)[j].at
      BY <1>1 DEF InOrderOf
    <2>1. CASE j = Len(s) + 1
      BY <2>1, <1>1, <1>2
    <2>2. CASE j # Len(s) + 1
      BY <2>2, <1>1 DEF InOrderOf
    <2>. QED  BY <2>1, <2>2
  <1>4. ToSet(Append(s, e)) = ToSet(s) \cup {e} /\ e \notin ToSet(s)
    <2>1. DOMAIN s = 1 .. Len(s) /\ DOMAIN Append(s, e) = 1 .. Len(s) + 1
      BY <1>1
    <2>2. ToSet(Append(s, e)) \subseteq ToSet(s) \cup {e}
      BY <1>1, <2>1 DEF ToSet
    <2>3. ToSet(s) \cup {e} \subseteq ToSet(Append(s, e))
      BY <1>1, <2>1 DEF ToSet
    <2>4. e \notin ToSet(s)
      BY <1>1, <2>1 DEF ToSet
    <2>. QED  BY <2>2, <2>3, <2>4
  <1>5. Append(s, e) # <<>>
    BY <1>1
  <1>. QED  BY <1>1, <1>3, <1>4, <1>5

\* What is stable is the end of what there is.
LEMMA SuffixInOrder ==
    ASSUME NEW T, NEW s \in Seq(T), s # <<>>, InOrderOf(s)
    PROVE  /\ StableSuffix(s) \in Seq(T) /\ InOrderOf(StableSuffix(s))
           /\ ToSet(StableSuffix(s)) \subseteq ToSet(s)
  <1>. DEFINE starts == {i \in DOMAIN s : Stable(SubSeq(s, i, Len(s)))} \cup {Len(s)}
              start == Earliest(starts)
              suffix == SubSeq(s, start, Len(s))
  <1>1. Len(s) \in Nat \ {0} /\ DOMAIN s = 1 .. Len(s)
    OBVIOUS
  <1>2. StableSuffix(s) = suffix
    BY DEF StableSuffix, Earliest
  <1>3. start \in 1 .. Len(s)
    <2>1. starts \subseteq 1 .. Len(s) /\ starts # {}
      BY <1>1
    <2>2. starts \subseteq Nat
      BY <1>1, <2>1
    <2>. HIDE DEF starts
    <2>. QED  BY <2>1, <2>2, EarliestIsFirst
  <1>4. /\ suffix \in Seq(T) /\ Len(suffix) = Len(s) - start + 1
        /\ \A i \in 1 .. Len(suffix) : suffix[i] = s[start + i - 1]
    <2>. HIDE DEF start
    <2>. QED  BY <1>1, <1>3
  <1>. HIDE DEF suffix, start
  <1>5. \A i \in 1 .. Len(suffix) : start + i - 1 \in 1 .. Len(s)
    BY <1>1, <1>3, <1>4
  <1>6. InOrderOf(suffix)
    <2>. SUFFICES ASSUME NEW i \in 1 .. Len(suffix), NEW j \in 1 .. Len(suffix), i <= j
                  PROVE  suffix[i].at <= suffix[j].at
      BY DEF InOrderOf
    <2>1. start + i - 1 <= start + j - 1
      BY <1>3
    <2>2. s[start + i - 1].at <= s[start + j - 1].at
      BY <1>5, <2>1 DEF InOrderOf
    <2>. QED  BY <1>4, <2>2
  <1>7. ToSet(suffix) \subseteq ToSet(s)
    BY <1>1, <1>4, <1>5 DEF ToSet
  <1>. QED  BY <1>2, <1>4, <1>6, <1>7

\* The visit of a place begins with the first sample there.
LEMMA VisitRestsOn ==
    ASSUME NEW T, T \subseteq AllSamples, NEW s \in Seq(T), s # <<>>, InOrderOf(s),
           NEW d \in Nat
    PROVE  RestsOn(Visit(s, d), T) /\ Visit(s, d).samples = ToSet(s)
  <1>1. Len(s) \in Nat \ {0} /\ DOMAIN s = 1 .. Len(s) /\ Head(s) = s[1]
    OBVIOUS
  <1>2. ToSet(s) \subseteq T /\ s[1] \in ToSet(s)
    BY <1>1 DEF ToSet
  <1>3. s[1].at \in Nat
    BY <1>2, SampleFields
  <1>4. \A t \in ToSet(s) : s[1].at <= t.at
    BY <1>1 DEF ToSet, InOrderOf
  <1>. QED  BY <1>1, <1>2, <1>3, <1>4 DEF Visit, RestsOn


\* The candidate that can open a visit becomes the present place.
LEMMA OpenKeepsWalk ==
    ASSUME NEW T, NEW w, WalkOK(w, T), w.resident = <<>>
    PROVE  WalkOK(Open(w), T)
  <1>. DEFINE opened == [candidate |-> <<>>, resident |-> w.candidate, away |-> <<>>,
                         visits |-> w.visits]
  <1>1. w.away = <<>> /\ w.away \in Seq(T) /\ ToSet(w.away) = {}
    BY DEF WalkOK, ToSet
  <1>2. Open(w) = w \/ Open(w) = opened
    BY <1>1 DEF Open, WalkOK
  <1>3. WalkOK(opened, T)
    <2>1. /\ opened.candidate = <<>> /\ opened.resident = w.candidate /\ opened.away = <<>>
          /\ opened.visits = w.visits
      OBVIOUS
    <2>. HIDE DEF opened
    <2>2. opened = [candidate |-> opened.candidate, resident |-> opened.resident,
                    away |-> opened.away, visits |-> opened.visits]
      BY <2>1 DEF opened
    <2>. QED  BY <1>1, <2>1, <2>2 DEF WalkOK
  <1>. QED  BY <1>2, <1>3

\* The fields of a step of the walk.
LEMMA StepFields ==
    ASSUME NEW c, NEW r, NEW a, NEW v, NEW w,
           w = [candidate |-> c, resident |-> r, away |-> a, visits |-> v], NEW x
    PROVE  /\ [w EXCEPT !.candidate = x]
                  = [candidate |-> x, resident |-> r, away |-> a, visits |-> v]
           /\ [w EXCEPT !.resident = x]
                  = [candidate |-> c, resident |-> x, away |-> a, visits |-> v]
           /\ [w EXCEPT !.away = x]
                  = [candidate |-> c, resident |-> r, away |-> x, visits |-> v]
  <1>1. [w EXCEPT !.candidate = x]
                  = [candidate |-> x, resident |-> r, away |-> a, visits |-> v]
    OBVIOUS
  <1>2. [w EXCEPT !.resident = x]
                  = [candidate |-> c, resident |-> x, away |-> a, visits |-> v]
    OBVIOUS
  <1>3. [w EXCEPT !.away = x]
                  = [candidate |-> c, resident |-> r, away |-> x, visits |-> v]
    OBVIOUS
  <1>. QED  BY <1>1, <1>2, <1>3

\* The next sample is taken into the candidate, the present place or the way from it.
LEMMA FollowKeepsWalk ==
    ASSUME NEW T, T \subseteq AllSamples, NEW e \in T, \A s \in T : s.at <= e.at,
           NEW w, WalkOK(w, T \ {e})
    PROVE  WalkOK(Follow(w, e), T)
  <1>. DEFINE row == Append(w.away, e)
  <1>1. \A s \in {w.candidate, w.resident, w.away} :
           /\ s \in Seq(T \ {e}) /\ s \in Seq(T) /\ InOrderOf(s) /\ Apart(w.visits, s)
           /\ Append(s, e) \in Seq(T) /\ InOrderOf(Append(s, e)) /\ Append(s, e) # <<>>
           /\ ToSet(Append(s, e)) = ToSet(s) \cup {e} /\ e \notin ToSet(s)
    <2>. SUFFICES ASSUME NEW s \in {w.candidate, w.resident, w.away}
                  PROVE  /\ s \in Seq(T \ {e}) /\ s \in Seq(T) /\ InOrderOf(s)
                         /\ Apart(w.visits, s)
                         /\ Append(s, e) \in Seq(T) /\ InOrderOf(Append(s, e))
                         /\ Append(s, e) # <<>>
                         /\ ToSet(Append(s, e)) = ToSet(s) \cup {e} /\ e \notin ToSet(s)
      OBVIOUS
    <2>1. s \in Seq(T \ {e}) /\ InOrderOf(s) /\ Apart(w.visits, s)
      BY DEF WalkOK
    <2>2. s \in Seq(T)
      BY <2>1
    <2>. QED  BY <2>1, <2>2, AppendInOrder
  <1>0. w = [candidate |-> w.candidate, resident |-> w.resident, away |-> w.away,
             visits |-> w.visits]
    BY DEF WalkOK
  <1>2. \A v \in w.visits : RestsOn(v, T) /\ e \notin v.samples
    BY DEF WalkOK, RestsOn
  <1>3. \A s \in {w.candidate, w.resident, w.away} : Apart(w.visits, Append(s, e))
    BY <1>1, <1>2 DEF Apart
  <1>4. ToSet(w.resident) \cap ToSet(w.away) = {} /\ e \notin ToSet(w.resident)
    BY <1>1 DEF WalkOK
  <1>5. CASE w.resident = <<>>
    <2>. DEFINE s == StableSuffix(Append(w.candidate, e))
                next == [w EXCEPT !.candidate = s]
    <2>1. s \in Seq(T) /\ InOrderOf(s) /\ ToSet(s) \subseteq ToSet(Append(w.candidate, e))
      BY <1>1, SuffixInOrder
    <2>2. Apart(w.visits, s)
      BY <1>3, <2>1 DEF Apart
    <2>3. /\ next = [candidate |-> s, resident |-> w.resident, away |-> w.away,
                     visits |-> w.visits]
          /\ next.candidate = s /\ next.resident = w.resident /\ next.away = w.away
          /\ next.visits = w.visits
      <3>. HIDE DEF s
      <3>. QED  BY DEF WalkOK
    <2>4. WalkOK(next, T)
      <3>. HIDE DEF s, next
      <3>. QED  BY <1>1, <1>2, <2>1, <2>2, <2>3 DEF WalkOK
    <2>5. Follow(w, e) = Open(next)
      BY <1>5 DEF Follow
    <2>. QED  BY <1>5, <2>3, <2>4, <2>5, OpenKeepsWalk
  <1>6. CASE w.resident # <<>> /\ Near(e, w.resident, AwayRadius)
    <2>. DEFINE next == [w EXCEPT !.resident = Append(@, e), !.away = <<>>]
    <2>1. /\ next = [candidate |-> w.candidate, resident |-> Append(w.resident, e),
                     away |-> <<>>, visits |-> w.visits]
          /\ next.candidate = w.candidate /\ next.resident = Append(w.resident, e)
          /\ next.away = <<>> /\ next.visits = w.visits
      <3>. DEFINE x == Append(w.resident, e)
                  taken == [w EXCEPT !.resident = x]
      <3>1. next = [taken EXCEPT !.away = <<>>]
        OBVIOUS
      <3>. HIDE DEF x
      <3>2. taken = [candidate |-> w.candidate, resident |-> x, away |-> w.away,
                     visits |-> w.visits]
        BY <1>0, StepFields
      <3>. HIDE DEF taken
      <3>3. [taken EXCEPT !.away = <<>>]
               = [candidate |-> w.candidate, resident |-> x, away |-> <<>>, visits |-> w.visits]
        BY <3>2, StepFields
      <3>4. next = [candidate |-> w.candidate, resident |-> x, away |-> <<>>,
                    visits |-> w.visits]
        BY <3>1, <3>3
      <3>. QED  BY <3>4 DEF x
    <2>2. <<>> \in Seq(T) /\ InOrderOf(<<>>) /\ ToSet(<<>>) = {} /\ Apart(w.visits, <<>>)
      BY DEF InOrderOf, ToSet, Apart
    <2>3. Follow(w, e) = next
      BY <1>6 DEF Follow, Stay
    <2>4. WalkOK(next, T)
      <3>. HIDE DEF next
      <3>. QED  BY <1>1, <1>2, <1>3, <2>1, <2>2 DEF WalkOK
    <2>. QED  BY <2>3, <2>4
  <1>7. CASE w.resident # <<>> /\ ~Near(e, w.resident, AwayRadius) /\ ~(Span(row) >= AwayDuration)
    <2>. DEFINE next == [w EXCEPT !.away = row]
    <2>1. /\ next = [candidate |-> w.candidate, resident |-> w.resident, away |-> row,
                     visits |-> w.visits]
          /\ next.candidate = w.candidate /\ next.resident = w.resident
          /\ next.away = row /\ next.visits = w.visits
      <3>1. next = [candidate |-> w.candidate, resident |-> w.resident, away |-> row,
                    visits |-> w.visits]
        <4>. HIDE DEF row
        <4>. QED  BY <1>0, StepFields
      <3>. QED  BY <3>1
    <2>2. Follow(w, e) = next
      BY <1>7 DEF Follow
    <2>3. ToSet(w.resident) \cap ToSet(row) = {}
      BY <1>1, <1>4
    <2>4. WalkOK(next, T)
      <3>. HIDE DEF next, row
      <3>. QED  BY <1>1, <1>2, <1>3, <1>7, <2>1, <2>3 DEF WalkOK, row
    <2>. QED  BY <2>2, <2>4
  <1>8. CASE w.resident # <<>> /\ ~Near(e, w.resident, AwayRadius) /\ Span(row) >= AwayDuration
    <2>. DEFINE v == Visit(w.resident, Head(row).at)
                s == StableSuffix(row)
                next == [candidate |-> s, resident |-> <<>>, away |-> <<>>,
                         visits |-> w.visits \cup {v}]
    <2>1. s \in Seq(T) /\ InOrderOf(s) /\ ToSet(s) \subseteq ToSet(row)
      BY <1>1, SuffixInOrder
    <2>2. Head(row).at \in Nat
      BY <1>1, SampleFields
    <2>3. RestsOn(v, T) /\ v.samples = ToSet(w.resident)
      BY <1>1, <1>8, <2>2, VisitRestsOn
    <2>4. Follow(w, e) = Open(next)
      BY <1>8 DEF Follow, Leave
    <2>5. ToSet(w.resident) \cap ToSet(s) = {}
      BY <1>1, <1>4, <2>1
    <2>6. <<>> \in Seq(T) /\ InOrderOf(<<>>) /\ ToSet(<<>>) = {}
      BY DEF InOrderOf, ToSet
    <2>7. WalkOK(next, T)
      <3>1. /\ next.candidate = s /\ next.resident = <<>> /\ next.away = <<>>
            /\ next.visits = w.visits \cup {v}
            /\ next = [candidate |-> next.candidate, resident |-> next.resident,
                       away |-> next.away, visits |-> next.visits]
        OBVIOUS
      <3>. HIDE DEF next, v, s
      <3>2. Apart(w.visits \cup {v}, s) /\ Apart(w.visits \cup {v}, <<>>)
        BY <1>1, <1>3, <2>1, <2>3, <2>5, <2>6 DEF Apart
      <3>3. \A u \in w.visits : u.samples \cap v.samples = {}
        BY <1>1, <2>3 DEF Apart
      <3>4. \A u \in w.visits \cup {v} : RestsOn(u, T)
        BY <1>2, <2>3
      <3>5. \A u, x \in w.visits \cup {v} : u.samples \cap x.samples # {} => u = x
        BY <3>3 DEF WalkOK
      <3>. QED  BY <2>1, <2>6, <3>1, <3>2, <3>4, <3>5 DEF WalkOK
    <2>. QED  BY <2>4, <2>7, OpenKeepsWalk
  <1>. QED  BY <1>5, <1>6, <1>7, <1>8


\* The walk has what it should when it has gone through all of the samples.
LEMMA WalkIsOK ==
    ASSUME NEW S, Walkable(S)
    PROVE  WalkOK(Walk(S), S)
  <1>1. PICK walk : Walk(S) = walk[S] /\ \A T \in SUBSET S : walk[T] = Onward(walk, T)
    BY WalkSteps
  <1>. DEFINE Wrong == {T \in SUBSET S : ~WalkOK(walk[T], T)}
  <1>2. Wrong = {}
    <2>. SUFFICES ASSUME Wrong # {}  PROVE FALSE
      OBVIOUS
    <2>1. PICK T \in Wrong : \A U \in Wrong : Cardinality(T) <= Cardinality(U)
      <3>1. Wrong \in SUBSET (SUBSET S)
        OBVIOUS
      <3>. HIDE DEF Wrong
      <3>. QED  BY <3>1, FewestElements
    <2>2. T \in SUBSET S /\ ~WalkOK(walk[T], T) /\ walk[T] = Onward(walk, T)
      BY <1>1
    <2>3. Walkable(T) /\ Cardinality(T) \in Nat
      BY <2>2, WalkableSubset
    <2>4. CASE T = {}
      <3>1. walk[T] = Start
        BY <2>2, <2>4 DEF Onward
      <3>2. WalkOK(Start, T)
        BY DEF WalkOK, Start, InOrderOf, Apart, ToSet
      <3>. QED  BY <2>2, <3>1, <3>2
    <2>5. CASE T # {}
      <3>. DEFINE e == LastOf(T)
      <3>1. e \in T /\ \A s \in T \ {e} : Before(s, e)
        BY <2>3, <2>5, LastExists
      <3>2. T \subseteq AllSamples
        BY <2>3 DEF Walkable
      <3>3. \A s \in T : s.at <= e.at
        BY <3>1, <3>2, SampleFields DEF Before
      <3>. HIDE DEF e
      <3>4. WalkOK(walk[T \ {e}], T \ {e})
        <4>1. Cardinality(T \ {e}) = Cardinality(T) - 1
          BY <2>3, <3>1, FS_RemoveElement DEF Walkable
        <4>2. T \ {e} \notin Wrong
          <5>. SUFFICES ASSUME T \ {e} \in Wrong  PROVE FALSE
            OBVIOUS
          <5>1. Cardinality(T) <= Cardinality(T \ {e})
            <6>. HIDE DEF Wrong
            <6>. QED  BY <2>1
          <5>. QED  BY <2>3, <4>1, <5>1
        <4>. QED  BY <2>2, <4>2
      <3>5. walk[T] = Follow(walk[T \ {e}], e)
        BY <2>2, <2>5 DEF Onward, e
      <3>. QED  BY <2>2, <3>1, <3>2, <3>3, <3>4, <3>5, FollowKeepsWalk
    <2>. QED  BY <2>4, <2>5
  <1>. QED  BY <1>1, <1>2

\* The visits that are derived from samples rest on them.
THEOREM DerivationRests ==
    ASSUME NEW S, Walkable(S)
    PROVE  VisitsRestOn(S)
  <1>. DEFINE fine == {s \in S : s.fine}
              end == Walk(fine)
              last == Visit(end.resident, Never)
  <1>1. Walkable(fine) /\ fine \subseteq S /\ fine \subseteq AllSamples
    <2>1. Walkable(fine)
      BY WalkableSubset
    <2>. QED  BY <2>1 DEF Walkable
  <1>2. WalkOK(end, fine)
    <2>. HIDE DEF fine
    <2>. QED  BY <1>1, WalkIsOK
  <1>3. DeriveVisits(S) = end.visits \cup (IF end.resident = <<>> THEN {} ELSE {last})
    BY DEF DeriveVisits
  <1>. HIDE DEF end, fine
  <1>4. end.resident # <<>> => RestsOn(last, fine) /\ last.samples = ToSet(end.resident)
    BY <1>1, <1>2, VisitRestsOn DEF WalkOK, Never
  <1>5. \A c \in DeriveVisits(S) : RestsOn(c, fine)
    BY <1>2, <1>3, <1>4 DEF WalkOK
  <1>6. \A c, d \in DeriveVisits(S) : c.samples \cap d.samples # {} => c = d
    <2>1. end.resident # <<>> => \A c \in end.visits : c.samples \cap last.samples = {}
      BY <1>2, <1>4 DEF WalkOK, Apart
    <2>2. \A c, d \in end.visits : c.samples \cap d.samples # {} => c = d
      BY <1>2 DEF WalkOK
    <2>. HIDE DEF last
    <2>. QED  BY <1>3, <2>1, <2>2
  <1>7. \A c, d \in DeriveVisits(S) : c.samples = d.samples => c = d
    BY <1>5, <1>6 DEF RestsOn
  <1>. HIDE DEF last
  <1>. QED  BY <1>1, <1>5, <1>7 DEF VisitsRestOn, RestsOn

-----------------------------------------------------------------------------
(* What a derivation writes to the rows.                                   *)

\* Samples that differ in what was delivered are in an order.
LEMMA SamplesAreOrdered ==
    ASSUME NEW S, SampleSet(S, written)
    PROVE  Ordered(S)
  <1>1. SUFFICES ASSUME NEW s \in S, NEW t \in S, s # t
                 PROVE  Before(s, t) \/ Before(t, s)
    BY DEF Ordered
  <1>2. s \in AllSamples /\ t \in AllSamples /\ Payload(s) # Payload(t)
    BY <1>1 DEF SampleSet
  <1>3. PICK p \in Payloads, m \in 0 .. MaxWritten : s = Sample(p, m)
    BY <1>2 DEF AllSamples
  <1>4. PICK q \in Payloads, n \in 0 .. MaxWritten : t = Sample(q, n)
    BY <1>2 DEF AllSamples
  <1>5. p # q
    BY <1>2, <1>3, <1>4 DEF Sample, Payload
  <1>6. Before(p, q) \/ Before(q, p)
    BY <1>5, ConstantsAssumption DEF Ordered
  <1>. QED  BY <1>3, <1>4, <1>6 DEF Before, Sample

\* Visits derived from samples rest on those.
LEMMA DerivedRest ==
    ASSUME NEW S, SampleSet(S, written)
    PROVE  VisitsRestOn(S)
  <1>1. Walkable(S)
    BY SamplesAreOrdered DEF Walkable, SampleSet
  <1>. QED  BY <1>1, DerivationRests

\* The row of a derived visit stands for its samples, and was written after they came; if
\* it is open, then it was there, or it is noted whether retention was beside.
LEMMA RowRests ==
    ASSUME VisitsOK, written \in Nat, NEW S, SampleSet(S, written), NEW b \in BOOLEAN,
           NEW c \in DeriveVisits(S)
    PROVE  /\ Row(c, b).samples = c.samples /\ Row(c, b).departedAt = c.departedAt
           /\ Rests(Row(c, b))
           /\ Row(c, b) \in visits \/ Row(c, b).beside = (c.departedAt = Never /\ b)
  <1>. DEFINE same == {v \in visits : v.samples = c.samples /\ v.departedAt = c.departedAt}
              noted == c.departedAt = Never /\ b
              new == [arrivedAt |-> c.arrivedAt, departedAt |-> c.departedAt,
                      samples |-> c.samples, updatedAt |-> written, beside |-> noted]
  <1>1. VisitsRestOn(S)
    BY DerivedRest
  <1>2. Row(c, b) = IF same # {} THEN CHOOSE v \in same : TRUE ELSE new
    BY DEF Row
  <1>3. CASE same # {}
    <2>1. Row(c, b) \in same
      BY <1>2, <1>3
    <2>. QED  BY <2>1 DEF VisitsOK
  <1>4. CASE same = {}
    <2>1. Row(c, b) = new
      BY <1>2, <1>4
    <2>2. /\ c.samples \subseteq S /\ c.arrivedAt \in Nat /\ c.departedAt \in Nat
          /\ \E s \in c.samples : s.at = c.arrivedAt
          /\ \A s \in c.samples : c.arrivedAt <= s.at
      BY <1>1 DEF VisitsRestOn
    <2>3. S \subseteq AllSamples /\ \A s \in S : s.receivedAt <= written
      BY DEF SampleSet
    <2>4. noted \in BOOLEAN
      OBVIOUS
    <2>5. /\ new.arrivedAt = c.arrivedAt /\ new.departedAt = c.departedAt
          /\ new.samples = c.samples /\ new.updatedAt = written /\ new.beside = noted
      OBVIOUS
    <2>. HIDE DEF new, noted
    <2>6. Rests(new)
      BY <2>2, <2>3, <2>4, <2>5 DEF Rests, VisitRow
    <2>. QED  BY <2>1, <2>5, <2>6 DEF noted
  <1>. QED  BY <1>3, <1>4

\* A derivation that has read its samples rewrites visits that are supported from them;
\* no other visit is touched unless it stands for the same samples.
LEMMA WriteRewrites ==
    ASSUME LocationInv, NEW r \in Requests, Write(r)
    PROVE  /\ \A v \in visits' : Rests(v)
           /\ \A v, o \in visits' : o.samples = v.samples => o = v
           /\ \A v \in visits' \ visits :
                  /\ v.samples \subseteq request[r].inside
                  /\ v.beside = (v.departedAt = Never /\ request[r].beside)
           /\ \A v \in visits : OpeningGone(v) => v \in visits'
  <1>. DEFINE q == request[r]
              over == q.over
              S == q.inside
              b == q.beside
  <1>1. PICK lost \in SUBSET Lost(q) : visits' = Replace(q, DeriveVisits(S) \ lost)
    BY DEF Write
  <1>. DEFINE D == DeriveVisits(S) \ lost
              rest == {v \in visits \ over : \A c \in D : c.samples # v.samples}
  <1>2. visits' = rest \cup {Row(c, b) : c \in D}
    BY <1>1 DEF Replace
  <1>3. /\ q.pc = "write" /\ SampleSet(S, written) /\ b \in BOOLEAN /\ written \in Nat
        /\ \A v \in over : OpeningSupport(v, S)
    BY DEF Write, LocationInv, DerivationsOK, DeliveryInv, SamplesOK
  <1>4. VisitsOK
    BY DEF LocationInv
  <1>5. VisitsRestOn(S)
    BY <1>3, DerivedRest
  <1>6. /\ \A c \in D : c.samples \subseteq S
        /\ \A c, d \in D : c.samples = d.samples => c = d
    BY <1>5 DEF VisitsRestOn
  <1>7. \A v \in visits : OpeningGone(v) =>
            \A s \in S : s.at = v.arrivedAt => s.receivedAt > v.updatedAt
    BY <1>3 DEF OpeningGone
  <1>. HIDE DEF q, S, b, over
  <1>8. \A c \in D : /\ Row(c, b).samples = c.samples
                     /\ Row(c, b).departedAt = c.departedAt /\ Rests(Row(c, b))
                     /\ Row(c, b) \in visits \/ Row(c, b).beside = (c.departedAt = Never /\ b)
    BY <1>3, <1>4, RowRests
  <1>. HIDE DEF D
  <1>9. \A v \in visits' : Rests(v)
    BY <1>2, <1>4, <1>8 DEF VisitsOK
  <1>10. ASSUME NEW v \in visits', NEW o \in visits', o.samples = v.samples  PROVE o = v
    <2>1. CASE v \in rest /\ o \in rest
      BY <2>1, <1>4, <1>10 DEF VisitsOK
    <2>2. CASE v \in rest /\ o \notin rest
      BY <2>2, <1>2, <1>8, <1>10
    <2>3. CASE v \notin rest /\ o \in rest
      BY <2>3, <1>2, <1>8, <1>10
    <2>4. CASE v \notin rest /\ o \notin rest
      BY <2>4, <1>2, <1>6, <1>8, <1>10
    <2>. QED  BY <2>1, <2>2, <2>3, <2>4
  <1>11. ASSUME NEW v \in visits', v \notin visits
         PROVE  v.samples \subseteq S /\ v.beside = (v.departedAt = Never /\ b)
    <2>1. PICK c \in D : v = Row(c, b)
      BY <1>2, <1>11
    <2>. QED  BY <2>1, <1>6, <1>8, <1>11
  <1>12. ASSUME NEW v \in visits, OpeningGone(v)  PROVE v \in visits'
    <2>1. Rests(v)
      BY <1>4 DEF VisitsOK
    <2>2. \A s \in S : s.at = v.arrivedAt => ~(s.receivedAt <= v.updatedAt)
      <3>1. v.updatedAt \in Nat /\ \A s \in S : s.receivedAt \in Nat
        BY <1>3, <2>1, SampleFields DEF Rests, VisitRow, SampleSet
      <3>. QED  BY <3>1, <1>7, <1>12
    <2>3. v \notin over
      BY <1>3, <2>2 DEF OpeningSupport
    <2>4. ~(v.samples \subseteq S)
      BY <2>1, <2>2 DEF Rests
    <2>5. \A c \in D : c.samples # v.samples
      BY <2>4, <1>6
    <2>. QED  BY <2>3, <2>5, <1>2
  <1>. QED  BY <1>9, <1>10, <1>11, <1>12 DEF q, S, b

-----------------------------------------------------------------------------
(* The invariant is kept by every step.                                    *)

\* The local state of a delivery before it is derived from.
LEMMA RequestFields ==
    ASSUME RequestsOK, NEW r \in Requests, request[r].pc \in {"store", "derive"}
    PROVE  /\ request[r] \in [pc : {"store", "derive"}, sample : AllSamples, current : BOOLEAN]
           /\ request[r].sample \in AllSamples
           /\ request[r].sample.at \in Nat /\ request[r].sample.receivedAt \in Nat
           /\ request[r].sample.receivedAt <= written
  <1>1. /\ request[r] \in [pc : {"store", "derive"}, sample : AllSamples, current : BOOLEAN]
        /\ request[r].sample.receivedAt <= written
    BY DEF RequestsOK, Held, Idle, Deriving
  <1>. QED  BY <1>1, SampleFields

\* At first there are neither samples nor visits.
LEMMA InitEstablishes == Init => LocationInv
  <1>. SUFFICES ASSUME Init  PROVE LocationInv
    OBVIOUS
  <1>1. DeliveryInv
    BY FS_EmptySet
       DEF Init, DeliveryInv, SamplesOK, SampleSet, RequestsOK, Held, Never
  <1>2. VisitsOK /\ OpenVisitsKeepSamples
    BY DEF Init, VisitsOK, OpenVisitsKeepSamples
  <1>3. DerivationsOK /\ RetentionOK
    BY DEF Init, DerivationsOK, RetentionOK, Deriving, Idle
  <1>. QED  BY <1>1, <1>2, <1>3 DEF LocationInv

\* A step of one delivery leaves the others as they are.
LEMMA RequestsKept ==
    ASSUME DeliveryInv, NEW r \in Requests, NEW x, request' = [request EXCEPT ![r] = x],
           written' \in Nat, written' >= written, Held(x, written')
    PROVE  /\ RequestsOK'
           /\ \A q \in Requests : request'[q] = IF q = r THEN x ELSE request[q]
  <1>1. /\ \A q \in Requests : request'[q] = IF q = r THEN x ELSE request[q]
        /\ request' = [q \in Requests |-> request'[q]]
    BY DEF DeliveryInv, RequestsOK
  <1>2. ASSUME NEW q \in Requests  PROVE Held(request'[q], written')
    <2>1. CASE q = r
      BY <2>1, <1>1
    <2>2. CASE q # r
      <3>1. request'[q] = request[q] /\ Held(request[q], written) /\ written \in Nat
        BY <2>2, <1>1 DEF DeliveryInv, RequestsOK, SamplesOK
      <3>2. request[q] \in [pc : {"store", "derive"}, sample : AllSamples, current : BOOLEAN]
               => request[q].sample.receivedAt \in Nat
        BY SampleFields
      <3>. QED  BY <3>1, <3>2 DEF Held
    <2>. QED  BY <2>1, <2>2
  <1>. QED  BY <1>1, <1>2 DEF RequestsOK

\* A delivery begins.
LEMMA AuthenticateKeeps ==
    ASSUME DeliveryInv, NEW r \in Requests, NEW p \in Payloads, Authenticate(r, p)
    PROVE  DeliveryInv'
  <1>. DEFINE x == [pc |-> "store", sample |-> Sample(p, written), current |-> TRUE]
  <1>1. written \in 0 .. MaxWritten /\ written \in Nat /\ written' = written
    BY ConstantsAssumption DEF Authenticate, DeliveryInv, SamplesOK
  <1>2. Sample(p, written) \in AllSamples /\ Sample(p, written).receivedAt = written
    BY <1>1 DEF AllSamples, Sample
  <1>3. Held(x, written')
    BY <1>1, <1>2 DEF Held
  <1>4. request' = [request EXCEPT ![r] = x]
    BY DEF Authenticate
  <1>5. RequestsOK'
    <2>. HIDE DEF x
    <2>1. written' \in Nat /\ written' >= written
      BY <1>1
    <2>2. PICK y : y = x
      OBVIOUS
    <2>3. Held(y, written') /\ request' = [request EXCEPT ![r] = y]
      BY <1>3, <1>4, <2>2
    <2>. QED  BY <2>1, <2>3, RequestsKept
  <1>6. SamplesOK'
    BY <1>1 DEF Authenticate, DeliveryInv, SamplesOK, SampleSet, device
  <1>. QED  BY <1>5, <1>6 DEF DeliveryInv

\* A sample is stored.
LEMMA StoreKeeps ==
    ASSUME DeliveryInv, NEW r \in Requests, Store(r)
    PROVE  DeliveryInv'
  <1>. DEFINE s == request[r].sample
              x == [request[r] EXCEPT !.pc = "derive"]
  <1>1. s \in AllSamples /\ s.at \in Nat /\ s.receivedAt <= written /\ ~Duplicate(s)
    BY RequestFields DEF Store, DeliveryInv
  <1>2. SamplesOK'
    <2>1. IsFiniteSet(samples')
      BY FS_AddElement DEF Store, DeliveryInv, SamplesOK, SampleSet
    <2>2. lastSeenAt' \in Nat
      BY <1>1 DEF Store, See, DeliveryInv, SamplesOK
    <2>3. SampleSet(samples', written') /\ written' = written
      BY <1>1, <2>1 DEF Store, DeliveryInv, SamplesOK, SampleSet, Duplicate
    <2>. QED  BY <2>2, <2>3 DEF Store, DeliveryInv, SamplesOK
  <1>3. RequestsOK'
    <2>1. request[r] \in [pc : {"store", "derive"}, sample : AllSamples, current : BOOLEAN]
      BY RequestFields DEF Store, DeliveryInv
    <2>2. Held(x, written') /\ written' = written /\ written \in Nat
      BY <1>1, <2>1 DEF Held, Store, DeliveryInv, SamplesOK
    <2>3. request' = [request EXCEPT ![r] = x]
      BY DEF Store
    <2>. HIDE DEF x
    <2>4. written' >= written
      BY <2>2
    <2>5. PICK y : y = x
      OBVIOUS
    <2>6. Held(y, written') /\ request' = [request EXCEPT ![r] = y]
      BY <2>2, <2>3, <2>5
    <2>. QED  BY <2>2, <2>4, <2>6, RequestsKept
  <1>. QED  BY <1>2, <1>3 DEF DeliveryInv

\* A delivery ends: a repetition that is not stored, a refusal, a loss with its process.
LEMMA EndKeeps ==
    ASSUME DeliveryInv, NEW r \in Requests, StoreAgain(r) \/ Refuse(r) \/ Abandon(r)
    PROVE  DeliveryInv'
  <1>1. lastSeenAt' \in Nat /\ UNCHANGED <<status, samples, written>>
    <2>1. CASE StoreAgain(r)
      <3>1. request[r].sample.at \in Nat
        BY <2>1, RequestFields DEF StoreAgain, DeliveryInv
      <3>. QED  BY <2>1, <3>1 DEF StoreAgain, See, DeliveryInv, SamplesOK
    <2>2. CASE Refuse(r) \/ Abandon(r)
      BY <2>2 DEF Refuse, Abandon, device, DeliveryInv, SamplesOK
    <2>. QED  BY <2>1, <2>2
  <1>2. SamplesOK'
    BY <1>1 DEF DeliveryInv, SamplesOK, SampleSet
  <1>3. RequestsOK'
    <2>1. request' = [request EXCEPT ![r] = Idle] /\ Held(Idle, written')
      BY DEF StoreAgain, Refuse, Abandon, Held
    <2>2. written' \in Nat /\ written' >= written
      BY <1>1 DEF DeliveryInv, SamplesOK
    <2>. QED  BY <2>1, <2>2, RequestsKept
  <1>. QED  BY <1>2, <1>3 DEF DeliveryInv

\* A step of a derivation.
LEMMA DeriveKeeps ==
    ASSUME DeliveryInv, NEW r \in Requests, Derive(r)
    PROVE  DeliveryInv'
  <1>1. written' \in Nat /\ written' >= written /\ UNCHANGED <<status, lastSeenAt, samples>>
    BY DEF Derive, BeginDerive, Widen, ReadSamples, Write, device, DeliveryInv, SamplesOK
  <1>2. SamplesOK'
    <2>1. \A s \in samples : s.receivedAt \in Nat /\ s.receivedAt <= written
      BY SampleFields DEF DeliveryInv, SamplesOK, SampleSet
    <2>2. written \in Nat
      BY DEF DeliveryInv, SamplesOK
    <2>. QED  BY <1>1, <2>1, <2>2 DEF DeliveryInv, SamplesOK, SampleSet
  <1>3. PICK x : request' = [request EXCEPT ![r] = x] /\ (x = Idle \/ x.pc \in Deriving)
    <2>1. CASE BeginDerive(r)
      <3>. DEFINE w == Window(request[r].sample)
                  x == IF request[r].sample \in samples THEN w ELSE Idle
      <3>1. request' = [request EXCEPT ![r] = x]
        BY <2>1 DEF BeginDerive
      <3>2. w.pc \in Deriving
        BY DEF Window, Deriving
      <3>3. x = Idle \/ x.pc \in Deriving
        BY <3>2
      <3>. HIDE DEF x
      <3>. QED  BY <3>1, <3>3
    <2>2. CASE Widen(r)
      <3>. DEFINE q == request[r]
                  start == WidestStart(q)
                  end == WidestEnd(q)
                  x == [pc |-> IF start = q.start /\ end = q.end THEN "read" ELSE "widen",
                        over |-> q.over \cup Overlapping(q), start |-> start, end |-> end]
      <3>1. request' = [request EXCEPT ![r] = x]
        BY <2>2 DEF Widen
      <3>2. x.pc \in Deriving
        BY DEF Deriving
      <3>. HIDE DEF x
      <3>. QED  BY <3>1, <3>2
    <2>3. CASE ReadSamples(r)
      <3>. DEFINE q == request[r]
                  supported == \A v \in q.over : OpeningSupport(v, Inside(q))
                  next == [pc |-> "write", over |-> q.over, inside |-> Inside(q),
                           beside |-> retention.pc \in {"select", "delete"}]
                  x == IF supported THEN next ELSE Idle
      <3>1. request' = [request EXCEPT ![r] = x]
        BY <2>3 DEF ReadSamples
      <3>2. next.pc \in Deriving
        BY DEF Deriving
      <3>3. x = Idle \/ x.pc \in Deriving
        BY <3>2
      <3>. HIDE DEF x
      <3>. QED  BY <3>1, <3>3
    <2>4. CASE Write(r)
      BY <2>4 DEF Write
    <2>. QED  BY <2>1, <2>2, <2>3, <2>4 DEF Derive
  <1>4. RequestsOK'
    BY <1>1, <1>3, RequestsKept DEF Held
  <1>. QED  BY <1>2, <1>4 DEF DeliveryInv

\* The credentials are rotated, or the device is revoked.
LEMMA OwnerKeeps ==
    ASSUME DeliveryInv, Rotate \/ Revoke
    PROVE  DeliveryInv'
  <1>1. SamplesOK' /\ written' = written
    BY DEF Rotate, Revoke, DeliveryInv, SamplesOK, SampleSet, device
  <1>2. RequestsOK'
    <2>1. CASE Revoke
      BY <2>1 DEF Revoke, DeliveryInv, RequestsOK
    <2>2. CASE Rotate
      <3>1. ASSUME NEW q \in Requests  PROVE Held(request'[q], written)
        <4>1. CASE request[q].pc = "store"
          <5>1. request[q] \in [pc : {"store", "derive"}, sample : AllSamples,
                                current : BOOLEAN]
                /\ request[q].sample.receivedAt <= written
            BY <4>1, RequestFields DEF DeliveryInv
          <5>2. request'[q] = [request[q] EXCEPT !.current = FALSE]
            BY <2>2, <4>1 DEF Rotate
          <5>. QED  BY <5>1, <5>2 DEF Held
        <4>2. CASE request[q].pc # "store"
          BY <2>2, <4>2 DEF Rotate, DeliveryInv, RequestsOK
        <4>. QED  BY <4>1, <4>2
      <3>2. request' = [q \in Requests |-> request'[q]]
        BY <2>2 DEF Rotate
      <3>. QED  BY <1>1, <3>1, <3>2 DEF RequestsOK
    <2>. QED  BY <2>1, <2>2
  <1>. QED  BY <1>1, <1>2 DEF DeliveryInv

\* The deliveries that are noted to have retention beside them.
Noted == [r \in Requests |-> IF request[r].pc = "write"
                             THEN [request[r] EXCEPT !.beside = TRUE] ELSE request[r]]

\* Retention runs: samples may go, and deliveries may be noted.
LEMMA RetentionKeeps ==
    ASSUME DeliveryInv, Retention
    PROVE  DeliveryInv'
  <1>1. /\ samples' \subseteq samples /\ UNCHANGED <<status, lastSeenAt, written>>
        /\ request' \in {request, Noted}
    BY DEF Retention, ReadOpen, SelectSamples, DeleteSamples, DeleteVisits, StopRetention,
       device, Noted
  <1>2. IsFiniteSet(samples')
    BY <1>1, FS_Subset DEF DeliveryInv, SamplesOK, SampleSet
  <1>3. SamplesOK'
    BY <1>1, <1>2 DEF DeliveryInv, SamplesOK, SampleSet
  <1>4. RequestsOK'
    <2>1. CASE request' = request
      BY <1>1, <2>1 DEF DeliveryInv, RequestsOK
    <2>2. CASE request' = Noted
      <3>1. ASSUME NEW q \in Requests  PROVE Held(Noted[q], written)
        <4>1. CASE request[q].pc = "write"
          <5>1. Noted[q] = [request[q] EXCEPT !.beside = TRUE]
            BY <4>1 DEF Noted
          <5>2. "pc" \in DOMAIN request[q] => Noted[q].pc = "write"
            BY <4>1, <5>1
          <5>3. "pc" \notin DOMAIN request[q] => Noted[q].pc = request[q].pc
            BY <5>1
          <5>. QED  BY <4>1, <5>2, <5>3 DEF Held, Deriving
        <4>2. CASE request[q].pc # "write"
          BY <4>2 DEF Noted, DeliveryInv, RequestsOK
        <4>. QED  BY <4>1, <4>2
      <3>2. Noted = [q \in Requests |-> Noted[q]]
        BY DEF Noted
      <3>. HIDE DEF Noted
      <3>. QED  BY <1>1, <2>2, <3>1, <3>2 DEF RequestsOK
    <2>. QED  BY <1>1, <2>1, <2>2
  <1>. QED  BY <1>3, <1>4 DEF DeliveryInv

\* Whatever is derived, every step keeps what the deliveries need.
LEMMA NextDelivers ==
    ASSUME DeliveryInv, [Next]_vars
    PROVE  DeliveryInv'
  <1>1. CASE \E r \in Requests : Deliver(r)
    BY <1>1, AuthenticateKeeps, StoreKeeps, EndKeeps, DeriveKeeps DEF Deliver
  <1>2. CASE Rotate \/ Revoke
    BY <1>2, OwnerKeeps
  <1>3. CASE Retention
    BY <1>3, RetentionKeeps
  <1>4. CASE UNCHANGED vars
    BY <1>4 DEF vars, DeliveryInv, SamplesOK, SampleSet, RequestsOK
  <1>. QED  BY <1>1, <1>2, <1>3, <1>4 DEF Next

-----------------------------------------------------------------------------
(* So are the visits, and what derivations and retention have read.        *)

VisitsInv == VisitsOK /\ DerivationsOK /\ RetentionOK /\ OpenVisitsKeepSamples

\* Steps that write no visits and delete no samples, after which no delivery has read more
\* samples, nor visits that are not rows.
LEMMA AsideKeeps ==
    ASSUME LocationInv, samples \subseteq samples',
           UNCHANGED <<visits, retention, nights, written>>,
           \A r \in Requests : request'[r].pc \in Deriving =>
               \/ request'[r] = request[r]
               \/ request'[r].pc # "write" /\ \A v \in request'[r].over : VisitRow(v)
    PROVE  VisitsInv'
  <1>1. VisitsOK' /\ OpenVisitsKeepSamples'
    BY DEF LocationInv, VisitsOK, Rests, OpenVisitsKeepSamples
  <1>2. RetentionOK'
    BY DEF LocationInv, RetentionOK, Spared
  <1>3. DerivationsOK'
    <2>1. \A r \in Requests : request'[r].pc \in Deriving =>
              \A v \in request'[r].over : VisitRow(v)
      BY DEF LocationInv, DerivationsOK
    <2>2. \A r \in Requests : request'[r].pc = "write" => request'[r] = request[r]
      BY DEF Deriving
    <2>. QED  BY <2>1, <2>2 DEF LocationInv, DerivationsOK, SampleSet
  <1>. QED  BY <1>1, <1>2, <1>3 DEF VisitsInv

\* What deliveries do before their samples are read, and what the owner does, is such.
LEMMA BeforeReadingKeeps ==
    ASSUME LocationInv,
           \/ Rotate \/ Revoke
           \/ \E r \in Requests : \/ \E p \in Payloads : Authenticate(r, p)
                                  \/ Store(r) \/ StoreAgain(r) \/ Refuse(r) \/ Abandon(r)
                                  \/ BeginDerive(r) \/ Widen(r)
    PROVE  VisitsInv'
  <1>0. request = [r \in Requests |-> request[r]]
    BY DEF LocationInv, DeliveryInv, RequestsOK
  <1>1. samples \subseteq samples' /\ UNCHANGED <<visits, retention, nights, written>>
    BY DEF Rotate, Revoke, Authenticate, Store, StoreAgain, Refuse, Abandon, BeginDerive, Widen,
       nightly
  <1>2. CASE Rotate \/ Revoke
    <2>1. \A r \in Requests : request'[r] = request[r] \/ request[r].pc = "store"
      BY <1>2 DEF Rotate, Revoke
    <2>2. ASSUME NEW r \in Requests, request[r].pc = "store", request'[r] # request[r]
          PROVE  request'[r].pc = "store"
      <3>1. request[r] \in [pc : {"store", "derive"}, sample : AllSamples, current : BOOLEAN]
        BY <2>2, RequestFields DEF LocationInv, DeliveryInv
      <3>2. request'[r] = [request[r] EXCEPT !.current = FALSE]
        BY <1>2, <2>2 DEF Rotate, Revoke
      <3>. QED  BY <2>2, <3>1, <3>2
    <2>3. "store" \notin Deriving
      BY DEF Deriving
    <2>. QED  BY <1>1, <2>1, <2>2, <2>3, AsideKeeps
  <1>3. ASSUME NEW r \in Requests,
               \/ \E p \in Payloads : Authenticate(r, p)
               \/ Store(r) \/ StoreAgain(r) \/ Refuse(r) \/ Abandon(r)
               \/ BeginDerive(r) \/ Widen(r)
        PROVE  VisitsInv'
    <2>1. PICK x : /\ request' = [request EXCEPT ![r] = x]
                   /\ x.pc \in Deriving =>
                          x.pc # "write" /\ \A v \in x.over : VisitRow(v)
      <3>1. CASE \E p \in Payloads : Authenticate(r, p)
        <4>1. PICK p \in Payloads : Authenticate(r, p)
          BY <3>1
        <4>. DEFINE x == [pc |-> "store", sample |-> Sample(p, written), current |-> TRUE]
        <4>2. request' = [request EXCEPT ![r] = x]
          BY <4>1 DEF Authenticate
        <4>3. x.pc \notin Deriving
          BY DEF Deriving
        <4>. HIDE DEF x
        <4>. QED  BY <4>2, <4>3
      <3>2. CASE Store(r)
        <4>. DEFINE x == [request[r] EXCEPT !.pc = "derive"]
        <4>1. request[r] \in [pc : {"store", "derive"}, sample : AllSamples,
                              current : BOOLEAN]
          BY <3>2, RequestFields DEF LocationInv, DeliveryInv, Store
        <4>2. request' = [request EXCEPT ![r] = x] /\ x.pc = "derive"
          BY <3>2, <4>1 DEF Store
        <4>. HIDE DEF x
        <4>. QED  BY <4>2 DEF Deriving
      <3>3. CASE StoreAgain(r) \/ Refuse(r) \/ Abandon(r)
        BY <3>3 DEF StoreAgain, Refuse, Abandon, Idle, Deriving
      <3>4. CASE BeginDerive(r)
        <4>. DEFINE s == request[r].sample
                    x == IF s \in samples THEN Window(s) ELSE Idle
        <4>1. request' = [request EXCEPT ![r] = x]
          BY <3>4 DEF BeginDerive
        <4>2. Window(s).pc = "widen" /\ Window(s).over = {} /\ Idle.pc \notin Deriving
          BY DEF Window, Idle, Deriving
        <4>3. x.pc \in Deriving => x.pc # "write" /\ \A v \in x.over : VisitRow(v)
          BY <4>2
        <4>. HIDE DEF x
        <4>. QED  BY <4>1, <4>3
      <3>5. CASE Widen(r)
        <4>. DEFINE q == request[r]
                    start == WidestStart(q)
                    end == WidestEnd(q)
                    x == [pc |-> IF start = q.start /\ end = q.end THEN "read" ELSE "widen",
                          over |-> q.over \cup Overlapping(q), start |-> start, end |-> end]
        <4>1. request' = [request EXCEPT ![r] = x] /\ q.pc = "widen"
          BY <3>5 DEF Widen
        <4>2. x.pc # "write" /\ x.over = q.over \cup Overlapping(q)
          OBVIOUS
        <4>3. \A v \in q.over : VisitRow(v)
          BY <4>1 DEF LocationInv, DerivationsOK, Deriving
        <4>4. \A v \in Overlapping(q) : VisitRow(v)
          BY DEF Overlapping, LocationInv, VisitsOK, Rests
        <4>. HIDE DEF x
        <4>. QED  BY <4>1, <4>2, <4>3, <4>4
      <3>. QED  BY <1>3, <3>1, <3>2, <3>3, <3>4, <3>5
    <2>2. \A q \in Requests : request'[q] = IF q = r THEN x ELSE request[q]
      BY <1>0, <2>1
    <2>. QED  BY <1>1, <2>1, <2>2, AsideKeeps
  <1>. QED  BY <1>2, <1>3

\* The samples of a window are read.
LEMMA ReadSamplesKeeps ==
    ASSUME LocationInv, NEW r \in Requests, ReadSamples(r)
    PROVE  VisitsInv'
  <1>. DEFINE q == request[r]
              inside == Inside(q)
              supported == \A v \in q.over : OpeningSupport(v, inside)
              beside == retention.pc \in {"select", "delete"}
              next == [pc |-> "write", over |-> q.over, inside |-> inside, beside |-> beside]
  <1>1. /\ UNCHANGED <<samples, visits, retention, nights, written>> /\ q.pc = "read"
        /\ request' = [request EXCEPT ![r] = IF supported THEN next ELSE Idle]
    BY DEF ReadSamples, nightly
  <1>2. /\ next.pc = "write" /\ next.over = q.over /\ next.inside = inside
        /\ next.beside = beside /\ beside \in BOOLEAN
    OBVIOUS
  <1>3. \A p \in Requests : request'[p] = IF p = r THEN IF supported THEN next ELSE Idle
                                          ELSE request[p]
    BY <1>1 DEF LocationInv, DeliveryInv, RequestsOK
  <1>4. inside \subseteq samples /\ SampleSet(inside, written)
    <2>1. inside \subseteq samples
      BY DEF Inside
    <2>2. IsFiniteSet(inside)
      BY <2>1, FS_Subset DEF LocationInv, DeliveryInv, SamplesOK, SampleSet
    <2>. HIDE DEF inside
    <2>. QED  BY <2>1, <2>2 DEF LocationInv, DeliveryInv, SamplesOK, SampleSet
  <1>5. \A v \in q.over : VisitRow(v)
    BY <1>1 DEF LocationInv, DerivationsOK, Deriving
  <1>6. VisitsOK' /\ OpenVisitsKeepSamples'
    BY <1>1 DEF LocationInv, VisitsOK, Rests, OpenVisitsKeepSamples
  <1>7. RetentionOK'
    BY <1>1 DEF LocationInv, RetentionOK, Spared
  <1>8. DerivationsOK'
    <2>1. ASSUME NEW p \in Requests
          PROVE  /\ request'[p].pc \in Deriving => \A v \in request'[p].over : VisitRow(v)
                 /\ request'[p].pc = "write" =>
                        /\ SampleSet(request'[p].inside, written) /\ request'[p].beside \in BOOLEAN
                        /\ \A v \in request'[p].over : OpeningSupport(v, request'[p].inside)
                        /\ request'[p] = WithRead(request'[p], request'[p].beside)
                 /\ request'[p].pc = "write" /\ ~request'[p].beside =>
                        /\ request'[p].inside \subseteq samples
                        /\ retention.pc \notin {"select", "delete"}
      <3>1. CASE p # r
        <4>1. request'[p] = request[p]
          BY <3>1, <1>3
        <4>. QED  BY <4>1 DEF LocationInv, DerivationsOK
      <3>2. CASE p = r /\ supported
        <4>1. request'[p] = next
          BY <3>2, <1>3
        <4>2. next = WithRead(next, next.beside)
          BY <1>2 DEF WithRead
        <4>. HIDE DEF next, inside
        <4>. QED  BY <3>2, <4>1, <4>2, <1>2, <1>4, <1>5
      <3>3. CASE p = r /\ ~supported
        <4>1. request'[p] = Idle
          BY <3>3, <1>3
        <4>. QED  BY <4>1 DEF Idle, Deriving
      <3>. QED  BY <3>1, <3>2, <3>3
    <2>. HIDE DEF next, inside, supported, beside
    <2>. QED  BY <1>1, <2>1 DEF DerivationsOK, SampleSet
  <1>. QED  BY <1>6, <1>7, <1>8 DEF VisitsInv

\* Visits are written.
LEMMA WriteKeeps ==
    ASSUME LocationInv, NEW r \in Requests, Write(r)
    PROVE  VisitsInv'
  <1>. DEFINE q == request[r]
  <1>1. /\ \A v \in visits' : Rests(v)
        /\ \A v, o \in visits' : o.samples = v.samples => o = v
        /\ \A v \in visits' \ visits : /\ v.samples \subseteq q.inside
                                       /\ v.beside = (v.departedAt = Never /\ q.beside)
    BY WriteRewrites
  <1>2. /\ UNCHANGED <<samples, retention, nights>> /\ q.pc = "write"
        /\ request' = [request EXCEPT ![r] = Idle]
    BY DEF Write, nightly
  <1>3. written \in Nat /\ written' \in Nat /\ written' >= written
    BY DEF Write, LocationInv, DeliveryInv, SamplesOK
  <1>4. \A p \in Requests : request'[p] = IF p = r THEN Idle ELSE request[p]
    BY <1>2 DEF LocationInv, DeliveryInv, RequestsOK
  <1>5. /\ q.beside \in BOOLEAN
        /\ ~q.beside => q.inside \subseteq samples /\ retention.pc \notin {"select", "delete"}
    BY <1>2 DEF LocationInv, DerivationsOK
  <1>6. VisitsOK'
    BY <1>1 DEF VisitsOK, Rests
  <1>7. ASSUME NEW v \in Spared'
        PROVE  \/ v \in Spared
               \/ v.samples \subseteq samples /\ retention.pc \notin {"select", "delete"}
    <2>1. v \in visits' /\ v.departedAt = Never /\ ~v.beside
      BY <1>7 DEF Spared
    <2>2. CASE v \in visits
      BY <2>1, <2>2 DEF Spared
    <2>3. CASE v \notin visits
      <3>1. v.samples \subseteq q.inside /\ v.beside = (v.departedAt = Never /\ q.beside)
        BY <2>1, <2>3, <1>1
      <3>2. ~q.beside
        BY <2>1, <3>1
      <3>. QED  BY <3>1, <3>2, <1>5
    <2>. QED  BY <2>2, <2>3
  <1>8. OpenVisitsKeepSamples'
    <2>1. ASSUME NEW v \in Spared'  PROVE v.samples \subseteq samples
      BY <1>7 DEF Spared, LocationInv, OpenVisitsKeepSamples
    <2>. QED  BY <1>2, <2>1 DEF Spared, OpenVisitsKeepSamples
  <1>9. RetentionOK'
    <2>1. retention \in {Idle, Visits} => RetentionOK'
      BY <1>2 DEF LocationInv, RetentionOK
    <2>2. ASSUME retention.pc \in {"select", "delete"}  PROVE Spared' \subseteq Spared
      BY <1>7, <2>2
    <2>. QED  BY <1>2, <2>1, <2>2 DEF LocationInv, RetentionOK
  <1>10. DerivationsOK'
    <2>1. ASSUME NEW p \in Requests, request'[p].pc \in Deriving
          PROVE  request'[p] = request[p]
      BY <1>4, <2>1 DEF Idle, Deriving
    <2>2. ASSUME NEW S, SampleSet(S, written)  PROVE SampleSet(S, written')
      <3>1. \A s \in S : s.receivedAt \in Nat
        BY <2>2, SampleFields DEF SampleSet
      <3>. QED  BY <2>2, <3>1, <1>3 DEF SampleSet
    <2>3. \A p \in Requests : request'[p].pc = "write" =>
              SampleSet(request[p].inside, written) /\ SampleSet(request'[p].inside, written')
      <3>. SUFFICES ASSUME NEW p \in Requests, request'[p].pc = "write"
                    PROVE  SampleSet(request[p].inside, written) /\ SampleSet(request'[p].inside, written')
        OBVIOUS
      <3>1. request'[p] = request[p]
        BY <2>1 DEF Deriving
      <3>2. SampleSet(request[p].inside, written)
        BY <3>1 DEF LocationInv, DerivationsOK
      <3>3. \A s \in request[p].inside : s.receivedAt \in Nat
        BY <3>2, SampleFields DEF SampleSet
      <3>. QED  BY <3>1, <3>2, <3>3, <1>3 DEF SampleSet
    <2>. QED  BY <1>2, <2>1, <2>3 DEF LocationInv, DerivationsOK, Deriving
  <1>. QED  BY <1>6, <1>8, <1>9, <1>10 DEF VisitsInv

\* A night begins: what is to be deleted is from before the first open visit.
LEMMA ReadOpenKeeps ==
    ASSUME LocationInv, NEW cutoff \in Cutoffs, ReadOpen(cutoff)
    PROVE  VisitsInv'
  <1>. DEFINE times == {cutoff} \cup {v.arrivedAt : v \in OpenBefore(cutoff)}
              first == Earliest(times)
  <1>1. /\ UNCHANGED <<samples, visits, written>> /\ nights' = nights \cup {cutoff}
        /\ retention' = [pc |-> "select", before |-> first]
        /\ request' = Noted
    BY DEF ReadOpen, Noted
  <1>2. times \subseteq Nat
    BY ConstantsAssumption DEF OpenBefore, LocationInv, VisitsOK, Rests, VisitRow
  <1>3. first \in Nat /\ \A u \in times : first <= u
    <2>. HIDE DEF times
    <2>1. times # {}
      BY DEF times
    <2>. QED  BY <1>2, <2>1, EarliestIsFirst
  <1>4. ASSUME NEW v \in Spared  PROVE first <= v.arrivedAt
    <2>1. v \in visits /\ v.departedAt = Never /\ v.arrivedAt \in Nat
      BY DEF Spared, LocationInv, VisitsOK, Rests, VisitRow
    <2>2. CASE v.arrivedAt < cutoff
      BY <2>1, <2>2, <1>3 DEF OpenBefore
    <2>3. CASE ~(v.arrivedAt < cutoff)
      BY <2>1, <2>3, <1>3, ConstantsAssumption
    <2>. QED  BY <2>2, <2>3
  <1>5. VisitsOK' /\ OpenVisitsKeepSamples'
    BY <1>1 DEF LocationInv, VisitsOK, Rests, OpenVisitsKeepSamples
  <1>6. RetentionOK'
    <2>1. Spared' = Spared
      BY <1>1 DEF Spared
    <2>2. retention'.before = first /\ retention' \in [pc : {"select"}, before : Nat]
      BY <1>1, <1>3
    <2>. HIDE DEF first
    <2>. QED  BY <1>1, <1>4, <2>1, <2>2 DEF LocationInv, RetentionOK
  <1>7. DerivationsOK'
    <2>1. \A r \in Requests : /\ request[r].pc # "write" => request'[r] = request[r]
                              /\ request[r].pc = "write" =>
                                     request'[r] = [request[r] EXCEPT !.beside = TRUE]
      BY <1>1 DEF Noted
    <2>2. ASSUME NEW r \in Requests, request[r].pc = "write"
          PROVE  /\ request'[r].pc = "write" /\ request'[r].over = request[r].over
                 /\ request'[r].inside = request[r].inside /\ request'[r].beside \in BOOLEAN
                 /\ request'[r].beside
                 /\ request'[r] = WithRead(request'[r], request'[r].beside)
      <3>. DEFINE q == request[r]
                  new == WithRead(q, TRUE)
      <3>1. q = WithRead(q, q.beside) /\ request'[r] = [q EXCEPT !.beside = TRUE]
        <4>1. request[r] = WithRead(request[r], request[r].beside)
          BY <2>2 DEF LocationInv, DerivationsOK
        <4>2. request'[r] = [request[r] EXCEPT !.beside = TRUE]
          BY <2>1, <2>2
        <4>. QED  BY <4>1, <4>2
      <3>2. [q EXCEPT !.beside = TRUE] = new
        <4>1. q = [pc |-> "write", over |-> q.over, inside |-> q.inside, beside |-> q.beside]
          BY <3>1 DEF WithRead
        <4>. HIDE DEF q
        <4>2. PICK z : z = q
          OBVIOUS
        <4>3. PICK o : o = q.over
          OBVIOUS
        <4>4. PICK i : i = q.inside
          OBVIOUS
        <4>5. PICK b : b = q.beside
          OBVIOUS
        <4>6. PICK x : x = TRUE
          OBVIOUS
        <4>7. [z EXCEPT !.beside = x] = [pc |-> "write", over |-> o, inside |-> i, beside |-> x]
          <5>1. z = [pc |-> "write", over |-> o, inside |-> i, beside |-> b]
            BY <4>1, <4>2, <4>3, <4>4, <4>5
          <5>. QED  BY <5>1
        <4>. QED  BY <4>2, <4>3, <4>4, <4>6, <4>7 DEF WithRead
      <3>3. request'[r] = new
        <4>. HIDE DEF q, new
        <4>. QED  BY <3>1, <3>2
      <3>4. /\ new.pc = "write" /\ new.over = q.over /\ new.inside = q.inside /\ new.beside
            /\ new.beside \in BOOLEAN /\ new = WithRead(new, new.beside)
        BY DEF WithRead
      <3>. HIDE DEF new
      <3>. QED  BY <3>3, <3>4
    <2>3. UNCHANGED <<samples, written>> /\ "write" \in Deriving
      BY <1>1 DEF Deriving
    <2>. QED  BY <2>1, <2>2, <2>3 DEF LocationInv, DerivationsOK
  <1>. QED  BY <1>5, <1>6, <1>7 DEF VisitsInv

\* The samples before that are selected, deleted, and the night goes on, ends or is lost.
LEMMA NightKeeps ==
    ASSUME LocationInv,
           \/ SelectSamples \/ DeleteSamples \/ StopRetention
           \/ \E c \in Cutoffs : DeleteVisits(c)
    PROVE  VisitsInv'
  <1>1. /\ UNCHANGED <<request, nights, written>> /\ samples' \subseteq samples
        /\ visits' \subseteq visits
    BY DEF SelectSamples, DeleteSamples, StopRetention, DeleteVisits
  <1>2. VisitsOK'
    BY <1>1 DEF LocationInv, VisitsOK, Rests
  <1>3. /\ retention.pc \notin {"select", "delete"}
               => retention'.pc \notin {"select", "delete"} /\ samples' = samples
        /\ Spared' \subseteq Spared
    BY <1>1 DEF SelectSamples, DeleteSamples, StopRetention, DeleteVisits, Idle, Visits, Spared
  <1>4. DerivationsOK'
    BY <1>1, <1>3 DEF LocationInv, DerivationsOK, SampleSet
  <1>5. OpenVisitsKeepSamples'
    <2>1. \A v \in Spared : v.samples \subseteq samples
      BY DEF Spared, LocationInv, OpenVisitsKeepSamples
    <2>2. CASE samples' = samples
      BY <1>1, <2>1, <2>2 DEF Spared, OpenVisitsKeepSamples
    <2>3. CASE DeleteSamples
      <3>1. samples' = samples \ retention.rows /\ retention.pc = "delete"
        BY <2>3 DEF DeleteSamples
      <3>2. \A v \in Spared : \A s \in retention.rows : s.at < v.arrivedAt
        BY <3>1 DEF LocationInv, RetentionOK, Idle, Visits
      <3>3. \A v \in Spared : /\ v.arrivedAt \in Nat
                              /\ \A s \in v.samples : s.at \in Nat /\ v.arrivedAt <= s.at
        BY SampleFields DEF Spared, LocationInv, VisitsOK, Rests, VisitRow
      <3>4. \A v \in Spared : v.samples \subseteq samples'
        BY <2>1, <3>1, <3>2, <3>3
      <3>. QED  BY <1>1, <3>4 DEF Spared, OpenVisitsKeepSamples
    <2>. QED  BY <2>2, <2>3 DEF SelectSamples, StopRetention, DeleteVisits
  <1>6. RetentionOK'
    <2>1. nights' \subseteq Cutoffs
      BY <1>1 DEF LocationInv, RetentionOK
    <2>2. CASE retention' \in {Idle, Visits}
      BY <2>1, <2>2 DEF RetentionOK
    <2>3. CASE retention' \notin {Idle, Visits}
      <3>. DEFINE rows == {s \in samples : s.at < retention.before}
      <3>1. SelectSamples /\ retention' = [pc |-> "delete", rows |-> rows]
        BY <2>3 DEF SelectSamples, DeleteSamples, StopRetention, DeleteVisits
      <3>2. /\ retention.before \in Nat
            /\ \A v \in Spared : retention.before <= v.arrivedAt
        BY <3>1 DEF SelectSamples, LocationInv, RetentionOK, Idle, Visits
      <3>3. /\ rows \subseteq AllSamples
            /\ \A v \in Spared : v.arrivedAt \in Nat
            /\ \A s \in rows : s.at \in Nat /\ s.at < retention.before
        BY SampleFields DEF Spared, LocationInv, DeliveryInv, SamplesOK, SampleSet, VisitsOK,
           Rests, VisitRow
      <3>4. \A v \in Spared' : \A s \in rows : s.at < v.arrivedAt
        BY <1>3, <3>2, <3>3
      <3>. HIDE DEF rows
      <3>5. retention' \in [pc : {"delete"}, rows : SUBSET AllSamples]
            /\ retention'.rows = rows
        BY <3>1, <3>3
      <3>. QED  BY <2>1, <3>4, <3>5 DEF RetentionOK
    <2>. QED  BY <2>2, <2>3
  <1>. QED  BY <1>2, <1>4, <1>5, <1>6 DEF VisitsInv

\* Every step keeps the invariant.
LEMMA NextKeeps ==
    ASSUME LocationInv, [Next]_vars
    PROVE  LocationInv'
  <1>1. DeliveryInv'
    BY NextDelivers DEF LocationInv
  <1>2. VisitsInv'
    <2>1. CASE \E r \in Requests : Deliver(r)
      <3>1. PICK r \in Requests : Deliver(r)
        BY <2>1
      <3>2. CASE ReadSamples(r) \/ Write(r)
        BY <3>2, ReadSamplesKeeps, WriteKeeps
      <3>3. CASE ~(ReadSamples(r) \/ Write(r))
        BY <3>1, <3>3, BeforeReadingKeeps DEF Deliver, Derive
      <3>. QED  BY <3>2, <3>3
    <2>2. CASE Rotate \/ Revoke
      BY <2>2, BeforeReadingKeeps
    <2>3. CASE Retention
      BY <2>3, ReadOpenKeeps, NightKeeps DEF Retention
    <2>4. CASE UNCHANGED vars
      BY <2>4, AsideKeeps DEF vars
    <2>. QED  BY <2>1, <2>2, <2>3, <2>4 DEF Next
  <1>. QED  BY <1>1, <1>2 DEF LocationInv, VisitsInv

-----------------------------------------------------------------------------
(* Theorems.                                                               *)

\* The invariant that the theorems about deliveries rest on (location-ingest.service.ts).
THEOREM DeliveryInvariant == Spec => []DeliveryInv
  <1>1. Init => DeliveryInv
    BY InitEstablishes DEF LocationInv
  <1>2. DeliveryInv /\ [Next]_vars => DeliveryInv'
    BY NextDelivers
  <1>. QED  BY <1>1, <1>2, PTL DEF Spec

\* Whatever arrives late, twice or with credentials that are rotated meanwhile, the time
\* the device was last seen never goes back (monotonicLastSeenWhere).
THEOREM LastSeenStays == Spec => LastSeenNeverBack
  <1>1. DeliveryInv /\ [Next]_vars => [lastSeenAt' >= lastSeenAt]_vars
    <2>. SUFFICES ASSUME DeliveryInv, [Next]_vars  PROVE lastSeenAt' >= lastSeenAt
      OBVIOUS
    <2>1. lastSeenAt \in Nat
      BY DEF DeliveryInv, SamplesOK
    <2>2. CASE \E r \in Requests : Store(r) \/ StoreAgain(r)
      <3>1. PICK r \in Requests : Store(r) \/ StoreAgain(r)
        BY <2>2
      <3>2. request[r].sample.at \in Nat
        BY <3>1, RequestFields DEF DeliveryInv, Store, StoreAgain
      <3>. QED  BY <2>1, <3>1, <3>2 DEF Store, StoreAgain, See
    <2>3. CASE ~\E r \in Requests : Store(r) \/ StoreAgain(r)
      <3>1. lastSeenAt' = lastSeenAt
        BY <2>3 DEF Next, vars, device, Rotate, Revoke, Retention, ReadOpen, SelectSamples,
           DeleteSamples, DeleteVisits, StopRetention, Deliver, Authenticate, Refuse, Derive,
           BeginDerive, Widen, ReadSamples, Write, Abandon
      <3>. QED  BY <2>1, <3>1
    <2>. QED  BY <2>2, <2>3
  <1>. QED  BY <1>1, DeliveryInvariant, PTL DEF Spec, LastSeenNeverBack

\* The invariant that the theorems about visits rest on.
THEOREM LocationInvariant == Spec => []LocationInv
  <1>1. Init => LocationInv
    BY InitEstablishes
  <1>2. LocationInv /\ [Next]_vars => LocationInv'
    BY NextKeeps
  <1>. QED  BY <1>1, <1>2, PTL DEF Spec

\* The rows of a device, and what is in progress, have their types: no two samples have
\* the same payload and no two visits the same samples (isPayloadDuplicate, sourceMac).
THEOREM LocationTypes == Spec => []TypeOK
  <1>1. LocationInv => TypeOK
    <2>. SUFFICES ASSUME LocationInv  PROVE TypeOK
      OBVIOUS
    <2>1. DOMAIN request = Requests
      BY DEF LocationInv, DeliveryInv, RequestsOK
    <2>2. ASSUME NEW r \in Requests  PROVE InProgress(request[r])
      <3>1. Held(request[r], written)
        BY DEF LocationInv, DeliveryInv, RequestsOK
      <3>2. CASE request[r].pc \in Deriving
        BY <3>2 DEF InProgress, Deriving, LocationInv, DerivationsOK, SampleSet
      <3>3. CASE request[r].pc \notin Deriving
        BY <3>1, <3>3 DEF InProgress, Held
      <3>. QED  BY <3>2, <3>3
    <2>3. /\ \A v \in visits : VisitRow(v) /\ \A o \in visits : o.samples = v.samples => o = v
          /\ nights \subseteq Cutoffs
          /\ \/ retention = Idle
             \/ retention \in [pc : {"select"}, before : Nat]
             \/ retention \in [pc : {"delete"}, rows : SUBSET AllSamples]
             \/ retention = Visits
      BY DEF LocationInv, VisitsOK, Rests, RetentionOK
    <2>. QED  BY <2>1, <2>2, <2>3 DEF LocationInv, DeliveryInv, SamplesOK, SampleSet, TypeOK
  <1>2. Spec => []LocationInv
    BY LocationInvariant
  <1>. QED  BY <1>1, <1>2, PTL

\* Retention leaves an open visit all the samples it stands for, whatever was derived
\* and deleted before, unless it was about to delete samples between the reading of the
\* visit's samples and its writing (deleteSampleBatches, recomputeForSample).
THEOREM OpenVisitsAreKept == Spec => []OpenVisitsKeepSamples
  <1>1. LocationInv => OpenVisitsKeepSamples
    BY DEF LocationInv
  <1>2. Spec => []LocationInv
    BY LocationInvariant
  <1>. QED  BY <1>1, <1>2, PTL

\* No late delivery changes or removes a visit whose opening is no longer retained
\* (hasExactOpeningSupport).
THEOREM HistoryIsKept == Spec => HistoryStands
  <1>1. LocationInv /\ [Next]_vars =>
           [request' # request => \A v \in visits : OpeningGone(v) => v \in visits']_vars
    <2>. SUFFICES ASSUME LocationInv, [Next]_vars, request' # request,
                         NEW v \in visits, OpeningGone(v)
                  PROVE  v \in visits'
      OBVIOUS
    <2>1. CASE \E r \in Requests : Write(r)
      BY <2>1, WriteRewrites
    <2>2. CASE ~\E r \in Requests : Write(r)
      BY <2>2 DEF Next, vars, Rotate, Revoke, Retention, ReadOpen, SelectSamples, DeleteSamples,
         DeleteVisits, StopRetention, Deliver, Authenticate, Store, StoreAgain, Refuse, Derive,
         BeginDerive, Widen, ReadSamples, Abandon
    <2>. QED  BY <2>1, <2>2
  <1>2. Spec => []LocationInv
    BY LocationInvariant
  <1>. QED  BY <1>1, <1>2, PTL DEF Spec, HistoryStands

-----------------------------------------------------------------------------
(* The components that meet providers and feeds, in one run (MCProviders). *)
(* Each is one of those that SceneProofs proves about, with the constants  *)
(* of the run: what is proved there for all constants holds of the scene   *)
(* that it plays in, once these are found to be as assumed, and a scene    *)
(* that is not on stands still.                                            *)
Parts == INSTANCE SceneProofs WITH
    Calendars <- {k1}, ListRuns <- {r1, r2}, ListLease <- 0, ListJitter <- 1, MaxListings <- 1,
    MaxListClock <- 2, history <- history_, heard <- told, Attempts <- {a1}, Callbacks <- {r1, r2},
    AttemptTime <- 1, PruneAge <- 2, MaxTime <- 4, Contacts <- {"c1"}, Names <- {n1},
    Blanks <- {"company", "socialLinks"}, Values <- {v1, v2}, Evidence <- Claims,
    Offered <- {e \in Claims : e.place = "card"},
    RowIds <- {1, 2, 3}, Saves <- {r1, r2}, MaxAttempts <- 3, EventSources <- {"s1"},
    Pollers <- {r1, r2}, Events <- {e1}, EndsAt <- [e \in {e1} |-> 1], Lease <- 1,
    PollInterval <- 1, MaxFeeds <- 2, MaxPollClock <- 3, Slugs <- {1, 2, 3}, LeafSize <- 1,
    posted <- listed, leaf <- page, KeepingContacts <- {"c1"}, System <- {"s1"},
    OwnersDays <- {"o1"}, YearDays <- 4, LeapDay <- 1, ReminderWindow <- 2, MaxListed <- 1,
    MaxToday <- 12, Dates <- Feasts, Occurrences <- {e1}, SourceZone <- "plain", Zones <- Clocks,
    Forms <- Shapes, Nil <- Off, DayLength <- 4, CorrectionAttempts <- 4, Packs <- IcsFeeds,
    Now <- 2, ReadAhead <- 3, MaxWork <- 8, pack <- feed, turn <- step, past <- seen,
    PublicEvents <- Offers, MaxDistance <- 50,
    Travel <- [d \in {0, 40, 60} |-> IF d = 0 THEN 0 ELSE 1], BusyDays <- {2}, DismissalLasts <- 1,
    Remembered <- 2, MaxSnooze <- 2, MaxSaid <- 2, MaxDay <- 2, talk <- said, Vaults <- Homes,
    Natives <- AlreadyThere, Exports <- {<<Line(1, "two"), Line(2, "two")>>}, DemoCount <- 1,
    ImportRuns <- {r1, r2}, importing <- run

\* What the model values are taken for: being off is no time, and no value is the lack of one.
Meant == Off \notin Int /\ "none" \notin {v1, v2}

-----------------------------------------------------------------------------
(* The constants of the run are as the proofs assume.                      *)
\* Events that are offered have times, places and weights, and ids of their own.
LEMMA OffersAre == Parts!AdviceAssumption
  <1>. DEFINE f == [i \in 1 .. 5 |-> CASE i = 1 -> Event(1, 1, 2, "social", 0, 0, 5, 1)
                       [] i = 2 -> Event(2, 2, 3, "social", 40, 0, 5, 0)
                       [] i = 3 -> Event(3, 3, 5, "", -1, 1, 2, 0)
                       [] i = 4 -> Event(4, 3, 4, "", 60, 2, 5, 0)
                       [] i = 5 -> Event(5, 2, 4, "", 0, 0, 0, 0)]
  <1>2. /\ Offers = {f[i] : i \in 1 .. 5}
        /\ \A i \in 1 .. 5 : f[i].id = i /\ f[i].distance \in {0, 40, 60, -1} /\ Parts!PublicForm(f[i])
    <2>0. /\ f[1] = Event(1, 1, 2, "social", 0, 0, 5, 1)
          /\ f[2] = Event(2, 2, 3, "social", 40, 0, 5, 0)
          /\ f[3] = Event(3, 3, 5, "", -1, 1, 2, 0)
          /\ f[4] = Event(4, 3, 4, "", 60, 2, 5, 0)
          /\ f[5] = Event(5, 2, 4, "", 0, 0, 0, 0)
      OBVIOUS
    <2>. HIDE DEF f
    <2>1. Offers = {f[1], f[2], f[3], f[4], f[5]}
      BY <2>0 DEF Offers
    <2>2. 1 .. 5 = {1, 2, 3, 4, 5}
      OBVIOUS
    <2>3. Offers = {f[i] : i \in 1 .. 5}
      BY <2>1, <2>2
    <2>4. ASSUME NEW i \in Int, NEW a \in Int, NEW b \in Int, NEW c, NEW d \in Int,
                 NEW n \in Int, NEW w \in Int, NEW k \in Int
          PROVE  LET e == Event(i, a, b, c, d, n, w, k)
                 IN  Parts!PublicForm(e) /\ e.id = i /\ e.distance = d
      BY DEF Event, Parts!PublicForm
    <2>5. f[1].id = 1 /\ f[1].distance = 0 /\ Parts!PublicForm(f[1])
      <3>1. \E c : f[1] = Event(1, 1, 2, c, 0, 0, 5, 1)
        BY <2>0, Zenon
      <3>. QED  BY <3>1, <2>4
    <2>6. f[2].id = 2 /\ f[2].distance = 40 /\ Parts!PublicForm(f[2])
      <3>1. \E c : f[2] = Event(2, 2, 3, c, 40, 0, 5, 0)
        BY <2>0, Zenon
      <3>. QED  BY <3>1, <2>4
    <2>7. f[3].id = 3 /\ f[3].distance = -1 /\ Parts!PublicForm(f[3])
      <3>1. \E c : f[3] = Event(3, 3, 5, c, -1, 1, 2, 0)
        BY <2>0, Zenon
      <3>. QED  BY <3>1, <2>4
    <2>8. f[4].id = 4 /\ f[4].distance = 60 /\ Parts!PublicForm(f[4])
      <3>1. \E c : f[4] = Event(4, 3, 4, c, 60, 2, 5, 0)
        BY <2>0, Zenon
      <3>. QED  BY <3>1, <2>4
    <2>9. f[5].id = 5 /\ f[5].distance = 0 /\ Parts!PublicForm(f[5])
      <3>1. \E c : f[5] = Event(5, 2, 4, c, 0, 0, 0, 0)
        BY <2>0, Zenon
      <3>. QED  BY <3>1, <2>4
    <2>. QED  BY <2>2, <2>3, <2>5, <2>6, <2>7, <2>8, <2>9
  <1>. HIDE DEF f
  <1>3. Parts!IsFiniteSet(Offers)
    <2>1. Parts!IsFiniteSet({f[1]})
      BY Parts!FS_Singleton
    <2>2. Parts!IsFiniteSet({f[1]} \cup {f[2]})
      BY <2>1, Parts!FS_AddElement
    <2>3. Parts!IsFiniteSet({f[1]} \cup {f[2]} \cup {f[3]})
      BY <2>2, Parts!FS_AddElement
    <2>4. Parts!IsFiniteSet({f[1]} \cup {f[2]} \cup {f[3]} \cup {f[4]})
      BY <2>3, Parts!FS_AddElement
    <2>5. Parts!IsFiniteSet({f[1]} \cup {f[2]} \cup {f[3]} \cup {f[4]} \cup {f[5]})
      BY <2>4, Parts!FS_AddElement
    <2>6. Offers = {f[1]} \cup {f[2]} \cup {f[3]} \cup {f[4]} \cup {f[5]}
      <3>1. 1 .. 5 = {1, 2, 3, 4, 5}
        OBVIOUS
      <3>. QED  BY <1>2, <3>1
    <2>. QED  BY <2>5, <2>6
  <1>4. \A e, g \in Offers : e.id = g.id => e = g
    BY <1>2
  <1>5. \A e \in Offers : Parts!PublicForm(e) /\ e.distance \in {0, 40, 60, -1}
    BY <1>2
  <1>6. \A e \in Offers : Parts!Padding(e) \in Nat
    BY <1>5 DEF Parts!Padding
  <1>. QED  BY <1>3, <1>4, <1>5, <1>6 DEF Parts!AdviceAssumption

\* Dates are of a day of the year, or of one year.
LEMMA FeastsAre == Parts!DaysAssumption
  <1>1. Feasts \subseteq [kind : {"fixed", "lunar", "full"}, day : Nat]
    BY DEF Feasts, Date
  <1>. QED  BY <1>1 DEF Parts!DaysAssumption

\* Slugs are in an order.
LEMMA SlugsAre == Parts!CatalogAssumption
  <1>1. Parts!IsFiniteSet({1, 2, 3})
    <2>1. {1, 2, 3} = 1 .. 3 /\ 1 \in Int /\ 3 \in Int
      OBVIOUS
    <2>. QED  BY <2>1, Parts!FS_Interval
  <1>. QED  BY <1>1 DEF Parts!CatalogAssumption

\* Leases last.
LEMMA FeedsAre == Parts!FeedConstants
  BY DEF Parts!FeedConstants

\* Feeds are of series and exceptions that are numbers.
LEMMA IcsAre == Parts!IcsAssumption
  <1>1. \A m \in Masters : m \in Parts!MasterForms
    BY DEF Masters, Parts!MasterForms
  <1>2. \A x \in Exceptions : x \in Parts!ExceptionForms
    BY DEF Exceptions, Parts!ExceptionForms
  <1>3. ASSUME NEW f \in IcsFeeds
        PROVE  /\ f.masters \subseteq Parts!MasterForms /\ f.exceptions \subseteq Parts!ExceptionForms
               /\ f.exdates \subseteq Nat
               /\ Parts!IsFiniteSet(f.masters) /\ Parts!IsFiniteSet(f.exceptions)
               /\ Parts!IsFiniteSet(f.exdates)
    <2>1. /\ f.masters = {} \/ \E m \in Masters : f.masters = {m}
          /\ f.exceptions = {} \/ \E x \in Exceptions : f.exceptions = {x}
          /\ f.exdates \in {{}, {2}, {8}}
      BY DEF IcsFeeds
    <2>2. \A s : s = {} \/ (\E x : s = {x}) => Parts!IsFiniteSet(s)
      BY Parts!FS_EmptySet, Parts!FS_Singleton
    <2>3. f.masters \subseteq Parts!MasterForms /\ f.exceptions \subseteq Parts!ExceptionForms
      BY <2>1, <1>1, <1>2
    <2>4. f.exdates \subseteq Nat
      BY <2>1
    <2>5. Parts!IsFiniteSet(f.masters) /\ Parts!IsFiniteSet(f.exceptions)
      BY <2>1, <2>2
    <2>6. Parts!IsFiniteSet(f.exdates)
      BY <2>1, <2>2
    <2>. QED  BY <2>3, <2>4, <2>5, <2>6
  <1>. QED  BY <1>3 DEF Parts!IcsAssumption

\* Forms of events are of a shape, and in a zone that is known.
LEMMA ContentsAre == ASSUME Meant PROVE Parts!ContentsAssumption
  <1>1. \A z \in DOMAIN Clocks : Clocks[z] \in [before : Int, after : Int, at : Int]
    BY DEF Clocks, ZoneChange
  <1>2. "plain" \in DOMAIN Clocks /\ {"forward", "back", "west"} \subseteq DOMAIN Clocks
    BY DEF Clocks
  <1>3. ASSUME NEW form \in Shapes
        PROVE  /\ DOMAIN form = {"status", "shape", "zone", "start", "end", "text", "series"}
               /\ form.shape \in {"timed", "allDay", "none"} /\ form.zone \in DOMAIN Clocks \cup {Off}
               /\ form.start \in Int /\ form.end \in Int
    <2>1. \A says, shape, zone, start, end, text, series :
             LET f == Form(says, shape, zone, start, end, text, series)
             IN  /\ DOMAIN f = {"status", "shape", "zone", "start", "end", "text", "series"}
                 /\ f.shape = shape /\ f.zone = zone /\ f.start = start /\ f.end = end
      BY DEF Form
    <2>2. \E says, text, series, zone :
            \E shape \in {"timed", "allDay", "none"}, start \in {0, 1, 2}, end \in {0, 1, 2, 3} :
               /\ form = Form(says, shape, zone, start, end, text, series)
               /\ zone \in {Off, "forward", "back", "west"}
      BY DEF Shapes
    <2>. QED  BY <2>1, <2>2, <1>2
  <1>. QED  BY <1>1, <1>2, <1>3 DEF Parts!ContentsAssumption, Meant

\* Contacts that are there have ids and vaults of their own, and none of an export.
LEMMA ImportsAre == Parts!WholeAssumption
  <1>. DEFINE E == <<Line(1, "two"), Line(2, "two")>>
  <1>1. {E} \subseteq Seq(Parts!Lines)
    <2>1. DOMAIN E = {1, 2} /\ E[1] = Line(1, "two") /\ E[2] = Line(2, "two")
      OBVIOUS
    <2>2. Parts!Lines = {E[i] : i \in DOMAIN E}
      BY DEF Parts!Lines
    <2>. QED  BY <2>1, <2>2
  <1>2. Parts!Import!Sources \subseteq {1, 2}
    BY DEF Parts!Import!Sources, Parts!Import!ToSet, Line
  <1>3. \A n \in AlreadyThere : n.id \in {11, 12} /\ n.id \in Int
    BY DEF AlreadyThere, Own
  <1>4. Parts!ImportAssumption
    BY <1>1, <1>2, <1>3 DEF Parts!ImportAssumption
  <1>5. Parts!IsFiniteSet(Homes) /\ Parts!IsFiniteSet(AlreadyThere)
    <2>. DEFINE h1 == [owner |-> "o1", vault |-> "v1"]  h2 == [owner |-> "o2", vault |-> "v2"]
                n1_ == Own("o1", "v1", 11)  n2 == Own("o1", "v1", 12)  n3 == Own("o2", "v2", 11)
    <2>1. Homes = {h1} \cup {h2} /\ AlreadyThere = ({n1_} \cup {n2}) \cup {n3}
      BY DEF Homes, AlreadyThere
    <2>. HIDE DEF h1, h2, n1_, n2, n3
    <2>2. Parts!IsFiniteSet({h1}) /\ Parts!IsFiniteSet({n1_})
      BY Parts!FS_Singleton
    <2>3. Parts!IsFiniteSet({h1} \cup {h2}) /\ Parts!IsFiniteSet({n1_} \cup {n2})
      BY <2>2, Parts!FS_AddElement
    <2>4. Parts!IsFiniteSet(({n1_} \cup {n2}) \cup {n3})
      BY <2>3, Parts!FS_AddElement
    <2>. QED  BY <2>1, <2>3, <2>4
  <1>6. \A n \in AlreadyThere : \E v \in Homes : n.owner = v.owner /\ n.vault = v.vault
    BY DEF AlreadyThere, Homes, Own
  <1>7. \A m, n \in AlreadyThere : m.owner = n.owner /\ m.id = n.id => m.vault = n.vault
    BY DEF AlreadyThere, Own
  <1>. QED  BY <1>4, <1>5, <1>6, <1>7 DEF Parts!WholeAssumption

-----------------------------------------------------------------------------
(* The same module with the same constants is the same: what a scene says  *)
(* is what the part says that it is.                                       *)
\* The list of calendars.
LEMMA ListIsPart ==
    /\ List!Init <=> Parts!Init
    /\ List!Next <=> Parts!Next
    /\ List!TypeOK <=> Parts!TypeOK
    /\ List!ListMatchesToken <=> Parts!ListMatchesToken
    /\ List!ToldIsListedOrDue <=> Parts!ToldIsListedOrDue
    /\ UNCHANGED List!listVars <=> UNCHANGED Parts!listVars
  <1>1. List!Init <=> Parts!Init
    BY DEF List!Init, Parts!Init, List!Null, Parts!Null, List!Idle, Parts!Idle
  <1>2. List!Next <=> Parts!Next
    BY DEF List!Next, Parts!Next, List!FindList, Parts!FindList, List!ClaimList, Parts!ClaimList,
           List!AuthorizeList, Parts!AuthorizeList, List!ListPage, Parts!ListPage, List!FenceList,
           Parts!FenceList, List!CommitList, Parts!CommitList, List!CrashList, Parts!CrashList,
           List!ChangeList, Parts!ChangeList, List!ListWebhook, Parts!ListWebhook, List!CatchUpList,
           Parts!CatchUpList, List!DisconnectList, Parts!DisconnectList, List!ListTick,
           Parts!ListTick, List!Null, Parts!Null, List!Free, Parts!Free, List!Idle, Parts!Idle,
           List!MarkNeedsReauth, Parts!MarkNeedsReauth, List!ReleaseWithBackoff,
           Parts!ReleaseWithBackoff, List!ResetGone, Parts!ResetGone, List!Held, Parts!Held,
           List!Applied, Parts!Applied, List!AdvancePending, Parts!AdvancePending, List!Ask,
           Parts!Ask, List!Changed, Parts!Changed
  <1>3. List!TypeOK <=> Parts!TypeOK
    BY DEF List!TypeOK, Parts!TypeOK, List!Link, Parts!Link, List!Listing, Parts!Listing
  <1>4. List!ListMatchesToken <=> Parts!ListMatchesToken
    BY DEF List!ListMatchesToken, Parts!ListMatchesToken, List!Null, Parts!Null
  <1>5. List!ToldIsListedOrDue <=> Parts!ToldIsListedOrDue
    BY DEF List!ToldIsListedOrDue, Parts!ToldIsListedOrDue, List!Null, Parts!Null
  <1>. QED  BY <1>1, <1>2, <1>3, <1>4, <1>5 DEF List!listVars, Parts!listVars

\* Consents.
LEMMA ConsentIsPart ==
    /\ Consent!Init <=> Parts!Consent!Init
    /\ Consent!Next <=> Parts!Consent!Next
    /\ Consent!TypeOK <=> Parts!Consent!TypeOK
    /\ Consent!OneConnectionPerConsent <=> Parts!Consent!OneConnectionPerConsent
    /\ UNCHANGED Consent!oauthVars <=> UNCHANGED Parts!Consent!oauthVars
  <1>1. Consent!Init <=> Parts!Consent!Init
    BY DEF Consent!Init, Parts!Consent!Init
  <1>2. Consent!Next <=> Parts!Consent!Next
    BY DEF Consent!Next, Parts!Consent!Next, Consent!CreateAuthorizationUrl,
           Parts!Consent!CreateAuthorizationUrl, Consent!Prune, Parts!Consent!Prune,
           Consent!FindAttempt, Parts!Consent!FindAttempt, Consent!ConsumeAttempt,
           Parts!Consent!ConsumeAttempt, Consent!ExchangeCode, Parts!Consent!ExchangeCode,
           Consent!CreateConnection, Parts!Consent!CreateConnection, Consent!OAuthTick,
           Parts!Consent!OAuthTick, Consent!Consumable, Parts!Consent!Consumable
  <1>3. Consent!TypeOK <=> Parts!Consent!TypeOK
    BY DEF Consent!TypeOK, Parts!Consent!TypeOK, Consent!Attempt, Parts!Consent!Attempt,
           Consent!Callback, Parts!Consent!Callback
  <1>4. Consent!OneConnectionPerConsent <=> Parts!Consent!OneConnectionPerConsent
    BY DEF Consent!OneConnectionPerConsent, Parts!Consent!OneConnectionPerConsent
  <1>. QED  BY <1>1, <1>2, <1>3, <1>4 DEF Consent!oauthVars, Parts!Consent!oauthVars

\* Evidence.
LEMMA EnrichmentIsPart ==
    /\ Enrichment!Init <=> Parts!Enrichment!Init
    /\ Enrichment!Next <=> Parts!Enrichment!Next
    /\ Enrichment!TypeOK <=> Parts!Enrichment!TypeOK
    /\ Enrichment!EvidenceFillsOnce <=> Parts!Enrichment!EvidenceFillsOnce
    /\ UNCHANGED Enrichment!enrichmentVars <=> UNCHANGED Parts!Enrichment!enrichmentVars
  <1>1. Enrichment!Init <=> Parts!Enrichment!Init
    BY DEF Enrichment!Init, Parts!Enrichment!Init, Enrichment!NoContact, Parts!Enrichment!NoContact,
           Enrichment!Hashes, Parts!Enrichment!Hashes, Enrichment!NoCollector,
           Parts!Enrichment!NoCollector, Enrichment!None, Parts!Enrichment!None
  <1>2. Enrichment!Next <=> Parts!Enrichment!Next
    BY DEF Enrichment!Next, Parts!Enrichment!Next, Enrichment!CreateContact,
           Parts!Enrichment!CreateContact, Enrichment!RenameContact, Parts!Enrichment!RenameContact,
           Enrichment!DeleteContact, Parts!Enrichment!DeleteContact, Enrichment!CorrectSocialLink,
           Parts!Enrichment!CorrectSocialLink, Enrichment!WriteField, Parts!Enrichment!WriteField,
           Enrichment!Export, Parts!Enrichment!Export, Enrichment!StartCollector,
           Parts!Enrichment!StartCollector, Enrichment!WriteCandidates,
           Parts!Enrichment!WriteCandidates, Enrichment!FailCollector,
           Parts!Enrichment!FailCollector, Enrichment!CollectFromMarkdown,
           Parts!Enrichment!CollectFromMarkdown, Enrichment!CollectFromVCard,
           Parts!Enrichment!CollectFromVCard, Enrichment!CollectFromPublicResults,
           Parts!Enrichment!CollectFromPublicResults, Enrichment!CollectFromArcRows,
           Parts!Enrichment!CollectFromArcRows, Enrichment!Hashes, Parts!Enrichment!Hashes,
           Enrichment!SubmitAny, Parts!Enrichment!SubmitAny, Enrichment!AutoAccept,
           Parts!Enrichment!AutoAccept, Enrichment!Pending, Parts!Enrichment!Pending,
           Enrichment!ReadVCard, Parts!Enrichment!ReadVCard, Enrichment!ExplicitExport,
           Parts!Enrichment!ExplicitExport,
           Enrichment!Submit, Parts!Enrichment!Submit, Enrichment!Accept, Parts!Enrichment!Accept,
           Enrichment!Exists, Parts!Enrichment!Exists, Enrichment!NoContact,
           Parts!Enrichment!NoContact, Enrichment!Corrects, Parts!Enrichment!Corrects,
           Enrichment!None, Parts!Enrichment!None, Enrichment!NoCollector,
           Parts!Enrichment!NoCollector, Enrichment!ReadMarkdown, Parts!Enrichment!ReadMarkdown,
           Enrichment!Gathered, Parts!Enrichment!Gathered, Enrichment!UniqueNameMatch,
           Parts!Enrichment!UniqueNameMatch, Enrichment!Cardinality, Parts!Enrichment!Cardinality,
           Enrichment!SafeLocator, Parts!Enrichment!SafeLocator, Enrichment!ReadArc,
           Parts!Enrichment!ReadArc, Enrichment!Submittable, Parts!Enrichment!Submittable,
           Enrichment!NeedsReview, Parts!Enrichment!NeedsReview, Enrichment!Unpopulated,
           Parts!Enrichment!Unpopulated, Enrichment!Normalizes, Parts!Enrichment!Normalizes,
           Enrichment!AllowedNote, Parts!Enrichment!AllowedNote, Enrichment!SafeArcSource,
           Parts!Enrichment!SafeArcSource, Enrichment!ArcPublicJson, Parts!Enrichment!ArcPublicJson,
           Enrichment!LocatorFits, Parts!Enrichment!LocatorFits, Enrichment!Confidence,
           Parts!Enrichment!Confidence, Enrichment!MarkdownConfidence,
           Parts!Enrichment!MarkdownConfidence, Enrichment!VCardConfidence,
           Parts!Enrichment!VCardConfidence, Enrichment!ArcConfidence,
           Parts!Enrichment!ArcConfidence, Enrichment!PublicConfidence,
           Parts!Enrichment!PublicConfidence
  <1>3. Enrichment!TypeOK <=> Parts!Enrichment!TypeOK
    BY DEF Enrichment!TypeOK, Parts!Enrichment!TypeOK, Enrichment!Contact, Parts!Enrichment!Contact,
           Enrichment!Hashes, Parts!Enrichment!Hashes, Enrichment!None, Parts!Enrichment!None,
           Enrichment!Statuses, Parts!Enrichment!Statuses
  <1>4. Enrichment!EvidenceFillsOnce <=> Parts!Enrichment!EvidenceFillsOnce
    BY DEF Enrichment!EvidenceFillsOnce, Parts!Enrichment!EvidenceFillsOnce, Enrichment!Cardinality,
           Parts!Enrichment!Cardinality
  <1>. QED  BY <1>1, <1>2, <1>3, <1>4 DEF Enrichment!enrichmentVars, Parts!Enrichment!enrichmentVars

\* Polling.
LEMMA FeedIsPart ==
    /\ Feed!Init <=> Parts!Polling!Init
    /\ Feed!Next <=> Parts!Polling!Next
    /\ Feed!TypeOK <=> Parts!Polling!TypeOK
    /\ Feed!PolledAsSet <=> Parts!Polling!PolledAsSet
    /\ UNCHANGED Feed!discoveryVars <=> UNCHANGED Parts!Polling!discoveryVars
  <1>1. Feed!Init <=> Parts!Polling!Init
    BY DEF Feed!Init, Parts!Polling!Init, Feed!NoSource, Parts!Polling!NoSource, Feed!NoEvents,
           Parts!Polling!NoEvents, Feed!Idle, Parts!Polling!Idle, Feed!None, Parts!Polling!None
  <1>2. Feed!Next <=> Parts!Polling!Next
    BY DEF Feed!Next, Parts!Polling!Next, Feed!CreateSource, Parts!Polling!CreateSource,
           Feed!UpdateSource, Parts!Polling!UpdateSource, Feed!RemoveSource,
           Parts!Polling!RemoveSource, Feed!ChangeFeed, Parts!Polling!ChangeFeed, Feed!BeginRun,
           Parts!Polling!BeginRun, Feed!Fetch, Parts!Polling!Fetch, Feed!FailFetch,
           Parts!Polling!FailFetch, Feed!CommitPoll, Parts!Polling!CommitPoll, Feed!ReleaseFailed,
           Parts!Polling!ReleaseFailed, Feed!EndRun, Parts!Polling!EndRun, Feed!ClaimSource,
           Parts!Polling!ClaimSource, Feed!PollTick, Parts!Polling!PollTick, Feed!Later,
           Parts!Polling!Later, Feed!NoSource, Parts!Polling!NoSource, Feed!None,
           Parts!Polling!None, Feed!NoEvents, Parts!Polling!NoEvents, Feed!Fenced,
           Parts!Polling!Fenced, Feed!Written, Parts!Polling!Written, Feed!Idle, Parts!Polling!Idle
  <1>3. Feed!TypeOK <=> Parts!Polling!TypeOK
    BY DEF Feed!TypeOK, Parts!Polling!TypeOK, Feed!Source, Parts!Polling!Source, Feed!None,
           Parts!Polling!None
  <1>4. Feed!PolledAsSet <=> Parts!Polling!PolledAsSet
    BY DEF Feed!PolledAsSet, Parts!Polling!PolledAsSet, Feed!NoEvents, Parts!Polling!NoEvents
  <1>. QED  BY <1>1, <1>2, <1>3, <1>4 DEF Feed!discoveryVars, Parts!Polling!discoveryVars

\* Preferences.
LEMMA PreferenceIsPart ==
    /\ Preference!Init <=> Parts!Preferences!Init
    /\ Preference!Next <=> Parts!Preferences!Next
    /\ Preference!TypeOK <=> Parts!Preferences!TypeOK
    /\ Preference!PreferenceReadable <=> Parts!Preferences!PreferenceReadable
    /\ UNCHANGED Preference!preferenceVars <=> UNCHANGED Parts!Preferences!preferenceVars
  <1>1. Preference!Init <=> Parts!Preferences!Init
    BY DEF Preference!Init, Parts!Preferences!Init, Preference!NoRow, Parts!Preferences!NoRow
  <1>2. Preference!Next <=> Parts!Preferences!Next
    BY DEF Preference!Next, Parts!Preferences!Next, Preference!RemovePreference,
           Parts!Preferences!RemovePreference, Preference!WritePreference,
           Parts!Preferences!WritePreference, Preference!GiveUp, Parts!Preferences!GiveUp,
           Preference!FindPreference, Parts!Preferences!FindPreference, Preference!NoRow,
           Parts!Preferences!NoRow, Preference!SameRow, Parts!Preferences!SameRow
  <1>3. Preference!TypeOK <=> Parts!Preferences!TypeOK
    BY DEF Preference!TypeOK, Parts!Preferences!TypeOK
  <1>4. Preference!PreferenceReadable <=> Parts!Preferences!PreferenceReadable
    BY DEF Preference!PreferenceReadable, Parts!Preferences!PreferenceReadable
  <1>. QED  BY <1>1, <1>2, <1>3, <1>4 DEF Preference!preferenceVars, Parts!Preferences!preferenceVars

\* Imports.
LEMMA MonicaIsPart ==
    /\ Monica!Init <=> Parts!Import!Init
    /\ Monica!Next <=> Parts!Import!Next
    /\ Monica!TypeOK <=> Parts!Import!TypeOK
    /\ Monica!ImportIsWhole <=> Parts!Import!ImportIsWhole
    /\ Monica!ImportLosesNothing <=> Parts!Import!ImportLosesNothing
    /\ UNCHANGED Monica!importVars <=> UNCHANGED Parts!Import!importVars
  <1>1. Monica!Init <=> Parts!Import!Init
    BY DEF Monica!Init, Parts!Import!Init, Monica!Contact, Parts!Import!Contact, Monica!Waiting,
           Parts!Import!Waiting
  <1>2. Monica!Next <=> Parts!Import!Next
    BY DEF Monica!Next, Parts!Import!Next, Monica!Add, Parts!Import!Add, Monica!Edit,
           Parts!Import!Edit, Monica!Delete, Parts!Import!Delete, Monica!Streams,
           Parts!Import!Streams, Monica!Front, Parts!Import!Front, Monica!Begin, Parts!Import!Begin,
           Monica!SelectOwnerVault, Parts!Import!SelectOwnerVault, Monica!PrepareDemoBaseline,
           Parts!Import!PrepareDemoBaseline, Monica!Cardinality, Parts!Import!Cardinality,
           Monica!UpsertContact, Parts!Import!UpsertContact, Monica!Commit, Parts!Import!Commit,
           Monica!Fail, Parts!Import!Fail, Monica!Key, Parts!Import!Key, Monica!Contact,
           Parts!Import!Contact, Monica!Open, Parts!Import!Open, Monica!Unlocked,
           Parts!Import!Unlocked, Monica!Baseline, Parts!Import!Baseline, Monica!Trailer,
           Parts!Import!Trailer, Monica!NoTrailer, Parts!Import!NoTrailer, Monica!Parsed,
           Parts!Import!Parsed, Monica!Ended, Parts!Import!Ended, Monica!Locked,
           Parts!Import!Locked, Monica!Candidates, Parts!Import!Candidates, Monica!Go,
           Parts!Import!Go, Monica!Imported, Parts!Import!Imported, Monica!Demos,
           Parts!Import!Demos, Monica!Write, Parts!Import!Write, Monica!FinalCounts,
           Parts!Import!FinalCounts, Monica!Serializable, Parts!Import!Serializable, Monica!Sources,
           Parts!Import!Sources, Monica!ToSet, Parts!Import!ToSet, Monica!Waiting,
           Parts!Import!Waiting, Monica!IsFirstRun, Parts!Import!IsFirstRun, Monica!Of,
           Parts!Import!Of, Monica!IsCompleteRerun, Parts!Import!IsCompleteRerun, Monica!Writable,
           Parts!Import!Writable
  <1>3. Monica!TypeOK <=> Parts!Import!TypeOK
    BY DEF Monica!TypeOK, Parts!Import!TypeOK, Monica!Cardinality, Parts!Import!Cardinality,
           Monica!Key, Parts!Import!Key, Monica!Demos, Parts!Import!Demos, Monica!Sources,
           Parts!Import!Sources, Monica!ToSet, Parts!Import!ToSet, Monica!Owners,
           Parts!Import!Owners, Monica!Locked, Parts!Import!Locked, Monica!Open, Parts!Import!Open
  <1>4. Monica!ImportIsWhole <=> Parts!Import!ImportIsWhole
    BY DEF Monica!ImportIsWhole, Parts!Import!ImportIsWhole, Monica!Cardinality,
           Parts!Import!Cardinality, Monica!Imported, Parts!Import!Imported, Monica!Owners,
           Parts!Import!Owners, Monica!Demos, Parts!Import!Demos, Monica!Sources,
           Parts!Import!Sources, Monica!ToSet, Parts!Import!ToSet
  <1>5. Monica!ImportLosesNothing <=> Parts!Import!ImportLosesNothing
    BY DEF Monica!ImportLosesNothing, Parts!Import!ImportLosesNothing, Monica!Key, Parts!Import!Key
  <1>. QED  BY <1>1, <1>2, <1>3, <1>4, <1>5 DEF Monica!importVars, Parts!Import!importVars

\* Contents of events.
LEMMA ContentsIsPart ==
    /\ Contents!Init <=> Parts!Contents!Init
    /\ Contents!Next <=> Parts!Contents!Next
    /\ Contents!TypeOK <=> Parts!Contents!TypeOK
    /\ Contents!KeptAsTheirs <=> Parts!Contents!KeptAsTheirs
    /\ Contents!CancelledKeepsContents <=> Parts!Contents!CancelledKeepsContents
    /\ UNCHANGED Contents!contentVars <=> UNCHANGED Parts!Contents!contentVars
  <1>1. Contents!Init <=> Parts!Contents!Init
    BY DEF Contents!Init, Parts!Contents!Init, Contents!Unlisted, Parts!Contents!Unlisted
  <1>2. Contents!Next <=> Parts!Contents!Next
    BY DEF Contents!Next, Parts!Contents!Next, Contents!Change, Parts!Contents!Change,
           Contents!Begin, Parts!Contents!Begin, Contents!List, Parts!Contents!List,
           Contents!Commit, Parts!Contents!Commit, Contents!GiveUp, Parts!Contents!GiveUp,
           Contents!FailCloseGone, Parts!Contents!FailCloseGone, Contents!Running,
           Parts!Contents!Running, Contents!NoRun, Parts!Contents!NoRun, Contents!Existing,
           Parts!Contents!Existing, Contents!LastItem, Parts!Contents!LastItem, Contents!Normalized,
           Parts!Contents!Normalized, Contents!Unlisted, Parts!Contents!Unlisted, Contents!Updated,
           Parts!Contents!Updated, Contents!ZonedMidnight, Parts!Contents!ZonedMidnight,
           Contents!ZoneOf, Parts!Contents!ZoneOf, Contents!Cancelled, Parts!Contents!Cancelled,
           Contents!Tombstone, Parts!Contents!Tombstone, Contents!Row, Parts!Contents!Row,
           Contents!Local, Parts!Contents!Local, Contents!Offset, Parts!Contents!Offset
  <1>3. Contents!TypeOK <=> Parts!Contents!TypeOK
    BY DEF Contents!TypeOK, Parts!Contents!TypeOK, Contents!Unlisted, Parts!Contents!Unlisted,
           Contents!Existing, Parts!Contents!Existing, Contents!Running, Parts!Contents!Running
  <1>4. Contents!KeptAsTheirs <=> Parts!Contents!KeptAsTheirs
    BY DEF Contents!KeptAsTheirs, Parts!Contents!KeptAsTheirs, Contents!Existing,
           Parts!Contents!Existing, Contents!Meant, Parts!Contents!Meant, Contents!Cancelled,
           Parts!Contents!Cancelled, Contents!Unlisted, Parts!Contents!Unlisted, Contents!Midnights,
           Parts!Contents!Midnights, Contents!ZoneOf, Parts!Contents!ZoneOf, Contents!Local,
           Parts!Contents!Local, Contents!Offset, Parts!Contents!Offset
  <1>5. Contents!CancelledKeepsContents <=> Parts!Contents!CancelledKeepsContents
    BY DEF Contents!CancelledKeepsContents, Parts!Contents!CancelledKeepsContents,
           Contents!Unlisted, Parts!Contents!Unlisted, Contents!Normalized,
           Parts!Contents!Normalized, Contents!Tombstone, Parts!Contents!Tombstone,
           Contents!ZonedMidnight, Parts!Contents!ZonedMidnight, Contents!ZoneOf,
           Parts!Contents!ZoneOf, Contents!Cancelled, Parts!Contents!Cancelled, Contents!Row,
           Parts!Contents!Row, Contents!Local, Parts!Contents!Local, Contents!Offset,
           Parts!Contents!Offset
  <1>. QED  BY <1>1, <1>2, <1>3, <1>4, <1>5 DEF Contents!contentVars, Parts!Contents!contentVars

\* Feeds.
LEMMA IcsIsPart ==
    /\ Ics!Init <=> Parts!Ics!Init
    /\ Ics!Next <=> Parts!Ics!Next
    /\ Ics!TypeOK <=> Parts!Ics!TypeOK
    /\ Ics!ReadsTheWindow <=> Parts!Ics!ReadsTheWindow
    /\ UNCHANGED Ics!feedVars <=> UNCHANGED Parts!Ics!feedVars
  <1>1. Ics!Init <=> Parts!Ics!Init
    BY DEF Ics!Init, Parts!Ics!Init
  <1>2. Ics!Next <=> Parts!Ics!Next
    BY DEF Ics!Next, Parts!Ics!Next, Ics!Reject, Parts!Ics!Reject, Ics!ReadOnce, Parts!Ics!ReadOnce,
           Ics!Iterate, Parts!Ics!Iterate, Ics!Finish, Parts!Ics!Finish, Ics!WellFormed,
           Parts!Ics!WellFormed, Ics!Cardinality, Parts!Ics!Cardinality, Ics!Failed,
           Parts!Ics!Failed, Ics!Master, Parts!Ics!Master, Ics!Done, Parts!Ics!Done, Ics!Overlaps,
           Parts!Ics!Overlaps, Ics!NormalizeInstance, Parts!Ics!NormalizeInstance, Ics!Ends,
           Parts!Ics!Ends, Ics!Exhausted, Parts!Ics!Exhausted, Ics!Enough, Parts!Ics!Enough,
           Ics!Occurrence, Parts!Ics!Occurrence, Ics!Named, Parts!Ics!Named, Ics!WindowEnd,
           Parts!Ics!WindowEnd, Ics!Status, Parts!Ics!Status
  <1>3. Ics!TypeOK <=> Parts!Ics!TypeOK
    BY DEF Ics!TypeOK, Parts!Ics!TypeOK, Ics!Failed, Parts!Ics!Failed, Ics!Done, Parts!Ics!Done
  <1>4. Ics!ReadsTheWindow <=> Parts!Ics!ReadsTheWindow
    BY DEF Ics!ReadsTheWindow, Parts!Ics!ReadsTheWindow, Ics!Cardinality, Parts!Ics!Cardinality,
           Ics!Done, Parts!Ics!Done, Ics!Master, Parts!Ics!Master, Ics!Status, Parts!Ics!Status,
           Ics!WindowEnd, Parts!Ics!WindowEnd, Ics!Occurrences, Parts!Ics!Occurrences, Ics!Failed,
           Parts!Ics!Failed, Ics!WellFormed, Parts!Ics!WellFormed, Ics!Named, Parts!Ics!Named,
           Ics!Occurrence, Parts!Ics!Occurrence, Ics!Ends, Parts!Ics!Ends
  <1>. QED  BY <1>1, <1>2, <1>3, <1>4 DEF Ics!feedVars, Parts!Ics!feedVars

\* The catalogue.
LEMMA CatalogIsPart ==
    /\ Catalog!Init <=> Parts!Catalog!Init
    /\ Catalog!Next <=> Parts!Catalog!Next
    /\ Catalog!TypeOK <=> Parts!Catalog!TypeOK
    /\ Catalog!PagesCoverListing <=> Parts!Catalog!PagesCoverListing
    /\ UNCHANGED Catalog!catalogVars <=> UNCHANGED Parts!Catalog!catalogVars
  <1>1. Catalog!Init <=> Parts!Catalog!Init
    BY DEF Catalog!Init, Parts!Catalog!Init, Catalog!Walk, Parts!Catalog!Walk, Catalog!Matching,
           Parts!Catalog!Matching
  <1>2. Catalog!Next <=> Parts!Catalog!Next
    BY DEF Catalog!Next, Parts!Catalog!Next, Catalog!Reseed, Parts!Catalog!Reseed, Catalog!NextPage,
           Parts!Catalog!NextPage, Catalog!Cardinality, Parts!Catalog!Cardinality, Catalog!Follow,
           Parts!Catalog!Follow, Catalog!StartWalk, Parts!Catalog!StartWalk, Catalog!Lasting,
           Parts!Catalog!Lasting, Catalog!Matching, Parts!Catalog!Matching, Catalog!After,
           Parts!Catalog!After, Catalog!Walk, Parts!Catalog!Walk
  <1>3. Catalog!TypeOK <=> Parts!Catalog!TypeOK
    BY DEF Catalog!TypeOK, Parts!Catalog!TypeOK
  <1>4. Catalog!PagesCoverListing <=> Parts!Catalog!PagesCoverListing
    BY DEF Catalog!PagesCoverListing, Parts!Catalog!PagesCoverListing
  <1>. QED  BY <1>1, <1>2, <1>3, <1>4 DEF Catalog!catalogVars, Parts!Catalog!catalogVars

\* Celebrations.
LEMMA DaysIsPart ==
    /\ Days!Init <=> Parts!Days!Init
    /\ Days!Next <=> Parts!Days!Next
    /\ Days!TypeOK <=> Parts!Days!TypeOK
    /\ Days!RemindsOfTheNext <=> Parts!Days!RemindsOfTheNext
    /\ UNCHANGED Days!celebrationVars <=> UNCHANGED Parts!Days!celebrationVars
  <1>1. Days!Init <=> Parts!Days!Init
    BY DEF Days!Init, Parts!Days!Init, Days!None, Parts!Days!None, Days!Pairs, Parts!Days!Pairs,
           Days!Unattached, Parts!Days!Unattached, Days!Idle, Parts!Days!Idle
  <1>2. Days!Next <=> Parts!Days!Next
    BY DEF Days!Next, Parts!Days!Next, Days!WriteCelebration, Parts!Days!WriteCelebration,
           Days!SetGlobalStatus, Parts!Days!SetGlobalStatus, Days!DeleteCelebrations,
           Parts!Days!DeleteCelebrations, Days!Pairs, Parts!Days!Pairs, Days!BeginAttach,
           Parts!Days!BeginAttach, Days!Detach, Parts!Days!Detach, Days!Tell, Parts!Days!Tell,
           Days!EndAttach, Parts!Days!EndAttach, Days!UpdateAttachment, Parts!Days!UpdateAttachment,
           Days!BeginTelling, Parts!Days!BeginTelling, Days!Cardinality, Parts!Days!Cardinality,
           Days!Midday, Parts!Days!Midday, Days!None, Parts!Days!None, Days!Unattached,
           Parts!Days!Unattached, Days!Idle, Parts!Days!Idle, Days!Due, Parts!Days!Due,
           Days!Occurrence, Parts!Days!Occurrence, Days!ToRemind, Parts!Days!ToRemind,
           Days!Gregorian, Parts!Days!Gregorian, Days!Year, Parts!Days!Year, Days!LunarToGregorian,
           Parts!Days!LunarToGregorian, Days!IsLeap, Parts!Days!IsLeap, Days!Midnight,
           Parts!Days!Midnight
  <1>3. Days!TypeOK <=> Parts!Days!TypeOK
    BY DEF Days!TypeOK, Parts!Days!TypeOK, Days!None, Parts!Days!None, Days!Pairs, Parts!Days!Pairs,
           Days!Attachment, Parts!Days!Attachment
  <1>4. Days!RemindsOfTheNext <=> Parts!Days!RemindsOfTheNext
    BY DEF Days!RemindsOfTheNext, Parts!Days!RemindsOfTheNext, Days!Pairs, Parts!Days!Pairs,
           Days!Gregorian, Parts!Days!Gregorian, Days!Year, Parts!Days!Year, Days!None,
           Parts!Days!None, Days!ToRemind, Parts!Days!ToRemind, Days!LunarToGregorian,
           Parts!Days!LunarToGregorian, Days!IsLeap, Parts!Days!IsLeap, Days!Midnight,
           Parts!Days!Midnight
  <1>. QED  BY <1>1, <1>2, <1>3, <1>4 DEF Days!celebrationVars, Parts!Days!celebrationVars

\* Recommendations.
LEMMA AdviceIsPart ==
    /\ Advice!Init <=> Parts!Advice!Init
    /\ Advice!Next <=> Parts!Advice!Next
    /\ Advice!TypeOK <=> Parts!Advice!TypeOK
    /\ Advice!GoodAdvice <=> Parts!Advice!GoodAdvice
    /\ UNCHANGED Advice!recommendationVars <=> UNCHANGED Parts!Advice!recommendationVars
  <1>1. Advice!Init <=> Parts!Advice!Init
    BY DEF Advice!Init, Parts!Advice!Init
  <1>2. Advice!Next <=> Parts!Advice!Next
    BY DEF Advice!Next, Parts!Advice!Next, Advice!Recommend, Parts!Advice!Recommend,
           Advice!Cardinality, Parts!Advice!Cardinality, Advice!ChangeCalendar,
           Parts!Advice!ChangeCalendar, Advice!NextDay, Parts!Advice!NextDay, Advice!Say,
           Parts!Advice!Say, Advice!Clear, Parts!Advice!Clear, Advice!Before, Parts!Advice!Before,
           Advice!Ranked, Parts!Advice!Ranked, Advice!HasConflict, Parts!Advice!HasConflict,
           Advice!Score, Parts!Advice!Score, Advice!IsExcluded, Parts!Advice!IsExcluded,
           Advice!Eligible, Parts!Advice!Eligible, Advice!Least, Parts!Advice!Least,
           Advice!TimeScore, Parts!Advice!TimeScore, Advice!DistanceScore,
           Parts!Advice!DistanceScore, Advice!SocialScore, Parts!Advice!SocialScore,
           Advice!NoveltyScore, Parts!Advice!NoveltyScore, Advice!FeedbackScore,
           Parts!Advice!FeedbackScore, Advice!Heard, Parts!Advice!Heard
  <1>3. Advice!TypeOK <=> Parts!Advice!TypeOK
    BY DEF Advice!TypeOK, Parts!Advice!TypeOK, Advice!Feedback, Parts!Advice!Feedback
  <1>4. Advice!GoodAdvice <=> Parts!Advice!GoodAdvice
    BY DEF Advice!GoodAdvice, Parts!Advice!GoodAdvice, Advice!Cardinality, Parts!Advice!Cardinality,
           Advice!Score, Parts!Advice!Score, Advice!Ranked, Parts!Advice!Ranked, Advice!HasConflict,
           Parts!Advice!HasConflict, Advice!Least, Parts!Advice!Least, Advice!TimeScore,
           Parts!Advice!TimeScore, Advice!DistanceScore, Parts!Advice!DistanceScore,
           Advice!SocialScore, Parts!Advice!SocialScore, Advice!NoveltyScore,
           Parts!Advice!NoveltyScore, Advice!FeedbackScore, Parts!Advice!FeedbackScore,
           Advice!IsExcluded, Parts!Advice!IsExcluded, Advice!Eligible, Parts!Advice!Eligible,
           Advice!Heard, Parts!Advice!Heard
  <1>. QED  BY <1>1, <1>2, <1>3, <1>4 DEF Advice!recommendationVars, Parts!Advice!recommendationVars

-----------------------------------------------------------------------------
(* The scenes.                                                             *)
\* The scene that is on stays on.
LEMMA SceneStays == [SceneNext]_sceneVars => UNCHANGED scene
  BY DEF SceneNext, Only, sceneVars

\* In a scene, only its own component goes on, as it would alone.
LEMMA OnStage ==
    ASSUME [SceneNext]_sceneVars
    PROVE  /\ scene = "location" => [Next]_vars
           /\ scene = "list" => [List!Next]_(List!listVars)
           /\ scene = "consent" => [Consent!Next]_(Consent!oauthVars)
           /\ scene = "enrichment" => [Enrichment!Next]_(Enrichment!enrichmentVars)
           /\ scene = "feed" => [Feed!Next]_(Feed!discoveryVars)
           /\ scene = "preference" => [Preference!Next]_(Preference!preferenceVars)
           /\ scene = "import" => [Monica!Next]_(Monica!importVars)
           /\ scene = "contents" => [Contents!Next]_(Contents!contentVars)
           /\ scene = "ics" => [Ics!Next]_(Ics!feedVars)
           /\ scene = "catalog" => [Catalog!Next]_(Catalog!catalogVars)
           /\ scene = "days" => [Days!Next]_(Days!celebrationVars)
           /\ scene = "advice" => [Advice!Next]_(Advice!recommendationVars)
  BY DEF SceneNext, Only, sceneVars, listVars, List!listVars, oauthVars, Consent!oauthVars,
         enrichmentVars, Enrichment!enrichmentVars, discoveryVars, Feed!discoveryVars,
         preferenceVars, Preference!preferenceVars, importVars, Monica!importVars,
         contentVars, Contents!contentVars, feedVars, Ics!feedVars, catalogVars,
         Catalog!catalogVars, celebrationVars, Days!celebrationVars, recommendationVars,
         Advice!recommendationVars


\* And it has begun as it would alone.
LEMMA Beginnings ==
    SceneInit =>
        /\ Init
        /\ scene = "list" => List!Init
        /\ scene = "consent" => Consent!Init
        /\ scene = "enrichment" => Enrichment!Init
        /\ scene = "feed" => Feed!Init
        /\ scene = "preference" => Preference!Init
        /\ scene = "import" => Monica!Init
        /\ scene = "contents" => Contents!Init
        /\ scene = "ics" => Ics!Init
        /\ scene = "catalog" => Catalog!Init
        /\ scene = "days" => Days!Init
        /\ scene = "advice" => Advice!Init
  BY DEF SceneInit

\* Visits rest on the samples they are derived from, whichever these are.
LEMMA LocationHolds == SceneSpec => [](TypeOK /\ VisitsRestOn(samples))
  <1>1. LocationInv => VisitsRestOn(samples)
    BY DerivedRest DEF LocationInv, DeliveryInv, SamplesOK
  <1>2. Spec => []LocationInv
    BY LocationInvariant
  <1>3. SceneInit => Init
    BY Beginnings
  <1>4. [SceneNext]_sceneVars => [Next]_vars
    BY DEF SceneNext, Only, sceneVars
  <1>. QED  BY <1>1, <1>2, <1>3, <1>4, LocationTypes, PTL DEF SceneSpec, Spec

\* A consent makes one connection.
LEMMA ConsentHolds ==
    SceneSpec => [](scene = "consent" => Consent!TypeOK /\ Consent!OneConnectionPerConsent)
  <1>1. Parts!Consent!Spec
           => [](Parts!Consent!TypeOK /\ Parts!Consent!OneConnectionPerConsent)
    BY Parts!ConsentTypes, Parts!ConsentUsedOnce
  <1>2. SceneInit => (scene = "consent" => Parts!Consent!Init)
    BY Beginnings, ConsentIsPart
  <1>3. [SceneNext]_sceneVars /\ scene = "consent"
           => [Parts!Consent!Next]_(Parts!Consent!oauthVars)
    BY OnStage, ConsentIsPart
  <1>4. [SceneNext]_sceneVars => ((scene = "consent")' <=> scene = "consent")
    BY SceneStays
  <1>5. Parts!Consent!TypeOK /\ Parts!Consent!OneConnectionPerConsent
           => Consent!TypeOK /\ Consent!OneConnectionPerConsent
    BY ConsentIsPart
  <1>. QED  BY <1>1, <1>2, <1>3, <1>4, <1>5, PTL DEF SceneSpec, Parts!Consent!Spec

\* The list of calendars is that of its token, and what was told is listed or due.
LEMMA ListHolds ==
    SceneSpec => [](scene = "list" => List!TypeOK /\ List!ListMatchesToken /\ List!ToldIsListedOrDue)
  <1>1. Parts!Spec
           => [](Parts!TypeOK /\ Parts!ListMatchesToken /\ Parts!ToldIsListedOrDue)
    BY Parts!ListTypes, Parts!ListFollowsToken, Parts!ToldIsListed
  <1>2. SceneInit => (scene = "list" => Parts!Init)
    BY Beginnings, ListIsPart
  <1>3. [SceneNext]_sceneVars /\ scene = "list" => [Parts!Next]_(Parts!listVars)
    BY OnStage, ListIsPart
  <1>4. [SceneNext]_sceneVars => ((scene = "list")' <=> scene = "list")
    BY SceneStays
  <1>5. Parts!TypeOK /\ Parts!ListMatchesToken /\ Parts!ToldIsListedOrDue
           => List!TypeOK /\ List!ListMatchesToken /\ List!ToldIsListedOrDue
    BY ListIsPart
  <1>. QED  BY <1>1, <1>2, <1>3, <1>4, <1>5, PTL DEF SceneSpec, Parts!Spec

\* A field is filled by one piece of evidence.
LEMMA EnrichmentHolds ==
    ASSUME Meant
    PROVE  SceneSpec => [](scene = "enrichment" => Enrichment!TypeOK /\ Enrichment!EvidenceFillsOnce)
  <1>1. Parts!Enrichment!Spec
           => [](Parts!Enrichment!TypeOK /\ Parts!Enrichment!EvidenceFillsOnce)
    BY Parts!EnrichmentTypes, Parts!EvidenceFillsFields DEF Meant, Parts!Enrichment!None
  <1>2. SceneInit => (scene = "enrichment" => Parts!Enrichment!Init)
    BY Beginnings, EnrichmentIsPart
  <1>3. [SceneNext]_sceneVars /\ scene = "enrichment"
           => [Parts!Enrichment!Next]_(Parts!Enrichment!enrichmentVars)
    BY OnStage, EnrichmentIsPart
  <1>4. [SceneNext]_sceneVars => ((scene = "enrichment")' <=> scene = "enrichment")
    BY SceneStays
  <1>5. Parts!Enrichment!TypeOK /\ Parts!Enrichment!EvidenceFillsOnce
           => Enrichment!TypeOK /\ Enrichment!EvidenceFillsOnce
    BY EnrichmentIsPart
  <1>. QED  BY <1>1, <1>2, <1>3, <1>4, <1>5, PTL DEF SceneSpec, Parts!Enrichment!Spec

\* The days that are coming are reminded of.
LEMMA DaysHolds ==
    SceneSpec => [](scene = "days" => Days!TypeOK /\ Days!RemindsOfTheNext)
  <1>1. Parts!Days!Init /\ [][Parts!Days!Next]_(Parts!Days!celebrationVars)
           => [](Parts!Days!TypeOK /\ Parts!Days!RemindsOfTheNext)
    BY Parts!RemindersAreOfTheNext, FeastsAre
  <1>2. SceneInit => (scene = "days" => Parts!Days!Init)
    BY Beginnings, DaysIsPart
  <1>3. [SceneNext]_sceneVars /\ scene = "days" => [Parts!Days!Next]_(Parts!Days!celebrationVars)
    BY OnStage, DaysIsPart
  <1>4. [SceneNext]_sceneVars => ((scene = "days")' <=> scene = "days")
    BY SceneStays
  <1>5. Parts!Days!TypeOK /\ Parts!Days!RemindsOfTheNext
           => Days!TypeOK /\ Days!RemindsOfTheNext
    BY DaysIsPart
  <1>. QED  BY <1>1, <1>2, <1>3, <1>4, <1>5, PTL DEF SceneSpec

\* Sources and runs have their types.
LEMMA FeedHolds ==
    SceneSpec => [](scene = "feed" => Feed!TypeOK)
  <1>1. Parts!Polling!Spec
           => [](Parts!Polling!TypeOK)
    BY Parts!DiscoveryTypes, FeedsAre
  <1>2. SceneInit => (scene = "feed" => Parts!Polling!Init)
    BY Beginnings, FeedIsPart
  <1>3. [SceneNext]_sceneVars /\ scene = "feed"
           => [Parts!Polling!Next]_(Parts!Polling!discoveryVars)
    BY OnStage, FeedIsPart
  <1>4. [SceneNext]_sceneVars => ((scene = "feed")' <=> scene = "feed")
    BY SceneStays
  <1>5. Parts!Polling!TypeOK
           => Feed!TypeOK
    BY FeedIsPart
  <1>. QED  BY <1>1, <1>2, <1>3, <1>4, <1>5, PTL DEF SceneSpec, Parts!Polling!Spec

\* The pages cover the catalogue.
LEMMA CatalogHolds ==
    SceneSpec => [](scene = "catalog" => Catalog!TypeOK /\ Catalog!PagesCoverListing)
  <1>1. Parts!Catalog!Init /\ [][Parts!Catalog!Next]_(Parts!Catalog!catalogVars)
           => [](Parts!Catalog!TypeOK /\ Parts!Catalog!PagesCoverListing)
    BY Parts!CatalogIsCovered, SlugsAre
  <1>2. SceneInit => (scene = "catalog" => Parts!Catalog!Init)
    BY Beginnings, CatalogIsPart
  <1>3. [SceneNext]_sceneVars /\ scene = "catalog"
           => [Parts!Catalog!Next]_(Parts!Catalog!catalogVars)
    BY OnStage, CatalogIsPart
  <1>4. [SceneNext]_sceneVars => ((scene = "catalog")' <=> scene = "catalog")
    BY SceneStays
  <1>5. Parts!Catalog!TypeOK /\ Parts!Catalog!PagesCoverListing
           => Catalog!TypeOK /\ Catalog!PagesCoverListing
    BY CatalogIsPart
  <1>. QED  BY <1>1, <1>2, <1>3, <1>4, <1>5, PTL DEF SceneSpec

\* The tags can be read.
LEMMA PreferenceHolds ==
    SceneSpec => [](scene = "preference" => Preference!TypeOK /\ Preference!PreferenceReadable)
  <1>1. Parts!Preferences!Spec
           => [](Parts!Preferences!TypeOK /\ Parts!Preferences!PreferenceReadable)
    BY Parts!PreferenceTypes, Parts!TagsReadable
  <1>2. SceneInit => (scene = "preference" => Parts!Preferences!Init)
    BY Beginnings, PreferenceIsPart
  <1>3. [SceneNext]_sceneVars /\ scene = "preference"
           => [Parts!Preferences!Next]_(Parts!Preferences!preferenceVars)
    BY OnStage, PreferenceIsPart
  <1>4. [SceneNext]_sceneVars => ((scene = "preference")' <=> scene = "preference")
    BY SceneStays
  <1>5. Parts!Preferences!TypeOK /\ Parts!Preferences!PreferenceReadable
           => Preference!TypeOK /\ Preference!PreferenceReadable
    BY PreferenceIsPart
  <1>. QED  BY <1>1, <1>2, <1>3, <1>4, <1>5, PTL DEF SceneSpec, Parts!Preferences!Spec

\* What is said and recommended has its type.
LEMMA AdviceHolds ==
    SceneSpec => [](scene = "advice" => Advice!TypeOK)
  <1>1. Parts!Advice!Init /\ [][Parts!Advice!Next]_(Parts!Advice!recommendationVars)
           => [](Parts!Advice!TypeOK)
    BY Parts!AdviceIsGood, OffersAre
  <1>2. SceneInit => (scene = "advice" => Parts!Advice!Init)
    BY Beginnings, AdviceIsPart
  <1>3. [SceneNext]_sceneVars /\ scene = "advice"
           => [Parts!Advice!Next]_(Parts!Advice!recommendationVars)
    BY OnStage, AdviceIsPart
  <1>4. [SceneNext]_sceneVars => ((scene = "advice")' <=> scene = "advice")
    BY SceneStays
  <1>5. Parts!Advice!TypeOK
           => Advice!TypeOK
    BY AdviceIsPart
  <1>. QED  BY <1>1, <1>2, <1>3, <1>4, <1>5, PTL DEF SceneSpec

\* The instances of a feed are those of the window.
LEMMA IcsHolds ==
    SceneSpec => [](scene = "ics" => Ics!TypeOK /\ Ics!ReadsTheWindow)
  <1>1. Parts!Ics!Init /\ [][Parts!Ics!Next]_(Parts!Ics!feedVars)
           => [](Parts!Ics!TypeOK /\ Parts!Ics!ReadsTheWindow)
    BY Parts!FeedsAreRead, IcsAre
  <1>2. SceneInit => (scene = "ics" => Parts!Ics!Init)
    BY Beginnings, IcsIsPart
  <1>3. [SceneNext]_sceneVars /\ scene = "ics" => [Parts!Ics!Next]_(Parts!Ics!feedVars)
    BY OnStage, IcsIsPart
  <1>4. [SceneNext]_sceneVars => ((scene = "ics")' <=> scene = "ics")
    BY SceneStays
  <1>5. Parts!Ics!TypeOK /\ Parts!Ics!ReadsTheWindow
           => Ics!TypeOK /\ Ics!ReadsTheWindow
    BY IcsIsPart
  <1>. QED  BY <1>1, <1>2, <1>3, <1>4, <1>5, PTL DEF SceneSpec

\* What is imported is of one export.
LEMMA MonicaHolds ==
    SceneSpec => [](scene = "import" => Monica!TypeOK /\ Monica!ImportIsWhole)
  <1>1. Parts!Import!Spec
           => [](Parts!Import!TypeOK /\ Parts!Import!ImportIsWhole)
    BY Parts!ImportTypes, Parts!ImportIsOfOneExport, ImportsAre
  <1>2. SceneInit => (scene = "import" => Parts!Import!Init)
    BY Beginnings, MonicaIsPart
  <1>3. [SceneNext]_sceneVars /\ scene = "import" => [Parts!Import!Next]_(Parts!Import!importVars)
    BY OnStage, MonicaIsPart
  <1>4. [SceneNext]_sceneVars => ((scene = "import")' <=> scene = "import")
    BY SceneStays
  <1>5. Parts!Import!TypeOK /\ Parts!Import!ImportIsWhole
           => Monica!TypeOK /\ Monica!ImportIsWhole
    BY MonicaIsPart
  <1>. QED  BY <1>1, <1>2, <1>3, <1>4, <1>5, PTL DEF SceneSpec, Parts!Import!Spec

\* Events are kept as they are theirs.
LEMMA ContentsHolds ==
    ASSUME Meant
    PROVE  SceneSpec => [](scene = "contents" => Contents!TypeOK /\ Contents!KeptAsTheirs)
  <1>1. Parts!Contents!Spec
           => [](Parts!Contents!TypeOK /\ Parts!Contents!KeptAsTheirs)
    BY Parts!EventsAreKeptAsTheirs, ContentsAre
  <1>2. SceneInit => (scene = "contents" => Parts!Contents!Init)
    BY Beginnings, ContentsIsPart
  <1>3. [SceneNext]_sceneVars /\ scene = "contents"
           => [Parts!Contents!Next]_(Parts!Contents!contentVars)
    BY OnStage, ContentsIsPart
  <1>4. [SceneNext]_sceneVars => ((scene = "contents")' <=> scene = "contents")
    BY SceneStays
  <1>5. Parts!Contents!TypeOK /\ Parts!Contents!KeptAsTheirs
           => Contents!TypeOK /\ Contents!KeptAsTheirs
    BY ContentsIsPart
  <1>. QED  BY <1>1, <1>2, <1>3, <1>4, <1>5, PTL DEF SceneSpec, Parts!Contents!Spec

-----------------------------------------------------------------------------
(* What holds of the run.                                                  *)
\* Every component keeps the types of its state, in whatever scene.
THEOREM TypesStay == ASSUME Meant PROVE SceneSpec => []TypesOK
  BY LocationHolds, ConsentHolds, ListHolds, EnrichmentHolds, DaysHolds, FeedHolds, CatalogHolds,
     PreferenceHolds, AdviceHolds, IcsHolds, MonicaHolds, ContentsHolds, PTL DEF TypesOK

\* What is stored or shown is what its source says: the list of calendars (list), the contents of
\* events (applyEvent), the instances of a feed (parseIcsFeed), the pages of the catalogue
\* (list), the tags of preferences (upsert), the days that are coming (ensureRemindersForUser),
\* the contacts of an export (importMonicaContacts), and the visits of samples (deriveVisits).
THEOREM StoredIsAsTheSource == ASSUME Meant PROVE SceneSpec => []MatchesSource
  BY LocationHolds, ConsentHolds, ListHolds, EnrichmentHolds, DaysHolds, FeedHolds, CatalogHolds,
     PreferenceHolds, AdviceHolds, IcsHolds, MonicaHolds, ContentsHolds, PTL DEF MatchesSource

\* A consent makes one connection, and a field is filled by one piece of evidence, however often
\* they are asked for at the same time (consumeAttempt, acceptCandidate).
THEOREM OnceIsOnce == ASSUME Meant PROVE SceneSpec => []OnceOnly
  BY ConsentHolds, EnrichmentHolds, PTL DEF OnceOnly

\* No change of the list that the connection was told of is forgotten (CalendarList).
THEOREM NothingIsUntold == SceneSpec => []NothingUntold
  BY ListHolds, PTL DEF NothingUntold

\* A poll is of the source as it is set now, advice heeds what was said and known when it was
\* made, an import loses nothing, and a cancellation takes no contents away (commitSuccessfulPoll,
\* recommend, upsertContact, applyEvent).
THEOREM StepsStayCurrent == ASSUME Meant PROVE SceneSpec => StepsAreCurrent
  <1>1. Parts!Polling!Spec => Parts!Polling!EveryPollAsSet
    BY Parts!PollsAsSet, FeedsAre
  <1>2. Parts!Advice!Init /\ [][Parts!Advice!Next]_(Parts!Advice!recommendationVars) =>
              /\ []Parts!Advice!TypeOK
              /\ [][advised' # advised => Parts!Advice!GoodAdvice]_(Parts!Advice!recommendationVars)
    BY Parts!AdviceIsGood, OffersAre
  <1>3. Parts!Import!Spec => [][Parts!Import!ImportLosesNothing]_(Parts!Import!importVars)
    BY Parts!ImportTakesNothing, ImportsAre DEF Parts!WholeAssumption
  <1>4. Parts!Contents!Spec => /\ [](Parts!Contents!TypeOK /\ Parts!Contents!KeptAsTheirs)
                            /\ [][Parts!Contents!CancelledKeepsContents]_(Parts!Contents!contentVars)
    BY Parts!EventsAreKeptAsTheirs, ContentsAre
  <1>5. SceneInit => /\ scene = "feed" => Parts!Polling!Init
                     /\ scene = "advice" => Parts!Advice!Init
                     /\ scene = "import" => Parts!Import!Init
                     /\ scene = "contents" => Parts!Contents!Init
    BY Beginnings, FeedIsPart, AdviceIsPart, MonicaIsPart, ContentsIsPart
  <1>6. [SceneNext]_sceneVars =>
           /\ scene = "feed" => [Parts!Polling!Next]_(Parts!Polling!discoveryVars)
           /\ scene = "advice" => [Parts!Advice!Next]_(Parts!Advice!recommendationVars)
           /\ scene = "import" => [Parts!Import!Next]_(Parts!Import!importVars)
           /\ scene = "contents" => [Parts!Contents!Next]_(Parts!Contents!contentVars)
    BY OnStage, FeedIsPart, AdviceIsPart, MonicaIsPart, ContentsIsPart
  <1>7. [SceneNext]_sceneVars => /\ (scene = "feed")' <=> scene = "feed"
                                 /\ (scene = "advice")' <=> scene = "advice"
                                 /\ (scene = "import")' <=> scene = "import"
                                 /\ (scene = "contents")' <=> scene = "contents"
    BY SceneStays
  <1>. DEFINE Upheld == /\ scene = "feed" => Feed!PolledAsSet
                        /\ scene = "advice" /\ advised' # advised => Advice!GoodAdvice
                        /\ scene = "import" => Monica!ImportLosesNothing
                        /\ scene = "contents" => Contents!CancelledKeepsContents
  <1>8. ASSUME [SceneNext]_sceneVars,
               scene = "feed" => [Parts!Polling!PolledAsSet]_(Parts!Polling!discoveryVars),
               scene = "advice"
                  => [advised' # advised => Parts!Advice!GoodAdvice]_(Parts!Advice!recommendationVars),
               scene = "import" => [Parts!Import!ImportLosesNothing]_(Parts!Import!importVars),
               scene = "contents"
                  => [Parts!Contents!CancelledKeepsContents]_(Parts!Contents!contentVars)
        PROVE  [Upheld]_sceneVars
    <2>1. /\ scene = "feed" /\ UNCHANGED discoveryVars => UNCHANGED sceneVars
          /\ scene = "advice" /\ UNCHANGED recommendationVars => UNCHANGED sceneVars
          /\ scene = "import" /\ UNCHANGED importVars => UNCHANGED sceneVars
          /\ scene = "contents" /\ UNCHANGED contentVars => UNCHANGED sceneVars
      BY <1>8 DEF SceneNext, Only, sceneVars
    <2>2. /\ UNCHANGED discoveryVars <=> UNCHANGED Parts!Polling!discoveryVars
          /\ UNCHANGED recommendationVars <=> UNCHANGED Parts!Advice!recommendationVars
          /\ UNCHANGED importVars <=> UNCHANGED Parts!Import!importVars
          /\ UNCHANGED contentVars <=> UNCHANGED Parts!Contents!contentVars
      BY DEF discoveryVars, Parts!Polling!discoveryVars, recommendationVars,
             Parts!Advice!recommendationVars, importVars, Parts!Import!importVars, contentVars,
             Parts!Contents!contentVars
    <2>3. CASE UNCHANGED sceneVars
      BY <2>3
    <2>4. CASE ~UNCHANGED sceneVars
      <3>1. scene = "feed" => Parts!Polling!PolledAsSet
        BY <2>1, <2>2, <2>4, <1>8
      <3>2. scene = "advice" => (advised' # advised => Parts!Advice!GoodAdvice)
        BY <2>1, <2>2, <2>4, <1>8
      <3>3. scene = "import" => Parts!Import!ImportLosesNothing
        BY <2>1, <2>2, <2>4, <1>8
      <3>4. scene = "contents" => Parts!Contents!CancelledKeepsContents
        BY <2>1, <2>2, <2>4, <1>8
      <3>. QED  BY <3>1, <3>2, <3>3, <3>4, FeedIsPart, AdviceIsPart, MonicaIsPart, ContentsIsPart
    <2>. QED  BY <2>3, <2>4
  <1>. QED  BY <1>1, <1>2, <1>3, <1>4, <1>5, <1>6, <1>7, <1>8, PTL
               DEF SceneSpec, StepsAreCurrent, Parts!Polling!Spec, Parts!Polling!EveryPollAsSet,
                   Parts!Import!Spec, Parts!Contents!Spec

=============================================================================
