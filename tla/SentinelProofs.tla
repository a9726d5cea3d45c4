--------------------------- MODULE SentinelProofs ---------------------------
(***************************************************************************)
(* Proofs about Sentinel for any capacity of the window and any width of   *)
(* the counters: what the window adds up is what was recorded.             *)
(***************************************************************************)
EXTENDS Sentinel, WellFoundedInduction, TLAPS

----------------------------------------------------------------------------
(* The inductive invariant.                                                *)

\* The counters d were read when v had been recorded, e not before them when
\* w had been recorded: in one epoch a counter that has not saturated has
\* grown by what was recorded.
Follows(d, v, e, w) ==
  /\ d.reset_epoch <= e.reset_epoch
  /\ v.calls <= w.calls
  /\ d.reset_epoch = e.reset_epoch =>
       /\ d.calls <= e.calls
       /\ ~Saturates(e.calls) => w.calls - v.calls = e.calls - d.calls

\* The baseline comes before the sample in progress, and both before now.
SnapshotsFollow ==
  /\ baseline.valid =>
       Follows(baseline.previous.diagnostics, baseline.previous.ever,
               diagnostics, ever)
  /\ sampler.pc = "timing" =>
       Follows(sampler.now.diagnostics, sampler.now.ever, diagnostics, ever)
  /\ sampler.pc = "timing" /\ baseline.valid =>
       Follows(baseline.previous.diagnostics, baseline.previous.ever,
               sampler.now.diagnostics, sampler.now.ever)

\* What had been recorded when the media were of generation g.
Since(g, ever_then) == began[g] <= ever_then.calls
Until(g, ever_then) == g < generation => ever_then.calls <= began[g + 1]

\* A snapshot was recorded after its generation began; the baseline before
\* the generation of the sample in progress ended.
GenerationsFollow ==
  /\ \A g \in 0 .. generation : Since(g, ever)
  /\ baseline.valid =>
       /\ baseline.previous.generation <= generation
       /\ Since(baseline.previous.generation, baseline.previous.ever)
  /\ sampler.pc # "idle" => sampler.now.generation <= generation
  /\ sampler.pc = "timing" => Since(sampler.now.generation, sampler.now.ever)
  /\ sampler.pc # "idle" /\ baseline.valid =>
       Until(sampler.now.generation, baseline.previous.ever)

Clean(f) == f.flags = {}

\* A clean feature counts what was recorded between its ends, none of it
\* before its generation.
FeaturesCount ==
  \A n \in 0 .. window.count - 1 :
    LET f == Nth(window, n)
    IN Clean(f) =>
         /\ f.calls = f.to.calls - f.from.calls
         /\ f.to.calls <= ever.calls
         /\ f.generation <= generation
         /\ Since(f.generation, f.from)

\* Two clean features meet, and the first ends with its generation.
FeaturesMeet ==
  \A n \in 0 .. window.count - 2 :
    LET f == Nth(window, n)
    IN Clean(f) /\ Clean(Nth(window, n + 1)) =>
         /\ Nth(window, n + 1).from = f.to
         /\ Until(f.generation, f.to)

\* The newest feature, if it is clean, ends where the next one starts.
NewestMeetsBaseline ==
  LET f == Nth(window, window.count - 1)
  IN window.count # 0 /\ Clean(f) /\ baseline.valid =>
       /\ f.to = baseline.previous.ever
       /\ f.generation = baseline.previous.generation

SentinelInv ==
  /\ TypeOK /\ SnapshotsFollow /\ GenerationsFollow
  /\ FeaturesCount /\ FeaturesMeet /\ NewestMeetsBaseline

----------------------------------------------------------------------------
(* Arithmetic and induction.                                               *)

LEMMA WrapsOnce ==
  ASSUME NEW x \in 0 .. 2 * Capacity - 1
  PROVE  x % Capacity = IF x < Capacity THEN x ELSE x - Capacity
<1>1. Capacity \in Nat \ {0} BY SentinelAssumption
<1>2. CASE x < Capacity BY <1>1, <1>2
<1>3. CASE x >= Capacity
  <2>1. x = Capacity * 1 + (x - Capacity) /\ x - Capacity \in 0 .. Capacity - 1
    BY <1>1, <1>3
  <2> QED BY <1>1, <1>3, <2>1
<1> QED BY <1>1, <1>2, <1>3

\* Induction over the numbers up to a bound, as a fact about a set.
LEMMA SetInduction ==
  ASSUME NEW m \in Nat, NEW S, 0 \in S,
         \A n \in 0 .. m : n # 0 /\ n - 1 \in S => n \in S
  PROVE  0 .. m \subseteq S
<1> DEFINE T == {n \in 0 .. m : n \notin S}
<1> SUFFICES ASSUME T # {} PROVE FALSE
  OBVIOUS
<1>1. PICK x \in T : \A y \in T : ~(<<y, x>> \in OpToRel(<, Nat))
  <2>1. T \subseteq Nat OBVIOUS
  <2> HIDE DEF T
  <2> QED BY <2>1, WFMin, NatLessThanWellFounded, Zenon
<1>2. x \in 0 .. m /\ x # 0 /\ x - 1 \in 0 .. m /\ x - 1 < x
  OBVIOUS
<1>3. <<x - 1, x>> \in OpToRel(<, Nat)
  BY <1>2 DEF OpToRel
<1>4. x - 1 \notin T
  BY <1>1, <1>3
<1> QED BY <1>2, <1>4

\* A recursive sum has the value of any function that satisfies its equation.
LEMMA TotalIs ==
  ASSUME NEW w, w.count \in Nat, NEW field, NEW g,
         g = [n \in 0 .. w.count |->
                IF n = 0 THEN 0 ELSE g[n - 1] + Nth(w, n - 1)[field]]
  PROVE  Total(w, field) = g[w.count]
<1> DEFINE Sums(h) ==
      h = [n \in 0 .. w.count |->
             IF n = 0 THEN 0 ELSE h[n - 1] + Nth(w, n - 1)[field]]
           sum == CHOOSE h : Sums(h)
           S == {n \in 0 .. w.count : sum[n] = g[n]}
<1>1. Sums(sum)
  <2>1. Sums(g) OBVIOUS
  <2> HIDE DEF Sums
  <2> QED BY <2>1
<1>2. Total(w, field) = sum[w.count] BY DEF Total
<1>3. \A n \in 0 .. w.count :
        sum[n] = IF n = 0 THEN 0 ELSE sum[n - 1] + Nth(w, n - 1)[field]
  <2> HIDE DEF sum
  <2> QED BY <1>1
<1>4. \A n \in 0 .. w.count :
        g[n] = IF n = 0 THEN 0 ELSE g[n - 1] + Nth(w, n - 1)[field]
  OBVIOUS
<1> HIDE DEF sum, Sums
<1>5. 0 \in S BY <1>3, <1>4
<1>6. \A n \in 0 .. w.count : n # 0 /\ n - 1 \in S => n \in S
  BY <1>3, <1>4
<1>7. 0 .. w.count \subseteq S
  <2> HIDE DEF S
  <2> QED BY <1>5, <1>6, SetInduction
<1>8. w.count \in 0 .. w.count
  OBVIOUS
<1>9. w.count \in S
  <2> HIDE DEF S
  <2> QED BY <1>7, <1>8
<1> QED BY <1>2, <1>9

----------------------------------------------------------------------------
(* The ring of features.                                                   *)

WindowOK(w) ==
  /\ w.storage \in [Slots -> Feature]
  /\ w.next \in Slots /\ w.count \in 0 .. Capacity

\* What a push leaves of the window.
Kept(w, f) == IF "discontinuity" \in f.flags THEN EmptyWindow ELSE w

LEMMA NthIs ==
  ASSUME NEW w, WindowOK(w), NEW n \in 0 .. w.count - 1
  PROVE  /\ Nth(w, n) \in Feature
         /\ LET i == w.next - w.count + n
            IN Nth(w, n) = w.storage[IF i < 0 THEN i + Capacity ELSE i]
<1> DEFINE x == w.next + Capacity - w.count + n
<1>1. Capacity \in Nat \ {0} BY SentinelAssumption
<1>2. w.next \in 0 .. Capacity - 1 /\ w.count \in 0 .. Capacity
  BY DEF WindowOK, Slots
<1>3. x \in 0 .. 2 * Capacity - 1
  BY <1>1, <1>2
<1>4. x % Capacity = IF x < Capacity THEN x ELSE x - Capacity
  <2> HIDE DEF x
  <2> QED BY <1>3, WrapsOnce
<1>5. /\ x % Capacity \in Slots
      /\ x % Capacity = LET i == w.next - w.count + n
                        IN IF i < 0 THEN i + Capacity ELSE i
  BY <1>1, <1>2, <1>4 DEF Slots
<1> QED BY <1>5 DEF Nth, WindowOK

LEMMA EmptyWindowOK == WindowOK(EmptyWindow)
<1>1. NoFeature \in Feature
  BY SentinelAssumption
  DEF NoFeature, Feature, Flags, Valid, Generations, ZeroEver, Ever
<1> QED BY <1>1, SentinelAssumption DEF WindowOK, EmptyWindow, Slots

\* A push makes its feature the newest and takes the others, but the oldest
\* of a full window, one place on.
LEMMA PushIs ==
  ASSUME NEW w, WindowOK(w), NEW f \in Feature
  PROVE  LET x == Push(w, f)
             k == Kept(w, f)
             shift == k.count + 1 - x.count
         IN /\ WindowOK(x) /\ WindowOK(k)
            /\ x.count \in 1 .. Capacity /\ shift \in {0, 1}
            /\ Nth(x, x.count - 1) = f
            /\ \A n \in 0 .. x.count - 2 :
                 /\ n + shift \in 0 .. k.count - 1
                 /\ Nth(x, n) = Nth(k, n + shift)
<1> DEFINE x == Push(w, f)
           k == Kept(w, f)
           shift == k.count + 1 - x.count
<1>1. Capacity \in Nat \ {0} BY SentinelAssumption
<1>2. WindowOK(k) BY EmptyWindowOK DEF Kept
<1>3. k.next \in 0 .. Capacity - 1 /\ k.count \in 0 .. Capacity
  BY <1>2 DEF WindowOK, Slots
<1>4. /\ x.storage = [k.storage EXCEPT ![k.next] = f]
      /\ x.next = NextSlot(k.next)
      /\ x.count = IF k.count < Capacity THEN k.count + 1 ELSE Capacity
  BY DEF Push, Kept
<1>5. x.next = IF k.next + 1 = Capacity THEN 0 ELSE k.next + 1
  <2>1. k.next + 1 \in 0 .. 2 * Capacity - 1
    BY <1>1, <1>3
  <2> QED BY <1>1, <1>3, <1>4, <2>1, WrapsOnce DEF NextSlot
<1> HIDE DEF x, k
<1>6. /\ x.next \in 0 .. Capacity - 1 /\ x.count \in 1 .. Capacity
      /\ shift \in {0, 1}
  BY <1>1, <1>3, <1>4, <1>5
<1>7. WindowOK(x)
  BY <1>2, <1>4, <1>6 DEF WindowOK, Slots
<1>8. Nth(x, x.count - 1) = f
  <2>1. x.count - 1 \in 0 .. x.count - 1
    BY <1>6
  <2>2. LET i == x.next - x.count + (x.count - 1)
        IN k.next = IF i < 0 THEN i + Capacity ELSE i
    BY <1>1, <1>3, <1>5, <1>6
  <2>3. k.next \in Slots
    BY <1>3 DEF Slots
  <2> QED BY <1>2, <1>4, <1>7, <2>1, <2>2, <2>3, NthIs DEF WindowOK
<1>9. ASSUME NEW n \in 0 .. x.count - 2
      PROVE  /\ n + shift \in 0 .. k.count - 1
             /\ Nth(x, n) = Nth(k, n + shift)
  <2> DEFINE i == x.next - x.count + n
             j == k.next - k.count + (n + shift)
             at(p) == IF p < 0 THEN p + Capacity ELSE p
  <2>1. n + shift \in 0 .. k.count - 1
    BY <1>1, <1>3, <1>4, <1>6
  <2>2. Nth(x, n) = x.storage[at(i)]
    BY <1>6, <1>7, NthIs
  <2>3. Nth(k, n + shift) = k.storage[at(j)]
    BY <1>2, <2>1, NthIs
  <2>4. at(i) = at(j) /\ at(i) \in Slots /\ at(i) # k.next
    BY <1>1, <1>3, <1>4, <1>5, <1>6 DEF Slots
  <2> QED BY <1>2, <1>4, <2>1, <2>2, <2>3, <2>4 DEF WindowOK
<1> QED BY <1>2, <1>6, <1>7, <1>8, <1>9 DEF x, k

----------------------------------------------------------------------------
(* The counters.                                                           *)

LEMMA FollowsItself ==
  ASSUME NEW d \in Diagnostics, NEW e \in Ever
  PROVE  Follows(d, e, d, e)
BY DEF Follows, Diagnostics, Ever

LEMMA FollowsTransitive ==
  ASSUME NEW a \in Diagnostics, NEW b \in Diagnostics, NEW c \in Diagnostics,
         NEW u \in Ever, NEW v \in Ever, NEW w \in Ever,
         Follows(a, u, b, v), Follows(b, v, c, w)
  PROVE  Follows(a, u, c, w)
<1>1. CounterMax \in Nat BY CountersAssumption
<1>2. /\ a.reset_epoch \in Nat /\ a.calls \in 0 .. CounterMax
      /\ b.reset_epoch \in Nat /\ b.calls \in 0 .. CounterMax
      /\ c.reset_epoch \in Nat /\ c.calls \in 0 .. CounterMax
      /\ u.calls \in Nat /\ v.calls \in Nat /\ w.calls \in Nat
  BY DEF Diagnostics, Ever
<1> QED BY <1>1, <1>2 DEF Follows, Saturates

\* A step of the counters takes them on from where they were.
LEMMA CountersStep ==
  ASSUME CountersTypeOK, CountersNext
  PROVE  /\ CountersTypeOK'
         /\ Follows(diagnostics, ever, diagnostics', ever')
<1>0. CounterMax \in Nat /\ SampleMax \in Nat BY CountersAssumption
<1> USE DEF CountersTypeOK
<1>1. ASSUME NEW field \in Counted, Record(field)
      PROVE  /\ CountersTypeOK'
             /\ Follows(diagnostics, ever, diagnostics', ever')
  <2> USE <1>0, <1>1 DEF Record, Count, Counted, Increment, Diagnostics, Ever
  <2>1. CASE field = "calls"
    <3>1. /\ diagnostics' = [diagnostics EXCEPT
                               !.calls = Increment(@, CounterMax)]
          /\ ever' = [ever EXCEPT !.calls = @ + 1]
      BY <2>1
    <3>2. CountersTypeOK' BY <3>1
    <3> QED BY <3>1, <3>2 DEF Follows, Saturates
  <2>2. CASE field = "out_of_range_errors"
    <3>1. /\ diagnostics' = [diagnostics EXCEPT
                !.out_of_range_errors = Increment(@, CounterMax)]
          /\ ever' = [ever EXCEPT !.out_of_range_errors = @ + 1]
      BY <2>2
    <3>2. CountersTypeOK' BY <3>1
    <3> QED BY <3>1, <3>2 DEF Follows, Saturates
  <2> QED BY <2>1, <2>2
<1>2. CASE RecordSample
  <2>1. timing' \in Timing
    <3>1. /\ Increment(timing.samples, SampleMax) \in 0 .. SampleMax
          /\ (timing.saturated \/ timing.samples = SampleMax) \in BOOLEAN
      BY <1>0 DEF Increment, Timing
    <3>2. timing' = [timing EXCEPT
                       !.samples = Increment(timing.samples, SampleMax),
                       !.saturated = timing.saturated
                                       \/ timing.samples = SampleMax]
      BY <1>2 DEF RecordSample, CountSample
    <3> QED BY <3>1, <3>2, Zenon DEF Timing
  <2>2. CountersTypeOK'
    BY <1>2, <2>1 DEF RecordSample
  <2> QED BY <1>2, <2>2, FollowsItself DEF RecordSample
<1>3. CASE Reset
  <2>1. CASE ZeroTheDiagnostics /\ UNCHANGED timing
    BY <1>0, <1>3, <2>1
    DEF Reset, ZeroTheDiagnostics, ZeroDiagnostics, Diagnostics, Ever, Follows
  <2>2. CASE ZeroTheTiming /\ UNCHANGED diagnostics
    <3>1. CountersTypeOK'
      BY <1>0, <1>3, <2>2 DEF Reset, ZeroTheTiming, ZeroTiming, Timing
    <3> QED BY <1>3, <2>2, <3>1, FollowsItself DEF Reset
  <2> QED BY <1>3, <2>1, <2>2 DEF Reset
<1>4. CASE Close
  BY <1>4, FollowsItself DEF Close
<1> QED BY <1>1, <1>2, <1>3, <1>4 DEF CountersNext

LEMMA TypesOfSnapshots ==
  ASSUME NEW s \in Snapshots
  PROVE  /\ s.diagnostics \in Diagnostics /\ s.timing \in Timing
         /\ s.generation \in Generations /\ s.ever \in Ever
         /\ s.ever.calls \in Nat
BY DEF Snapshots, Ever

LEMMA NoSnapshotsOK == NoSnapshots \in Snapshots
<1>1. ZeroDiagnostics(0) \in Diagnostics
  BY CountersAssumption DEF ZeroDiagnostics, Diagnostics
<1>2. ZeroTiming(0) \in Timing
  BY CountersAssumption DEF ZeroTiming, Timing
<1>3. ZeroEver \in Ever
  BY DEF ZeroEver, Ever
<1>4. 0 \in Generations
  BY SentinelAssumption DEF Generations
<1> QED BY <1>1, <1>2, <1>3, <1>4 DEF NoSnapshots, Snapshots

----------------------------------------------------------------------------
(* The initial state, and the steps that leave the window as it is.        *)

LEMMA InitHolds ==
  ASSUME Init
  PROVE  SentinelInv
<1>1. CountersTypeOK
  BY CountersAssumption
  DEF Init, CountersInit, CountersTypeOK, ZeroDiagnostics, Diagnostics,
      ZeroTiming, Timing, ZeroEver, Ever
<1>2. TypeOK
  BY <1>1, EmptyWindowOK, NoSnapshotsOK, SentinelAssumption
  DEF Init, TypeOK, Generations, NoBaseline, WindowOK
<1>3. SnapshotsFollow
  BY DEF Init, NoBaseline, SnapshotsFollow
<1>4. GenerationsFollow
  BY SentinelAssumption
  DEF Init, NoBaseline, GenerationsFollow, Since, Until, Generations,
      CountersInit, ZeroEver
<1>5. FeaturesCount /\ FeaturesMeet /\ NewestMeetsBaseline
  BY DEF Init, EmptyWindow, FeaturesCount, FeaturesMeet, NewestMeetsBaseline
<1> QED BY <1>2, <1>3, <1>4, <1>5 DEF SentinelInv

\* What the type invariant says of the variables, and of the features held.
LEMMA TypesOfState ==
  ASSUME TypeOK
  PROVE  /\ Capacity \in Nat \ {0} /\ MaxGeneration \in Nat
         /\ diagnostics \in Diagnostics /\ ever \in Ever /\ ever.calls \in Nat
         /\ generation \in Nat /\ generation <= MaxGeneration
         /\ \A g \in 0 .. MaxGeneration : began[g] \in Nat
         /\ sampler.now \in Snapshots /\ baseline.previous \in Snapshots
         /\ WindowOK(window) /\ window.count \in Nat
         /\ \A n \in 0 .. window.count - 1 :
              /\ Nth(window, n) \in Feature
              /\ Nth(window, n).to.calls \in Nat
              /\ Nth(window, n).from.calls \in Nat
              /\ Nth(window, n).generation \in 0 .. MaxGeneration
<1>1. WindowOK(window) BY DEF TypeOK, WindowOK
<1>2. \A n \in 0 .. window.count - 1 : Nth(window, n) \in Feature
  BY <1>1, NthIs
<1>3. Capacity \in Nat \ {0} /\ MaxGeneration \in Nat
  BY SentinelAssumption
<1>4. \A f \in Feature : /\ f.to.calls \in Nat /\ f.from.calls \in Nat
                         /\ f.generation \in 0 .. MaxGeneration
  BY DEF Feature, Ever, Generations
<1>5. window.count \in Nat
  BY <1>1, <1>3 DEF WindowOK
<1>6. /\ diagnostics \in Diagnostics /\ ever \in Ever /\ ever.calls \in Nat
      /\ generation \in Nat /\ generation <= MaxGeneration
      /\ \A g \in 0 .. MaxGeneration : began[g] \in Nat
      /\ sampler.now \in Snapshots /\ baseline.previous \in Snapshots
  BY <1>3 DEF TypeOK, CountersTypeOK, Generations, Ever
<1> QED BY <1>1, <1>2, <1>3, <1>4, <1>5, <1>6

LEMMA ObserveHolds ==
  ASSUME SentinelInv, Observe
  PROVE  SentinelInv'
<1> USE DEF SentinelInv
<1>1. /\ CountersTypeOK' /\ Follows(diagnostics, ever, diagnostics', ever')
      /\ UNCHANGED <<generation, began, sampler, baseline, window>>
  BY CountersStep DEF Observe, TypeOK
<1>2. TypeOK' BY <1>1 DEF TypeOK
<1>3. /\ diagnostics \in Diagnostics /\ ever \in Ever /\ ever.calls \in Nat
      /\ diagnostics' \in Diagnostics /\ ever' \in Ever /\ ever'.calls \in Nat
      /\ ever.calls <= ever'.calls
  BY <1>1, <1>2, TypesOfState DEF CountersTypeOK, Follows, Ever
<1>4. SnapshotsFollow'
  <2>1. ASSUME NEW s \in Snapshots,
               Follows(s.diagnostics, s.ever, diagnostics, ever)
        PROVE  Follows(s.diagnostics, s.ever, diagnostics', ever')
    BY <1>1, <1>3, <2>1, TypesOfSnapshots, FollowsTransitive
  <2>2. sampler.now \in Snapshots /\ baseline.previous \in Snapshots
    BY TypesOfState
  <2> QED BY <1>1, <2>1, <2>2 DEF SnapshotsFollow
<1>5. GenerationsFollow'
  <2>1. \A g \in 0 .. generation : began[g] \in Nat
    BY TypesOfState
  <2> QED BY <1>1, <1>3, <2>1, TypesOfState DEF GenerationsFollow, Since, Until
<1>6. FeaturesCount'
  <2> SUFFICES ASSUME NEW n \in 0 .. window.count - 1, Clean(Nth(window, n))
               PROVE  /\ Nth(window, n).calls
                           = Nth(window, n).to.calls - Nth(window, n).from.calls
                      /\ Nth(window, n).to.calls <= ever'.calls
                      /\ Nth(window, n).generation <= generation
                      /\ Since(Nth(window, n).generation, Nth(window, n).from)
    BY <1>1 DEF FeaturesCount, Since
  <2> QED BY <1>3, TypesOfState DEF FeaturesCount
<1>7. FeaturesMeet' /\ NewestMeetsBaseline'
  BY <1>1 DEF FeaturesMeet, NewestMeetsBaseline, Until
<1> QED BY <1>2, <1>4, <1>5, <1>6, <1>7

LEMMA MediaChangeHolds ==
  ASSUME SentinelInv, MediaChange
  PROVE  SentinelInv'
<1> USE DEF SentinelInv
<1>1. /\ UNCHANGED <<initialized, diagnostics, timing, ever, sampler, baseline,
                     window>>
      /\ generation' = generation + 1 /\ generation < MaxGeneration
      /\ began' = [began EXCEPT ![generation + 1] = ever.calls]
  BY DEF MediaChange, counterVars
<1>2. /\ generation \in Nat /\ MaxGeneration \in Nat /\ ever.calls \in Nat
      /\ began \in [0 .. MaxGeneration -> Nat]
  BY TypesOfState DEF TypeOK, Generations
<1>3. TypeOK'
  BY <1>1, <1>2 DEF TypeOK, CountersTypeOK, Generations
<1>4. \A g \in 0 .. generation : began'[g] = began[g]
  BY <1>1, <1>2
<1>5. began'[generation + 1] = ever.calls
  BY <1>1, <1>2
\* What came before now came before the new generation.
<1>6. ASSUME NEW g \in 0 .. generation, NEW e, e.calls <= ever.calls,
             Until(g, e)
      PROVE  g < generation' => e.calls <= began'[g + 1]
  BY <1>1, <1>2, <1>4, <1>5, <1>6 DEF Until
<1>7. \A g \in 0 .. generation : \A e : Since(g, e) => began'[g] <= e.calls
  BY <1>4 DEF Since
<1>8. SnapshotsFollow'
  BY <1>1 DEF SnapshotsFollow
<1>9. GenerationsFollow'
  <2>1. /\ sampler.now.generation \in Nat
        /\ baseline.previous.generation \in Nat
    BY TypesOfState, TypesOfSnapshots DEF Generations
  <2>2. baseline.valid => baseline.previous.ever.calls <= ever.calls
    BY DEF SnapshotsFollow, Follows
  <2>3. ASSUME NEW g \in 0 .. generation' PROVE began'[g] <= ever.calls
    <3>1. CASE g = generation + 1 BY <1>2, <1>5, <3>1
    <3>2. CASE g # generation + 1
      <4>1. g \in 0 .. generation BY <1>1, <1>2, <3>2
      <4> QED BY <1>4, <4>1 DEF GenerationsFollow, Since
    <3> QED BY <3>1, <3>2
  <2>4. sampler.pc # "idle" /\ baseline.valid =>
          Until(sampler.now.generation, baseline.previous.ever)'
    <3>1. ASSUME sampler.pc # "idle", baseline.valid
          PROVE  sampler.now.generation < generation' =>
                   baseline.previous.ever.calls
                     <= began'[sampler.now.generation + 1]
      <4>1. /\ sampler.now.generation \in 0 .. generation
            /\ Until(sampler.now.generation, baseline.previous.ever)
        BY <1>2, <2>1, <3>1 DEF GenerationsFollow
      <4> QED BY <1>6, <2>2, <3>1, <4>1
    <3> QED BY <1>1, <3>1 DEF Until
  <2> QED
    BY <1>1, <1>2, <1>7, <2>1, <2>3, <2>4 DEF GenerationsFollow, Since
<1>10. FeaturesCount'
  <2> SUFFICES ASSUME NEW n \in 0 .. window.count - 1, Clean(Nth(window, n))
               PROVE  LET f == Nth(window, n)
                      IN /\ f.calls = f.to.calls - f.from.calls
                         /\ f.to.calls <= ever.calls
                         /\ f.generation <= generation'
                         /\ began'[f.generation] <= f.from.calls
    BY <1>1 DEF FeaturesCount, Since
  <2> DEFINE f == Nth(window, n)
  <2>1. /\ f.calls = f.to.calls - f.from.calls
        /\ f.to.calls <= ever.calls
        /\ f.generation <= generation /\ Since(f.generation, f.from)
    BY DEF FeaturesCount
  <2>2. f.generation \in 0 .. MaxGeneration
    BY TypesOfState
  <2> HIDE DEF f
  <2>3. began'[f.generation] <= f.from.calls
    BY <1>2, <1>7, <2>1, <2>2
  <2>4. f.generation <= generation'
    BY <1>1, <1>2, <2>1, <2>2
  <2> QED BY <2>1, <2>3, <2>4 DEF f
<1>11. FeaturesMeet'
  <2> SUFFICES ASSUME NEW n \in 0 .. window.count - 2,
                      Clean(Nth(window, n)), Clean(Nth(window, n + 1))
               PROVE  /\ Nth(window, n + 1).from = Nth(window, n).to
                      /\ Until(Nth(window, n).generation, Nth(window, n).to)'
    BY <1>1 DEF FeaturesMeet, Until
  <2>1. n \in 0 .. window.count - 1
    BY TypesOfState
  <2>2. /\ Nth(window, n).generation \in 0 .. generation
        /\ Nth(window, n).to.calls <= ever.calls
    BY <1>2, <2>1, TypesOfState DEF FeaturesCount
  <2>3. /\ Nth(window, n + 1).from = Nth(window, n).to
        /\ Until(Nth(window, n).generation, Nth(window, n).to)
    BY DEF FeaturesMeet
  <2> QED BY <1>1, <1>6, <2>2, <2>3 DEF Until
<1>12. NewestMeetsBaseline'
  BY <1>1 DEF NewestMeetsBaseline
<1> QED BY <1>3, <1>8, <1>9, <1>10, <1>11, <1>12

\* The sampler's other steps, each with the window as it is or empty.
LEMMA CollectMetadataHolds ==
  ASSUME SentinelInv, CollectMetadata
  PROVE  SentinelInv'
<1> USE DEF SentinelInv
<1>1. /\ UNCHANGED <<initialized, diagnostics, timing, ever, generation, began,
                     baseline, window>>
      /\ sampler' = [pc |-> "diagnostics",
                     now |-> [NoSnapshots EXCEPT !.generation = generation]]
  BY DEF CollectMetadata, counterVars
<1>2. /\ sampler'.now \in Snapshots /\ sampler'.now.generation = generation
      /\ sampler'.pc = "diagnostics"
  BY <1>1, NoSnapshotsOK DEF Snapshots, TypeOK
<1>3. TypeOK'
  BY <1>1, <1>2 DEF TypeOK, CountersTypeOK
<1>4. SnapshotsFollow'
  BY <1>1, <1>2 DEF SnapshotsFollow
<1>5. GenerationsFollow'
  BY <1>1, <1>2, TypesOfState DEF GenerationsFollow, Since, Until
<1>6. FeaturesCount' /\ FeaturesMeet' /\ NewestMeetsBaseline'
  BY <1>1 DEF FeaturesCount, FeaturesMeet, NewestMeetsBaseline, Since, Until
<1> QED BY <1>3, <1>4, <1>5, <1>6

LEMMA GetDiagnosticsHolds ==
  ASSUME SentinelInv, GetDiagnostics
  PROVE  SentinelInv'
<1> USE DEF SentinelInv
<1>1. /\ UNCHANGED <<initialized, diagnostics, timing, ever, generation, began,
                     baseline, window>>
      /\ sampler.pc = "diagnostics"
      /\ sampler' = [pc |-> "timing",
                     now |-> [sampler.now EXCEPT !.diagnostics = diagnostics,
                                                 !.ever = ever]]
  BY DEF GetDiagnostics, counterVars
<1>2. /\ sampler'.now \in Snapshots /\ sampler'.pc = "timing"
      /\ sampler'.now.diagnostics = diagnostics /\ sampler'.now.ever = ever
      /\ sampler'.now.generation = sampler.now.generation
  BY <1>1, TypesOfState DEF Snapshots
<1>3. TypeOK'
  BY <1>1, <1>2 DEF TypeOK, CountersTypeOK
<1>4. SnapshotsFollow'
  BY <1>1, <1>2, FollowsItself, TypesOfState DEF SnapshotsFollow
<1>5. GenerationsFollow'
  <2>1. sampler.now.generation \in 0 .. generation
    BY <1>1, TypesOfState, TypesOfSnapshots
    DEF GenerationsFollow, Generations
  <2> QED BY <1>1, <1>2, <2>1 DEF GenerationsFollow, Since, Until
<1>6. FeaturesCount' /\ FeaturesMeet' /\ NewestMeetsBaseline'
  BY <1>1 DEF FeaturesCount, FeaturesMeet, NewestMeetsBaseline, Since, Until
<1> QED BY <1>3, <1>4, <1>5, <1>6

LEMMA SampleFailsHolds ==
  ASSUME SentinelInv, SampleFails
  PROVE  SentinelInv'
<1> USE DEF SentinelInv
<1>1. /\ UNCHANGED <<initialized, diagnostics, timing, ever, generation, began,
                     baseline, window>>
      /\ sampler' = [pc |-> "idle", now |-> NoSnapshots]
  BY DEF SampleFails, counterVars
<1>2. TypeOK'
  BY <1>1, NoSnapshotsOK DEF TypeOK, CountersTypeOK
<1>3. SnapshotsFollow' /\ GenerationsFollow'
  BY <1>1 DEF SnapshotsFollow, GenerationsFollow, Since, Until
<1>4. FeaturesCount' /\ FeaturesMeet' /\ NewestMeetsBaseline'
  BY <1>1 DEF FeaturesCount, FeaturesMeet, NewestMeetsBaseline, Since, Until
<1> QED BY <1>2, <1>3, <1>4

LEMMA SentinelResetHolds ==
  ASSUME SentinelInv, SentinelReset
  PROVE  SentinelInv'
<1> USE DEF SentinelInv
<1>1. /\ UNCHANGED <<initialized, diagnostics, timing, ever, generation, began,
                     sampler, window>>
      /\ baseline' = NoBaseline
  BY DEF SentinelReset, counterVars
<1>2. baseline'.valid = FALSE /\ baseline'.previous \in Snapshots
  BY <1>1, NoSnapshotsOK DEF NoBaseline
<1>3. TypeOK'
  BY <1>1, NoSnapshotsOK DEF TypeOK, CountersTypeOK, NoBaseline
<1>4. SnapshotsFollow' /\ GenerationsFollow'
  BY <1>1, <1>2 DEF SnapshotsFollow, GenerationsFollow, Since, Until
<1>5. FeaturesCount' /\ FeaturesMeet' /\ NewestMeetsBaseline'
  BY <1>1, <1>2
  DEF FeaturesCount, FeaturesMeet, NewestMeetsBaseline, Since, Until
<1> QED BY <1>3, <1>4, <1>5

LEMMA WindowResetHolds ==
  ASSUME SentinelInv, WindowReset
  PROVE  SentinelInv'
<1> USE DEF SentinelInv
<1>1. /\ UNCHANGED <<initialized, diagnostics, timing, ever, generation, began,
                     sampler, baseline>>
      /\ window' = EmptyWindow
  BY DEF WindowReset, counterVars
<1>2. TypeOK'
  BY <1>1, EmptyWindowOK DEF TypeOK, CountersTypeOK, WindowOK
<1>3. SnapshotsFollow' /\ GenerationsFollow'
  BY <1>1 DEF SnapshotsFollow, GenerationsFollow, Since, Until
<1>4. window'.count = 0
  BY <1>1 DEF EmptyWindow
<1>5. FeaturesCount' /\ FeaturesMeet' /\ NewestMeetsBaseline'
  BY <1>4 DEF FeaturesCount, FeaturesMeet, NewestMeetsBaseline
<1> QED BY <1>2, <1>3, <1>5

LEMMA StutterHolds ==
  ASSUME SentinelInv, UNCHANGED vars
  PROVE  SentinelInv'
<1>1. UNCHANGED <<initialized, diagnostics, timing, ever, generation, began,
                  sampler, baseline, window>>
  BY DEF vars, counterVars
<1> QED
  BY <1>1
  DEF SentinelInv, TypeOK, CountersTypeOK, SnapshotsFollow, GenerationsFollow,
      FeaturesCount, FeaturesMeet, NewestMeetsBaseline, Since, Until

----------------------------------------------------------------------------
(* A sample.                                                               *)

\* The snapshots of the sample that is taken.
Now == [sampler.now EXCEPT !.timing = timing]

LEMMA NowIs ==
  ASSUME TypeOK
  PROVE  /\ Now \in Snapshots /\ Now.ever = sampler.now.ever
         /\ Now.diagnostics = sampler.now.diagnostics
         /\ Now.generation = sampler.now.generation
BY DEF Now, Snapshots, TypeOK, CountersTypeOK

\* A clean feature has the baseline at its one end and now at the other, in
\* one generation, and counts exactly what was recorded between them.
LEMMA FeatureIs ==
  ASSUME SentinelInv, sampler.pc = "timing",
         NEW clock \in {"ok", "back", "fail"}
  PROVE  LET p == baseline.previous
             f == FeatureOf(p, Now, clock)
         IN /\ f \in Feature
            /\ Clean(f) =>
                 /\ baseline.valid
                 /\ f.from = p.ever /\ f.to = Now.ever
                 /\ f.calls = f.to.calls - f.from.calls
                 /\ f.generation = Now.generation
                 /\ Now.generation = p.generation
<1> DEFINE p == baseline.previous
           n == Now
           f == FeatureOf(p, n, clock)
           interval == IF clock = "ok" THEN {"interval"} ELSE {}
<1>1. TypeOK /\ SnapshotsFollow BY DEF SentinelInv
<1>2. p \in Snapshots /\ n \in Snapshots
  BY <1>1, NowIs, TypesOfState
<1>3. baseline.valid => Follows(p.diagnostics, p.ever, n.diagnostics, n.ever)
  BY <1>1, NowIs DEF SnapshotsFollow
<1>4. baseline.valid \in BOOLEAN BY <1>1 DEF TypeOK
<1> HIDE DEF n, p
<1>5. /\ n.generation \in Generations /\ p.ever \in Ever /\ n.ever \in Ever
      /\ p.diagnostics \in Diagnostics /\ n.diagnostics \in Diagnostics
  BY <1>2, TypesOfSnapshots
<1>6. ASSUME NEW flags \in SUBSET Flags, NEW valid \in SUBSET Valid
      PROVE  /\ Empty(n, flags, valid) \in Feature
             /\ Empty(n, flags, valid).flags = flags
  BY <1>5 DEF Empty, NoFeature, Feature, ZeroEver, Ever
<1>7. interval \in SUBSET Valid BY DEF Valid
<1>8. CASE ~baseline.valid
  <2>1. f = Empty(n, {"insufficient"}, {}) BY <1>8 DEF FeatureOf
  <2>2. {"insufficient"} \in SUBSET Flags /\ {} \in SUBSET Valid
    BY DEF Flags
  <2> QED BY <1>6, <2>1, <2>2 DEF Clean, p, n
<1>9. CASE baseline.valid /\ (\/ Discontinuity(p, n, clock)
                              \/ ~CountersGrow(p.diagnostics, n.diagnostics))
  <2>1. f = Empty(n, Flags, interval) BY <1>9 DEF FeatureOf
  <2>2. Flags \in SUBSET Flags /\ Flags # {} BY DEF Flags
  <2> HIDE DEF f, interval
  <2>3. f \in Feature /\ ~Clean(f) BY <1>6, <1>7, <2>1, <2>2 DEF Clean
  <2> QED BY <2>3 DEF f, p, n
<1>10. CASE baseline.valid /\ ~Discontinuity(p, n, clock)
            /\ CountersGrow(p.diagnostics, n.diagnostics)
  <2> DEFINE timed == TimingGrows(p.timing, n.timing)
  <2>1. f = Deltas(p, n, interval) BY <1>10 DEF FeatureOf
  <2>2. /\ p.diagnostics.reset_epoch = n.diagnostics.reset_epoch
        /\ n.generation = p.generation
        /\ ~Saturates(n.diagnostics.calls)
    BY <1>10 DEF Discontinuity, DiagnosticsSaturated
  <2>3. n.diagnostics.calls - p.diagnostics.calls = n.ever.calls - p.ever.calls
    BY <1>3, <1>5, <1>10, <2>2 DEF Follows, Diagnostics, Ever
  <2>4. /\ n.diagnostics.calls - p.diagnostics.calls \in Nat
        /\ n.diagnostics.out_of_range_errors
             - p.diagnostics.out_of_range_errors \in Nat
    BY <1>5, <1>10, CountersAssumption DEF CountersGrow, Diagnostics
  <2>5. /\ (IF timed THEN {} ELSE Flags) \in SUBSET Flags
        /\ interval \cup {"counters"} \cup (IF timed THEN {"timing"} ELSE {})
             \in SUBSET Valid
    BY <1>7 DEF Valid
  <2> HIDE DEF interval, f
  <2>6. f \in Feature
    BY <1>5, <2>1, <2>4, <2>5 DEF Deltas, Feature
  <2>7. /\ f.from = p.ever /\ f.to = n.ever /\ f.generation = n.generation
        /\ f.calls = n.diagnostics.calls - p.diagnostics.calls
    BY <2>1 DEF Deltas
  <2> QED BY <1>10, <2>2, <2>3, <2>6, <2>7 DEF f, p, n
<1> QED BY <1>4, <1>8, <1>9, <1>10

LEMMA TakeSampleHolds ==
  ASSUME SentinelInv, NEW clock \in {"ok", "back", "fail"}, TakeSample(clock)
  PROVE  SentinelInv'
<1> DEFINE p == baseline.previous
           f == FeatureOf(p, Now, clock)
           x == Push(window, f)
           k == Kept(window, f)
           shift == k.count + 1 - x.count
<1> USE DEF SentinelInv
<1>1. /\ UNCHANGED <<initialized, diagnostics, timing, ever, generation, began>>
      /\ sampler.pc = "timing"
      /\ sampler' = [pc |-> "idle", now |-> NoSnapshots]
      /\ baseline' = IF clock = "fail" THEN NoBaseline
                     ELSE [valid |-> TRUE, previous |-> Now]
      /\ window' = x
  BY DEF TakeSample, counterVars, Now
<1>2. /\ f \in Feature
      /\ Clean(f) => /\ baseline.valid
                     /\ f.from = p.ever /\ f.to = Now.ever
                     /\ f.calls = f.to.calls - f.from.calls
                     /\ f.generation = Now.generation
                     /\ Now.generation = p.generation
  BY <1>1, FeatureIs
<1>3. /\ Now \in Snapshots /\ Now.ever = sampler.now.ever
      /\ Now.diagnostics = sampler.now.diagnostics
      /\ Now.generation = sampler.now.generation
  BY NowIs
<1>4. /\ WindowOK(x) /\ WindowOK(k)
      /\ x.count \in 1 .. Capacity /\ shift \in {0, 1}
      /\ Nth(x, x.count - 1) = f
      /\ \A n \in 0 .. x.count - 2 :
           /\ n + shift \in 0 .. k.count - 1
           /\ Nth(x, n) = Nth(k, n + shift)
  <2> HIDE DEF f
  <2> QED BY <1>2, PushIs, TypesOfState
<1>5. k.count # 0 => k = window
  BY DEF Kept, EmptyWindow
<1>6. Capacity \in Nat \ {0} /\ k.count \in Nat
  BY <1>4, SentinelAssumption DEF WindowOK
<1> HIDE DEF f, x, k, p
<1>7. TypeOK'
  <2>1. WindowOK(window') BY <1>1, <1>4
  <2>2. sampler'.now \in Snapshots /\ baseline'.previous \in Snapshots
    BY <1>1, <1>3, NoSnapshotsOK DEF NoBaseline
  <2>3. /\ sampler' \in [pc : {"idle", "diagnostics", "timing"},
                         now : Snapshots]
        /\ baseline' \in [valid : BOOLEAN, previous : Snapshots]
    BY <1>1, <1>3, NoSnapshotsOK DEF NoBaseline
  <2> QED BY <1>1, <2>1, <2>3 DEF TypeOK, CountersTypeOK, WindowOK
<1>8. SnapshotsFollow'
  BY <1>1, <1>3 DEF SnapshotsFollow, NoBaseline
<1>9. GenerationsFollow'
  BY <1>1, <1>3 DEF GenerationsFollow, NoBaseline, Since, Until
\* The new feature counts, and so do those that are kept.
<1>10. Clean(f) => /\ f.calls = f.to.calls - f.from.calls
                   /\ f.to.calls <= ever.calls
                   /\ f.generation <= generation
                   /\ Since(f.generation, f.from)
  BY <1>1, <1>2, <1>3
  DEF GenerationsFollow, SnapshotsFollow, Follows, p
<1>11. FeaturesCount'
  <2> SUFFICES ASSUME NEW n \in 0 .. x.count - 1, Clean(Nth(x, n))
               PROVE  LET g == Nth(x, n)
                      IN /\ g.calls = g.to.calls - g.from.calls
                         /\ g.to.calls <= ever.calls
                         /\ g.generation <= generation
                         /\ Since(g.generation, g.from)
    BY <1>1 DEF FeaturesCount, Since
  <2>1. CASE n = x.count - 1
    BY <1>4, <1>10, <2>1
  <2>2. CASE n # x.count - 1
    <3>1. n \in 0 .. x.count - 2
      BY <1>4, <2>2
    <3>2. n + shift \in 0 .. k.count - 1 /\ Nth(x, n) = Nth(k, n + shift)
      BY <1>4, <3>1
    <3>3. k = window
      BY <1>5, <1>6, <3>2
    <3> QED BY <3>2, <3>3 DEF FeaturesCount
  <2> QED BY <2>1, <2>2
<1>12. FeaturesMeet'
  <2> SUFFICES ASSUME NEW n \in 0 .. x.count - 2,
                      Clean(Nth(x, n)), Clean(Nth(x, n + 1))
               PROVE  /\ Nth(x, n + 1).from = Nth(x, n).to
                      /\ Until(Nth(x, n).generation, Nth(x, n).to)
    BY <1>1 DEF FeaturesMeet, Until
  <2>1. /\ n + shift \in 0 .. k.count - 1 /\ Nth(x, n) = Nth(k, n + shift)
        /\ k = window
    BY <1>4, <1>5, <1>6
  <2>2. CASE n = x.count - 2
    <3>1. n + 1 = x.count - 1 /\ n + shift = k.count - 1
      BY <1>4, <1>6, <2>2
    <3>2. /\ baseline.valid /\ f.from = p.ever
          /\ sampler.now.generation = p.generation
          /\ Nth(x, n + 1) = f
      BY <1>2, <1>3, <1>4, <3>1
    <3>3. Nth(x, n).to = p.ever /\ Nth(x, n).generation = p.generation
      BY <1>6, <2>1, <3>1, <3>2 DEF NewestMeetsBaseline, p
    <3> QED BY <1>1, <3>2, <3>3 DEF GenerationsFollow, p
  <2>3. CASE n # x.count - 2
    <3>0. x.count \in Nat
      BY <1>4, <1>6
    <3>1. n + 1 \in 0 .. x.count - 2
      <4> HIDE DEF shift
      <4> QED BY <2>3, <3>0
    <3>2. /\ Nth(x, n + 1) = Nth(k, (n + 1) + shift)
          /\ (n + 1) + shift \in 0 .. k.count - 1
      BY <1>4, <3>1
    <3>3. /\ (n + 1) + shift = (n + shift) + 1
          /\ n + shift \in 0 .. k.count - 2
      BY <1>4, <1>6, <3>2
    <3> QED BY <2>1, <3>2, <3>3 DEF FeaturesMeet
  <2> QED BY <2>2, <2>3
<1>13. NewestMeetsBaseline'
  BY <1>1, <1>2, <1>3, <1>4 DEF NewestMeetsBaseline, NoBaseline
<1> QED BY <1>7, <1>8, <1>9, <1>11, <1>12, <1>13

\* The invariant is inductive.
LEMMA NextHolds ==
  ASSUME SentinelInv, [Next]_vars
  PROVE  SentinelInv'
<1>1. CASE Observe BY <1>1, ObserveHolds
<1>2. CASE MediaChange BY <1>2, MediaChangeHolds
<1>3. CASE CollectMetadata BY <1>3, CollectMetadataHolds
<1>4. CASE GetDiagnostics BY <1>4, GetDiagnosticsHolds
<1>5. CASE SampleFails BY <1>5, SampleFailsHolds
<1>6. ASSUME NEW clock \in {"ok", "back", "fail"}, TakeSample(clock)
      PROVE  SentinelInv'
  BY <1>6, TakeSampleHolds
<1>7. CASE SentinelReset BY <1>7, SentinelResetHolds
<1>8. CASE WindowReset BY <1>8, WindowResetHolds
<1>9. CASE UNCHANGED vars BY <1>9, StutterHolds
<1> QED
  BY <1>1, <1>2, <1>3, <1>4, <1>5, <1>6, <1>7, <1>8, <1>9 DEF Next

\* The invariant of the samples and of the window, which the rest is drawn
\* from: no interleaving of calls, resets, card changes and failed samples
\* with the three snapshots breaks it.
THEOREM InductiveInvariant == Spec => []SentinelInv
<1>1. Init => SentinelInv BY InitHolds
<1>2. SentinelInv /\ [Next]_vars => SentinelInv' BY NextHolds
<1> QED BY <1>1, <1>2, PTL DEF Spec

\* The variables have their types: no counter of a feature, a difference of
\* two unsigned ones (mtfs_sentinel.c), is ever negative, and the ring's index
\* stays within its storage.
THEOREM TypeCorrect == Spec => []TypeOK
<1>1. SentinelInv => TypeOK BY DEF SentinelInv
<1> QED BY <1>1, InductiveInvariant, PTL

----------------------------------------------------------------------------
(* What a sufficient window says.                                          *)

LEMMA SufficientIs ==
  ASSUME SentinelInv, Sufficient(window)
  PROVE  /\ window.count = Capacity
         /\ \A n \in 0 .. window.count - 1 :
              LET f == Nth(window, n)
              IN /\ f.calls = f.to.calls - f.from.calls
                 /\ f.from.calls \in Nat /\ f.to.calls \in Nat
                 /\ f.generation \in 0 .. generation
                 /\ Since(f.generation, f.from)
         /\ \A n \in 0 .. window.count - 2 :
              LET f == Nth(window, n)
              IN /\ Nth(window, n + 1).from = f.to
                 /\ Until(f.generation, f.to)
<1> USE DEF SentinelInv
<1>1. window.count = Capacity /\ Capacity \in Nat \ {0}
  BY SentinelAssumption DEF Sufficient
<1>2. \A n \in 0 .. window.count - 1 : Clean(Nth(window, n))
  BY DEF Sufficient, Held, Clean
<1>3. ASSUME NEW n \in 0 .. window.count - 1
      PROVE  LET f == Nth(window, n)
             IN /\ f.calls = f.to.calls - f.from.calls
                /\ f.from.calls \in Nat /\ f.to.calls \in Nat
                /\ f.generation \in 0 .. generation
                /\ Since(f.generation, f.from)
  <2>1. LET f == Nth(window, n)
        IN /\ f.calls = f.to.calls - f.from.calls
           /\ f.generation <= generation
           /\ Since(f.generation, f.from)
    BY <1>2 DEF FeaturesCount
  <2>2. LET f == Nth(window, n)
        IN /\ f.from.calls \in Nat /\ f.to.calls \in Nat
           /\ f.generation \in 0 .. MaxGeneration /\ generation \in Nat
    BY TypesOfState
  <2> QED BY <2>1, <2>2
<1>4. ASSUME NEW n \in 0 .. window.count - 2
      PROVE  LET f == Nth(window, n)
             IN /\ Nth(window, n + 1).from = f.to
                /\ Until(f.generation, f.to)
  <2>1. Clean(Nth(window, n)) /\ Clean(Nth(window, n + 1))
    <3>1. n \in 0 .. window.count - 1 /\ n + 1 \in 0 .. window.count - 1
      BY <1>1
    <3> QED BY <1>2, <3>1
  <2> QED BY <2>1 DEF FeaturesMeet
<1> QED BY <1>1, <1>3, <1>4

\* What a sufficient window adds up is what was recorded from its oldest
\* feature to its newest: mtfs_sentinel_window_get loses no call to a reset, a
\* saturated counter, a failed sample or the wrapping of the ring.
THEOREM CountsCorrect == Spec => []WindowCountsCalls
<1>1. ASSUME SentinelInv, Sufficient(window)
      PROVE  Total(window, "calls") = Recorded(window, "calls")
  <2> DEFINE first == Nth(window, 0).from.calls
             g == [n \in 0 .. window.count |->
                     IF n = 0 THEN 0 ELSE Nth(window, n - 1).to.calls - first]
  <2>1. window.count \in Nat \ {0}
    BY <1>1, SufficientIs, SentinelAssumption
  <2>2. /\ \A n \in 0 .. window.count - 1 :
             LET f == Nth(window, n)
             IN /\ f.calls = f.to.calls - f.from.calls
                /\ f.from.calls \in Nat /\ f.to.calls \in Nat
        /\ \A n \in 0 .. window.count - 2 :
             Nth(window, n + 1).from = Nth(window, n).to
    BY <1>1, SufficientIs
  <2>3. first \in Nat
    BY <2>1, <2>2
  <2>4. ASSUME NEW n \in 0 .. window.count, n # 0
        PROVE  g[n] = g[n - 1] + Nth(window, n - 1)["calls"]
    <3> DEFINE f == Nth(window, n - 1)
    <3>1. f.calls = f.to.calls - f.from.calls
          /\ f.from.calls \in Nat /\ f.to.calls \in Nat
      BY <2>1, <2>2, <2>4
    <3>2. g[n] = f.to.calls - first
      BY <2>4
    <3>3. CASE n = 1
      <4>1. g[n - 1] = 0 /\ first = f.from.calls
        BY <2>1, <3>3
      <4> HIDE DEF f, g, first
      <4> QED BY <2>3, <3>1, <3>2, <4>1 DEF f
    <3>4. CASE n # 1
      <4>1. /\ n - 1 \in 0 .. window.count /\ n - 1 # 0
            /\ n - 2 \in 0 .. window.count - 2 /\ n - 2 + 1 = n - 1
            /\ (n - 1) - 1 = n - 2
        BY <2>1, <2>4, <3>4
      <4>2. g[n - 1] = Nth(window, n - 2).to.calls - first
        BY <4>1
      <4>3. Nth(window, n - 2).to = f.from
        BY <2>2, <4>1
      <4> HIDE DEF f, g, first
      <4> QED BY <2>3, <3>1, <3>2, <4>2, <4>3 DEF f
    <3> QED BY <3>3, <3>4
  <2>5. g = [n \in 0 .. window.count |->
               IF n = 0 THEN 0 ELSE g[n - 1] + Nth(window, n - 1)["calls"]]
    <3>1. g[0] = 0 BY <2>1
    <3>2. g = [n \in 0 .. window.count |-> g[n]] OBVIOUS
    <3> HIDE DEF g
    <3> QED BY <2>4, <3>1, <3>2
  <2>6. Total(window, "calls") = g[window.count]
    <3> HIDE DEF g
    <3> QED BY <2>1, <2>5, TotalIs
  <2>7. g[window.count] = Nth(window, window.count - 1).to.calls - first
    BY <2>1
  <2> QED BY <2>6, <2>7 DEF Recorded
<1>2. SentinelInv => WindowCountsCalls BY <1>1 DEF WindowCountsCalls
<1> QED BY <1>2, InductiveInvariant, PTL

\* The reads of a sufficient window, those of its newest feature excepted,
\* were made while the media were of the generation the feature names.
THEOREM SessionCorrect == Spec => []WindowNamesSession
<1>1. SentinelInv => WindowNamesSession
  <2> SUFFICES ASSUME SentinelInv, Sufficient(window),
                      NEW n \in 0 .. window.count - 2
               PROVE  LET f == Nth(window, n)
                      IN /\ began[f.generation] <= f.from.calls
                         /\ f.generation < generation =>
                              f.to.calls <= began[f.generation + 1]
    BY DEF WindowNamesSession
  <2>1. n \in 0 .. window.count - 1
    BY SufficientIs, SentinelAssumption
  <2> QED BY <2>1, SufficientIs DEF Since, Until
<1> QED BY <1>1, InductiveInvariant, PTL
=============================================================================
