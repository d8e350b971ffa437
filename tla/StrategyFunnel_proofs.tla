----------------------- MODULE StrategyFunnel_proofs -----------------------
(* Lemmas about candle series and the strategy funnel, with their proofs.  *)
EXTENDS StrategyFunnel, FiniteSetTheorems, WellFoundedInduction, TLAPS

-----------------------------------------------------------------------------
(* First and last minute of a series. *)

(* Min, of a set of natural numbers, is what it says. *)
LEMMA MinOfNaturals ==
  ASSUME NEW S \in SUBSET Nat, S # {}
  PROVE  Min(S) \in S /\ \A x \in S : Min(S) <= x
<1>. DEFINE UpTo == {0 .. x : x \in S}
<1>1. UpTo \subseteq FiniteSubsetsOf(Nat) /\ UpTo # {}
  <2>1. \A x \in S : IsFiniteSet(0 .. x) /\ 0 .. x \subseteq Nat
    BY FS_Interval
  <2>. QED BY <2>1 DEF FiniteSubsetsOf
<1>2. PICK X \in UpTo : \A Y \in UpTo : <<Y, X>> \notin StrictSubsetOrdering(Nat)
  BY <1>1, FS_StrictSubsetOrderingWellFounded, WFMin
<1>3. PICK x \in S : X = 0 .. x
  OBVIOUS
<1>4. ASSUME NEW y \in S PROVE x <= y
  <2>1. SUFFICES ASSUME y < x PROVE FALSE
    OBVIOUS
  <2>2. 0 .. y \subseteq 0 .. x /\ x \notin 0 .. y /\ x \in 0 .. x
    BY <2>1
  <2>3. <<0 .. y, X>> \in StrictSubsetOrdering(Nat)
    BY <2>2, <1>3 DEF StrictSubsetOrdering
  <2>. QED BY <2>3, <1>2
<1>. QED BY <1>4 DEF Min

(* Latest, of a series that ends by minute n, is its last minute. *)
LEMMA LatestIsLast ==
  ASSUME NEW n \in Nat, NEW series, DOMAIN series \subseteq 0 .. n, DOMAIN series # {}
  PROVE  /\ Latest(series) \in DOMAIN series
         /\ \A t \in DOMAIN series : t <= Latest(series)
<1>. DEFINE Before == {n - t : t \in DOMAIN series}
            Negated == {-t : t \in DOMAIN series}
<1>1. Before \in SUBSET Nat /\ Before # {}
  OBVIOUS
<1>2. PICK b \in Before : \A x \in Before : b <= x
  BY <1>1, MinOfNaturals
<1>3. PICK last \in DOMAIN series : b = n - last
  BY <1>2
<1>4. \A t \in DOMAIN series : t <= last
  BY <1>2, <1>3
<1>5. \E x \in Negated : \A y \in Negated : x <= y
  <2>1. -last \in Negated /\ \A y \in Negated : -last <= y
    BY <1>4
  <2>. QED BY <2>1
<1>6. Min(Negated) \in Negated /\ \A y \in Negated : Min(Negated) <= y
  BY <1>5 DEF Min
<1>7. PICK t \in DOMAIN series : Min(Negated) = -t
  BY <1>6
<1>8. Latest(series) = t
  BY <1>7 DEF Latest
<1>9. \A u \in DOMAIN series : -t <= -u
  BY <1>6, <1>7
<1>. QED BY <1>8, <1>9

(* Max, of numbers up to n, is what it says. *)
LEMMA MaxOfNaturals ==
  ASSUME NEW n \in Nat, NEW S \in SUBSET (0 .. n), S # {}
  PROVE  Max(S) \in S /\ \A x \in S : x <= Max(S)
<1>. DEFINE Before == {n - t : t \in S}
<1>0. \A t \in S : t \in Nat /\ t <= n
  OBVIOUS
<1>1. Before \in SUBSET Nat /\ Before # {}
  <2>1. \A t \in S : n - t \in Nat
    BY <1>0
  <2>. QED BY <2>1
<1>2. PICK z \in Before : \A x \in Before : z <= x
  BY <1>1, MinOfNaturals
<1>3. PICK last \in S : z = n - last
  BY <1>2
<1>4. \A t \in S : t <= last
  <2>. SUFFICES ASSUME NEW t \in S PROVE t <= last
    OBVIOUS
  <2>1. z <= n - t
    BY <1>2
  <2>. QED BY <1>0, <1>3, <2>1
<1>. QED BY <1>4 DEF Max

(* More numbers, all greater, leave the least one as it is. *)
LEMMA MinStays ==
  ASSUME NEW T \in SUBSET Nat, NEW S \in SUBSET T, S # {},
         \A x \in S, y \in T \ S : x < y
  PROVE  Min(T) = Min(S)
<1>1. Min(S) \in S /\ \A x \in S : Min(S) <= x
  BY MinOfNaturals
<1>2. Min(T) \in T /\ \A x \in T : Min(T) <= x
  BY <1>1, MinOfNaturals
<1>3. Min(S) \in Nat /\ Min(T) \in Nat /\ Min(T) <= Min(S)
  BY <1>1, <1>2
<1>4. Min(T) \in S
  BY <1>1, <1>2, <1>3
<1>5. Min(S) <= Min(T)
  BY <1>1, <1>4
<1>. QED BY <1>3, <1>5

-----------------------------------------------------------------------------
(* The blocks of a timeframe. *)

(* A set of natural numbers that holds n, and every number below n whose   *)
(* greater ones up to n it holds, holds all from first to n.               *)
LEMMA DownwardInduction ==
  ASSUME NEW first \in Nat, NEW n \in Nat, NEW Good,
         \A t \in first .. n : (\A u \in t + 1 .. n : u \in Good) => t \in Good
  PROVE  \A t \in first .. n : t \in Good
<1>. DEFINE Left == {n - t : t \in {u \in first .. n : u \notin Good}}
<1>1. SUFFICES ASSUME NEW bad \in first .. n, bad \notin Good PROVE FALSE
  OBVIOUS
<1>2. Left \in SUBSET Nat /\ n - bad \in Left
  BY <1>1
<1>3. Min(Left) \in Left /\ \A x \in Left : Min(Left) <= x
  BY <1>2, MinOfNaturals
<1>4. PICK t \in first .. n : t \notin Good /\ Min(Left) = n - t
  BY <1>3
<1>5. ASSUME NEW u \in t + 1 .. n PROVE u \in Good
  <2>1. SUFFICES ASSUME u \notin Good PROVE FALSE
    OBVIOUS
  <2>2. n - u \in Left
    BY <1>4, <2>1
  <2>. HIDE DEF Left
  <2>3. n - t <= n - u
    BY <1>3, <1>4, <2>2
  <2>. QED BY <2>3
<1>. QED BY <1>4, <1>5

(* A group ends after it begins and before the minute after the last.      *)
LEMMA GroupEndAhead ==
  ASSUME NEW tf, NEW times, NEW last \in Nat, NEW t \in 0 .. last
  PROVE  GroupEnd(tf, times, t, last) \in t + 1 .. last + 1
<1>. DEFINE ends == {u \in t + 1 .. last + 1 :
                       u = last + 1 \/ Cardinality(times \intersect t .. u - 1) = tf}
<1>1. ends \in SUBSET Nat /\ last + 1 \in ends
  OBVIOUS
<1>2. Min(ends) \in ends
  BY <1>1, MinOfNaturals
<1>3. Min(ends) \in t + 1 .. last + 1
  BY <1>2
<1>. QED BY <1>3 DEF GroupEnd

(* One turn of the loop of build_timeframe_profile. *)
BlocksStep(f, tf, times, t, last) ==
  IF t > last THEN {}
  ELSE IF t \notin times \/ ~Aligned(tf, t) THEN f[t + 1]
  ELSE IF t .. t + tf - 1 \subseteq times THEN {t} \union f[t + tf]
  ELSE f[GroupEnd(tf, times, t, last)]

(* The turn looks at later minutes only. *)
LEMMA BlocksStepAhead ==
  ASSUME NEW tf \in Nat \ {0}, NEW first \in Nat, NEW last \in Nat,
         NEW times \in SUBSET (first .. last), NEW t \in first .. last + 1,
         NEW f, NEW g, \A u \in t + 1 .. last + 1 : f[u] = g[u]
  PROVE  BlocksStep(f, tf, times, t, last) = BlocksStep(g, tf, times, t, last)
<1>1. CASE t > last
  BY <1>1 DEF BlocksStep
<1>2. CASE t <= last
  <2>1. f[t + 1] = g[t + 1]
    BY <1>2
  <2>2. ASSUME t .. t + tf - 1 \subseteq times PROVE f[t + tf] = g[t + tf]
    <3>1. t + tf - 1 \in t .. t + tf - 1
      OBVIOUS
    <3>2. t + tf - 1 \in first .. last
      BY <3>1, <2>2
    <3>. QED BY <3>2
  <2>3. f[GroupEnd(tf, times, t, last)] = g[GroupEnd(tf, times, t, last)]
    BY <1>2, GroupEndAhead
  <2>. QED BY <2>1, <2>2, <2>3 DEF BlocksStep
<1>. QED BY <1>1, <1>2

(* So the loop is well defined. *)
LEMMA BlocksLoop ==
  ASSUME NEW tf \in Nat \ {0}, NEW first \in Nat, NEW last \in Nat, first <= last,
         NEW times \in SUBSET (first .. last)
  PROVE  \E f : /\ \A t \in first .. last + 1 : f[t] = BlocksStep(f, tf, times, t, last)
                /\ BlocksFrom(tf, times, first, last) = f[first]
<1>. DEFINE Solves(f, from) ==
              \A t \in from .. last + 1 : f[t] = BlocksStep(f, tf, times, t, last)
            Good == {from \in first .. last + 1 : \E f : Solves(f, from)}
            Loop(f) == [t \in first .. last + 1 |->
                          IF t > last THEN {}
                          ELSE IF t \notin times \/ ~Aligned(tf, t) THEN f[t + 1]
                          ELSE IF t .. t + tf - 1 \subseteq times THEN {t} \union f[t + tf]
                          ELSE f[GroupEnd(tf, times, t, last)]]
            from == CHOOSE f : f = Loop(f)
<1>1. ASSUME NEW t \in first .. last + 1, \A u \in t + 1 .. last + 1 : u \in Good
      PROVE  t \in Good
  <2>1. \E f : \A u \in t + 1 .. last + 1 : f[u] = BlocksStep(f, tf, times, u, last)
    <3>1. CASE t = last + 1
      BY <3>1
    <3>2. CASE t <= last
      <4>1. t + 1 \in Good
        BY <1>1, <3>2
      <4>. QED BY <4>1
    <3>. QED BY <3>1, <3>2
  <2>2. PICK f : \A u \in t + 1 .. last + 1 : f[u] = BlocksStep(f, tf, times, u, last)
    BY <2>1
  <2>. DEFINE g == [u \in t .. last + 1 |->
                      IF u = t THEN BlocksStep(f, tf, times, t, last) ELSE f[u]]
  <2>3. \A u \in t + 1 .. last + 1 : f[u] = g[u]
    OBVIOUS
  <2>4. g[t] = BlocksStep(f, tf, times, t, last)
    OBVIOUS
  <2>. HIDE DEF g
  <2>5. ASSUME NEW u \in t .. last + 1 PROVE g[u] = BlocksStep(g, tf, times, u, last)
    <3>1. \A w \in u + 1 .. last + 1 : f[w] = g[w]
      BY <2>3
    <3>2. u \in first .. last + 1
      OBVIOUS
    <3>3. BlocksStep(f, tf, times, u, last) = BlocksStep(g, tf, times, u, last)
      BY <3>1, <3>2, BlocksStepAhead
    <3>4. g[u] = BlocksStep(f, tf, times, u, last)
      BY <2>2, <2>3, <2>4
    <3>. QED BY <3>3, <3>4
  <2>. QED BY <2>5
<1>2. first \in Good
  <2>. HIDE DEF Good
  <2>1. PICK n \in Nat : n = last + 1
    OBVIOUS
  <2>2. \A t \in first .. n : (\A u \in t + 1 .. n : u \in Good) => t \in Good
    BY <1>1, <2>1
  <2>3. \A t \in first .. n : t \in Good
    BY <2>2, DownwardInduction
  <2>. QED BY <2>1, <2>3
<1>3. PICK f : Solves(f, first)
  BY <1>2
<1>4. \E h : h = Loop(h)
  <2>. DEFINE h == [t \in first .. last + 1 |-> f[t]]
  <2>1. ASSUME NEW t \in first .. last + 1
        PROVE  h[t] = BlocksStep(h, tf, times, t, last)
    <3>1. \A u \in t + 1 .. last + 1 : f[u] = h[u]
      OBVIOUS
    <3>. HIDE DEF h
    <3>2. BlocksStep(f, tf, times, t, last) = BlocksStep(h, tf, times, t, last)
      BY <3>1, BlocksStepAhead
    <3>. QED BY <1>3, <3>2 DEF h
  <2>2. h = [t \in first .. last + 1 |-> BlocksStep(h, tf, times, t, last)]
    BY <2>1
  <2>. HIDE DEF h
  <2>3. h = Loop(h)
    BY <2>2 DEF BlocksStep
  <2>. QED BY <2>3
<1>5. from = Loop(from)
  BY <1>4
<1>6. BlocksFrom(tf, times, first, last) = from[first]
  BY DEF BlocksFrom
<1>. HIDE DEF from
<1>7. \A t \in first .. last + 1 : from[t] = BlocksStep(from, tf, times, t, last)
  BY <1>5 DEF BlocksStep
<1>. QED BY <1>6, <1>7

(* Every block is aligned and complete, whatever the series.               *)
LEMMA BlocksComplete ==
  ASSUME NEW n \in Nat, NEW series, DOMAIN series \subseteq 0 .. n,
         series = Empty \/ DOMAIN series # {},
         NEW tf \in Nat \ {0}, NEW start \in Blocks(tf, series)
  PROVE  /\ start \in DOMAIN series /\ Aligned(tf, start)
         /\ start .. start + tf - 1 \subseteq DOMAIN series
<1>. DEFINE times == DOMAIN series
            first == Min(times)
            last  == Latest(series)
            Whole(t) == t \in times /\ Aligned(tf, t) /\ t .. t + tf - 1 \subseteq times
<1>1. series # Empty /\ Blocks(tf, series) = BlocksFrom(tf, times, first, last)
  BY DEF Blocks
<1>2. /\ first \in Nat /\ last \in Nat /\ first <= last
      /\ times \in SUBSET (first .. last)
  <2>1. times # {} /\ times \in SUBSET Nat
    BY <1>1
  <2>2. first \in times /\ \A t \in times : first <= t
    BY <2>1, MinOfNaturals
  <2>3. last \in times /\ \A t \in times : t <= last
    BY <2>1, LatestIsLast
  <2>. HIDE DEF first, last
  <2>. QED BY <2>1, <2>2, <2>3
<1>. HIDE DEF first, last, times
<1>3. PICK f : /\ \A t \in first .. last + 1 : f[t] = BlocksStep(f, tf, times, t, last)
               /\ BlocksFrom(tf, times, first, last) = f[first]
  BY <1>2, BlocksLoop
<1>. DEFINE Good == {t \in first .. last + 1 : \A x \in f[t] : Whole(x)}
<1>4. PICK end \in Nat : end = last + 1
  BY <1>2
<1>5. ASSUME NEW t \in first .. end, \A u \in t + 1 .. end : u \in Good
      PROVE  t \in Good
  <2>1. f[t] = BlocksStep(f, tf, times, t, last)
    BY <1>3, <1>4
  <2>2. \A u \in t + 1 .. end : \A x \in f[u] : Whole(x)
    BY <1>5
  <2>3. ASSUME t <= last, t \in times, Aligned(tf, t), t .. t + tf - 1 \subseteq times
        PROVE  t + tf \in t + 1 .. end
    <3>1. t + tf - 1 \in t .. t + tf - 1
      BY <1>2
    <3>2. t + tf - 1 \in first .. last
      BY <3>1, <2>3, <1>2
    <3>. QED BY <3>2, <1>2, <1>4
  <2>4. t <= last => GroupEnd(tf, times, t, last) \in t + 1 .. end
    BY <1>2, <1>4, GroupEndAhead
  <2>5. t <= last => t + 1 \in t + 1 .. end
    BY <1>2, <1>4
  <2>6. ASSUME NEW x \in f[t] PROVE Whole(x)
    <3>1. t <= last
      BY <2>1, <2>6, <1>2 DEF BlocksStep
    <3>2. CASE t \notin times \/ ~Aligned(tf, t)
      BY <2>1, <2>2, <2>5, <2>6, <3>1, <3>2 DEF BlocksStep
    <3>3. CASE t \in times /\ Aligned(tf, t) /\ t .. t + tf - 1 \subseteq times
      <4>1. x = t \/ x \in f[t + tf]
        BY <2>1, <2>6, <3>1, <3>3 DEF BlocksStep
      <4>. QED BY <4>1, <2>2, <2>3, <3>1, <3>3
    <3>4. CASE t \in times /\ Aligned(tf, t) /\ ~(t .. t + tf - 1 \subseteq times)
      BY <2>1, <2>2, <2>4, <2>6, <3>1, <3>4 DEF BlocksStep
    <3>. QED BY <3>2, <3>3, <3>4
  <2>7. t \in first .. last + 1
    BY <1>4
  <2>. QED BY <2>6, <2>7
<1>6. start \in f[first]
  BY <1>1, <1>3
<1>7. first \in Good
  <2>. HIDE DEF Good
  <2>1. \A t \in first .. end : t \in Good
    BY <1>2, <1>5, DownwardInduction
  <2>. QED BY <2>1, <1>2, <1>4
<1>. QED BY <1>6, <1>7 DEF times

(* Aligned minutes are at least tf apart. *)
LEMMA AlignedApart ==
  ASSUME NEW tf \in Nat \ {0}, NEW t \in Nat, NEW u \in Nat,
         Aligned(tf, t), Aligned(tf, u), t < u
  PROVE  t + tf <= u
<1>1. PICK a \in Nat : t = tf * a
  <2>1. t = tf * (t \div tf) + (t % tf) /\ t \div tf \in Nat
    OBVIOUS
  <2>2. t % tf = 0
    BY DEF Aligned
  <2>3. t = tf * (t \div tf)
    BY <2>1, <2>2
  <2>. QED BY <2>1, <2>3
<1>2. PICK b \in Nat : u = tf * b
  <2>1. u = tf * (u \div tf) + (u % tf) /\ u \div tf \in Nat
    OBVIOUS
  <2>2. u % tf = 0
    BY DEF Aligned
  <2>3. u = tf * (u \div tf)
    BY <2>1, <2>2
  <2>. QED BY <2>1, <2>3
<1>3. a < b
  <2>1. SUFFICES ASSUME b <= a PROVE FALSE
    OBVIOUS
  <2>2. tf * b <= tf * a
    BY <2>1
  <2>. QED BY <1>1, <1>2, <2>2
<1>4. tf * (a + 1) <= tf * b
  <2>1. a + 1 <= b
    BY <1>3
  <2>. QED BY <2>1
<1>5. tf * (a + 1) = tf * a + tf
  OBVIOUS
<1>6. tf * a \in Nat /\ tf * b \in Nat /\ tf * (a + 1) \in Nat
  OBVIOUS
<1>. QED BY <1>1, <1>2, <1>4, <1>5, <1>6

(* And of a record without a gap, every aligned complete block is one.     *)
LEMMA BlocksOfRecord ==
  ASSUME NEW first \in Nat, NEW n \in Nat, NEW series, DOMAIN series = first .. n,
         NEW tf \in Nat \ {0}, NEW start \in first .. n, Aligned(tf, start),
         start + tf - 1 <= n
  PROVE  start \in Blocks(tf, series)
<1>. DEFINE times == first .. n
<1>1. Min(times) = first /\ Latest(series) = n /\ series # Empty
  <2>1. times \in SUBSET Nat /\ times # {} /\ first \in times /\ n \in times
    OBVIOUS
  <2>2. Min(times) \in times /\ Min(times) <= first
    BY <2>1, MinOfNaturals
  <2>3. times \subseteq 0 .. n
    OBVIOUS
  <2>4. Latest(series) \in times /\ n <= Latest(series)
    BY <2>1, <2>3, LatestIsLast
  <2>5. series # Empty
    BY <2>1 DEF Empty
  <2>. QED BY <2>2, <2>4, <2>5
<1>2. Blocks(tf, series) = BlocksFrom(tf, times, first, n)
  BY <1>1 DEF Blocks
<1>3. PICK f : /\ \A t \in first .. n + 1 : f[t] = BlocksStep(f, tf, times, t, n)
               /\ BlocksFrom(tf, times, first, n) = f[first]
  <2>1. first <= n /\ times \in SUBSET (first .. n)
    OBVIOUS
  <2>. QED BY <2>1, BlocksLoop
<1>. DEFINE Good == {t \in first .. n + 1 :
                       \A x \in t .. n : Aligned(tf, x) /\ x + tf - 1 <= n => x \in f[t]}
<1>4. PICK end \in Nat : end = n + 1
  OBVIOUS
<1>5. ASSUME NEW t \in first .. end, \A u \in t + 1 .. end : u \in Good
      PROVE  t \in Good
  <2>. SUFFICES ASSUME NEW x \in t .. n, Aligned(tf, x), x + tf - 1 <= n
                PROVE  x \in f[t]
    BY <1>4
  <2>1. f[t] = BlocksStep(f, tf, times, t, n) /\ t <= n /\ t \in times
    BY <1>3, <1>4
  <2>2. CASE ~Aligned(tf, t)
    <3>1. x \in t + 1 .. n /\ t + 1 \in t + 1 .. end
      BY <1>4, <2>2
    <3>2. x \in f[t + 1]
      BY <1>5, <3>1
    <3>. QED BY <2>1, <2>2, <3>2 DEF BlocksStep
  <2>3. CASE Aligned(tf, t)
    <3>1. t .. t + tf - 1 \subseteq times
      OBVIOUS
    <3>2. f[t] = {t} \union f[t + tf]
      BY <2>1, <2>3, <3>1 DEF BlocksStep
    <3>3. ASSUME x # t PROVE x \in f[t + tf]
      <4>1. t + tf <= x
        BY <2>3, <3>3, AlignedApart
      <4>2. t + tf \in t + 1 .. end /\ x \in t + tf .. n
        BY <1>4, <4>1
      <4>. QED BY <1>5, <4>2
    <3>. QED BY <3>2, <3>3
  <2>. QED BY <2>2, <2>3
<1>6. first \in Good
  <2>. HIDE DEF Good
  <2>1. \A t \in first .. end : t \in Good
    BY <1>5, DownwardInduction
  <2>2. first \in first .. end
    BY <1>4
  <2>. QED BY <2>1, <2>2
<1>. QED BY <1>2, <1>3, <1>6

-----------------------------------------------------------------------------
(* The funnel and the attempt tracer. *)

(* What the radar relies on: the tracer's ENTRY_READY is the funnel's      *)
(* trade, its close-through the funnel's, and its expiry is one.           *)
Agree(funnel, trace) ==
  /\ (trace.stage = "ENTRY_READY") <=> (funnel.result = "direct_entry")
  /\ funnel.result = "direct_entry" =>
       trace.entry = funnel.entry /\ trace.target = funnel.target
  /\ (trace.reason = "CLOSE_THROUGH_12M_FVG")
        <=> (funnel.result = "closed_through_before_entry")
  /\ trace.reason = "RETRACE_WINDOW_EXPIRED" => funnel.result = "retrace_expired"

(* _build_strategy_funnel and _attempt_traces_for_direction decide every   *)
(* valid expansion of any scan alike: where the window is complete and     *)
(* entered, the retrace itself is a tap, so both look at the same first.   *)
LEMMA TracerAgrees ==
  ASSUME NEW v, DOMAIN v.m \in SUBSET Nat, v.p.direct,
         NEW kind \in Kinds, NEW s \in ValidExpansions(v, kind)
  PROVE  Agree(FunnelOutcome(v, s), Trace(v, s))
<1>. DEFINE main    == MainGap(v, s)
            gaps    == RetraceGaps(v, s, main)
            gap     == First(gaps)
            window  == Retracement(v, main)
            retrace == FirstRetrace(v, gap, main, window)
            taps    == {t \in DOMAIN v.m : t >= retrace /\ Touches(gap, v.m[t])}
            goal    == FinalTarget(v, s.kind, main, window)
            funnel  == FunnelOutcome(v, s)
            trace   == Trace(v, s)
<1>1. s.kind = kind /\ s \in ValidExpansions(v, s.kind)
  BY DEF ValidExpansions
<1>2. ASSUME retrace # NoMinute
      PROVE  taps # {} /\ Min(taps) \in Nat
  <2>. DEFINE entered == {t \in DOMAIN v.m : /\ t >= main.confirmed
                                             /\ t + 1 <= Max(window) + WindowTf
                                             /\ Touches(gap, v.m[t])}
  <2>1. entered # {} /\ retrace = Min(entered)
    BY <1>2 DEF FirstRetrace
  <2>2. entered \in SUBSET Nat
    OBVIOUS
  <2>. HIDE DEF retrace
  <2>3. retrace \in entered
    BY <2>1, <2>2, MinOfNaturals
  <2>4. retrace \in taps
    BY <2>3
  <2>5. taps \in SUBSET Nat /\ taps # {}
    BY <2>4
  <2>. QED BY <2>5, MinOfNaturals
<1>. HIDE DEF taps
<1>3. funnel = IF main = NoGap THEN Rejected("no_fvg16")
               ELSE IF gaps = {} THEN Rejected("no_12m")
               ELSE IF InternalGaps(v, s, main) = {} THEN Rejected("no_8m")
               ELSE IF ~WindowComplete(window) \/ retrace = NoMinute
                    THEN Rejected("retrace_expired")
               ELSE IF DirectEntry(v, s, gap, retrace) = NoMinute
                    THEN Outcome("closed_through_before_entry", gap, NoMinute, goal)
               ELSE Outcome("direct_entry", gap, DirectEntry(v, s, gap, retrace), goal)
  BY DEF FunnelOutcome
<1>4. DirectEntry(v, s, gap, retrace) =
        IF taps = {} \/ ClosesThrough(s.kind, gap, v.m[Min(taps)]) THEN NoMinute
        ELSE Min(taps)
  BY DEF DirectEntry, taps
<1>5. trace = IF main = NoGap
              THEN IF MainLookupOpen(v, s) THEN Pending("EXPANSION_16M_CONFIRMED")
                   ELSE Invalidated("EXPANSION_16M_CONFIRMED", "FVG_16M_NOT_FOUND")
              ELSE TraceGaps(v, s, main)
  BY <1>1 DEF Trace
<1>6. TraceGaps(v, s, main) =
        IF gaps = {}
        THEN IF RetraceLookupOpen(v, main) THEN Pending("FVG_16M_CONFIRMED")
             ELSE Invalidated("FVG_16M_CONFIRMED", "FVG_12M_NOT_FOUND")
        ELSE IF InternalGaps(v, s, main) = {}
        THEN IF InternalLookupOpen(v, main) THEN Pending("FVG_12M_CONFIRMED")
             ELSE Invalidated("FVG_12M_CONFIRMED", "FVG_8M_NOT_FOUND")
        ELSE TraceRetrace(v, s, main, gap)
  BY DEF TraceGaps
<1>7. TraceRetrace(v, s, main, gap) =
        IF ~WindowComplete(window) THEN Pending("FVG_8M_CONFIRMED")
        ELSE IF retrace = NoMinute
             THEN Invalidated("FVG_8M_CONFIRMED", "RETRACE_WINDOW_EXPIRED")
        ELSE IF ClosesThrough(s.kind, gap, v.m[Min(taps)])
             THEN Invalidated("FVG_8M_CONFIRMED", "CLOSE_THROUGH_12M_FVG")
        ELSE EntryReady(s, Min(taps), goal)
  BY DEF TraceRetrace, taps
<1>. HIDE DEF main, gaps, gap, window, retrace, goal, funnel, trace
<1>8. \A result : Rejected(result).result = result
  BY DEF Rejected, Outcome
<1>9. \A result, g, entry, target :
        LET o == Outcome(result, g, entry, target)
        IN  o.result = result /\ o.entry = entry /\ o.target = target
  BY DEF Outcome
<1>10. \A stage, reason :
         /\ Pending(stage).stage = stage /\ Pending(stage).reason = "NONE"
         /\ Invalidated(stage, reason).stage = stage
         /\ Invalidated(stage, reason).reason = reason
  BY DEF Pending, Invalidated, Verdict
<1>11. LET ready == EntryReady(s, Min(taps), goal)
       IN  /\ ready.stage = "ENTRY_READY" /\ ready.reason = "NONE"
           /\ ready.entry = Min(taps) /\ ready.target = goal
  BY DEF EntryReady
<1>12. ASSUME main = NoGap \/ gaps = {} \/ InternalGaps(v, s, main) = {}
              \/ ~WindowComplete(window) \/ retrace = NoMinute
       PROVE  Agree(funnel, trace)
  <2>1. /\ funnel.result \in {"no_fvg16", "no_12m", "no_8m", "retrace_expired"}
        /\ trace.reason = "RETRACE_WINDOW_EXPIRED" => funnel.result = "retrace_expired"
    BY <1>3, <1>5, <1>6, <1>7, <1>8, <1>10, <1>12
  <2>2. trace.stage # "ENTRY_READY" /\ trace.reason # "CLOSE_THROUGH_12M_FVG"
    BY <1>3, <1>5, <1>6, <1>7, <1>8, <1>10, <1>12
  <2>. QED BY <2>1, <2>2 DEF Agree
<1>13. ASSUME /\ main # NoGap /\ gaps # {} /\ InternalGaps(v, s, main) # {}
              /\ WindowComplete(window) /\ retrace # NoMinute
       PROVE  Agree(funnel, trace)
  <2>1. taps # {} /\ Min(taps) # NoMinute
    BY <1>2, <1>13 DEF NoMinute
  <2>2. /\ trace = TraceRetrace(v, s, main, gap)
        /\ funnel = IF DirectEntry(v, s, gap, retrace) = NoMinute
                    THEN Outcome("closed_through_before_entry", gap, NoMinute, goal)
                    ELSE Outcome("direct_entry", gap, DirectEntry(v, s, gap, retrace), goal)
    BY <1>3, <1>5, <1>6, <1>13
  <2>3. CASE ClosesThrough(s.kind, gap, v.m[Min(taps)])
    <3>1. /\ funnel = Outcome("closed_through_before_entry", gap, NoMinute, goal)
          /\ trace = Invalidated("FVG_8M_CONFIRMED", "CLOSE_THROUGH_12M_FVG")
      BY <1>4, <1>7, <1>13, <2>2, <2>3
    <3>2. /\ funnel.result = "closed_through_before_entry"
          /\ trace.stage = "FVG_8M_CONFIRMED" /\ trace.reason = "CLOSE_THROUGH_12M_FVG"
      BY <1>9, <1>10, <3>1
    <3>. QED BY <3>2 DEF Agree
  <2>4. CASE ~ClosesThrough(s.kind, gap, v.m[Min(taps)])
    <3>1. /\ funnel = Outcome("direct_entry", gap, Min(taps), goal)
          /\ trace = EntryReady(s, Min(taps), goal)
      BY <1>4, <1>7, <1>13, <2>1, <2>2, <2>4
    <3>2. /\ funnel.result = "direct_entry" /\ funnel.entry = Min(taps)
          /\ funnel.target = goal
      BY <1>9, <3>1
    <3>. QED BY <1>11, <3>1, <3>2 DEF Agree
  <2>. QED BY <2>3, <2>4
<1>. QED BY <1>12, <1>13 DEF funnel, trace

-----------------------------------------------------------------------------
(* What the engines find in a series is finite. *)

(* Two sets without a common element hold what both hold together.         *)
LEMMA DisjointSum ==
  ASSUME NEW S, NEW T, IsFiniteSet(S), IsFiniteSet(T), S \intersect T = {}
  PROVE  /\ IsFiniteSet(S \union T)
         /\ Cardinality(S \union T) = Cardinality(S) + Cardinality(T)
<1>1. Cardinality(S) \in Nat /\ Cardinality(T) \in Nat /\ Cardinality({}) = 0
  BY FS_CardinalityType, FS_EmptySet
<1>2. /\ IsFiniteSet(S \union T)
      /\ Cardinality(S \union T)
           = Cardinality(S) + Cardinality(T) - Cardinality(S \intersect T)
  BY FS_Union
<1>3. Cardinality(S \intersect T) = 0
  BY <1>1
<1>. QED BY <1>1, <1>2, <1>3

(* A derived series is no later than the record it is derived from. *)
LEMMA ProfileWithin ==
  ASSUME NEW n \in Nat, NEW series, DOMAIN series \subseteq 0 .. n,
         series = Empty \/ DOMAIN series # {}, NEW tf \in Nat \ {0}
  PROVE  DOMAIN Profile(tf, series) \subseteq DOMAIN series
<1>1. \A t \in Blocks(tf, series) : t \in DOMAIN series
  BY BlocksComplete
<1>. QED BY <1>1 DEF Profile

(* The values of a function over a finite set are finite, and as many when *)
(* no two are equal.                                                       *)
LEMMA ValuesFinite ==
  ASSUME NEW S, IsFiniteSet(S), NEW f, DOMAIN f = S
  PROVE  /\ IsFiniteSet({f[x] : x \in S})
         /\ (\A x, y \in S : f[x] = f[y] => x = y)
               => Cardinality({f[x] : x \in S}) = Cardinality(S)
<1>. DEFINE T == {f[x] : x \in S}
            g == [x \in S |-> f[x]]
<1>1. g \in Surjection(S, T)
  BY DEF Surjection
<1>2. ASSUME \A x, y \in S : f[x] = f[y] => x = y PROVE g \in Injection(S, T)
  <2>1. g \in [S -> T]
    OBVIOUS
  <2>2. \A x, y \in S : g[x] = g[y] => x = y
    BY <1>2
  <2>. HIDE DEF g, T
  <2>. QED BY <2>1, <2>2 DEF Injection, IsInjective
<1>. HIDE DEF g, T
<1>3. IsFiniteSet(T) /\ (Cardinality(T) = Cardinality(S) <=> g \in Injection(S, T))
  BY <1>1, FS_Surjection
<1>. QED BY <1>2, <1>3 DEF T

LEMMA SwingsFinite ==
  ASSUME NEW n \in Nat, NEW series, DOMAIN series \subseteq 0 .. n, NEW tf
  PROVE  IsFiniteSet(Swings(tf, series))
<1>. DEFINE highs == {u \in Middles(tf, series) : IsSwingHigh(Window(tf, series, u))}
            lows  == {u \in Middles(tf, series) : IsSwingLow(Window(tf, series, u))}
            high  == [t \in highs |-> SwingHigh(tf, series, t)]
            low   == [t \in lows |-> SwingLow(tf, series, t)]
<1>1. IsFiniteSet(highs) /\ IsFiniteSet(lows)
  <2>1. IsFiniteSet(0 .. n)
    BY FS_Interval
  <2>2. highs \in SUBSET (0 .. n) /\ lows \in SUBSET (0 .. n)
    BY DEF Middles
  <2>. QED BY <2>1, <2>2, FS_Subset
<1>2. /\ SwingHighs(tf, series) = {high[t] : t \in highs}
      /\ SwingLows(tf, series) = {low[t] : t \in lows}
  BY DEF SwingHighs, SwingLows
<1>3. DOMAIN high = highs /\ DOMAIN low = lows
  OBVIOUS
<1>. HIDE DEF highs, lows, high, low
<1>4. IsFiniteSet(SwingHighs(tf, series)) /\ IsFiniteSet(SwingLows(tf, series))
  BY <1>1, <1>2, <1>3, ValuesFinite
<1>. QED BY <1>4, FS_Union DEF Swings

(* The first of gaps at natural minutes is one of them. *)
LEMMA FirstIsOne ==
  ASSUME NEW S, S # {}, \A x \in S : x.t \in Nat PROVE First(S) \in S
<1>. DEFINE times == {x.t : x \in S}
<1>1. times \in SUBSET Nat /\ times # {}
  OBVIOUS
<1>2. Min(times) \in times /\ \A t \in times : Min(times) <= t
  BY <1>1, MinOfNaturals
<1>3. PICK x \in S : x.t = Min(times)
  BY <1>2
<1>4. \A y \in S : x.t <= y.t
  BY <1>2, <1>3
<1>. QED BY <1>4 DEF First

(* Later gaps leave the first one as it is. *)
LEMMA FirstStays ==
  ASSUME NEW T, \A x \in T : x.t \in Nat, NEW S \in SUBSET T, S # {},
         \A x \in S, y \in T \ S : x.t < y.t
  PROVE  First(T) = First(S)
<1>. DEFINE least(set) == {x \in set : \A y \in set : x.t <= y.t}
<1>1. \A x : x \in least(S) <=> x \in least(T)
  <2>1. ASSUME NEW x \in least(S) PROVE x \in least(T)
    <3>1. x \in T /\ \A y \in S : x.t <= y.t
      OBVIOUS
    <3>2. \A y \in T \ S : x.t <= y.t
      OBVIOUS
    <3>. QED BY <3>1, <3>2
  <2>2. ASSUME NEW x \in least(T) PROVE x \in least(S)
    <3>1. PICK y \in S : TRUE
      OBVIOUS
    <3>2. x.t <= y.t /\ x \in T
      OBVIOUS
    <3>3. x \in S
      BY <3>1, <3>2
    <3>. QED BY <3>3
  <2>. QED BY <2>1, <2>2
<1>2. least(S) = least(T)
  BY <1>1
<1>3. First(S) = CHOOSE x : x \in least(S)
  BY DEF First
<1>4. First(T) = CHOOSE x : x \in least(T)
  BY DEF First
<1>. QED BY <1>2, <1>3, <1>4

LEMMA GapsAtMinutes ==
  ASSUME NEW series, DOMAIN series \in SUBSET Nat, NEW tf, NEW expansions,
         NEW gap \in Gaps(tf, series, expansions)
  PROVE  gap.t \in Nat
<1>1. PICK t \in Middles(tf, series) : gap \in {BearishGap(tf, series, t, expansions),
                                             BullishGap(tf, series, t, expansions)}
  BY DEF Gaps
<1>2. gap.t = t
  BY <1>1 DEF BearishGap, BullishGap
<1>. QED BY <1>2 DEF Middles

-----------------------------------------------------------------------------
(* The accounts of the funnel. *)

(* What the funnels of a record look at. *)
Countable(v) == IsFiniteSet(v.expansions) /\ \A g \in v.retrace : g.t \in Nat

(* A profile that enters on the retrace names the retrace gap of a swing   *)
(* just when it enters there or the entry's candle closes through.         *)
LEMMA PassedIsDecided ==
  ASSUME NEW v, v.p.direct, Countable(v), NEW s
  PROVE  (FunnelOutcome(v, s).gap # NoRetraceGap)
           <=> FunnelOutcome(v, s).result \in {"closed_through_before_entry", "direct_entry"}
<1>. DEFINE main    == MainGap(v, s)
            gaps    == RetraceGaps(v, s, main)
            gap     == First(gaps)
            window  == Retracement(v, main)
            retrace == FirstRetrace(v, gap, main, window)
            goal    == FinalTarget(v, s.kind, main, window)
            entry   == DirectEntry(v, s, gap, retrace)
            funnel  == FunnelOutcome(v, s)
<1>1. ASSUME gaps # {} PROVE gap # NoRetraceGap
  <2>1. gap \in gaps
    BY <1>1, FirstIsOne DEF Countable, RetraceGaps
  <2>2. gap.dir \in Directions
    BY <2>1 DEF RetraceGaps, InsideLeg, InsideBearishLeg, InsideBullishLeg, Directions
  <2>. QED BY <2>2 DEF NoRetraceGap, Directions
<1>2. \/ /\ gaps # {}
         /\ \/ funnel = Outcome("closed_through_before_entry", gap, NoMinute, goal)
            \/ funnel = Outcome("direct_entry", gap, entry, goal)
      \/ \E r \in {"no_fvg16", "no_12m", "no_8m", "retrace_expired"} : funnel = Rejected(r)
  BY DEF FunnelOutcome
<1>. HIDE DEF main, gaps, gap, window, retrace, goal, entry, funnel
<1>3. \A result, g, e, target : /\ Outcome(result, g, e, target).result = result
                                /\ Outcome(result, g, e, target).gap = g
  BY DEF Outcome
<1>4. \A r : Rejected(r).result = r /\ Rejected(r).gap = NoRetraceGap
  BY <1>3 DEF Rejected
<1>. QED BY <1>1, <1>2, <1>3, <1>4 DEF funnel

(* A simulated trade keeps its swing and has one of four results. *)
LEMMA SimulatedTrade ==
  ASSUME NEW v, NEW s, NEW outcome
  PROVE  LET trade == Simulate(v, s, outcome)
         IN  trade.swing = s /\ trade.result \in {"RISK_REJECTED", "OPEN", "LOSS", "WIN"}
<1>1. \A stop, target, result, exit :
        /\ Trade(s, outcome, stop, target, result, exit).swing = s
        /\ Trade(s, outcome, stop, target, result, exit).result = result
  BY DEF Trade
<1>2. \A target : /\ Decide(v, s, outcome, target).swing = s
                  /\ Decide(v, s, outcome, target).result \in {"OPEN", "LOSS", "WIN"}
  BY <1>1 DEF Decide
<1>3. /\ SimulateBearish(v, s, outcome).swing = s
      /\ SimulateBearish(v, s, outcome).result \in {"RISK_REJECTED", "OPEN", "LOSS", "WIN"}
  BY <1>1, <1>2 DEF SimulateBearish
<1>4. /\ SimulateBullish(v, s, outcome).swing = s
      /\ SimulateBullish(v, s, outcome).result \in {"RISK_REJECTED", "OPEN", "LOSS", "WIN"}
  BY <1>1, <1>2 DEF SimulateBullish
<1>. QED BY <1>3, <1>4 DEF Simulate

(* One direction: every swing that passed the retrace is counted once, and *)
(* every signal is a listed trade or a rejected risk.                      *)
LEMMA DirectionAccounted ==
  ASSUME NEW v, v.p.direct, Countable(v), NEW kind
  PROVE  /\ Unaccounted(Funnel(v, kind)) = 0
         /\ IsFiniteSet(TradeList(v, kind))
         /\ Funnel(v, kind).signals - Funnel(v, kind).riskRejected
              = Cardinality(TradeList(v, kind))
<1>. DEFINE outcomes == Outcomes(v, kind)
            swings   == ValidExpansions(v, kind)
            passed   == {s \in swings : outcomes[s].gap # NoRetraceGap}
            closed   == {s \in swings : outcomes[s].result = "closed_through_before_entry"}
            entered  == {s \in swings : outcomes[s].result = "direct_entry"}
            trades   == Simulated(v, kind)
            rejected == {t \in trades : t.result = "RISK_REJECTED"}
            trade    == [s \in entered |-> Simulate(v, s, outcomes[s])]
<1>1. DOMAIN outcomes = swings /\ \A s \in swings : outcomes[s] = FunnelOutcome(v, s)
  BY DEF Outcomes
<1>. HIDE DEF outcomes
<1>2. IsFiniteSet(swings)
  <2>1. swings \in SUBSET v.expansions
    BY DEF ValidExpansions
  <2>. HIDE DEF swings
  <2>. QED BY <2>1, FS_Subset DEF Countable
<1>. HIDE DEF swings
<1>3. passed = closed \union entered /\ closed \intersect entered = {}
  BY <1>1, PassedIsDecided
<1>4. IsFiniteSet(closed) /\ IsFiniteSet(entered)
  <2>1. closed \in SUBSET swings /\ entered \in SUBSET swings
    OBVIOUS
  <2>. HIDE DEF closed, entered
  <2>. QED BY <1>2, <2>1, FS_Subset
<1>5. trades = {trade[s] : s \in entered}
  BY <1>1 DEF Simulated, Entries, outcomes
<1>6. \A x, y \in entered : trade[x] = trade[y] => x = y
  BY SimulatedTrade
<1>7. DOMAIN trade = entered
  OBVIOUS
<1>8. /\ Funnel(v, kind).passedRetrace = Cardinality(passed)
      /\ Funnel(v, kind).beforeEntry = Cardinality(closed)
      /\ Funnel(v, kind).signals = Cardinality(entered)
      /\ Funnel(v, kind).riskRejected = Cardinality(rejected)
  BY <1>1 DEF Funnel, FunnelCounters, outcomes
<1>9. TradeList(v, kind) = trades \ rejected
  BY DEF TradeList
<1>10. rejected \in SUBSET trades
  OBVIOUS
<1>. HIDE DEF passed, closed, entered, trades, rejected, trade
<1>11. IsFiniteSet(trades) /\ Cardinality(trades) = Cardinality(entered)
  BY <1>4, <1>5, <1>6, <1>7, ValuesFinite
<1>12. /\ IsFiniteSet(trades \ rejected)
       /\ Cardinality(trades \ rejected) = Cardinality(trades) - Cardinality(rejected)
  <2>1. trades \intersect rejected = rejected
    BY <1>10
  <2>. QED BY <1>11, <2>1, FS_Difference
<1>13. Cardinality(passed) = Cardinality(closed) + Cardinality(entered)
  BY <1>3, <1>4, DisjointSum
<1>14. Cardinality(closed) \in Nat /\ Cardinality(entered) \in Nat
  BY <1>4, FS_CardinalityType
<1>. QED BY <1>8, <1>9, <1>11, <1>12, <1>13, <1>14 DEF Unaccounted

(* Both directions: _performance_summary counts every listed trade once.   *)
LEMMA TradesAccounted ==
  ASSUME NEW v, v.p.direct, Countable(v)
  PROVE  LET all == Performance(CombinedTrades(v))
         IN  /\ all.total = Cardinality(TradeList(v, "HIGH")) + Cardinality(TradeList(v, "LOW"))
             /\ all.total = all.wins + all.losses + all.unresolved
<1>. DEFINE high   == TradeList(v, "HIGH")
            low    == TradeList(v, "LOW")
            trades == high \union low
            of(r)  == {t \in trades : t.result = r}
<1>1. IsFiniteSet(high) /\ IsFiniteSet(low)
  BY DirectionAccounted
<1>2. ASSUME NEW kind, NEW t \in TradeList(v, kind)
      PROVE  t.swing.kind = kind /\ t.result \in {"OPEN", "LOSS", "WIN"}
  <2>1. PICK s \in Entries(Outcomes(v, kind)) : t = Simulate(v, s, Outcomes(v, kind)[s])
    BY DEF TradeList, Simulated
  <2>2. s.kind = kind
    BY DEF Entries, Outcomes, ValidExpansions
  <2>3. t.result # "RISK_REJECTED"
    BY DEF TradeList
  <2>4. t.swing = s /\ t.result \in {"RISK_REJECTED", "OPEN", "LOSS", "WIN"}
    BY <2>1, SimulatedTrade
  <2>. QED BY <2>2, <2>3, <2>4
<1>3. high \intersect low = {}
  BY <1>2
<1>5. LET all == Performance(CombinedTrades(v))
      IN  /\ all.total = Cardinality(trades) /\ all.wins = Cardinality(of("WIN"))
          /\ all.losses = Cardinality(of("LOSS"))
          /\ all.unresolved = Cardinality(of("OPEN"))
  BY DEF Performance, CombinedTrades
<1>. DEFINE wins == of("WIN")
            losses == of("LOSS")
            open == of("OPEN")
<1>4. /\ trades = wins \union (losses \union open)
      /\ losses \intersect open = {} /\ wins \intersect (losses \union open) = {}
  BY <1>2
<1>6. wins \in SUBSET trades /\ losses \in SUBSET trades /\ open \in SUBSET trades
  OBVIOUS
<1>. HIDE DEF high, low
<1>7. IsFiniteSet(trades) /\ Cardinality(trades) = Cardinality(high) + Cardinality(low)
  BY <1>1, <1>3, DisjointSum
<1>. HIDE DEF trades, of, wins, losses, open
<1>8. IsFiniteSet(wins) /\ IsFiniteSet(losses) /\ IsFiniteSet(open)
  BY <1>6, <1>7, FS_Subset
<1>9. Cardinality(losses \union open) = Cardinality(losses) + Cardinality(open)
      /\ IsFiniteSet(losses \union open)
  BY <1>4, <1>8, DisjointSum
<1>10. Cardinality(trades) = Cardinality(wins) + Cardinality(losses \union open)
  BY <1>4, <1>8, <1>9, DisjointSum
<1>11. /\ Cardinality(wins) \in Nat /\ Cardinality(losses) \in Nat
       /\ Cardinality(open) \in Nat
  BY <1>8, FS_CardinalityType
<1>. QED BY <1>5, <1>7, <1>9, <1>10, <1>11 DEF wins, losses, open, high, low

-----------------------------------------------------------------------------
(* Two records of the market, one a part of the other. *)

(* x is the record from a to b, y that from c to d, and x is part of y.    *)
Part(x, a, b, y, c, d) ==
  /\ a \in Nat /\ b \in Nat /\ c \in Nat /\ d \in Nat
  /\ c <= a /\ a <= b /\ b <= d
  /\ DOMAIN x = a .. b /\ DOMAIN y = c .. d
  /\ \A t \in a .. b : x[t] = y[t]

(* The neighbours of an aligned minute are aligned. *)
LEMMA AlignedNext ==
  ASSUME NEW tf \in Nat \ {0}, NEW t \in Nat
  PROVE  Aligned(tf, t) <=> Aligned(tf, t + tf)
<1>. DEFINE u == t + tf
            q == t \div tf
            k == u \div tf
<1>1. /\ t = tf * q + (t % tf) /\ q \in Nat /\ (t % tf) \in 0 .. tf - 1
      /\ u = tf * k + (u % tf) /\ k \in Nat /\ (u % tf) \in 0 .. tf - 1
  OBVIOUS
<1>2. tf * (q + 1) = tf * q + tf
  OBVIOUS
<1>. DEFINE r == t % tf
            z == u % tf
<1>3. tf * (q + 1) + r = tf * k + z /\ r \in 0 .. tf - 1 /\ z \in 0 .. tf - 1
  BY <1>1, <1>2
<1>4. q + 1 \in Nat /\ k \in Nat
  BY <1>1
<1>. HIDE DEF r, z, q, k
<1>5. PICK m \in Nat : m = q + 1
  BY <1>4
<1>6. m = k
  <2>1. ASSUME m < k PROVE FALSE
    <3>1. tf * (m + 1) <= tf * k
      <4>1. m + 1 <= k
        BY <1>4, <1>5, <2>1
      <4>. QED BY <4>1, <1>4, <1>5
    <3>2. tf * (m + 1) = tf * m + tf
      BY <1>5
    <3>3. tf * m \in Nat /\ tf * k \in Nat
      BY <1>4, <1>5
    <3>. QED BY <1>3, <1>5, <3>1, <3>2, <3>3
  <2>2. ASSUME k < m PROVE FALSE
    <3>1. tf * (k + 1) <= tf * m
      <4>1. k + 1 <= m
        BY <1>4, <1>5, <2>2
      <4>. QED BY <4>1, <1>4, <1>5
    <3>2. tf * (k + 1) = tf * k + tf
      BY <1>4
    <3>3. tf * m \in Nat /\ tf * k \in Nat
      BY <1>4, <1>5
    <3>. QED BY <1>3, <1>5, <3>1, <3>2, <3>3
  <2>. QED BY <1>4, <1>5, <2>1, <2>2
<1>7. r = z
  <2>1. tf * m + r = tf * m + z /\ tf * m \in Nat
    BY <1>3, <1>5, <1>6
  <2>. QED BY <1>3, <2>1
<1>. QED BY <1>7 DEF Aligned, r, z

(* The candles of a derived series are the aligned blocks inside. *)
LEMMA ProfileOfRecord ==
  ASSUME NEW a \in Nat, NEW b \in Nat, a <= b, NEW x, DOMAIN x = a .. b,
         NEW tf \in Nat \ {0, 1}
  PROVE  /\ \A t : t \in DOMAIN Profile(tf, x)
                     <=> t \in a .. b /\ Aligned(tf, t) /\ t + tf - 1 <= b
         /\ \A t \in DOMAIN Profile(tf, x) : Profile(tf, x)[t] = Synthetic(tf, x, t)
<1>1. Profile(tf, x) = [t \in Blocks(tf, x) |-> Synthetic(tf, x, t)]
  BY DEF Profile
<1>2. DOMAIN x \subseteq 0 .. b /\ DOMAIN x # {}
  OBVIOUS
<1>3. ASSUME NEW t \in Blocks(tf, x)
      PROVE  t \in a .. b /\ Aligned(tf, t) /\ t + tf - 1 <= b
  <2>1. /\ t \in DOMAIN x /\ Aligned(tf, t)
        /\ t .. t + tf - 1 \subseteq DOMAIN x
    BY <1>2, BlocksComplete
  <2>2. t \in Nat /\ t + tf - 1 \in t .. t + tf - 1
    BY <2>1
  <2>. QED BY <2>1, <2>2
<1>4. \A t \in a .. b : Aligned(tf, t) /\ t + tf - 1 <= b => t \in Blocks(tf, x)
  BY BlocksOfRecord
<1>. QED BY <1>1, <1>3, <1>4

(* The middle of three candles has a candle before it and one behind it.   *)
LEMMA MiddlesOfRecord ==
  ASSUME NEW a \in Nat, NEW b \in Nat, a <= b, NEW x, DOMAIN x = a .. b,
         NEW tf \in Nat \ {0, 1}
  PROVE  \A t : t \in Middles(tf, Profile(tf, x))
                <=> t \in a .. b /\ Aligned(tf, t) /\ a <= t - tf /\ t + 2 * tf - 1 <= b
<1>. DEFINE times == {t \in a .. b : Aligned(tf, t) /\ t + tf - 1 <= b}
<1>1. \A t : t \in Middles(tf, Profile(tf, x))
                <=> t \in times /\ t - tf \in times /\ t + tf \in times
  BY ProfileOfRecord DEF Middles
<1>2. ASSUME NEW t \in a .. b
      PROVE  (t \in times /\ t - tf \in times /\ t + tf \in times)
               <=> (Aligned(tf, t) /\ a <= t - tf /\ t + 2 * tf - 1 <= b)
  <2>1. Aligned(tf, t) <=> Aligned(tf, t + tf)
    BY AlignedNext
  <2>2. a <= t - tf => (Aligned(tf, t - tf) <=> Aligned(tf, t))
    <3>1. SUFFICES ASSUME a <= t - tf PROVE Aligned(tf, t - tf) <=> Aligned(tf, t)
      OBVIOUS
    <3>2. t - tf \in Nat /\ (t - tf) + tf = t
      BY <3>1
    <3>. QED BY <3>2, AlignedNext
  <2>. QED BY <2>1, <2>2
<1>3. \A t \in times : t \in a .. b
  OBVIOUS
<1>. HIDE DEF times
<1>. QED BY <1>1, <1>2, <1>3

(* Of a part and the whole the derived candles, and the windows of three,  *)
(* are the same.                                                           *)
LEMMA ProfileOfPart ==
  ASSUME NEW x, NEW a, NEW b, NEW y, NEW c, NEW d, Part(x, a, b, y, c, d),
         NEW tf \in Nat \ {0, 1}
  PROVE  /\ \A t : t \in DOMAIN Profile(tf, x)
                     <=> t \in DOMAIN Profile(tf, y) /\ a <= t /\ t + tf - 1 <= b
         /\ \A t \in DOMAIN Profile(tf, x) : Profile(tf, x)[t] = Profile(tf, y)[t]
<1>1. /\ \A t : t \in DOMAIN Profile(tf, x)
                 <=> t \in a .. b /\ Aligned(tf, t) /\ t + tf - 1 <= b
      /\ \A t : t \in DOMAIN Profile(tf, y)
                 <=> t \in c .. d /\ Aligned(tf, t) /\ t + tf - 1 <= d
      /\ \A t \in DOMAIN Profile(tf, x) : Profile(tf, x)[t] = Synthetic(tf, x, t)
      /\ \A t \in DOMAIN Profile(tf, y) : Profile(tf, y)[t] = Synthetic(tf, y, t)
  <2>1. c <= d
    BY DEF Part
  <2>. QED BY <2>1, ProfileOfRecord DEF Part
<1>2. \A t : t \in DOMAIN Profile(tf, x)
              <=> t \in DOMAIN Profile(tf, y) /\ a <= t /\ t + tf - 1 <= b
  BY <1>1 DEF Part
<1>3. ASSUME NEW t \in DOMAIN Profile(tf, x) PROVE Synthetic(tf, x, t) = Synthetic(tf, y, t)
  <2>. DEFINE block == t .. t + tf - 1
  <2>1. \A u \in block : x[u] = y[u]
    <3>1. block \subseteq a .. b
      BY <1>1 DEF Part
    <3>. QED BY <3>1 DEF Part
  <2>2. t \in block /\ t + tf - 1 \in block
    BY <1>1 DEF Part
  <2>3. /\ {x[u].h : u \in block} = {y[u].h : u \in block}
        /\ {x[u].l : u \in block} = {y[u].l : u \in block}
    BY <2>1
  <2>4. x[t] = y[t] /\ x[t + tf - 1] = y[t + tf - 1]
    BY <2>1, <2>2
  <2>. QED BY <2>3, <2>4 DEF Synthetic
<1>. QED BY <1>1, <1>2, <1>3

LEMMA WindowOfPart ==
  ASSUME NEW x, NEW a, NEW b, NEW y, NEW c, NEW d, Part(x, a, b, y, c, d),
         NEW tf \in Nat \ {0, 1}
  PROVE  /\ \A t : t \in Middles(tf, Profile(tf, x))
                     <=> /\ t \in Middles(tf, Profile(tf, y))
                         /\ a <= t - tf /\ t + 2 * tf - 1 <= b
         /\ \A t \in Middles(tf, Profile(tf, x)) :
              Window(tf, Profile(tf, x), t) = Window(tf, Profile(tf, y), t)
<1>1. /\ \A t : t \in Middles(tf, Profile(tf, x))
                 <=> t \in a .. b /\ Aligned(tf, t) /\ a <= t - tf /\ t + 2 * tf - 1 <= b
      /\ \A t : t \in Middles(tf, Profile(tf, y))
                 <=> t \in c .. d /\ Aligned(tf, t) /\ c <= t - tf /\ t + 2 * tf - 1 <= d
  <2>1. c <= d
    BY DEF Part
  <2>. QED BY <2>1, MiddlesOfRecord DEF Part
<1>2. \A t : t \in Middles(tf, Profile(tf, x))
              <=> /\ t \in Middles(tf, Profile(tf, y))
                  /\ a <= t - tf /\ t + 2 * tf - 1 <= b
  BY <1>1 DEF Part
<1>3. ASSUME NEW t \in Middles(tf, Profile(tf, x))
      PROVE  Window(tf, Profile(tf, x), t) = Window(tf, Profile(tf, y), t)
  <2>1. {t - tf, t, t + tf} \subseteq DOMAIN Profile(tf, x)
    BY DEF Middles
  <2>2. \A u \in DOMAIN Profile(tf, x) : Profile(tf, x)[u] = Profile(tf, y)[u]
    BY ProfileOfPart
  <2>. QED BY <2>1, <2>2 DEF Window
<1>. QED BY <1>2, <1>3

(* So the part has just those swings and gaps of the whole whose three     *)
(* candles are inside.                                                     *)
LEMMA SwingsOfPart ==
  ASSUME NEW x, NEW a, NEW b, NEW y, NEW c, NEW d, Part(x, a, b, y, c, d),
         NEW tf \in Nat \ {0, 1}
  PROVE  /\ \A s : s \in Swings(tf, Profile(tf, x))
                     <=> /\ s \in Swings(tf, Profile(tf, y))
                         /\ a <= s.t - tf /\ s.t + 2 * tf - 1 <= b
         /\ \A s \in Swings(tf, Profile(tf, y)) :
              /\ s.t \in Middles(tf, Profile(tf, y)) /\ s.tf = tf
              /\ s.t \in Nat /\ c <= s.t - tf /\ s.t + 2 * tf - 1 <= d
<1>. DEFINE X == Profile(tf, x)
            Y == Profile(tf, y)
            inside(t) == a <= t - tf /\ t + 2 * tf - 1 <= b
<1>1. /\ \A t : t \in Middles(tf, X) <=> t \in Middles(tf, Y) /\ inside(t)
      /\ \A t \in Middles(tf, X) : Window(tf, X, t) = Window(tf, Y, t)
  BY WindowOfPart
<1>2. \A t \in Middles(tf, Y) : t \in Nat /\ c <= t - tf /\ t + 2 * tf - 1 <= d
  <2>1. c <= d
    BY DEF Part
  <2>. QED BY <2>1, MiddlesOfRecord DEF Part
<1>3. \A t \in Middles(tf, X) : X[t] = Y[t]
  BY ProfileOfPart DEF Middles
<1>. HIDE DEF X, Y
<1>4. \A t \in Middles(tf, X) : /\ SwingHigh(tf, X, t) = SwingHigh(tf, Y, t)
                                /\ SwingLow(tf, X, t) = SwingLow(tf, Y, t)
  BY <1>1, <1>3 DEF SwingHigh, SwingLow
<1>5. \A t : SwingHigh(tf, Y, t).t = t /\ SwingLow(tf, Y, t).t = t
             /\ SwingHigh(tf, Y, t).tf = tf /\ SwingLow(tf, Y, t).tf = tf
  BY DEF SwingHigh, SwingLow
<1>. HIDE DEF inside
<1>6. \A s : s \in SwingHighs(tf, X) <=> s \in SwingHighs(tf, Y) /\ inside(s.t)
  BY <1>1, <1>4, <1>5 DEF SwingHighs
<1>7. \A s : s \in SwingLows(tf, X) <=> s \in SwingLows(tf, Y) /\ inside(s.t)
  BY <1>1, <1>4, <1>5 DEF SwingLows
<1>8. \A s \in Swings(tf, Y) : s.t \in Middles(tf, Y) /\ s.tf = tf
  BY <1>5 DEF Swings, SwingHighs, SwingLows
<1>9. \A s : s \in Swings(tf, X) <=> s \in Swings(tf, Y) /\ inside(s.t)
  BY <1>6, <1>7 DEF Swings
<1>. QED BY <1>2, <1>8, <1>9 DEF X, Y, inside

(* A gap also carries its expansion, so that has to be the same.           *)
LEMMA GapOfPart ==
  ASSUME NEW x, NEW a, NEW b, NEW y, NEW c, NEW d, Part(x, a, b, y, c, d),
         NEW tf \in Nat \ {0, 1}, NEW ex, NEW ey, NEW gap,
         RelatedExpansion(gap.t, ex) = RelatedExpansion(gap.t, ey)
  PROVE  gap \in Gaps(tf, Profile(tf, x), ex)
           <=> /\ gap \in Gaps(tf, Profile(tf, y), ey)
               /\ a <= gap.t - tf /\ gap.t + 2 * tf - 1 <= b
<1>. DEFINE X == Profile(tf, x)
            Y == Profile(tf, y)
            inside(t) == a <= t - tf /\ t + 2 * tf - 1 <= b
            open(series, t) ==
              \/ /\ Window(tf, series, t)[1].l > Window(tf, series, t)[3].h
                 /\ gap \in {BearishGap(tf, series, t, e) : e \in {ex, ey}}
              \/ /\ Window(tf, series, t)[1].h < Window(tf, series, t)[3].l
                 /\ gap \in {BullishGap(tf, series, t, e) : e \in {ex, ey}}
<1>1. /\ \A t : t \in Middles(tf, X) <=> t \in Middles(tf, Y) /\ inside(t)
      /\ \A t \in Middles(tf, X) : Window(tf, X, t) = Window(tf, Y, t)
  BY WindowOfPart
<1>2. \A series, t, e : BearishGap(tf, series, t, e).t = t /\ BullishGap(tf, series, t, e).t = t
  BY DEF BearishGap, BullishGap
<1>. HIDE DEF X, Y, inside
<1>3. \A series : BearishGap(tf, series, gap.t, ex) = BearishGap(tf, series, gap.t, ey)
                 /\ BullishGap(tf, series, gap.t, ex) = BullishGap(tf, series, gap.t, ey)
  BY DEF BearishGap, BullishGap
<1>4. \A series, e : e \in {ex, ey} =>
        (gap \in Gaps(tf, series, e)
           <=> gap.t \in Middles(tf, series) /\ open(series, gap.t))
  BY <1>2, <1>3 DEF Gaps
<1>5. gap.t \in Middles(tf, X) => (open(X, gap.t) <=> open(Y, gap.t))
  BY <1>1 DEF BearishGap, BullishGap
<1>. HIDE DEF open
<1>6. gap \in Gaps(tf, X, ex) <=> gap \in Gaps(tf, Y, ey) /\ inside(gap.t)
  BY <1>1, <1>4, <1>5
<1>. QED BY <1>6 DEF X, Y, inside

LEMMA GapIsInside ==
  ASSUME NEW a \in Nat, NEW b \in Nat, a <= b, NEW x, DOMAIN x = a .. b,
         NEW tf \in Nat \ {0, 1}, NEW expansions,
         NEW gap \in Gaps(tf, Profile(tf, x), expansions)
  PROVE  /\ gap.t \in Nat /\ a <= gap.t - tf /\ gap.t + 2 * tf - 1 <= b
         /\ gap.c3 = gap.t + tf /\ gap.confirmed = gap.t + 2 * tf
         /\ gap.dir \in Directions
         /\ gap.related = RelatedExpansion(gap.t, expansions)
<1>1. PICK t \in Middles(tf, Profile(tf, x)) :
        gap \in {BearishGap(tf, Profile(tf, x), t, expansions),
                BullishGap(tf, Profile(tf, x), t, expansions)}
  BY DEF Gaps
<1>2. /\ gap.t = t /\ gap.c3 = t + tf /\ gap.confirmed = t + 2 * tf
      /\ gap.dir \in Directions /\ gap.related = RelatedExpansion(t, expansions)
  BY <1>1 DEF BearishGap, BullishGap, Directions
<1>3. t \in Nat /\ a <= t - tf /\ t + 2 * tf - 1 <= b
  BY MiddlesOfRecord
<1>. QED BY <1>2, <1>3

-----------------------------------------------------------------------------
(* A swing in two views: what decides it. *)

(* The gaps after s that one view has are those of the other that are      *)
(* confirmed by minute b.                                                  *)
GapsFollow(older, newer, tf, b, from) ==
  /\ \A g : g.t >= from => (g \in older <=> g \in newer /\ g.t + 2 * tf - 1 <= b)
  /\ \A g \in older \union newer : g.t \in Nat /\ g.confirmed = g.t + 2 * tf

(* v and w see s, v up to minute b, w up to minute d: from the leg of s on *)
(* v has what w has by minute b.                                           *)
Follows(v, w, s, b, d) ==
  /\ w.p = v.p
  /\ b \in Nat /\ d \in Nat /\ b <= d
  /\ DOMAIN v.m \subseteq 0 .. b /\ DOMAIN w.m \subseteq 0 .. d
  /\ b \in DOMAIN v.m /\ d \in DOMAIN w.m
  /\ s.tf = SwingTf /\ LegStart(s) \in Nat /\ s.t \in Nat
  /\ \A t : t >= LegStart(s) => (t \in DOMAIN v.m <=> t \in DOMAIN w.m /\ t <= b)
  /\ \A t \in DOMAIN v.m : t >= LegStart(s) => v.m[t] = w.m[t]
  /\ DOMAIN v.windowBars \subseteq 0 .. b /\ DOMAIN w.windowBars \subseteq 0 .. d
  /\ \A t : t >= LegStart(s) =>
       (t \in DOMAIN v.windowBars <=> t \in DOMAIN w.windowBars /\ t + WindowTf - 1 <= b)
  /\ \A t \in DOMAIN v.windowBars : t >= LegStart(s) => v.windowBars[t] = w.windowBars[t]
  /\ \A t \in DOMAIN v.windowBars \union DOMAIN w.windowBars : t + WindowTf - 1 <= d
  /\ \A t : t >= LegStart(s) - MainTf =>
       (t \in DOMAIN v.mainBars <=> t \in DOMAIN w.mainBars /\ t + MainTf - 1 <= b)
  /\ \A t \in DOMAIN v.mainBars \union DOMAIN w.mainBars : t \in Nat /\ t + MainTf - 1 <= d
  /\ s \in v.expansions <=> s \in w.expansions
  /\ \A g : MatchesExpansion(v, g, s) =>
       (g \in v.main <=> g \in w.main /\ g.t + 2 * MainTf - 1 <= b)
  /\ \A g \in v.main \union w.main :
       g.t \in Nat /\ g.confirmed = g.t + 2 * MainTf /\ g.c3 = g.t + MainTf
  /\ \A g \in v.main \union w.main : g.t + 2 * MainTf - 1 <= d
  /\ GapsFollow(v.retrace, w.retrace, RetraceTf, b, LegStart(s) + 2 * MainTf - 2 * RetraceTf)
  /\ \A g \in v.retrace \union w.retrace : g.t + 2 * RetraceTf - 1 <= d
  /\ GapsFollow(v.internal, w.internal, InternalTf, b, LegStart(s))
  /\ \A g \in v.internal \union w.internal : g.t + 2 * InternalTf - 1 <= d

(* Of a profile that links its gaps only if it matches by the strict rule, *)
(* views of a record and of a part of it are such views of every swing of  *)
(* the part, when both begin alike or the part has the leg and the main    *)
(* candle before it.                                                       *)
LEMMA PartFollows ==
  ASSUME NEW x, NEW a, NEW b, NEW y, NEW c, NEW d, Part(x, a, b, y, c, d),
         NEW p, ~(p.linked /\ p.legacy),
         NEW s \in Swings(SwingTf, Profile(SwingTf, x)),
         \/ a = c
         \/ RetraceTf <= MainTf /\ InternalTf <= MainTf /\ a <= LegStart(s) - MainTf
  PROVE  Follows(View(p, x), View(p, y), s, b, d)
<1>. DEFINE v == View(p, x)
            w == View(p, y)
            ex == IF p.linked THEN ScanExpansions(x) ELSE {}
            ey == IF p.linked THEN ScanExpansions(y) ELSE {}
<1>0. /\ SwingTf \in Nat \ {0, 1} /\ MainTf \in Nat \ {0, 1} /\ RetraceTf \in Nat \ {0, 1}
      /\ InternalTf \in Nat \ {0, 1} /\ WindowTf \in Nat \ {0, 1}
  BY FunnelAssumption
<1>1. /\ v.p = p /\ v.m = x /\ v.windowBars = Profile(WindowTf, x)
      /\ v.mainBars = Profile(MainTf, x)
      /\ v.expansions = ScanExpansions(x)
      /\ v.main = Gaps(MainTf, Profile(MainTf, x), ex)
      /\ v.retrace = Gaps(RetraceTf, Profile(RetraceTf, x), {})
      /\ v.internal = Gaps(InternalTf, Profile(InternalTf, x), {})
  BY DEF View, ViewWith, ScanExpansions
<1>2. /\ w.p = p /\ w.m = y /\ w.windowBars = Profile(WindowTf, y)
      /\ w.mainBars = Profile(MainTf, y)
      /\ w.expansions = ScanExpansions(y)
      /\ w.main = Gaps(MainTf, Profile(MainTf, y), ey)
      /\ w.retrace = Gaps(RetraceTf, Profile(RetraceTf, y), {})
      /\ w.internal = Gaps(InternalTf, Profile(InternalTf, y), {})
  BY DEF View, ViewWith, ScanExpansions
<1>. HIDE DEF v, w, ex, ey
<1>3. /\ a \in Nat /\ b \in Nat /\ c \in Nat /\ d \in Nat /\ c <= a /\ a <= b /\ b <= d
      /\ c <= d /\ DOMAIN x = a .. b /\ DOMAIN y = c .. d
      /\ \A t \in a .. b : x[t] = y[t]
  BY DEF Part
<1>4. /\ s.t \in Nat /\ s.tf = SwingTf /\ a <= LegStart(s) /\ LegStart(s) \in Nat
      /\ s \in Swings(SwingTf, Profile(SwingTf, y))
  <2>1. /\ s \in Swings(SwingTf, Profile(SwingTf, y))
        /\ a <= s.t - SwingTf
    BY <1>0, SwingsOfPart
  <2>2. s.t \in Nat /\ s.tf = SwingTf
    BY <1>0, <2>1, SwingsOfPart
  <2>. QED BY <1>0, <1>3, <2>1, <2>2 DEF LegStart
<1>. DEFINE leg == LegStart(s)
<1>5. leg \in Nat /\ a <= leg
      /\ \/ a = c
         \/ RetraceTf <= MainTf /\ InternalTf <= MainTf /\ a <= leg - MainTf
  BY <1>4
<1>. HIDE DEF leg
<1>6. /\ DOMAIN v.m \subseteq 0 .. b /\ DOMAIN w.m \subseteq 0 .. d
      /\ b \in DOMAIN v.m /\ d \in DOMAIN w.m
      /\ \A t : t >= leg => (t \in DOMAIN v.m <=> t \in DOMAIN w.m /\ t <= b)
      /\ \A t \in DOMAIN v.m : v.m[t] = w.m[t]
  BY <1>1, <1>2, <1>3, <1>5
<1>7. /\ DOMAIN v.windowBars \subseteq 0 .. b /\ DOMAIN w.windowBars \subseteq 0 .. d
      /\ \A t : t >= leg => (t \in DOMAIN v.windowBars
                               <=> t \in DOMAIN w.windowBars /\ t + WindowTf - 1 <= b)
      /\ \A t \in DOMAIN v.windowBars : v.windowBars[t] = w.windowBars[t]
      /\ \A t \in DOMAIN v.windowBars \union DOMAIN w.windowBars : t + WindowTf - 1 <= d
  <2>1. \A t : t \in DOMAIN v.windowBars
                <=> t \in DOMAIN w.windowBars /\ a <= t /\ t + WindowTf - 1 <= b
    BY <1>0, <1>1, <1>2, ProfileOfPart
  <2>2. \A t \in DOMAIN v.windowBars : v.windowBars[t] = w.windowBars[t]
    BY <1>0, <1>1, <1>2, ProfileOfPart
  <2>3. \A t \in DOMAIN w.windowBars : t \in c .. d /\ t + WindowTf - 1 <= d
    BY <1>0, <1>2, <1>3, ProfileOfRecord
  <2>4. \A t \in DOMAIN v.windowBars : t \in a .. b
    BY <1>0, <1>1, <1>3, ProfileOfRecord
  <2>. QED BY <1>3, <1>5, <2>1, <2>2, <2>3, <2>4
<1>8. s \in v.expansions <=> s \in w.expansions
  BY <1>1, <1>2, <1>4 DEF ScanExpansions, Expansions
<1>9. ASSUME NEW g \in v.main \union w.main
      PROVE  /\ g.t \in Nat /\ g.confirmed = g.t + 2 * MainTf /\ g.c3 = g.t + MainTf
             /\ g.t + 2 * MainTf - 1 <= d /\ (g \in w.main => c <= g.t - MainTf)
  <2>1. ASSUME g \in v.main
        PROVE  /\ g.t \in Nat /\ g.confirmed = g.t + 2 * MainTf /\ g.c3 = g.t + MainTf
               /\ g.t + 2 * MainTf - 1 <= d
    <3>1. /\ g.t \in Nat /\ g.confirmed = g.t + 2 * MainTf /\ g.c3 = g.t + MainTf
          /\ g.t + 2 * MainTf - 1 <= b
      BY <1>0, <1>1, <1>3, <2>1, GapIsInside
    <3>. QED BY <1>0, <1>3, <3>1
  <2>2. ASSUME g \in w.main
        PROVE  /\ g.t \in Nat /\ g.confirmed = g.t + 2 * MainTf /\ g.c3 = g.t + MainTf
               /\ g.t + 2 * MainTf - 1 <= d /\ c <= g.t - MainTf
    BY <1>0, <1>2, <1>3, <2>2, GapIsInside
  <2>. QED BY <2>1, <2>2
<1>10. ASSUME NEW g \in v.retrace \union w.retrace
       PROVE  /\ g.t \in Nat /\ g.confirmed = g.t + 2 * RetraceTf
              /\ g.t + 2 * RetraceTf - 1 <= d /\ (g \in w.retrace => c <= g.t - RetraceTf)
  BY <1>0, <1>1, <1>2, <1>3, GapIsInside
<1>11. ASSUME NEW g \in v.internal \union w.internal
       PROVE  /\ g.t \in Nat /\ g.confirmed = g.t + 2 * InternalTf
              /\ g.t + 2 * InternalTf - 1 <= d /\ (g \in w.internal => c <= g.t - InternalTf)
  BY <1>0, <1>1, <1>2, <1>3, GapIsInside
<1>12. ASSUME NEW g, g.t >= leg + 2 * MainTf - 2 * RetraceTf
       PROVE  g \in v.retrace <=> g \in w.retrace /\ g.t + 2 * RetraceTf - 1 <= b
  <2>1. g \in v.retrace <=> /\ g \in w.retrace
                           /\ a <= g.t - RetraceTf /\ g.t + 2 * RetraceTf - 1 <= b
    BY <1>0, <1>1, <1>2, GapOfPart
  <2>2. g \in w.retrace => a <= g.t - RetraceTf
    BY <1>0, <1>3, <1>5, <1>10, <1>12
  <2>. QED BY <2>1, <2>2
<1>13. ASSUME NEW g, g.t >= leg
       PROVE  g \in v.internal <=> g \in w.internal /\ g.t + 2 * InternalTf - 1 <= b
  <2>1. g \in v.internal <=> /\ g \in w.internal
                            /\ a <= g.t - InternalTf /\ g.t + 2 * InternalTf - 1 <= b
    BY <1>0, <1>1, <1>2, GapOfPart
  <2>2. g \in w.internal => a <= g.t - InternalTf
    BY <1>0, <1>3, <1>5, <1>11, <1>13
  <2>. QED BY <2>1, <2>2
<1>14. ASSUME NEW g, MatchesExpansion(v, g, s)
       PROVE  g \in v.main <=> g \in w.main /\ g.t + 2 * MainTf - 1 <= b
  <2>1. g.t >= leg /\ (p.linked => g.t = C3(s))
    <3>1. CASE p.legacy
      BY <1>1, <1>14, <3>1 DEF MatchesExpansion, leg
    <3>2. CASE ~p.legacy
      <4>1. g.t = C3(s)
        BY <1>1, <1>14, <3>2 DEF MatchesExpansion
      <4>. QED BY <1>0, <1>4, <4>1 DEF C3, LegStart, leg
    <3>. QED BY <3>1, <3>2
  <2>2. RelatedExpansion(g.t, ex) = RelatedExpansion(g.t, ey)
    <3>1. CASE ~p.linked
      BY <3>1 DEF ex, ey
    <3>2. CASE p.linked
      <4>1. \A e : e \in ex <=> e \in ey /\ a <= e.t - SwingTf /\ e.t + 2 * SwingTf - 1 <= b
        BY <1>0, <3>2, SwingsOfPart DEF ex, ey, ScanExpansions, Expansions
      <4>2. \A e \in ey : e.t \in Nat /\ e.tf = SwingTf
        BY <1>0, <3>2, SwingsOfPart DEF ey, ScanExpansions, Expansions
      <4>3. a <= s.t - SwingTf /\ s.t + 2 * SwingTf - 1 <= b
        BY <1>0, SwingsOfPart
      <4>4. ASSUME NEW e \in ey, C3(e) = C3(s) PROVE e \in ex
        <5>1. e.t = s.t
          BY <1>0, <1>4, <4>2, <4>4 DEF C3
        <5>. QED BY <4>1, <4>3, <5>1
      <4>5. {e \in ex : C3(e) = C3(s)} = {e \in ey : C3(e) = C3(s)}
        BY <4>1, <4>4
      <4>6. g.t = C3(s)
        BY <2>1, <3>2
      <4>. QED BY <4>5, <4>6 DEF RelatedExpansion
    <3>. QED BY <3>1, <3>2
  <2>3. g \in v.main <=> /\ g \in w.main
                        /\ a <= g.t - MainTf /\ g.t + 2 * MainTf - 1 <= b
    BY <1>0, <1>1, <1>2, <2>2, GapOfPart
  <2>4. g \in w.main => a <= g.t - MainTf
    BY <1>0, <1>3, <1>5, <1>9, <2>1
  <2>. QED BY <2>3, <2>4
<1>15. GapsFollow(v.retrace, w.retrace, RetraceTf, b, leg + 2 * MainTf - 2 * RetraceTf)
  BY <1>10, <1>12 DEF GapsFollow
<1>16. GapsFollow(v.internal, w.internal, InternalTf, b, leg)
  BY <1>11, <1>13 DEF GapsFollow
<1>17. /\ \A t : t >= leg - MainTf =>
             (t \in DOMAIN v.mainBars <=> t \in DOMAIN w.mainBars /\ t + MainTf - 1 <= b)
       /\ \A t \in DOMAIN v.mainBars \union DOMAIN w.mainBars :
            t \in Nat /\ t + MainTf - 1 <= d
  <2>1. \A t : t \in DOMAIN v.mainBars
                <=> t \in DOMAIN w.mainBars /\ a <= t /\ t + MainTf - 1 <= b
    BY <1>0, <1>1, <1>2, ProfileOfPart
  <2>2. \A t \in DOMAIN w.mainBars : t \in c .. d /\ t + MainTf - 1 <= d
    BY <1>0, <1>2, <1>3, ProfileOfRecord
  <2>3. ASSUME NEW t \in DOMAIN w.mainBars, t >= leg - MainTf PROVE a <= t
    BY <1>0, <1>3, <1>5, <2>2, <2>3
  <2>4. \A t \in DOMAIN v.mainBars : t \in DOMAIN w.mainBars
    BY <2>1
  <2>5. \A t \in DOMAIN v.mainBars \union DOMAIN w.mainBars :
          t \in Nat /\ t + MainTf - 1 <= d
    BY <1>3, <2>2, <2>4
  <2>. QED BY <2>1, <2>3, <2>5
<1>. QED
  BY <1>1, <1>2, <1>3, <1>4, <1>6, <1>7, <1>8, <1>9, <1>10, <1>11, <1>14, <1>15,
     <1>16, <1>17 DEF Follows, v, w, leg

(* The first k members of a set of numbers, when there are k, stay the     *)
(* first when greater numbers join.                                        *)
FirstOf(T, k) == {t \in T : Cardinality({u \in T : u < t}) < k}

LEMMA FirstOfStays ==
  ASSUME NEW n \in Nat, NEW T \in SUBSET (0 .. n), NEW S \in SUBSET T,
         \A x \in S, y \in T \ S : x < y,
         NEW k \in Nat, Cardinality(FirstOf(S, k)) = k
  PROVE  FirstOf(T, k) = FirstOf(S, k)
<1>1. IsFiniteSet(T) /\ T \in SUBSET Nat
  <2>1. IsFiniteSet(0 .. n)
    BY FS_Interval
  <2>2. T \in SUBSET (0 .. n)
    OBVIOUS
  <2>3. IsFiniteSet(T)
    BY <2>1, <2>2, FS_Subset
  <2>4. \A t \in T : t \in Nat
    BY <2>2
  <2>. QED BY <2>3, <2>4
<1>2. ASSUME NEW t \in S PROVE t \in FirstOf(T, k) <=> t \in FirstOf(S, k)
  <2>1. ASSUME NEW u \in T, u < t PROVE u \in S
    <3>1. u \in Nat /\ t \in Nat /\ ~(t < u)
      BY <1>1, <2>1
    <3>. QED BY <3>1
  <2>2. {u \in T : u < t} = {u \in S : u < t}
    BY <2>1
  <2>. QED BY <2>2 DEF FirstOf
<1>3. ASSUME NEW t \in T \ S PROVE t \notin FirstOf(T, k)
  <2>. DEFINE below == {u \in T : u < t}
  <2>1. FirstOf(S, k) \subseteq below
    BY DEF FirstOf
  <2>2. IsFiniteSet(below)
    <3>1. below \in SUBSET T
      OBVIOUS
    <3>. QED BY <1>1, <3>1, FS_Subset
  <2>. HIDE DEF below
  <2>3. k <= Cardinality(below) /\ Cardinality(below) \in Nat
    <3>1. FirstOf(S, k) \in SUBSET below
      BY <2>1
    <3>. QED BY <2>2, <3>1, FS_Subset, FS_CardinalityType
  <2>. QED BY <2>3 DEF FirstOf, below
<1>4. FirstOf(T, k) \subseteq T /\ FirstOf(S, k) \subseteq S
  BY DEF FirstOf
<1>. QED BY <1>2, <1>3, <1>4

(* The main gap a view has found stays; one found later is confirmed later.*)
LEMMA MainFollows ==
  ASSUME NEW v, NEW w, NEW s, NEW b, NEW d, Follows(v, w, s, b, d)
  PROVE  /\ MainGap(v, s) # NoGap => MainGap(w, s) = MainGap(v, s)
         /\ MainGap(v, s) = NoGap /\ MainGap(w, s) # NoGap =>
              MainGap(w, s).t + 2 * MainTf - 1 > b
         /\ LET main == MainGap(w, s)
            IN  main # NoGap =>
                  /\ MatchesExpansion(v, main, s)
                  /\ main.t \in Nat /\ main.t + 2 * MainTf - 1 <= d
                  /\ main.t >= LegStart(s) /\ main.confirmed = main.t + 2 * MainTf
                  /\ main.c3 = main.t + MainTf
<1>. DEFINE older == {gap \in v.main : MatchesExpansion(v, gap, s)}
            newer == {gap \in w.main : MatchesExpansion(w, gap, s)}
<1>1. \A g : MatchesExpansion(w, g, s) <=> MatchesExpansion(v, g, s)
  BY DEF Follows, MatchesExpansion
<1>2. /\ MainGap(v, s) = IF older = {} THEN NoGap ELSE First(older)
      /\ MainGap(w, s) = IF newer = {} THEN NoGap ELSE First(newer)
  BY DEF MainGap
<1>3. \A g : g \in older <=> g \in newer /\ g.t + 2 * MainTf - 1 <= b
  BY <1>1 DEF Follows
<1>4. \A g \in newer : /\ g.t \in Nat /\ g.t + 2 * MainTf - 1 <= d
                       /\ g.confirmed = g.t + 2 * MainTf /\ g.c3 = g.t + MainTf
                       /\ MatchesExpansion(v, g, s)
  BY <1>1 DEF Follows
<1>5. MainTf \in Nat /\ b \in Nat /\ d \in Nat
  BY FunnelAssumption DEF Follows
<1>. HIDE DEF older, newer
<1>6. \A g \in older, h \in newer \ older : g.t < h.t
  BY <1>3, <1>4, <1>5
<1>7. ASSUME older # {} PROVE First(newer) = First(older) /\ newer # {}
  <2>1. older \in SUBSET newer /\ \A g \in newer : g.t \in Nat
    BY <1>3, <1>4
  <2>2. First(newer) = First(older)
    BY <1>6, <1>7, <2>1, FirstStays
  <2>. QED BY <1>7, <2>1, <2>2
<1>8. newer # {} => First(newer) \in newer
  BY <1>4, FirstIsOne
<1>9. NoGap \notin newer
  BY <1>4 DEF NoGap
<1>10. older # {} => First(older) \in newer
  BY <1>7, <1>8
<1>11. \A g \in newer : g.t >= LegStart(s)
  <2>. SUFFICES ASSUME NEW g \in newer PROVE g.t >= LegStart(s)
    OBVIOUS
  <2>1. MatchesExpansion(v, g, s)
    BY <1>4
  <2>2. s.t \in Nat /\ s.tf \in Nat
    BY FunnelAssumption DEF Follows
  <2>3. CASE v.p.legacy
    <3>1. LegStart(s) <= g.t
      BY <2>1, <2>3 DEF MatchesExpansion
    <3>. QED BY <1>4, <2>2, <3>1 DEF LegStart
  <2>4. CASE ~v.p.legacy
    <3>1. g.t = C3(s)
      BY <2>1, <2>4 DEF MatchesExpansion
    <3>. QED BY <2>2, <3>1 DEF LegStart, C3
  <2>. QED BY <2>3, <2>4
<1>12. MainGap(v, s) # NoGap => MainGap(w, s) = MainGap(v, s)
  BY <1>2, <1>7
<1>13. MainGap(w, s) # NoGap => MainGap(w, s) \in newer
  BY <1>2, <1>8
<1>14. MainGap(v, s) = NoGap /\ MainGap(w, s) # NoGap => MainGap(w, s).t + 2 * MainTf - 1 > b
  <2>1. SUFFICES ASSUME MainGap(v, s) = NoGap, MainGap(w, s) # NoGap
                 PROVE  MainGap(w, s).t + 2 * MainTf - 1 > b
    OBVIOUS
  <2>2. older = {}
    BY <1>2, <1>9, <1>10, <2>1
  <2>. QED BY <1>3, <1>4, <1>5, <1>13, <2>1, <2>2
<1>. QED BY <1>4, <1>11, <1>12, <1>13, <1>14

(* So do the first retrace gap and the internal gaps ...                   *)
LEMMA GapsFollowed ==
  ASSUME NEW v, NEW w, NEW s, NEW b, NEW d, Follows(v, w, s, b, d),
         NEW main, main.confirmed \in Nat, main.confirmed >= LegStart(s) + 2 * MainTf
  PROVE  /\ RetraceGaps(v, s, main) # {} =>
              /\ RetraceGaps(w, s, main) # {}
              /\ First(RetraceGaps(w, s, main)) = First(RetraceGaps(v, s, main))
         /\ \A g : g \in InternalGaps(v, s, main)
                    <=> g \in InternalGaps(w, s, main) /\ g.t + 2 * InternalTf - 1 <= b
         /\ b = d => /\ RetraceGaps(w, s, main) = RetraceGaps(v, s, main)
                     /\ InternalGaps(w, s, main) = InternalGaps(v, s, main)
<1>. DEFINE older == RetraceGaps(v, s, main)
            newer == RetraceGaps(w, s, main)
            from  == LegStart(s) + 2 * MainTf - 2 * RetraceTf
<1>1. /\ RetraceTf \in Nat /\ MainTf \in Nat /\ InternalTf \in Nat
      /\ b \in Nat /\ d \in Nat /\ LegStart(s) \in Nat
  BY FunnelAssumption DEF Follows
<1>2. GapsFollow(v.retrace, w.retrace, RetraceTf, b, from)
  BY DEF Follows
<1>3. \A g \in w.retrace : g.t + 2 * RetraceTf - 1 <= d
  BY DEF Follows
<1>4. \A g \in v.retrace \union w.retrace :
        g.t \in Nat /\ (g.confirmed >= main.confirmed => g.t >= from)
  BY <1>1, <1>2 DEF GapsFollow
<1>5. \A g : g \in older <=> g \in newer /\ g.t + 2 * RetraceTf - 1 <= b
  BY <1>2, <1>4 DEF RetraceGaps, GapsFollow
<1>6. \A g \in newer : g.t \in Nat /\ g.t + 2 * RetraceTf - 1 <= d
  BY <1>3, <1>4 DEF RetraceGaps
<1>7. \A g : g \in InternalGaps(v, s, main)
             <=> g \in InternalGaps(w, s, main) /\ g.t + 2 * InternalTf - 1 <= b
  BY DEF Follows, GapsFollow, InternalGaps
<1>8. \A g \in InternalGaps(w, s, main) : g.t + 2 * InternalTf - 1 <= d
  BY DEF Follows, InternalGaps
<1>. HIDE DEF older, newer
<1>9. ASSUME older # {} PROVE newer # {} /\ First(newer) = First(older)
  <2>1. older \in SUBSET newer /\ \A g \in older, h \in newer \ older : g.t < h.t
    BY <1>1, <1>5, <1>6
  <2>2. First(newer) = First(older)
    BY <1>6, <1>9, <2>1, FirstStays
  <2>. QED BY <1>9, <2>1, <2>2
<1>10. ASSUME b = d
       PROVE  newer = older /\ InternalGaps(w, s, main) = InternalGaps(v, s, main)
  BY <1>5, <1>6, <1>7, <1>8, <1>10
<1>. QED BY <1>7, <1>9, <1>10 DEF older, newer

(* ... the retrace window once it is complete, ...                         *)
LEMMA WindowFollows ==
  ASSUME NEW v, NEW w, NEW s, NEW b, NEW d, Follows(v, w, s, b, d),
         NEW main, main.confirmed \in Nat, main.confirmed >= LegStart(s),
         \/ WindowComplete(Retracement(v, main))
         \/ b = d
  PROVE  /\ Retracement(w, main) = Retracement(v, main)
         /\ Retracement(v, main) \subseteq 0 .. b
         /\ \A t \in Retracement(v, main) :
              t >= LegStart(s) /\ t \in DOMAIN v.windowBars /\ t + WindowTf - 1 <= b
<1>. DEFINE older == {t \in DOMAIN v.windowBars : t >= main.confirmed}
            newer == {t \in DOMAIN w.windowBars : t >= main.confirmed}
<1>1. /\ WindowTf \in Nat \ {0, 1} /\ RetraceWindow \in Nat /\ b \in Nat /\ d \in Nat
      /\ LegStart(s) \in Nat
  BY FunnelAssumption DEF Follows
<1>2. Retracement(v, main) = FirstOf(older, RetraceWindow)
  BY DEF Retracement, FirstOf
<1>3. Retracement(w, main) = FirstOf(newer, RetraceWindow)
  BY DEF Retracement, FirstOf
<1>4. /\ newer \in SUBSET (0 .. d) /\ older \in SUBSET (0 .. b)
      /\ \A t \in newer \union older : t \in Nat /\ t >= LegStart(s)
  BY <1>1 DEF Follows
<1>5. /\ \A t : t \in older <=> t \in newer /\ t + WindowTf - 1 <= b
      /\ \A t \in newer : t + WindowTf - 1 <= d
  <2>1. \A t : t >= LegStart(s) =>
         (t \in DOMAIN v.windowBars <=> t \in DOMAIN w.windowBars /\ t + WindowTf - 1 <= b)
    BY DEF Follows
  <2>2. \A t \in newer : t + WindowTf - 1 <= d
    BY DEF Follows
  <2>. QED BY <1>4, <2>1, <2>2
<1>. HIDE DEF newer
<1>6. FirstOf(older, RetraceWindow) \subseteq older
  BY DEF FirstOf
<1>7. \A t \in older : t \in DOMAIN v.windowBars
  OBVIOUS
<1>. HIDE DEF older
<1>8. CASE WindowComplete(Retracement(v, main))
  <2>1. Cardinality(FirstOf(older, RetraceWindow)) = RetraceWindow
    BY <1>2, <1>8 DEF WindowComplete
  <2>2. older \in SUBSET newer /\ \A x \in older, y \in newer \ older : x < y
    BY <1>1, <1>4, <1>5
  <2>3. FirstOf(newer, RetraceWindow) = FirstOf(older, RetraceWindow)
    BY <1>1, <1>4, <2>1, <2>2, FirstOfStays
  <2>. QED BY <1>2, <1>3, <1>4, <1>5, <1>6, <1>7, <2>3
<1>9. CASE b = d
  <2>1. newer = older
    BY <1>5, <1>9
  <2>. QED BY <1>2, <1>3, <1>4, <1>5, <1>6, <1>7, <2>1
<1>. QED BY <1>8, <1>9

(* ... and, with the window complete, the retrace, the target and the tap  *)
(* that decides the entry.                                                 *)
LEMMA EntryFollows ==
  ASSUME NEW v, NEW w, NEW s, NEW b, NEW d, Follows(v, w, s, b, d),
         NEW main, main.confirmed \in Nat, main.confirmed >= LegStart(s),
         NEW window, window = Retracement(v, main), WindowComplete(window)
  PROVE  /\ \A kind : FinalTarget(w, kind, main, window) = FinalTarget(v, kind, main, window)
         /\ \A gap :
              LET retrace == FirstRetrace(v, gap, main, window)
                  taps(z) == {t \in DOMAIN z.m : t >= retrace /\ Touches(gap, z.m[t])}
              IN  /\ FirstRetrace(w, gap, main, window) = retrace
                  /\ retrace # NoMinute =>
                       /\ taps(v) # {} /\ taps(w) # {} /\ Min(taps(w)) = Min(taps(v))
                       /\ Min(taps(v)) \in DOMAIN v.m /\ Min(taps(v)) >= LegStart(s)
<1>1. /\ window \in SUBSET (0 .. b)
      /\ \A t \in window : t >= LegStart(s) /\ t \in DOMAIN v.windowBars
                           /\ t + WindowTf - 1 <= b
  BY WindowFollows
<1>2. /\ WindowTf \in Nat /\ RetraceWindow \in Nat \ {0} /\ b \in Nat
      /\ LegStart(s) \in Nat
  BY FunnelAssumption DEF Follows
<1>3. window # {}
  BY <1>2, FS_EmptySet DEF WindowComplete
<1>4. Max(window) \in window
  BY <1>1, <1>2, <1>3, MaxOfNaturals
<1>5. Max(window) \in Nat /\ Max(window) + WindowTf <= b + 1
  BY <1>1, <1>2, <1>4
<1>6. ASSUME NEW kind
      PROVE  FinalTarget(w, kind, main, window) = FinalTarget(v, kind, main, window)
  <2>1. \A t \in window : w.windowBars[t] = v.windowBars[t]
    BY <1>1 DEF Follows
  <2>2. /\ {w.windowBars[t].l : t \in window} = {v.windowBars[t].l : t \in window}
        /\ {w.windowBars[t].h : t \in window} = {v.windowBars[t].h : t \in window}
    BY <2>1
  <2>. QED BY <2>2 DEF FinalTarget, BearishTarget, BullishTarget
<1>7. /\ \A t : t >= LegStart(s) => (t \in DOMAIN v.m <=> t \in DOMAIN w.m /\ t <= b)
      /\ \A t \in DOMAIN v.m : t >= LegStart(s) => v.m[t] = w.m[t]
      /\ \A t \in DOMAIN v.m \union DOMAIN w.m : t \in Nat
  BY DEF Follows
<1>8. ASSUME NEW gap
      PROVE  LET retrace == FirstRetrace(v, gap, main, window)
                 taps(z) == {t \in DOMAIN z.m : t >= retrace /\ Touches(gap, z.m[t])}
             IN  /\ FirstRetrace(w, gap, main, window) = retrace
                 /\ retrace # NoMinute =>
                      /\ taps(v) # {} /\ taps(w) # {} /\ Min(taps(w)) = Min(taps(v))
                      /\ Min(taps(v)) \in DOMAIN v.m /\ Min(taps(v)) >= LegStart(s)
  <2>. DEFINE in(z) == {t \in DOMAIN z.m : /\ t >= main.confirmed
                                           /\ t + 1 <= Max(window) + WindowTf
                                           /\ Touches(gap, z.m[t])}
              retrace == FirstRetrace(v, gap, main, window)
              older == {t \in DOMAIN v.m : t >= retrace /\ Touches(gap, v.m[t])}
              newer == {t \in DOMAIN w.m : t >= retrace /\ Touches(gap, w.m[t])}
  <2>. HIDE DEF older, newer
  <2>1. in(w) = in(v)
    <3>1. ASSUME NEW t \in Nat, t >= main.confirmed, t + 1 <= Max(window) + WindowTf
          PROVE  /\ t \in DOMAIN v.m <=> t \in DOMAIN w.m
                 /\ t \in DOMAIN v.m => v.m[t] = w.m[t]
      <4>1. t <= b /\ t >= LegStart(s)
        BY <1>2, <1>5, <3>1
      <4>. QED BY <1>7, <4>1
    <3>. QED BY <1>7, <3>1
  <2>2. FirstRetrace(w, gap, main, window) = retrace
    BY <2>1 DEF FirstRetrace
  <2>3. ASSUME retrace # NoMinute
        PROVE  /\ older # {} /\ newer # {} /\ Min(newer) = Min(older)
               /\ Min(older) \in DOMAIN v.m /\ Min(older) >= LegStart(s)
    <3>1. in(v) # {} /\ retrace = Min(in(v))
      BY <2>3 DEF FirstRetrace
    <3>2. in(v) \in SUBSET Nat
      BY <1>7
    <3>3. retrace \in in(v)
      BY <3>1, <3>2, MinOfNaturals
    <3>4. /\ retrace \in DOMAIN v.m /\ Touches(gap, v.m[retrace]) /\ retrace \in Nat
          /\ retrace >= LegStart(s)
      BY <1>2, <1>7, <3>3
    <3>. HIDE DEF retrace
    <3>5. retrace \in older /\ older \in SUBSET Nat /\ newer \in SUBSET Nat
      BY <1>7, <3>4 DEF older, newer
    <3>6. \A t : t \in older <=> t \in newer /\ t <= b
      <4>1. \A t \in Nat : t >= retrace => t >= LegStart(s)
        BY <1>2, <3>4
      <4>. QED BY <1>7, <4>1 DEF older, newer
    <3>7. older \in SUBSET newer /\ \A t \in older, u \in newer \ older : t < u
      BY <1>2, <3>5, <3>6
    <3>8. Min(newer) = Min(older)
      BY <3>5, <3>7, MinStays
    <3>9. Min(older) \in older
      BY <3>5, MinOfNaturals
    <3>10. \A t \in older : t \in DOMAIN v.m /\ t >= LegStart(s)
      BY <1>2, <1>7, <3>4 DEF older
    <3>. QED BY <3>5, <3>7, <3>8, <3>9, <3>10
  <2>. QED BY <2>2, <2>3 DEF older, newer
<1>. QED BY <1>6, <1>8

-----------------------------------------------------------------------------
(* Trades. *)

(* The one-minute confirmation never enters directly. *)
LEMMA ReactionIsNoEntry ==
  ASSUME NEW v, NEW s, NEW gap, NEW retrace, NEW goal
  PROVE  Reaction(v, s, gap, retrace, goal) # "direct_entry"
<1>1. \A bars, move, dir : Retest(bars, move, dir) # "direct_entry"
  BY DEF Retest
<1>2. ASSUME NEW kind, NEW bars, NEW target
      PROVE  Confirmation(kind, gap, bars, target) # "direct_entry"
  BY <1>1 DEF Confirmation
<1>3. \A bars : /\ BearishConfirmation(gap, bars, goal) # "direct_entry"
                /\ BullishConfirmation(gap, bars, goal) # "direct_entry"
  BY <1>2 DEF BearishConfirmation, BullishConfirmation
<1>. QED BY <1>3 DEF Reaction

(* An entry the funnel has found it finds in every longer record. *)
LEMMA EntryStays ==
  ASSUME NEW v, NEW w, NEW s, NEW b, NEW d, Follows(v, w, s, b, d),
         FunnelOutcome(v, s).result = "direct_entry"
  PROVE  /\ FunnelOutcome(w, s) = FunnelOutcome(v, s)
         /\ FunnelOutcome(v, s).entry \in DOMAIN v.m
         /\ FunnelOutcome(v, s).entry >= LegStart(s)
<1>. DEFINE main    == MainGap(v, s)
            gap     == First(RetraceGaps(v, s, main))
            window  == Retracement(v, main)
            retrace == FirstRetrace(v, gap, main, window)
            goal    == FinalTarget(v, s.kind, main, window)
            older   == {t \in DOMAIN v.m : t >= retrace /\ Touches(gap, v.m[t])}
            newer   == {t \in DOMAIN w.m : t >= retrace /\ Touches(gap, w.m[t])}
<1>1. \A result, g, e, t : Outcome(result, g, e, t).result = result
                           /\ Outcome(result, g, e, t).entry = e
  BY DEF Outcome
<1>2. \A r : Rejected(r).result = r
  BY <1>1 DEF Rejected
<1>3. /\ main # NoGap /\ RetraceGaps(v, s, main) # {} /\ InternalGaps(v, s, main) # {}
      /\ WindowComplete(window) /\ retrace # NoMinute /\ v.p.direct
      /\ DirectEntry(v, s, gap, retrace) # NoMinute
      /\ FunnelOutcome(v, s)
           = Outcome("direct_entry", gap, DirectEntry(v, s, gap, retrace), goal)
  BY <1>1, <1>2, ReactionIsNoEntry DEF FunnelOutcome
<1>4. MainGap(w, s) = main
  BY <1>3, MainFollows
<1>5. /\ main.t \in Nat /\ main.t >= LegStart(s) /\ main.confirmed = main.t + 2 * MainTf
  BY <1>3, <1>4, MainFollows
<1>. HIDE DEF main
<1>6. /\ main.confirmed \in Nat /\ main.confirmed >= LegStart(s)
      /\ main.confirmed >= LegStart(s) + 2 * MainTf
  <2>1. MainTf \in Nat /\ LegStart(s) \in Nat
    BY FunnelAssumption DEF Follows
  <2>. QED BY <1>5, <2>1
<1>7. RetraceGaps(w, s, main) # {} /\ First(RetraceGaps(w, s, main)) = gap
  BY <1>3, <1>6, GapsFollowed
<1>8. InternalGaps(w, s, main) # {}
  BY <1>3, <1>6, GapsFollowed
<1>9. Retracement(w, main) = window
  BY <1>3, <1>6, WindowFollows
<1>. HIDE DEF gap, window
<1>10. /\ FirstRetrace(w, gap, main, window) = retrace
       /\ FinalTarget(w, s.kind, main, window) = goal
       /\ older # {} /\ newer # {} /\ Min(newer) = Min(older)
       /\ Min(older) \in DOMAIN v.m /\ Min(older) >= LegStart(s)
  BY <1>3, <1>6, EntryFollows DEF window
<1>. HIDE DEF retrace, goal, older, newer
<1>11. v.m[Min(older)] = w.m[Min(older)] /\ w.p = v.p
  BY <1>10 DEF Follows
<1>12. DirectEntry(v, s, gap, retrace) =
         IF ClosesThrough(s.kind, gap, v.m[Min(older)]) THEN NoMinute ELSE Min(older)
  BY <1>10 DEF DirectEntry, older
<1>13. DirectEntry(w, s, gap, retrace) =
         IF ClosesThrough(s.kind, gap, w.m[Min(newer)]) THEN NoMinute ELSE Min(newer)
  BY <1>10 DEF DirectEntry, newer
<1>14. /\ DirectEntry(w, s, gap, retrace) = DirectEntry(v, s, gap, retrace)
       /\ DirectEntry(v, s, gap, retrace) = Min(older)
  BY <1>3, <1>10, <1>11, <1>12, <1>13
<1>15. FunnelOutcome(w, s) = Outcome("direct_entry", gap, DirectEntry(v, s, gap, retrace), goal)
  BY <1>3, <1>4, <1>7, <1>8, <1>9, <1>10, <1>11, <1>14 DEF FunnelOutcome
<1>16. FunnelOutcome(v, s).entry = Min(older)
  BY <1>1, <1>3, <1>14
<1>. QED BY <1>3, <1>10, <1>15, <1>16

(* And a trade that has been won or lost stays as it is. *)
LEMMA TradeStays ==
  ASSUME NEW v, NEW w, NEW s, NEW b, NEW d, Follows(v, w, s, b, d), NEW outcome,
         outcome.entry \in DOMAIN v.m, outcome.entry >= LegStart(s),
         Simulate(v, s, outcome).result \in {"WIN", "LOSS"}
  PROVE  Simulate(w, s, outcome) = Simulate(v, s, outcome)
<1>1. /\ w.p = v.p /\ w.m[outcome.entry] = v.m[outcome.entry]
      /\ b \in Nat /\ LegStart(s) \in Nat /\ outcome.entry \in Nat
      /\ \A t : t >= LegStart(s) => (t \in DOMAIN v.m <=> t \in DOMAIN w.m /\ t <= b)
      /\ \A t \in DOMAIN v.m : t >= LegStart(s) => v.m[t] = w.m[t]
      /\ \A t \in DOMAIN v.m \union DOMAIN w.m : t \in Nat
  BY DEF Follows
<1>2. ASSUME NEW target, Decide(v, s, outcome, target).result \in {"WIN", "LOSS"}
      PROVE  Decide(w, s, outcome, target) = Decide(v, s, outcome, target)
  <2>. DEFINE hits(z) == {t \in DOMAIN z.m :
                 /\ t > outcome.entry
                 /\ \/ Stops(s.kind, z.m[t], s.price)
                    \/ Reaches(s.kind, z.m[t], target)}
              older == hits(v)
              newer == hits(w)
              decided(z, h) == Trade(s, outcome, s.price, target,
                 IF Stops(s.kind, z.m[ExitCandle(h)], s.price) THEN "LOSS" ELSE "WIN",
                 ExitCandle(h))
              open == Trade(s, outcome, s.price, target, "OPEN", NoMinute)
  <2>1. /\ Decide(v, s, outcome, target) = IF older = {} THEN open ELSE decided(v, older)
        /\ Decide(w, s, outcome, target) = IF newer = {} THEN open ELSE decided(w, newer)
    BY DEF Decide
  <2>2. open.result = "OPEN"
    BY DEF Trade
  <2>3. older # {}
    BY <1>2, <2>1, <2>2
  <2>4. \A t : t \in older <=> t \in newer /\ t <= b
    <3>1. \A t \in Nat : t > outcome.entry => t >= LegStart(s)
      BY <1>1
    <3>. QED BY <1>1, <3>1
  <2>5. older \in SUBSET Nat /\ newer \in SUBSET Nat
    BY <1>1
  <2>6. \A t \in older : t \in DOMAIN v.m /\ t >= LegStart(s)
    BY <1>1
  <2>. HIDE DEF older, newer
  <2>7. older \in SUBSET newer /\ \A t \in older, u \in newer \ older : t < u
    BY <1>1, <2>4, <2>5
  <2>8. Min(newer) = Min(older) /\ Min(older) \in older /\ newer # {}
    BY <2>3, <2>5, <2>7, MinStays, MinOfNaturals
  <2>9. v.m[Min(older)] = w.m[Min(older)]
    BY <1>1, <2>6, <2>8
  <2>10. decided(w, newer) = decided(v, older)
    BY <2>8, <2>9 DEF ExitCandle
  <2>. HIDE DEF decided, open
  <2>. QED BY <2>1, <2>3, <2>8, <2>10
<1>3. \A target, result, exit : Trade(s, outcome, s.price, target, result, exit).result = result
  BY DEF Trade
<1>4. CASE s.kind = "HIGH"
  <2>. DEFINE entry  == v.m[outcome.entry].c
              risk   == s.price - entry
              target == TakeProfit(v.p, outcome.target, entry, -FixedReward(risk))
  <2>1. SimulateBearish(v, s, outcome).result \in {"WIN", "LOSS"}
    BY <1>4 DEF Simulate
  <2>2. /\ ~(risk <= 0 \/ target >= entry \/ ~LeverageAllowed(v.p, entry, risk))
        /\ SimulateBearish(v, s, outcome) = Decide(v, s, outcome, target)
    BY <1>3, <2>1 DEF SimulateBearish
  <2>3. SimulateBearish(w, s, outcome) = Decide(w, s, outcome, target)
    BY <1>1, <2>2 DEF SimulateBearish
  <2>4. Decide(w, s, outcome, target) = Decide(v, s, outcome, target)
    BY <1>2, <2>1, <2>2
  <2>. QED BY <1>4, <2>2, <2>3, <2>4 DEF Simulate
<1>5. CASE s.kind # "HIGH"
  <2>. DEFINE entry  == v.m[outcome.entry].c
              risk   == entry - s.price
              target == TakeProfit(v.p, outcome.target, entry, FixedReward(risk))
  <2>1. SimulateBullish(v, s, outcome).result \in {"WIN", "LOSS"}
    BY <1>5 DEF Simulate
  <2>2. /\ ~(risk <= 0 \/ target <= entry \/ ~LeverageAllowed(v.p, entry, risk))
        /\ SimulateBullish(v, s, outcome) = Decide(v, s, outcome, target)
    BY <1>3, <2>1 DEF SimulateBullish
  <2>3. SimulateBullish(w, s, outcome) = Decide(w, s, outcome, target)
    BY <1>1, <2>2 DEF SimulateBullish
  <2>4. Decide(w, s, outcome, target) = Decide(v, s, outcome, target)
    BY <1>2, <2>1, <2>2
  <2>. QED BY <1>5, <2>2, <2>3, <2>4 DEF Simulate
<1>. QED BY <1>4, <1>5

(* The trades of a record that are won or lost are trades of every longer  *)
(* one that begins with it.                                                *)
LEMMA TradesStay ==
  ASSUME NEW x, NEW b, NEW y, NEW d, Part(x, 0, b, y, 0, d),
         NEW p, ~(p.linked /\ p.legacy),
         NEW kind, NEW trade \in TradeList(View(p, x), kind), trade.result \in {"WIN", "LOSS"}
  PROVE  trade \in TradeList(View(p, y), kind)
<1>. DEFINE v == View(p, x)
            w == View(p, y)
<1>1. PICK s \in Entries(Outcomes(v, kind)) : trade = Simulate(v, s, Outcomes(v, kind)[s])
  BY DEF TradeList, Simulated
<1>2. /\ s \in ValidExpansions(v, kind) /\ Outcomes(v, kind)[s] = FunnelOutcome(v, s)
      /\ FunnelOutcome(v, s).result = "direct_entry"
  BY DEF Entries, Outcomes
<1>3. s \in Swings(SwingTf, Profile(SwingTf, x))
  BY <1>2 DEF ValidExpansions, View, ViewWith, Expansions
<1>4. Follows(v, w, s, b, d)
  BY <1>3, PartFollows
<1>. HIDE DEF v, w
<1>5. /\ FunnelOutcome(w, s) = FunnelOutcome(v, s)
      /\ Simulate(w, s, FunnelOutcome(v, s)) = trade
  BY <1>1, <1>2, <1>4, EntryStays, TradeStays
<1>6. s \in ValidExpansions(w, kind)
  BY <1>2, <1>4 DEF ValidExpansions, Follows
<1>7. s \in Entries(Outcomes(w, kind)) /\ Outcomes(w, kind)[s] = FunnelOutcome(w, s)
  BY <1>2, <1>5, <1>6 DEF Entries, Outcomes
<1>8. trade \in Simulated(w, kind)
  BY <1>5, <1>7 DEF Simulated
<1>. QED BY <1>8 DEF TradeList, w

-----------------------------------------------------------------------------
(* Verdicts. *)

(* Of two views up to the same minute each follows the other. *)
LEMMA FollowsBack ==
  ASSUME NEW v, NEW w, NEW s, NEW b, Follows(v, w, s, b, b)
  PROVE  Follows(w, v, s, b, b)
<1>1. ASSUME NEW g, MatchesExpansion(w, g, s)
      PROVE  g \in w.main <=> g \in v.main /\ g.t + 2 * MainTf - 1 <= b
  <2>1. MatchesExpansion(v, g, s)
    BY <1>1 DEF Follows, MatchesExpansion
  <2>. QED BY <2>1 DEF Follows
<1>2. ASSUME NEW older, NEW newer, NEW tf, NEW from, GapsFollow(older, newer, tf, b, from),
             \A g \in older \union newer : g.t + 2 * tf - 1 <= b
      PROVE  GapsFollow(newer, older, tf, b, from)
  BY <1>2 DEF GapsFollow
<1>3. /\ GapsFollow(w.retrace, v.retrace, RetraceTf, b,
                    LegStart(s) + 2 * MainTf - 2 * RetraceTf)
      /\ GapsFollow(w.internal, v.internal, InternalTf, b, LegStart(s))
  BY <1>2 DEF Follows
<1>4. /\ \A t : t >= LegStart(s) => (t \in DOMAIN w.m <=> t \in DOMAIN v.m /\ t <= b)
      /\ \A t \in DOMAIN w.m : t >= LegStart(s) => w.m[t] = v.m[t]
  BY DEF Follows
<1>5. /\ \A t : t >= LegStart(s) =>
           (t \in DOMAIN w.windowBars <=> t \in DOMAIN v.windowBars /\ t + WindowTf - 1 <= b)
      /\ \A t \in DOMAIN w.windowBars : t >= LegStart(s) => w.windowBars[t] = v.windowBars[t]
  BY DEF Follows
<1>6. \A t : t >= LegStart(s) - MainTf =>
       (t \in DOMAIN w.mainBars <=> t \in DOMAIN v.mainBars /\ t + MainTf - 1 <= b)
  BY DEF Follows
<1>. QED BY <1>1, <1>3, <1>4, <1>5, <1>6 DEF Follows

(* What the timeframe profiles (timeframe_profiles.py) and the strategy    *)
(* profiles (research_profiles.py) have in common.                         *)
ShippedTimeframes ==
  /\ Delay = 0 /\ MainTf <= SwingTf
  /\ RetraceTf <= MainTf /\ InternalTf <= MainTf
  /\ InternalTf <= WindowUnit /\ RetraceWindow >= 3

LEMMA CloseOfView ==
  ASSUME NEW v, NEW n \in Nat, DOMAIN v.m \subseteq 0 .. n, n \in DOMAIN v.m
  PROVE  LatestClose(v) = n + 1
<1>1. Latest(v.m) \in DOMAIN v.m /\ \A t \in DOMAIN v.m : t <= Latest(v.m)
  BY LatestIsLast
<1>2. Latest(v.m) \in 0 .. n /\ n <= Latest(v.m)
  BY <1>1
<1>3. Latest(v.m) = n
  BY <1>2
<1>. QED BY <1>3 DEF LatestClose

(* Once closed, the lookup of the main gap stays closed: what ends it is   *)
(* there in every longer record.                                           *)
LEMMA MainLookupStays ==
  ASSUME NEW v, NEW w, NEW s, NEW b, NEW d, Follows(v, w, s, b, d), v.p.matchWindow \in Nat,
         LegStart(s) - MainTf \in DOMAIN v.mainBars, ~MainLookupOpen(v, s)
  PROVE  /\ ~MainLookupOpen(w, s)
         /\ LET last == IF v.p.legacy THEN MatchWindow(v.p) ELSE Delay
            IN  last \in Nat /\ b + 1 >= C3(s) + s.tf * last + 2 * s.tf
<1>0. MainTf \in Nat /\ SwingTf \in Nat /\ Delay \in Nat
  BY FunnelAssumption
<1>1. /\ b \in Nat /\ d \in Nat /\ b <= d /\ s.t \in Nat /\ s.tf = SwingTf /\ w.p = v.p
      /\ LegStart(s) \in Nat
      /\ DOMAIN v.m \subseteq 0 .. b /\ DOMAIN w.m \subseteq 0 .. d
      /\ b \in DOMAIN v.m /\ d \in DOMAIN w.m
  BY DEF Follows
<1>2. LatestClose(v) = b + 1 /\ LatestClose(w) = d + 1
  BY <1>1, CloseOfView
<1>. DEFINE last == IF v.p.legacy THEN MatchWindow(v.p) ELSE Delay
<1>3. last \in Nat
  <2>1. MatchWindow(v.p) \in Nat
    BY DEF MatchWindow, Max
  <2>. QED BY <1>0, <2>1
<1>. HIDE DEF last
<1>. DEFINE c2 == C3(s) + s.tf * last
            c3 == c2 + s.tf
<1>4. c2 \in Nat /\ c3 \in Nat /\ c3 >= LegStart(s) - MainTf
  <2>1. s.tf * last \in Nat
    BY <1>0, <1>1, <1>3
  <2>. QED BY <1>0, <1>1, <2>1 DEF C3, LegStart
<1>5. \A z : z.p = v.p =>
        (MainLookupOpen(z, s) <=>
           \/ /\ DOMAIN z.mainBars # {}
              /\ \/ Latest(z.mainBars) + MainTf < c3 + s.tf
                 \/ c3 \notin DOMAIN z.mainBars
           \/ LatestClose(z) < c3 + s.tf)
  BY DEF MainLookupOpen, last
<1>. HIDE DEF c2
<1>6. /\ \A t : t >= LegStart(s) - MainTf =>
           (t \in DOMAIN v.mainBars <=> t \in DOMAIN w.mainBars /\ t + MainTf - 1 <= b)
      /\ \A t \in DOMAIN v.mainBars \union DOMAIN w.mainBars : t \in Nat /\ t + MainTf - 1 <= d
  BY DEF Follows
<1>7. MainTf # 0
  BY FunnelAssumption
<1>8. DOMAIN v.mainBars \subseteq 0 .. d /\ DOMAIN w.mainBars \subseteq 0 .. d
  BY <1>0, <1>1, <1>6, <1>7
<1>9. /\ Latest(v.mainBars) \in DOMAIN v.mainBars
      /\ \A t \in DOMAIN v.mainBars : t <= Latest(v.mainBars)
  BY <1>1, <1>8, LatestIsLast
<1>10. /\ c3 \in DOMAIN v.mainBars
       /\ ~(Latest(v.mainBars) + MainTf < c3 + s.tf)
       /\ ~(LatestClose(v) < c3 + s.tf)
  BY <1>5
<1>. DEFINE z == Latest(v.mainBars)
<1>11. z \in DOMAIN w.mainBars
  <2>1. z >= LegStart(s) - MainTf
    BY <1>9
  <2>. QED BY <1>6, <1>9, <2>1
<1>12. /\ Latest(w.mainBars) \in DOMAIN w.mainBars
       /\ \A t \in DOMAIN w.mainBars : t <= Latest(w.mainBars)
  BY <1>1, <1>8, <1>11, LatestIsLast
<1>13. c3 \in DOMAIN w.mainBars
  BY <1>4, <1>6, <1>10
<1>14. z \in Nat /\ Latest(w.mainBars) \in Nat /\ z <= Latest(w.mainBars)
  BY <1>8, <1>9, <1>11, <1>12
<1>. HIDE DEF z
<1>15. ~(Latest(w.mainBars) + MainTf < c3 + s.tf) /\ ~(LatestClose(w) < c3 + s.tf)
  BY <1>0, <1>1, <1>2, <1>4, <1>10, <1>14 DEF z
<1>16. ~MainLookupOpen(w, s)
  BY <1>1, <1>5, <1>13, <1>15
<1>17. b + 1 >= c2 + 2 * s.tf
  BY <1>0, <1>1, <1>2, <1>4, <1>10
<1>. QED BY <1>3, <1>16, <1>17 DEF last, c2

(* Then no longer record has a main gap for the swing either.              *)
LEMMA NoMainGapStays ==
  ASSUME NEW v, NEW w, NEW s, NEW b, NEW d, Follows(v, w, s, b, d), v.p.matchWindow \in Nat,
         Delay = 0, MainTf <= SwingTf,
         LegStart(s) - MainTf \in DOMAIN v.mainBars,
         MainGap(v, s) = NoGap, ~MainLookupOpen(v, s)
  PROVE  MainGap(w, s) = NoGap
<1>. SUFFICES ASSUME MainGap(w, s) # NoGap PROVE FALSE
  OBVIOUS
<1>. DEFINE g == MainGap(w, s)
            last == IF v.p.legacy THEN MatchWindow(v.p) ELSE Delay
<1>1. g.t \in Nat /\ g.t + 2 * MainTf - 1 > b /\ MatchesExpansion(v, g, s)
  BY MainFollows
<1>2. last \in Nat /\ b + 1 >= C3(s) + s.tf * last + 2 * s.tf
  BY MainLookupStays
<1>3. b \in Nat /\ s.t \in Nat /\ s.tf = SwingTf
  BY DEF Follows
<1>4. MainTf \in Nat /\ SwingTf \in Nat
  BY FunnelAssumption
<1>5. g.t <= C3(s) + s.tf * last
  <2>1. CASE v.p.legacy
    BY <1>1, <2>1 DEF MatchesExpansion
  <2>2. CASE ~v.p.legacy
    <3>1. g.t = C3(s) /\ last = 0
      BY <1>1, <2>2 DEF MatchesExpansion
    <3>. QED BY <1>3, <1>4, <3>1 DEF C3
  <2>. QED BY <2>1, <2>2
<1>6. s.tf * last \in Nat /\ C3(s) \in Nat
  BY <1>2, <1>3, <1>4 DEF C3
<1>. DEFINE c2 == C3(s) + s.tf * last
<1>7. c2 \in Nat /\ g.t <= c2 /\ b + 1 >= c2 + 2 * s.tf
  BY <1>2, <1>5, <1>6
<1>. HIDE DEF g, c2
<1>. QED BY <1>1, <1>3, <1>4, <1>7

(* No internal gap is in view by the deadline that is taken from the       *)
(* profile's own timeframe.                                                *)
InternalMissed(v, s, main) ==
  /\ InternalGaps(v, s, main) = {}
  /\ LatestClose(v) >= LookupDeadline(main, InternalTf)

(* That deadline lies behind every gap in the window, so once it has       *)
(* passed none comes.  The other, by which a scan without any internal gap *)
(* goes, is no earlier: only such a scan still waits.                      *)
LEMMA InternalMissedStays ==
  ASSUME NEW v, NEW w, NEW s, NEW b, NEW d, Follows(v, w, s, b, d),
         InternalTf <= WindowUnit, RetraceWindow >= 3,
         NEW main, main.confirmed \in Nat, main.confirmed >= LegStart(s) + 2 * MainTf,
         InternalMissed(v, s, main)
  PROVE  /\ InternalMissed(w, s, main)
         /\ InternalLookupOpen(w, main) => w.internal = {} /\ InternalTf < WindowUnit
<1>1. /\ b \in Nat /\ d \in Nat /\ b <= d
      /\ DOMAIN v.m \subseteq 0 .. b /\ DOMAIN w.m \subseteq 0 .. d
      /\ b \in DOMAIN v.m /\ d \in DOMAIN w.m
  BY DEF Follows
<1>2. LatestClose(v) = b + 1 /\ LatestClose(w) = d + 1
  BY <1>1, CloseOfView
<1>3. InternalTf \in Nat /\ WindowUnit \in Nat /\ RetraceWindow \in Nat
  BY FunnelAssumption
<1>. DEFINE end == main.confirmed + WindowUnit * RetraceWindow
<1>4. end \in Nat
  <2>1. WindowUnit * RetraceWindow \in Nat
    BY <1>3
  <2>. QED BY <2>1
<1>5. InternalWindowEnd(main) = end
  <2>1. Max({RetraceWindow, 3}) = RetraceWindow
    BY <1>3 DEF Max
  <2>. QED BY <2>1 DEF InternalWindowEnd
<1>6. \A tf : LookupDeadline(main, tf) = end + 2 * tf
  BY DEF LookupDeadline
<1>. HIDE DEF end
<1>7. b + 1 >= end + 2 * InternalTf
  BY <1>1, <1>2, <1>3, <1>4, <1>6 DEF InternalMissed
<1>8. \A g : g \in InternalGaps(v, s, main)
               <=> g \in InternalGaps(w, s, main) /\ g.t + 2 * InternalTf - 1 <= b
  BY GapsFollowed
<1>9. \A g \in InternalGaps(w, s, main) : g.t \in Nat /\ g.t <= end
  BY <1>5 DEF InternalGaps, Follows, GapsFollow
<1>10. InternalGaps(w, s, main) = {}
  BY <1>1, <1>3, <1>4, <1>7, <1>8, <1>9 DEF InternalMissed
<1>11. LatestClose(w) >= LookupDeadline(main, InternalTf)
  BY <1>1, <1>2, <1>3, <1>4, <1>6, <1>7
<1>12. ASSUME InternalLookupOpen(w, main)
       PROVE  w.internal = {} /\ InternalTf < WindowUnit
  <2>1. d + 1 < LookupDeadline(main, IF w.internal = {} THEN WindowUnit ELSE InternalTf)
    BY <1>2, <1>12 DEF InternalLookupOpen
  <2>2. d + 1 >= end + 2 * InternalTf
    BY <1>1, <1>3, <1>4, <1>7
  <2>3. ~(d + 1 < end + 2 * InternalTf)
    BY <1>1, <1>3, <1>4, <2>2
  <2>4. w.internal = {} /\ d + 1 < end + 2 * WindowUnit
    BY <1>6, <2>1, <2>3
  <2>. QED BY <1>1, <1>3, <1>4, <2>2, <2>4
<1>. QED BY <1>10, <1>11, <1>12 DEF InternalMissed

(* The deadline a scan goes by is never earlier than the profile's own.    *)
LEMMA ClosedIsMissed ==
  ASSUME NEW v, NEW s, NEW main, InternalTf <= WindowUnit,
         main.confirmed \in Nat, LatestClose(v) \in Nat,
         InternalGaps(v, s, main) = {}, ~InternalLookupOpen(v, main)
  PROVE  InternalMissed(v, s, main)
<1>1. InternalTf \in Nat /\ WindowUnit \in Nat /\ RetraceWindow \in Nat
  BY FunnelAssumption
<1>2. PICK end \in Nat : end = main.confirmed + WindowUnit * RetraceWindow
  <2>1. WindowUnit * RetraceWindow \in Nat
    BY <1>1
  <2>. QED BY <2>1
<1>3. \A tf : LookupDeadline(main, tf) = end + 2 * tf
  BY <1>2 DEF LookupDeadline
<1>4. ~(LatestClose(v) < end + 2 * IF v.internal = {} THEN WindowUnit ELSE InternalTf)
  BY <1>3 DEF InternalLookupOpen
<1>. QED BY <1>1, <1>3, <1>4 DEF InternalMissed

(* A verdict still stands in a view, or has been withdrawn there because   *)
(* the view has no internal gap at all.                                    *)
VerdictStands(v, s, verdict) ==
  \/ Trace(v, s) = verdict
  \/ /\ verdict = Invalidated("FVG_12M_CONFIRMED", "FVG_8M_NOT_FOUND")
     /\ InternalTf < WindowUnit /\ v.internal = {}
     /\ Trace(v, s) = Pending("FVG_12M_CONFIRMED")
     /\ InternalMissed(v, s, MainGap(v, s))

(* A verdict on a swing with its leg in view, unless it is that no retrace *)
(* gap was found, stands in every longer record.                           *)
LEMMA TraceStays ==
  ASSUME NEW v, NEW w, NEW s, NEW b, NEW d, Follows(v, w, s, b, d), v.p.matchWindow \in Nat,
         ShippedTimeframes, LegStart(s) - MainTf \in DOMAIN v.mainBars,
         NEW verdict, VerdictStands(v, s, verdict),
         verdict.terminal, verdict.reason # "FVG_12M_NOT_FOUND"
  PROVE  VerdictStands(w, s, verdict)
<1>. DEFINE main   == MainGap(v, s)
            gaps   == RetraceGaps(v, s, main)
            gap    == First(gaps)
            unfound == Invalidated("FVG_12M_CONFIRMED", "FVG_8M_NOT_FOUND")
<1>1. /\ \A stage : ~Pending(stage).terminal /\ Pending(stage).stage = stage
      /\ \A stage, reason : /\ Invalidated(stage, reason).reason = reason
                            /\ Invalidated(stage, reason).terminal
      /\ \A x, tap, target : EntryReady(x, tap, target).terminal
  BY DEF Pending, Invalidated, Verdict, EntryReady
<1>6. \/ Trace(v, s) = verdict
      \/ /\ verdict = unfound /\ Trace(v, s) = Pending("FVG_12M_CONFIRMED")
         /\ InternalMissed(v, s, main)
  BY DEF VerdictStands
<1>7. Trace(w, s) = verdict => VerdictStands(w, s, verdict)
  BY DEF VerdictStands
<1>. HIDE DEF unfound
<1>2. s \in ValidExpansions(v, s.kind) <=> s \in ValidExpansions(w, s.kind)
  BY DEF ValidExpansions, Follows
<1>3. CASE s \notin ValidExpansions(v, s.kind)
  BY <1>1, <1>2, <1>3, <1>6, <1>7 DEF Trace
<1>4. CASE s \in ValidExpansions(v, s.kind) /\ main = NoGap
  <2>1. /\ Trace(v, s) = Invalidated("EXPANSION_16M_CONFIRMED", "FVG_16M_NOT_FOUND")
        /\ Trace(v, s) = verdict /\ ~MainLookupOpen(v, s)
    <3>1. Trace(v, s) # Pending("EXPANSION_16M_CONFIRMED")
      BY <1>1, <1>6
    <3>2. Trace(v, s) = Invalidated("EXPANSION_16M_CONFIRMED", "FVG_16M_NOT_FOUND")
          /\ ~MainLookupOpen(v, s)
      BY <1>4, <3>1 DEF Trace
    <3>. QED BY <1>1, <1>6, <3>2
  <2>2. MainGap(w, s) = NoGap /\ ~MainLookupOpen(w, s)
    BY <1>4, <2>1, NoMainGapStays, MainLookupStays DEF ShippedTimeframes
  <2>. QED BY <1>2, <1>4, <1>7, <2>1, <2>2 DEF Trace
<1>5. CASE s \in ValidExpansions(v, s.kind) /\ main # NoGap
  <2>1. MainGap(w, s) = main
    BY <1>5, MainFollows
  <2>2. main.t \in Nat /\ main.t >= LegStart(s) /\ main.confirmed = main.t + 2 * MainTf
    BY <1>5, <2>1, MainFollows
  <2>3. Trace(v, s) = TraceGaps(v, s, main) /\ Trace(w, s) = TraceGaps(w, s, main)
    BY <1>2, <1>5, <2>1 DEF Trace
  <2>. HIDE DEF main
  <2>4. /\ main.confirmed \in Nat /\ main.confirmed >= LegStart(s)
        /\ main.confirmed >= LegStart(s) + 2 * MainTf
    <3>1. MainTf \in Nat /\ LegStart(s) \in Nat
      BY FunnelAssumption DEF Follows
    <3>. QED BY <2>2, <3>1
  <2>5. gaps # {}
    BY <1>1, <1>6, <2>3 DEF TraceGaps
  <2>6. RetraceGaps(w, s, main) # {} /\ First(RetraceGaps(w, s, main)) = gap
    BY <2>4, <2>5, GapsFollowed
  <2>. HIDE DEF gap
  <2>7. CASE InternalGaps(v, s, main) = {}
    <3>1. verdict = unfound /\ InternalMissed(v, s, main)
      <4>1. CASE Trace(v, s) = verdict
        <5>1. TraceGaps(v, s, main) = unfound /\ ~InternalLookupOpen(v, main)
          BY <1>1, <2>3, <2>5, <2>7, <4>1 DEF TraceGaps, unfound
        <5>2. LatestClose(v) \in Nat
          BY CloseOfView DEF Follows
        <5>. QED BY <2>3, <2>4, <2>7, <4>1, <5>1, <5>2, ClosedIsMissed DEF ShippedTimeframes
      <4>. QED BY <1>6, <4>1
    <3>2. /\ InternalMissed(w, s, main)
          /\ InternalLookupOpen(w, main) => w.internal = {} /\ InternalTf < WindowUnit
      BY <2>4, <3>1, InternalMissedStays DEF ShippedTimeframes
    <3>3. Trace(w, s) = IF InternalLookupOpen(w, main)
                        THEN Pending("FVG_12M_CONFIRMED") ELSE unfound
      BY <2>3, <2>6, <3>2 DEF TraceGaps, InternalMissed, unfound
    <3>. QED BY <2>1, <3>1, <3>2, <3>3 DEF VerdictStands, unfound
  <2>8. CASE InternalGaps(v, s, main) # {}
    <3>1. InternalGaps(w, s, main) # {}
      BY <2>4, <2>8, GapsFollowed
    <3>2. /\ Trace(v, s) = TraceRetrace(v, s, main, gap)
          /\ Trace(w, s) = TraceRetrace(w, s, main, gap)
      BY <2>3, <2>5, <2>6, <2>8, <3>1 DEF TraceGaps, gap
    <3>10. Trace(v, s) = verdict
      BY <1>6, <2>8 DEF InternalMissed
    <3>11. PICK window : window = Retracement(v, main)
      OBVIOUS
    <3>. DEFINE retrace == FirstRetrace(v, gap, main, window)
                older   == {t \in DOMAIN v.m : t >= retrace /\ Touches(gap, v.m[t])}
                newer   == {t \in DOMAIN w.m : t >= retrace /\ Touches(gap, w.m[t])}
                target  == FinalTarget(v, s.kind, main, window)
    <3>3. WindowComplete(window)
      BY <1>1, <3>2, <3>10, <3>11 DEF TraceRetrace
    <3>4. Retracement(w, main) = window
      BY <2>4, <3>3, <3>11, WindowFollows
    <3>5. /\ FinalTarget(w, s.kind, main, window) = target
          /\ FirstRetrace(w, gap, main, window) = retrace
          /\ retrace # NoMinute =>
               /\ Min(newer) = Min(older)
               /\ Min(older) \in DOMAIN v.m /\ Min(older) >= LegStart(s)
      BY <2>4, <3>3, <3>11, EntryFollows
    <3>6. retrace # NoMinute => w.m[Min(newer)] = v.m[Min(older)]
      BY <3>5 DEF Follows
    <3>. DEFINE decided(z, taps) ==
                  IF retrace = NoMinute
                  THEN Invalidated("FVG_8M_CONFIRMED", "RETRACE_WINDOW_EXPIRED")
                  ELSE IF ClosesThrough(s.kind, gap, z.m[Min(taps)])
                  THEN Invalidated("FVG_8M_CONFIRMED", "CLOSE_THROUGH_12M_FVG")
                  ELSE EntryReady(s, Min(taps), target)
    <3>7. TraceRetrace(v, s, main, gap) = decided(v, older)
      BY <3>3, <3>11 DEF TraceRetrace
    <3>8. TraceRetrace(w, s, main, gap) = decided(w, newer)
      BY <3>3, <3>4, <3>5 DEF TraceRetrace
    <3>. HIDE DEF retrace, older, newer, target
    <3>9. decided(w, newer) = decided(v, older)
      BY <3>5, <3>6
    <3>. QED BY <1>7, <3>2, <3>7, <3>8, <3>9, <3>10
  <2>. QED BY <2>7, <2>8
<1>. QED BY <1>3, <1>4, <1>5

(* The tracer sees the main gaps of a view only as the gap of the swing.   *)
LEMMA TraceByMainGap ==
  ASSUME NEW p, NEW m, NEW known, NEW s,
         s \in ScanExpansions(m) => MainGap(ViewWith(p, m, known), s) = MainGap(View(p, m), s)
  PROVE  Trace(ViewWith(p, m, known), s) = Trace(View(p, m), s)
<1>. DEFINE v == ViewWith(p, m, known)
            w == View(p, m)
<1>. SUFFICES Trace(v, s) = Trace(w, s)
  OBVIOUS
<1>1. /\ v.p = w.p /\ v.m = w.m /\ v.expansions = w.expansions
      /\ v.expansions = ScanExpansions(m)
      /\ v.mainBars = w.mainBars /\ v.windowBars = w.windowBars
      /\ v.retrace = w.retrace /\ v.internal = w.internal
  BY DEF View, ViewWith, ScanExpansions
<1>. HIDE DEF v, w
<1>2. ValidExpansions(v, s.kind) = ValidExpansions(w, s.kind)
  BY <1>1 DEF ValidExpansions
<1>3. MainLookupOpen(v, s) = MainLookupOpen(w, s)
  BY <1>1 DEF MainLookupOpen, LatestClose
<1>4. ASSUME NEW main PROVE TraceGaps(v, s, main) = TraceGaps(w, s, main)
  <2>1. /\ RetraceGaps(v, s, main) = RetraceGaps(w, s, main)
        /\ InternalGaps(v, s, main) = InternalGaps(w, s, main)
        /\ Retracement(v, main) = Retracement(w, main)
    BY <1>1 DEF RetraceGaps, InternalGaps, Retracement
  <2>2. /\ RetraceLookupOpen(v, main) = RetraceLookupOpen(w, main)
        /\ InternalLookupOpen(v, main) = InternalLookupOpen(w, main)
    BY <1>1 DEF RetraceLookupOpen, InternalLookupOpen, LatestClose
  <2>3. ASSUME NEW gap, NEW window
        PROVE  /\ FirstRetrace(v, gap, main, window) = FirstRetrace(w, gap, main, window)
               /\ FinalTarget(v, s.kind, main, window) = FinalTarget(w, s.kind, main, window)
    BY <1>1 DEF FirstRetrace, FinalTarget, BearishTarget, BullishTarget
  <2>4. ASSUME NEW gap PROVE TraceRetrace(v, s, main, gap) = TraceRetrace(w, s, main, gap)
    BY <1>1, <2>1, <2>3 DEF TraceRetrace
  <2>. QED BY <2>1, <2>2, <2>4 DEF TraceGaps
<1>5. s \in ValidExpansions(v, s.kind) => s \in ScanExpansions(m)
  BY <1>1 DEF ValidExpansions
<1>6. s \in ScanExpansions(m) => MainGap(v, s) = MainGap(w, s)
  BY DEF v, w
<1>7. CASE s \notin ValidExpansions(v, s.kind)
  BY <1>2, <1>7 DEF Trace
<1>8. CASE s \in ValidExpansions(v, s.kind)
  <2>1. MainGap(v, s) = MainGap(w, s)
    BY <1>5, <1>6, <1>8
  <2>. QED BY <1>2, <1>3, <1>4, <1>8, <2>1 DEF Trace
<1>. QED BY <1>7, <1>8
=============================================================================
