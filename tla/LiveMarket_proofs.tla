------------------------- MODULE LiveMarket_proofs -------------------------
(* Theorems about LiveMarket and their proofs.                             *)
EXTENDS LiveMarket, StrategyFunnel_proofs

-----------------------------------------------------------------------------
(* What Newest keeps of a series: a part of it, with everything after what *)
(* it keeps, and its last minute.                                          *)
LEMMA NewestIsTail ==
  ASSUME NEW n \in Nat, NEW series, DOMAIN series \subseteq 0 .. n,
         NEW size \in Nat \ {0}
  PROVE  /\ DOMAIN Newest(series, size) \subseteq DOMAIN series
         /\ \A t \in DOMAIN Newest(series, size) : Newest(series, size)[t] = series[t]
         /\ \A t \in DOMAIN Newest(series, size), u \in DOMAIN series :
              u > t => u \in DOMAIN Newest(series, size)
         /\ DOMAIN series # {} => Latest(series) \in DOMAIN Newest(series, size)
<1>. DEFINE D == DOMAIN series
            After(t) == {u \in D : u > t}
<1>1. DOMAIN Newest(series, size) = {t \in D : Cardinality(After(t)) < size}
  BY DEF Newest, Restrict
<1>2. \A t \in DOMAIN Newest(series, size) : Newest(series, size)[t] = series[t]
  BY DEF Newest, Restrict
<1>3. ASSUME NEW t \in D, NEW u \in D, u > t, Cardinality(After(t)) < size
      PROVE  Cardinality(After(u)) < size
  <2>1. IsFiniteSet(0 .. n)
    BY FS_Interval
  <2>2. IsFiniteSet(After(t))
    BY <2>1, FS_Subset
  <2>3. After(u) \in SUBSET After(t)
    BY <1>3
  <2>4. /\ Cardinality(After(u)) <= Cardinality(After(t))
        /\ IsFiniteSet(After(u))
    BY <2>2, <2>3, FS_Subset
  <2>5. Cardinality(After(u)) \in Nat /\ Cardinality(After(t)) \in Nat
    BY <2>2, <2>4, FS_CardinalityType
  <2>. HIDE DEF After
  <2>. QED BY <2>4, <2>5, <1>3
<1>4. ASSUME D # {} PROVE Cardinality(After(Latest(series))) < size
  <2>1. Latest(series) \in D /\ \A t \in D : t <= Latest(series)
    BY <1>4, LatestIsLast
  <2>2. After(Latest(series)) = {}
    BY <2>1
  <2>3. Cardinality(After(Latest(series))) = 0
    BY <2>2, FS_EmptySet
  <2>. QED BY <2>3
<1>5. D # {} => Latest(series) \in D
  BY LatestIsLast
<1>. HIDE DEF After
<1>. QED BY <1>1, <1>2, <1>3, <1>4, <1>5

(* And it keeps at most size candles.                                      *)
LEMMA NewestIsShort ==
  ASSUME NEW n \in Nat, NEW series, DOMAIN series \subseteq 0 .. n,
         NEW size \in Nat \ {0}
  PROVE  Cardinality(DOMAIN Newest(series, size)) <= size
<1>. DEFINE D == DOMAIN series
            Kept == DOMAIN Newest(series, size)
            After(t) == {u \in D : u > t}
<1>1. Kept = {t \in D : Cardinality(After(t)) < size}
  BY DEF Newest, Restrict
<1>2. IsFiniteSet(D) /\ IsFiniteSet(Kept)
  <2>1. IsFiniteSet(0 .. n)
    BY FS_Interval
  <2>2. D \in SUBSET (0 .. n) /\ Kept \in SUBSET (0 .. n)
    BY <1>1
  <2>. QED BY <2>1, <2>2, FS_Subset
<1>3. CASE Kept = {}
  BY <1>3, FS_EmptySet
<1>4. CASE Kept # {}
  <2>1. Kept \in SUBSET Nat
    BY <1>1
  <2>2. PICK t \in Kept : \A u \in Kept : t <= u
    BY <1>4, <2>1, MinOfNaturals
  <2>3. Cardinality(After(t)) < size
    BY <1>1, <2>2
  <2>4. Kept \ {t} \subseteq After(t)
    <3>1. Kept \subseteq D
      BY <1>1
    <3>. HIDE DEF Kept, D
    <3>2. \A u \in Kept \ {t} : u \in Nat /\ t \in Nat /\ t <= u /\ u # t
      BY <2>1, <2>2
    <3>. QED BY <3>1, <3>2
  <2>5. IsFiniteSet(After(t)) /\ After(t) \in SUBSET D
    BY <1>2, FS_Subset
  <2>. HIDE DEF After, Kept
  <2>6. /\ IsFiniteSet(Kept \ {t}) /\ Cardinality(Kept \ {t}) <= Cardinality(After(t))
    BY <2>4, <2>5, FS_Subset
  <2>7. Cardinality(Kept \ {t}) = Cardinality(Kept) - 1
    BY <1>2, <2>2, FS_RemoveElement
  <2>8. Cardinality(Kept) \in Nat /\ Cardinality(After(t)) \in Nat
    BY <1>2, <2>5, FS_CardinalityType
  <2>. QED BY <2>3, <2>6, <2>7, <2>8 DEF Kept
<1>. QED BY <1>3, <1>4

-----------------------------------------------------------------------------
(* The buffer. *)

(* The shape of record and buffer, and that no minute comes before its     *)
(* time.                                                                   *)
ClockInv ==
  /\ Now \in Nat \ {0} /\ DOMAIN tape = 0 .. Now - 1
  /\ DOMAIN buffer \subseteq 0 .. Now
  /\ buffer = Empty \/ DOMAIN buffer # {}
  /\ lapse \in 0 .. Now

(* The part of BufferTrue about one first and one last minute. *)
TrueBetween(from, newest) ==
  /\ from .. newest \subseteq DOMAIN buffer
  /\ \A t \in from .. newest - 1 : buffer[t] = tape[t]

BufferInv == ClockInv /\ BufferTrue

LEMMA LargerOfTwo ==
  ASSUME NEW a \in Int, NEW b \in Int
  PROVE  Max({a, b}) = IF a >= b THEN a ELSE b
  BY DEF Max

LEMMA BufferTrueBetween ==
  ASSUME ClockInv, buffer # Empty
  PROVE  /\ Latest(buffer) \in DOMAIN buffer /\ Min(DOMAIN buffer) \in DOMAIN buffer
         /\ \A t \in DOMAIN buffer : Min(DOMAIN buffer) <= t /\ t <= Latest(buffer)
         /\ BufferTrue <=> TrueBetween(Max({lapse, Min(DOMAIN buffer)}), Latest(buffer))
<1>1. DOMAIN buffer # {} /\ DOMAIN buffer \subseteq 0 .. Now /\ Now \in Nat
  BY DEF ClockInv
<1>2. DOMAIN buffer \in SUBSET Nat
  BY <1>1
<1>3. BufferTrue <=> TrueBetween(Max({lapse, Min(DOMAIN buffer)}), Latest(buffer))
  BY DEF BufferTrue, TrueBetween
<1>. QED BY <1>1, <1>2, <1>3, MinOfNaturals, LatestIsLast

(* A fetch returns the minutes of the market from some minute on to the    *)
(* last completed one, or to the one in progress.                          *)
LEMMA FetchedFromMarket ==
  ASSUME ClockInv, NEW inProgress \in BOOLEAN
  PROVE  LET rows == Fetched(inProgress)
             last == IF inProgress THEN Now ELSE Now - 1
         IN  \E from \in 0 .. last :
               /\ DOMAIN rows = from .. last
               /\ Min(DOMAIN rows) = from
               /\ \A t \in from .. last : t < Now => rows[t] = tape[t]
               /\ inProgress => rows[Now] = Forming
<1>. DEFINE size == IF Cardinality(DOMAIN buffer) < HistoryLimit
                    THEN HistoryLimit ELSE FetchLimit
            market == IF inProgress THEN Extended(Forming) ELSE tape
            last == IF inProgress THEN Now ELSE Now - 1
            rows == Newest(market, size)
<1>1. size \in Nat \ {0}
  BY MarketAssumption DEF MarketAssumption
<1>2. Now \in Nat \ {0} /\ last \in Nat
  BY DEF ClockInv
<1>3. /\ DOMAIN market = 0 .. last /\ \A t \in 0 .. last : t < Now => market[t] = tape[t]
      /\ inProgress => market[Now] = Forming
  BY DEF ClockInv, Extended
<1>4. Latest(market) = last
  <2>. HIDE DEF market, last
  <2>1. DOMAIN market \subseteq 0 .. last /\ DOMAIN market # {}
    BY <1>2, <1>3
  <2>2. Latest(market) \in DOMAIN market /\ \A t \in DOMAIN market : t <= Latest(market)
    BY <1>2, <2>1, LatestIsLast
  <2>3. Latest(market) \in 0 .. last
    BY <1>3, <2>2
  <2>4. last <= Latest(market)
    BY <1>2, <1>3, <2>2
  <2>. QED BY <1>2, <2>3, <2>4
<1>5. /\ DOMAIN rows \subseteq 0 .. last /\ last \in DOMAIN rows
      /\ \A t \in DOMAIN rows : rows[t] = market[t]
      /\ \A t \in DOMAIN rows, u \in 0 .. last : u > t => u \in DOMAIN rows
  <2>. HIDE DEF size, market, last
  <2>1. DOMAIN market \subseteq 0 .. last /\ DOMAIN market # {}
    BY <1>2, <1>3
  <2>. QED BY <1>1, <1>2, <1>3, <1>4, <2>1, NewestIsTail
<1>6. Fetched(inProgress) = rows
  BY DEF Fetched, Rows
<1>. HIDE DEF rows, market, size
<1>7. /\ Min(DOMAIN rows) \in DOMAIN rows
      /\ \A t \in DOMAIN rows : Min(DOMAIN rows) <= t
  <2>1. DOMAIN rows \in SUBSET Nat /\ DOMAIN rows # {}
    BY <1>2, <1>5
  <2>. QED BY <2>1, MinOfNaturals
<1>8. DOMAIN rows = Min(DOMAIN rows) .. last
  <2>. HIDE DEF last
  <2>1. \A t \in DOMAIN rows : t \in Min(DOMAIN rows) .. last
    BY <1>2, <1>5, <1>7
  <2>2. ASSUME NEW t \in Min(DOMAIN rows) .. last PROVE t \in DOMAIN rows
    <3>1. t \in 0 .. last /\ (t = Min(DOMAIN rows) \/ t > Min(DOMAIN rows))
      BY <1>2, <1>5, <1>7, <2>2
    <3>. QED BY <1>5, <1>7, <3>1
  <2>. QED BY <2>1, <2>2
<1>9. \A t \in Min(DOMAIN rows) .. last : t < Now => rows[t] = tape[t]
  BY <1>2, <1>3, <1>5, <1>8
<1>10. Min(DOMAIN rows) \in 0 .. last
  BY <1>5, <1>7
<1>11. inProgress => rows[Now] = Forming
  BY <1>3, <1>5
<1>. QED BY <1>6, <1>8, <1>9, <1>10, <1>11

(* The market goes on: the buffer's candles stay true. *)
LEMMA MinuteKeepsBuffer ==
  ASSUME BufferInv, Minute PROVE BufferInv'
<1>1. PICK bar : tape' = [t \in 0 .. Now |-> IF t = Now THEN bar ELSE tape[t]]
  BY DEF Minute, Extended
<1>2. buffer' = buffer /\ lapse' = lapse
  BY DEF Minute
<1>3. Now' = Now + 1
  <2>1. DOMAIN tape' = 0 .. Now /\ Now \in Nat
    BY <1>1 DEF BufferInv, ClockInv
  <2>2. Cardinality(0 .. Now) = Now + 1
    BY <2>1, FS_Interval
  <2>. QED BY <2>1, <2>2 DEF Now
<1>4. DOMAIN tape' = 0 .. Now' - 1 /\ \A t \in 0 .. Now - 1 : tape'[t] = tape[t]
  BY <1>1, <1>3 DEF BufferInv, ClockInv
<1>5. ClockInv'
  BY <1>2, <1>3, <1>4 DEF BufferInv, ClockInv
<1>6. ASSUME buffer # Empty PROVE BufferTrue'
  <2>. DEFINE from == Max({lapse, Min(DOMAIN buffer)})
              newest == Latest(buffer)
  <2>1. newest \in 0 .. Now /\ Min(DOMAIN buffer) \in 0 .. Now /\ TrueBetween(from, newest)
    BY <1>6, BufferTrueBetween DEF BufferInv, ClockInv
  <2>2. from \in Nat
    BY <2>1, LargerOfTwo DEF BufferInv, ClockInv
  <2>. HIDE DEF from, newest
  <2>3. \A t \in from .. newest - 1 : t \in 0 .. Now - 1
    BY <2>1, <2>2 DEF BufferInv, ClockInv
  <2>4. /\ from .. newest \subseteq DOMAIN buffer'
        /\ \A t \in from .. newest - 1 : buffer'[t] = tape'[t]
    BY <1>2, <1>4, <2>1, <2>3 DEF TrueBetween
  <2>. QED BY <1>2, <2>4 DEF BufferTrue, from, newest
<1>7. buffer = Empty => BufferTrue'
  BY <1>2 DEF BufferTrue
<1>. QED BY <1>5, <1>6, <1>7 DEF BufferInv

(* A poll: with the rows laid over it, the buffer is true up to what it    *)
(* held or was brought last.                                               *)
LEMMA PollKeepsBuffer ==
  ASSUME BufferInv, NEW inProgress \in BOOLEAN, Poll(inProgress)
  PROVE  BufferInv'
<1>. DEFINE rows == Fetched(inProgress)
            last == IF inProgress THEN Now ELSE Now - 1
            full == Over(rows, buffer)
            first == Min(DOMAIN buffer')
            newest == Latest(buffer')
<1>1. /\ Now \in Nat \ {0} /\ last \in Nat /\ last <= Now /\ Now - 1 <= last
      /\ DOMAIN buffer \subseteq 0 .. Now /\ lapse \in 0 .. Now
  BY DEF BufferInv, ClockInv
<1>2. PICK from \in 0 .. last :
        /\ DOMAIN rows = from .. last /\ Min(DOMAIN rows) = from
        /\ \A t \in from .. last : t < Now => rows[t] = tape[t]
  BY FetchedFromMarket DEF BufferInv
<1>3. /\ buffer' = Newest(full, HistoryLimit) /\ tape' = tape /\ Now' = Now
      /\ lapse' = IF buffer # Empty /\ Latest(buffer) < from THEN from ELSE lapse
  BY <1>2 DEF Poll, Merge, Now
<1>4. /\ DOMAIN full = (from .. last) \cup DOMAIN buffer
      /\ \A t \in from .. last : full[t] = rows[t]
      /\ \A t \in DOMAIN buffer : t \notin from .. last => full[t] = buffer[t]
  BY <1>2 DEF Over
<1>. HIDE DEF rows, last, full
<1>5. DOMAIN full \subseteq 0 .. Now /\ last \in DOMAIN full
  BY <1>1, <1>4
<1>6. /\ DOMAIN buffer' \subseteq DOMAIN full
      /\ \A t \in DOMAIN buffer' : buffer'[t] = full[t]
      /\ \A t \in DOMAIN buffer', u \in DOMAIN full : u > t => u \in DOMAIN buffer'
      /\ DOMAIN buffer' # {}
  <2>1. HistoryLimit \in Nat \ {0}
    BY MarketAssumption DEF MarketAssumption
  <2>2. DOMAIN full # {}
    BY <1>5
  <2>. QED BY <1>1, <1>3, <1>5, <2>1, <2>2, NewestIsTail
<1>7. /\ first \in DOMAIN buffer' /\ newest \in DOMAIN buffer'
      /\ \A t \in DOMAIN buffer' : first <= t /\ t <= newest
  <2>1. DOMAIN buffer' \in SUBSET Nat /\ DOMAIN buffer' \subseteq 0 .. Now
    BY <1>1, <1>5, <1>6
  <2>. QED BY <1>1, <1>6, <2>1, MinOfNaturals, LatestIsLast
<1>8. ClockInv'
  <2>1. lapse' \in 0 .. Now
    BY <1>1, <1>2, <1>3
  <2>. QED BY <1>3, <1>5, <1>6, <2>1 DEF BufferInv, ClockInv
<1>. HIDE DEF first, newest
(* Nothing of the market is missing after the first minute that counts.    *)
<1>9. ASSUME NEW t \in Int, first <= t, lapse' <= t, t <= newest
      PROVE  t \in DOMAIN full /\ (t < newest => full[t] = tape[t])
  <2>1. first \in 0 .. Now /\ newest \in 0 .. Now /\ t \in 0 .. Now
    BY <1>1, <1>5, <1>6, <1>7, <1>9
  <2>2. CASE from <= t /\ t <= last
    <3>1. t \in DOMAIN full /\ full[t] = rows[t]
      BY <1>4, <2>1, <2>2
    <3>2. t < newest => t < Now
      BY <1>1, <2>1
    <3>. QED BY <1>2, <2>1, <2>2, <3>1, <3>2
  <2>3. CASE last < t
    <3>1. t = newest
      BY <1>1, <2>1, <2>3, <1>9
    <3>. QED BY <1>6, <1>7, <3>1
  <2>4. CASE t < from
    <3>1. first \in DOMAIN buffer
      BY <1>4, <1>6, <1>7, <1>9, <2>1, <2>4
    <3>2. buffer # Empty
      BY <3>1 DEF Empty
    <3>3. lapse' = lapse /\ from <= Latest(buffer)
      BY <1>3, <2>4, <3>2, <1>9, BufferTrueBetween, <1>1, <1>2 DEF BufferInv
    <3>4. /\ Latest(buffer) \in 0 .. Now /\ Min(DOMAIN buffer) \in 0 .. Now
          /\ Min(DOMAIN buffer) <= first
          /\ TrueBetween(Max({lapse, Min(DOMAIN buffer)}), Latest(buffer))
      BY <3>1, <3>2, <1>1, BufferTrueBetween DEF BufferInv
    <3>5. Max({lapse, Min(DOMAIN buffer)}) \in Nat /\ Max({lapse, Min(DOMAIN buffer)}) <= t
      BY <1>1, <1>9, <2>1, <3>3, <3>4, LargerOfTwo
    <3>. DEFINE start == Max({lapse, Min(DOMAIN buffer)})
    <3>. HIDE DEF start
    <3>6. start \in Nat /\ start <= t /\ TrueBetween(start, Latest(buffer))
      BY <3>4, <3>5 DEF start
    <3>7. t \in start .. Latest(buffer) /\ t \in start .. Latest(buffer) - 1
      BY <1>2, <2>1, <2>4, <3>3, <3>4, <3>6
    <3>8. t \in DOMAIN buffer /\ buffer[t] = tape[t]
      BY <3>6, <3>7 DEF TrueBetween
    <3>. QED BY <1>4, <2>1, <2>4, <3>8
  <2>. QED BY <1>1, <1>2, <2>1, <2>2, <2>3, <2>4
<1>10. BufferTrue'
  <2>. DEFINE start == Max({lapse', first})
  <2>1. first \in 0 .. Now /\ newest \in 0 .. Now /\ lapse' \in 0 .. Now
    BY <1>1, <1>2, <1>3, <1>5, <1>6, <1>7
  <2>2. start \in Nat /\ first <= start /\ lapse' <= start
    BY <2>1, LargerOfTwo
  <2>. HIDE DEF start
  <2>3. ASSUME NEW t \in start .. newest
        PROVE  t \in DOMAIN buffer' /\ (t < newest => buffer'[t] = tape[t])
    <3>1. t \in Int /\ first <= t /\ lapse' <= t /\ t <= newest
      BY <2>1, <2>2
    <3>2. t \in DOMAIN full /\ (t < newest => full[t] = tape[t])
      BY <1>9, <3>1
    <3>3. t = first \/ t > first
      BY <2>1, <3>1
    <3>4. t \in DOMAIN buffer'
      BY <1>6, <1>7, <3>2, <3>3
    <3>. QED BY <1>6, <3>2, <3>4
  <2>4. /\ start .. newest \subseteq DOMAIN buffer'
        /\ \A t \in start .. newest - 1 : buffer'[t] = tape'[t]
    BY <1>3, <2>1, <2>2, <2>3
  <2>. QED BY <2>4 DEF BufferTrue, start, first, newest
<1>. QED BY <1>8, <1>10 DEF BufferInv

-----------------------------------------------------------------------------
(* The theorem. *)

LEMMA InitBuffer == Init => BufferInv
<1>1. SUFFICES ASSUME Init PROVE BufferInv
  OBVIOUS
<1>2. PICK n \in 1 .. MaxMinutes : DOMAIN tape = 0 .. n - 1
  BY <1>1, MarketAssumption DEF Init, MarketAssumption
<1>3. n \in Nat \ {0}
  BY <1>2, MarketAssumption DEF MarketAssumption
<1>4. Now = n
  <2>1. Cardinality(0 .. n - 1) = n
    BY <1>3, FS_Interval
  <2>. QED BY <1>2, <2>1 DEF Now
<1>. QED BY <1>1, <1>2, <1>3, <1>4 DEF Init, BufferInv, ClockInv, BufferTrue, Empty

LEMMA NextBuffer == BufferInv /\ [Next]_vars => BufferInv'
<1>1. SUFFICES ASSUME BufferInv, [Next]_vars PROVE BufferInv'
  OBVIOUS
<1>2. CASE Minute
  BY <1>1, <1>2, MinuteKeepsBuffer
<1>3. CASE PollClosed
  BY <1>1, <1>3, PollKeepsBuffer DEF PollClosed
<1>4. CASE PollForming
  BY <1>1, <1>4, PollKeepsBuffer DEF PollForming
<1>5. CASE UNCHANGED vars
  BY <1>1, <1>5 DEF vars, BufferInv, ClockInv, BufferTrue, Now
<1>. QED BY <1>1, <1>2, <1>3, <1>4, <1>5 DEF Next

(* Whatever the market, the limits, and the rhythm of the polls, inside a  *)
(* minute or after a lapse: the rolling buffer of api/routes/monitoring.py *)
(* has no hole after its last lapse, and none of its candles but the       *)
(* newest is a partial one.                                                *)
THEOREM BufferIsTrue == Spec => []BufferTrue
<1>1. BufferInv => BufferTrue
  BY DEF BufferInv
<1>. QED BY InitBuffer, NextBuffer, <1>1, PTL DEF Spec

-----------------------------------------------------------------------------
(* What is read off the buffer. *)

(* Whatever the buffer begins with and whatever was lost before its last   *)
(* lapse: a candle build_timeframe_profile derives from completed minutes  *)
(* is the one it derives from the market's record, for every timeframe.    *)
THEOREM DerivedIsMarket == Spec => []DerivedAsMarket
<1>1. ASSUME BufferInv PROVE DerivedAsMarket
  <2>. SUFFICES ASSUME buffer # Empty, NEW tf \in RequiredTfs,
                       NEW start \in DOMAIN Profile(tf, buffer),
                       start >= lapse, start + tf - 1 < Latest(buffer)
                PROVE  /\ start \in DOMAIN Profile(tf, tape)
                       /\ Profile(tf, buffer)[start] = Profile(tf, tape)[start]
    BY DEF DerivedAsMarket
  <2>1. tf \in Nat \ {0, 1}
    BY FunnelAssumption DEF RequiredTfs
  <2>2. /\ Now \in Nat \ {0} /\ DOMAIN tape = 0 .. Now - 1 /\ lapse \in 0 .. Now
        /\ DOMAIN buffer \subseteq 0 .. Now /\ DOMAIN buffer # {}
    BY <1>1 DEF BufferInv, ClockInv
  <2>3. /\ start \in Blocks(tf, buffer)
        /\ Profile(tf, buffer)[start] = Synthetic(tf, buffer, start)
    BY <2>1 DEF Profile
  <2>4. /\ start \in DOMAIN buffer /\ Aligned(tf, start)
        /\ start .. start + tf - 1 \subseteq DOMAIN buffer
    BY <2>1, <2>2, <2>3, BlocksComplete
  <2>5. /\ Latest(buffer) \in 0 .. Now /\ Min(DOMAIN buffer) \in 0 .. Now
        /\ Min(DOMAIN buffer) <= start
        /\ TrueBetween(Max({lapse, Min(DOMAIN buffer)}), Latest(buffer))
    BY <1>1, <2>2, <2>4, BufferTrueBetween DEF BufferInv
  <2>6. ASSUME NEW t \in start .. start + tf - 1 PROVE buffer[t] = tape[t]
    <3>1. Max({lapse, Min(DOMAIN buffer)}) \in Nat
          /\ Max({lapse, Min(DOMAIN buffer)}) <= start
      BY <2>2, <2>4, <2>5, LargerOfTwo
    <3>. DEFINE from == Max({lapse, Min(DOMAIN buffer)})
    <3>. HIDE DEF from
    <3>2. t \in from .. Latest(buffer) - 1
      BY <2>1, <2>2, <2>4, <2>5, <3>1 DEF from
    <3>. QED BY <2>5, <3>2 DEF TrueBetween, from
  <2>7. start \in 0 .. Now - 1 /\ start + tf - 1 <= Now - 1
    BY <2>1, <2>2, <2>4, <2>5
  <2>8. start \in Blocks(tf, tape)
    BY <2>1, <2>2, <2>4, <2>7, BlocksOfRecord
  <2>9. Profile(tf, tape) = [t \in Blocks(tf, tape) |-> Synthetic(tf, tape, t)]
    BY <2>1 DEF Profile
  <2>10. Synthetic(tf, buffer, start) = Synthetic(tf, tape, start)
    <3>. DEFINE block == start .. start + tf - 1
    <3>1. start \in block /\ start + tf - 1 \in block
      BY <2>1, <2>2, <2>4
    <3>2. /\ {buffer[t].h : t \in block} = {tape[t].h : t \in block}
          /\ {buffer[t].l : t \in block} = {tape[t].l : t \in block}
      BY <2>6
    <3>3. buffer[start] = tape[start] /\ buffer[start + tf - 1] = tape[start + tf - 1]
      BY <2>6, <3>1
    <3>. QED BY <3>2, <3>3 DEF Synthetic
  <2>. QED BY <2>3, <2>8, <2>9, <2>10
<1>. QED BY InitBuffer, NextBuffer, <1>1, PTL DEF Spec

(* For every buffer and profile that enters on the retrace, the tracer     *)
(* that moves the radar's rows and the funnel that reports trades decide a *)
(* swing alike.                                                            *)
THEOREM TracerAndFunnelAgree == Spec => []TracerAgreesWithFunnel
<1>1. ASSUME BufferInv PROVE TracerAgreesWithFunnel
  <2>. SUFFICES ASSUME profile.direct,
                       NEW s \in ValidExpansions(LiveView, "HIGH")
                                  \union ValidExpansions(LiveView, "LOW")
                PROVE  Agree(FunnelOutcome(LiveView, s), Trace(LiveView, s))
    BY DEF TracerAgreesWithFunnel, Agree
  <2>1. LiveView.m = buffer /\ LiveView.p = profile
    BY DEF LiveView, ViewWith
  <2>2. DOMAIN LiveView.m \in SUBSET Nat
    BY <1>1, <2>1 DEF BufferInv, ClockInv
  <2>3. PICK kind \in Kinds : s \in ValidExpansions(LiveView, kind)
    BY DEF Kinds
  <2>. QED BY <2>1, <2>2, <2>3, TracerAgrees
<1>. QED BY InitBuffer, NextBuffer, <1>1, PTL DEF Spec

-----------------------------------------------------------------------------
(* The backtest over the market's record. *)

(* For every record and profile that enters on the retrace: each retrace   *)
(* that is counted ends as a close-through, a rejected risk or exactly one *)
(* listed trade, and the summary counts each listed trade once.            *)
THEOREM EveryRetraceAccounted == Spec => []FunnelAccounted
<1>1. ASSUME BufferInv PROVE FunnelAccounted
  <2>. SUFFICES ASSUME profile.direct
                PROVE  LET view == View(profile, tape)
                       IN  Accounted(BearishFunnel(view), BullishFunnel(view),
                                     Performance(CombinedTrades(view)))
    BY DEF FunnelAccounted
  <2>. DEFINE view == View(profile, tape)
  <2>1. DOMAIN tape = 0 .. Now - 1 /\ Now \in Nat \ {0} /\ DOMAIN tape # {}
    BY <1>1 DEF BufferInv, ClockInv
  <2>2. DOMAIN tape \subseteq 0 .. Now
    BY <2>1
  <2>3. /\ DOMAIN Profile(SwingTf, tape) \subseteq 0 .. Now
        /\ DOMAIN Profile(RetraceTf, tape) \subseteq 0 .. Now
    BY <2>1, <2>2, FunnelAssumption, ProfileWithin
  <2>4. /\ view.p = profile
        /\ view.expansions = Expansions(Swings(SwingTf, Profile(SwingTf, tape)))
        /\ view.retrace = Gaps(RetraceTf, Profile(RetraceTf, tape), {})
    BY DEF View, ViewWith
  <2>. HIDE DEF view
  <2>5. Countable(view)
    <3>1. IsFiniteSet(Swings(SwingTf, Profile(SwingTf, tape)))
      BY <2>1, <2>3, SwingsFinite
    <3>2. view.expansions \in SUBSET Swings(SwingTf, Profile(SwingTf, tape))
      BY <2>4 DEF Expansions
    <3>3. IsFiniteSet(view.expansions)
      BY <3>1, <3>2, FS_Subset
    <3>4. \A g \in view.retrace : g.t \in Nat
      <4>1. DOMAIN Profile(RetraceTf, tape) \in SUBSET Nat
        BY <2>1, <2>3
      <4>. QED BY <2>4, <4>1, GapsAtMinutes
    <3>. QED BY <3>3, <3>4 DEF Countable
  <2>6. /\ Unaccounted(Funnel(view, "HIGH")) = 0 /\ Unaccounted(Funnel(view, "LOW")) = 0
        /\ Funnel(view, "HIGH").signals - Funnel(view, "HIGH").riskRejected
             = Cardinality(TradeList(view, "HIGH"))
        /\ Funnel(view, "LOW").signals - Funnel(view, "LOW").riskRejected
             = Cardinality(TradeList(view, "LOW"))
    BY <2>4, <2>5, DirectionAccounted
  <2>7. LET all == Performance(CombinedTrades(view))
        IN  /\ all.total = Cardinality(TradeList(view, "HIGH"))
                            + Cardinality(TradeList(view, "LOW"))
            /\ all.total = all.wins + all.losses + all.unresolved
    BY <2>4, <2>5, TradesAccounted
  <2>8. Accounted(Funnel(view, "HIGH"), Funnel(view, "LOW"), Performance(CombinedTrades(view)))
    BY <2>6, <2>7 DEF Accounted
  <2>. QED BY <2>8 DEF BearishFunnel, BullishFunnel, view
<1>. QED BY InitBuffer, NextBuffer, <1>1, PTL DEF Spec

(* A longer record, by one minute, has every trade the shorter one has     *)
(* reported as won or lost, with the same entry, exit, stop and target.    *)
THEOREM ReportedTradesAreFinal == Spec => TradeIsFinal
<1>1. ASSUME BufferInv, profile \in Profiles, [Next]_vars, tape' # tape
      PROVE  Reported(tape) \subseteq Reported(tape')
  <2>1. Minute
    BY <1>1 DEF Next, PollClosed, PollForming, Poll, vars
  <2>2. PICK bar : tape' = Extended(bar)
    BY <2>1 DEF Minute
  <2>3. DOMAIN tape = 0 .. Now - 1 /\ Now \in Nat \ {0}
    BY <1>1 DEF BufferInv, ClockInv
  <2>4. Part(tape, 0, Now - 1, tape', 0, Now)
    BY <2>2, <2>3 DEF Extended, Part
  <2>5. ~(profile.linked /\ profile.legacy)
    BY <1>1, ProfileAssumption
  <2>. SUFFICES ASSUME NEW t \in CombinedTrades(View(profile, tape)),
                       t.result \in {"WIN", "LOSS"}
                PROVE  t \in CombinedTrades(View(profile, tape'))
    BY DEF Reported
  <2>6. PICK kind \in Kinds : t \in TradeList(View(profile, tape), kind)
    BY DEF CombinedTrades, Kinds
  <2>7. t \in TradeList(View(profile, tape'), kind)
    BY <2>4, <2>5, <2>6, TradesStay
  <2>. QED BY <2>6, <2>7 DEF CombinedTrades, Kinds
<1>2. Init => profile \in Profiles
  BY DEF Init
<1>3. profile \in Profiles /\ [Next]_vars => (profile \in Profiles)'
  BY DEF Next, Minute, PollClosed, PollForming, Poll, vars
<1>4. BufferInv /\ profile \in Profiles /\ [Next]_vars
        => [tape' # tape => Reported(tape) \subseteq Reported(tape')]_vars
  BY <1>1
<1>. QED BY InitBuffer, NextBuffer, <1>2, <1>3, <1>4, PTL DEF Spec, TradeIsFinal

-----------------------------------------------------------------------------
(* The engine that outlives a scan. *)

(* Of the candles that are third candles of expansions of the scan, the    *)
(* engine remembers just the expansion of the scan.                        *)
OwnIndex(index, scan) ==
  \A e \in scan : {s \in index : C3(s) = C3(e)} = RelatedExpansion(C3(e), scan)

IndexInv ==
  /\ profile \in Profiles
  /\ Scannable(buffer) /\ profile.linked => OwnIndex(known, ScanExpansions(buffer))

LEMMA IndexedIsOwn == ASSUME NEW old, NEW new PROVE OwnIndex(Indexed(old, new), new)
<1>. SUFFICES ASSUME NEW e \in new
              PROVE  {s \in Indexed(old, new) : C3(s) = C3(e)} = RelatedExpansion(C3(e), new)
  BY DEF OwnIndex
<1>1. \A t : RelatedExpansion(t, new) \subseteq {s \in new : C3(s) = t}
  BY DEF RelatedExpansion
<1>2. \A s \in Indexed(old, new) :
        C3(s) = C3(e) => s \in new /\ s \in RelatedExpansion(C3(s), new)
  BY DEF Indexed
<1>3. \A s \in RelatedExpansion(C3(e), new) : s \in Indexed(old, new) /\ C3(s) = C3(e)
  BY <1>1 DEF Indexed
<1>. QED BY <1>2, <1>3

(* An index that is its scan's own relates a swing's main gap as the scan  *)
(* alone does.                                                             *)
LEMMA OwnIndexRelates ==
  ASSUME NEW index, NEW scan, OwnIndex(index, scan), NEW e \in scan
  PROVE  RelatedExpansion(C3(e), index) = RelatedExpansion(C3(e), scan)
<1>. DEFINE t == C3(e)
            own == {s \in scan : C3(s) = t}
            low == {s \in own : s.kind = "LOW"}
<1>1. {s \in index : C3(s) = t} = RelatedExpansion(t, scan)
  BY DEF OwnIndex
<1>2. RelatedExpansion(t, scan) = IF low # {} THEN low ELSE own
  BY DEF RelatedExpansion
<1>. HIDE DEF t
<1>3. CASE low # {}
  <2>1. {s \in index : C3(s) = t} = low
    BY <1>1, <1>2, <1>3
  <2>2. {s \in low : s.kind = "LOW"} = low
    OBVIOUS
  <2>. QED BY <1>2, <1>3, <2>1, <2>2 DEF RelatedExpansion, t
<1>4. CASE low = {}
  <2>1. {s \in index : C3(s) = t} = own
    BY <1>1, <1>2, <1>4
  <2>. QED BY <1>2, <1>4, <2>1 DEF RelatedExpansion, t
<1>. QED BY <1>3, <1>4

LEMMA OwnIndexSameGap ==
  ASSUME NEW p, ~(p.linked /\ p.legacy), NEW minutes, NEW remembered,
         p.linked => OwnIndex(remembered, ScanExpansions(minutes)),
         NEW s \in ScanExpansions(minutes)
  PROVE  MainGap(ViewWith(p, minutes, remembered), s) = MainGap(View(p, minutes), s)
<1>. DEFINE scan  == ScanExpansions(minutes)
            live  == ViewWith(p, minutes, remembered)
            fresh == View(p, minutes)
            bars  == Profile(MainTf, minutes)
            index == IF p.linked THEN remembered ELSE {}
            own   == IF p.linked THEN scan ELSE {}
<1>. SUFFICES MainGap(live, s) = MainGap(fresh, s)
  OBVIOUS
<1>1. /\ live.main = Gaps(MainTf, bars, index) /\ live.p = p
      /\ fresh.main = Gaps(MainTf, bars, own) /\ fresh.p = p
  BY DEF View, ViewWith
<1>. HIDE DEF live, fresh, scan, bars
<1>2. CASE ~p.linked
  <2>1. live.main = fresh.main
    BY <1>1, <1>2
  <2>. QED BY <1>1, <2>1 DEF MainGap, MatchesExpansion
<1>3. CASE p.linked
  <2>1. RelatedExpansion(C3(s), remembered) = RelatedExpansion(C3(s), scan)
    BY <1>3, OwnIndexRelates DEF scan
  <2>2. /\ BearishGap(MainTf, bars, C3(s), remembered) = BearishGap(MainTf, bars, C3(s), scan)
        /\ BullishGap(MainTf, bars, C3(s), remembered) = BullishGap(MainTf, bars, C3(s), scan)
    BY <2>1 DEF BearishGap, BullishGap
  <2>3. \A t, e : BearishGap(MainTf, bars, t, e).t = t /\ BullishGap(MainTf, bars, t, e).t = t
    BY DEF BearishGap, BullishGap
  <2>4. \A gap : gap.t = C3(s) =>
          (gap \in Gaps(MainTf, bars, remembered) <=> gap \in Gaps(MainTf, bars, scan))
    BY <2>2, <2>3 DEF Gaps
  <2>5. \A gap : /\ MatchesExpansion(live, gap, s) <=> MatchesExpansion(fresh, gap, s)
                 /\ MatchesExpansion(live, gap, s) => gap.t = C3(s)
    BY <1>1, <1>3 DEF MatchesExpansion
  <2>6. {gap \in live.main : MatchesExpansion(live, gap, s)}
          = {gap \in fresh.main : MatchesExpansion(fresh, gap, s)}
    BY <1>1, <1>3, <2>4, <2>5
  <2>. QED BY <2>6 DEF MainGap
<1>. QED BY <1>2, <1>3

LEMMA InitIndex == Init => IndexInv
<1>. SUFFICES ASSUME Init PROVE IndexInv
  OBVIOUS
<1>1. DOMAIN buffer = {} /\ Cardinality({}) = 0
  BY FS_EmptySet DEF Init, Empty
<1>2. ~Scannable(buffer)
  BY <1>1, MarketAssumption DEF Scannable
<1>. QED BY <1>2 DEF Init, IndexInv

LEMMA NextIndex == IndexInv /\ [Next]_vars => IndexInv'
<1>. SUFFICES ASSUME IndexInv, [Next]_vars PROVE IndexInv'
  OBVIOUS
<1>1. CASE Minute
  BY <1>1 DEF Minute, IndexInv, Scannable
<1>2. ASSUME NEW inProgress \in BOOLEAN, Poll(inProgress) PROVE IndexInv'
  <2>1. profile' = profile
    BY <1>2 DEF Poll
  <2>2. Scannable(buffer') /\ profile.linked
          => known' = Indexed(known, ScanExpansions(buffer'))
    BY <1>2 DEF Poll
  <2>. QED BY <2>1, <2>2, IndexedIsOwn DEF IndexInv
<1>3. CASE UNCHANGED vars
  BY <1>3 DEF vars, IndexInv
<1>. QED BY <1>1, <1>2, <1>3 DEF Next, PollClosed, PollForming

(* The expansions an engine remembers of earlier scans, those of partial   *)
(* candles included, never change the main gap of a swing of this scan.    *)
THEOREM StaleIndexIsHarmless == Spec => []StaleIndexHarmless
<1>1. ASSUME IndexInv PROVE StaleIndexHarmless
  <2>. SUFFICES ASSUME Scannable(buffer), NEW s \in LiveView.expansions
                PROVE  MainGap(LiveView, s) = MainGap(View(profile, buffer), s)
    BY DEF StaleIndexHarmless
  <2>1. s \in ScanExpansions(buffer)
    BY DEF LiveView, ViewWith, ScanExpansions
  <2>. QED BY <1>1, <2>1, OwnIndexSameGap, ProfileAssumption DEF IndexInv, LiveView
<1>. QED BY <1>1, InitIndex, NextIndex, PTL DEF Spec

-----------------------------------------------------------------------------
(* Verdicts that are final. *)

(* A verdict but that of a missing retrace gap is the one the market's own *)
(* record gives for the swing, up to what VerdictStands allows.            *)
FinalInRecord(s, verdict) ==
  /\ verdict.terminal
  /\ s \in Whole(View(profile, tape))
  /\ VerdictStands(View(profile, tape), s, verdict)

VerdictInv ==
  \A s \in DOMAIN verdicts :
    verdicts[s].reason # "FVG_12M_NOT_FOUND" => FinalInRecord(s, verdicts[s])

(* A scan of the newest part of the record sees of a swing that is whole   *)
(* in it what the record has.                                              *)
LEMMA CurrentFollows ==
  ASSUME ClockInv, ProfileAssumption, ShippedTimeframes, profile \in Profiles,
         NEW minutes, DOMAIN minutes \subseteq 0 .. Now, Scannable(minutes), Current(minutes),
         NEW s \in Whole(View(profile, minutes))
  PROVE  /\ Follows(View(profile, minutes), View(profile, tape), s, Now - 1, Now - 1)
         /\ s \in Whole(View(profile, tape))
<1>. DEFINE a == Min(DOMAIN minutes)
<1>1. Now \in Nat \ {0} /\ DOMAIN tape = 0 .. Now - 1
  BY DEF ClockInv
<1>2. DOMAIN minutes # {}
  <2>1. Cardinality({}) = 0
    BY FS_EmptySet
  <2>2. MinCandles \in Nat \ {0}
    BY MarketAssumption DEF MarketAssumption
  <2>. QED BY <2>1, <2>2 DEF Scannable
<1>3. a \in DOMAIN minutes
  <2>1. DOMAIN minutes \in SUBSET Nat
    BY <1>1
  <2>. QED BY <1>2, <2>1, MinOfNaturals
<1>4. DOMAIN minutes = a .. Now - 1 /\ \A t \in DOMAIN minutes : minutes[t] = tape[t]
  BY DEF Current
<1>5. a \in Nat /\ a <= Now - 1
  <2>1. a \in 0 .. Now
    BY <1>3
  <2>. HIDE DEF a
  <2>2. a \in a .. Now - 1
    BY <1>3, <1>4
  <2>. QED BY <1>1, <2>1, <2>2
<1>. HIDE DEF a
<1>6. Part(minutes, a, Now - 1, tape, 0, Now - 1)
  BY <1>1, <1>4, <1>5 DEF Part
<1>7. /\ s \in Swings(SwingTf, Profile(SwingTf, minutes))
      /\ LegStart(s) - MainTf \in DOMAIN Profile(MainTf, minutes)
  BY DEF Whole, View, ViewWith
<1>8. SwingTf \in Nat \ {0, 1} /\ MainTf \in Nat \ {0, 1}
  BY FunnelAssumption
<1>9. a <= LegStart(s) - MainTf
  <2>1. Now - 1 \in Nat
    BY <1>1
  <2>2. LegStart(s) - MainTf \in a .. Now - 1
    BY <1>4, <1>5, <1>7, <1>8, <2>1, ProfileOfRecord
  <2>. QED BY <2>2
<1>10. Follows(View(profile, minutes), View(profile, tape), s, Now - 1, Now - 1)
  BY <1>6, <1>7, <1>9, PartFollows, ProfileAssumption DEF ShippedTimeframes
<1>11. s \in Swings(SwingTf, Profile(SwingTf, tape))
  BY <1>6, <1>7, <1>8, SwingsOfPart
<1>12. LegStart(s) - MainTf \in DOMAIN Profile(MainTf, tape)
  BY <1>6, <1>7, <1>8, ProfileOfPart
<1>. QED BY <1>10, <1>11, <1>12 DEF Whole, View, ViewWith

LEMMA MinuteKeepsVerdicts ==
  ASSUME ClockInv, ShippedTimeframes, profile \in Profiles, VerdictInv, Minute
  PROVE  VerdictInv'
<1>1. PICK bar : tape' = Extended(bar)
  BY DEF Minute
<1>2. DOMAIN tape = 0 .. Now - 1 /\ Now \in Nat \ {0}
  BY DEF ClockInv
<1>3. Part(tape, 0, Now - 1, tape', 0, Now)
  BY <1>1, <1>2 DEF Extended, Part
<1>4. profile' = profile /\ verdicts' = verdicts
  BY DEF Minute
<1>. DEFINE v == View(profile, tape)
            w == View(profile, tape')
<1>. SUFFICES ASSUME NEW s \in DOMAIN verdicts, verdicts[s].reason # "FVG_12M_NOT_FOUND"
              PROVE  s \in Whole(w) /\ VerdictStands(w, s, verdicts[s]) /\ verdicts[s].terminal
  BY <1>4 DEF VerdictInv, FinalInRecord
<1>5. s \in Whole(v) /\ VerdictStands(v, s, verdicts[s]) /\ verdicts[s].terminal
  BY DEF VerdictInv, FinalInRecord
<1>6. /\ s \in Swings(SwingTf, Profile(SwingTf, tape))
      /\ LegStart(s) - MainTf \in DOMAIN Profile(MainTf, tape)
      /\ v.mainBars = Profile(MainTf, tape) /\ v.p = profile
  BY <1>5 DEF Whole, View, ViewWith
<1>7. Follows(v, w, s, Now - 1, Now)
  BY <1>3, <1>6, PartFollows, ProfileAssumption
<1>8. SwingTf \in Nat \ {0, 1} /\ MainTf \in Nat \ {0, 1}
  BY FunnelAssumption
<1>9. s \in Swings(SwingTf, Profile(SwingTf, tape'))
  BY <1>3, <1>6, <1>8, SwingsOfPart
<1>10. LegStart(s) - MainTf \in DOMAIN Profile(MainTf, tape')
  BY <1>3, <1>6, <1>8, ProfileOfPart
<1>11. s \in Whole(w)
  BY <1>9, <1>10 DEF Whole, View, ViewWith
<1>12. VerdictStands(w, s, verdicts[s])
  <2>. HIDE DEF v, w
  <2>. QED BY <1>5, <1>6, <1>7, TraceStays, ProfileAssumption
<1>. QED BY <1>5, <1>11, <1>12

LEMMA PollKeepsVerdicts ==
  ASSUME BufferInv, BufferInv', IndexInv', ShippedTimeframes, profile \in Profiles, VerdictInv,
         NEW inProgress \in BOOLEAN, Poll(inProgress)
  PROVE  VerdictInv'
<1>1. profile' = profile /\ tape' = tape /\ Now' = Now
  BY DEF Poll, Now
<1>. DEFINE live == ViewWith(profile, buffer', known')
            new  == {x \in Whole(live) : Trace(live, x).terminal}
<1>2. \/ verdicts' = verdicts
      \/ /\ Scannable(buffer') /\ Current(buffer')
         /\ verdicts' = Over(verdicts, [s \in new |-> Trace(live, s)])
  BY DEF Poll, Remember
<1>3. CASE verdicts' = verdicts
  BY <1>1, <1>3 DEF VerdictInv, FinalInRecord
<1>4. CASE /\ Scannable(buffer') /\ Current(buffer')
           /\ verdicts' = Over(verdicts, [s \in new |-> Trace(live, s)])
  <2>. SUFFICES ASSUME NEW s \in DOMAIN verdicts',
                       verdicts'[s].reason # "FVG_12M_NOT_FOUND"
                PROVE  FinalInRecord(s, verdicts'[s])
    BY <1>1 DEF VerdictInv, FinalInRecord
  <2>1. CASE s \in DOMAIN verdicts
    <3>1. verdicts'[s] = verdicts[s]
      BY <1>4, <2>1 DEF Over
    <3>. QED BY <2>1, <3>1 DEF VerdictInv
  <2>2. CASE s \notin DOMAIN verdicts
    <3>1. s \in new /\ verdicts'[s] = Trace(live, s)
      BY <1>4, <2>2 DEF Over
    <3>. DEFINE view == View(profile, buffer')
    <3>2. s \in Whole(view) /\ Trace(live, s).terminal
      BY <3>1 DEF Whole, View, ViewWith
    <3>. HIDE DEF live
    <3>3. Follows(view, View(profile, tape), s, Now - 1, Now - 1)
          /\ s \in Whole(View(profile, tape))
      <4>1. ClockInv /\ DOMAIN buffer' \subseteq 0 .. Now
        BY <1>1 DEF BufferInv, ClockInv
      <4>. QED BY <1>4, <3>2, <4>1, CurrentFollows, ProfileAssumption
    <3>4. Trace(live, s) = Trace(view, s)
      <4>1. profile.linked => OwnIndex(known', ScanExpansions(buffer'))
        BY <1>1, <1>4 DEF IndexInv
      <4>2. s \in ScanExpansions(buffer') => MainGap(live, s) = MainGap(view, s)
        BY <4>1, OwnIndexSameGap, ProfileAssumption DEF live
      <4>. QED BY <4>2, TraceByMainGap DEF live
    <3>5. view.p = profile /\ LegStart(s) - MainTf \in DOMAIN view.mainBars
      BY <3>2 DEF Whole, View, ViewWith
    <3>. HIDE DEF view
    <3>6. VerdictStands(view, s, verdicts'[s]) /\ verdicts'[s].terminal
      BY <3>1, <3>2, <3>4 DEF VerdictStands
    <3>7. VerdictStands(View(profile, tape), s, verdicts'[s])
      BY <3>3, <3>5, <3>6, TraceStays, ProfileAssumption
    <3>. QED BY <3>3, <3>6, <3>7 DEF FinalInRecord
  <2>. QED BY <2>1, <2>2
<1>. QED BY <1>2, <1>3, <1>4

LEMMA VerdictsAreThoseOfTheRecord ==
  ASSUME BufferInv, IndexInv, ShippedTimeframes, VerdictInv
  PROVE  VerdictIsFinal
<1>. SUFFICES ASSUME Scannable(buffer), Current(buffer),
                     NEW s \in DOMAIN verdicts \intersect Whole(LiveView),
                     verdicts[s].reason # "FVG_12M_NOT_FOUND"
              PROVE  \/ Trace(LiveView, s) = verdicts[s]
                     \/ Reopened(LiveView, s, verdicts[s])
  BY DEF VerdictIsFinal
<1>. DEFINE v == View(profile, tape)
            w == View(profile, buffer)
<1>1. profile \in Profiles /\ profile.matchWindow \in Nat
  BY ProfileAssumption DEF IndexInv
<1>2. s \in Whole(w)
  BY DEF LiveView, Whole, View, ViewWith
<1>3. Follows(w, v, s, Now - 1, Now - 1)
  <2>1. ClockInv /\ DOMAIN buffer \subseteq 0 .. Now
    BY DEF BufferInv, ClockInv
  <2>. QED BY <1>1, <1>2, <2>1, CurrentFollows, ProfileAssumption
<1>4. Trace(LiveView, s) = Trace(w, s)
  <2>1. profile.linked => OwnIndex(known, ScanExpansions(buffer))
    BY DEF IndexInv
  <2>2. s \in ScanExpansions(buffer) => MainGap(LiveView, s) = MainGap(w, s)
    BY <1>1, <2>1, OwnIndexSameGap, ProfileAssumption DEF LiveView
  <2>. QED BY <2>2, TraceByMainGap DEF LiveView
<1>5. verdicts[s].terminal /\ s \in Whole(v) /\ VerdictStands(v, s, verdicts[s])
  BY DEF VerdictInv, FinalInRecord
<1>6. v.p = profile /\ LegStart(s) - MainTf \in DOMAIN v.mainBars
  BY <1>5 DEF Whole, View, ViewWith
<1>9. LiveView.internal = w.internal
  BY DEF LiveView, View, ViewWith
<1>. HIDE DEF v, w
<1>7. Follows(v, w, s, Now - 1, Now - 1)
  BY <1>3, FollowsBack
<1>8. VerdictStands(w, s, verdicts[s])
  BY <1>1, <1>5, <1>6, <1>7, TraceStays
<1>. QED BY <1>4, <1>8, <1>9 DEF VerdictStands, Reopened, Invalidated, Verdict

(* With the timeframes of any profile the program has: what the tracer has *)
(* said for good of a swing on closed candles without a gap, but that no   *)
(* retrace gap was found, it says in every later scan that still has the   *)
(* leg, also after the buffer has rolled on and whatever the engine        *)
(* remembers.  In the profiles whose internal gaps are of fewer minutes    *)
(* than the 8 of the deadlines, a scan without any internal gap may hold   *)
(* back, but not replace, that none was found for the swing.               *)
THEOREM VerdictsAreFinal == ASSUME ShippedTimeframes PROVE Spec => []VerdictIsFinal
<1>1. Init => VerdictInv
  BY DEF Init, VerdictInv, Empty
<1>2. BufferInv /\ BufferInv' /\ IndexInv /\ IndexInv' /\ VerdictInv /\ [Next]_vars
        => VerdictInv'
  <2>. SUFFICES ASSUME BufferInv, BufferInv', IndexInv, IndexInv', VerdictInv, [Next]_vars
                PROVE  VerdictInv'
    OBVIOUS
  <2>1. CASE Minute
    BY <2>1, MinuteKeepsVerdicts DEF BufferInv, IndexInv
  <2>2. CASE PollClosed
    BY <2>2, PollKeepsVerdicts DEF PollClosed, IndexInv
  <2>3. CASE PollForming
    BY <2>3, PollKeepsVerdicts DEF PollForming, IndexInv
  <2>4. CASE UNCHANGED vars
    BY <2>4 DEF vars, VerdictInv, FinalInRecord
  <2>. QED BY <2>1, <2>2, <2>3, <2>4 DEF Next
<1>3. BufferInv /\ IndexInv /\ VerdictInv => VerdictIsFinal
  BY VerdictsAreThoseOfTheRecord
<1>. QED BY <1>1, <1>2, <1>3, InitBuffer, NextBuffer, InitIndex, NextIndex, PTL DEF Spec

-----------------------------------------------------------------------------
(* Types. *)

(* A candle as Candle.__post_init__ lets it pass. *)
Candle == {bar \in [o : Int, h : Int, l : Int, c : Int] : WellFormed(bar)}

TypeInv ==
  /\ BufferInv
  /\ profile \in Profiles /\ Now <= MaxMinutes
  /\ \A t \in DOMAIN tape : tape[t] \in Candle
  /\ \A t \in DOMAIN buffer : buffer[t] \in Candle
  /\ Cardinality(DOMAIN buffer) <= HistoryLimit
  /\ \A s \in known \union DOMAIN verdicts : s.kind \in Kinds

LEMMA SwingsHaveKinds ==
  ASSUME NEW tf, NEW series, NEW s \in Swings(tf, series) PROVE s.kind \in Kinds
  BY DEF Swings, SwingHighs, SwingLows, SwingHigh, SwingLow, Kinds

LEMMA FormingIsCandle == TypeInv => Forming \in Candle
<1>. SUFFICES ASSUME TypeInv PROVE Forming \in Candle
  OBVIOUS
<1>1. Now - 1 \in DOMAIN tape
  BY DEF TypeInv, BufferInv, ClockInv
<1>2. tape[Now - 1] \in Candle
  BY <1>1 DEF TypeInv
<1>3. LastClose \in Int
  BY <1>2 DEF LastClose, Candle
<1>. QED BY <1>3 DEF Forming, Bar, Candle, WellFormed

LEMMA MinuteKeepsTypes ==
  ASSUME \A n \in Nat, c \in Int : Moves(n, c) \subseteq Candle, TypeInv, Minute
  PROVE  TypeInv'
<1>1. BufferInv'
  BY MinuteKeepsBuffer DEF TypeInv
<1>2. Now - 1 \in DOMAIN tape /\ DOMAIN tape = 0 .. Now - 1 /\ Now \in Nat \ {0}
  BY DEF TypeInv, BufferInv, ClockInv
<1>3. LastClose \in Int
  BY <1>2 DEF TypeInv, LastClose, Candle
<1>4. PICK bar \in Moves(Now, LastClose) : tape' = Extended(bar)
  BY DEF Minute
<1>5. bar \in Candle
  BY <1>2, <1>3, <1>4
<1>6. DOMAIN tape' = 0 .. Now /\ \A t \in DOMAIN tape' : tape'[t] \in Candle
  BY <1>2, <1>4, <1>5 DEF Extended, TypeInv
<1>7. Now' = Now + 1 /\ Now' <= MaxMinutes
  <2>1. Cardinality(0 .. Now) = Now + 1
    BY <1>2, FS_Interval
  <2>. QED BY <1>2, <1>6, <2>1, MarketAssumption DEF Now, Minute
<1>. QED BY <1>1, <1>6, <1>7 DEF TypeInv, Minute

LEMMA PollKeepsTypes ==
  ASSUME TypeInv, NEW inProgress \in BOOLEAN, Poll(inProgress) PROVE TypeInv'
<1>. DEFINE rows == Fetched(inProgress)
            last == IF inProgress THEN Now ELSE Now - 1
            full == Over(rows, buffer)
<1>1. BufferInv'
  BY PollKeepsBuffer DEF TypeInv
<1>2. /\ Now \in Nat \ {0} /\ DOMAIN tape = 0 .. Now - 1 /\ DOMAIN buffer \subseteq 0 .. Now
      /\ last \in 0 .. Now
  BY DEF TypeInv, BufferInv, ClockInv
<1>3. PICK from \in 0 .. last :
        /\ DOMAIN rows = from .. last
        /\ \A t \in from .. last : t < Now => rows[t] = tape[t]
        /\ inProgress => rows[Now] = Forming
  BY FetchedFromMarket DEF TypeInv, BufferInv
<1>4. ASSUME NEW t \in from .. last PROVE rows[t] \in Candle
  <2>1. CASE t < Now
    <3>1. t \in DOMAIN tape
      BY <1>2, <2>1
    <3>. QED BY <1>3, <2>1, <3>1 DEF TypeInv
  <2>2. CASE ~(t < Now)
    <3>1. t = Now /\ inProgress
      BY <1>2, <2>2
    <3>. QED BY <1>3, <3>1, FormingIsCandle
  <2>. QED BY <2>1, <2>2
<1>5. /\ DOMAIN full \subseteq 0 .. Now
      /\ \A t \in DOMAIN full : full[t] \in Candle
  BY <1>2, <1>3, <1>4 DEF Over, TypeInv
<1>6. buffer' = Newest(full, HistoryLimit) /\ HistoryLimit \in Nat \ {0}
  BY MarketAssumption DEF Poll, Merge
<1>. HIDE DEF full, rows
<1>7. /\ \A t \in DOMAIN buffer' : buffer'[t] \in Candle
      /\ Cardinality(DOMAIN buffer') <= HistoryLimit
  <2>1. Cardinality(DOMAIN Newest(full, HistoryLimit)) <= HistoryLimit
    BY <1>2, <1>5, <1>6, NewestIsShort
  <2>2. /\ DOMAIN Newest(full, HistoryLimit) \subseteq DOMAIN full
        /\ \A t \in DOMAIN Newest(full, HistoryLimit) :
             Newest(full, HistoryLimit)[t] = full[t]
    BY <1>2, <1>5, <1>6, NewestIsTail
  <2>. QED BY <1>5, <1>6, <2>1, <2>2
<1>8. known' \subseteq known \union ScanExpansions(buffer')
  BY DEF Poll, Indexed
<1>9. \A s \in known' : s.kind \in Kinds
  BY <1>8, SwingsHaveKinds DEF ScanExpansions, Expansions, TypeInv
<1>10. DOMAIN verdicts' \subseteq DOMAIN verdicts \union ViewWith(profile, buffer', known').swings
  BY DEF Poll, Remember, Over, Whole
<1>11. \A s \in DOMAIN verdicts' : s.kind \in Kinds
  BY <1>10, SwingsHaveKinds DEF ViewWith, TypeInv
<1>. QED BY <1>1, <1>7, <1>9, <1>11 DEF TypeInv, Poll, Now

(* While the exchange only sends candles that pass Candle.__post_init__:   *)
(* the buffer keeps its limit, holds no malformed candle, the partial one  *)
(* included, and no minute that has not begun.                             *)
THEOREM TypeCorrect ==
  ASSUME \A record \in Openings : \A t \in DOMAIN record : record[t] \in Candle,
         \A n \in Nat, c \in Int : Moves(n, c) \subseteq Candle
  PROVE  Spec => []TypeOK
<1>1. Init => TypeInv
  <2>. SUFFICES ASSUME Init PROVE TypeInv
    OBVIOUS
  <2>1. BufferInv
    BY InitBuffer
  <2>2. PICK n \in 1 .. MaxMinutes : DOMAIN tape = 0 .. n - 1
    BY MarketAssumption DEF Init
  <2>3. Now = n
    <3>1. n \in Nat \ {0}
      BY <2>2, MarketAssumption
    <3>2. Cardinality(0 .. n - 1) = n
      BY <3>1, FS_Interval
    <3>. QED BY <2>2, <3>2 DEF Now
  <2>4. DOMAIN buffer = {} /\ DOMAIN verdicts = {} /\ Cardinality({}) = 0
    BY FS_EmptySet DEF Init, Empty
  <2>5. Now <= MaxMinutes /\ 0 <= HistoryLimit
    BY <2>2, <2>3, MarketAssumption
  <2>. QED BY <2>1, <2>4, <2>5 DEF Init, TypeInv
<1>2. TypeInv /\ [Next]_vars => TypeInv'
  <2>. SUFFICES ASSUME TypeInv, [Next]_vars PROVE TypeInv'
    OBVIOUS
  <2>1. CASE Minute
    BY <2>1, MinuteKeepsTypes
  <2>2. CASE PollClosed
    BY <2>2, PollKeepsTypes DEF PollClosed
  <2>3. CASE PollForming
    BY <2>3, PollKeepsTypes DEF PollForming
  <2>4. CASE UNCHANGED vars
    BY <2>4, NextBuffer DEF vars, TypeInv, Now
  <2>. QED BY <2>1, <2>2, <2>3, <2>4 DEF Next
<1>3. TypeInv => TypeOK
  BY DEF TypeInv, TypeOK, BufferInv, ClockInv, Candle
<1>. QED BY <1>1, <1>2, <1>3, PTL DEF Spec
=============================================================================
