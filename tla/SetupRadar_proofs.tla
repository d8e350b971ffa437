------------------------- MODULE SetupRadar_proofs -------------------------
(* Theorems about SetupRadar and their proofs.                             *)
EXTENDS SetupRadar, SequenceTheorems, FiniteSetTheorems, TLAPS

-----------------------------------------------------------------------------
(* Lists of rows. *)

(* No two rows of a list are of one swing. *)
Distinct(seq) ==
  \A i, j \in DOMAIN seq : seq[i].swing = seq[j].swing => i = j

(* Nth counts the places of a list through, each of them once. *)
LEMMA NthCounts ==
  ASSUME NEW n \in Nat, NEW places \in SUBSET (1..n)
  PROVE  /\ Cardinality(places) \in 0..n
         /\ \A k \in 1..Cardinality(places) : Nth(places, k) \in places
         /\ \A k, l \in 1..Cardinality(places) :
              Nth(places, k) = Nth(places, l) => k = l
         /\ \A i \in places : \E k \in 1..Cardinality(places) :
              Nth(places, k) = i
<1>. DEFINE c == Cardinality(places)
            upTo(i) == {j \in places : j <= i}
            rank == [i \in places |-> Cardinality(upTo(i))]
<1>1. IsFiniteSet(1..n) /\ Cardinality(1..n) = n
  BY FS_Interval
<1>2. IsFiniteSet(places) /\ c \in Nat /\ c <= n
  BY <1>1, FS_Subset, FS_CardinalityType
<1>3. \A i \in places : /\ IsFiniteSet(upTo(i)) /\ Cardinality(upTo(i)) \in Nat
                        /\ Cardinality(upTo(i)) <= c
                        /\ Cardinality(upTo(i)) # 0
  <2>. TAKE i \in places
  <2>1. upTo(i) \subseteq places /\ i \in upTo(i)
    OBVIOUS
  <2>. QED BY <2>1, <1>2, FS_Subset, FS_CardinalityType, FS_EmptySet
<1>4. rank \in [places -> 1..c]
  <2>. HIDE DEF upTo, c
  <2>. QED BY <1>2, <1>3
<1>5. \A i, j \in places : i < j => Cardinality(upTo(i)) < Cardinality(upTo(j))
  <2>. TAKE i, j \in places
  <2>. HAVE i < j
  <2>1. \A k \in places : k \in Int
    OBVIOUS
  <2>2. upTo(i) \subseteq upTo(j) /\ j \in upTo(j) /\ j \notin upTo(i)
    <3>1. \A k \in places : k <= i => k <= j
      BY <2>1
    <3>2. j <= j /\ ~(j <= i)
      BY <2>1
    <3>. QED BY <3>1, <3>2
  <2>3. upTo(i) # upTo(j) /\ IsFiniteSet(upTo(j))
    BY <2>2, <1>3
  <2>. HIDE DEF upTo
  <2>4. Cardinality(upTo(i)) \in Nat /\ Cardinality(upTo(j)) \in Nat
    BY <1>3
  <2>5. /\ Cardinality(upTo(i)) <= Cardinality(upTo(j))
        /\ Cardinality(upTo(i)) = Cardinality(upTo(j)) => upTo(i) = upTo(j)
    BY <2>2, <2>3, FS_Subset
  <2>. QED BY <2>3, <2>4, <2>5
<1>6. \A i, j \in places : rank[i] = rank[j] => i = j
  <2>. TAKE i, j \in places
  <2>1. i \in Int /\ j \in Int /\ rank[i] \in Int /\ rank[j] \in Int
    BY <1>4, <1>2
  <2>. QED BY <2>1, <1>5
<1>7. rank \in Surjection(places, 1..c)
  <2>1. rank \in Injection(places, 1..c)
    BY <1>4, <1>6 DEF Injection, IsInjective
  <2>2. IsFiniteSet(1..c) /\ Cardinality(1..c) = c
    BY <1>2, FS_Interval
  <2>. QED BY <2>1, <2>2, FS_Injection
<1>8. \A k \in 1..c : \E i \in places : rank[i] = k
  BY <1>7 DEF Surjection
<1>9. \A k \in 1..c : Nth(places, k) \in places /\ rank[Nth(places, k)] = k
  <2>. TAKE k \in 1..c
  <2>1. PICK i \in places : Cardinality({j \in places : j <= i}) = k
    BY <1>8
  <2>. QED BY <2>1 DEF Nth
<1>10. \A i \in places : Nth(places, rank[i]) = i
  BY <1>4, <1>6, <1>9
<1>. HIDE DEF rank, upTo
<1>11. c \in 0..n
  BY <1>2
<1>. QED BY <1>4, <1>9, <1>10, <1>11

(* Filter keeps, in their places, the rows of the list that are in the set.*)
LEMMA FilterKeeps ==
  ASSUME NEW seq \in Seq(Row), NEW rows
  PROVE  /\ Filter(seq, rows) \in Seq(Row)
         /\ Len(Filter(seq, rows)) <= Len(seq)
         /\ RowsOf(Filter(seq, rows)) = RowsOf(seq) \cap rows
         /\ Distinct(seq) => Distinct(Filter(seq, rows))
<1>. DEFINE places == {i \in DOMAIN seq : seq[i] \in rows}
            c == Cardinality(places)
            q == [k \in 1..c |-> seq[Nth(places, k)]]
<1>1. Len(seq) \in Nat /\ DOMAIN seq = 1..Len(seq)
      /\ \A i \in 1..Len(seq) : seq[i] \in Row
  BY LenProperties, ElementOfSeq
<1>2. places \in SUBSET (1..Len(seq))
  BY <1>1
<1>. HIDE DEF places
<1>3. /\ c \in 0..Len(seq)
      /\ \A k \in 1..c : Nth(places, k) \in places
      /\ \A k, l \in 1..c : Nth(places, k) = Nth(places, l) => k = l
      /\ \A i \in places : \E k \in 1..c : Nth(places, k) = i
  BY <1>1, <1>2, NthCounts
<1>4. Filter(seq, rows) = q
  BY DEF Filter, places
<1>. HIDE DEF c
<1>5. \A k \in 1..c : seq[Nth(places, k)] \in Row
  BY <1>1, <1>2, <1>3
<1>6. q \in Seq(Row)
  BY <1>3, <1>5, IsASeq
<1>7. Len(q) = c /\ DOMAIN q = 1..c
  BY <1>3, <1>6, LenProperties
<1>8. RowsOf(q) = RowsOf(seq) \cap rows
  <2>1. ASSUME NEW k \in 1..c PROVE q[k] \in RowsOf(seq) \cap rows
    BY <1>3, <1>2, <1>1 DEF RowsOf, places
  <2>2. ASSUME NEW i \in DOMAIN seq, seq[i] \in rows
        PROVE  \E k \in 1..c : q[k] = seq[i]
    <3>1. i \in places
      BY <2>2 DEF places
    <3>. QED BY <3>1, <1>3
  <2>. QED BY <2>1, <2>2, <1>7 DEF RowsOf
<1>9. ASSUME Distinct(seq) PROVE Distinct(q)
  <2>1. SUFFICES ASSUME NEW k \in 1..c, NEW l \in 1..c, q[k].swing = q[l].swing
                 PROVE  k = l
    BY <1>7 DEF Distinct
  <2>2. Nth(places, k) = Nth(places, l)
    BY <2>1, <1>9, <1>3 DEF Distinct, places
  <2>. QED BY <2>2, <1>3
<1>10. c <= Len(seq)
  BY <1>1, <1>3
<1>. QED BY <1>4, <1>6, <1>7, <1>8, <1>9, <1>10

(* Without drops the rows of one id. *)
LEMMA WithoutKeeps ==
  ASSUME NEW seq \in Seq(Row), NEW id
  PROVE  /\ Without(seq, id) \in Seq(Row)
         /\ Len(Without(seq, id)) <= Len(seq)
         /\ RowsOf(Without(seq, id)) = {x \in RowsOf(seq) : x.id # id}
         /\ Distinct(seq) => Distinct(Without(seq, id))
BY FilterKeeps DEF Without

(* A list with one row per swing is no longer than there are swings. *)
LEMMA DistinctIsShort ==
  ASSUME NEW seq \in Seq(Row), Distinct(seq)
  PROVE  Len(seq) <= Cardinality(Swings)
<1>. DEFINE swingAt == [i \in 1..Len(seq) |-> seq[i].swing]
<1>1. /\ Len(seq) \in Nat /\ DOMAIN seq = 1..Len(seq)
      /\ \A i \in 1..Len(seq) : seq[i] \in Row
  BY LenProperties, ElementOfSeq
<1>2. \A i \in 1..Len(seq) : seq[i].swing \in Swings
  BY <1>1 DEF Row
<1>3. swingAt \in Injection(1..Len(seq), Swings)
  <2>1. swingAt \in [1..Len(seq) -> Swings]
    BY <1>2
  <2>2. \A i, j \in 1..Len(seq) : swingAt[i] = swingAt[j] => i = j
    BY <1>1 DEF Distinct
  <2>. QED BY <2>1, <2>2 DEF Injection, IsInjective
<1>4. Cardinality(1..Len(seq)) <= Cardinality(Swings)
  BY <1>3, RadarAssumption, FS_Injection
<1>. QED BY <1>1, <1>4, FS_Interval

(* Put replaces the row of that id, or appends. *)
LEMMA PutKeeps ==
  ASSUME NEW seq \in Seq(Row), NEW row \in Row
  PROVE  /\ Put(seq, row) \in Seq(Row)
         /\ Len(Put(seq, row)) = IF Has(seq, row.id) THEN Len(seq)
                                                    ELSE Len(seq) + 1
         /\ ~Has(seq, row.id) => Put(seq, row)[Len(seq) + 1] = row
         /\ RowsOf(Put(seq, row)) =
              {row} \cup {x \in RowsOf(seq) : x.id # row.id}
         /\ Distinct(seq) /\ (\A x \in RowsOf(seq) : x.id = row.id <=>
                                                    x.swing = row.swing)
              => Distinct(Put(seq, row))
<1>. DEFINE n == Len(seq)
            placed == [i \in DOMAIN seq |->
                         IF seq[i].id = row.id THEN row ELSE seq[i]]
<1>1. /\ n \in Nat /\ DOMAIN seq = 1..n
      /\ \A i \in 1..n : seq[i] \in Row
  BY LenProperties, ElementOfSeq
<1>2. \A x : x \in RowsOf(seq) <=> \E i \in 1..n : x = seq[i]
  BY <1>1 DEF RowsOf
<1>. HIDE DEF n
<1>3. CASE Has(seq, row.id)
  <2>1. Put(seq, row) = placed
    BY <1>3 DEF Put
  <2>2. placed \in Seq(Row)
    <3>1. \A i \in 1..n : (IF seq[i].id = row.id THEN row ELSE seq[i]) \in Row
      BY <1>1
    <3>2. [i \in 1..n |-> IF seq[i].id = row.id THEN row ELSE seq[i]] \in Seq(Row)
      BY <1>1, <3>1, IsASeq
    <3>. QED BY <3>2, <1>1
  <2>3. Len(placed) = n /\ DOMAIN placed = 1..n
    BY <1>1, <2>2, LenProperties
  <2>4. \A i \in 1..n : placed[i] = IF seq[i].id = row.id THEN row ELSE seq[i]
    BY <1>1
  <2>. HIDE DEF placed
  <2>5. PICK i \in 1..n : seq[i].id = row.id
    BY <1>2, <1>3 DEF Has
  <2>6. RowsOf(placed) = {row} \cup {x \in RowsOf(seq) : x.id # row.id}
    <3>1. \A x : x \in RowsOf(placed) <=> \E k \in 1..n : x = placed[k]
      BY <2>3 DEF RowsOf
    <3>2. ASSUME NEW x \in RowsOf(placed)
          PROVE  x = row \/ (x \in RowsOf(seq) /\ x.id # row.id)
      BY <3>1, <2>4, <1>2
    <3>3. row \in RowsOf(placed)
      BY <3>1, <2>4, <2>5
    <3>4. ASSUME NEW x \in RowsOf(seq), x.id # row.id PROVE x \in RowsOf(placed)
      BY <3>1, <3>4, <2>4, <1>2
    <3>. QED BY <3>2, <3>3, <3>4
  <2>7. ASSUME Distinct(seq), \A x \in RowsOf(seq) : x.id = row.id <=>
                                                    x.swing = row.swing
        PROVE  Distinct(placed)
    <3>1. \A k \in 1..n : placed[k].swing = seq[k].swing
      BY <2>4, <2>7, <1>2
    <3>. QED BY <3>1, <2>3, <2>7, <1>1 DEF Distinct
  <2>. QED BY <1>3, <2>1, <2>2, <2>3, <2>6, <2>7 DEF n
<1>4. CASE ~Has(seq, row.id)
  <2>. DEFINE q == Append(seq, row)
  <2>1. Put(seq, row) = q
    BY <1>4 DEF Put
  <2>2. /\ q \in Seq(Row) /\ Len(q) = n + 1 /\ DOMAIN q = 1..(n + 1)
        /\ \A i \in 1..n : q[i] = seq[i]
        /\ q[n + 1] = row
    BY <1>1, AppendProperties, LenProperties DEF n
  <2>. HIDE DEF q
  <2>3. \A i \in 1..(n + 1) : i \in 1..n \/ i = n + 1
    BY <1>1
  <2>3a. n + 1 \in 1..(n + 1) /\ 1..n \subseteq 1..(n + 1) /\ n + 1 \notin 1..n
    BY <1>1
  <2>4. \A x \in RowsOf(seq) : x.id # row.id
    BY <1>4 DEF Has
  <2>5. RowsOf(q) = {row} \cup {x \in RowsOf(seq) : x.id # row.id}
    <3>1. \A x : x \in RowsOf(q) <=> \E k \in 1..(n + 1) : x = q[k]
      BY <2>2 DEF RowsOf
    <3>2. ASSUME NEW x \in RowsOf(q)
          PROVE  x = row \/ (x \in RowsOf(seq) /\ x.id # row.id)
      BY <3>1, <2>2, <2>3, <2>4, <1>2
    <3>3. row \in RowsOf(q)
      BY <3>1, <2>2, <2>3a
    <3>4. ASSUME NEW x \in RowsOf(seq) PROVE x \in RowsOf(q)
      BY <3>1, <2>2, <2>3a, <1>2
    <3>. QED BY <3>2, <3>3, <3>4
  <2>6. ASSUME Distinct(seq), \A x \in RowsOf(seq) : x.id = row.id <=>
                                                    x.swing = row.swing
        PROVE  Distinct(q)
    <3>1. \A k \in 1..n : seq[k].swing # row.swing
      BY <2>4, <2>6, <1>2
    <3>. QED BY <3>1, <2>2, <2>3, <2>6, <1>1 DEF Distinct
  <2>. QED BY <1>4, <2>1, <2>2, <2>5, <2>6 DEF n
<1>. QED BY <1>3, <1>4

(* The cap drops rows from the front, and none of a short list. *)
LEMMA CapKeeps ==
  ASSUME NEW seq \in Seq(Row)
  PROVE  /\ CapInProgress(seq) \in Seq(Row)
         /\ Len(CapInProgress(seq)) <= MaxInProgress
         /\ RowsOf(CapInProgress(seq)) \subseteq RowsOf(seq)
         /\ Len(seq) > 0 => seq[Len(seq)] \in RowsOf(CapInProgress(seq))
         /\ Len(seq) <= MaxInProgress => CapInProgress(seq) = seq
         /\ Distinct(seq) => Distinct(CapInProgress(seq))
<1>. DEFINE n == Len(seq)
            first == n - MaxInProgress + 1
            q == SubSeq(seq, first, n)
<1>1. /\ n \in Nat /\ DOMAIN seq = 1..n
      /\ \A i \in 1..n : seq[i] \in Row
  BY LenProperties, ElementOfSeq
<1>2. MaxInProgress \in Nat \ {0}
  BY RadarAssumption
<1>3. CASE n <= MaxInProgress
  <2>1. CapInProgress(seq) = seq
    BY <1>1, <1>2, <1>3 DEF CapInProgress
  <2>2. n > 0 => n \in 1..n
    BY <1>1
  <2>. QED BY <1>1, <1>3, <2>1, <2>2 DEF RowsOf
<1>4. CASE n > MaxInProgress
  <2>1. CapInProgress(seq) = q
    BY <1>1, <1>2, <1>4 DEF CapInProgress
  <2>2. first \in 1..n /\ n - first + 1 = MaxInProgress
    BY <1>1, <1>2, <1>4
  <2>. HIDE DEF first, n
  <2>3. \A i \in first..n : seq[i] \in Row
    BY <2>2, <1>1
  <2>4. /\ q \in Seq(Row)
        /\ Len(q) = MaxInProgress
        /\ \A i \in 1..MaxInProgress : q[i] = seq[first + i - 1]
    BY <2>2, <2>3, <1>1, <1>2, SubSeqProperties
  <2>5. DOMAIN q = 1..MaxInProgress
    BY <2>4, LenProperties
  <2>. HIDE DEF q
  <2>6. \A i \in 1..MaxInProgress : first + i - 1 \in 1..n
    BY <2>2, <1>1, <1>2
  <2>7. RowsOf(q) \subseteq RowsOf(seq)
    BY <2>4, <2>5, <2>6, <1>1 DEF RowsOf
  <2>8. seq[n] \in RowsOf(q)
    <3>1. MaxInProgress \in DOMAIN q /\ first + MaxInProgress - 1 = n
      BY <2>5, <2>2, <1>1, <1>2
    <3>. QED BY <3>1, <2>4, <2>5 DEF RowsOf
  <2>9. ASSUME Distinct(seq) PROVE Distinct(q)
    <3>1. SUFFICES ASSUME NEW i \in 1..MaxInProgress, NEW j \in 1..MaxInProgress,
                          q[i].swing = q[j].swing
                   PROVE  i = j
      BY <2>5 DEF Distinct
    <3>2. first + i - 1 = first + j - 1
      BY <3>1, <2>4, <2>6, <2>9, <1>1 DEF Distinct
    <3>. QED BY <3>2, <2>2, <1>1, <1>2
  <2>. QED BY <2>1, <2>4, <2>7, <2>8, <2>9, <1>1, <1>2, <1>4 DEF n
<1>. HIDE DEF n
<1>. QED BY <1>1, <1>2, <1>3, <1>4

KeptList(seq, row) == CapInProgress(Put(seq, row))

(* What Keep does to IN PROGRESS: the row is there, in place of any row of *)
(* its id, and other rows are lost only to the cap.                        *)
LEMMA KeptRows ==
  ASSUME NEW seq \in Seq(Row), NEW row \in Row, Len(seq) <= MaxInProgress
  PROVE  LET q    == KeptList(seq, row)
             rest == {x \in RowsOf(seq) : x.id # row.id}
             only == \A x \in RowsOf(seq) : x.id = row.id <=> x.swing = row.swing
         IN  /\ q \in Seq(Row) /\ Len(q) <= MaxInProgress
             /\ row \in RowsOf(q) /\ RowsOf(q) \subseteq {row} \cup rest
             /\ Distinct(seq) /\ only => Distinct(q)
             /\ Distinct(seq) /\ only /\ Cardinality(Swings) <= MaxInProgress
                  => RowsOf(q) = {row} \cup rest
<1>. DEFINE q    == KeptList(seq, row)
            p    == Put(seq, row)
            rest == {x \in RowsOf(seq) : x.id # row.id}
            only == \A x \in RowsOf(seq) : x.id = row.id <=> x.swing = row.swing
<1>1. /\ p \in Seq(Row)
      /\ Len(p) = IF Has(seq, row.id) THEN Len(seq) ELSE Len(seq) + 1
      /\ ~Has(seq, row.id) => p[Len(seq) + 1] = row
      /\ RowsOf(p) = {row} \cup rest
      /\ Distinct(seq) /\ only => Distinct(p)
  BY PutKeeps
<1>2. q = CapInProgress(p)
  BY DEF KeptList
<1>3. Len(seq) \in Nat /\ Len(p) \in Nat /\ MaxInProgress \in Nat
      /\ Cardinality(Swings) \in Nat
  BY <1>1, LenProperties, RadarAssumption, FS_CardinalityType
<1>. HIDE DEF p, q, rest, only
<1>4. /\ q \in Seq(Row)
      /\ Len(q) <= MaxInProgress
      /\ RowsOf(q) \subseteq RowsOf(p)
      /\ Len(p) > 0 => p[Len(p)] \in RowsOf(q)
      /\ Len(p) <= MaxInProgress => q = p
      /\ Distinct(p) => Distinct(q)
  BY <1>1, <1>2, CapKeeps
<1>5. row \in RowsOf(q)
  <2>1. CASE Has(seq, row.id)
    BY <2>1, <1>1, <1>4
  <2>2. CASE ~Has(seq, row.id)
    BY <2>2, <1>1, <1>3, <1>4
  <2>. QED BY <2>1, <2>2
<1>6. ASSUME Distinct(seq), only, Cardinality(Swings) <= MaxInProgress
      PROVE  RowsOf(q) = {row} \cup rest
  <2>1. Len(p) <= Cardinality(Swings)
    BY <1>6, <1>1, DistinctIsShort
  <2>. QED BY <2>1, <1>1, <1>3, <1>4, <1>6
<1>. QED BY <1>1, <1>4, <1>5, <1>6 DEF q, rest, only

(* A terminal list takes the row in front; older ones may fall off the end.*)
LEMMA PrependKeeps ==
  ASSUME NEW seq \in Seq(Row), NEW row \in Row, Len(seq) <= MaxTracked
  PROVE  LET q == Prepend(seq, row)
         IN  /\ q \in Seq(Row) /\ Len(q) <= MaxTracked
             /\ row \in RowsOf(q) /\ RowsOf(q) \subseteq {row} \cup RowsOf(seq)
             /\ Distinct(seq) /\ (\A x \in RowsOf(seq) : x.swing # row.swing)
                  => Distinct(q)
<1>. DEFINE q == Prepend(seq, row)
            all == <<row>> \o seq
            n == Len(seq)
            m == IF n < MaxTracked THEN n + 1 ELSE MaxTracked
<1>1. /\ n \in Nat /\ DOMAIN seq = 1..n
      /\ \A i \in 1..n : seq[i] \in Row
  BY LenProperties, ElementOfSeq
<1>2. MaxTracked \in Nat \ {0}
  BY RadarAssumption
<1>3. <<row>> \in Seq(Row) /\ Len(<<row>>) = 1 /\ <<row>>[1] = row
  OBVIOUS
<1>4. /\ all \in Seq(Row) /\ Len(all) = n + 1
      /\ \A i \in 1..(n + 1) : all[i] = IF i <= 1 THEN <<row>>[i] ELSE seq[i - 1]
  BY <1>1, <1>3, ConcatProperties
<1>5. q = SubSeq(all, 1, m)
  BY DEF Prepend
<1>6. m \in 1..(n + 1) /\ m <= MaxTracked
  BY <1>1, <1>2
<1>. HIDE DEF all, m, n
<1>7. all[1] = row /\ \A i \in 2..(n + 1) : all[i] = seq[i - 1] /\ i - 1 \in 1..n
  BY <1>1, <1>3, <1>4
<1>8. \A i \in 1..m : all[i] \in Row
  BY <1>4, <1>6, <1>1, ElementOfSeq
<1>9. /\ q \in Seq(Row) /\ Len(q) = m
      /\ \A i \in 1..m : q[i] = all[i]
  <2>1. /\ SubSeq(all, 1, m) \in Seq(Row)
        /\ Len(SubSeq(all, 1, m)) = IF 1 <= m THEN m - 1 + 1 ELSE 0
        /\ \A i \in 1..(m - 1 + 1) : SubSeq(all, 1, m)[i] = all[1 + i - 1]
    BY <1>6, <1>1, <1>8, SubSeqProperties
  <2>. QED BY <2>1, <1>5, <1>6, <1>1
<1>10. DOMAIN q = 1..m
  BY <1>9, LenProperties
<1>. HIDE DEF q
<1>11. row \in RowsOf(q)
  <2>1. 1 \in 1..m
    BY <1>6, <1>1
  <2>. QED BY <2>1, <1>7, <1>9, <1>10 DEF RowsOf
<1>12. RowsOf(q) \subseteq {row} \cup RowsOf(seq)
  <2>1. \A i \in 1..m : i = 1 \/ i \in 2..(n + 1)
    BY <1>6, <1>1
  <2>2. \A k \in 1..n : seq[k] \in RowsOf(seq)
    BY <1>1 DEF RowsOf
  <2>3. ASSUME NEW i \in 1..m PROVE q[i] \in {row} \cup RowsOf(seq)
    BY <2>1, <2>2, <1>7, <1>9
  <2>. QED BY <2>3, <1>10 DEF RowsOf
<1>13. ASSUME Distinct(seq), \A x \in RowsOf(seq) : x.swing # row.swing
       PROVE  Distinct(q)
  <2>1. SUFFICES ASSUME NEW i \in 1..m, NEW j \in 1..m, q[i].swing = q[j].swing
                 PROVE  i = j
    BY <1>10 DEF Distinct
  <2>2. \A k \in 1..n : seq[k].swing # row.swing
    BY <1>13, <1>1 DEF RowsOf
  <2>3. (i = 1 \/ i \in 2..(n + 1)) /\ (j = 1 \/ j \in 2..(n + 1))
    BY <1>6, <1>1
  <2>4. CASE i = 1 \/ j = 1
    BY <2>1, <2>2, <2>3, <2>4, <1>7, <1>9
  <2>5. CASE i \in 2..(n + 1) /\ j \in 2..(n + 1)
    <3>1. \A k, l \in 1..n : seq[k].swing = seq[l].swing => k = l
      BY <1>13, <1>1 DEF Distinct
    <3>2. /\ i - 1 \in 1..n /\ q[i] = seq[i - 1]
          /\ j - 1 \in 1..n /\ q[j] = seq[j - 1]
      BY <2>5, <1>7, <1>9
    <3>3. i - 1 = j - 1
      BY <2>1, <3>1, <3>2
    <3>. QED BY <3>3, <2>5, <1>1
  <2>. QED BY <2>3, <2>4, <2>5
<1>. QED BY <1>6, <1>9, <1>11, <1>12, <1>13 DEF q

-----------------------------------------------------------------------------
(* The radar's operations, field by field. *)

Stores == {"completed", "invalidated"}

Within(r) ==
  /\ r \in RadarType
  /\ Len(r.setups) <= MaxInProgress
  /\ Len(r.completed) <= MaxTracked /\ Len(r.invalidated) <= MaxTracked
  /\ Len(r.disk.completed) <= MaxTracked /\ Len(r.disk.invalidated) <= MaxTracked

LEMMA KeepFields ==
  ASSUME NEW r, Within(r), NEW row \in Row
  PROVE  LET q == Keep(r, row)
         IN  /\ Within(q)
             /\ q.setups = KeptList(r.setups, row)
             /\ q.completed = r.completed /\ q.invalidated = r.invalidated
             /\ q.ids = r.ids /\ q.keys = r.keys
             /\ q.processed = r.processed /\ q.disk = r.disk
<1>. DEFINE q == Keep(r, row)
            kept == KeptList(r.setups, row)
<1>1. r.setups \in Seq(Row) /\ r.history \in SUBSET Ids /\ row.id \in Ids
  BY DEF Within, RadarType, Row
<1>2. kept \in Seq(Row) /\ Len(kept) <= MaxInProgress
  BY <1>1, KeptRows DEF Within
<1>3. q = [r EXCEPT !.setups = kept, !.history = @ \cup {row.id}]
  BY DEF Keep, KeptList
<1>. HIDE DEF q, kept
<1>4. /\ q \in RadarType /\ q.setups = kept
      /\ q.completed = r.completed /\ q.invalidated = r.invalidated
      /\ q.ids = r.ids /\ q.keys = r.keys
      /\ q.processed = r.processed /\ q.disk = r.disk
  BY <1>1, <1>2, <1>3 DEF Within, RadarType
<1>. QED BY <1>2, <1>4 DEF Within, q, kept

LEMMA SaveFields ==
  ASSUME NEW r, Within(r), NEW saved \in BOOLEAN
  PROVE  LET q == Save(r, saved)
         IN  /\ Within(q)
             /\ q.setups = r.setups
             /\ q.completed = r.completed /\ q.invalidated = r.invalidated
             /\ q.ids = r.ids /\ q.keys = r.keys
             /\ q.history = r.history /\ q.processed = r.processed
             /\ q.disk = IF saved THEN [completed |-> r.completed,
                                       invalidated |-> r.invalidated]
                                  ELSE r.disk
BY DEF Within, RadarType, Save

LEMMA AppendedFields ==
  ASSUME NEW r, Within(r), NEW row \in Row, NEW store \in Stores,
         NEW t \in 0..MaxTime, row.id \notin r.ids
  PROVE  LET q == AppendResolved(r, store, row, t)
         IN  /\ Within(q)
             /\ q.setups = r.setups
             /\ q.completed = IF store = "completed"
                              THEN Prepend(r.completed, row) ELSE r.completed
             /\ q.invalidated = IF store = "invalidated"
                                THEN Prepend(r.invalidated, row) ELSE r.invalidated
             /\ q.ids = r.ids \cup {row.id}
             /\ q.keys = [r.keys EXCEPT ![row.id] = t]
             /\ q.history = r.history /\ q.processed = r.processed
             /\ q.disk = r.disk
<1>. DEFINE q == AppendResolved(r, store, row, t)
            c == Prepend(r.completed, row)
            v == Prepend(r.invalidated, row)
            keys == [r.keys EXCEPT ![row.id] = t]
<1>1. /\ r.completed \in Seq(Row) /\ r.invalidated \in Seq(Row)
      /\ r.keys \in [Ids -> {Never} \cup (0..MaxTime)]
      /\ r.ids \in SUBSET Ids /\ row.id \in Ids
  BY DEF Within, RadarType, Row
<1>2. /\ c \in Seq(Row) /\ Len(c) <= MaxTracked
      /\ v \in Seq(Row) /\ Len(v) <= MaxTracked
  BY <1>1, PrependKeeps DEF Within
<1>3. keys \in [Ids -> {Never} \cup (0..MaxTime)]
  BY <1>1
<1>4. CASE store = "completed"
  <2>1. q = [r EXCEPT !.completed = c, !.ids = @ \cup {row.id}, !.keys = keys]
    BY <1>4 DEF AppendResolved
  <2>. HIDE DEF q, c, v, keys
  <2>2. /\ q \in RadarType /\ q.setups = r.setups
        /\ q.completed = c /\ q.invalidated = r.invalidated
        /\ q.ids = r.ids \cup {row.id} /\ q.keys = keys
        /\ q.history = r.history /\ q.processed = r.processed /\ q.disk = r.disk
    BY <1>1, <1>2, <1>3, <2>1 DEF Within, RadarType
  <2>. QED BY <1>2, <1>4, <2>2 DEF Within, q, c, v, keys
<1>5. CASE store = "invalidated"
  <2>1. q = [r EXCEPT !.invalidated = v, !.ids = @ \cup {row.id}, !.keys = keys]
    BY <1>5 DEF AppendResolved
  <2>. HIDE DEF q, c, v, keys
  <2>2. /\ q \in RadarType /\ q.setups = r.setups
        /\ q.completed = r.completed /\ q.invalidated = v
        /\ q.ids = r.ids \cup {row.id} /\ q.keys = keys
        /\ q.history = r.history /\ q.processed = r.processed /\ q.disk = r.disk
    BY <1>1, <1>2, <1>3, <2>1 DEF Within, RadarType
  <2>. QED BY <1>2, <1>5, <2>2 DEF Within, q, c, v, keys
<1>. QED BY <1>4, <1>5 DEF Stores

LEMMA ResolveFields ==
  ASSUME NEW r, Within(r), NEW row \in Row, NEW store \in Stores,
         NEW t \in 0..MaxTime, NEW saved \in BOOLEAN, row.id \notin r.ids
  PROVE  LET q == Resolve(r, store, row, t, saved)
         IN  /\ Within(q)
             /\ q.setups = Without(r.setups, row.id)
             /\ q.completed = IF store = "completed"
                              THEN Prepend(r.completed, row) ELSE r.completed
             /\ q.invalidated = IF store = "invalidated"
                                THEN Prepend(r.invalidated, row) ELSE r.invalidated
             /\ q.ids = r.ids \cup {row.id}
             /\ q.keys = [r.keys EXCEPT ![row.id] = t]
             /\ q.history = r.history /\ q.processed = r.processed
             /\ q.disk = IF saved THEN [completed |-> q.completed,
                                       invalidated |-> q.invalidated]
                                  ELSE r.disk
<1>. DEFINE q == Resolve(r, store, row, t, saved)
            a == AppendResolved(r, store, row, t)
            w == Save(a, saved)
            left == Without(r.setups, row.id)
<1>1. /\ Within(a) /\ a.setups = r.setups
      /\ a.completed = IF store = "completed"
                       THEN Prepend(r.completed, row) ELSE r.completed
      /\ a.invalidated = IF store = "invalidated"
                         THEN Prepend(r.invalidated, row) ELSE r.invalidated
      /\ a.ids = r.ids \cup {row.id}
      /\ a.keys = [r.keys EXCEPT ![row.id] = t]
      /\ a.history = r.history /\ a.processed = r.processed
      /\ a.disk = r.disk
  BY AppendedFields
<1>2. /\ Within(w) /\ w.setups = a.setups
      /\ w.completed = a.completed /\ w.invalidated = a.invalidated
      /\ w.ids = a.ids /\ w.keys = a.keys
      /\ w.history = a.history /\ w.processed = a.processed
      /\ w.disk = IF saved THEN [completed |-> a.completed,
                                invalidated |-> a.invalidated]
                           ELSE a.disk
  BY <1>1, SaveFields
<1>3. left \in Seq(Row) /\ Len(left) <= MaxInProgress
  <2>1. r.setups \in Seq(Row) /\ Len(r.setups) <= MaxInProgress
    BY DEF Within, RadarType
  <2>2. left \in Seq(Row) /\ Len(left) <= Len(r.setups)
    BY <2>1, WithoutKeeps
  <2>. QED BY <2>1, <2>2, LenProperties, RadarAssumption
<1>4. q = [w EXCEPT !.setups = left]
  BY <1>1, <1>2 DEF Resolve
<1>. HIDE DEF q, a, w, left
<1>5. /\ q \in RadarType /\ q.setups = left
      /\ q.completed = w.completed /\ q.invalidated = w.invalidated
      /\ q.ids = w.ids /\ q.keys = w.keys
      /\ q.history = w.history /\ q.processed = w.processed /\ q.disk = w.disk
  BY <1>2, <1>3, <1>4 DEF Within, RadarType
<1>6. Within(q)
  BY <1>2, <1>3, <1>5 DEF Within
<1>. QED BY <1>1, <1>2, <1>5, <1>6 DEF q, left

LEMMA ReopenFields ==
  ASSUME NEW r, Within(r), NEW s \in Swings
  PROVE  LET q == Reopen(r, s)
         IN  /\ Within(q)
             /\ q.setups = r.setups
             /\ q.completed = Without(r.completed, SwingId(s))
             /\ q.invalidated = Without(r.invalidated, SwingId(s))
             /\ q.ids = r.ids \ {SwingId(s)}
             /\ q.keys = [r.keys EXCEPT ![SwingId(s)] = Never]
             /\ q.history = r.history /\ q.processed = r.processed
             /\ q.disk = r.disk
<1>. DEFINE q == Reopen(r, s)
            c == Without(r.completed, SwingId(s))
            v == Without(r.invalidated, SwingId(s))
            keys == [r.keys EXCEPT ![SwingId(s)] = Never]
<1>1. /\ r.completed \in Seq(Row) /\ r.invalidated \in Seq(Row)
      /\ Len(r.completed) <= MaxTracked /\ Len(r.invalidated) <= MaxTracked
      /\ r.keys \in [Ids -> {Never} \cup (0..MaxTime)]
      /\ r.ids \in SUBSET Ids
  BY DEF Within, RadarType
<1>2. /\ c \in Seq(Row) /\ Len(c) <= Len(r.completed)
      /\ v \in Seq(Row) /\ Len(v) <= Len(r.invalidated)
  BY <1>1, WithoutKeeps
<1>3. Len(c) <= MaxTracked /\ Len(v) <= MaxTracked
  BY <1>1, <1>2, LenProperties, RadarAssumption
<1>4. keys \in [Ids -> {Never} \cup (0..MaxTime)]
  BY <1>1
<1>5. q = [r EXCEPT !.ids = @ \ {SwingId(s)}, !.keys = keys,
                    !.invalidated = v, !.completed = c]
  BY DEF Reopen
<1>. HIDE DEF q, c, v, keys
<1>6. /\ q \in RadarType /\ q.setups = r.setups
      /\ q.completed = c /\ q.invalidated = v
      /\ q.ids = r.ids \ {SwingId(s)} /\ q.keys = keys
      /\ q.history = r.history /\ q.processed = r.processed /\ q.disk = r.disk
  BY <1>1, <1>2, <1>4, <1>5 DEF Within, RadarType
<1>. QED BY <1>3, <1>6 DEF Within, q, c, v, keys

LEMMA RecordFields ==
  ASSUME NEW r, Within(r), NEW row \in Row
  PROVE  LET q == RecordInProgress(r, row)
         IN  /\ Within(q)
             /\ q.setups = IF row.id \in r.history THEN r.setups
                           ELSE KeptList(r.setups, row)
             /\ q.completed = r.completed /\ q.invalidated = r.invalidated
             /\ q.ids = r.ids /\ q.keys = r.keys
             /\ q.processed = r.processed /\ q.disk = r.disk
BY KeepFields DEF RecordInProgress

(* The dedup key of a swing is written, and nothing else. *)
LEMMA KeyedFields ==
  ASSUME NEW r, Within(r), NEW k \in Ids, NEW t \in 0..MaxTime
  PROVE  LET q == [r EXCEPT !.keys[k] = t]
         IN  /\ Within(q)
             /\ q.setups = r.setups
             /\ q.completed = r.completed /\ q.invalidated = r.invalidated
             /\ q.ids = r.ids
             /\ q.keys = [r.keys EXCEPT ![k] = t]
             /\ q.history = r.history /\ q.processed = r.processed
             /\ q.disk = r.disk
<1>. DEFINE q == [r EXCEPT !.keys[k] = t]
            keys == [r.keys EXCEPT ![k] = t]
<1>1. keys \in [Ids -> {Never} \cup (0..MaxTime)]
  BY DEF Within, RadarType
<1>2. q = [r EXCEPT !.keys = keys]
  OBVIOUS
<1>. HIDE DEF q, keys
<1>3. /\ q \in RadarType /\ q.setups = r.setups
      /\ q.completed = r.completed /\ q.invalidated = r.invalidated
      /\ q.ids = r.ids /\ q.keys = keys
      /\ q.history = r.history /\ q.processed = r.processed /\ q.disk = r.disk
  BY <1>1, <1>2 DEF Within, RadarType
<1>. QED BY <1>3 DEF Within, q, keys

(* The hand-off puts the real row under the taken id into IN PROGRESS and  *)
(* takes every other row of that id out of the three stores.               *)
SeenRow(s, id, t) == [RealRow(s, id, t) EXCEPT !.state = "ACTIVE", !.full = FALSE]

LEMMA TakeOverFields ==
  ASSUME NEW r, Within(r), NEW s \in Swings, NEW e \in Entries,
         NEW t \in 0..MaxTime, TakenId(r, s, e) \in Ids
  PROVE  LET q  == TakeOver(r, s, e, t)
             id == TakenId(r, s, e)
         IN  /\ Within(q)
             /\ RealRow(s, id, t) \in Row /\ SeenRow(s, id, t) \in Row
             /\ \E seen \in {r.setups, KeptList(r.setups, SeenRow(s, id, t))} :
                  q.setups = KeptList(Without(seen, id), RealRow(s, id, t))
             /\ RowsOf(q.completed) \subseteq {x \in RowsOf(r.completed) : x.id # id}
             /\ RowsOf(q.invalidated)
                  \subseteq {x \in RowsOf(r.invalidated) : x.id # id}
             /\ Distinct(r.completed) => Distinct(q.completed)
             /\ Distinct(r.invalidated) => Distinct(q.invalidated)
             /\ q.ids \subseteq r.ids \ {id}
             /\ \A k \in r.ids \ {id} : k \in q.ids \/
                  \E x \in Listed(r) : x.id = k /\ x.swing = s /\ ~x.real
             /\ q.keys = r.keys /\ q.disk = r.disk
             /\ q.processed = r.processed \cup {<<s, e>>}
<1>. DEFINE id == TakenId(r, s, e)
            row == RealRow(s, id, t)
            seen == RecordInProgress(r, SeenRow(s, id, t))
            left == Without(seen.setups, id)
            c == Without(seen.completed, id)
            v == Without(seen.invalidated, id)
            reclaimed == [seen EXCEPT !.setups = left, !.completed = c,
                                      !.invalidated = v, !.ids = @ \ {id}]
            tracer(x) == x.swing = s /\ ~x.real
            gone == {x \in RowsOf(c) : tracer(x)} \cup
                    {x \in RowsOf(v) : tracer(x) /\ x.reason = NoExecution}
            goneIds == {x.id : x \in gone}
            c2 == Filter(c, RowsOf(c) \ gone)
            v2 == Filter(v, RowsOf(v) \ gone)
            cleaned == [reclaimed EXCEPT !.completed = c2, !.invalidated = v2,
                          !.ids = @ \ goneIds, !.history = @ \ goneIds]
            kept == Keep(cleaned, row)
            q == TakeOver(r, s, e, t)
<1>1. row \in Row /\ SeenRow(s, id, t) \in Row /\ SeenRow(s, id, t).id = id
  BY DEF RealRow, SeenRow, Row, NoReason
<1>2. /\ Within(seen)
      /\ seen.setups \in {r.setups, KeptList(r.setups, SeenRow(s, id, t))}
      /\ seen.completed = r.completed /\ seen.invalidated = r.invalidated
      /\ seen.ids = r.ids /\ seen.keys = r.keys
      /\ seen.processed = r.processed /\ seen.disk = r.disk
  <2>. HIDE DEF id
  <2>. QED BY <1>1, RecordFields
<1>3. /\ seen.setups \in Seq(Row) /\ Len(seen.setups) <= MaxInProgress
      /\ seen.completed \in Seq(Row) /\ Len(seen.completed) <= MaxTracked
      /\ seen.invalidated \in Seq(Row) /\ Len(seen.invalidated) <= MaxTracked
      /\ seen.ids \in SUBSET Ids /\ seen.history \in SUBSET Ids
  <2>. HIDE DEF seen
  <2>. QED BY <1>2 DEF Within, RadarType
<1>4. /\ left \in Seq(Row) /\ Len(left) <= Len(seen.setups)
      /\ c \in Seq(Row) /\ Len(c) <= Len(seen.completed)
      /\ RowsOf(c) = {x \in RowsOf(seen.completed) : x.id # id}
      /\ Distinct(seen.completed) => Distinct(c)
      /\ v \in Seq(Row) /\ Len(v) <= Len(seen.invalidated)
      /\ RowsOf(v) = {x \in RowsOf(seen.invalidated) : x.id # id}
      /\ Distinct(seen.invalidated) => Distinct(v)
  <2>. HIDE DEF seen, id
  <2>. QED BY <1>3, WithoutKeeps
<1>5. /\ c2 \in Seq(Row) /\ Len(c2) <= Len(c) /\ RowsOf(c2) \subseteq RowsOf(c)
      /\ Distinct(c) => Distinct(c2)
      /\ v2 \in Seq(Row) /\ Len(v2) <= Len(v) /\ RowsOf(v2) \subseteq RowsOf(v)
      /\ Distinct(v) => Distinct(v2)
  <2>. HIDE DEF c, v, gone
  <2>. QED BY <1>4, FilterKeeps
<1>6. /\ Len(left) <= MaxInProgress /\ Len(c2) <= MaxTracked
      /\ Len(v2) <= MaxTracked
  <2>. HIDE DEF seen, left, c, v, c2, v2
  <2>. QED BY <1>3, <1>4, <1>5, LenProperties, RadarAssumption
<1>7. /\ reclaimed \in RadarType /\ reclaimed.setups = left
      /\ reclaimed.completed = c /\ reclaimed.invalidated = v
      /\ reclaimed.ids = r.ids \ {id} /\ reclaimed.keys = r.keys
      /\ reclaimed.processed = r.processed /\ reclaimed.disk = r.disk
  <2>. HIDE DEF seen, left, c, v, id
  <2>. QED BY <1>2, <1>3, <1>4 DEF Within, RadarType
<1>8. cleaned = Suppress(reclaimed, s)
  <2>. HIDE DEF reclaimed, c, v
  <2>. QED BY <1>7 DEF Suppress
<1>9. /\ cleaned \in RadarType /\ cleaned.setups = left
      /\ cleaned.completed = c2 /\ cleaned.invalidated = v2
      /\ cleaned.ids = (r.ids \ {id}) \ goneIds /\ cleaned.keys = r.keys
      /\ cleaned.processed = r.processed /\ cleaned.disk = r.disk
  <2>. HIDE DEF reclaimed, left, c2, v2, goneIds, id
  <2>. QED BY <1>5, <1>7 DEF RadarType
<1>10. Within(cleaned)
  <2>. HIDE DEF cleaned, left, c2, v2
  <2>. QED BY <1>6, <1>9 DEF Within
<1>11. /\ Within(kept) /\ kept.setups = KeptList(left, row)
       /\ kept.completed = c2 /\ kept.invalidated = v2
       /\ kept.ids = (r.ids \ {id}) \ goneIds /\ kept.keys = r.keys
       /\ kept.processed = r.processed /\ kept.disk = r.disk
  <2>. HIDE DEF cleaned, row, left, c2, v2, goneIds, id
  <2>. QED BY <1>1, <1>9, <1>10, KeepFields
<1>12. q = [kept EXCEPT !.processed = @ \cup {<<s, e>>}]
  <2>1. q = MarkProcessed(Keep(Suppress(reclaimed, s), row), s, e)
    BY DEF TakeOver, SeenRow
  <2>. HIDE DEF reclaimed, cleaned, row, q
  <2>. QED BY <2>1, <1>8 DEF MarkProcessed
<1>13. /\ Within(q) /\ q.setups = KeptList(left, row)
       /\ q.completed = c2 /\ q.invalidated = v2
       /\ q.ids = (r.ids \ {id}) \ goneIds /\ q.keys = r.keys
       /\ q.processed = r.processed \cup {<<s, e>>} /\ q.disk = r.disk
  <2>. DEFINE done == kept.processed \cup {<<s, e>>}
  <2>. HIDE DEF kept, q, row, left, c2, v2, goneIds, id
  <2>1. kept \in RadarType /\ done \in SUBSET (Swings \X Entries)
    BY <1>11 DEF Within, RadarType
  <2>2. q = [kept EXCEPT !.processed = done]
    BY <1>12, <2>1 DEF RadarType
  <2>. HIDE DEF done
  <2>3. /\ q \in RadarType /\ q.setups = kept.setups
        /\ q.completed = kept.completed /\ q.invalidated = kept.invalidated
        /\ q.ids = kept.ids /\ q.keys = kept.keys
        /\ q.processed = done /\ q.disk = kept.disk
    BY <2>1, <2>2 DEF RadarType
  <2>. QED BY <2>3, <1>11 DEF Within, done
<1>14. \A k \in r.ids \ {id} : k \in q.ids \/
         \E x \in Listed(r) : x.id = k /\ x.swing = s /\ ~x.real
  <2>1. \A x \in gone : x \in Listed(r) /\ x.swing = s /\ ~x.real
    <3>. HIDE DEF c, v
    <3>. QED BY <1>2, <1>4 DEF Listed
  <2>2. \A k \in goneIds : \E x \in gone : k = x.id
    OBVIOUS
  <2>. HIDE DEF gone, goneIds, q, id
  <2>. QED BY <2>1, <2>2, <1>13
<1>15. /\ RowsOf(q.completed) \subseteq {x \in RowsOf(r.completed) : x.id # id}
       /\ RowsOf(q.invalidated)
            \subseteq {x \in RowsOf(r.invalidated) : x.id # id}
       /\ Distinct(r.completed) => Distinct(q.completed)
       /\ Distinct(r.invalidated) => Distinct(q.invalidated)
       /\ q.ids \subseteq r.ids \ {id}
  <2>. HIDE DEF seen, c, v, c2, v2, id, goneIds, q
  <2>. QED BY <1>2, <1>4, <1>5, <1>13
<1>. HIDE DEF seen, q, id, row
<1>. QED BY <1>1, <1>2, <1>13, <1>14, <1>15 DEF id, row, q

-----------------------------------------------------------------------------
(* The inductive invariant.  What every row of the radar and of its file   *)
(* says: its swing is confirmed, its id names the swing, an id of a trade  *)
(* is only given to a real row, once the swing is stale, and a real row    *)
(* never carries a reason the filter would retry.                          *)
RowOK(row, t) ==
  /\ row.id[1] = row.swing
  /\ BornAt[row.swing] <= t
  /\ row.id # SwingId(row.swing) => row.real /\ ~Fresh(row.swing, t)
  /\ row.state = "ENTRY_READY" => row.real
  /\ row.real => /\ row.reason \in {NoReason, SetupExpired}
                 /\ row.detectedAt >= BornAt[row.swing]

DiskRows(r) == RowsOf(r.disk.completed) \cup RowsOf(r.disk.invalidated)

(* A resolved tracer id has a dedup key, and as the key expires later than *)
(* the swing goes stale, the filter knows a fresh resolved swing.          *)
KeysCover(r) ==
  \A s \in Swings : SwingId(s) \in r.ids => r.keys[SwingId(s)] >= BornAt[s]

(* What holds whatever the operator does. *)
Sound(r, t) ==
  /\ Within(r)
  /\ \A row \in AllRows(r) \cup DiskRows(r) : RowOK(row, t)
  /\ \A row \in RowsOf(r.setups) : row.id \notin r.ids
  /\ KeysCover(r)
  /\ Distinct(r.setups)

Apart(seq1, seq2) ==
  \A x \in RowsOf(seq1), y \in RowsOf(seq2) : x.swing # y.swing

(* What holds besides as long as nobody clears the history or restarts:    *)
(* one row per swing, no listed row that is not resolved, and the key of   *)
(* its tracer behind every tradable row.                                   *)
Single(r) ==
  /\ Distinct(r.completed) /\ Distinct(r.invalidated)
  /\ Apart(r.setups, r.completed) /\ Apart(r.setups, r.invalidated)
  /\ Apart(r.completed, r.invalidated)
  /\ \A row \in Listed(r) : row.id \in r.ids
  /\ \A row \in RowsOf(r.setups) :
       row.real /\ row.id = SwingId(row.swing)
         => r.keys[row.id] >= BornAt[row.swing]

Written(r) ==
  /\ RowsOf(r.completed) \subseteq RowsOf(r.disk.completed)
  /\ RowsOf(r.invalidated) \subseteq RowsOf(r.disk.invalidated)

(* From r to q only swing s changed, but for rows that fell to a cap. *)
Frame(r, q, s) ==
  /\ \A x \in RowsOf(q.setups) : x.swing # s => x \in RowsOf(r.setups)
  /\ \A x \in Listed(q) : x.swing # s => x \in Listed(r)
  /\ \A k \in Ids : k[1] # s => /\ k \in q.ids <=> k \in r.ids
                              /\ q.keys[k] = r.keys[k]
  /\ Cardinality(Swings) <= MaxInProgress =>
       \A x \in RowsOf(r.setups) : x.swing # s => x \in RowsOf(q.setups)

LEMMA FrameComposes ==
  ASSUME NEW r1, NEW r2, NEW r3, NEW s, Frame(r1, r2, s), Frame(r2, r3, s)
  PROVE  Frame(r1, r3, s)
BY DEF Frame

LEMMA FrameReflexive ==
  ASSUME NEW r, NEW s
  PROVE  Frame(r, r, s)
BY DEF Frame

(* Ids name their swing, and tell a tracer from a trade. *)
LEMMA IdsDiffer ==
  /\ \A s \in Swings : SwingId(s) \in Ids /\ SwingId(s)[1] = s
  /\ \A s \in Swings, e \in Entries :
       /\ TradeId(s, e) \in Ids /\ TradeId(s, e)[1] = s
       /\ TradeId(s, e) # SwingId(s)
BY RadarAssumption DEF Ids, SwingId, TradeId

LEMMA RowTypes ==
  ASSUME NEW r, Within(r)
  PROVE  /\ r.setups \in Seq(Row) /\ Len(r.setups) <= MaxInProgress
         /\ r.completed \in Seq(Row) /\ Len(r.completed) <= MaxTracked
         /\ r.invalidated \in Seq(Row) /\ Len(r.invalidated) <= MaxTracked
         /\ RowsOf(r.setups) \subseteq Row /\ Listed(r) \subseteq Row
         /\ DiskRows(r) \subseteq Row
         /\ r.ids \in SUBSET Ids /\ r.keys \in [Ids -> {Never} \cup (0..MaxTime)]
<1>1. /\ r.setups \in Seq(Row) /\ Len(r.setups) <= MaxInProgress
      /\ r.completed \in Seq(Row) /\ Len(r.completed) <= MaxTracked
      /\ r.invalidated \in Seq(Row) /\ Len(r.invalidated) <= MaxTracked
      /\ r.disk.completed \in Seq(Row) /\ r.disk.invalidated \in Seq(Row)
      /\ r.ids \in SUBSET Ids /\ r.keys \in [Ids -> {Never} \cup (0..MaxTime)]
  BY DEF Within, RadarType
<1>2. \A seq \in Seq(Row) : RowsOf(seq) \subseteq Row
  BY LenProperties, ElementOfSeq DEF RowsOf
<1>. QED BY <1>1, <1>2 DEF Listed, DiskRows

(* Time only makes swings staler. *)
LEMMA SoundLater ==
  ASSUME NEW r, NEW t \in Nat, NEW u \in Nat, t <= u, Sound(r, t)
  PROVE  Sound(r, u)
<1>1. \A row \in AllRows(r) \cup DiskRows(r) : row.swing \in Swings
  <2>1. AllRows(r) \cup DiskRows(r) \subseteq Row
    BY RowTypes DEF Sound, AllRows
  <2>. QED BY <2>1 DEF Row
<1>2. \A s \in Swings : /\ Fresh(s, u) => Fresh(s, t)
                        /\ BornAt[s] <= t => BornAt[s] <= u
  BY RadarAssumption DEF Fresh
<1>. QED BY <1>1, <1>2 DEF Sound, RowOK

(* Keeping a row in IN PROGRESS. *)
LEMMA KeepSound ==
  ASSUME NEW r, NEW t, Sound(r, t), NEW row \in Row, RowOK(row, t),
         row.id \notin r.ids,
         \A x \in RowsOf(r.setups) : x.swing = row.swing => x.id = row.id
  PROVE  LET q == Keep(r, row)
         IN  /\ Sound(q, t)
             /\ Frame(r, q, row.swing)
             /\ row \in RowsOf(q.setups)
             /\ \A x \in RowsOf(q.setups) : x = row \/ x.swing # row.swing
             /\ q.completed = r.completed /\ q.invalidated = r.invalidated
             /\ q.ids = r.ids /\ q.keys = r.keys
             /\ /\ Single(r)
                /\ \A x \in Listed(r) : x.swing # row.swing
                /\ row.real /\ row.id = SwingId(row.swing)
                     => r.keys[row.id] >= BornAt[row.swing]
                => Single(q)
             /\ Written(r) => Written(q)
<1>. DEFINE q == Keep(r, row)
            rest == {x \in RowsOf(r.setups) : x.id # row.id}
<1>1. Within(r) /\ r.setups \in Seq(Row) /\ Len(r.setups) <= MaxInProgress
  BY RowTypes DEF Sound
<1>2. /\ Within(q) /\ q.setups = KeptList(r.setups, row)
      /\ q.completed = r.completed /\ q.invalidated = r.invalidated
      /\ q.ids = r.ids /\ q.keys = r.keys /\ q.disk = r.disk
  BY <1>1, KeepFields
<1>3. \A x \in RowsOf(r.setups) : x.id = row.id <=> x.swing = row.swing
  BY DEF Sound, AllRows, RowOK
<1>4. Distinct(r.setups)
  BY DEF Sound
<1>. HIDE DEF q
<1>5. /\ row \in RowsOf(q.setups) /\ RowsOf(q.setups) \subseteq {row} \cup rest
      /\ Distinct(q.setups)
      /\ Cardinality(Swings) <= MaxInProgress
           => RowsOf(q.setups) = {row} \cup rest
  BY <1>1, <1>2, <1>3, <1>4, KeptRows
<1>6. Sound(q, t)
  <2>1. \A x \in AllRows(q) \cup DiskRows(q) : RowOK(x, t)
    BY <1>2, <1>5 DEF Sound, AllRows, Listed, DiskRows
  <2>2. \A x \in RowsOf(q.setups) : x.id \notin q.ids
    BY <1>2, <1>5 DEF Sound
  <2>3. KeysCover(q)
    BY <1>2 DEF Sound, KeysCover
  <2>. QED BY <1>2, <1>5, <2>1, <2>2, <2>3 DEF Sound
<1>7. \A x \in RowsOf(q.setups) :
        x = row \/ (x \in RowsOf(r.setups) /\ x.swing # row.swing)
  BY <1>3, <1>5
<1>8. Frame(r, q, row.swing)
  <2>1. Listed(q) = Listed(r)
    BY <1>2 DEF Listed
  <2>2. Cardinality(Swings) <= MaxInProgress =>
          \A x \in RowsOf(r.setups) : x.swing # row.swing => x \in RowsOf(q.setups)
    BY <1>3, <1>5
  <2>. QED BY <1>2, <1>7, <2>1, <2>2 DEF Frame
<1>9. ASSUME Single(r), \A x \in Listed(r) : x.swing # row.swing,
             row.real /\ row.id = SwingId(row.swing)
               => r.keys[row.id] >= BornAt[row.swing]
      PROVE  Single(q)
  <2>1. Apart(q.setups, q.completed) /\ Apart(q.setups, q.invalidated)
    BY <1>2, <1>7, <1>9 DEF Single, Apart, Listed
  <2>. QED BY <1>2, <1>7, <1>9, <2>1 DEF Single, Listed
<1>10. Written(r) => Written(q)
  BY <1>2 DEF Written
<1>. QED BY <1>2, <1>5, <1>6, <1>7, <1>8, <1>9, <1>10 DEF q

(* Writing the terminal row of a swing. *)
LEMMA ResolveSound ==
  ASSUME NEW r, NEW t \in 0..MaxTime, Sound(r, t),
         NEW row \in Row, RowOK(row, t), BornAt[row.swing] <= t,
         row.id \notin r.ids, NEW store \in Stores, NEW saved \in BOOLEAN
  PROVE  LET q == Resolve(r, store, row, t, saved)
         IN  /\ Sound(q, t)
             /\ Frame(r, q, row.swing)
             /\ RowsOf(q.setups) = {x \in RowsOf(r.setups) : x.id # row.id}
             /\ Listed(q) \subseteq {row} \cup Listed(r)
             /\ store = "completed" => row \in RowsOf(q.completed)
             /\ store = "invalidated" => row \in RowsOf(q.invalidated)
             /\ q.ids = r.ids \cup {row.id} /\ q.keys[row.id] = t
             /\ q.processed = r.processed
             /\ /\ Single(r)
                /\ \A x \in Listed(r) : x.swing # row.swing
                /\ \A x \in RowsOf(r.setups) : x.swing = row.swing => x.id = row.id
                => Single(q)
             /\ Written(r) /\ saved => Written(q)
<1>. DEFINE q == Resolve(r, store, row, t, saved)
<1>1. /\ Within(r)
      /\ r.setups \in Seq(Row) /\ Len(r.setups) <= MaxInProgress
      /\ r.completed \in Seq(Row) /\ Len(r.completed) <= MaxTracked
      /\ r.invalidated \in Seq(Row) /\ Len(r.invalidated) <= MaxTracked
      /\ r.ids \in SUBSET Ids /\ r.keys \in [Ids -> {Never} \cup (0..MaxTime)]
      /\ row.id \in Ids
  BY RowTypes DEF Sound, Row
<1>2. /\ Within(q)
      /\ q.setups = Without(r.setups, row.id)
      /\ q.completed = IF store = "completed"
                       THEN Prepend(r.completed, row) ELSE r.completed
      /\ q.invalidated = IF store = "invalidated"
                         THEN Prepend(r.invalidated, row) ELSE r.invalidated
      /\ q.ids = r.ids \cup {row.id}
      /\ q.keys = [r.keys EXCEPT ![row.id] = t]
      /\ q.processed = r.processed
      /\ q.disk = IF saved THEN [completed |-> q.completed,
                                invalidated |-> q.invalidated]
                           ELSE r.disk
  BY <1>1, ResolveFields
<1>. HIDE DEF q
<1>3. /\ RowsOf(q.setups) = {x \in RowsOf(r.setups) : x.id # row.id}
      /\ Distinct(q.setups)
  BY <1>1, <1>2, WithoutKeeps DEF Sound
<1>4. /\ row \in RowsOf(Prepend(r.completed, row))
      /\ RowsOf(Prepend(r.completed, row)) \subseteq {row} \cup RowsOf(r.completed)
      /\ Distinct(r.completed) /\ (\A x \in RowsOf(r.completed) : x.swing # row.swing)
           => Distinct(Prepend(r.completed, row))
      /\ row \in RowsOf(Prepend(r.invalidated, row))
      /\ RowsOf(Prepend(r.invalidated, row))
           \subseteq {row} \cup RowsOf(r.invalidated)
      /\ Distinct(r.invalidated)
           /\ (\A x \in RowsOf(r.invalidated) : x.swing # row.swing)
           => Distinct(Prepend(r.invalidated, row))
  BY <1>1, PrependKeeps
<1>5. /\ RowsOf(q.completed) \subseteq
           (IF store = "completed" THEN {row} ELSE {}) \cup RowsOf(r.completed)
      /\ RowsOf(q.invalidated) \subseteq
           (IF store = "invalidated" THEN {row} ELSE {}) \cup RowsOf(r.invalidated)
      /\ store = "completed" => row \in RowsOf(q.completed)
      /\ store = "invalidated" => row \in RowsOf(q.invalidated)
  BY <1>2, <1>4
<1>6. Listed(q) \subseteq {row} \cup Listed(r)
  BY <1>5 DEF Listed
<1>7. /\ q.keys[row.id] = t
      /\ \A k \in Ids : k # row.id => q.keys[k] = r.keys[k]
  BY <1>1, <1>2
<1>8. Sound(q, t)
  <2>1. DiskRows(q) \subseteq {row} \cup Listed(r) \cup DiskRows(r)
    BY <1>2, <1>6 DEF DiskRows, Listed
  <2>2. \A x \in AllRows(q) \cup DiskRows(q) : RowOK(x, t)
    BY <2>1, <1>3, <1>6 DEF Sound, AllRows
  <2>3. \A x \in RowsOf(q.setups) : x.id \notin q.ids
    BY <1>2, <1>3 DEF Sound
  <2>4. KeysCover(q)
    <3>1. SUFFICES ASSUME NEW s \in Swings, SwingId(s) \in q.ids
                   PROVE  q.keys[SwingId(s)] >= BornAt[s]
      BY DEF KeysCover
    <3>2. CASE SwingId(s) = row.id
      <4>1. s = row.swing
        BY <3>2, IdsDiffer DEF RowOK
      <4>. QED BY <4>1, <3>2, <1>7, RadarAssumption
    <3>3. CASE SwingId(s) # row.id
      BY <3>1, <3>3, <1>2, <1>7, IdsDiffer DEF Sound, KeysCover
    <3>. QED BY <3>2, <3>3
  <2>. QED BY <1>2, <1>3, <2>2, <2>3, <2>4 DEF Sound
<1>9. Frame(r, q, row.swing)
  <2>1. row.id[1] = row.swing
    BY DEF RowOK
  <2>2. \A x \in RowsOf(r.setups) : x.id = row.id => x.swing = row.swing
    BY <2>1 DEF Sound, AllRows, RowOK
  <2>. QED BY <2>1, <2>2, <1>2, <1>3, <1>6, <1>7 DEF Frame
<1>10. ASSUME Single(r), \A x \in Listed(r) : x.swing # row.swing,
              \A x \in RowsOf(r.setups) : x.swing = row.swing => x.id = row.id
       PROVE  Single(q)
  <2>1. Distinct(q.completed) /\ Distinct(q.invalidated)
    BY <1>2, <1>4, <1>10 DEF Single, Listed
  <2>2. \A x \in RowsOf(q.setups) : x.swing # row.swing /\ x \in RowsOf(r.setups)
    BY <1>3, <1>10
  <2>3. Apart(q.setups, q.completed)
    BY <2>2, <1>5, <1>10 DEF Single, Apart
  <2>4. Apart(q.setups, q.invalidated)
    BY <2>2, <1>5, <1>10 DEF Single, Apart
  <2>5. Apart(q.completed, q.invalidated)
    <3>1. CASE store = "completed"
      BY <3>1, <1>5, <1>10 DEF Single, Apart, Listed
    <3>2. CASE store = "invalidated"
      BY <3>2, <1>5, <1>10 DEF Single, Apart, Listed
    <3>. QED BY <3>1, <3>2 DEF Stores
  <2>6. \A x \in Listed(q) : x.id \in q.ids
    BY <1>2, <1>6, <1>10 DEF Single
  <2>7. \A x \in RowsOf(q.setups) : x.id \in Ids /\ x.id # row.id
    BY <1>3, RowTypes, <1>1 DEF Row
  <2>8. \A x \in RowsOf(q.setups) : x.real /\ x.id = SwingId(x.swing)
          => q.keys[x.id] >= BornAt[x.swing]
    BY <2>2, <2>7, <1>7, <1>10 DEF Single
  <2>. QED BY <2>1, <2>3, <2>4, <2>5, <2>6, <2>8 DEF Single
<1>11. Written(r) /\ saved => Written(q)
  BY <1>2 DEF Written
<1>. QED BY <1>2, <1>3, <1>5, <1>6, <1>7, <1>8, <1>9, <1>10, <1>11 DEF q

(* Reopening a resolved swing. *)
LEMMA ReopenSound ==
  ASSUME NEW r, NEW t, Sound(r, t), NEW s \in Swings, SwingId(s) \in r.ids
  PROVE  LET q == Reopen(r, s)
         IN  /\ Sound(q, t)
             /\ Frame(r, q, s)
             /\ q.setups = r.setups
             /\ Listed(q) \subseteq {x \in Listed(r) : x.id # SwingId(s)}
             /\ SwingId(s) \notin q.ids
             /\ Single(r) => Single(q)
             /\ Written(r) => Written(q)
<1>. DEFINE q == Reopen(r, s)
            id == SwingId(s)
<1>1. /\ Within(r)
      /\ r.completed \in Seq(Row) /\ r.invalidated \in Seq(Row)
      /\ r.ids \in SUBSET Ids /\ r.keys \in [Ids -> {Never} \cup (0..MaxTime)]
      /\ RowsOf(r.setups) \subseteq Row
      /\ id \in Ids /\ id[1] = s
  BY RowTypes, IdsDiffer DEF Sound
<1>2. /\ Within(q) /\ q.setups = r.setups
      /\ q.completed = Without(r.completed, id)
      /\ q.invalidated = Without(r.invalidated, id)
      /\ q.ids = r.ids \ {id}
      /\ q.keys = [r.keys EXCEPT ![id] = Never]
      /\ q.disk = r.disk
  BY <1>1, ReopenFields
<1>. HIDE DEF q
<1>3. /\ RowsOf(q.completed) = {x \in RowsOf(r.completed) : x.id # id}
      /\ RowsOf(q.invalidated) = {x \in RowsOf(r.invalidated) : x.id # id}
      /\ Distinct(r.completed) => Distinct(q.completed)
      /\ Distinct(r.invalidated) => Distinct(q.invalidated)
  BY <1>1, <1>2, WithoutKeeps
<1>4. Listed(q) \subseteq {x \in Listed(r) : x.id # id}
  BY <1>3 DEF Listed
<1>5. \A k \in Ids : k # id => q.keys[k] = r.keys[k]
  BY <1>1, <1>2
<1>6. \A u \in Swings : SwingId(u) = id => u = s
  BY IdsDiffer
<1>. HIDE DEF id
<1>7. Sound(q, t)
  <2>1. \A x \in AllRows(q) \cup DiskRows(q) : RowOK(x, t)
    BY <1>2, <1>4 DEF Sound, AllRows, DiskRows
  <2>2. \A x \in RowsOf(q.setups) : x.id \notin q.ids
    BY <1>2 DEF Sound
  <2>3. KeysCover(q)
    BY <1>2, <1>5, IdsDiffer DEF Sound, KeysCover
  <2>. QED BY <1>2, <2>1, <2>2, <2>3 DEF Sound
<1>8. Frame(r, q, s)
  BY <1>1, <1>2, <1>4, <1>5 DEF Frame
<1>9. ASSUME Single(r) PROVE Single(q)
  <2>1. Apart(q.setups, q.completed) /\ Apart(q.setups, q.invalidated)
        /\ Apart(q.completed, q.invalidated)
    BY <1>2, <1>3, <1>9 DEF Single, Apart
  <2>2. \A x \in Listed(q) : x.id \in q.ids
    BY <1>2, <1>4, <1>9 DEF Single
  <2>3. \A x \in RowsOf(q.setups) : x.id \in Ids /\ x.id # id
    BY <1>1, <1>2 DEF Row, Sound, id
  <2>4. \A x \in RowsOf(q.setups) : x.real /\ x.id = SwingId(x.swing)
          => q.keys[x.id] >= BornAt[x.swing]
    BY <2>3, <1>2, <1>5, <1>9 DEF Single
  <2>. QED BY <2>1, <2>2, <2>4, <1>3, <1>9 DEF Single
<1>10. Written(r) => Written(q)
  BY <1>2, <1>3 DEF Written
<1>. QED BY <1>2, <1>4, <1>7, <1>8, <1>9, <1>10 DEF q, id

(* Writing the dedup key of a stale swing. *)
LEMMA KeyedSound ==
  ASSUME NEW r, NEW t \in 0..MaxTime, Sound(r, t), NEW s \in Swings, BornAt[s] <= t
  PROVE  LET q == [r EXCEPT !.keys[SwingId(s)] = t]
         IN  /\ Sound(q, t)
             /\ Frame(r, q, s)
             /\ q.setups = r.setups /\ q.completed = r.completed
             /\ q.invalidated = r.invalidated /\ q.ids = r.ids
             /\ q.processed = r.processed
             /\ Single(r) => Single(q)
             /\ Written(r) => Written(q)
<1>. DEFINE q == [r EXCEPT !.keys[SwingId(s)] = t]
            id == SwingId(s)
<1>1. /\ Within(r) /\ RowsOf(r.setups) \subseteq Row
      /\ r.ids \in SUBSET Ids /\ r.keys \in [Ids -> {Never} \cup (0..MaxTime)]
      /\ id \in Ids /\ id[1] = s
  BY RowTypes, IdsDiffer DEF Sound
<1>2. /\ Within(q) /\ q.setups = r.setups
      /\ q.completed = r.completed /\ q.invalidated = r.invalidated
      /\ q.ids = r.ids /\ q.keys = [r.keys EXCEPT ![id] = t]
      /\ q.processed = r.processed /\ q.disk = r.disk
  BY <1>1, KeyedFields
<1>. HIDE DEF q
<1>3. q.keys[id] = t /\ \A k \in Ids : k # id => q.keys[k] = r.keys[k]
  BY <1>1, <1>2
<1>4. \A u \in Swings : SwingId(u) = id => u = s
  BY IdsDiffer
<1>5. AllRows(q) = AllRows(r) /\ Listed(q) = Listed(r) /\ DiskRows(q) = DiskRows(r)
  BY <1>2 DEF AllRows, Listed, DiskRows
<1>6. t >= BornAt[s]
  BY RadarAssumption
<1>. HIDE DEF id
<1>7. Sound(q, t)
  <2>1. KeysCover(q)
    BY <1>2, <1>3, <1>4, <1>6, IdsDiffer DEF Sound, KeysCover
  <2>. QED BY <2>1, <1>2, <1>5 DEF Sound
<1>8. Frame(r, q, s)
  BY <1>1, <1>2, <1>3, <1>5 DEF Frame
<1>9. ASSUME Single(r) PROVE Single(q)
  <2>1. \A x \in RowsOf(q.setups) : x.swing \in Swings /\ x.id \in Ids
    BY <1>1, <1>2 DEF Row
  <2>2. \A x \in RowsOf(q.setups) : x.real /\ x.id = SwingId(x.swing)
          => q.keys[x.id] >= BornAt[x.swing]
    BY <2>1, <1>2, <1>3, <1>4, <1>6, <1>9 DEF Single
  <2>. QED BY <2>2, <1>2, <1>5, <1>9 DEF Single
<1>10. Written(r) => Written(q)
  BY <1>2 DEF Written
<1>. QED BY <1>2, <1>7, <1>8, <1>9, <1>10 DEF q

(* The trade taking over the row of its swing. *)
LEMMA TakeOverSound ==
  ASSUME NEW r, NEW t \in 0..MaxTime, Sound(r, t),
         NEW s \in Swings, NEW e \in Entries, BornAt[s] <= t,
         TakenId(r, s, e) \in {SwingId(s), TradeId(s, e)},
         TakenId(r, s, e) # SwingId(s) => ~Fresh(s, t),
         \A x \in RowsOf(r.setups) : x.swing = s => x.id = TakenId(r, s, e)
  PROVE  LET q   == TakeOver(r, s, e, t)
             id  == TakenId(r, s, e)
             row == RealRow(s, id, t)
         IN  /\ Sound(q, t)
             /\ Frame(r, q, s)
             /\ row \in RowsOf(q.setups)
             /\ /\ Single(r)
                /\ \A x \in Listed(r) : x.swing = s => x.id = id
                /\ id = SwingId(s) => r.keys[id] >= BornAt[s]
                => Single(q)
             /\ Written(r) => Written(q)
<1>. DEFINE q   == TakeOver(r, s, e, t)
            id  == TakenId(r, s, e)
            row == RealRow(s, id, t)
            early == SeenRow(s, id, t)
<1>1. id \in Ids /\ id[1] = s
  BY IdsDiffer
<1>2. /\ Within(r) /\ r.setups \in Seq(Row) /\ Len(r.setups) <= MaxInProgress
      /\ r.ids \in SUBSET Ids /\ Distinct(r.setups)
      /\ Listed(r) \subseteq Row
  BY RowTypes DEF Sound
<1>3. /\ Within(q)
      /\ row \in Row /\ early \in Row
      /\ \E seen \in {r.setups, KeptList(r.setups, early)} :
           q.setups = KeptList(Without(seen, id), row)
      /\ RowsOf(q.completed) \subseteq {x \in RowsOf(r.completed) : x.id # id}
      /\ RowsOf(q.invalidated) \subseteq {x \in RowsOf(r.invalidated) : x.id # id}
      /\ Distinct(r.completed) => Distinct(q.completed)
      /\ Distinct(r.invalidated) => Distinct(q.invalidated)
      /\ q.ids \subseteq r.ids \ {id}
      /\ \A k \in r.ids \ {id} : k \in q.ids \/
           \E x \in Listed(r) : x.id = k /\ x.swing = s /\ ~x.real
      /\ q.keys = r.keys /\ q.disk = r.disk
  BY <1>1, <1>2, TakeOverFields
<1>4. /\ row.id = id /\ row.swing = s /\ row.real /\ row.reason = NoReason
      /\ row.detectedAt = t
      /\ early.id = id /\ early.swing = s
  BY DEF RealRow, SeenRow
<1>5. PICK seen \in {r.setups, KeptList(r.setups, early)} :
        q.setups = KeptList(Without(seen, id), row)
  BY <1>3
<1>6. \A x \in RowsOf(r.setups) : x.id = id <=> x.swing = s
  BY <1>1 DEF Sound, AllRows, RowOK
<1>. DEFINE left == Without(seen, id)
<1>. HIDE DEF q, id, row, early
<1>7. /\ seen \in Seq(Row) /\ Len(seen) <= MaxInProgress /\ Distinct(seen)
      /\ \A x \in RowsOf(seen) : x = early \/ x \in RowsOf(r.setups)
      /\ Cardinality(Swings) <= MaxInProgress =>
           \A x \in RowsOf(r.setups) : x.id # id => x \in RowsOf(seen)
  <2>1. CASE seen = r.setups
    BY <2>1, <1>2
  <2>2. CASE seen = KeptList(r.setups, early)
    <3>1. /\ seen \in Seq(Row) /\ Len(seen) <= MaxInProgress
          /\ RowsOf(seen)
               \subseteq {early} \cup {x \in RowsOf(r.setups) : x.id # early.id}
          /\ Distinct(seen)
          /\ Cardinality(Swings) <= MaxInProgress => RowsOf(seen) =
               {early} \cup {x \in RowsOf(r.setups) : x.id # early.id}
      <4>1. \A x \in RowsOf(r.setups) : x.id = early.id <=> x.swing = early.swing
        BY <1>4, <1>6
      <4>. QED BY <4>1, <2>2, <1>2, <1>3, KeptRows
    <3>. QED BY <3>1, <1>4
  <2>. QED BY <2>1, <2>2
<1>8. /\ left \in Seq(Row) /\ Len(left) <= MaxInProgress /\ Distinct(left)
      /\ RowsOf(left) = {x \in RowsOf(seen) : x.id # id}
  <2>1. /\ left \in Seq(Row) /\ Len(left) <= Len(seen) /\ Distinct(left)
        /\ RowsOf(left) = {x \in RowsOf(seen) : x.id # id}
    BY <1>7, WithoutKeeps
  <2>. HIDE DEF left
  <2>. QED BY <2>1, <1>7, LenProperties, RadarAssumption
<1>9. /\ \A x \in RowsOf(left) : x \in RowsOf(r.setups) /\ x.id # id /\ x.swing # s
      /\ Cardinality(Swings) <= MaxInProgress =>
           \A x \in RowsOf(r.setups) : x.id # id => x \in RowsOf(left)
  <2>. HIDE DEF left
  <2>. QED BY <1>4, <1>6, <1>7, <1>8
<1>. HIDE DEF left
<1>10. /\ row \in RowsOf(q.setups)
       /\ RowsOf(q.setups) \subseteq {row} \cup {x \in RowsOf(left) : x.id # row.id}
       /\ Distinct(q.setups)
       /\ Cardinality(Swings) <= MaxInProgress =>
            RowsOf(q.setups) = {row} \cup {x \in RowsOf(left) : x.id # row.id}
  <2>1. q.setups = KeptList(left, row)
    BY <1>5 DEF left
  <2>2. \A x \in RowsOf(left) : x.id = row.id <=> x.swing = row.swing
    BY <1>4, <1>9
  <2>. DEFINE final == KeptList(left, row)
  <2>3. row \in Row
    BY <1>3
  <2>4. left \in Seq(Row) /\ Len(left) <= MaxInProgress /\ Distinct(left)
    BY <1>8
  <2>5. /\ row \in RowsOf(final)
        /\ RowsOf(final) \subseteq {row} \cup {x \in RowsOf(left) : x.id # row.id}
        /\ Distinct(final)
        /\ Cardinality(Swings) <= MaxInProgress =>
             RowsOf(final) = {row} \cup {x \in RowsOf(left) : x.id # row.id}
    BY <2>2, <2>3, <2>4, KeptRows
  <2>. QED BY <2>1, <2>5
<1>11. \A x \in RowsOf(q.setups) :
         x = row \/ (x \in RowsOf(r.setups) /\ x.id # id /\ x.swing # s)
  BY <1>4, <1>9, <1>10
<1>12. \A x \in Listed(q) : x \in Listed(r) /\ x.id # id
  BY <1>3 DEF Listed
<1>13. RowOK(row, t)
  <2>1. t >= BornAt[s]
    BY RadarAssumption
  <2>. QED BY <2>1, <1>1, <1>4 DEF RowOK, id
<1>14. Sound(q, t)
  <2>1. \A x \in AllRows(q) \cup DiskRows(q) : RowOK(x, t)
    BY <1>3, <1>11, <1>12, <1>13 DEF Sound, AllRows, DiskRows
  <2>2. \A x \in RowsOf(q.setups) : x.id \notin q.ids
    BY <1>3, <1>4, <1>11 DEF Sound
  <2>3. KeysCover(q)
    BY <1>3 DEF Sound, KeysCover
  <2>. QED BY <1>3, <1>10, <2>1, <2>2, <2>3 DEF Sound
<1>15. Frame(r, q, s)
  <2>1. \A k \in Ids : k[1] # s => (k \in q.ids <=> k \in r.ids)
    <3>1. \A x \in Listed(r) : x.id[1] = x.swing
      BY DEF Sound, AllRows, RowOK
    <3>. QED BY <3>1, <1>1, <1>3
  <2>2. Cardinality(Swings) <= MaxInProgress =>
          \A x \in RowsOf(r.setups) : x.swing # s => x \in RowsOf(q.setups)
    BY <1>4, <1>6, <1>9, <1>10
  <2>. QED BY <2>1, <2>2, <1>3, <1>4, <1>11, <1>12 DEF Frame
<1>16. ASSUME Single(r), \A x \in Listed(r) : x.swing = s => x.id = id,
              id = SwingId(s) => r.keys[id] >= BornAt[s]
       PROVE  Single(q)
  <2>1. \A x \in Listed(q) : x.swing # s
    BY <1>12, <1>16
  <2>2. Apart(q.setups, q.completed) /\ Apart(q.setups, q.invalidated)
    BY <2>1, <1>3, <1>4, <1>11, <1>16 DEF Single, Apart, Listed
  <2>3. Apart(q.completed, q.invalidated)
    BY <1>3, <1>16 DEF Single, Apart
  <2>4. \A x \in Listed(q) : x.id \in q.ids
    <3>1. SUFFICES ASSUME NEW x \in Listed(q), x.id \notin q.ids PROVE FALSE
      OBVIOUS
    <3>2. PICK y \in Listed(r) : y.id = x.id /\ y.swing = s /\ ~y.real
      BY <3>1, <1>3, <1>12, <1>16 DEF Single
    <3>. QED BY <3>2, <1>12, <1>16
  <2>5. \A x \in RowsOf(q.setups) : x.real /\ x.id = SwingId(x.swing)
          => q.keys[x.id] >= BornAt[x.swing]
    BY <1>3, <1>4, <1>11, <1>16 DEF Single
  <2>. QED BY <1>3, <1>16, <2>2, <2>3, <2>4, <2>5 DEF Single
<1>17. Written(r) => Written(q)
  BY <1>3 DEF Written
<1>. QED BY <1>10, <1>14, <1>15, <1>16, <1>17 DEF q, id, row

-----------------------------------------------------------------------------
(* The readings of the lists. *)

LEMMA ConcatRows ==
  ASSUME NEW seq1 \in Seq(Row), NEW seq2 \in Seq(Row)
  PROVE  /\ seq1 \o seq2 \in Seq(Row)
         /\ RowsOf(seq1 \o seq2) = RowsOf(seq1) \cup RowsOf(seq2)
<1>. DEFINE n1 == Len(seq1)
            n2 == Len(seq2)
            q  == seq1 \o seq2
<1>1. /\ n1 \in Nat /\ n2 \in Nat /\ DOMAIN seq1 = 1..n1 /\ DOMAIN seq2 = 1..n2
  BY LenProperties
<1>2. /\ q \in Seq(Row) /\ DOMAIN q = 1..(n1 + n2)
      /\ \A i \in 1..(n1 + n2) : q[i] = IF i <= n1 THEN seq1[i] ELSE seq2[i - n1]
  BY ConcatProperties, LenProperties
<1>. HIDE DEF n1, n2, q
<1>3. \A i \in 1..n1 : i \in 1..(n1 + n2) /\ q[i] = seq1[i]
  BY <1>1, <1>2
<1>4. \A i \in 1..n2 : n1 + i \in 1..(n1 + n2) /\ q[n1 + i] = seq2[i]
  BY <1>1, <1>2
<1>5. \A i \in 1..(n1 + n2) : \/ i \in 1..n1 /\ q[i] = seq1[i]
                              \/ i - n1 \in 1..n2 /\ q[i] = seq2[i - n1]
  BY <1>1, <1>2
<1>6. RowsOf(q) \subseteq RowsOf(seq1) \cup RowsOf(seq2)
  BY <1>1, <1>2, <1>5 DEF RowsOf
<1>7. RowsOf(seq1) \subseteq RowsOf(q)
  BY <1>1, <1>2, <1>3 DEF RowsOf
<1>8. RowsOf(seq2) \subseteq RowsOf(q)
  <2>1. ASSUME NEW i \in 1..n2 PROVE seq2[i] \in RowsOf(q)
    BY <1>2, <1>4 DEF RowsOf
  <2>. QED BY <2>1, <1>1 DEF RowsOf
<1>. QED BY <1>2, <1>6, <1>7, <1>8 DEF q

(* The first row of a list that is in a set. *)
LEMMA FirstFound ==
  ASSUME NEW seq \in Seq(Row), NEW rows
  PROVE  LET found == Filter(seq, rows)
         IN  /\ found = <<>> <=> RowsOf(seq) \cap rows = {}
             /\ found # <<>> => found[1] \in RowsOf(seq) \cap rows
<1>. DEFINE found == Filter(seq, rows)
<1>1. found \in Seq(Row) /\ RowsOf(found) = RowsOf(seq) \cap rows
  BY FilterKeeps
<1>. HIDE DEF found
<1>2. Len(found) \in Nat /\ DOMAIN found = 1..Len(found)
  BY <1>1, LenProperties
<1>3. found # <<>> => 1 \in DOMAIN found
  BY <1>1, <1>2, EmptySeq
<1>4. found = <<>> => DOMAIN found = {}
  BY <1>2, EmptySeq
<1>5. found # <<>> => found[1] \in RowsOf(found)
  BY <1>3 DEF RowsOf
<1>6. found = <<>> => RowsOf(found) = {}
  BY <1>4 DEF RowsOf
<1>. QED BY <1>1, <1>5, <1>6 DEF found

(* A retryable reason is that of a listed tracer id of a fresh swing. *)
LEMMA RetryReasonIs ==
  ASSUME NEW r, Within(r), NEW s \in Swings, NEW t
  PROVE  /\ \A x \in RetryReason(r, s, t) :
              /\ Fresh(s, t)
              /\ RetryReason(r, s, t) = {x}
              /\ x \in RetryableReasons \cup {NoExecution}
              /\ \E row \in Listed(r) : row.id = SwingId(s) /\ row.reason = x
         /\ \A u : Fresh(s, t) /\ Fresh(s, u)
                     => RetryReason(r, s, u) = RetryReason(r, s, t)
<1>. DEFINE rows  == {row \in Listed(r) : row.id = SwingId(s)}
            found == Filter(r.invalidated \o r.completed, rows)
<1>1. r.completed \in Seq(Row) /\ r.invalidated \in Seq(Row)
  BY RowTypes
<1>2. r.invalidated \o r.completed \in Seq(Row)
  BY <1>1, ConcatRows
<1>3. found # <<>> => found[1] \in rows
  <2>. HIDE DEF rows
  <2>. QED BY <1>2, FirstFound
<1>4. \A u : RetryReason(r, s, u) =
              IF Fresh(s, u) /\ found # <<>>
              THEN {found[1].reason} \cap (RetryableReasons \cup {NoExecution})
              ELSE {}
  BY DEF RetryReason
<1>. HIDE DEF found
<1>. QED BY <1>3, <1>4

(* The identity of a trade: that of its tracer, else one of its own. *)
LEMMA TakenIdIs ==
  ASSUME NEW r, Within(r), NEW s \in Swings, NEW e \in Entries
  PROVE  \/ \E x \in AllRows(r) : x.swing = s /\ ~x.real /\ TakenId(r, s, e) = x.id
         \/ /\ \A x \in AllRows(r) : x.swing = s => x.real
            /\ TakenId(r, s, e) = TradeId(s, e)
<1>. DEFINE rows  == {row \in AllRows(r) : row.swing = s /\ ~row.real}
            all   == r.setups \o r.completed \o r.invalidated
            found == Filter(all, rows)
<1>1. /\ r.setups \in Seq(Row) /\ r.completed \in Seq(Row)
      /\ r.invalidated \in Seq(Row) /\ RowsOf(r.setups) \subseteq Row
      /\ Listed(r) \subseteq Row
  BY RowTypes
<1>2. all \in Seq(Row) /\ RowsOf(all) = AllRows(r)
  <2>. DEFINE front == r.setups \o r.completed
  <2>1. front \in Seq(Row) /\ RowsOf(front) = RowsOf(r.setups) \cup RowsOf(r.completed)
    BY <1>1, ConcatRows
  <2>. HIDE DEF front
  <2>2. /\ front \o r.invalidated \in Seq(Row)
        /\ RowsOf(front \o r.invalidated) = RowsOf(front) \cup RowsOf(r.invalidated)
    BY <2>1, <1>1, ConcatRows
  <2>3. all = front \o r.invalidated
    BY DEF front
  <2>. QED BY <2>1, <2>2, <2>3 DEF AllRows, Listed
<1>. HIDE DEF all, rows
<1>3. /\ found = <<>> <=> RowsOf(all) \cap rows = {}
      /\ found # <<>> => found[1] \in RowsOf(all) \cap rows
  BY <1>2, FirstFound
<1>4. TakenId(r, s, e) = IF found = <<>> THEN TradeId(s, e) ELSE found[1].id
  BY DEF TakenId, all, rows
<1>5. \A row \in AllRows(r) : row.real \in BOOLEAN
  BY <1>1 DEF AllRows, Row
<1>6. CASE found = <<>>
  <2>1. \A x \in AllRows(r) : x.swing = s => x.real
    BY <1>2, <1>3, <1>5, <1>6 DEF rows
  <2>. QED BY <2>1, <1>4, <1>6
<1>7. CASE found # <<>>
  <2>1. found[1] \in AllRows(r) /\ found[1].swing = s /\ ~found[1].real
    BY <1>2, <1>3, <1>7 DEF rows
  <2>. QED BY <2>1, <1>4, <1>7
<1>. QED BY <1>6, <1>7

(* What the filter guarantees of a swing it passes on: no trade of its own *)
(* id is in IN PROGRESS, and a resolved swing has a retryable row.         *)
LEMMA AdmittedMeans ==
  ASSUME NEW r, NEW t \in Nat, Sound(r, t), NEW s \in Swings, Admitted(r, s, t)
  PROVE  /\ \A x \in RowsOf(r.setups) : x.swing = s => x.id = SwingId(s)
         /\ SwingId(s) \in r.ids => RetryReason(r, s, t) # {}
<1>1. Within(r) /\ r.keys \in [Ids -> {Never} \cup (0..MaxTime)] /\ SwingId(s) \in Ids
  BY RowTypes, IdsDiffer DEF Sound
<1>2. RetryReason(r, s, t) # {} => Fresh(s, t)
  BY <1>1, RetryReasonIs
<1>3. ASSUME SwingId(s) \in r.ids PROVE RetryReason(r, s, t) # {}
  <2>1. SUFFICES ASSUME ~KeyResolved(r, SwingId(s), t) PROVE FALSE
    BY DEF Admitted
  <2>2. Fresh(s, t)
    BY <2>1, <1>3 DEF Admitted, Has, Sound
  <2>3. r.keys[SwingId(s)] >= BornAt[s]
    BY <1>3 DEF Sound, KeysCover
  <2>4. r.keys[SwingId(s)] # Never
    BY <2>3, RadarAssumption DEF Never
  <2>5. t - r.keys[SwingId(s)] < KeyExpiry
    BY <2>2, <2>3, <2>4, <1>1, RadarAssumption DEF Fresh
  <2>. QED BY <2>1, <2>4, <2>5 DEF KeyResolved
<1>4. ASSUME NEW x \in RowsOf(r.setups), x.swing = s, x.id # SwingId(s) PROVE FALSE
  <2>1. ~Fresh(s, t)
    BY <1>4 DEF Sound, AllRows, RowOK
  <2>2. PICK y \in RowsOf(r.setups) : y.id = SwingId(s)
    BY <2>1, <1>2 DEF Admitted, Has
  <2>3. y.swing = s
    BY <2>2, IdsDiffer DEF Sound, AllRows, RowOK
  <2>4. x = y
    BY <2>3, <1>4 DEF Sound, Distinct, RowsOf
  <2>. QED BY <2>2, <2>4, <1>4
<1>. QED BY <1>3, <1>4

-----------------------------------------------------------------------------
(* The attempt trace. *)

LEMMA TracerRows ==
  ASSUME NEW s \in Swings, NEW isFull \in BOOLEAN, NEW t, BornAt[s] <= t
  PROVE  /\ TracerRow(s, isFull) \in Row /\ RowOK(TracerRow(s, isFull), t)
         /\ TracerRow(s, isFull).id = SwingId(s) /\ TracerRow(s, isFull).swing = s
         /\ ~TracerRow(s, isFull).real
BY IdsDiffer DEF TracerRow, Row, RowOK, NoReason

InvalidatedRow(s, isFull, why) ==
  [TracerRow(s, isFull) EXCEPT !.state = "INVALIDATED", !.reason = why,
                               !.exec = "invalidated"]

LEMMA InvalidatedRows ==
  ASSUME NEW s \in Swings, NEW isFull \in BOOLEAN, NEW t, BornAt[s] <= t,
         NEW why \in {NoReason, NoExecution} \cup RetryableReasons \cup FatalReasons
  PROVE  LET row == InvalidatedRow(s, isFull, why)
         IN  /\ row \in Row /\ RowOK(row, t)
             /\ row.id = SwingId(s) /\ row.swing = s /\ ~row.real
BY IdsDiffer DEF InvalidatedRow, TracerRow, Row, RowOK, NoReason

LEMMA OutcomeTypes ==
  ASSUME NEW o \in Outcomes
  PROVE  /\ o.kind \in {"waiting", "failed", "ready"}
         /\ o.reason \in {NoReason, NoExecution} \cup RetryableReasons \cup FatalReasons
         /\ o.trade # {} => o.kind = "ready"
         /\ o.trade \subseteq Entries
         /\ o.kind = "failed" => o.reason \in RetryableReasons \cup FatalReasons
BY DEF Outcomes

(* What a trace leaves behind of its swing. *)
Traced(r, q, s) ==
  /\ \A x \in RowsOf(q.setups) : x.swing = s => x.id = SwingId(s)
  /\ \A x \in AllRows(q) : x.swing = s => x \in AllRows(r) \/ x.id = SwingId(s)
  /\ Has(r.setups, SwingId(s)) => \E x \in AllRows(q) : x.id = SwingId(s)

HasTracer(r, s) == \E x \in AllRows(r) : x.swing = s /\ ~x.real

LEMMA StoreTraceSound ==
  ASSUME NEW r, NEW t \in 0..MaxTime, Sound(r, t), NEW s \in Swings, BornAt[s] <= t,
         SwingId(s) \notin r.ids,
         \A x \in RowsOf(r.setups) : x.swing = s => x.id = SwingId(s),
         NEW o \in Outcomes, NEW saved \in BOOLEAN
  PROVE  LET q == StoreTrace(r, s, o, t, saved)
         IN  /\ Sound(q, t) /\ Frame(r, q, s) /\ Traced(r, q, s)
             /\ o.kind = "ready" => /\ HasTracer(q, s)
                                    /\ q.keys[SwingId(s)] >= BornAt[s]
             /\ Single(r) /\ (\A x \in Listed(r) : x.swing # s) => Single(q)
             /\ Written(r) /\ saved => Written(q)
<1>. DEFINE id == SwingId(s)
            wasFull == \E row \in RowsOf(r.setups) : row.id = id /\ row.full
            new == TracerRow(s, FALSE)
            recorded == IF Has(r.setups, id) THEN r ELSE RecordInProgress(r, new)
            full == wasFull \/ o.kind = "ready"
            resolved == InvalidatedRow(s, full, o.reason)
            q == StoreTrace(r, s, o, t, saved)
<1>1. /\ q = IF o.kind = "waiting" THEN Keep(r, TracerRow(s, wasFull))
             ELSE IF o.kind = "failed" /\ wasFull THEN r
             ELSE Resolve(recorded, "invalidated", resolved, t, saved)
  BY DEF StoreTrace, InvalidatedRow
<1>2. wasFull \in BOOLEAN /\ full \in BOOLEAN
  OBVIOUS
<1>3. TracerRow(s, wasFull) \in Row /\ RowOK(TracerRow(s, wasFull), t)
      /\ TracerRow(s, wasFull).id = id /\ TracerRow(s, wasFull).swing = s
      /\ ~TracerRow(s, wasFull).real
  <2>. HIDE DEF wasFull
  <2>. QED BY <1>2, TracerRows
<1>4. new \in Row /\ RowOK(new, t) /\ new.id = id /\ new.swing = s /\ ~new.real
  BY TracerRows
<1>5. resolved \in Row /\ RowOK(resolved, t)
      /\ resolved.id = id /\ resolved.swing = s /\ ~resolved.real
  <2>. HIDE DEF full
  <2>. QED BY <1>2, OutcomeTypes, InvalidatedRows
<1>. HIDE DEF q, wasFull, new, resolved, full
<1>6. CASE o.kind = "waiting"
  <2>. DEFINE row == TracerRow(s, wasFull)
  <2>1. q = Keep(r, row)
    BY <1>1, <1>6
  <2>. HIDE DEF row
  <2>2. row \in Row /\ RowOK(row, t) /\ row.id = id /\ row.swing = s /\ ~row.real
    BY <1>3 DEF row
  <2>3. /\ row.id \notin r.ids
        /\ \A x \in RowsOf(r.setups) : x.swing = row.swing => x.id = row.id
    BY <2>2
  <2>4. /\ Sound(q, t) /\ Frame(r, q, row.swing)
        /\ row \in RowsOf(q.setups)
        /\ \A x \in RowsOf(q.setups) : x = row \/ x.swing # row.swing
        /\ q.completed = r.completed /\ q.invalidated = r.invalidated
        /\ /\ Single(r)
           /\ \A x \in Listed(r) : x.swing # row.swing
           /\ row.real /\ row.id = SwingId(row.swing)
                => r.keys[row.id] >= BornAt[row.swing]
           => Single(q)
        /\ Written(r) => Written(q)
    BY <2>1, <2>2, <2>3, KeepSound
  <2>5. Traced(r, q, s)
    BY <2>2, <2>4 DEF Traced, AllRows, Listed
  <2>. QED BY <2>2, <2>4, <2>5, <1>6 DEF q
<1>7. CASE o.kind = "failed" /\ wasFull
  <2>1. q = r
    BY <1>1, <1>7
  <2>2. Traced(r, r, s)
    BY DEF Traced, Has, AllRows
  <2>. QED BY <2>1, <2>2, <1>7, FrameReflexive DEF q
<1>8. CASE o.kind # "waiting" /\ ~(o.kind = "failed" /\ wasFull)
  <2>1. q = Resolve(recorded, "invalidated", resolved, t, saved)
    BY <1>1, <1>8
  <2>2. /\ Sound(recorded, t) /\ Frame(r, recorded, s)
        /\ \A x \in RowsOf(recorded.setups) :
             x.swing = s => x \in RowsOf(r.setups) \/ x.id = id
        /\ recorded.completed = r.completed /\ recorded.invalidated = r.invalidated
        /\ recorded.ids = r.ids
        /\ Single(r) /\ (\A x \in Listed(r) : x.swing # s) => Single(recorded)
        /\ Written(r) => Written(recorded)
    <3>1. CASE Has(r.setups, id) \/ id \in r.history
      <4>1. recorded = r
        BY <3>1, <1>4 DEF RecordInProgress
      <4>. QED BY <4>1, FrameReflexive
    <3>2. CASE ~Has(r.setups, id) /\ id \notin r.history
      <4>1. recorded = Keep(r, new)
        BY <3>2, <1>4 DEF RecordInProgress
      <4>. HIDE DEF recorded
      <4>2. /\ new.id \notin r.ids
            /\ \A x \in RowsOf(r.setups) : x.swing = new.swing => x.id = new.id
        BY <1>4
      <4>3. /\ Sound(recorded, t) /\ Frame(r, recorded, new.swing)
            /\ \A x \in RowsOf(recorded.setups) : x = new \/ x.swing # new.swing
            /\ recorded.completed = r.completed
            /\ recorded.invalidated = r.invalidated
            /\ recorded.ids = r.ids
            /\ /\ Single(r)
               /\ \A x \in Listed(r) : x.swing # new.swing
               /\ new.real /\ new.id = SwingId(new.swing)
                    => r.keys[new.id] >= BornAt[new.swing]
               => Single(recorded)
            /\ Written(r) => Written(recorded)
        BY <4>1, <4>2, <1>4, KeepSound
      <4>. QED BY <4>3, <1>4
    <3>. QED BY <3>1, <3>2
  <2>. HIDE DEF recorded
  <2>3. BornAt[resolved.swing] <= t /\ resolved.id \notin recorded.ids
        /\ "invalidated" \in Stores
    BY <2>2, <1>5 DEF Stores
  <2>4. /\ Sound(q, t) /\ Frame(recorded, q, resolved.swing)
        /\ RowsOf(q.setups) = {x \in RowsOf(recorded.setups) : x.id # resolved.id}
        /\ Listed(q) \subseteq {resolved} \cup Listed(recorded)
        /\ resolved \in RowsOf(q.invalidated)
        /\ q.keys[resolved.id] = t
        /\ /\ Single(recorded)
           /\ \A x \in Listed(recorded) : x.swing # resolved.swing
           /\ \A x \in RowsOf(recorded.setups) :
                x.swing = resolved.swing => x.id = resolved.id
           => Single(q)
        /\ Written(recorded) /\ saved => Written(q)
    BY <2>1, <2>2, <2>3, <1>5, ResolveSound
  <2>5. Listed(recorded) = Listed(r)
    BY <2>2 DEF Listed
  <2>6. Frame(r, q, s)
    BY <2>2, <2>4, <1>5, FrameComposes
  <2>7. resolved \in AllRows(q)
    BY <2>4 DEF AllRows, Listed
  <2>8. Traced(r, q, s)
    BY <2>2, <2>4, <2>5, <2>7, <1>5 DEF Traced, AllRows
  <2>9. HasTracer(q, s) /\ q.keys[id] >= BornAt[s]
    BY <2>4, <2>7, <1>5, RadarAssumption DEF HasTracer
  <2>10. Single(r) /\ (\A x \in Listed(r) : x.swing # s) => Single(q)
    BY <2>2, <2>4, <2>5, <1>5
  <2>. QED BY <2>2, <2>4, <2>6, <2>8, <2>9, <2>10 DEF q
<1>. QED BY <1>6, <1>7, <1>8, OutcomeTypes DEF q

(* The trace of a swing the filter passed on.  The clock may have moved to *)
(* t since the filter ran at t0.                                           *)
LEMMA TraceSound ==
  ASSUME NEW r, NEW t0 \in 0..MaxTime, NEW t \in 0..MaxTime, t0 <= t,
         Sound(r, t0), NEW s \in Swings, BornAt[s] <= t0, Admitted(r, s, t0),
         NEW o \in Outcomes, NEW saved \in BOOLEAN
  PROVE  LET q == Trace(r, s, o, t, saved)
         IN  /\ Sound(q, t) /\ Frame(r, q, s) /\ Traced(r, q, s)
             /\ Single(r) => Single(q)
             /\ Written(r) /\ saved => Written(q)
             /\ o.kind = "ready" /\ Fresh(s, t0) =>
                  \/ HasTracer(q, s)
                  \/ /\ ~Fresh(s, t)
                     /\ \A x \in RowsOf(q.setups) : x.swing # s
                     /\ Single(r) => \A x \in Listed(q) : x.swing # s
             /\ o.kind = "ready" /\ Single(r) /\ HasTracer(q, s)
                  => q.keys[SwingId(s)] >= BornAt[s]
<1>. DEFINE q  == Trace(r, s, o, t, saved)
            id == SwingId(s)
            reasons == RetryReason(r, s, t)
<1>1. /\ Within(r) /\ Sound(r, t) /\ BornAt[s] <= t
      /\ RowsOf(r.setups) \subseteq Row /\ Listed(r) \subseteq Row
  <2>1. t0 \in Nat /\ t \in Nat /\ t0 <= t /\ BornAt[s] \in Int
    BY RadarAssumption
  <2>2. Sound(r, t)
    BY <2>1, SoundLater
  <2>3. Within(r)
    BY <2>2 DEF Sound
  <2>4. RowsOf(r.setups) \subseteq Row /\ Listed(r) \subseteq Row
    BY <2>3, RowTypes
  <2>. QED BY <2>1, <2>2, <2>3, <2>4
<1>2. /\ \A x \in RowsOf(r.setups) : x.swing = s => x.id = id
      /\ id \in r.ids => RetryReason(r, s, t0) # {}
  BY AdmittedMeans
<1>3. Fresh(s, t) => Fresh(s, t0)
  BY RadarAssumption DEF Fresh
<1>4. Fresh(s, t0) => \A x \in AllRows(r) : x.swing = s => x.id = id
  BY DEF Sound, RowOK
<1>5. /\ \A x \in reasons : /\ Fresh(s, t) /\ reasons = {x}
                           /\ x \in RetryableReasons \cup {NoExecution}
      /\ \A x \in RetryReason(r, s, t0) :
           /\ Fresh(s, t0) /\ RetryReason(r, s, t0) = {x}
           /\ x \in RetryableReasons \cup {NoExecution}
           /\ \E row \in Listed(r) : row.id = id /\ row.reason = x
      /\ Fresh(s, t0) /\ Fresh(s, t) => reasons = RetryReason(r, s, t0)
  BY <1>1, RetryReasonIs
<1>6. /\ q = IF ~Fresh(s, t) /\ ~Has(r.setups, id) THEN [r EXCEPT !.keys[id] = t]
             ELSE IF id \notin r.ids THEN StoreTrace(r, s, o, t, saved)
             ELSE IF reasons = {} \/ SameTerminalRetry(reasons, o) THEN r
             ELSE StoreTrace(Reopen(r, s), s, o, t, saved)
  BY DEF Trace
(* A resolved swing that was admitted has a listed tracer row. *)
<1>7. ASSUME id \in r.ids
      PROVE  \E x \in Listed(r) : x.id = id /\ x.swing = s /\ ~x.real
  <2>1. PICK why \in RetryReason(r, s, t0) : TRUE
    BY <1>2, <1>7
  <2>2. PICK row \in Listed(r) : row.id = id /\ row.reason = why
    BY <2>1, <1>5
  <2>3. why \notin {NoReason, SetupExpired}
    BY <2>1, <1>5, RadarAssumption DEF NoReason, SetupExpired, NoExecution
  <2>4. RowOK(row, t0) /\ row.real \in BOOLEAN
    BY <2>2, <1>1 DEF Sound, AllRows, Row
  <2>. QED BY <2>2, <2>3, <2>4, IdsDiffer DEF RowOK
<1>. HIDE DEF q, reasons
<1>8. CASE ~Fresh(s, t) /\ ~Has(r.setups, id)
  <2>1. q = [r EXCEPT !.keys[id] = t]
    BY <1>6, <1>8
  <2>2. /\ Sound(q, t) /\ Frame(r, q, s) /\ q.setups = r.setups
        /\ q.completed = r.completed /\ q.invalidated = r.invalidated
        /\ Single(r) => Single(q)
        /\ Written(r) => Written(q)
    BY <2>1, <1>1, KeyedSound
  <2>3. Traced(r, q, s)
    BY <2>2, <1>2, <1>8 DEF Traced, AllRows, Listed
  <2>4. \A x \in RowsOf(q.setups) : x.swing # s
    BY <2>2, <1>2, <1>8 DEF Has
  <2>5. Listed(q) = Listed(r) /\ AllRows(q) = AllRows(r)
    BY <2>2 DEF Listed, AllRows
  <2>6. ASSUME Single(r), Fresh(s, t0), ~HasTracer(q, s), NEW x \in Listed(q), x.swing = s
        PROVE  FALSE
    <3>1. x.id = id /\ x.id \in r.ids
      BY <2>5, <2>6, <1>4 DEF Single, AllRows
    <3>2. HasTracer(r, s)
      BY <3>1, <1>7 DEF HasTracer, AllRows
    <3>. QED BY <3>2, <2>5, <2>6 DEF HasTracer
  <2>7. ASSUME Single(r), HasTracer(q, s) PROVE q.keys[id] >= BornAt[s]
    <3>1. PICK x \in Listed(q) : x.swing = s /\ ~x.real
      BY <2>4, <2>7 DEF HasTracer, AllRows
    <3>2. x.id = id /\ x.id \in q.ids
      BY <3>1, <2>2, <2>7 DEF Sound, RowOK, AllRows, Single
    <3>. QED BY <3>2, <2>2 DEF Sound, KeysCover
  <2>. QED BY <2>2, <2>3, <2>4, <2>6, <2>7, <1>8 DEF q
<1>9. CASE (Fresh(s, t) \/ Has(r.setups, id)) /\ id \notin r.ids
  <2>1. q = StoreTrace(r, s, o, t, saved)
    BY <1>6, <1>9
  <2>2. /\ Sound(q, t) /\ Frame(r, q, s) /\ Traced(r, q, s)
        /\ o.kind = "ready" => HasTracer(q, s) /\ q.keys[id] >= BornAt[s]
        /\ Single(r) /\ (\A x \in Listed(r) : x.swing # s) => Single(q)
        /\ Written(r) /\ saved => Written(q)
    BY <2>1, <1>1, <1>2, <1>9, StoreTraceSound
  <2>3. ASSUME Single(r), NEW x \in Listed(r), x.swing = s PROVE FALSE
    <3>1. CASE Fresh(s, t)
      BY <3>1, <2>3, <1>3, <1>4, <1>9 DEF AllRows, Single
    <3>2. CASE Has(r.setups, id)
      <4>1. PICK y \in RowsOf(r.setups) : y.id = id
        BY <3>2 DEF Has
      <4>2. y.swing = s
        BY <4>1, IdsDiffer DEF Sound, AllRows, RowOK
      <4>. QED BY <4>2, <2>3 DEF Single, Apart, Listed
    <3>. QED BY <3>1, <3>2, <1>9
  <2>. QED BY <2>2, <2>3 DEF q
<1>10. CASE /\ Fresh(s, t) \/ Has(r.setups, id)
            /\ id \in r.ids
            /\ reasons = {} \/ SameTerminalRetry(reasons, o)
  <2>1. q = r
    BY <1>6, <1>10
  <2>2. Traced(r, r, s)
    BY <1>2 DEF Traced, Has, AllRows
  <2>3. HasTracer(r, s) /\ r.keys[id] >= BornAt[s]
    BY <1>7, <1>10 DEF HasTracer, AllRows, Sound, KeysCover
  <2>. QED BY <2>1, <2>2, <2>3, <1>1, FrameReflexive DEF q
<1>11. CASE /\ Fresh(s, t) \/ Has(r.setups, id)
            /\ id \in r.ids
            /\ ~(reasons = {} \/ SameTerminalRetry(reasons, o))
  <2>. DEFINE open == Reopen(r, s)
  <2>1. q = StoreTrace(open, s, o, t, saved)
    BY <1>6, <1>11
  <2>2. /\ Sound(open, t) /\ Frame(r, open, s) /\ open.setups = r.setups
        /\ Listed(open) \subseteq {x \in Listed(r) : x.id # id}
        /\ id \notin open.ids
        /\ Single(r) => Single(open)
        /\ Written(r) => Written(open)
    BY <1>1, <1>11, ReopenSound
  <2>. HIDE DEF open
  <2>3. Fresh(s, t) /\ Fresh(s, t0)
    BY <1>3, <1>5, <1>11
  <2>4. \A x \in Listed(open) : x.swing # s
    BY <2>2, <2>3, <1>4 DEF AllRows
  <2>5. /\ Sound(q, t) /\ Frame(open, q, s) /\ Traced(open, q, s)
        /\ o.kind = "ready" => HasTracer(q, s) /\ q.keys[id] >= BornAt[s]
        /\ Single(open) /\ (\A x \in Listed(open) : x.swing # s) => Single(q)
        /\ Written(open) /\ saved => Written(q)
    BY <2>1, <2>2, <1>1, <1>2, StoreTraceSound
  <2>6. Frame(r, q, s)
    BY <2>2, <2>5, FrameComposes
  <2>7. Traced(r, q, s)
    BY <2>2, <2>5 DEF Traced, AllRows
  <2>. QED BY <2>2, <2>4, <2>5, <2>6, <2>7 DEF q
<1>. QED BY <1>8, <1>9, <1>10, <1>11

-----------------------------------------------------------------------------
(* The hand-off, and with it the whole evaluation of a swing. *)

LEMMA MarkedSound ==
  ASSUME NEW r, NEW t, Sound(r, t), NEW s \in Swings, NEW e \in Entries
  PROVE  LET q == MarkProcessed(r, s, e)
         IN  /\ Sound(q, t) /\ Frame(r, q, s)
             /\ q.setups = r.setups /\ Listed(q) = Listed(r)
             /\ Single(r) => Single(q)
             /\ Written(r) => Written(q)
<1>. DEFINE q == MarkProcessed(r, s, e)
            done == r.processed \cup {<<s, e>>}
<1>1. Within(r) /\ r \in RadarType /\ done \in SUBSET (Swings \X Entries)
  BY DEF Sound, Within, RadarType
<1>2. q = [r EXCEPT !.processed = done]
  BY DEF MarkProcessed
<1>. HIDE DEF q, done
<1>3. /\ q \in RadarType /\ q.setups = r.setups
      /\ q.completed = r.completed /\ q.invalidated = r.invalidated
      /\ q.ids = r.ids /\ q.keys = r.keys /\ q.disk = r.disk
  BY <1>1, <1>2 DEF RadarType
<1>4. Within(q) /\ AllRows(q) = AllRows(r) /\ Listed(q) = Listed(r)
      /\ DiskRows(q) = DiskRows(r)
  BY <1>1, <1>3 DEF Within, AllRows, Listed, DiskRows
<1>5. Sound(q, t)
  BY <1>3, <1>4 DEF Sound, KeysCover
<1>6. Single(r) => Single(q)
  BY <1>3, <1>4 DEF Single
<1>. QED BY <1>3, <1>4, <1>5, <1>6 DEF q, Frame, Written

LEMMA EvaluateSound ==
  ASSUME NEW r, NEW t0 \in 0..MaxTime, NEW t \in 0..MaxTime, t0 <= t,
         Sound(r, t0), NEW s \in Swings, BornAt[s] <= t0, Admitted(r, s, t0),
         NEW o \in Outcomes, NEW saved \in BOOLEAN
  PROVE  LET q == Trade(Trace(r, s, o, t, saved), s, o, t0, t)
         IN  /\ Sound(q, t) /\ Frame(r, q, s)
             /\ Single(r) => Single(q)
             /\ Written(r) /\ saved => Written(q)
             /\ Single(r) /\ Has(r.setups, SwingId(s))
                  => \E x \in AllRows(q) : x.id = SwingId(s)
<1>. DEFINE w == Trace(r, s, o, t, saved)
            q == Trade(w, s, o, t0, t)
            e == CHOOSE x \in o.trade : TRUE
<1>1. /\ Sound(w, t) /\ Frame(r, w, s) /\ Traced(r, w, s)
      /\ Single(r) => Single(w)
      /\ Written(r) /\ saved => Written(w)
      /\ o.kind = "ready" /\ Fresh(s, t0) =>
           \/ HasTracer(w, s)
           \/ /\ ~Fresh(s, t)
              /\ \A x \in RowsOf(w.setups) : x.swing # s
              /\ Single(r) => \A x \in Listed(w) : x.swing # s
      /\ o.kind = "ready" /\ Single(r) /\ HasTracer(w, s)
           => w.keys[SwingId(s)] >= BornAt[s]
  BY TraceSound
<1>2. BornAt[s] <= t
  BY RadarAssumption
<1>. HIDE DEF w
<1>3. CASE ~\E x \in o.trade : <<s, x>> \notin w.processed
  <2>1. q = w
    BY <1>3 DEF Trade
  <2>. QED BY <2>1, <1>1 DEF Traced, w
<1>4. CASE \E x \in o.trade : <<s, x>> \notin w.processed
  <2>1. e \in o.trade /\ e \in Entries /\ o.kind = "ready"
    BY <1>4, OutcomeTypes
  <2>. HIDE DEF e
  <2>2. q = IF Fresh(s, t0) THEN TakeOver(w, s, e, t) ELSE MarkProcessed(w, s, e)
    BY <1>4 DEF Trade, e
  <2>. HIDE DEF q
  <2>3. CASE ~Fresh(s, t0)
    <3>1. q = MarkProcessed(w, s, e)
      BY <2>2, <2>3
    <3>2. /\ Sound(q, t) /\ Frame(w, q, s)
          /\ q.setups = w.setups /\ Listed(q) = Listed(w)
          /\ Single(w) => Single(q)
          /\ Written(w) => Written(q)
      BY <3>1, <2>1, <1>1, MarkedSound
    <3>3. Frame(r, q, s)
      BY <3>2, <1>1, FrameComposes
    <3>. QED BY <3>2, <3>3, <1>1 DEF Traced, AllRows, q, w
  <2>4. CASE Fresh(s, t0)
    <3>. DEFINE id == TakenId(w, s, e)
                row == RealRow(s, id, t)
    <3>1. q = TakeOver(w, s, e, t)
      BY <2>2, <2>4
    <3>2. \A x \in AllRows(r) : x.swing = s => x.id = SwingId(s)
      BY <2>4 DEF Sound, RowOK
    <3>3. \A x \in AllRows(w) : x.swing = s => x.id = SwingId(s)
      BY <3>2, <1>1 DEF Traced
    <3>4. Within(w)
      BY <1>1 DEF Sound
    <3>5. /\ id \in {SwingId(s), TradeId(s, e)}
          /\ id # SwingId(s) => ~Fresh(s, t)
          /\ \A x \in RowsOf(w.setups) : x.swing = s => x.id = id
          /\ Single(r) => \A x \in Listed(w) : x.swing = s => x.id = id
          /\ Single(r) /\ id = SwingId(s) => w.keys[id] >= BornAt[s]
          /\ Single(r) /\ id # SwingId(s) => \A x \in AllRows(w) : x.swing # s
      <4>1. CASE \E x \in AllRows(w) : x.swing = s /\ ~x.real /\ id = x.id
        <5>1. HasTracer(w, s) /\ id = SwingId(s)
          BY <4>1, <3>3 DEF HasTracer
        <5>. HIDE DEF id
        <5>. QED BY <5>1, <3>3, <2>1, <1>1 DEF AllRows
      <4>2. CASE (\A x \in AllRows(w) : x.swing = s => x.real) /\ id = TradeId(s, e)
        <5>1. ~HasTracer(w, s)
          BY <4>2 DEF HasTracer
        <5>2. id # SwingId(s)
          BY <4>2, <2>1, IdsDiffer
        <5>3. /\ ~Fresh(s, t)
              /\ \A x \in RowsOf(w.setups) : x.swing # s
              /\ Single(r) => \A x \in Listed(w) : x.swing # s
          BY <5>1, <2>1, <2>4, <1>1
        <5>. HIDE DEF id
        <5>. QED BY <4>2, <5>2, <5>3 DEF AllRows
      <4>. QED BY <4>1, <4>2, <3>4, <2>1, TakenIdIs
    <3>6. /\ Sound(q, t) /\ Frame(w, q, s)
          /\ row \in RowsOf(q.setups)
          /\ /\ Single(w)
             /\ \A x \in Listed(w) : x.swing = s => x.id = id
             /\ id = SwingId(s) => w.keys[id] >= BornAt[s]
             => Single(q)
          /\ Written(w) => Written(q)
      BY <3>1, <3>5, <2>1, <1>1, <1>2, TakeOverSound
    <3>7. Frame(r, q, s)
      BY <3>6, <1>1, FrameComposes
    <3>8. row.id = id
      BY DEF RealRow
    <3>9. ASSUME Single(r), Has(r.setups, SwingId(s))
          PROVE  \E x \in AllRows(q) : x.id = SwingId(s)
      <4>1. PICK x \in AllRows(w) : x.id = SwingId(s)
        BY <3>9, <1>1 DEF Traced
      <4>2. x.swing = s
        BY <4>1, <1>1, IdsDiffer DEF Sound, RowOK
      <4>3. id = SwingId(s)
        BY <4>1, <4>2, <3>5, <3>9
      <4>. HIDE DEF id, row
      <4>. QED BY <4>3, <3>6, <3>8 DEF AllRows
    <3>. HIDE DEF id, row
    <3>. QED BY <3>5, <3>6, <3>7, <3>9, <1>1 DEF q, w
  <2>. QED BY <2>3, <2>4
<1>. QED BY <1>3, <1>4

-----------------------------------------------------------------------------
(* The actions. *)

(* A decision of live automation on a tradable row. *)
Decided(row, done) ==
  /\ done \in Row
  /\ done.id = row.id /\ done.swing = row.swing
  /\ done.real = row.real /\ done.detectedAt = row.detectedAt
  /\ done.reason \in {row.reason, SetupExpired}
  /\ done.exec # "pending"

LEMMA DecisionSound ==
  ASSUME NEW r, NEW t \in 0..MaxTime, Sound(r, t), NEW row \in RowsOf(r.setups),
         row.state = "ENTRY_READY", NEW done, Decided(row, done),
         NEW store \in Stores, NEW saved \in BOOLEAN
  PROVE  LET q == Resolve(r, store, done, t, saved)
         IN  /\ Sound(q, t) /\ Frame(r, q, row.swing)
             /\ RowsOf(q.setups) = {x \in RowsOf(r.setups) : x.id # row.id}
             /\ \A x \in RowsOf(q.setups) : x.swing # row.swing
             /\ Listed(q) \subseteq {done} \cup Listed(r)
             /\ done \in Listed(q) /\ done.real
             /\ store = "completed" => done \in RowsOf(q.completed)
             /\ q.ids = r.ids \cup {row.id}
             /\ Single(r) => Single(q)
             /\ Written(r) /\ saved => Written(q)
<1>. DEFINE q == Resolve(r, store, done, t, saved)
<1>1. RowOK(row, t) /\ row.id \notin r.ids /\ row.real
  BY DEF Sound, AllRows, RowOK
<1>2. /\ done \in Row /\ RowOK(done, t) /\ BornAt[done.swing] <= t
      /\ done.id \notin r.ids /\ done.real
  BY <1>1 DEF Decided, RowOK
<1>3. /\ Sound(q, t)
      /\ Frame(r, q, done.swing)
      /\ RowsOf(q.setups) = {x \in RowsOf(r.setups) : x.id # done.id}
      /\ Listed(q) \subseteq {done} \cup Listed(r)
      /\ store = "completed" => done \in RowsOf(q.completed)
      /\ store = "invalidated" => done \in RowsOf(q.invalidated)
      /\ q.ids = r.ids \cup {done.id}
      /\ /\ Single(r)
         /\ \A x \in Listed(r) : x.swing # done.swing
         /\ \A x \in RowsOf(r.setups) : x.swing = done.swing => x.id = done.id
         => Single(q)
      /\ Written(r) /\ saved => Written(q)
  BY <1>2, ResolveSound
<1>. HIDE DEF q
<1>4. done.id = row.id /\ done.swing = row.swing
  BY DEF Decided
<1>5. \A x \in RowsOf(r.setups) : x.swing = row.swing => x = row
  BY DEF Sound, Distinct, RowsOf
<1>6. Single(r) => \A x \in Listed(r) : x.swing # row.swing
  BY DEF Single, Apart, Listed
<1>7. done \in Listed(q)
  BY <1>3 DEF Listed, Stores
<1>. QED BY <1>2, <1>3, <1>4, <1>5, <1>6, <1>7 DEF q

(* An order has gone out for a swing: it is out of IN PROGRESS for good.   *)
Closed(r, s, t) ==
  /\ \A row \in RowsOf(r.setups) : row.swing # s
  /\ \/ ~Fresh(s, t)
     \/ /\ SwingId(s) \in r.ids
        /\ \A row \in Listed(r) : row.swing = s => row.real

Settled ==
  \A s \in Swings : orders[s] = 0 \/ (orders[s] = 1 /\ Closed(radar, s, now))

(* The filter keeps a closed swing out. *)
LEMMA ClosedNotAdmitted ==
  ASSUME NEW r, NEW t \in Nat, Sound(r, t), NEW s \in Swings, Closed(r, s, t)
  PROVE  ~Admitted(r, s, t)
<1>. SUFFICES ASSUME Admitted(r, s, t) PROVE FALSE
  OBVIOUS
<1>1. Within(r)
  BY DEF Sound
<1>2. \A x \in RetryReason(r, s, t) :
        /\ Fresh(s, t)
        /\ x \in RetryableReasons \cup {NoExecution}
        /\ \E row \in Listed(r) : row.id = SwingId(s) /\ row.reason = x
  BY <1>1, RetryReasonIs
<1>3. ~Has(r.setups, SwingId(s))
  BY IdsDiffer DEF Closed, Has, Sound, AllRows, RowOK
<1>4. CASE RetryReason(r, s, t) = {}
  <2>1. ~KeyResolved(r, SwingId(s), t) /\ Fresh(s, t)
    BY <1>3, <1>4 DEF Admitted
  <2>. QED BY <2>1, <1>4, AdmittedMeans DEF Closed
<1>5. CASE RetryReason(r, s, t) # {}
  <2>1. PICK x \in RetryReason(r, s, t) : TRUE
    BY <1>5
  <2>2. PICK row \in Listed(r) : row.id = SwingId(s) /\ row.reason = x
    BY <2>1, <1>2
  <2>3. row.swing = s /\ (row.real => row.reason \in {NoReason, SetupExpired})
    BY <2>2, IdsDiffer DEF Sound, AllRows, RowOK
  <2>4. ~row.real
    BY <2>1, <2>2, <2>3, <1>2, RadarAssumption DEF NoReason, SetupExpired, NoExecution
  <2>. QED BY <2>1, <2>2, <2>3, <2>4, <1>2 DEF Closed
<1>. QED BY <1>4, <1>5

(* A closed swing stays closed while other swings are worked on. *)
LEMMA ClosedStays ==
  ASSUME NEW r, NEW q, NEW s \in Swings, NEW u \in Swings, NEW t \in 0..MaxTime,
         NEW t2 \in 0..MaxTime, t <= t2, Closed(r, u, t), Frame(r, q, s), u # s
  PROVE  Closed(q, u, t2)
<1>1. Fresh(u, t2) => Fresh(u, t)
  BY RadarAssumption DEF Fresh
<1>2. SwingId(u) \in Ids /\ SwingId(u)[1] = u
  BY IdsDiffer
<1>. QED BY <1>1, <1>2 DEF Closed, Frame

(* The inductive invariant, whatever the operator does. *)
RadarInv ==
  /\ now \in 0..MaxTime
  /\ processedIds \subseteq Ids
  /\ orders \in [Swings -> Nat]
  /\ Sound(radar, now)

LEMMA InitInv == Init => RadarInv /\ Single(radar) /\ Written(radar) /\ Settled
<1>. SUFFICES ASSUME Init PROVE RadarInv /\ Single(radar) /\ Written(radar) /\ Settled
  OBVIOUS
<1>1. /\ radar = EmptyRadar /\ now = 0 /\ now \in 0..MaxTime
      /\ orders = [s \in Swings |-> 0] /\ processedIds = {}
  BY RadarAssumption DEF Init
<1>2. RowsOf(<<>>) = {} /\ <<>> \in Seq(Row) /\ Len(<<>>) = 0 /\ Distinct(<<>>)
  BY EmptySeq DEF RowsOf, Distinct
<1>3. [k \in Ids |-> Never] \in [Ids -> {Never} \cup (0..MaxTime)]
  OBVIOUS
<1>4. /\ EmptyRadar \in RadarType
      /\ EmptyRadar.setups = <<>> /\ EmptyRadar.completed = <<>>
      /\ EmptyRadar.invalidated = <<>> /\ EmptyRadar.ids = {}
      /\ EmptyRadar.disk.completed = <<>> /\ EmptyRadar.disk.invalidated = <<>>
  BY <1>2, <1>3 DEF EmptyRadar, RadarType
<1>5. AllRows(EmptyRadar) \cup DiskRows(EmptyRadar) = {} /\ Listed(EmptyRadar) = {}
  BY <1>2, <1>4 DEF AllRows, Listed, DiskRows
<1>6. Within(EmptyRadar)
  BY <1>2, <1>4, RadarAssumption DEF Within
<1>. HIDE DEF EmptyRadar
<1>7. Sound(EmptyRadar, 0)
  BY <1>2, <1>4, <1>5, <1>6 DEF Sound, KeysCover
<1>8. Single(EmptyRadar) /\ Written(EmptyRadar)
  BY <1>2, <1>4, <1>5 DEF Single, Apart, Written
<1>. QED BY <1>1, <1>7, <1>8 DEF RadarInv, Settled

(* A step of a poll on swing s. *)
LEMMA PollStep ==
  ASSUME RadarInv, NEW s \in Swings, SkipStale(s) \/ Evaluate(s)
  PROVE  /\ RadarInv' /\ now <= now' /\ now' \in 0..MaxTime
         /\ Frame(radar, radar', s)
         /\ Single(radar) => Single(radar')
         /\ DiskOutcomes = {TRUE} /\ Written(radar) => Written(radar')
         /\ UNCHANGED orders
         /\ Closed(radar, s, now) => Closed(radar', s, now')
         /\ Single(radar) =>
              \A x \in RowsOf(radar.setups) : x.swing = s =>
                x \in RowsOf(radar'.setups) \/
                (/\ Admitted(radar, s, now)
                 /\ \E y \in AllRows(radar') : y.id = x.id)
         /\ radar'.ids = radar.ids \/ Admitted(radar, s, now)
<1>1. now \in 0..MaxTime /\ now \in Nat /\ Sound(radar, now)
  BY DEF RadarInv
<1>2. CASE SkipStale(s)
  <2>1. /\ BornAt[s] <= now /\ UNCHANGED <<processedIds, orders, now>>
        /\ radar' = [radar EXCEPT !.keys[SwingId(s)] = now]
    BY <1>2 DEF SkipStale
  <2>2. /\ Sound(radar', now) /\ Frame(radar, radar', s)
        /\ radar'.setups = radar.setups /\ radar'.completed = radar.completed
        /\ radar'.invalidated = radar.invalidated /\ radar'.ids = radar.ids
        /\ Single(radar) => Single(radar')
        /\ Written(radar) => Written(radar')
    BY <2>1, <1>1, KeyedSound
  <2>3. RadarInv'
    BY <2>1, <2>2 DEF RadarInv
  <2>4. Closed(radar, s, now) => Closed(radar', s, now')
    BY <2>1, <2>2 DEF Closed, Listed
  <2>5. now' = now /\ now <= now' /\ now' \in 0..MaxTime /\ orders' = orders
    BY <2>1, <1>1
  <2>6. \A x \in RowsOf(radar.setups) : x \in RowsOf(radar'.setups)
    BY <2>2
  <2>. QED BY <2>2, <2>3, <2>4, <2>5, <2>6
<1>3. CASE Evaluate(s)
  <2>1. /\ BornAt[s] <= now /\ Admitted(radar, s, now)
        /\ now' \in 0..MaxTime /\ now <= now'
        /\ UNCHANGED <<processedIds, orders>>
    BY <1>1, <1>3 DEF Evaluate
  <2>2. PICK o \in Outcomes, saved \in DiskOutcomes :
          radar' = Trade(Trace(radar, s, o, now', saved), s, o, now, now')
    BY <1>3 DEF Evaluate
  <2>3. saved \in BOOLEAN
    BY RadarAssumption
  <2>. DEFINE q == Trade(Trace(radar, s, o, now', saved), s, o, now, now')
  <2>4. /\ Sound(q, now') /\ Frame(radar, q, s)
        /\ Single(radar) => Single(q)
        /\ Written(radar) /\ saved => Written(q)
        /\ Single(radar) /\ Has(radar.setups, SwingId(s))
             => \E x \in AllRows(q) : x.id = SwingId(s)
    BY <2>1, <2>3, <1>1, EvaluateSound
  <2>. HIDE DEF q
  <2>5. radar' = q
    BY <2>2 DEF q
  <2>6. RadarInv'
    BY <2>1, <2>4, <2>5 DEF RadarInv
  <2>7. \A x \in RowsOf(radar.setups) : x.swing = s => x.id = SwingId(s)
    BY <2>1, <1>1, AdmittedMeans
  <2>8. ASSUME Single(radar), NEW x \in RowsOf(radar.setups), x.swing = s
        PROVE  \E y \in AllRows(radar') : y.id = x.id
    BY <2>4, <2>5, <2>7, <2>8 DEF Has
  <2>9. ~Closed(radar, s, now)
    BY <2>1, <1>1, ClosedNotAdmitted
  <2>10. DiskOutcomes = {TRUE} /\ Written(radar) => Written(radar')
    BY <2>4, <2>5
  <2>11. Frame(radar, radar', s) /\ (Single(radar) => Single(radar'))
    BY <2>4, <2>5
  <2>12. Single(radar) =>
           \A x \in RowsOf(radar.setups) : x.swing = s =>
             x \in RowsOf(radar'.setups) \/
             (/\ Admitted(radar, s, now)
              /\ \E y \in AllRows(radar') : y.id = x.id)
    BY <2>1, <2>8
  <2>13. UNCHANGED orders
    BY <2>1
  <2>. HIDE DEF Closed, Single, Written, RadarInv, Admitted, Frame
  <2>. QED BY <2>1, <2>6, <2>9, <2>10, <2>11, <2>12, <2>13
<1>. QED BY <1>2, <1>3

(* A step of live automation. *)
LEMMA AutomationStep ==
  ASSUME RadarInv, Automation
  PROVE  /\ RadarInv' /\ UNCHANGED now
         /\ Single(radar) => Single(radar')
         /\ DiskOutcomes = {TRUE} /\ Written(radar) => Written(radar')
         /\ \E row \in RowsOf(radar.setups), done \in Row :
              /\ row.state = "ENTRY_READY" /\ Decided(row, done)
              /\ Frame(radar, radar', row.swing)
              /\ RowsOf(radar'.setups) = {x \in RowsOf(radar.setups) : x.id # row.id}
              /\ \A x \in RowsOf(radar'.setups) : x.swing # row.swing
              /\ Listed(radar') \subseteq {done} \cup Listed(radar)
              /\ done \in Listed(radar') /\ done.real
              /\ Age(row) > MaxReadyAge \/ done \in RowsOf(radar'.completed)
              /\ radar'.ids = radar.ids \cup {row.id}
              /\ orders' \in {orders, [orders EXCEPT ![row.swing] = @ + 1]}
<1>1. now \in 0..MaxTime /\ now \in Nat /\ Sound(radar, now) /\ Within(radar)
      /\ RowsOf(radar.setups) \subseteq Row
  BY RowTypes DEF RadarInv, Sound
<1>2. PICK row \in RowsOf(radar.setups) :
        Pickable(row) /\ (Expire(row) \/ TimeOut(row) \/ Reject(row) \/ Submit(row))
  BY DEF Automation
<1>3. row \in Row /\ row.state = "ENTRY_READY" /\ row.swing \in Swings /\ row.id \in Ids
  BY <1>1, <1>2 DEF Pickable, Row
<1>4. /\ UNCHANGED now
      /\ processedIds' \in {processedIds, processedIds \cup {row.id}}
      /\ orders' \in {orders, [orders EXCEPT ![row.swing] = @ + 1]}
  BY <1>2 DEF Expire, TimeOut, Reject, Submit
<1>5. PICK done \in Row, store \in Stores, saved \in DiskOutcomes :
        /\ Decided(row, done)
        /\ radar' = Resolve(radar, store, done, now, saved)
        /\ Age(row) > MaxReadyAge \/ store = "completed"
  <2>1. CASE Expire(row)
    <3>. DEFINE done == [row EXCEPT !.state = "EXPIRED", !.exec = "expired",
                                    !.reason = SetupExpired]
    <3>1. done \in Row /\ Decided(row, done)
      BY <1>3 DEF Row, Decided, SetupExpired
    <3>2. \E saved \in DiskOutcomes :
            radar' = Resolve(radar, "invalidated", done, now, saved)
      BY <2>1 DEF Expire
    <3>3. Age(row) > MaxReadyAge /\ "invalidated" \in Stores
      BY <2>1 DEF Expire, Stores
    <3>. QED BY <3>1, <3>2, <3>3
  <2>2. CASE TimeOut(row)
    <3>. DEFINE done == [row EXCEPT !.exec = "execution_timeout"]
    <3>1. done \in Row /\ Decided(row, done)
      BY <1>3 DEF Row, Decided
    <3>2. \E saved \in DiskOutcomes :
            radar' = Resolve(radar, "completed", done, now, saved)
      BY <2>2 DEF TimeOut
    <3>. QED BY <3>1, <3>2 DEF Stores
  <2>3. CASE Reject(row)
    <3>1. PICK status \in {"rejected", "risk_blocked", "no_margin"},
               saved \in DiskOutcomes :
            radar' = Resolve(radar, "completed", [row EXCEPT !.exec = status],
                             now, saved)
      BY <2>3 DEF Reject
    <3>. DEFINE done == [row EXCEPT !.exec = status]
    <3>2. done \in Row /\ Decided(row, done)
      BY <1>3 DEF Row, Decided
    <3>. QED BY <3>1, <3>2 DEF Stores
  <2>4. CASE Submit(row)
    <3>. DEFINE done == [row EXCEPT !.exec = "trade_opened"]
    <3>1. done \in Row /\ Decided(row, done)
      BY <1>3 DEF Row, Decided
    <3>2. \E saved \in DiskOutcomes :
            radar' = Resolve(radar, "completed", done, now, saved)
      BY <2>4 DEF Submit
    <3>. QED BY <3>1, <3>2 DEF Stores
  <2>. QED BY <1>2, <2>1, <2>2, <2>3, <2>4
<1>6. saved \in BOOLEAN /\ Decided(row, done)
  BY <1>5, RadarAssumption
<1>. DEFINE q == Resolve(radar, store, done, now, saved)
<1>7. /\ Sound(q, now) /\ Frame(radar, q, row.swing)
      /\ RowsOf(q.setups) = {x \in RowsOf(radar.setups) : x.id # row.id}
      /\ \A x \in RowsOf(q.setups) : x.swing # row.swing
      /\ Listed(q) \subseteq {done} \cup Listed(radar)
      /\ done \in Listed(q) /\ done.real
      /\ store = "completed" => done \in RowsOf(q.completed)
      /\ q.ids = radar.ids \cup {row.id}
      /\ Single(radar) => Single(q)
      /\ Written(radar) /\ saved => Written(q)
  BY <1>1, <1>3, <1>6, DecisionSound
<1>. HIDE DEF q
<1>8. radar' = q
  BY <1>5 DEF q
<1>9. RadarInv'
  <2>1. orders' \in [Swings -> Nat] /\ processedIds' \subseteq Ids
    BY <1>3, <1>4 DEF RadarInv
  <2>. QED BY <2>1, <1>1, <1>4, <1>7, <1>8 DEF RadarInv
<1>10. /\ Single(radar) => Single(radar')
       /\ DiskOutcomes = {TRUE} /\ Written(radar) => Written(radar')
  <2>1. DiskOutcomes = {TRUE} => saved
    OBVIOUS
  <2>. QED BY <2>1, <1>7, <1>8
<1>11. /\ row.state = "ENTRY_READY" /\ Decided(row, done)
       /\ Frame(radar, radar', row.swing)
       /\ RowsOf(radar'.setups) = {x \in RowsOf(radar.setups) : x.id # row.id}
       /\ \A x \in RowsOf(radar'.setups) : x.swing # row.swing
       /\ Listed(radar') \subseteq {done} \cup Listed(radar)
       /\ done \in Listed(radar') /\ done.real
       /\ Age(row) > MaxReadyAge \/ done \in RowsOf(radar'.completed)
       /\ radar'.ids = radar.ids \cup {row.id}
       /\ orders' \in {orders, [orders EXCEPT ![row.swing] = @ + 1]}
  BY <1>3, <1>4, <1>5, <1>7, <1>8
<1>. QED BY <1>4, <1>9, <1>10, <1>11

(* The operator stops monitoring, clears the history, or restarts. *)
LEMMA StopStep ==
  ASSUME RadarInv, StopMonitoring
  PROVE  /\ RadarInv'
         /\ Single(radar) => Single(radar')
         /\ Written(radar) => Written(radar')
         /\ RowsOf(radar'.setups) = {} /\ Listed(radar') = Listed(radar)
         /\ radar'.ids = radar.ids /\ "stop" \in Environment
         /\ UNCHANGED <<processedIds, orders, now>>
<1>1. /\ radar' = [radar EXCEPT !.setups = <<>>] /\ "stop" \in Environment
      /\ UNCHANGED <<processedIds, orders, now>>
  BY DEF StopMonitoring
<1>2. RowsOf(<<>>) = {} /\ <<>> \in Seq(Row) /\ Len(<<>>) = 0 /\ Distinct(<<>>)
  BY EmptySeq DEF RowsOf, Distinct
<1>3. Sound(radar, now) /\ Within(radar) /\ radar \in RadarType
  BY DEF RadarInv, Sound, Within
<1>4. /\ radar' \in RadarType /\ radar'.setups = <<>>
      /\ radar'.completed = radar.completed /\ radar'.invalidated = radar.invalidated
      /\ radar'.ids = radar.ids /\ radar'.keys = radar.keys
      /\ radar'.disk = radar.disk
  BY <1>1, <1>2, <1>3 DEF RadarType
<1>5. Within(radar')
  BY <1>2, <1>3, <1>4, RadarAssumption DEF Within
<1>6. /\ RowsOf(radar'.setups) = {} /\ Listed(radar') = Listed(radar)
      /\ DiskRows(radar') = DiskRows(radar)
  BY <1>2, <1>4 DEF Listed, DiskRows
<1>7. Sound(radar', now)
  BY <1>2, <1>3, <1>4, <1>5, <1>6 DEF Sound, AllRows, KeysCover
<1>8. Single(radar) => Single(radar')
  BY <1>4, <1>6 DEF Single, Apart
<1>9. Written(radar) => Written(radar')
  BY <1>4 DEF Written
<1>10. RadarInv'
  BY <1>1, <1>7 DEF RadarInv
<1>. QED BY <1>1, <1>4, <1>6, <1>8, <1>9, <1>10

LEMMA ClearStep ==
  ASSUME RadarInv, ClearHistory
  PROVE  /\ RadarInv' /\ Written(radar')
         /\ "clear" \in Environment
<1>. DEFINE listed == {row.id : row \in RowsOf(radar.completed)
                                        \cup RowsOf(radar.invalidated)}
            wiped == [radar EXCEPT !.completed = <<>>, !.invalidated = <<>>,
                        !.ids = {}, !.keys = [k \in Ids |-> Never],
                        !.history = @ \ listed]
<1>1. PICK saved \in DiskOutcomes : radar' = Save(wiped, saved)
  BY DEF ClearHistory
<1>2. "clear" \in Environment /\ UNCHANGED <<processedIds, orders, now>>
  BY DEF ClearHistory
<1>3. saved \in BOOLEAN
  BY RadarAssumption
<1>4. RowsOf(<<>>) = {} /\ <<>> \in Seq(Row) /\ Len(<<>>) = 0
  BY EmptySeq DEF RowsOf
<1>5. Sound(radar, now) /\ Within(radar) /\ radar \in RadarType
  BY DEF RadarInv, Sound, Within
<1>6. [k \in Ids |-> Never] \in [Ids -> {Never} \cup (0..MaxTime)]
  OBVIOUS
<1>. HIDE DEF listed
<1>7. /\ wiped \in RadarType /\ wiped.setups = radar.setups
      /\ wiped.completed = <<>> /\ wiped.invalidated = <<>> /\ wiped.ids = {}
      /\ wiped.disk = radar.disk
  BY <1>4, <1>5, <1>6 DEF RadarType
<1>. HIDE DEF wiped
<1>8. Within(wiped)
  BY <1>4, <1>5, <1>7, RadarAssumption DEF Within
<1>9. /\ Within(radar') /\ radar'.setups = radar.setups
      /\ radar'.completed = <<>> /\ radar'.invalidated = <<>> /\ radar'.ids = {}
      /\ radar'.disk = IF saved THEN [completed |-> <<>>, invalidated |-> <<>>]
                                ELSE radar.disk
  BY <1>1, <1>3, <1>7, <1>8, SaveFields
<1>10. Listed(radar') = {} /\ DiskRows(radar') \subseteq DiskRows(radar)
  BY <1>4, <1>9 DEF Listed, DiskRows
<1>11. Sound(radar', now)
  BY <1>5, <1>9, <1>10 DEF Sound, AllRows, KeysCover
<1>12. RadarInv'
  BY <1>2, <1>11 DEF RadarInv
<1>13. Written(radar')
  BY <1>4, <1>9 DEF Written
<1>. QED BY <1>2, <1>12, <1>13

LEMMA RestartStep ==
  ASSUME RadarInv, Restart
  PROVE  /\ RadarInv' /\ Written(radar')
         /\ "restart" \in Environment
<1>1. /\ "restart" \in Environment /\ now < MaxTime
      /\ radar' = [EmptyRadar EXCEPT !.completed = radar.disk.completed,
                                     !.invalidated = radar.disk.invalidated,
                                     !.disk = radar.disk]
      /\ processedIds' = {} /\ now' = now + 1 /\ UNCHANGED orders
  BY DEF Restart
<1>2. /\ now' \in 0..MaxTime /\ now \in Nat /\ now' \in Nat /\ now <= now'
  BY <1>1, RadarAssumption DEF RadarInv
<1>3. Sound(radar, now')
  BY <1>2, SoundLater DEF RadarInv
<1>4. RowsOf(<<>>) = {} /\ <<>> \in Seq(Row) /\ Len(<<>>) = 0 /\ Distinct(<<>>)
  BY EmptySeq DEF RowsOf, Distinct
<1>5. Within(radar) /\ radar \in RadarType
  BY <1>3 DEF Sound, Within
<1>6. [k \in Ids |-> Never] \in [Ids -> {Never} \cup (0..MaxTime)]
  OBVIOUS
<1>7. /\ radar' \in RadarType /\ radar'.setups = <<>>
      /\ radar'.completed = radar.disk.completed
      /\ radar'.invalidated = radar.disk.invalidated
      /\ radar'.ids = {} /\ radar'.disk = radar.disk
  BY <1>1, <1>4, <1>5, <1>6 DEF RadarType, EmptyRadar
<1>8. Within(radar')
  BY <1>4, <1>5, <1>7, RadarAssumption DEF Within
<1>9. /\ RowsOf(radar'.setups) = {}
      /\ Listed(radar') = DiskRows(radar) /\ DiskRows(radar') = DiskRows(radar)
  BY <1>4, <1>7 DEF Listed, DiskRows
<1>10. Sound(radar', now')
  BY <1>3, <1>4, <1>7, <1>8, <1>9 DEF Sound, AllRows, KeysCover
<1>11. RadarInv'
  BY <1>1, <1>2, <1>10 DEF RadarInv
<1>12. Written(radar')
  BY <1>7 DEF Written
<1>. QED BY <1>1, <1>11, <1>12

(* Tick and stuttering. *)
LEMMA IdleStep ==
  ASSUME RadarInv, Tick \/ UNCHANGED vars
  PROVE  /\ RadarInv' /\ now <= now'
         /\ UNCHANGED <<radar, processedIds, orders>>
<1>1. /\ UNCHANGED <<radar, processedIds, orders>>
      /\ now' \in 0..MaxTime /\ now \in Nat /\ now' \in Nat /\ now <= now'
  BY RadarAssumption DEF RadarInv, Tick, vars
<1>2. Sound(radar, now')
  BY <1>1, SoundLater DEF RadarInv
<1>. QED BY <1>1, <1>2 DEF RadarInv

LEMMA NextCases ==
  ASSUME [Next]_vars
  PROVE  \/ Tick \/ UNCHANGED vars
         \/ \E s \in Swings : SkipStale(s) \/ Evaluate(s)
         \/ Automation \/ StopMonitoring \/ ClearHistory \/ Restart
BY DEF Next, Poll, SkipResolved

(* The invariant is inductive, and so is the saved history. *)
LEMMA RadarInvStep ==
  ASSUME RadarInv, [Next]_vars
  PROVE  /\ RadarInv'
         /\ DiskOutcomes = {TRUE} /\ Written(radar) => Written(radar')
<1>1. CASE Tick \/ UNCHANGED vars
  BY <1>1, IdleStep
<1>2. CASE \E s \in Swings : SkipStale(s) \/ Evaluate(s)
  BY <1>2, PollStep
<1>3. CASE Automation
  BY <1>3, AutomationStep
<1>4. CASE StopMonitoring
  BY <1>4, StopStep
<1>5. CASE ClearHistory
  BY <1>5, ClearStep
<1>6. CASE Restart
  BY <1>6, RestartStep
<1>. QED BY <1>1, <1>2, <1>3, <1>4, <1>5, <1>6, NextCases

(* Without Clear History and restarts, one swing is one row and gets at    *)
(* most one order.                                                         *)
LEMMA SingleStep ==
  ASSUME Environment \subseteq {"stop"}, RadarInv, Single(radar), Settled, [Next]_vars
  PROVE  Single(radar') /\ Settled'
<1>. DEFINE goal == Single(radar') /\ Settled'
<1>0. now \in 0..MaxTime /\ now' \in 0..MaxTime /\ orders \in [Swings -> Nat]
      /\ Sound(radar, now)
  BY RadarInvStep DEF RadarInv
<1>1. CASE Tick \/ UNCHANGED vars
  <2>1. radar' = radar /\ orders' = orders /\ now <= now'
    BY <1>1, IdleStep
  <2>2. \A s \in Swings : Fresh(s, now') => Fresh(s, now)
    BY <2>1, <1>0, RadarAssumption DEF Fresh
  <2>3. Settled'
    BY <2>1, <2>2 DEF Settled, Closed
  <2>. QED BY <2>1, <2>3
<1>2. ASSUME NEW s \in Swings, SkipStale(s) \/ Evaluate(s) PROVE goal
  <2>1. /\ now <= now' /\ Frame(radar, radar', s)
        /\ Single(radar') /\ orders' = orders
        /\ Closed(radar, s, now) => Closed(radar', s, now')
    BY <1>2, PollStep
  <2>2. ASSUME NEW u \in Swings, orders[u] # 0
        PROVE  orders'[u] = 1 /\ Closed(radar', u, now')
    <3>1. orders[u] = 1 /\ Closed(radar, u, now)
      BY <2>2 DEF Settled
    <3>2. CASE u = s
      BY <3>1, <3>2, <2>1
    <3>3. CASE u # s
      BY <3>1, <3>3, <2>1, <1>0, ClosedStays
    <3>. QED BY <3>2, <3>3
  <2>3. Settled'
    BY <2>1, <2>2 DEF Settled
  <2>. QED BY <2>1, <2>3
<1>3. CASE Automation
  <2>1. Single(radar') /\ now' = now
    BY <1>3, AutomationStep
  <2>2. PICK row \in RowsOf(radar.setups), done \in Row :
          /\ Decided(row, done)
          /\ Frame(radar, radar', row.swing)
          /\ \A x \in RowsOf(radar'.setups) : x.swing # row.swing
          /\ Listed(radar') \subseteq {done} \cup Listed(radar)
          /\ done.real
          /\ radar'.ids = radar.ids \cup {row.id}
          /\ orders' \in {orders, [orders EXCEPT ![row.swing] = @ + 1]}
    BY <1>3, AutomationStep
  <2>. DEFINE s == row.swing
  <2>3. s \in Swings /\ RowOK(row, now)
    BY <1>0, RowTypes DEF Sound, AllRows, Row
  <2>4. orders[s] = 0 /\ orders'[s] \in {0, 1}
    BY <2>2, <2>3, <1>0 DEF Settled, Closed
  <2>5. Closed(radar', s, now')
    <3>1. \A x \in Listed(radar') : x.swing = s => x.real
      <4>1. \A x \in Listed(radar) : x.swing # s
        BY DEF Single, Apart, Listed
      <4>. QED BY <4>1, <2>2
    <3>2. ~Fresh(s, now) \/ SwingId(s) \in radar'.ids
      BY <2>2, <2>3 DEF RowOK
    <3>. QED BY <3>1, <3>2, <2>1, <2>2 DEF Closed
  <2>6. ASSUME NEW u \in Swings, orders'[u] # 0
        PROVE  orders'[u] = 1 /\ Closed(radar', u, now')
    <3>1. CASE u = s
      BY <3>1, <2>4, <2>5, <2>6
    <3>2. CASE u # s
      <4>1. orders'[u] = orders[u]
        BY <3>2, <2>2, <1>0
      <4>2. orders[u] = 1 /\ Closed(radar, u, now)
        BY <4>1, <2>6 DEF Settled
      <4>. QED BY <4>1, <4>2, <3>2, <2>1, <2>2, <2>3, <1>0, ClosedStays
    <3>. QED BY <3>1, <3>2
  <2>7. Settled'
    BY <2>6 DEF Settled
  <2>. QED BY <2>1, <2>7
<1>4. CASE StopMonitoring
  <2>1. /\ Single(radar') /\ orders' = orders /\ now' = now
        /\ RowsOf(radar'.setups) = {} /\ Listed(radar') = Listed(radar)
        /\ radar'.ids = radar.ids
    BY <1>4, StopStep
  <2>2. Settled'
    BY <2>1 DEF Settled, Closed
  <2>. QED BY <2>1, <2>2
<1>5. ~ClearHistory /\ ~Restart
  BY ClearStep, RestartStep
<1>. QED BY <1>1, <1>2, <1>3, <1>4, <1>5, NextCases

(* Two lists of different swings, put together. *)
LEMMA DistinctConcat ==
  ASSUME NEW seq1 \in Seq(Row), NEW seq2 \in Seq(Row),
         Distinct(seq1), Distinct(seq2), Apart(seq1, seq2)
  PROVE  Distinct(seq1 \o seq2)
<1>. DEFINE n1 == Len(seq1)
            n2 == Len(seq2)
            q  == seq1 \o seq2
<1>1. /\ n1 \in Nat /\ n2 \in Nat /\ DOMAIN seq1 = 1..n1 /\ DOMAIN seq2 = 1..n2
  BY LenProperties
<1>2. /\ q \in Seq(Row) /\ DOMAIN q = 1..(n1 + n2)
      /\ \A i \in 1..(n1 + n2) : q[i] = IF i <= n1 THEN seq1[i] ELSE seq2[i - n1]
  BY ConcatProperties, LenProperties
<1>. HIDE DEF n1, n2, q
<1>3. \A i \in 1..(n1 + n2) : \/ i \in 1..n1 /\ q[i] = seq1[i]
                              \/ i - n1 \in 1..n2 /\ q[i] = seq2[i - n1]
  BY <1>1, <1>2
<1>4. \A i \in 1..n1, j \in 1..n2 : seq1[i].swing # seq2[j].swing
  BY <1>1 DEF Apart, RowsOf
<1>5. /\ \A i, j \in 1..n1 : seq1[i].swing = seq1[j].swing => i = j
      /\ \A i, j \in 1..n2 : seq2[i].swing = seq2[j].swing => i = j
  BY <1>1 DEF Distinct
<1>6. ASSUME NEW i \in 1..(n1 + n2), NEW j \in 1..(n1 + n2), q[i].swing = q[j].swing
      PROVE  i = j
  <2>1. CASE i \in 1..n1 /\ j \in 1..n1 /\ q[i] = seq1[i] /\ q[j] = seq1[j]
    BY <2>1, <1>5, <1>6
  <2>2. CASE /\ i - n1 \in 1..n2 /\ j - n1 \in 1..n2
             /\ q[i] = seq2[i - n1] /\ q[j] = seq2[j - n1]
    <3>1. i - n1 = j - n1
      BY <2>2, <1>5, <1>6
    <3>. QED BY <3>1, <1>1
  <2>3. CASE \/ i \in 1..n1 /\ j - n1 \in 1..n2 /\ q[i] = seq1[i] /\ q[j] = seq2[j - n1]
             \/ j \in 1..n1 /\ i - n1 \in 1..n2 /\ q[j] = seq1[j] /\ q[i] = seq2[i - n1]
    BY <2>3, <1>4, <1>6
  <2>. QED BY <2>1, <2>2, <2>3, <1>3
<1>. QED BY <1>2, <1>6 DEF Distinct, q

LEMMA SingleIsOneRow ==
  ASSUME Sound(radar, now), Single(radar)
  PROVE  OneRowPerSwing
<1>. DEFINE front == radar.setups \o radar.completed
<1>1. /\ radar.setups \in Seq(Row) /\ radar.completed \in Seq(Row)
      /\ radar.invalidated \in Seq(Row)
      /\ Distinct(radar.setups) /\ Distinct(radar.completed)
      /\ Distinct(radar.invalidated)
      /\ Apart(radar.setups, radar.completed)
      /\ Apart(radar.setups, radar.invalidated)
      /\ Apart(radar.completed, radar.invalidated)
  BY RowTypes DEF Sound, Single
<1>2. /\ front \in Seq(Row) /\ Distinct(front)
      /\ RowsOf(front) = RowsOf(radar.setups) \cup RowsOf(radar.completed)
  BY <1>1, ConcatRows, DistinctConcat
<1>. HIDE DEF front
<1>3. Apart(front, radar.invalidated)
  BY <1>1, <1>2 DEF Apart
<1>4. Distinct(front \o radar.invalidated)
  BY <1>1, <1>2, <1>3, DistinctConcat
<1>. QED BY <1>4 DEF OneRowPerSwing, Distinct, front

-----------------------------------------------------------------------------
(* The theorems.  Those without a hypothesis hold whatever the operator    *)
(* does, with any number of swings and any caps, and though saves fail.    *)

(* The inductive invariant holds in every reachable state: a row is what   *)
(* its id says, no tracked id is resolved, and every resolved tracer id    *)
(* has the key that keeps its swing out of later polls.                    *)
THEOREM RadarInvariant == Spec => []RadarInv
<1>1. Init => RadarInv
  BY InitInv
<1>2. RadarInv /\ [Next]_vars => RadarInv'
  BY RadarInvStep
<1>. QED BY <1>1, <1>2, PTL DEF Spec

(* The rows, keys and file of the radar keep their shape, and the three    *)
(* lists of live_setup_detection.py stay within their caps.                *)
THEOREM RadarTypeCorrect == Spec => []TypeOK
<1>1. RadarInv => TypeOK
  BY DEF RadarInv, Sound, Within, TypeOK
<1>. QED BY <1>1, RadarInvariant, PTL

(* No row of IN PROGRESS has a resolved id, so no terminal write is ever   *)
(* swallowed by the early return of _append_resolved_setup.                *)
THEOREM ResolvedLeaves == Spec => []ResolvedNotInProgress
<1>1. RadarInv => ResolvedNotInProgress
  BY DEF RadarInv, Sound, ResolvedNotInProgress
<1>. QED BY <1>1, RadarInvariant, PTL

(* However operator actions, restarts, polls and automation interleave, a  *)
(* swing is in IN PROGRESS at most once.                                   *)
THEOREM TrackedOnce == Spec => []TrackedOncePerSwing
<1>1. RadarInv => TrackedOncePerSwing
  BY DEF RadarInv, Sound, Distinct, TrackedOncePerSwing
<1>. QED BY <1>1, RadarInvariant, PTL

(* Where saves succeed, every row of the visible history is in the file.   *)
THEOREM HistorySaved ==
  ASSUME DiskOutcomes = {TRUE}
  PROVE  Spec => []HistoryIsSaved
<1>1. Init => RadarInv /\ Written(radar)
  BY InitInv
<1>2. RadarInv /\ Written(radar) /\ [Next]_vars => (RadarInv /\ Written(radar))'
  BY RadarInvStep
<1>3. Written(radar) => HistoryIsSaved
  BY DEF Written, HistoryIsSaved
<1>. QED BY <1>1, <1>2, <1>3, PTL DEF Spec

SingleInv == RadarInv /\ Single(radar) /\ Settled

(* While nobody clears the history or restarts the process, which both     *)
(* delete the deduplication state by design, rows and orders stay single.  *)
THEOREM SingleInvariant ==
  ASSUME Environment \subseteq {"stop"}
  PROVE  Spec => []SingleInv
<1>1. Init => SingleInv
  BY InitInv DEF SingleInv
<1>2. SingleInv /\ [Next]_vars => SingleInv'
  BY RadarInvStep, SingleStep DEF SingleInv
<1>. QED BY <1>1, <1>2, PTL DEF Spec

(* As long as nobody clears the history or restarts, a swing is one row of *)
(* the three stores: the tracer's row and the real trade never both show.  *)
THEOREM OneRow ==
  ASSUME Environment \subseteq {"stop"}
  PROVE  Spec => []OneRowPerSwing
<1>1. SingleInv => OneRowPerSwing
  BY SingleIsOneRow DEF SingleInv, RadarInv
<1>. QED BY <1>1, SingleInvariant, PTL

(* And a swing gets at most one order, in however many polls, takeovers    *)
(* and automation decisions.                                               *)
THEOREM OneOrder ==
  ASSUME Environment \subseteq {"stop"}
  PROVE  Spec => []OneOrderPerSwing
<1>1. SingleInv => OneOrderPerSwing
  BY DEF SingleInv, Settled, OneOrderPerSwing
<1>. QED BY <1>1, SingleInvariant, PTL

(* A resolved id stays resolved, but for the retry of a timing failure.    *)
THEOREM ResolutionFinal ==
  ASSUME Environment \subseteq {"stop"}
  PROVE  Spec => ResolutionIsFinal
<1>. DEFINE A == \A s \in Swings :
                   SwingId(s) \in radar.ids /\ RetryReason(radar, s, now) = {}
                     => SwingId(s) \in radar'.ids
<1>1. RadarInv /\ [Next]_vars => A
  <2>. SUFFICES ASSUME RadarInv, [Next]_vars, NEW u \in Swings, SwingId(u) \in radar.ids,
                       RetryReason(radar, u, now) = {}
                PROVE  SwingId(u) \in radar'.ids
    OBVIOUS
  <2>0. SwingId(u) \in Ids /\ SwingId(u)[1] = u
    BY IdsDiffer
  <2>1. CASE Tick \/ UNCHANGED vars
    BY <2>1, IdleStep
  <2>2. ASSUME NEW s \in Swings, SkipStale(s) \/ Evaluate(s)
        PROVE  SwingId(u) \in radar'.ids
    <3>1. /\ Frame(radar, radar', s)
          /\ radar'.ids = radar.ids \/ Admitted(radar, s, now)
      BY <2>2, PollStep
    <3>2. CASE s # u
      BY <3>1, <3>2, <2>0 DEF Frame
    <3>3. CASE s = u /\ Admitted(radar, s, now)
      BY <3>3, AdmittedMeans DEF RadarInv
    <3>. QED BY <3>1, <3>2, <3>3
  <2>3. CASE Automation
    BY <2>3, AutomationStep
  <2>4. CASE StopMonitoring
    BY <2>4, StopStep
  <2>5. ~ClearHistory /\ ~Restart
    BY ClearStep, RestartStep
  <2>. QED BY <2>1, <2>2, <2>3, <2>4, <2>5, NextCases
<1>. QED BY <1>1, RadarInvariant, PTL DEF Spec, ResolutionIsFinal

(* The key behind a fresh tradable row keeps the filter shut. *)
LEMMA TradableNotAdmitted ==
  ASSUME RadarInv, Single(radar), NEW row \in RowsOf(radar.setups), row.real,
         Fresh(row.swing, now)
  PROVE  ~Admitted(radar, row.swing, now)
<1>. DEFINE s == row.swing
<1>. SUFFICES ASSUME Admitted(radar, s, now) PROVE FALSE
  OBVIOUS
<1>1. /\ now \in Nat /\ now \in 0..MaxTime /\ Sound(radar, now) /\ Within(radar)
      /\ row \in Row /\ s \in Swings
      /\ radar.keys \in [Ids -> {Never} \cup (0..MaxTime)]
  BY RowTypes DEF RadarInv, Sound, Row
<1>2. row.id = SwingId(s)
  BY <1>1 DEF Sound, AllRows, RowOK
<1>3. radar.keys[SwingId(s)] >= BornAt[s]
  BY <1>2 DEF Single
<1>. HIDE DEF s
<1>4. radar.keys[SwingId(s)] # Never
  BY <1>1, <1>3, RadarAssumption DEF Never
<1>5. now - radar.keys[SwingId(s)] < KeyExpiry
  <2>1. SwingId(s) \in Ids
    BY <1>1, IdsDiffer
  <2>. QED BY <2>1, <1>1, <1>3, <1>4, RadarAssumption DEF Fresh, s
<1>6. RetryReason(radar, s, now) # {}
  BY <1>4, <1>5 DEF Admitted, KeyResolved
<1>7. PICK x \in Listed(radar) : x.id = SwingId(s)
  BY <1>1, <1>6, RetryReasonIs
<1>8. x.swing = s
  BY <1>1, <1>7, IdsDiffer DEF Sound, AllRows, RowOK
<1>. QED BY <1>7, <1>8 DEF Single, Apart, Listed, s

(* With room in IN PROGRESS for every swing and nobody stopping, clearing  *)
(* or restarting, a tradable row of a fresh swing leaves IN PROGRESS only  *)
(* with the decision that completed it: the tracer cannot invalidate it.   *)
THEOREM TradableKept ==
  ASSUME Environment = {}, Cardinality(Swings) <= MaxInProgress,
         StalenessWindow <= MaxReadyAge
  PROVE  Spec => TradableUntilDecided
<1>. DEFINE A == \A row \in RowsOf(radar.setups) :
                   row.real /\ Fresh(row.swing, now') =>
                     \/ row \in RowsOf(radar'.setups)
                     \/ \E done \in RowsOf(radar'.completed) :
                          done.id = row.id /\ done.real /\ done.exec # "pending"
<1>1. SingleInv /\ [Next]_vars => A
  <2>. SUFFICES ASSUME SingleInv, [Next]_vars, NEW row \in RowsOf(radar.setups),
                       row.real, Fresh(row.swing, now'), row \notin RowsOf(radar'.setups)
                PROVE  \E done \in RowsOf(radar'.completed) :
                         done.id = row.id /\ done.real /\ done.exec # "pending"
    OBVIOUS
  <2>0. /\ RadarInv /\ Single(radar) /\ Sound(radar, now)
        /\ now \in 0..MaxTime /\ now' \in 0..MaxTime
        /\ row \in Row /\ row.swing \in Swings /\ RowOK(row, now)
    <3>1. RadarInv /\ RadarInv' /\ Single(radar)
      BY RadarInvStep DEF SingleInv
    <3>2. Sound(radar, now) /\ now \in 0..MaxTime /\ now' \in 0..MaxTime
      BY <3>1 DEF RadarInv
    <3>3. row \in Row /\ RowOK(row, now)
      BY <3>2, RowTypes DEF Sound, AllRows
    <3>. QED BY <3>1, <3>2, <3>3 DEF Row
  <2>1. CASE Tick \/ UNCHANGED vars
    BY <2>0, <2>1, IdleStep
  <2>2. ASSUME NEW s \in Swings, SkipStale(s) \/ Evaluate(s) PROVE FALSE
    <3>1. /\ Frame(radar, radar', s) /\ now <= now'
          /\ \A x \in RowsOf(radar.setups) : x.swing = s =>
                x \in RowsOf(radar'.setups) \/ Admitted(radar, s, now)
      BY <2>0, <2>2, PollStep
    <3>2. CASE row.swing # s
      BY <3>1, <3>2 DEF Frame
    <3>3. CASE row.swing = s
      <4>1. Fresh(s, now)
        BY <3>1, <3>3, <2>0, RadarAssumption DEF Fresh
      <4>. QED BY <4>1, <3>1, <3>3, <2>0, TradableNotAdmitted
    <3>. QED BY <3>2, <3>3
  <2>3. CASE Automation
    <3>1. PICK decided \in RowsOf(radar.setups), done \in Row :
            /\ Decided(decided, done) /\ Frame(radar, radar', decided.swing)
            /\ done.real
            /\ Age(decided) > MaxReadyAge \/ done \in RowsOf(radar'.completed)
      BY <2>0, <2>3, AutomationStep
    <3>2. now' = now
      BY <2>0, <2>3, AutomationStep
    <3>3. row.swing = decided.swing
      BY <3>1 DEF Frame
    <3>4. row = decided
      BY <3>3, <2>0 DEF Sound, Distinct, RowsOf
    <3>5. ~(Age(row) > MaxReadyAge)
      <4>1. row.detectedAt >= BornAt[row.swing] /\ row.detectedAt \in Int
        BY <2>0 DEF RowOK, Row, Never
      <4>. QED BY <4>1, <3>2, <2>0, RadarAssumption DEF Age, Fresh
    <3>. QED BY <3>1, <3>4, <3>5 DEF Decided
  <2>4. ~StopMonitoring /\ ~ClearHistory /\ ~Restart
    BY DEF StopMonitoring, ClearHistory, Restart
  <2>. QED BY <2>1, <2>2, <2>3, <2>4, NextCases
<1>2. Spec => []SingleInv
  <2>1. Environment \subseteq {"stop"}
    OBVIOUS
  <2>. QED BY <2>1, SingleInvariant
<1>. QED BY <1>1, <1>2, PTL DEF Spec, TradableUntilDecided

(* Under the same two conditions no setup is silently dropped.             *)
THEOREM NothingDropped ==
  ASSUME Environment = {}, Cardinality(Swings) <= MaxInProgress
  PROVE  Spec => NeverSilentlyDropped
<1>. DEFINE A == \A row \in RowsOf(radar.setups) :
                   Has(radar'.setups, row.id) \/ Has(radar'.completed, row.id)
                     \/ Has(radar'.invalidated, row.id)
<1>1. SingleInv /\ [Next]_vars => A
  <2>. SUFFICES ASSUME SingleInv, [Next]_vars, NEW row \in RowsOf(radar.setups)
                PROVE  \E x \in AllRows(radar') : x.id = row.id
    BY DEF Has, AllRows, Listed
  <2>0. RadarInv /\ Single(radar) /\ Sound(radar, now)
    BY DEF SingleInv, RadarInv
  <2>1. CASE Tick \/ UNCHANGED vars
    BY <2>0, <2>1, IdleStep DEF AllRows
  <2>2. ASSUME NEW s \in Swings, SkipStale(s) \/ Evaluate(s)
        PROVE  \E x \in AllRows(radar') : x.id = row.id
    <3>1. /\ Frame(radar, radar', s)
          /\ \A x \in RowsOf(radar.setups) : x.swing = s =>
                x \in RowsOf(radar'.setups) \/ \E y \in AllRows(radar') : y.id = x.id
      BY <2>0, <2>2, PollStep
    <3>. QED BY <3>1 DEF Frame, AllRows
  <2>3. CASE Automation
    <3>1. PICK decided \in RowsOf(radar.setups), done \in Row :
            /\ Decided(decided, done)
            /\ RowsOf(radar'.setups) = {x \in RowsOf(radar.setups) : x.id # decided.id}
            /\ done \in Listed(radar')
      BY <2>0, <2>3, AutomationStep
    <3>. QED BY <3>1 DEF Decided, AllRows
  <2>4. ~StopMonitoring /\ ~ClearHistory /\ ~Restart
    BY DEF StopMonitoring, ClearHistory, Restart
  <2>. QED BY <2>1, <2>2, <2>3, <2>4, NextCases
<1>2. Spec => []SingleInv
  <2>1. Environment \subseteq {"stop"}
    OBVIOUS
  <2>. QED BY <2>1, SingleInvariant
<1>. QED BY <1>1, <1>2, PTL DEF Spec, NeverSilentlyDropped
=============================================================================
