--------------------------- MODULE LogSpaceProofs ---------------------------
(***************************************************************************)
(* The space reserved by the sizes of the store is enough, for every       *)
(* number of pages, of words in a page and of erasures.                    *)
(*                                                                         *)
(* lib.rs gives the argument for a compaction that starts with a log of at *)
(* most virt_size words.  After an interrupted operation that was          *)
(* compacting, the next one may start with a longer log; the invariant     *)
(* SpaceInv covers it.                                                     *)
(***************************************************************************)
EXTENDS LogRounds, NatLemmas, FiniteSetTheorems

-----------------------------------------------------------------------------
(* Sizes and positions. *)

(* The sizes are naturals, there is room for an entry of a user, and an    *)
(* entry overlaps on one more page only.                                   *)
LEMMA Sizes ==
  /\ NumPages \in Nat /\ NumPages >= 3 /\ MaxPageErases \in Nat
  /\ virt_page_size \in Nat /\ virt_page_size >= 6
  /\ max_prefix_len \in 0 .. virt_page_size - 1
  /\ virt_size \in Nat
  /\ virt_size = (NumPages - 1) * (virt_page_size - 1) - max_prefix_len
  /\ total_capacity = virt_size - NumPages
  /\ total_capacity \in Nat /\ total_capacity >= 2
<1>1. NumPages \in Nat /\ NumPages >= 3 /\ MaxPageErases \in Nat /\ PageWords \in Nat
      /\ PageWords >= 8 /\ MaxValueWords \in Nat
  BY FormatAssumption DEF is_storage_supported
<1>2. virt_page_size \in Nat /\ virt_page_size >= 6
  BY <1>1 DEF virt_page_size, CONTENT_WORD
<1>3. max_prefix_len \in 0 .. virt_page_size - 1
  BY <1>1, <1>2 DEF max_prefix_len, max_value_len
<1>4. ASSUME NEW n \in Nat, n >= 3, NEW v \in Nat, v >= 6, NEW m \in 0 .. v - 1
      PROVE  (n - 1) * (v - 1) - m >= n + 2
  <2>1. (n - 2) * (v - 6) >= 0 /\ (n - 2) * (v - 6) \in Int
    BY <1>4, SMT
  <2>2. (n - 1) * (v - 1) = (n - 2) * (v - 6) + 5 * (n - 2) + (v - 1)
    BY <1>4, SMT
  <2> QED
    BY <1>4, <2>1, <2>2, SMT
<1>5. virt_size = (NumPages - 1) * (virt_page_size - 1) - max_prefix_len
  BY DEF virt_size
<1>6. virt_size >= NumPages + 2 /\ virt_size \in Int
  <2>1. (NumPages - 1) * (virt_page_size - 1) - max_prefix_len >= NumPages + 2
    BY <1>1, <1>2, <1>3, <1>4
  <2>2. (NumPages - 1) * (virt_page_size - 1) \in Int
    BY <1>1, <1>2, SMT
  <2> QED
    BY <1>1, <1>2, <1>3, <1>5, <2>1, <2>2
<1> HIDE DEF virt_page_size, max_prefix_len, virt_size
<1>7. total_capacity = virt_size - NumPages
  BY DEF total_capacity
<1> QED
  BY <1>1, <1>2, <1>3, <1>5, <1>6, <1>7

(* What virt_size reserves: (N - 1) * Q words hold a log of virt_size words *)
(* with its prefix and the erase entries of N - 1 compactions.             *)
LEMMA Reserved ==
  /\ virt_size + max_prefix_len + (NumPages - 1) = (NumPages - 1) * virt_page_size
  /\ (NumPages - 1) * virt_page_size \in Nat
  /\ NumPages * virt_page_size = (NumPages - 1) * virt_page_size + virt_page_size
<1> DEFINE n == NumPages
           v == virt_page_size
           m == max_prefix_len
           s == virt_size
<1>1. n \in Nat /\ n >= 3 /\ v \in Nat /\ v >= 6 /\ m \in 0 .. v - 1 /\ s \in Nat
      /\ s = (n - 1) * (v - 1) - m
  BY Sizes
<1> HIDE DEF n, v, m, s
<1>2. (n - 1) * (v - 1) = (n - 1) * v - (n - 1) /\ (n - 1) * v \in Nat /\ n * v = (n - 1) * v + v
  BY <1>1, SMT
<1>3. s + m + (n - 1) = (n - 1) * v
  BY <1>1, <1>2, SMT
<1> QED
  BY <1>2, <1>3 DEF n, v, m, s

(* A position is in its page. *)
LEMMA InPage ==
  ASSUME NEW pos \in Nat
  PROVE  /\ pos \div virt_page_size \in Nat
         /\ page_begin(pos) = (pos \div virt_page_size) * virt_page_size
         /\ page_begin(pos) \in Nat /\ next_page(pos) \in Nat
         /\ next_page(pos) = page_begin(pos) + virt_page_size
         /\ WordOf(pos) \in Nat /\ pos = page_begin(pos) + WordOf(pos)
         /\ WordOf(pos) < virt_page_size
<1> DEFINE v == virt_page_size
           q == pos \div v
<1>1. v \in Nat /\ v > 0
  BY Sizes
<1> HIDE DEF v
<1>2. q \in Int /\ pos % v \in 0 .. v - 1 /\ pos = q * v + (pos % v)
  BY <1>1, Division
<1> HIDE DEF q
<1>3. q \in Nat
  <2>1. q < 0 => q * v <= -v
    BY <1>1, <1>2, SMT
  <2>2. q * v \in Int
    BY <1>1, <1>2, SMT
  <2> QED
    BY <1>1, <1>2, <2>1, <2>2, SMT
<1>4. q * v \in Nat /\ (q + 1) * v = q * v + v
  BY <1>1, <1>3, SMT
<1> QED
  BY <1>1, <1>2, <1>3, <1>4 DEF page_begin, next_page, WordOf, v, q

(* The number of a page and its first word determine each other. *)
LEMMA PageNumber ==
  ASSUME NEW q \in Nat, NEW pos \in Nat,
         q * virt_page_size <= pos, pos < q * virt_page_size + virt_page_size
  PROVE  pos \div virt_page_size = q
<1> DEFINE v == virt_page_size
           r == pos - q * v
<1>1. v \in Nat /\ v > 0
  BY Sizes
<1> HIDE DEF v
<1>2. q * v \in Nat
  BY <1>1, SMT
<1>3. r \in 0 .. v - 1 /\ pos = q * v + r
  BY <1>1, <1>2 DEF v
<1> HIDE DEF r
<1> QED
  BY <1>1, <1>3, DivisionUnique DEF v

(* Pages are numbered in the order of their positions. *)
LEMMA PagesOrdered ==
  ASSUME NEW p \in Nat, NEW q \in Nat, p <= q
  PROVE  p \div virt_page_size <= q \div virt_page_size
<1> DEFINE v == virt_page_size
           a == p \div v
           b == q \div v
<1>1. v \in Nat /\ v > 0
  BY Sizes
<1>2. /\ a \in Nat /\ a * v <= p /\ p < a * v + v
      /\ b \in Nat /\ b * v <= q /\ q < b * v + v
  <2>1. /\ a \in Nat /\ page_begin(p) = a * v /\ page_begin(p) \in Nat /\ WordOf(p) \in Nat
        /\ p = page_begin(p) + WordOf(p) /\ WordOf(p) < v
    BY InPage
  <2>2. /\ b \in Nat /\ page_begin(q) = b * v /\ page_begin(q) \in Nat /\ WordOf(q) \in Nat
        /\ q = page_begin(q) + WordOf(q) /\ WordOf(q) < v
    BY InPage
  <2> HIDE DEF a, b, v
  <2> QED
    BY <1>1, <2>1, <2>2
<1> HIDE DEF a, b, v
<1>3. a > b => a * v >= b * v + v
  BY <1>1, <1>2, SMT
<1>4. a * v \in Nat /\ b * v \in Nat
  BY <1>1, <1>2, SMT
<1>5. a <= b
  BY <1>1, <1>2, <1>3, <1>4
<1> QED
  BY <1>5 DEF a, b, v

(* Two positions of the same page, in different cycles, are as far from    *)
(* each other as there are pages.                                          *)
LEMMA SamePage ==
  ASSUME NEW a \in Nat, NEW b \in Nat, a < b, a % NumPages = b % NumPages
  PROVE  b >= a + NumPages
<1> DEFINE n == NumPages
<1>1. n \in Nat /\ n > 0
  BY Sizes
<1>2. a % n = b % n
  OBVIOUS
<1> HIDE DEF n
<1> DEFINE c == a \div n
           d == b \div n
           r == a % n
<1>3. c \in Int /\ d \in Int /\ r \in 0 .. n - 1 /\ a = c * n + r /\ b = d * n + r
  BY <1>1, <1>2, Division
<1> HIDE DEF c, d, r
<1>4. c * n \in Int /\ d * n \in Int
  BY <1>1, <1>3, SMT
<1>5. d <= c => d * n <= c * n
  BY <1>1, <1>3, SMT
<1>6. d >= c + 1 => d * n >= c * n + n
  BY <1>1, <1>3, SMT
<1>7. b >= a + n
  BY <1>1, <1>3, <1>4, <1>5, <1>6
<1> QED
  BY <1>7 DEF n

(* Positions within N pages of each other are different words of the flash. *)
LEMMA WordsApart ==
  ASSUME NEW p \in Nat, NEW q \in Nat, p < q, q < p + NumPages * virt_page_size
  PROVE  ~SameWord(p, q)
<1> SUFFICES ASSUME SameWord(p, q) PROVE FALSE
  OBVIOUS
<1> DEFINE v == virt_page_size
           n == NumPages
           a == p \div v
           b == q \div v
<1>1. v \in Nat /\ v > 0 /\ n \in Nat /\ n > 0
  BY Sizes
<1>2. WordOf(p) = WordOf(q) /\ a % n = b % n
  BY DEF SameWord, PageOf
<1>3. a \in Nat /\ page_begin(p) = a * v /\ p = page_begin(p) + WordOf(p) /\ WordOf(p) \in Nat
  BY InPage
<1>4. b \in Nat /\ page_begin(q) = b * v /\ q = page_begin(q) + WordOf(q)
  BY InPage
<1>5. a <= b
  BY PagesOrdered
<1>6. a < b => b >= a + n
  BY <1>2, <1>3, <1>4, SamePage
<1>7. q < p + n * v
  OBVIOUS
<1> HIDE DEF a, b, v, n
<1>8. b >= a + n => b * v >= a * v + n * v
  <2>1. b >= a + n => b * v >= (a + n) * v
    BY <1>1, <1>3, <1>4, SMT
  <2>2. (a + n) * v = a * v + n * v
    BY <1>1, <1>3, SMT
  <2> QED
    BY <2>1, <2>2
<1>9. a * v \in Nat /\ b * v \in Nat /\ n * v \in Nat
  BY <1>1, <1>3, <1>4, SMT
<1> QED
  BY <1>2, <1>3, <1>4, <1>5, <1>6, <1>7, <1>8, <1>9

(* The page of a position is not that of one in the next N - 1 pages. *)
LEMMA PagesApart ==
  ASSUME NEW p \in Nat, NEW q \in Nat,
         next_page(p) <= q, q < page_begin(p) + NumPages * virt_page_size
  PROVE  PageOf(p) # PageOf(q)
<1> SUFFICES ASSUME PageOf(p) = PageOf(q) PROVE FALSE
  OBVIOUS
<1> DEFINE v == virt_page_size
           n == NumPages
           a == p \div v
           b == q \div v
<1>1. v \in Nat /\ v > 0 /\ n \in Nat /\ n > 0
  BY Sizes
<1>2. a % n = b % n
  BY DEF PageOf
<1>3. a \in Nat /\ page_begin(p) = a * v /\ next_page(p) = page_begin(p) + v
  BY InPage
<1>4. /\ b \in Nat /\ page_begin(q) = b * v /\ q = page_begin(q) + WordOf(q)
      /\ WordOf(q) \in Nat /\ WordOf(q) < v
  BY InPage
<1>5. a < b => b >= a + n
  BY <1>2, <1>3, <1>4, SamePage
<1>6. next_page(p) <= q /\ q < page_begin(p) + n * v
  OBVIOUS
<1> HIDE DEF a, b, v, n
<1>7. b <= a => b * v <= a * v
  BY <1>1, <1>3, <1>4, SMT
<1>8. b >= a + n => b * v >= a * v + n * v
  <2>1. b >= a + n => b * v >= (a + n) * v
    BY <1>1, <1>3, <1>4, SMT
  <2>2. (a + n) * v = a * v + n * v
    BY <1>1, <1>3, SMT
  <2> QED
    BY <2>1, <2>2
<1>9. a * v \in Nat /\ b * v \in Nat /\ n * v \in Nat
  BY <1>1, <1>3, <1>4, SMT
<1> QED
  BY <1>1, <1>3, <1>4, <1>5, <1>6, <1>7, <1>8, <1>9

-----------------------------------------------------------------------------
(* Counting words. *)

(* An interval holds at most as many words of a set as it is long. *)
LEMMA CountInterval ==
  ASSUME NEW S \in SUBSET Nat, NEW a \in Nat, NEW b \in Nat, a <= b
  PROVE  LET T == {p \in S : a <= p /\ p < b}
         IN  IsFiniteSet(T) /\ Cardinality(T) \in Nat /\ Cardinality(T) <= b - a
<1> DEFINE T == {p \in S : a <= p /\ p < b}
           I == a .. b - 1
<1>1. T \in SUBSET I
  <2>1. ASSUME NEW p \in T PROVE p \in I
    <3>1. p \in S /\ a <= p /\ p < b
      BY <2>1
    <3>2. p \in Nat
      BY <3>1
    <3> QED
      BY <3>1, <3>2
  <2> HIDE DEF T, I
  <2> QED
    BY <2>1
<1>2. IsFiniteSet(I) /\ Cardinality(I) = b - a
  <2> DEFINE c == b - 1
  <2>1. c \in Int
    OBVIOUS
  <2> HIDE DEF c
  <2>2. IsFiniteSet(a .. c) /\ Cardinality(a .. c) = IF a > c THEN 0 ELSE c - a + 1
    BY <2>1, FS_Interval
  <2> QED
    BY <2>2 DEF c
<1> HIDE DEF T, I
<1>3. IsFiniteSet(T) /\ Cardinality(T) <= b - a
  BY <1>1, <1>2, FS_Subset
<1>4. Cardinality(T) \in Nat
  BY <1>3, FS_CardinalityType
<1> QED
  BY <1>3, <1>4 DEF T

(* Words are counted below a position and from it on. *)
LEMMA CountSplit ==
  ASSUME NEW S \in SUBSET Nat, IsFiniteSet(S), NEW a \in Nat
  PROVE  LET below == {p \in S : p < a}
             above == {p \in S : a <= p}
         IN  /\ IsFiniteSet(below) /\ IsFiniteSet(above)
             /\ Cardinality(below) \in Nat /\ Cardinality(above) \in Nat
             /\ Cardinality(S) = Cardinality(below) + Cardinality(above)
<1> DEFINE below == {p \in S : p < a}
           above == {p \in S : a <= p}
<1>1. below \in SUBSET S /\ above \in SUBSET S /\ S = below \cup above /\ below \cap above = {}
  <2>1. \A p \in S : (p < a \/ a <= p) /\ ~(p < a /\ a <= p)
    OBVIOUS
  <2> QED
    BY <2>1, Zenon
<1> HIDE DEF below, above
<1>2. IsFiniteSet(below) /\ IsFiniteSet(above)
  BY <1>1, FS_Subset
<1>3. Cardinality(below) \in Nat /\ Cardinality(above) \in Nat
  BY <1>2, FS_CardinalityType
<1>4. Cardinality(below \cap above) = 0
  BY <1>1, FS_EmptySet
<1>5. Cardinality(S) = Cardinality(below) + Cardinality(above)
  <2>1. Cardinality(below \cup above)
          = Cardinality(below) + Cardinality(above) - Cardinality(below \cap above)
    BY <1>2, FS_Union
  <2> QED
    BY <1>1, <1>3, <1>4, <2>1
<1> QED
  BY <1>2, <1>3, <1>5 DEF below, above

-----------------------------------------------------------------------------
(* The space of the log. *)

SpaceType ==
  /\ head_pos \in Nat /\ tail_pos \in Nat /\ head_pos <= tail_pos
  /\ live \in SUBSET (head_pos .. tail_pos - 1)

(* The live words before a position. *)
Used(mark) == Cardinality({p \in live : p < mark})

(* The words of the log from mark on, and the live words before it: what   *)
(* remains of the log once the entries before mark are copied.             *)
Remaining(mark) == (tail_pos - (IF mark < head_pos THEN head_pos ELSE mark)) + Used(mark)

LEMMA LiveFinite ==
  ASSUME SpaceType
  PROVE  /\ live \in SUBSET Nat /\ IsFiniteSet(live) /\ Cardinality(live) \in Nat
         /\ Cardinality(live) <= tail_pos - head_pos
<1>1. \A p \in live : p \in Nat /\ head_pos <= p /\ p < tail_pos
  BY DEF SpaceType
<1>2. head_pos \in Nat /\ tail_pos \in Nat /\ head_pos <= tail_pos
  BY DEF SpaceType
<1>3. live \in SUBSET Nat
  BY <1>1
<1>4. live = {p \in live : head_pos <= p /\ p < tail_pos}
  BY <1>1
<1> QED
  BY <1>2, <1>3, <1>4, CountInterval

(* The live words before a position are at most all, and none before the   *)
(* head.                                                                   *)
LEMMA UsedBounds ==
  ASSUME SpaceType, NEW mark \in Nat
  PROVE  /\ Used(mark) \in Nat /\ Used(mark) <= Cardinality(live)
         /\ mark <= head_pos => Used(mark) = 0
         /\ mark >= head_pos => Used(mark) <= mark - head_pos
         /\ mark >= tail_pos => Used(mark) = Cardinality(live)
<1>1. \A p \in live : p \in Nat /\ head_pos <= p /\ p < tail_pos
  BY DEF SpaceType
<1>2. head_pos \in Nat /\ tail_pos \in Nat /\ head_pos <= tail_pos
  BY DEF SpaceType
<1>3. live \in SUBSET Nat /\ IsFiniteSet(live) /\ Cardinality(live) \in Nat
  BY LiveFinite
<1>4. Used(mark) \in Nat /\ Used(mark) <= Cardinality(live)
  <2> DEFINE B == {p \in live : p < mark}
  <2>1. B \in SUBSET live
    OBVIOUS
  <2> HIDE DEF B
  <2>2. IsFiniteSet(B) /\ Cardinality(B) <= Cardinality(live)
    BY <1>3, <2>1, FS_Subset
  <2>3. Cardinality(B) \in Nat
    BY <2>2, FS_CardinalityType
  <2> QED
    BY <2>2, <2>3 DEF Used, B
<1>5. mark <= head_pos => Used(mark) = 0
  <2>1. mark <= head_pos => {p \in live : p < mark} = {}
    BY <1>1, <1>2
  <2> QED
    BY <2>1, FS_EmptySet DEF Used
<1>6. mark >= head_pos => Used(mark) <= mark - head_pos
  <2> HAVE mark >= head_pos
  <2>1. {p \in live : p < mark} = {p \in live : head_pos <= p /\ p < mark}
    BY <1>1
  <2>2. Cardinality({p \in live : head_pos <= p /\ p < mark}) <= mark - head_pos
    BY <1>2, <1>3, CountInterval
  <2> QED
    BY <2>1, <2>2 DEF Used
<1>7. mark >= tail_pos => Used(mark) = Cardinality(live)
  <2>1. mark >= tail_pos => {p \in live : p < mark} = live
    BY <1>1, <1>2
  <2> QED
    BY <2>1 DEF Used
<1> QED
  BY <1>4, <1>5, <1>6, <1>7

(* Live words between two positions. *)
LEMMA UsedBetween ==
  ASSUME SpaceType, NEW a \in Nat, NEW b \in Nat, a <= b
  PROVE  LET T == {p \in live : a <= p /\ p < b}
         IN  /\ Cardinality(T) \in Nat /\ Cardinality(T) <= b - a
             /\ Used(b) = Used(a) + Cardinality(T)
<1> DEFINE S == {p \in live : p < b}
           T == {p \in live : a <= p /\ p < b}
<1>1. live \in SUBSET Nat /\ IsFiniteSet(live)
  BY LiveFinite
<1>2. S \in SUBSET live
  OBVIOUS
<1>3. {p \in S : p < a} = {p \in live : p < a} /\ {p \in S : a <= p} = T
  <2>1. \A p \in live : p < a => p < b
    BY <1>1
  <2>2. \A p : p \in S <=> p \in live /\ p < b
    OBVIOUS
  <2>3. \A p : p \in T <=> p \in live /\ a <= p /\ p < b
    OBVIOUS
  <2> HIDE DEF S, T
  <2>4. {p \in S : p < a} = {p \in live : p < a}
    BY <2>1, <2>2, Zenon
  <2>5. {p \in S : a <= p} = T
    BY <2>2, <2>3, Zenon
  <2> QED
    BY <2>4, <2>5
<1>4. Cardinality(T) \in Nat /\ Cardinality(T) <= b - a
  BY <1>1, CountInterval
<1> HIDE DEF S, T
<1>5. S \in SUBSET Nat /\ IsFiniteSet(S)
  BY <1>1, <1>2, FS_Subset
<1>6. Cardinality(S) = Cardinality({p \in S : p < a}) + Cardinality({p \in S : a <= p})
  BY <1>5, CountSplit
<1>7. Used(b) = Used(a) + Cardinality(T)
  BY <1>3, <1>6 DEF Used, S
<1> QED
  BY <1>4, <1>7 DEF T

(* What a compaction does to the space. *)
LEMMA CompactSpace ==
  ASSUME SpaceType, NEW new \in next_heads, CompactTo(new)
  PROVE  /\ SpaceType' /\ Cardinality(live') = Cardinality(live)
         /\ new \in Nat /\ head_pos' = new /\ tail_pos' = (copy_begin + Used(new)) + 1
         /\ page_begin(new) = next_page(head_pos)
         /\ new \div virt_page_size = (head_pos \div virt_page_size) + 1
         /\ next_page(head_pos) <= new /\ new <= next_page(head_pos) + max_prefix_len
         /\ copy_begin \in Nat /\ tail_pos <= copy_begin /\ new <= copy_begin
         /\ tail_pos >= next_page(head_pos) => copy_begin = tail_pos
         /\ tail_pos < next_page(head_pos) =>
              copy_begin = next_page(head_pos) /\ new = next_page(head_pos)
         /\ \A mark \in Nat : mark <= copy_begin =>
              {p \in live' : p < mark} = {p \in live : new <= p /\ p < mark}
<1>1. head_pos \in Nat /\ tail_pos \in Nat /\ head_pos <= tail_pos
      /\ \A p \in live : p \in Nat /\ head_pos <= p /\ p < tail_pos
  BY DEF SpaceType
<1>2. next_page(head_pos) \in Nat /\ max_prefix_len \in Nat /\ max_prefix_len < virt_page_size
      /\ virt_page_size \in Nat
      /\ next_page(head_pos) = page_begin(head_pos) + virt_page_size
      /\ page_begin(head_pos) \in Nat /\ head_pos < next_page(head_pos)
  BY <1>1, InPage, Sizes
<1>3. /\ new \in Nat
      /\ next_page(head_pos) <= new /\ new <= next_page(head_pos) + max_prefix_len
      /\ new = next_page(head_pos) \/ new <= tail_pos
  BY <1>2 DEF next_heads
<1>4. /\ copy_begin \in Nat /\ tail_pos <= copy_begin /\ next_page(head_pos) <= copy_begin
      /\ tail_pos >= next_page(head_pos) => copy_begin = tail_pos
      /\ tail_pos < next_page(head_pos) => copy_begin = next_page(head_pos)
  <2>1. copy_begin = IF tail_pos >= next_page(head_pos) THEN tail_pos ELSE next_page(head_pos)
    BY <1>1, <1>2, MaxOfTwo DEF copy_begin
  <2> HIDE DEF copy_begin
  <2> QED
    BY <1>1, <1>2, <2>1
<1> DEFINE c == copy_begin
           n == Used(new)
           moved == {p \in live : p < new}
           kept == {p \in live : new <= p}
           copies == c .. (c + n) - 1
<1>5. n \in Nat
  BY <1>3, UsedBounds
<1>6. /\ head_pos' = new /\ tail_pos' = (c + n) + 1
      /\ live' = (live \ moved) \cup copies
  <2>1. Cardinality(moved) = n
    BY DEF Used
  <2> QED
    BY <2>1 DEF CompactTo
<1>7. c \in Nat /\ new <= c /\ tail_pos <= c
  BY <1>1, <1>2, <1>3, <1>4
<1>8. live \ moved = kept
  <2>1. \A p \in live : p < new <=> ~(new <= p)
    BY <1>1, <1>3
  <2> QED
    BY <2>1, Zenon
<1>9. live' = kept \cup copies
  BY <1>6, <1>8
<1>10. \A p \in kept : p \in Nat /\ new <= p /\ p < c /\ p \in live
  BY <1>1, <1>3, <1>7
<1>11. \A p \in copies : p \in Nat /\ c <= p /\ p < (c + n)
  <2> HIDE DEF c, n
  <2> QED
    BY <1>5, <1>7
<1>12. SpaceType'
  <2>1. head_pos' \in Nat /\ tail_pos' \in Nat /\ head_pos' <= tail_pos'
    <3> HIDE DEF c, n
    <3> QED
      BY <1>3, <1>5, <1>6, <1>7
  <2>2. ASSUME NEW p \in live' PROVE p \in new .. ((c + n) + 1) - 1
    <3>1. p \in kept \/ p \in copies
      BY <1>9, <2>2, Zenon
    <3> HIDE DEF kept, copies, c, n
    <3> QED
      BY <1>3, <1>5, <1>7, <1>10, <1>11, <3>1
  <2>3. live' \in SUBSET (head_pos' .. tail_pos' - 1)
    <3> HIDE DEF kept, copies, c, n
    <3> QED
      BY <1>6, <2>2
  <2> QED
    BY <2>1, <2>3 DEF SpaceType
<1>13. Cardinality(live') = Cardinality(live)
  <2>1. live \in SUBSET Nat /\ IsFiniteSet(live)
    BY LiveFinite
  <2>2. /\ IsFiniteSet(kept) /\ Cardinality(kept) \in Nat
        /\ Cardinality(live) = n + Cardinality(kept)
    BY <1>3, <2>1, CountSplit DEF Used
  <2>3. IsFiniteSet(copies) /\ Cardinality(copies) = n
    <3> DEFINE d == (c + n) - 1
    <3> HIDE DEF c, n
    <3>1. d \in Int /\ c \in Int
      BY <1>5, <1>7
    <3> HIDE DEF d
    <3>2. IsFiniteSet(c .. d) /\ Cardinality(c .. d) = IF c > d THEN 0 ELSE d - c + 1
      BY <3>1, FS_Interval
    <3> QED
      BY <1>5, <1>7, <3>2 DEF d
  <2>4. kept \cap copies = {}
    <3>1. \A p \in kept : p \notin copies
      <4> HIDE DEF kept, copies, c, n
      <4> QED
        BY <1>7, <1>10, <1>11
    <3> HIDE DEF kept, copies
    <3> QED
      BY <3>1, Zenon
  <2> HIDE DEF kept, copies
  <2>5. Cardinality(kept \cup copies)
          = Cardinality(kept) + Cardinality(copies) - Cardinality(kept \cap copies)
    BY <2>2, <2>3, FS_Union
  <2>6. Cardinality(kept \cap copies) = 0
    BY <2>4, FS_EmptySet
  <2> HIDE DEF n
  <2> QED
    BY <1>5, <1>9, <2>2, <2>3, <2>5, <2>6
<1>14. /\ page_begin(new) = next_page(head_pos)
       /\ new \div virt_page_size = (head_pos \div virt_page_size) + 1
  <2> DEFINE v == virt_page_size
             q == (head_pos \div v) + 1
  <2>1. q \in Nat /\ next_page(head_pos) = q * v
    BY <1>1, InPage DEF next_page
  <2>2. q * v <= new /\ new < q * v + v
    <3> HIDE DEF q
    <3> QED
      BY <1>2, <1>3, <2>1
  <2>3. new \div v = q
    BY <1>3, <2>1, <2>2, PageNumber
  <2> QED
    BY <2>1, <2>3 DEF page_begin
<1>15. ASSUME NEW mark \in Nat, mark <= c
       PROVE  {p \in live' : p < mark} = {p \in live : new <= p /\ p < mark}
  <2>1. \A p \in copies : ~(p < mark)
    <3> HIDE DEF copies, c, n
    <3> QED
      BY <1>7, <1>11, <1>15
  <2>2. \A p : p \in live' /\ p < mark <=> p \in kept /\ p < mark
    <3> HIDE DEF copies, kept
    <3> QED
      BY <1>9, <2>1, Zenon
  <2>3. \A p : p \in kept <=> p \in live /\ new <= p
    OBVIOUS
  <2> HIDE DEF kept
  <2> QED
    BY <2>2, <2>3, Zenon
<1> QED
  BY <1>3, <1>4, <1>6, <1>7, <1>12, <1>13, <1>14, <1>15

(* A compaction adds one word, the erase entry, to what remains. *)
LEMMA RemainingStep ==
  ASSUME SpaceType, NEW new \in next_heads, CompactTo(new),
         NEW mark \in Nat, mark <= tail_pos, NEW room \in Nat,
         Remaining(mark) <= room, Cardinality(live) <= room
  PROVE  Remaining(mark)' <= room + 1
<1> DEFINE n == Used(new)
<1>1. /\ new \in Nat /\ head_pos' = new /\ tail_pos' = (copy_begin + n) + 1
      /\ next_page(head_pos) <= new /\ copy_begin \in Nat /\ tail_pos <= copy_begin
      /\ new <= copy_begin
      /\ tail_pos >= next_page(head_pos) => copy_begin = tail_pos
      /\ tail_pos < next_page(head_pos) =>
           copy_begin = next_page(head_pos) /\ new = next_page(head_pos)
      /\ {p \in live' : p < mark} = {p \in live : new <= p /\ p < mark}
  <2>1. copy_begin \in Nat /\ tail_pos <= copy_begin /\ tail_pos \in Nat
    BY CompactSpace DEF SpaceType
  <2>2. mark <= copy_begin
    <3> HIDE DEF copy_begin
    <3> QED
      BY <2>1
  <2> QED
    BY <2>2, CompactSpace
<1>2. /\ head_pos \in Nat /\ tail_pos \in Nat /\ head_pos <= tail_pos
      /\ next_page(head_pos) \in Nat /\ head_pos < next_page(head_pos)
  <2>1. head_pos \in Nat /\ tail_pos \in Nat /\ head_pos <= tail_pos
    BY DEF SpaceType
  <2>2. /\ page_begin(head_pos) \in Nat /\ next_page(head_pos) \in Nat
        /\ next_page(head_pos) = page_begin(head_pos) + virt_page_size
        /\ WordOf(head_pos) \in Nat /\ head_pos = page_begin(head_pos) + WordOf(head_pos)
        /\ WordOf(head_pos) < virt_page_size
    BY <2>1, InPage
  <2>3. virt_page_size \in Nat
    BY Sizes
  <2>4. head_pos < next_page(head_pos)
    BY <2>2, <2>3
  <2> QED
    BY <2>1, <2>2, <2>4
<1>3. n \in Nat /\ n <= Cardinality(live) /\ n <= new - head_pos
  <2>1. new \in Nat /\ new >= head_pos
    BY <1>1, <1>2
  <2> QED
    BY <2>1, UsedBounds
<1>4. Cardinality(live) \in Nat
  BY LiveFinite
<1>5. Used(mark)' = Cardinality({p \in live : new <= p /\ p < mark})
  BY <1>1 DEF Used
<1>6. /\ mark <= new => Used(mark)' = 0
      /\ mark >= new => Used(mark)' \in Nat /\ Used(mark) = n + Used(mark)'
  <2>1. ASSUME mark <= new PROVE Used(mark)' = 0
    <3>1. \A p \in live : p \in Nat
      BY LiveFinite
    <3>2. {p \in live : new <= p /\ p < mark} = {}
      BY <1>1, <2>1, <3>1
    <3> QED
      BY <1>5, <3>2, FS_EmptySet
  <2>2. ASSUME mark >= new PROVE Used(mark)' \in Nat /\ Used(mark) = n + Used(mark)'
    BY <1>1, <1>5, <2>2, UsedBetween
  <2> QED
    BY <2>1, <2>2
<1>7. Remaining(mark)' =
        (((copy_begin + n) + 1) - (IF mark < new THEN new ELSE mark)) + Used(mark)'
  BY <1>1 DEF Remaining
<1>8. Used(mark) \in Nat
  BY UsedBounds
<1>9. Remaining(mark) = (tail_pos - (IF mark < head_pos THEN head_pos ELSE mark)) + Used(mark)
  BY DEF Remaining
<1> DEFINE u == Used(mark)
           w == Used(mark)'
           c == copy_begin
           k == Cardinality(live)
           r == Remaining(mark)
           s == Remaining(mark)'
<1>10. CASE tail_pos < next_page(head_pos)
  <2>1. mark < new /\ c = new
    BY <1>1, <1>2, <1>10
  <2>2. w = 0
    BY <1>1, <1>6, <2>1
  <2>3. s = (((c + n) + 1) - new) + w
    BY <1>7, <2>1
  <2>4. k <= room /\ n <= k /\ n \in Nat /\ k \in Nat /\ new \in Nat
    BY <1>1, <1>3, <1>4
  <2>5. s <= room + 1
    <3> HIDE DEF n, w, c, k, s
    <3> QED
      BY <2>1, <2>2, <2>3, <2>4
  <2> QED
    BY <2>5 DEF s
<1>11. CASE tail_pos >= next_page(head_pos) /\ new <= mark
  <2>1. u = n + w /\ w \in Nat /\ c = tail_pos
    BY <1>1, <1>6, <1>11
  <2>2. ~(mark < new) /\ ~(mark < head_pos)
    BY <1>1, <1>2, <1>11
  <2>3. s = (((c + n) + 1) - mark) + w /\ r = (tail_pos - mark) + u
    BY <1>7, <1>9, <2>2
  <2>4. n \in Nat /\ r <= room
    BY <1>3
  <2>5. s <= room + 1
    <3> HIDE DEF n, u, w, c, r, s
    <3> QED
      BY <1>2, <2>1, <2>3, <2>4
  <2> QED
    BY <2>5 DEF s
<1>12. CASE tail_pos >= next_page(head_pos) /\ head_pos <= mark /\ mark < new
  <2>1. w = 0 /\ c = tail_pos
    BY <1>1, <1>6, <1>12
  <2>2. s = (((c + n) + 1) - new) + w /\ r = (tail_pos - mark) + u
    <3>1. mark < new /\ ~(mark < head_pos)
      BY <1>2, <1>12
    <3> QED
      BY <1>7, <1>9, <3>1
  <2>3. n <= u + (new - mark)
    <3> DEFINE T == {p \in live : mark <= p /\ p < new}
    <3>1. Cardinality(T) \in Nat /\ Cardinality(T) <= new - mark /\ n = u + Cardinality(T)
      BY <1>1, <1>12, UsedBetween
    <3> HIDE DEF T, n, u
    <3> QED
      BY <1>1, <1>8, <3>1 DEF u
  <2>4. n \in Nat /\ u \in Nat /\ r <= room
    BY <1>3, <1>8
  <2>5. s <= room + 1
    <3> HIDE DEF n, u, w, c, r, s
    <3> QED
      BY <1>1, <1>2, <2>1, <2>2, <2>3, <2>4
  <2> QED
    BY <2>5 DEF s
<1>13. CASE tail_pos >= next_page(head_pos) /\ mark < head_pos
  <2>1. w = 0 /\ c = tail_pos /\ mark < new
    BY <1>1, <1>2, <1>6, <1>13
  <2>2. s = (((c + n) + 1) - new) + w /\ r = (tail_pos - head_pos) + u
    BY <1>7, <1>9, <1>13, <2>1
  <2>3. n \in Nat /\ u \in Nat /\ r <= room /\ n <= new - head_pos
    BY <1>3, <1>8
  <2>5. s <= room + 1
    <3> HIDE DEF n, u, w, c, r, s
    <3> QED
      BY <1>1, <1>2, <2>1, <2>2, <2>3
  <2> QED
    BY <2>5 DEF s
<1> QED
  BY <1>1, <1>2, <1>10, <1>11, <1>12, <1>13

-----------------------------------------------------------------------------
(* The inductive invariant. *)

(* Before the k-th compaction of a log, mark was its end: the page of the  *)
(* head has advanced by k pages since.                                     *)
Marked(k, mark) ==
  /\ mark <= tail_pos
  /\ mark <= page_begin(head_pos) + ((NumPages - 1) - k) * virt_page_size

(* The log exceeds virt_size by at most the erase entries of k compactions,*)
(* and loses all of its dead words but these once the head is past mark.   *)
LongLog(k, mark) ==
  /\ tail_pos - head_pos <= virt_size + k
  /\ Marked(k, mark)
  /\ Remaining(mark) <= total_capacity + k

SpaceInv ==
  /\ SpaceType
  /\ Cardinality(live) <= total_capacity
  /\ WordOf(head_pos) <= max_prefix_len
  /\ \E k \in 0 .. NumPages - 2 : \E mark \in Nat : LongLog(k, mark)

(* A log of at most virt_size words needs no mark. *)
LEMMA ShortLog ==
  ASSUME SpaceType, Cardinality(live) <= total_capacity, WordOf(head_pos) <= max_prefix_len,
         tail_pos <= head_pos + virt_size
  PROVE  LongLog(0, tail_pos)
<1>1. head_pos \in Nat /\ tail_pos \in Nat /\ head_pos <= tail_pos
  BY DEF SpaceType
<1>2. /\ page_begin(head_pos) \in Nat /\ WordOf(head_pos) \in Nat
      /\ head_pos = page_begin(head_pos) + WordOf(head_pos)
  BY <1>1, InPage
<1>3. /\ virt_size + max_prefix_len + (NumPages - 1) = (NumPages - 1) * virt_page_size
      /\ (NumPages - 1) * virt_page_size \in Nat
  BY Reserved
<1>4. NumPages \in Nat /\ NumPages >= 3 /\ virt_size \in Nat /\ max_prefix_len \in Nat
      /\ total_capacity \in Nat
  BY Sizes
<1> DEFINE s == virt_size
           m == max_prefix_len
           n == NumPages
           x == (NumPages - 1) * virt_page_size
           b == page_begin(head_pos)
           w == WordOf(head_pos)
<1>5. tail_pos <= b + x
  <2>1. /\ s + m + (n - 1) = x /\ x \in Nat /\ n \in Nat /\ n >= 3 /\ s \in Nat /\ m \in Nat
        /\ b \in Nat /\ w \in Nat /\ head_pos = b + w /\ w <= m /\ tail_pos <= head_pos + s
    BY <1>2, <1>3, <1>4
  <2> HIDE DEF s, m, n, x, b, w
  <2> QED
    BY <1>1, <2>1
<1>6. Marked(0, tail_pos)
  <2>1. (NumPages - 1) - 0 = NumPages - 1
    BY <1>4
  <2>2. tail_pos <= tail_pos
    BY <1>1
  <2> QED
    BY <1>5, <2>1, <2>2 DEF Marked
<1>7. Remaining(tail_pos) <= total_capacity + 0
  <2>1. Used(tail_pos) = Cardinality(live) /\ Cardinality(live) \in Nat
    BY <1>1, UsedBounds, LiveFinite
  <2>2. Remaining(tail_pos) = (tail_pos - tail_pos) + Used(tail_pos)
    BY <1>1 DEF Remaining
  <2> HIDE DEF Remaining, total_capacity
  <2> QED
    BY <1>1, <1>4, <2>1, <2>2
<1>8. tail_pos - head_pos <= virt_size + 0
  <2> HIDE DEF virt_size
  <2> QED
    BY <1>1, <1>4
<1> QED
  BY <1>6, <1>7, <1>8 DEF LongLog

Short ==
  /\ SpaceType /\ Cardinality(live) <= total_capacity /\ WordOf(head_pos) <= max_prefix_len
  /\ tail_pos <= head_pos + virt_size

LEMMA ShortFits == Short => SpaceInv
<1> SUFFICES ASSUME Short PROVE SpaceInv
  OBVIOUS
<1>1. LongLog(0, tail_pos)
  BY ShortLog DEF Short
<1>2. 0 \in 0 .. NumPages - 2 /\ tail_pos \in Nat
  BY Sizes DEF Short, SpaceType
<1> QED
  BY <1>1, <1>2 DEF Short, SpaceInv

(* The log ends before the last page of its window. *)
LEMMA LogEnds ==
  ASSUME SpaceInv
  PROVE  /\ tail_pos - head_pos <= virt_size + (NumPages - 2)
         /\ tail_pos < page_begin(head_pos) + (NumPages - 1) * virt_page_size
<1>1. head_pos \in Nat /\ tail_pos \in Nat /\ head_pos <= tail_pos
  BY DEF SpaceInv, SpaceType
<1>2. /\ page_begin(head_pos) \in Nat /\ WordOf(head_pos) \in Nat
      /\ head_pos = page_begin(head_pos) + WordOf(head_pos)
  BY <1>1, InPage
<1>3. PICK k \in 0 .. NumPages - 2 : tail_pos - head_pos <= virt_size + k
  BY DEF SpaceInv, LongLog
<1> DEFINE s == virt_size
           m == max_prefix_len
           n == NumPages
           x == (NumPages - 1) * virt_page_size
           b == page_begin(head_pos)
           w == WordOf(head_pos)
<1>4. /\ s + m + (n - 1) = x /\ x \in Nat /\ n \in Nat /\ n >= 3 /\ s \in Nat /\ m \in Nat
      /\ b \in Nat /\ w \in Nat /\ head_pos = b + w /\ w <= m
      /\ tail_pos - head_pos <= s + k /\ k \in 0 .. n - 2
  BY <1>2, <1>3, Reserved, Sizes DEF SpaceInv
<1>5. tail_pos - head_pos <= s + (n - 2) /\ tail_pos < b + x
  <2> HIDE DEF s, m, n, x, b, w
  <2> QED
    BY <1>1, <1>4
<1> QED
  BY <1>5

(* The mark comes a page closer with each compaction. *)
LEMMA MarkedStep ==
  ASSUME SpaceType, NEW new \in next_heads, CompactTo(new),
         NEW k \in Nat, NEW mark \in Nat, Marked(k, mark)
  PROVE  Marked(k + 1, mark)'
<1>1. /\ head_pos' = new /\ tail_pos' = (copy_begin + Used(new)) + 1
      /\ page_begin(new) = next_page(head_pos) /\ new \in Nat
      /\ copy_begin \in Nat /\ tail_pos <= copy_begin
  BY CompactSpace
<1>2. Used(new) \in Nat
  BY <1>1, UsedBounds
<1>3. head_pos \in Nat /\ tail_pos \in Nat
  BY DEF SpaceType
<1>4. page_begin(head_pos) \in Nat /\ next_page(head_pos) = page_begin(head_pos) + virt_page_size
  BY <1>3, InPage
<1>5. mark <= tail_pos'
  <2>1. mark <= tail_pos
    BY DEF Marked
  <2> HIDE DEF copy_begin, Used
  <2> QED
    BY <1>1, <1>2, <1>3, <2>1
<1> DEFINE n == NumPages
           v == virt_page_size
           b == page_begin(head_pos)
<1>6. mark <= (b + v) + ((n - 1) - (k + 1)) * v
  <2>1. mark <= b + ((n - 1) - k) * v
    BY DEF Marked
  <2>2. n \in Nat /\ v \in Nat /\ b \in Nat
    BY <1>4, Sizes
  <2> HIDE DEF n, v, b
  <2>3. ((n - 1) - k) * v = ((n - 1) - (k + 1)) * v + v /\ ((n - 1) - (k + 1)) * v \in Int
    BY <2>2, SMT
  <2> QED
    BY <2>1, <2>2, <2>3
<1>7. page_begin(head_pos)' = b + v
  <2>1. page_begin(head_pos)' = page_begin(new)
    BY <1>1 DEF page_begin
  <2> QED
    BY <1>1, <1>4, <2>1
<1> QED
  BY <1>5, <1>6, <1>7 DEF Marked

(* The length of the log grows by one word at most, and the log ends in    *)
(* its window before the head page is erased.                              *)
LEMMA LengthStep ==
  ASSUME SpaceType, NEW new \in next_heads, CompactTo(new), NEW k \in Nat, k <= NumPages - 2,
         Cardinality(live) <= total_capacity, WordOf(head_pos) <= max_prefix_len,
         tail_pos - head_pos <= virt_size + k
  PROVE  /\ tail_pos' - head_pos' <= virt_size + (k + 1)
         /\ tail_pos' <= page_begin(head_pos) + NumPages * virt_page_size
<1>1. /\ new \in Nat /\ head_pos' = new /\ tail_pos' = (copy_begin + Used(new)) + 1
      /\ next_page(head_pos) <= new /\ new <= next_page(head_pos) + max_prefix_len
      /\ tail_pos >= next_page(head_pos) => copy_begin = tail_pos
      /\ tail_pos < next_page(head_pos) =>
           copy_begin = next_page(head_pos) /\ new = next_page(head_pos)
  BY CompactSpace
<1>2. head_pos \in Nat /\ tail_pos \in Nat /\ head_pos <= tail_pos
  BY DEF SpaceType
<1>3. /\ page_begin(head_pos) \in Nat /\ next_page(head_pos) \in Nat
      /\ next_page(head_pos) = page_begin(head_pos) + virt_page_size
      /\ WordOf(head_pos) \in Nat /\ head_pos = page_begin(head_pos) + WordOf(head_pos)
      /\ WordOf(head_pos) < virt_page_size
  BY <1>2, InPage
<1> DEFINE s == virt_size
           m == max_prefix_len
           n == NumPages
           v == virt_page_size
           x == (NumPages - 1) * virt_page_size
           y == NumPages * virt_page_size
           b == page_begin(head_pos)
           w == WordOf(head_pos)
           e == next_page(head_pos)
           u == Used(new)
           c == copy_begin
           z == Cardinality(live)
<1>4. u \in Nat /\ u <= z /\ u <= new - head_pos
  <2>1. new \in Nat /\ new >= head_pos
    <3>1. v \in Nat
      BY Sizes
    <3> HIDE DEF v
    <3> QED
      BY <1>1, <1>2, <1>3, <3>1 DEF v
  <2> QED
    BY <2>1, UsedBounds
<1>5. /\ s + m + (n - 1) = x /\ x \in Nat /\ y = x + v /\ n \in Nat /\ n >= 3 /\ s \in Nat
      /\ m \in Nat /\ v \in Nat /\ v >= 6 /\ m < v
      /\ total_capacity = s - n
  BY Reserved, Sizes
<1>6. z \in Nat /\ z <= tail_pos - head_pos /\ z <= s - n
  BY <1>5, LiveFinite
<1>7. x >= 2 * v
  <2>1. n \in Nat /\ n >= 3 /\ v \in Nat /\ x = (n - 1) * v
    BY <1>5
  <2>2. (n - 3) * v >= 0 /\ (n - 1) * v = (n - 3) * v + 2 * v /\ (n - 3) * v \in Int
    <3> HIDE DEF n, v
    <3> QED
      BY <2>1, SMT
  <2> HIDE DEF n, v, x
  <2> QED
    BY <2>1, <2>2
<1>8. /\ tail_pos' = (c + u) + 1 /\ head_pos' = new /\ e = b + v /\ head_pos = b + w
      /\ e <= new /\ new <= e + m /\ tail_pos - head_pos <= s + k /\ k <= n - 2
      /\ tail_pos >= e => c = tail_pos
      /\ tail_pos < e => c = e /\ new = e
      /\ b \in Nat /\ e \in Nat /\ w \in Nat /\ w <= m
  BY <1>1, <1>3
<1>9. tail_pos' - head_pos' <= s + (k + 1) /\ tail_pos' <= b + y
  <2> HIDE DEF s, m, n, v, x, y, b, w, e, u, c, z
  <2>1. CASE tail_pos >= e
    BY <1>1, <1>2, <1>4, <1>5, <1>7, <1>8, <2>1
  <2>2. CASE tail_pos < e
    BY <1>1, <1>2, <1>4, <1>5, <1>6, <1>7, <1>8, <2>2
  <2> QED
    BY <1>2, <1>8, <2>1, <2>2
<1> QED
  BY <1>9

LEMMA CompactKeepsSpace ==
  ASSUME SpaceInv, NEW new \in next_heads, CompactTo(new)
  PROVE  SpaceInv'
<1>1. SpaceType /\ Cardinality(live) <= total_capacity /\ WordOf(head_pos) <= max_prefix_len
  BY DEF SpaceInv
<1>2. PICK k \in 0 .. NumPages - 2, mark \in Nat : LongLog(k, mark)
  BY DEF SpaceInv
<1>3. /\ NumPages \in Nat /\ NumPages >= 3 /\ total_capacity \in Nat /\ virt_size \in Nat
      /\ max_prefix_len \in Nat /\ virt_page_size \in Nat
      /\ total_capacity = virt_size - NumPages
  BY Sizes
<1>4. k \in Nat /\ k <= NumPages - 2
  BY <1>3
<1>5. /\ SpaceType' /\ Cardinality(live') = Cardinality(live) /\ head_pos' = new
      /\ page_begin(new) = next_page(head_pos) /\ new \in Nat
      /\ next_page(head_pos) <= new /\ new <= next_page(head_pos) + max_prefix_len
  BY <1>1, CompactSpace
<1>6. Cardinality(live') <= total_capacity
  BY <1>1, <1>5
<1>7. WordOf(head_pos)' <= max_prefix_len
  <2>1. page_begin(new) \in Nat /\ WordOf(new) \in Nat /\ new = page_begin(new) + WordOf(new)
    BY <1>5, InPage
  <2>2. WordOf(new) <= max_prefix_len
    <3> HIDE DEF WordOf, page_begin, next_page, max_prefix_len
    <3> QED
      BY <1>3, <1>5, <2>1
  <2>3. WordOf(head_pos)' = WordOf(new)
    BY <1>5 DEF WordOf
  <2> QED
    BY <2>2, <2>3
<1>8. Marked(k + 1, mark)'
  BY <1>1, <1>2, <1>4, MarkedStep DEF LongLog
<1>9. tail_pos' - head_pos' <= virt_size + (k + 1)
  BY <1>1, <1>2, <1>4, LengthStep DEF LongLog
<1>10. Remaining(mark)' <= total_capacity + (k + 1)
  <2> DEFINE room == total_capacity + k
  <2>1. Cardinality(live) \in Nat
    BY <1>1, LiveFinite
  <2>2. room \in Nat /\ Cardinality(live) <= room
    <3> HIDE DEF total_capacity
    <3> QED
      BY <1>1, <1>3, <1>4, <2>1
  <2>3. Remaining(mark) <= room /\ mark <= tail_pos
    BY <1>2 DEF LongLog, Marked
  <2> HIDE DEF room
  <2>4. Remaining(mark)' <= room + 1
    BY <1>1, <2>2, <2>3, RemainingStep
  <2>5. room + 1 = total_capacity + (k + 1)
    <3> HIDE DEF total_capacity
    <3> QED
      BY <1>3, <1>4 DEF room
  <2> QED
    BY <2>4, <2>5
<1>11. CASE k + 1 <= NumPages - 2
  <2>1. LongLog(k + 1, mark)'
    BY <1>8, <1>9, <1>10 DEF LongLog
  <2>2. k + 1 \in 0 .. NumPages - 2
    BY <1>3, <1>4, <1>11
  <2> QED
    BY <1>5, <1>6, <1>7, <2>1, <2>2 DEF SpaceInv
<1>12. CASE k = NumPages - 2
  <2>1. mark <= page_begin(head_pos)'
    <3>1. mark <= page_begin(head_pos)' + ((NumPages - 1) - (k + 1)) * virt_page_size
      BY <1>8 DEF Marked
    <3>2. (NumPages - 1) - (k + 1) = 0 /\ 0 * virt_page_size = 0
      BY <1>3, <1>4, <1>12
    <3>3. page_begin(head_pos)' \in Nat
      BY <1>5, InPage DEF page_begin
    <3> HIDE DEF page_begin
    <3> QED
      BY <3>1, <3>2, <3>3
  <2>2. mark <= head_pos'
    <3>1. page_begin(new) \in Nat /\ WordOf(new) \in Nat /\ new = page_begin(new) + WordOf(new)
      BY <1>5, InPage
    <3>2. page_begin(head_pos)' = page_begin(new)
      BY <1>5 DEF page_begin
    <3> QED
      BY <1>5, <2>1, <3>1, <3>2
  <2>3. tail_pos' \in Nat /\ head_pos' \in Nat
    BY <1>5 DEF SpaceType
  <2>4. Used(mark)' = 0
    <3>1. ASSUME NEW p \in live' PROVE ~(p < mark)
      <4>1. p \in head_pos' .. tail_pos' - 1
        BY <1>5, <3>1 DEF SpaceType
      <4> QED
        BY <2>2, <2>3, <4>1
    <3>2. {p \in live : p < mark}' = {}
      BY <3>1, Zenon
    <3> QED
      BY <3>2, FS_EmptySet DEF Used
  <2>5. tail_pos' - head_pos' <= total_capacity + (k + 1)
    <3>1. Remaining(mark)' = (tail_pos' - head_pos') + Used(mark)'
      BY <2>2, <2>3 DEF Remaining
    <3> QED
      BY <1>10, <2>3, <2>4, <3>1
  <2>6. tail_pos' <= head_pos' + virt_size
    <3> DEFINE s == virt_size
               c == total_capacity
               n == NumPages
    <3>1. /\ s \in Nat /\ c = s - n /\ n \in Nat /\ k = n - 2
          /\ tail_pos' - head_pos' <= c + (k + 1)
      BY <1>3, <1>12, <2>5
    <3> HIDE DEF s, c, n
    <3> DEFINE t == tail_pos'
               h == head_pos'
    <3>2. t \in Nat /\ h \in Nat /\ t - h <= c + (k + 1)
      BY <2>3, <3>1
    <3> HIDE DEF t, h
    <3>3. k \in Int /\ k + 1 = n - 1 /\ c \in Int
      BY <3>1
    <3>4. t - h <= s - 1
      BY <3>1, <3>2, <3>3
    <3>5. t <= h + s
      BY <3>1, <3>2, <3>4
    <3> QED
      BY <3>5 DEF s, t, h
  <2>7. Short'
    BY <1>5, <1>6, <1>7, <2>6 DEF Short
  <2> QED
    BY <2>7, ShortFits, PTL
<1> QED
  BY <1>3, <1>4, <1>11, <1>12

LEMMA WriteKeepsSpace ==
  ASSUME SpaceInv, Write
  PROVE  Short'
<1>1. head_pos \in Nat /\ tail_pos \in Nat /\ head_pos <= tail_pos
      /\ live \in SUBSET (head_pos .. tail_pos - 1) /\ WordOf(head_pos) <= max_prefix_len
  BY DEF SpaceInv, SpaceType
<1>2. virt_size \in Nat
  BY Sizes
<1>3. /\ tail_pos' \in tail_pos .. head_pos + virt_size /\ head_pos' = head_pos
      /\ live' \in SUBSET (live \cup Fresh(tail_pos')) /\ Cardinality(live') <= total_capacity
  BY DEF Write
<1>4. tail_pos' \in Nat /\ tail_pos <= tail_pos' /\ tail_pos' <= head_pos' + virt_size
  BY <1>1, <1>2, <1>3
<1>5. ASSUME NEW p \in live' PROVE p \in head_pos' .. tail_pos' - 1
  <2>1. p \in live \/ p \in Fresh(tail_pos')
    BY <1>3, <1>5, Zenon
  <2>2. CASE p \in live
    <3>1. p \in Int /\ head_pos <= p /\ p <= tail_pos - 1
      BY <1>1, <2>2
    <3> DEFINE t == tail_pos'
               h == head_pos'
    <3>2. t \in Nat /\ tail_pos <= t /\ tail_pos \in Nat /\ h \in Nat /\ h <= p
      BY <1>1, <1>3, <1>4, <3>1
    <3> HIDE DEF t, h
    <3>3. p \in h .. t - 1
      BY <3>1, <3>2
    <3> QED
      BY <3>3 DEF t, h
  <2>3. CASE p \in Fresh(tail_pos')
    <3>1. p \in head_pos .. tail_pos' - 1
      BY <2>3, Zenon DEF Fresh
    <3> QED
      BY <1>3, <3>1
  <2> QED
    BY <2>1, <2>2, <2>3
<1>6. SpaceType'
  <2>1. live' \in SUBSET (head_pos' .. tail_pos' - 1)
    BY <1>5
  <2>2. head_pos' \in Nat /\ head_pos' <= tail_pos'
    BY <1>1, <1>3, <1>4
  <2> QED
    BY <1>4, <2>1, <2>2 DEF SpaceType
<1>7. WordOf(head_pos)' <= max_prefix_len
  BY <1>1, <1>3 DEF WordOf
<1> QED
  BY <1>3, <1>4, <1>6, <1>7 DEF Short

(* Removing entries leaves less. *)
LEMMA DeleteShrinks ==
  ASSUME SpaceType, Delete
  PROVE  /\ SpaceType' /\ head_pos' = head_pos /\ tail_pos' = tail_pos
         /\ Cardinality(live') <= Cardinality(live)
         /\ \A mark \in Nat : Remaining(mark)' <= Remaining(mark)
<1>1. head_pos' = head_pos /\ tail_pos' = tail_pos /\ live' \in SUBSET live
  BY DEF Delete
<1>2. SpaceType'
  BY <1>1 DEF SpaceType
<1>3. IsFiniteSet(live)
  BY LiveFinite
<1>4. Cardinality(live') <= Cardinality(live)
  BY <1>1, <1>3, FS_Subset
<1>5. ASSUME NEW mark \in Nat PROVE Remaining(mark)' <= Remaining(mark)
  <2> DEFINE A == {p \in live : p < mark}
             B == {p \in live' : p < mark}
             x == tail_pos - (IF mark < head_pos THEN head_pos ELSE mark)
  <2>1. A \in SUBSET live /\ B \in SUBSET A
    BY <1>1
  <2>2. Remaining(mark) = x + Cardinality(A) /\ Remaining(mark)' = x + Cardinality(B)
    BY <1>1 DEF Remaining, Used
  <2>3. x \in Int
    BY DEF SpaceType
  <2> HIDE DEF A, B, x
  <2>4. IsFiniteSet(A)
    BY <1>3, <2>1, FS_Subset
  <2>5. IsFiniteSet(B) /\ Cardinality(B) <= Cardinality(A)
    BY <2>1, <2>4, FS_Subset
  <2>6. Cardinality(A) \in Nat /\ Cardinality(B) \in Nat
    BY <2>4, <2>5, FS_CardinalityType
  <2> QED
    BY <2>2, <2>3, <2>5, <2>6
<1> QED
  BY <1>1, <1>2, <1>4, <1>5

LEMMA DeleteKeepsSpace ==
  ASSUME SpaceInv, Delete
  PROVE  SpaceInv'
<1>1. SpaceType /\ Cardinality(live) <= total_capacity /\ WordOf(head_pos) <= max_prefix_len
  BY DEF SpaceInv
<1>2. PICK k \in 0 .. NumPages - 2, mark \in Nat : LongLog(k, mark)
  BY DEF SpaceInv
<1>3. /\ SpaceType' /\ head_pos' = head_pos /\ tail_pos' = tail_pos
      /\ Cardinality(live') <= Cardinality(live)
      /\ Remaining(mark)' <= Remaining(mark)
  BY <1>1, DeleteShrinks
<1>4. WordOf(head_pos)' <= max_prefix_len
  BY <1>1, <1>3 DEF WordOf
<1>5. Cardinality(live') <= total_capacity
  <2>1. Cardinality(live) \in Nat /\ IsFiniteSet(live) /\ total_capacity \in Nat
    BY <1>1, LiveFinite, Sizes
  <2>2. live' \in SUBSET live
    BY DEF Delete
  <2>3. Cardinality(live') \in Nat
    BY <2>1, <2>2, FS_Subset, FS_CardinalityType
  <2> HIDE DEF total_capacity
  <2> QED
    BY <1>1, <1>3, <2>1, <2>3
<1>6. LongLog(k, mark)'
  <2>1. Marked(k, mark)'
    BY <1>2, <1>3 DEF LongLog, Marked, page_begin
  <2>2. tail_pos' - head_pos' <= virt_size + k
    BY <1>2, <1>3 DEF LongLog
  <2>3. Remaining(mark)' <= total_capacity + k
    <3> DEFINE r == Remaining(mark)
               s == Remaining(mark)'
               c == total_capacity + k
    <3>1. r <= c /\ s <= r
      BY <1>2, <1>3 DEF LongLog
    <3>2. r \in Int
      <4>1. Used(mark) \in Nat
        BY <1>1, UsedBounds
      <4> QED
        BY <1>1, <4>1 DEF Remaining, SpaceType
    <3>3. s \in Int
      <4>1. Used(mark)' \in Nat
        <5>1. live' \in SUBSET live /\ IsFiniteSet(live)
          BY <1>1, LiveFinite DEF Delete
        <5>2. {p \in live' : p < mark} \in SUBSET live
          BY <5>1
        <5>3. IsFiniteSet({p \in live' : p < mark})
          BY <5>1, <5>2, FS_Subset
        <5> QED
          BY <5>3, FS_CardinalityType DEF Used
      <4> QED
        BY <1>3, <4>1 DEF Remaining, SpaceType
    <3>4. c \in Int
      <4>1. total_capacity \in Int /\ k \in Int
        BY Sizes
      <4> QED
        BY <4>1
    <3> HIDE DEF r, s, c
    <3>5. s <= c
      BY <3>1, <3>2, <3>3, <3>4
    <3> QED
      BY <3>5 DEF s, c
  <2> QED
    BY <2>1, <2>2, <2>3 DEF LongLog
<1> QED
  BY <1>3, <1>4, <1>5, <1>6 DEF SpaceInv

LEMMA SpaceInvStep == SpaceInv /\ [Next]_vars => SpaceInv'
<1> SUFFICES ASSUME SpaceInv, [Next]_vars PROVE SpaceInv'
  OBVIOUS
<1>1. CASE Write
  <2>1. Short'
    BY <1>1, WriteKeepsSpace
  <2> QED
    BY <2>1, ShortFits, PTL
<1>2. CASE Delete
  BY <1>2, DeleteKeepsSpace
<1>3. CASE Compact
  <2>1. PICK new \in next_heads : CompactTo(new)
    BY <1>3 DEF Compact
  <2> QED
    BY <2>1, CompactKeepsSpace
<1>4. CASE UNCHANGED vars
  BY <1>4 DEF vars, SpaceInv, SpaceType, LongLog, Marked, Remaining, Used, WordOf, page_begin
<1> QED
  BY <1>1, <1>2, <1>3, <1>4 DEF Next

LEMMA SpaceInvInit == Init => SpaceInv
<1> SUFFICES ASSUME Init PROVE SpaceInv
  OBVIOUS
<1>1. head_pos = 0 /\ tail_pos = 0 /\ live = {}
  BY DEF Init
<1>2. SpaceType
  BY <1>1 DEF SpaceType
<1>3. Cardinality(live) = 0
  BY <1>1, FS_EmptySet
<1>4. total_capacity \in Nat /\ virt_size \in Nat /\ max_prefix_len \in Nat
  BY Sizes
<1>5. WordOf(head_pos) <= max_prefix_len
  <2>1. WordOf(0) \in Nat /\ 0 = page_begin(0) + WordOf(0) /\ page_begin(0) \in Nat
    BY InPage
  <2>2. WordOf(0) = 0
    <3> HIDE DEF WordOf, page_begin
    <3> QED
      BY <2>1
  <2> QED
    BY <1>1, <1>4, <2>2
<1>6. Short
  BY <1>1, <1>2, <1>3, <1>4, <1>5 DEF Short
<1> QED
  BY <1>6, ShortFits

(* The space of the log stays within its bounds. *)
THEOREM SpaceInvariant == Spec => []SpaceInv
BY SpaceInvInit, SpaceInvStep, PTL DEF Spec

-----------------------------------------------------------------------------
(* Safety. *)

(* What a step writes is in the window of the head it starts from. *)
LEMMA StepEnds ==
  ASSUME SpaceInv, Next
  PROVE  tail_pos' \in Nat /\ tail_pos' <= page_begin(head_pos) + NumPages * virt_page_size
<1> DEFINE b == page_begin(head_pos)
           x == (NumPages - 1) * virt_page_size
           y == NumPages * virt_page_size
           v == virt_page_size
           s == virt_size
           m == max_prefix_len
           n == NumPages
           w == WordOf(head_pos)
<1>1. head_pos \in Nat /\ tail_pos \in Nat /\ SpaceType /\ Cardinality(live) <= total_capacity
      /\ w <= m
  BY DEF SpaceInv, SpaceType
<1>2. /\ b \in Nat /\ w \in Nat /\ head_pos = b + w
  BY <1>1, InPage
<1>3. y = x + v /\ x \in Nat /\ v \in Nat /\ s + m + (n - 1) = x /\ s \in Nat /\ m \in Nat
      /\ n \in Nat /\ n >= 3
  BY Reserved, Sizes
<1>4. CASE Write
  <2>1. tail_pos' \in tail_pos .. head_pos + s
    BY <1>4 DEF Write
  <2> HIDE DEF b, x, y, v, s, m, n, w
  <2>2. tail_pos' \in Nat /\ tail_pos' <= b + y
    BY <1>1, <1>2, <1>3, <2>1
  <2> QED
    BY <2>2 DEF b, y
<1>5. CASE Delete
  <2>1. tail_pos' = tail_pos /\ tail_pos < b + x
    BY <1>5, LogEnds DEF Delete
  <2> HIDE DEF b, x, y, v, s, m, n, w
  <2>2. tail_pos' \in Nat /\ tail_pos' <= b + y
    BY <1>1, <1>2, <1>3, <2>1
  <2> QED
    BY <2>2 DEF b, y
<1>6. CASE Compact
  <2>1. PICK new \in next_heads : CompactTo(new)
    BY <1>6 DEF Compact
  <2>2. PICK k \in 0 .. NumPages - 2 : tail_pos - head_pos <= virt_size + k
    BY DEF SpaceInv, LongLog
  <2>3. k \in Nat /\ k <= NumPages - 2
    BY <1>3, <2>2
  <2>4. tail_pos' <= b + y
    BY <1>1, <2>1, <2>2, <2>3, LengthStep
  <2>5. tail_pos' \in Nat
    BY <1>1, <2>1, CompactSpace DEF SpaceType
  <2> QED
    BY <2>4, <2>5
<1> QED
  BY <1>4, <1>5, <1>6 DEF Next

(* The log never runs into itself. *)
THEOREM LogNeverOverwrites == Spec => NoOverwrite
<1> DEFINE Apart == \A q \in tail_pos .. tail_pos' - 1 : \A p \in page_begin(head_pos) .. q - 1 :
                      ~SameWord(p, q)
<1>1. ASSUME SpaceInv, [Next]_vars PROVE [Apart]_vars
  <2>1. CASE UNCHANGED vars
    BY <2>1
  <2>2. CASE Next
    <3> SUFFICES ASSUME NEW q \in tail_pos .. tail_pos' - 1, NEW p \in page_begin(head_pos) .. q - 1
                 PROVE  ~SameWord(p, q)
      OBVIOUS
    <3> DEFINE b == page_begin(head_pos)
               y == NumPages * virt_page_size
               t == tail_pos'
    <3>1. t \in Nat /\ t <= b + y
      BY <1>1, <2>2, StepEnds
    <3>2. tail_pos \in Nat /\ head_pos \in Nat
      BY <1>1 DEF SpaceInv, SpaceType
    <3>3. b \in Nat
      BY <3>2, InPage
    <3>4. y \in Nat
      <4>1. NumPages \in Nat /\ virt_page_size \in Nat
        BY Sizes
      <4> QED
        BY <4>1, SMT
    <3>5. q \in tail_pos .. t - 1 /\ p \in b .. q - 1
      OBVIOUS
    <3>6. p \in Nat /\ q \in Nat /\ p < q /\ q < p + y
      <4> HIDE DEF b, y, t
      <4> QED
        BY <3>1, <3>2, <3>3, <3>4, <3>5
    <3> QED
      BY <3>6, WordsApart
  <2> QED
    BY <1>1, <2>1, <2>2
<1>2. NoOverwrite <=> [][Apart]_vars
  BY PTL DEF NoOverwrite
<1> HIDE DEF Apart
<1> QED
  BY <1>1, <1>2, SpaceInvariant, PTL DEF Spec

(* A compaction loses no word of a user entry. *)
THEOREM CompactionKeepsEntries == Spec => CompactionLosesNothing
<1> DEFINE Kept == head_pos' # head_pos =>
                     /\ Cardinality(live') = Cardinality(live)
                     /\ \A p \in live' : PageOf(p) # PageOf(head_pos)
<1>1. ASSUME SpaceInv, [Next]_vars PROVE [Kept]_vars
  <2> SUFFICES ASSUME Next, head_pos' # head_pos
               PROVE  /\ Cardinality(live') = Cardinality(live)
                      /\ \A p \in live' : PageOf(p) # PageOf(head_pos)
    BY <1>1
  <2>1. Compact
    BY DEF Next, Write, Delete
  <2>2. PICK new \in next_heads : CompactTo(new)
    BY <2>1 DEF Compact
  <2>3. /\ SpaceType' /\ Cardinality(live') = Cardinality(live)
        /\ head_pos' = new /\ next_page(head_pos) <= new /\ new \in Nat
    BY <1>1, <2>2, CompactSpace DEF SpaceInv
  <2>4. ASSUME NEW p \in live' PROVE PageOf(p) # PageOf(head_pos)
    <3> DEFINE b == page_begin(head_pos)
               e == next_page(head_pos)
               y == NumPages * virt_page_size
               t == tail_pos'
    <3>1. t \in Nat /\ t <= b + y
      BY <1>1, StepEnds
    <3>2. head_pos \in Nat
      BY <1>1 DEF SpaceInv, SpaceType
    <3>3. b \in Nat /\ e \in Nat
      BY <3>2, InPage
    <3>4. y \in Nat
      <4>1. NumPages \in Nat /\ virt_page_size \in Nat
        BY Sizes
      <4> QED
        BY <4>1, SMT
    <3>5. p \in new .. t - 1 /\ e <= new
      BY <2>3, <2>4 DEF SpaceType
    <3>6. p \in Nat /\ e <= p /\ p < b + y
      <4> HIDE DEF b, e, y, t
      <4> QED
        BY <2>3, <3>1, <3>3, <3>4, <3>5
    <3>7. PageOf(head_pos) # PageOf(p)
      BY <3>2, <3>6, PagesApart
    <3> QED
      BY <3>7
  <2> QED
    BY <2>3, <2>4
<1>2. CompactionLosesNothing <=> [][Kept]_vars
  BY PTL DEF CompactionLosesNothing
<1> HIDE DEF Kept
<1> QED
  BY <1>1, <1>2, SpaceInvariant, PTL DEF Spec

(* parse_compact accepts every compact info, for the sizes of OpenSK. *)
THEOREM CompactInfoParsed == Spec => []CompactInfoFits
<1>1. ASSUME SpaceInv PROVE CompactInfoFits
  <2> SUFFICES ASSUME NumPages - 2 <= max_prefix_len PROVE ParsedCompact
    BY DEF CompactInfoFits
  <2> DEFINE s == virt_size
             m == max_prefix_len
             n == NumPages
             v == virt_page_size
             x == (NumPages - 1) * virt_page_size
             b == page_begin(head_pos)
             w == WordOf(head_pos)
             e == next_page(head_pos)
  <2>1. head_pos \in Nat /\ tail_pos \in Nat
    BY <1>1 DEF SpaceInv, SpaceType
  <2>2. tail_pos - head_pos <= s + (n - 2) /\ n - 2 <= m
    BY <1>1, LogEnds
  <2>3. b \in Nat /\ w \in Nat /\ head_pos = b + w /\ e = b + v /\ e \in Nat
    BY <2>1, InPage
  <2>4. copy_begin = IF tail_pos >= e THEN tail_pos ELSE e
    BY <2>1, <2>3, MaxOfTwo DEF copy_begin
  <2>5. s + m + (n - 1) = x /\ x = (n - 1) * v /\ s \in Nat /\ m \in Nat /\ n \in Nat /\ n >= 3
        /\ v \in Nat /\ v >= 6
    BY Reserved, Sizes
  <2>6. v <= s + m
    <3> HIDE DEF s, m, n, v, x
    <3>1. (n - 3) * (v - 1) >= 0 /\ (n - 3) * (v - 1) \in Int
          /\ (n - 1) * v - (n - 1) = (n - 3) * (v - 1) + 2 * (v - 1)
      BY <2>5, SMT
    <3>2. (n - 1) * v \in Int
      BY <2>5, SMT
    <3> QED
      BY <2>5, <3>1, <3>2
  <2>7. copy_begin - head_pos <= s + m
    <3> HIDE DEF s, m, n, v, x, b, w, e
    <3> QED
      BY <2>1, <2>2, <2>3, <2>4, <2>5, <2>6
  <2> QED
    BY <2>7 DEF ParsedCompact
<1> QED
  BY <1>1, SpaceInvariant, PTL

-----------------------------------------------------------------------------
(* Lifetime. *)

(* The erasures of page when the head is in the page numbered h. *)
Cycles(h, page) == (h \div NumPages) + IF page < h % NumPages THEN 1 ELSE 0

LifetimeInv ==
  /\ erases \in [Pages -> Nat]
  /\ head_pos \div virt_page_size <= MaxPageErases * NumPages
  /\ \A page \in Pages : erases[page] = Cycles(head_pos \div virt_page_size, page)

(* A page is erased when the head leaves it. *)
LEMMA CyclesStep ==
  ASSUME NEW h \in Nat, NEW page \in Pages
  PROVE  /\ h \div NumPages \in Nat /\ h % NumPages \in Pages
         /\ Cycles(h, page) \in Nat
         /\ Cycles(h + 1, page) = Cycles(h, page) + IF page = h % NumPages THEN 1 ELSE 0
<1> DEFINE n == NumPages
           q == h \div n
           r == h % n
<1>1. n \in Nat /\ n >= 3 /\ page \in 0 .. n - 1
  BY Sizes DEF Pages
<1>2. q \in Int /\ r \in 0 .. n - 1 /\ h = q * n + r
  <2> HIDE DEF n
  <2> QED
    BY <1>1, Division
<1>3. q \in Nat
  <2> HIDE DEF n, q, r
  <2>1. q < 0 => q * n <= -n
    BY <1>1, <1>2, SMT
  <2>2. q * n \in Int
    BY <1>1, <1>2, SMT
  <2> QED
    BY <1>1, <1>2, <2>1, <2>2, SMT
<1>4. Cycles(h, page) = q + IF page < r THEN 1 ELSE 0
  BY DEF Cycles
<1>5. CASE r + 1 < n
  <2>1. (h + 1) \div n = q /\ (h + 1) % n = r + 1
    <3> DEFINE x == h + 1
               s == r + 1
    <3> HIDE DEF n, q, r
    <3>1. x \in Int /\ s \in 0 .. n - 1
      BY <1>1, <1>2, <1>5
    <3>2. x = q * n + s
      <4>1. q * n \in Int
        BY <1>1, <1>2, SMT
      <4> QED
        BY <1>1, <1>2, <4>1
    <3> HIDE DEF x, s
    <3>3. x \div n = q /\ x % n = s
      BY <1>1, <1>2, <3>1, <3>2, DivisionUnique
    <3> QED
      BY <3>3 DEF x, s
  <2>2. Cycles(h + 1, page) = q + IF page < r + 1 THEN 1 ELSE 0
    BY <2>1 DEF Cycles
  <2>3. Cycles(h + 1, page) = Cycles(h, page) + IF page = r THEN 1 ELSE 0
    <3> HIDE DEF n, q, r
    <3> QED
      BY <1>1, <1>2, <1>4, <2>2
  <2> QED
    BY <1>1, <1>2, <1>3, <1>4, <2>3 DEF Pages
<1>6. CASE r + 1 = n
  <2>1. (h + 1) \div n = q + 1 /\ (h + 1) % n = 0
    <3> DEFINE x == h + 1
               p == q + 1
    <3> HIDE DEF n, q, r
    <3>1. x \in Int /\ p \in Int /\ 0 \in 0 .. n - 1
      BY <1>1, <1>2
    <3>2. x = p * n + 0
      <4>1. (q + 1) * n = q * n + n /\ q * n \in Int
        BY <1>1, <1>2, SMT
      <4> QED
        BY <1>1, <1>2, <1>6, <4>1
    <3> HIDE DEF x, p
    <3>3. x \div n = p /\ x % n = 0
      BY <1>1, <3>1, <3>2, DivisionUnique
    <3> QED
      BY <3>3 DEF x, p
  <2>2. Cycles(h + 1, page) = (q + 1) + IF page < 0 THEN 1 ELSE 0
    BY <2>1 DEF Cycles
  <2>3. Cycles(h + 1, page) = Cycles(h, page) + IF page = r THEN 1 ELSE 0
    <3> HIDE DEF n, q, r
    <3> QED
      BY <1>1, <1>2, <1>4, <1>6, <2>2
  <2> QED
    BY <1>1, <1>2, <1>3, <1>4, <2>3 DEF Pages
<1> QED
  <2> HIDE DEF n, q, r
  <2>1. r + 1 < n \/ r + 1 = n
    BY <1>1, <1>2
  <2> QED
    BY <1>5, <1>6, <2>1

(* A head that has not used the lifetime of its page may leave it. *)
LEMMA CyclesBounded ==
  ASSUME NEW h \in Nat, NEW e \in Nat
  PROVE  /\ h \div NumPages < e => h + 1 <= e * NumPages
         /\ h <= e * NumPages => \A page \in Pages : Cycles(h, page) <= e
<1> DEFINE n == NumPages
           q == h \div n
           r == h % n
<1>1. n \in Nat /\ n >= 3
  BY Sizes
<1>2. q \in Int /\ r \in 0 .. n - 1 /\ h = q * n + r
  <2> HIDE DEF n
  <2> QED
    BY <1>1, Division
<1>3. \A page \in Pages : Cycles(h, page) = q + IF page < r THEN 1 ELSE 0
  BY DEF Cycles
<1>4. \A page \in Pages : page \in Nat
  BY <1>1 DEF Pages
<1> HIDE DEF n, q, r
<1>5. e * n \in Int /\ q * n \in Int
  BY <1>1, <1>2, SMT
<1>6. q < e => q * n + n <= e * n
  <2>1. q < e => (q + 1) * n <= e * n
    BY <1>1, <1>2, SMT
  <2>2. (q + 1) * n = q * n + n
    BY <1>1, <1>2, SMT
  <2> QED
    BY <2>1, <2>2
<1>7. q < e => h + 1 <= e * n
  BY <1>1, <1>2, <1>5, <1>6
<1>8. q > e => q * n >= e * n + n
  <2>1. q > e => q * n >= (e + 1) * n
    BY <1>1, <1>2, SMT
  <2>2. (e + 1) * n = e * n + n
    BY <1>1, SMT
  <2> QED
    BY <2>1, <2>2
<1>9. h <= e * n => q <= e /\ (q = e => r = 0)
  BY <1>1, <1>2, <1>5, <1>8
<1>10. h <= e * n => \A page \in Pages : Cycles(h, page) <= e
  BY <1>2, <1>3, <1>4, <1>9
<1> QED
  BY <1>7, <1>10 DEF n, q

LEMMA LifetimeInvStep == SpaceInv /\ LifetimeInv /\ [Next]_vars => LifetimeInv'
<1> SUFFICES ASSUME SpaceInv, LifetimeInv, [Next]_vars PROVE LifetimeInv'
  OBVIOUS
<1>1. CASE Compact
  <2> DEFINE h == head_pos \div virt_page_size
  <2>1. PICK new \in next_heads : CompactTo(new)
    BY <1>1 DEF Compact
  <2>2. head_pos' = new /\ new \div virt_page_size = h + 1
    BY <2>1, CompactSpace DEF SpaceInv
  <2>3. head_pos \in Nat /\ h \in Nat
    BY InPage DEF SpaceInv, SpaceType
  <2>4. (head_pos \div virt_page_size)' = h + 1
    BY <2>2
  <2>5. h + 1 <= MaxPageErases * NumPages
    <3>1. h \div NumPages < MaxPageErases /\ MaxPageErases \in Nat
      BY <1>1, Sizes DEF Compact, CycleOf
    <3> HIDE DEF h
    <3> QED
      BY <2>3, <3>1, CyclesBounded
  <2>6. erases' = [erases EXCEPT ![h % NumPages] = @ + 1]
    BY <2>1 DEF CompactTo, PageOf
  <2> HIDE DEF h
  <2>7. erases \in [Pages -> Nat] /\ \A page \in Pages : erases[page] = Cycles(h, page)
    BY DEF LifetimeInv, h
  <2>8. erases' \in [Pages -> Nat]
    <3> DEFINE g == h % NumPages
    <3>1. erases' = [erases EXCEPT ![g] = erases[g] + 1]
      BY <2>6
    <3>2. 0 \in Pages
      BY Sizes DEF Pages
    <3>3. g \in Pages
      BY <2>3, <3>2, CyclesStep
    <3> HIDE DEF g
    <3> QED
      BY <2>7, <3>1, <3>3
  <2>9. ASSUME NEW page \in Pages PROVE erases'[page] = Cycles(h + 1, page)
    <3>1. /\ h % NumPages \in Pages
          /\ Cycles(h + 1, page) = Cycles(h, page) + IF page = h % NumPages THEN 1 ELSE 0
          /\ Cycles(h, page) \in Nat
      BY <2>3, <2>9, CyclesStep
    <3>2. erases'[page] = erases[page] + IF page = h % NumPages THEN 1 ELSE 0
      BY <2>6, <2>7, <2>9, <3>1
    <3> QED
      BY <2>7, <2>9, <3>1, <3>2
  <2> QED
    BY <2>4, <2>5, <2>8, <2>9 DEF LifetimeInv
<1>2. CASE Write \/ Delete \/ UNCHANGED vars
  BY <1>2 DEF Write, Delete, vars, LifetimeInv
<1> QED
  BY <1>1, <1>2 DEF Next

LEMMA LifetimeInvInit == Init => LifetimeInv
<1> SUFFICES ASSUME Init PROVE LifetimeInv
  OBVIOUS
<1>1. head_pos = 0 /\ erases = [page \in Pages |-> 0]
  BY DEF Init
<1>2. /\ NumPages \in Nat /\ NumPages >= 3 /\ virt_page_size \in Nat /\ virt_page_size >= 6
      /\ MaxPageErases \in Nat
  BY Sizes
<1>3. 0 \div virt_page_size = 0
  <2> DEFINE v == virt_page_size
  <2>1. v \in Nat /\ v > 0
    BY <1>2
  <2> HIDE DEF v
  <2>2. 0 = 0 * v + 0 /\ 0 \in 0 .. v - 1
    BY <2>1
  <2>3. 0 \div v = 0
    BY <2>1, <2>2, DivisionUnique
  <2> QED
    BY <2>3 DEF v
<1>4. 0 \div NumPages = 0 /\ 0 % NumPages = 0
  <2>1. 0 = 0 * NumPages + 0 /\ 0 \in 0 .. NumPages - 1
    BY <1>2
  <2> QED
    BY <1>2, <2>1, DivisionUnique
<1>5. MaxPageErases * NumPages \in Nat
  BY <1>2, SMT
<1>6. \A page \in Pages : Cycles(0, page) = 0
  BY <1>2, <1>4 DEF Cycles, Pages
<1> QED
  BY <1>1, <1>3, <1>5, <1>6 DEF LifetimeInv

(* The head counts the erasures, and the lifetime suffices for the log. *)
THEOREM LifetimeIsCounted == Spec => []LifetimeCounted
<1>1. ASSUME SpaceInv, LifetimeInv PROVE LifetimeCounted
  <2> DEFINE h == head_pos \div virt_page_size
             e == MaxPageErases
             n == NumPages
             v == virt_page_size
  <2>1. head_pos \in Nat /\ tail_pos \in Nat /\ h \in Nat /\ page_begin(head_pos) = h * v
    BY <1>1, InPage DEF SpaceInv, SpaceType
  <2>2. n \in Nat /\ n >= 3 /\ v \in Nat /\ v >= 6 /\ e \in Nat
    BY Sizes
  <2>3. h <= e * n /\ \A page \in Pages : erases[page] = Cycles(h, page)
    BY <1>1 DEF LifetimeInv
  <2>4. \A page \in Pages : Cycles(h, page) <= e
    <3> HIDE DEF h
    <3> QED
      BY <2>1, <2>2, <2>3, CyclesBounded
  <2>5. \A page \in Pages :
          Cycles(h, page) = CycleOf(head_pos) + IF page < PageOf(head_pos) THEN 1 ELSE 0
    BY DEF Cycles, CycleOf, PageOf
  <2>6. tail_pos < h * v + (n - 1) * v
    BY <1>1, <2>1, LogEnds
  <2>7. total_lifetime = (e * n + (n - 1)) * v + 0
    BY DEF total_lifetime, Position
  <2>8. tail_pos <= total_lifetime
    <3> HIDE DEF h, e, n, v
    <3>1. e * n \in Int
      BY <2>2, SMT
    <3> DEFINE f == e * n
    <3>2. f \in Int /\ h <= f /\ total_lifetime = (f + (n - 1)) * v + 0
      BY <2>3, <2>7, <3>1
    <3> HIDE DEF f
    <3>3. h * v <= f * v /\ h * v \in Int /\ f * v \in Int /\ (n - 1) * v \in Int
      BY <2>1, <2>2, <3>2, SMT
    <3>4. (f + (n - 1)) * v = f * v + (n - 1) * v
      BY <2>2, <3>2, SMT
    <3> QED
      BY <2>1, <2>6, <3>2, <3>3, <3>4
  <2> QED
    BY <2>3, <2>4, <2>5, <2>8 DEF LifetimeCounted
<1>2. Spec => []LifetimeInv
  BY LifetimeInvInit, LifetimeInvStep, SpaceInvariant, PTL DEF Spec
<1> QED
  BY <1>1, <1>2, SpaceInvariant, PTL

-----------------------------------------------------------------------------
(* The loops that compact until there is room. *)

(* As many compactions ago as rounds, mark was the end of the log.  Nothing *)
(* was removed since, so that what remains is live or an erase entry.      *)
RoundsInv ==
  /\ rounds \in 0 .. NumPages - 1
  /\ \E mark \in Nat : Marked(rounds, mark) /\ Remaining(mark) <= Cardinality(live) + rounds

(* A loop starts with the log as it is. *)
LEMMA RoundsStart ==
  SpaceInv => Marked(0, tail_pos) /\ Remaining(tail_pos) <= Cardinality(live) + 0
<1> SUFFICES ASSUME SpaceInv
             PROVE  Marked(0, tail_pos) /\ Remaining(tail_pos) <= Cardinality(live) + 0
  OBVIOUS
<1>1. SpaceType /\ head_pos \in Nat /\ tail_pos \in Nat /\ head_pos <= tail_pos
  BY DEF SpaceInv, SpaceType
<1>2. Marked(0, tail_pos)
  <2> DEFINE x == (NumPages - 1) * virt_page_size
             b == page_begin(head_pos)
  <2>1. tail_pos < b + x
    BY LogEnds
  <2>2. x \in Nat /\ b \in Nat
    BY <1>1, Reserved, InPage
  <2>3. (NumPages - 1) - 0 = NumPages - 1
    BY Sizes
  <2>4. tail_pos <= b + x
    <3> HIDE DEF b, x
    <3> QED
      BY <1>1, <2>1, <2>2
  <2> QED
    BY <1>1, <2>3, <2>4 DEF Marked
<1>3. Used(tail_pos) = Cardinality(live) /\ Cardinality(live) \in Nat
  BY <1>1, UsedBounds, LiveFinite
<1>4. Remaining(tail_pos) = (tail_pos - tail_pos) + Used(tail_pos)
  BY <1>1 DEF Remaining
<1>5. Remaining(tail_pos) <= Cardinality(live) + 0
  BY <1>1, <1>3, <1>4
<1> QED
  BY <1>2, <1>5

Started == rounds = 0 /\ SpaceInv

LEMMA StartedRounds == Started => RoundsInv
<1> SUFFICES ASSUME Started PROVE RoundsInv
  OBVIOUS
<1>1. rounds = 0 /\ tail_pos \in Nat
  BY DEF Started, SpaceInv, SpaceType
<1>2. 0 \in 0 .. NumPages - 1
  BY Sizes
<1>3. Marked(0, tail_pos) /\ Remaining(tail_pos) <= Cardinality(live) + 0
  BY RoundsStart DEF Started
<1> QED
  BY <1>1, <1>2, <1>3 DEF RoundsInv

(* After N - 1 compactions there is room for the largest request. *)
LEMMA RoomAfterRounds ==
  ASSUME SpaceInv, RoundsInv, compact_needed
  PROVE  rounds < NumPages - 1
<1> SUFFICES ASSUME rounds = NumPages - 1 PROVE FALSE
  <2>1. NumPages \in Nat /\ rounds \in 0 .. NumPages - 1
    BY Sizes DEF RoundsInv
  <2> QED
    BY <2>1
<1> DEFINE z == Cardinality(live)
           c == total_capacity
           s == virt_size
           n == NumPages
<1>1. head_pos \in Nat /\ tail_pos \in Nat /\ head_pos <= tail_pos /\ SpaceType /\ z <= c
  BY DEF SpaceInv, SpaceType
<1>2. n \in Nat /\ n >= 3 /\ s \in Nat /\ c = s - n /\ c \in Nat /\ virt_page_size \in Nat
  BY Sizes
<1>3. z \in Nat
  BY <1>1, LiveFinite
<1>4. PICK mark \in Nat : Marked(n - 1, mark) /\ Remaining(mark) <= z + (n - 1)
  BY DEF RoundsInv
<1>5. mark <= head_pos
  <2>1. mark <= page_begin(head_pos) + ((n - 1) - (n - 1)) * virt_page_size
    BY <1>4 DEF Marked
  <2>2. (n - 1) - (n - 1) = 0 /\ 0 * virt_page_size = 0
    <3> HIDE DEF n
    <3> QED
      BY <1>2
  <2>3. /\ page_begin(head_pos) \in Nat /\ WordOf(head_pos) \in Nat
        /\ head_pos = page_begin(head_pos) + WordOf(head_pos)
    BY <1>1, InPage
  <2> HIDE DEF page_begin, WordOf, n
  <2> QED
    BY <2>1, <2>2, <2>3
<1>6. Used(mark) = 0
  BY <1>1, <1>5, UsedBounds
<1>7. Remaining(mark) = tail_pos - head_pos
  <2>1. Remaining(mark) = (tail_pos - head_pos) + Used(mark)
    BY <1>1, <1>5 DEF Remaining
  <2> QED
    BY <1>1, <1>6, <2>1
<1>8. largest_request = IF 1 >= c - z THEN 1 ELSE c - z
  <2>1. c - z \in Int /\ 1 \in Int
    <3> HIDE DEF c, z
    <3> QED
      BY <1>2, <1>3
  <2> QED
    BY <2>1, MaxOfTwo DEF largest_request
<1>9. head_pos + s < tail_pos + largest_request
  BY DEF compact_needed
<1>10. tail_pos - head_pos <= z + (n - 1)
  BY <1>4, <1>7
<1> HIDE DEF z, c, s, n
<1> QED
  BY <1>1, <1>2, <1>3, <1>8, <1>9, <1>10

LEMMA RoundsInvStep == SpaceInv /\ SpaceInv' /\ RoundsInv /\ [RoundsNext]_allVars => RoundsInv'
<1> SUFFICES ASSUME SpaceInv, SpaceInv', RoundsInv, [RoundsNext]_allVars PROVE RoundsInv'
  OBVIOUS
<1>1. CASE rounds' = 0
  <2>1. Started'
    BY <1>1 DEF Started
  <2> QED
    BY <2>1, StartedRounds, PTL
<1>2. CASE Compact /\ rounds' = rounds + 1
  <2>1. PICK new \in next_heads : CompactTo(new)
    BY <1>2 DEF Compact
  <2>2. PICK mark \in Nat : Marked(rounds, mark) /\ Remaining(mark) <= Cardinality(live) + rounds
    BY DEF RoundsInv
  <2>3. rounds < NumPages - 1
    BY <1>2, RoomAfterRounds DEF Compact
  <2>4. NumPages \in Nat /\ rounds \in Nat
    BY Sizes DEF RoundsInv
  <2>5. rounds' \in 0 .. NumPages - 1
    BY <1>2, <2>3, <2>4
  <2>6. SpaceType
    BY DEF SpaceInv
  <2>7. Cardinality(live) \in Nat /\ Cardinality(live') = Cardinality(live)
    BY <2>1, <2>6, LiveFinite, CompactSpace
  <2>8. Marked(rounds, mark)'
    <3>1. \A k \in Nat : Marked(k, mark) => Marked(k + 1, mark)'
      BY <2>1, <2>6, MarkedStep
    <3>2. /\ mark <= tail_pos'
          /\ mark <= page_begin(head_pos)' + ((NumPages - 1) - (rounds + 1)) * virt_page_size
      BY <2>2, <2>4, <3>1 DEF Marked
    <3> QED
      BY <1>2, <3>2 DEF Marked
  <2>9. Remaining(mark)' <= Cardinality(live') + rounds'
    <3> DEFINE room == Cardinality(live) + rounds
    <3>1. room \in Nat /\ Cardinality(live) <= room
      BY <2>4, <2>7
    <3>2. Remaining(mark) <= room /\ mark <= tail_pos
      BY <2>2 DEF Marked
    <3> HIDE DEF room
    <3>3. Remaining(mark)' <= room + 1
      BY <2>1, <2>6, <3>1, <3>2, RemainingStep
    <3>4. room + 1 = Cardinality(live') + rounds'
      BY <1>2, <2>4, <2>7 DEF room
    <3> QED
      BY <3>3, <3>4
  <2> QED
    BY <2>5, <2>8, <2>9 DEF RoundsInv
<1>3. CASE UNCHANGED allVars
  BY <1>3 DEF allVars, vars, RoundsInv, Marked, Remaining, Used, page_begin
<1> QED
  BY <1>1, <1>2, <1>3 DEF RoundsNext

(* The history variable does not restrict the behaviours of the log. *)
LEMMA RoundsImplementSpace == RoundsSpec => Spec
<1>1. RoundsInit => Init
  BY DEF RoundsInit
<1>2. [RoundsNext]_allVars => [Next]_vars
  BY DEF RoundsNext, Next, allVars
<1> QED
  BY <1>1, <1>2, PTL DEF RoundsSpec, Spec

(* The loops of reserve and clear compact at most N - 1 pages. *)
THEOREM CompactionsSuffice == RoundsSpec => []RoundsBounded
<1>1. RoundsSpec => []SpaceInv
  BY RoundsImplementSpace, SpaceInvariant, PTL
<1>2. RoundsInit => RoundsInv
  <2>1. RoundsInit => Started
    BY SpaceInvInit DEF RoundsInit, Started
  <2> QED
    BY <2>1, StartedRounds
<1>3. RoundsInv => RoundsBounded
  BY Sizes DEF RoundsInv, RoundsBounded
<1> QED
  BY <1>1, <1>2, <1>3, RoundsInvStep, PTL DEF RoundsSpec

=============================================================================
