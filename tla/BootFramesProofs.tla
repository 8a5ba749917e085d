-------------------------- MODULE BootFramesProofs --------------------------
(***************************************************************************)
(* What the boot-time range allocator does with every memory map, page     *)
(* size and array size: no frame is lost or given out twice                *)
(* (FramesConserved), an allocation does not panic (AllocNeverPanics), a   *)
(* free merges (MergedAfterFree), answers fit the request (AnswersFit),    *)
(* and None means what the doc says while the ranges are merged and the    *)
(* array has room (NoneMeansNoMemoryWhenMerged).                           *)
(***************************************************************************)
EXTENDS BootFrames, WellFoundedInduction, FiniteSetTheorems, TLAPS

(***************************************************************************)
(* Induction over the natural numbers, and that a function defined by      *)
(* recursion over 0 .. N is what its definition says.                      *)
(***************************************************************************)
\* Every non-empty set of natural numbers has a least element.
LEMMA LeastNumber ==
  ASSUME NEW T, T \subseteq Nat, T # {}
  PROVE  \E n \in T : \A m \in T : n <= m
<1>. DEFINE Less == {ss \in Nat \X Nat : ss[1] < ss[2]}
<1>1. IsWellFoundedOn(Less, Nat)
  BY NatLessThanWellFounded DEF OpToRel
<1>2. \A m, n \in Nat : m < n => <<m, n>> \in Less
  OBVIOUS
<1>. HIDE DEF Less
<1>3. PICK x \in T : \A y \in T : ~(<<y, x>> \in Less)
  BY <1>1, WFMin
<1>4. \A y \in T : x <= y
  <2>. SUFFICES ASSUME NEW y \in T PROVE ~(y < x)
    OBVIOUS
  <2>1. y < x => <<y, x>> \in Less
    BY <1>2
  <2>. QED  BY <1>3, <2>1
<1>. QED  BY <1>4

\* Induction over the natural numbers.
LEMMA Induction ==
  ASSUME NEW S, 0 \in S, \A n \in Nat : n \in S => n + 1 \in S
  PROVE  Nat \subseteq S
<1>. SUFFICES ASSUME Nat \ S # {} PROVE FALSE
  OBVIOUS
<1>1. PICK n \in Nat \ S : \A m \in Nat \ S : n <= m
  BY LeastNumber
<1>2. n # 0 /\ n - 1 \in Nat /\ n - 1 \in S
  BY <1>1
<1>. QED  BY <1>1, <1>2

\* step gives the n-th value from the one before it.
Steps(step, X, N) == step \in [1 .. N -> [X -> X]]

Iterates(g, X, base, step, N) ==
  /\ g \in [0 .. N -> X]
  /\ g[0] = base
  /\ \A n \in 1 .. N : g[n] = step[n][g[n - 1]]

\* A recursive definition over 0 .. N has a solution.
LEMMA Iterate ==
  ASSUME NEW X, NEW base \in X, NEW step, NEW N \in Nat, Steps(step, X, N)
  PROVE  \E g : Iterates(g, X, base, step, N)
<1>. DEFINE S == {M \in Nat : M <= N => \E g : Iterates(g, X, base, step, M)}
<1>1. 0 \in S
  <2>1. Iterates([n \in 0 .. 0 |-> base], X, base, step, 0)
    BY DEF Iterates
  <2>. QED  BY <2>1
<1>2. ASSUME NEW M \in Nat, M \in S
      PROVE  M + 1 \in S
  <2>. SUFFICES ASSUME M + 1 <= N PROVE \E h : Iterates(h, X, base, step, M + 1)
    OBVIOUS
  <2>1. PICK g : Iterates(g, X, base, step, M)
    BY <1>2
  <2>. DEFINE h == [n \in 0 .. M + 1 |-> IF n <= M THEN g[n] ELSE step[n][g[M]]]
  <2>2. \A n \in 1 .. M + 1, x \in X : step[n][x] \in X
    BY DEF Steps
  <2>3. h \in [0 .. M + 1 -> X]
    BY <2>1, <2>2 DEF Iterates
  <2>4. h[0] = base
    BY <2>1 DEF Iterates
  <2>5. ASSUME NEW n \in 1 .. M + 1
        PROVE  h[n] = step[n][h[n - 1]]
    <3>1. CASE n \in 1 .. M
      BY <2>1, <3>1 DEF Iterates
    <3>2. CASE n = M + 1
      BY <2>1, <3>2 DEF Iterates
    <3>. QED  BY <3>1, <3>2
  <2>. HIDE DEF h
  <2>6. Iterates(h, X, base, step, M + 1)
    BY <2>3, <2>4, <2>5 DEF Iterates
  <2>. QED  BY <2>6
<1>. HIDE DEF S
<1>3. N \in S
  BY <1>1, <1>2, Induction
<1>. QED  BY <1>3 DEF S

-----------------------------------------------------------------------------
(* Multiples.                                                              *)

\* Division with remainder.
LEMMA DivMod ==
  ASSUME NEW d \in Nat \ {0}, NEW x \in Nat
  PROVE  /\ x \div d \in Nat /\ x % d \in 0 .. d - 1
         /\ x = (x \div d) * d + (x % d)
OBVIOUS

\* A multiple leaves no remainder.
LEMMA MultipleMod ==
  ASSUME NEW d \in Nat \ {0}, NEW q \in Nat
  PROVE  q * d \in Nat /\ (q * d) % d = 0
OBVIOUS

\* A number that leaves no remainder is a multiple.
LEMMA QuotientOf ==
  ASSUME NEW d \in Nat \ {0}, NEW x \in Nat, x % d = 0
  PROVE  \E q \in Nat : x = q * d
<1>1. x \div d \in Nat /\ x = (x \div d) * d + (x % d)
  BY DivMod
<1>. DEFINE q == x \div d
<1>2. q \in Nat /\ x = q * d + 0
  BY <1>1
<1>. HIDE DEF q
<1>. QED  BY <1>2

\* Two multiples less than a step apart are in the order of their factors.
LEMMA MultipleOrder ==
  ASSUME NEW d \in Nat \ {0}, NEW a \in Nat, NEW b \in Nat, a * d < b * d + d
  PROVE  a <= b
<1>. SUFFICES ASSUME b + 1 <= a PROVE FALSE
  OBVIOUS
<1>1. (b + 1) * d <= a * d
  OBVIOUS
<1>2. (b + 1) * d = b * d + d
  OBVIOUS
<1>. QED  BY <1>1, <1>2

\* A larger factor gives a larger multiple.
LEMMA MultipleMonotone ==
  ASSUME NEW d \in Nat \ {0}, NEW a \in Nat, NEW b \in Nat, a <= b
  PROVE  a * d <= b * d
OBVIOUS

\* Between a multiple and the next there is no third.
LEMMA NextMultiple ==
  ASSUME NEW d \in Nat \ {0}, NEW x \in Nat, NEW y \in Nat, x % d = 0, y % d = 0,
         x < y + d
  PROVE  x <= y
<1>1. PICK a \in Nat : x = a * d
  BY QuotientOf
<1>2. PICK b \in Nat : y = b * d
  BY QuotientOf
<1>3. a <= b
  BY <1>1, <1>2, MultipleOrder
<1>. QED  BY <1>1, <1>2, <1>3, MultipleMonotone

\* A sum of multiples is a multiple.
LEMMA SumOfMultiples ==
  ASSUME NEW d \in Nat \ {0}, NEW x \in Nat, NEW y \in Nat, x % d = 0, y % d = 0
  PROVE  (x + y) % d = 0
<1>1. PICK a \in Nat : x = a * d
  BY QuotientOf
<1>2. PICK b \in Nat : y = b * d
  BY QuotientOf
<1>3. x + y = (a + b) * d
  BY <1>1, <1>2
<1>4. a + b \in Nat
  OBVIOUS
<1>. QED  BY <1>3, <1>4, MultipleMod

\* Two multiples differ by a multiple.
LEMMA DifferenceOfMultiples ==
  ASSUME NEW d \in Nat \ {0}, NEW x \in Nat, NEW y \in Nat, x % d = 0, y % d = 0,
         y <= x
  PROVE  \E n \in Nat : x = y + n * d
<1>1. PICK a \in Nat : x = a * d
  BY QuotientOf
<1>2. PICK b \in Nat : y = b * d
  BY QuotientOf
<1>3. b <= a
  <2>1. b * d < a * d + d
    BY <1>1, <1>2
  <2>. QED  BY <2>1, MultipleOrder
<1>4. x = y + (a - b) * d /\ a - b \in Nat
  BY <1>1, <1>2, <1>3
<1>. QED  BY <1>4

\* A multiple of the alignment is one of the page size.
LEMMA MultipleOfMultiple ==
  ASSUME NEW d \in Nat \ {0}, NEW e \in Nat \ {0}, e % d = 0, NEW x \in Nat, x % e = 0
  PROVE  x % d = 0
<1>1. PICK a \in Nat : x = a * e
  BY QuotientOf
<1>2. PICK b \in Nat : e = b * d
  BY QuotientOf
<1>3. x = (a * b) * d /\ a * b \in Nat
  BY <1>1, <1>2
<1>. QED  BY <1>3, MultipleMod

\* AlignDown and AlignUp give the nearest multiple below and above.
LEMMA AlignDownRounds ==
  ASSUME NEW d \in Nat \ {0}, NEW x \in Nat
  PROVE  /\ AlignDown(x, d) \in Nat /\ AlignDown(x, d) % d = 0
         /\ AlignDown(x, d) <= x /\ x < AlignDown(x, d) + d
<1>. DEFINE q == x \div d  m == x % d
<1>1. q \in Nat /\ m \in 0 .. d - 1 /\ x = q * d + m
  BY DivMod
<1>2. AlignDown(x, d) = q * d
  BY DEF AlignDown
<1>. HIDE DEF q, m
<1>3. q * d \in Nat /\ (q * d) % d = 0
  BY <1>1, MultipleMod
<1>. QED  BY <1>1, <1>2, <1>3

\* AlignUp is the least multiple of the alignment that is not below the address.
LEMMA AlignUpRounds ==
  ASSUME NEW d \in Nat \ {0}, NEW x \in Nat
  PROVE  /\ AlignUp(x, d) \in Nat /\ AlignUp(x, d) % d = 0
         /\ x <= AlignUp(x, d)
         /\ \A y \in Nat : y % d = 0 /\ x <= y => AlignUp(x, d) <= y
<1>. DEFINE u == AlignUp(x, d)
<1>1. x + d - 1 \in Nat
  OBVIOUS
<1>2. u \in Nat /\ u % d = 0 /\ u <= x + d - 1 /\ x + d - 1 < u + d
  BY <1>1, AlignDownRounds DEF AlignUp
<1>. HIDE DEF u
<1>3. ASSUME NEW y \in Nat, y % d = 0, x <= y
      PROVE  u <= y
  <2>1. u < y + d
    BY <1>2, <1>3
  <2>. QED  BY <1>2, <1>3, <2>1, NextMultiple
<1>4. x <= u
  BY <1>2
<1>5. u \in Nat /\ u % d = 0 /\ x <= u /\ \A y \in Nat : y % d = 0 /\ x <= y => u <= y
  BY <1>2, <1>3, <1>4
<1>. QED  BY <1>5 DEF u
-----------------------------------------------------------------------------
(* The frames of a range.                                                  *)

AlignedRange ==
  {r \in [start : Nat, end : Nat] :
     r.start < r.end /\ r.start % PAGE_SIZE = 0 /\ r.end % PAGE_SIZE = 0}

Frame == {a \in Nat : a % PAGE_SIZE = 0}

\* The frames of an aligned range are the ones between its ends.
LEMMA FramesBetween ==
  ASSUME NEW r \in AlignedRange
  PROVE  FramesOf(r) = {a \in Frame : r.start <= a /\ a < r.end}
<1>. DEFINE P == PAGE_SIZE  s == r.start  e == r.end  m == (e - s - 1) \div P
<1>1. P \in Nat \ {0} /\ s \in Nat /\ e \in Nat /\ s < e /\ s % P = 0 /\ e % P = 0
  BY SizesAssumption DEF AlignedRange
<1>2. e - s - 1 \in Nat
  BY <1>1
<1>. DEFINE q == (e - s - 1) % P
<1>3. m \in Nat /\ q \in 0 .. P - 1 /\ e - s - 1 = m * P + q
  BY <1>1, <1>2, DivMod
<1>4. FramesOf(r) = {s + n * P : n \in 0 .. m}
  BY DEF FramesOf
<1>. HIDE DEF P, s, e, m, q
<1>5. ASSUME NEW n \in 0 .. m
      PROVE  /\ s + n * P \in Nat /\ (s + n * P) % P = 0
             /\ s <= s + n * P /\ s + n * P < e
  <2>1. n \in Nat /\ n <= m
    BY <1>3
  <2>2. n * P \in Nat /\ (n * P) % P = 0
    BY <1>1, <2>1, MultipleMod
  <2>3. n * P <= m * P
    BY <1>1, <1>3, <2>1, MultipleMonotone
  <2>4. (s + n * P) % P = 0
    BY <1>1, <2>2, SumOfMultiples
  <2>5. m * P \in Nat
    BY <1>1, <1>3, MultipleMod
  <2>. QED  BY ONLY <1>1, <1>3, <2>2, <2>3, <2>4, <2>5
<1>6. ASSUME NEW a \in Nat, a % P = 0, s <= a, a < e
      PROVE  \E n \in 0 .. m : a = s + n * P
  <2>1. PICK n \in Nat : a = s + n * P
    BY <1>1, <1>6, DifferenceOfMultiples
  <2>2. n * P \in Nat /\ m * P \in Nat
    BY <1>1, <1>3, MultipleMod
  <2>3. n * P < m * P + P
    BY ONLY <1>1, <1>3, <1>6, <2>1, <2>2
  <2>4. n <= m
    BY <1>1, <1>3, <2>3, MultipleOrder
  <2>5. n \in 0 .. m
    BY <1>3, <2>4
  <2>. QED  BY <2>1, <2>5
<1>7. \A a : a \in {s + n * P : n \in 0 .. m} <=> a \in {x \in Nat : x % P = 0 /\ s <= x /\ x < e}
  BY <1>5, <1>6
<1>8. {s + n * P : n \in 0 .. m} = {x \in Nat : x % P = 0 /\ s <= x /\ x < e}
  BY <1>7
<1>. QED  BY <1>4, <1>8 DEF Frame, P, s, e

\* A range of whole frames has as many frames as its bytes say.
LEMMA FramesCount ==
  ASSUME NEW r \in AlignedRange
  PROVE  /\ IsFiniteSet(FramesOf(r)) /\ Cardinality(FramesOf(r)) \in Nat
         /\ PAGE_SIZE * Cardinality(FramesOf(r)) = r.end - r.start
<1>. DEFINE P == PAGE_SIZE  s == r.start  e == r.end  m == (e - s - 1) \div P
<1>1. P \in Nat \ {0} /\ s \in Nat /\ e \in Nat /\ s < e /\ s % P = 0 /\ e % P = 0
  BY SizesAssumption DEF AlignedRange
<1>2. e - s - 1 \in Nat
  BY <1>1
<1>. DEFINE q == (e - s - 1) % P
<1>3. m \in Nat /\ q \in 0 .. P - 1 /\ e - s - 1 = m * P + q
  BY <1>1, <1>2, DivMod
<1>4. FramesOf(r) = {s + n * P : n \in 0 .. m}
  BY DEF FramesOf
<1>. HIDE DEF P, s, e, m, q
<1>. DEFINE f == [n \in 0 .. m |-> s + n * P]
            T == {s + n * P : n \in 0 .. m}
<1>5. f \in Bijection(0 .. m, T)
  <2>1. f \in Surjection(0 .. m, T)
    BY DEF Surjection
  <2>2. ASSUME NEW a \in 0 .. m, NEW b \in 0 .. m, f[a] = f[b]
        PROVE  a = b
    <3>1. a \in Nat /\ b \in Nat /\ a * P \in Nat /\ b * P \in Nat
      BY <1>1, <1>3
    <3>2. a * P = b * P
      BY <1>1, <2>2, <3>1
    <3>3. a * P < b * P + P /\ b * P < a * P + P
      BY <1>1, <3>1, <3>2
    <3>4. a <= b /\ b <= a
      BY <1>1, <3>1, <3>3, MultipleOrder
    <3>. QED  BY <3>1, <3>4
  <2>. QED  BY <2>1, <2>2 DEF Bijection, Injection, Surjection, IsInjective
<1>. HIDE DEF f, T
<1>6. IsFiniteSet(0 .. m) /\ Cardinality(0 .. m) = m + 1
  BY <1>3, FS_Interval
<1>7. IsFiniteSet(T) /\ Cardinality(T) = m + 1
  BY <1>5, <1>6, FS_Bijection DEF ExistsBijection
<1>8. P * (m + 1) = e - s
  <2>. DEFINE k == (m + 1) * P
  <2>1. k \in Nat /\ k % P = 0 /\ k = m * P + P /\ m * P \in Nat
    BY <1>1, <1>3, MultipleMod
  <2>2. s + k \in Nat /\ (s + k) % P = 0
    BY <1>1, <2>1, SumOfMultiples
  <2>. HIDE DEF k
  <2>3. s + k < e + P /\ e <= s + k
    BY ONLY <1>1, <1>3, <2>1
  <2>4. s + k <= e
    BY <1>1, <2>2, <2>3, NextMultiple
  <2>5. k = e - s
    BY ONLY <1>1, <2>1, <2>3, <2>4
  <2>6. P * (m + 1) = k
    BY <1>1, <1>3 DEF k
  <2>. QED  BY <2>5, <2>6
<1>. QED  BY <1>3, <1>4, <1>7, <1>8 DEF P, s, e, T
-----------------------------------------------------------------------------
(* Ranges in order.                                                        *)

LEMMA MinOf ==
  ASSUME NEW S, S \subseteq Nat, S # {}
  PROVE  Min(S) \in S /\ \A x \in S : Min(S) <= x
<1>1. PICK n \in S : \A m \in S : n <= m
  BY LeastNumber
<1>. QED  BY <1>1 DEF Min

LEMMA FunctionIsSeq ==
  ASSUME NEW S, NEW n \in Nat, NEW f \in [1 .. n -> S]
  PROVE  f \in Seq(S) /\ Len(f) = n /\ DOMAIN f = 1 .. n
OBVIOUS

LEMMA SeqIsFunction ==
  ASSUME NEW S, NEW s \in Seq(S)
  PROVE  /\ Len(s) \in Nat /\ DOMAIN s = 1 .. Len(s) /\ s \in [1 .. Len(s) -> S]
         /\ \A i \in 1 .. Len(s) : s[i] \in S
OBVIOUS

\* An element of a sequence has an index.
LEMMA InRange ==
  ASSUME NEW s, NEW i \in DOMAIN s
  PROVE  s[i] \in Range(s)
BY DEF Range

Apart(r, q) == r.end <= q.start \/ q.end <= r.start

\* Aligned ranges, in order and apart.
Ordered(s) ==
  /\ s \in Seq(AlignedRange)
  /\ \A i, j \in DOMAIN s : i < j => s[i].end <= s[j].start

LEMMA RangeFields ==
  ASSUME NEW r \in AlignedRange
  PROVE  r.start \in Nat /\ r.end \in Nat /\ r.start < r.end
BY DEF AlignedRange

\* insert_range_sorted puts a range that is apart from the others in its place.
LEMMA InsertSorted ==
  ASSUME NEW s, Ordered(s), NEW r \in AlignedRange, \A i \in DOMAIN s : Apart(r, s[i])
  PROVE  /\ Ordered(insert_range_sorted(s, r))
         /\ Len(insert_range_sorted(s, r)) = Len(s) + 1
         /\ Range(insert_range_sorted(s, r)) = Range(s) \union {r}
<1>. DEFINE n   == Len(s)
            S   == {i \in DOMAIN s : r.start < s[i].start} \union {n + 1}
            pos == Min(S)
            t   == [i \in 1 .. n + 1 |->
                      IF i < pos THEN s[i] ELSE IF i = pos THEN r ELSE s[i - 1]]
<1>1. /\ n \in Nat /\ DOMAIN s = 1 .. n
      /\ \A i \in 1 .. n : s[i] \in AlignedRange
  BY SeqIsFunction DEF Ordered
<1>2. \A i, j \in 1 .. n : i < j => s[i].end <= s[j].start
  BY <1>1 DEF Ordered
<1>3. r.start \in Nat /\ r.end \in Nat /\ r.start < r.end
  BY RangeFields
<1>4. \A i \in 1 .. n : s[i].start \in Nat /\ s[i].end \in Nat /\ s[i].start < s[i].end
  BY <1>1, RangeFields
<1>. HIDE DEF n
<1>5. S \subseteq Nat /\ S # {} /\ n + 1 \in S
  BY <1>1
<1>6. pos \in S /\ \A x \in S : pos <= x
  BY <1>5, MinOf
<1>. HIDE DEF pos
<1>7. pos \in 1 .. n + 1
  BY <1>1, <1>6
<1>8. \A i \in 1 .. n : i < pos => s[i].end <= r.start
  <2>. SUFFICES ASSUME NEW i \in 1 .. n, i < pos PROVE s[i].end <= r.start
    OBVIOUS
  <2>1. i \notin S
    BY <1>6, <1>7
  <2>2. ~(r.start < s[i].start)
    BY <1>1, <2>1
  <2>. QED  BY <1>1, <1>3, <1>4, <2>2 DEF Apart
<1>9. \A i \in 1 .. n : i >= pos => r.end <= s[i].start
  <2>. SUFFICES ASSUME NEW i \in 1 .. n, i >= pos PROVE r.end <= s[i].start
    OBVIOUS
  <2>1. pos \in 1 .. n /\ r.start < s[pos].start
    BY <1>1, <1>6, <1>7
  <2>2. s[pos].start <= s[i].start
    <3>1. CASE i = pos
      BY <1>4, <3>1
    <3>2. CASE pos < i
      BY <1>2, <1>4, <2>1, <3>2
    <3>. QED  BY <1>1, <2>1, <3>1, <3>2
  <2>3. r.start < s[i].start
    BY <1>3, <1>4, <2>1, <2>2
  <2>. QED  BY <1>1, <1>3, <1>4, <2>3 DEF Apart
<1>. HIDE DEF S
<1>10. t \in [1 .. n + 1 -> AlignedRange]
  BY <1>1, <1>7
<1>11. /\ \A i \in 1 .. n : i < pos => i \in 1 .. n + 1 /\ t[i] = s[i]
       /\ \A i \in 1 .. n : i >= pos => i + 1 \in 1 .. n + 1 /\ t[i + 1] = s[i]
       /\ t[pos] = r
       /\ \A i \in 1 .. n + 1 : i < pos => i \in 1 .. n /\ t[i] = s[i]
       /\ \A i \in 1 .. n + 1 : i > pos => i - 1 \in 1 .. n /\ i - 1 >= pos /\ t[i] = s[i - 1]
  BY <1>1, <1>7
<1>. HIDE DEF t
<1>12. t \in Seq(AlignedRange) /\ Len(t) = n + 1 /\ DOMAIN t = 1 .. n + 1
  BY <1>1, <1>10, FunctionIsSeq
<1>13. ASSUME NEW i \in 1 .. n + 1, NEW j \in 1 .. n + 1, i < j
       PROVE  t[i].end <= t[j].start
  <2>1. CASE j < pos
    BY <1>1, <1>2, <1>7, <1>11, <1>13, <2>1
  <2>2. CASE j = pos
    BY <1>1, <1>7, <1>8, <1>11, <1>13, <2>2
  <2>3. CASE j > pos /\ i < pos
    <3>1. t[i] = s[i] /\ i \in 1 .. n /\ t[j] = s[j - 1] /\ j - 1 \in 1 .. n /\ j - 1 >= pos
      BY <1>11, <2>3
    <3>. QED  BY <1>2, <1>7, <2>3, <3>1
  <2>4. CASE j > pos /\ i = pos
    BY <1>1, <1>7, <1>9, <1>11, <1>13, <2>4
  <2>5. CASE j > pos /\ i > pos
    BY <1>1, <1>2, <1>7, <1>11, <1>13, <2>5
  <2>. QED  BY <1>1, <1>7, <2>1, <2>2, <2>3, <2>4, <2>5
<1>14. Ordered(t)
  BY <1>12, <1>13 DEF Ordered
<1>15. Range(t) = Range(s) \union {r}
  <2>1. \A x \in Range(t) : x \in Range(s) \union {r}
    BY <1>1, <1>7, <1>11, <1>12 DEF Range
  <2>2. r \in Range(t)
    BY <1>7, <1>11, <1>12 DEF Range
  <2>3. \A x \in Range(s) : x \in Range(t)
    <3>. SUFFICES ASSUME NEW i \in 1 .. n PROVE s[i] \in Range(t)
      BY <1>1 DEF Range
    <3>1. CASE i < pos
      BY <1>11, <1>12, <3>1, InRange
    <3>2. CASE i >= pos
      BY <1>11, <1>12, <3>2, InRange
    <3>. QED  BY <1>7, <3>1, <3>2
  <2>. QED  BY <2>1, <2>2, <2>3
<1>16. insert_range_sorted(s, r) = t
  BY DEF insert_range_sorted, t, pos, S, n
<1>. QED  BY <1>12, <1>14, <1>15, <1>16 DEF n

\* remove_range takes out one range.
LEMMA RemoveSorted ==
  ASSUME NEW s, Ordered(s), NEW k \in DOMAIN s
  PROVE  /\ Ordered(remove_range(s, k))
         /\ Len(remove_range(s, k)) = Len(s) - 1
         /\ Range(remove_range(s, k)) = Range(s) \ {s[k]}
<1>. DEFINE n == Len(s)
            t == [i \in 1 .. n - 1 |-> IF i < k THEN s[i] ELSE s[i + 1]]
<1>1. /\ n \in Nat /\ DOMAIN s = 1 .. n /\ k \in 1 .. n
      /\ \A i \in 1 .. n : s[i] \in AlignedRange
  BY SeqIsFunction DEF Ordered
<1>2. \A i, j \in 1 .. n : i < j => s[i].end <= s[j].start
  BY <1>1 DEF Ordered
<1>4. \A i \in 1 .. n : s[i].start \in Nat /\ s[i].end \in Nat /\ s[i].start < s[i].end
  BY <1>1, RangeFields
<1>. HIDE DEF n
<1>5. n - 1 \in Nat /\ t \in [1 .. n - 1 -> AlignedRange]
  BY <1>1
<1>6. /\ \A i \in 1 .. n : i < k => i \in 1 .. n - 1 /\ t[i] = s[i]
      /\ \A i \in 1 .. n : i > k => i - 1 \in 1 .. n - 1 /\ t[i - 1] = s[i]
      /\ \A i \in 1 .. n - 1 : i < k => i \in 1 .. n /\ t[i] = s[i]
      /\ \A i \in 1 .. n - 1 : i >= k => i + 1 \in 1 .. n /\ i + 1 # k /\ t[i] = s[i + 1]
  BY <1>1
<1>. HIDE DEF t
<1>7. t \in Seq(AlignedRange) /\ Len(t) = n - 1 /\ DOMAIN t = 1 .. n - 1
  BY <1>5, FunctionIsSeq
<1>8. \A i, j \in 1 .. n - 1 : i < j => t[i].end <= t[j].start
  BY <1>1, <1>2, <1>6
<1>9. \A i \in 1 .. n : i # k => s[i] # s[k]
  <2>. SUFFICES ASSUME NEW i \in 1 .. n, i # k, s[i] = s[k] PROVE FALSE
    OBVIOUS
  <2>1. s[k].end <= s[k].start
    BY <1>1, <1>2
  <2>. QED  BY <1>1, <1>4, <2>1
<1>10. Range(t) = Range(s) \ {s[k]}
  <2>1. ASSUME NEW i \in 1 .. n - 1
        PROVE  t[i] \in Range(s) \ {s[k]}
    <3>1. PICK j \in 1 .. n : j # k /\ t[i] = s[j]
      BY <1>1, <1>6
    <3>. QED  BY <1>1, <1>9, <3>1, InRange
  <2>2. ASSUME NEW i \in 1 .. n, i # k
        PROVE  s[i] \in Range(t)
    <3>1. CASE i < k
      BY <1>6, <1>7, <3>1, InRange
    <3>2. CASE i > k
      BY <1>6, <1>7, <3>2, InRange
    <3>. QED  BY <1>1, <2>2, <3>1, <3>2
  <2>3. Range(t) = {t[i] : i \in 1 .. n - 1} /\ Range(s) = {s[i] : i \in 1 .. n}
    BY <1>1, <1>7 DEF Range
  <2>. QED  BY <1>1, <2>1, <2>2, <2>3
<1>11. remove_range(s, k) = t
  BY DEF remove_range, t, n
<1>. QED  BY <1>7, <1>8, <1>10, <1>11 DEF Ordered, n
-----------------------------------------------------------------------------
(* The loops: what the recursive definitions compute.                      *)

AnyRange == [start : Nat, end : Nat]

\* insert_range_sorted gives a sequence of ranges.
LEMMA InsertType ==
  ASSUME NEW s \in Seq(AnyRange), NEW r \in AnyRange
  PROVE  insert_range_sorted(s, r) \in Seq(AnyRange)
<1>. DEFINE n   == Len(s)
            S   == {i \in DOMAIN s : r.start < s[i].start} \union {n + 1}
            pos == Min(S)
            t   == [i \in 1 .. n + 1 |->
                      IF i < pos THEN s[i] ELSE IF i = pos THEN r ELSE s[i - 1]]
<1>1. n \in Nat /\ DOMAIN s = 1 .. n /\ \A i \in 1 .. n : s[i] \in AnyRange
  BY SeqIsFunction
<1>. HIDE DEF n
<1>2. S \subseteq Nat /\ S # {} /\ n + 1 \in S
  BY <1>1
<1>3. pos \in 1 .. n + 1
  <2>1. pos \in S /\ pos <= n + 1
    BY <1>2, MinOf
  <2>. QED  BY <1>1, <2>1
<1>. HIDE DEF pos
<1>4. n + 1 \in Nat /\ t \in [1 .. n + 1 -> AnyRange]
  BY <1>1, <1>3
<1>. HIDE DEF t
<1>5. t \in Seq(AnyRange)
  BY <1>4, FunctionIsSeq
<1>6. insert_range_sorted(s, r) = t
  BY DEF insert_range_sorted, t, pos, S, n
<1>. QED  BY <1>5, <1>6

LEMMA JoinType ==
  ASSUME NEW s \in Seq(AnyRange), NEW r \in AnyRange
  PROVE  Join(s, r) \in Seq(AnyRange)
<1>1. CASE s # <<>> /\ s[Len(s)].end = r.start
  <2>. DEFINE n == Len(s)  t == [s EXCEPT ![n].end = r.end]
  <2>1. n \in Nat /\ s \in [1 .. n -> AnyRange] /\ n \in 1 .. n
    BY <1>1
  <2>. HIDE DEF n
  <2>2. s[n] \in AnyRange /\ [s[n] EXCEPT !.end = r.end] \in AnyRange
    BY <2>1 DEF AnyRange
  <2>3. t \in [1 .. n -> AnyRange]
    BY <2>1, <2>2
  <2>. HIDE DEF t
  <2>4. t \in Seq(AnyRange)
    BY <2>1, <2>3, FunctionIsSeq
  <2>. QED  BY <1>1, <2>4 DEF Join, t, n
<1>2. CASE ~(s # <<>> /\ s[Len(s)].end = r.start)
  BY <1>2 DEF Join
<1>. QED  BY <1>1, <1>2

LEMMA AcceptType ==
  ASSUME NEW s \in Seq(AnyRange), NEW region \in MemoryRegion
  PROVE  Accept(s, region) \in Seq(AnyRange)
<1>. DEFINE r == PhysRange(AlignUp(region.start, PAGE_SIZE), AlignDown(region.end, PAGE_SIZE))
<1>1. region.start \in Nat /\ region.end \in Nat /\ PAGE_SIZE \in Nat \ {0}
  BY SizesAssumption DEF MemoryRegion
<1>2. AlignUp(region.start, PAGE_SIZE) \in Nat /\ AlignDown(region.end, PAGE_SIZE) \in Nat
  BY <1>1, AlignUpRounds, AlignDownRounds
<1>3. r \in AnyRange
  BY <1>2 DEF PhysRange, AnyRange
<1>. HIDE DEF r
<1>4. Append(s, r) \in Seq(AnyRange)
  BY <1>3
<1>. QED  BY <1>4 DEF Accept, r

Accepts(g, m) ==
  /\ g \in [0 .. Len(m) -> Seq(AnyRange)]
  /\ g[0] = <<>>
  /\ \A n \in 1 .. Len(m) : g[n] = Accept(g[n - 1], m[n])
  /\ UsableRanges(m) = g[Len(m)]

\* The loop over the memory map, step by step.
LEMMA AcceptsRun ==
  ASSUME NEW m \in Seq(MemoryRegion)
  PROVE  \E g : Accepts(g, m)
<1>. DEFINE N == Len(m)
            X == Seq(AnyRange)
            step == [n \in 1 .. N |-> [d \in X |-> Accept(d, m[n])]]
            body(g, n) == IF n = 0 THEN <<>> ELSE Accept(g[n - 1], m[n])
<1>1. N \in Nat /\ \A n \in 1 .. N : m[n] \in MemoryRegion
  BY SeqIsFunction
<1>2. <<>> \in X
  OBVIOUS
<1>3. \A n \in 1 .. N, d \in X : Accept(d, m[n]) \in X
  BY <1>1, AcceptType
<1>. HIDE DEF N, X
<1>4. Steps(step, X, N)
  BY <1>3 DEF Steps
<1>5. \A n \in 1 .. N, d \in X : step[n][d] = Accept(d, m[n])
  OBVIOUS
<1>. HIDE DEF step
<1>6. PICK h : Iterates(h, X, <<>>, step, N)
  BY ONLY <1>1, <1>2, <1>4, Iterate
<1>7. /\ h \in [0 .. N -> X] /\ h[0] = <<>>
      /\ \A n \in 1 .. N : n \in 0 .. N /\ n - 1 \in 0 .. N /\ h[n] = step[n][h[n - 1]]
  BY <1>1, <1>6 DEF Iterates
<1>8. ASSUME NEW n \in 0 .. N
      PROVE  h[n] = body(h, n)
  <2>1. CASE n = 0
    BY <1>7, <2>1
  <2>2. CASE n \in 1 .. N
    <3>1. n # 0 /\ h[n - 1] \in X
      BY <1>7, <2>2
    <3>2. h[n] = Accept(h[n - 1], m[n])
      BY <1>5, <1>7, <2>2, <3>1
    <3>. QED  BY <3>1, <3>2
  <2>. QED  BY <1>1, <2>1, <2>2
<1>9. h = [n \in 0 .. N |-> body(h, n)]
  BY <1>7, <1>8
<1>. DEFINE g == CHOOSE f : f = [n \in 0 .. N |-> body(f, n)]
<1>10. g = [n \in 0 .. N |-> body(g, n)]
  BY <1>9
<1>11. UsableRanges(m) = g[N]
  BY DEF UsableRanges, N
<1>. HIDE DEF g
<1>12. \A n \in 0 .. N : g[n] = body(g, n)
  BY <1>10
<1>13. \A n \in 0 .. N : g[n] = h[n]
  <2>. DEFINE S == {n \in Nat : n <= N => g[n] = h[n]}
  <2>1. 0 \in S
    BY <1>1, <1>8, <1>12
  <2>2. ASSUME NEW n \in Nat, n \in S
        PROVE  n + 1 \in S
    <3>. SUFFICES ASSUME n + 1 <= N PROVE g[n + 1] = h[n + 1]
      OBVIOUS
    <3>1. n + 1 \in 0 .. N /\ n + 1 # 0 /\ (n + 1) - 1 = n /\ g[n] = h[n]
      BY <1>1, <2>2
    <3>. QED  BY <1>8, <1>12, <3>1
  <2>. HIDE DEF S
  <2>3. Nat \subseteq S
    BY <2>1, <2>2, Induction
  <2>. QED  BY <1>1, <2>3 DEF S
<1>14. UsableRanges(m) = h[N]
  BY <1>1, <1>11, <1>13
<1>15. \A n \in 1 .. N : h[n] = Accept(h[n - 1], m[n])
  BY <1>7, <1>8
<1>16. Accepts(h, m)
  BY <1>7, <1>14, <1>15 DEF Accepts, X, N
<1>. QED  BY <1>16

Sorts(g, m) ==
  /\ g \in [0 .. Len(m) -> Seq(AnyRange)]
  /\ g[0] = <<>>
  /\ \A n \in 1 .. Len(m) : g[n] = insert_range_sorted(g[n - 1], m[n])
  /\ SortRanges(m) = g[Len(m)]

\* The insertion sort, step by step.
LEMMA SortsRun ==
  ASSUME NEW m \in Seq(AnyRange)
  PROVE  \E g : Sorts(g, m)
<1>. DEFINE N == Len(m)
            X == Seq(AnyRange)
            step == [n \in 1 .. N |-> [d \in X |-> insert_range_sorted(d, m[n])]]
            body(g, n) == IF n = 0 THEN <<>> ELSE insert_range_sorted(g[n - 1], m[n])
<1>1. N \in Nat /\ \A n \in 1 .. N : m[n] \in AnyRange
  BY SeqIsFunction
<1>2. <<>> \in X
  OBVIOUS
<1>3. \A n \in 1 .. N, d \in X : insert_range_sorted(d, m[n]) \in X
  BY <1>1, InsertType
<1>. HIDE DEF N, X
<1>4. Steps(step, X, N)
  BY <1>3 DEF Steps
<1>5. \A n \in 1 .. N, d \in X : step[n][d] = insert_range_sorted(d, m[n])
  OBVIOUS
<1>. HIDE DEF step
<1>6. PICK h : Iterates(h, X, <<>>, step, N)
  BY ONLY <1>1, <1>2, <1>4, Iterate
<1>7. /\ h \in [0 .. N -> X] /\ h[0] = <<>>
      /\ \A n \in 1 .. N : n \in 0 .. N /\ n - 1 \in 0 .. N /\ h[n] = step[n][h[n - 1]]
  BY <1>1, <1>6 DEF Iterates
<1>8. ASSUME NEW n \in 0 .. N
      PROVE  h[n] = body(h, n)
  <2>1. CASE n = 0
    BY <1>7, <2>1
  <2>2. CASE n \in 1 .. N
    <3>1. n # 0 /\ h[n - 1] \in X
      BY <1>7, <2>2
    <3>2. h[n] = insert_range_sorted(h[n - 1], m[n])
      BY <1>5, <1>7, <2>2, <3>1
    <3>. QED  BY <3>1, <3>2
  <2>. QED  BY <1>1, <2>1, <2>2
<1>9. h = [n \in 0 .. N |-> body(h, n)]
  BY <1>7, <1>8
<1>. DEFINE g == CHOOSE f : f = [n \in 0 .. N |-> body(f, n)]
<1>10. g = [n \in 0 .. N |-> body(g, n)]
  BY <1>9
<1>11. SortRanges(m) = g[N]
  BY DEF SortRanges, N
<1>. HIDE DEF g
<1>12. \A n \in 0 .. N : g[n] = body(g, n)
  BY <1>10
<1>13. \A n \in 0 .. N : g[n] = h[n]
  <2>. DEFINE S == {n \in Nat : n <= N => g[n] = h[n]}
  <2>1. 0 \in S
    BY <1>1, <1>8, <1>12
  <2>2. ASSUME NEW n \in Nat, n \in S
        PROVE  n + 1 \in S
    <3>. SUFFICES ASSUME n + 1 <= N PROVE g[n + 1] = h[n + 1]
      OBVIOUS
    <3>1. n + 1 \in 0 .. N /\ n + 1 # 0 /\ (n + 1) - 1 = n /\ g[n] = h[n]
      BY <1>1, <2>2
    <3>. QED  BY <1>8, <1>12, <3>1
  <2>. HIDE DEF S
  <2>3. Nat \subseteq S
    BY <2>1, <2>2, Induction
  <2>. QED  BY <1>1, <2>3 DEF S
<1>14. SortRanges(m) = h[N]
  BY <1>1, <1>11, <1>13
<1>15. \A n \in 1 .. N : h[n] = insert_range_sorted(h[n - 1], m[n])
  BY <1>7, <1>8
<1>16. Sorts(h, m)
  BY <1>7, <1>14, <1>15 DEF Sorts, X, N
<1>. QED  BY <1>16
Merges(g, m) ==
  /\ g \in [0 .. Len(m) -> Seq(AnyRange)]
  /\ g[0] = <<>>
  /\ \A n \in 1 .. Len(m) : g[n] = Join(g[n - 1], m[n])
  /\ coalesce_ranges(m) = g[Len(m)]

\* The merging loop, step by step.
LEMMA MergesRun ==
  ASSUME NEW m \in Seq(AnyRange)
  PROVE  \E g : Merges(g, m)
<1>. DEFINE N == Len(m)
            X == Seq(AnyRange)
            step == [n \in 1 .. N |-> [d \in X |-> Join(d, m[n])]]
            body(g, n) == IF n = 0 THEN <<>> ELSE Join(g[n - 1], m[n])
<1>1. N \in Nat /\ \A n \in 1 .. N : m[n] \in AnyRange
  BY SeqIsFunction
<1>2. <<>> \in X
  OBVIOUS
<1>3. \A n \in 1 .. N, d \in X : Join(d, m[n]) \in X
  BY <1>1, JoinType
<1>. HIDE DEF N, X
<1>4. Steps(step, X, N)
  BY <1>3 DEF Steps
<1>5. \A n \in 1 .. N, d \in X : step[n][d] = Join(d, m[n])
  OBVIOUS
<1>. HIDE DEF step
<1>6. PICK h : Iterates(h, X, <<>>, step, N)
  BY ONLY <1>1, <1>2, <1>4, Iterate
<1>7. /\ h \in [0 .. N -> X] /\ h[0] = <<>>
      /\ \A n \in 1 .. N : n \in 0 .. N /\ n - 1 \in 0 .. N /\ h[n] = step[n][h[n - 1]]
  BY <1>1, <1>6 DEF Iterates
<1>8. ASSUME NEW n \in 0 .. N
      PROVE  h[n] = body(h, n)
  <2>1. CASE n = 0
    BY <1>7, <2>1
  <2>2. CASE n \in 1 .. N
    <3>1. n # 0 /\ h[n - 1] \in X
      BY <1>7, <2>2
    <3>2. h[n] = Join(h[n - 1], m[n])
      BY <1>5, <1>7, <2>2, <3>1
    <3>. QED  BY <3>1, <3>2
  <2>. QED  BY <1>1, <2>1, <2>2
<1>9. h = [n \in 0 .. N |-> body(h, n)]
  BY <1>7, <1>8
<1>. DEFINE g == CHOOSE f : f = [n \in 0 .. N |-> body(f, n)]
<1>10. g = [n \in 0 .. N |-> body(g, n)]
  BY <1>9
<1>11. coalesce_ranges(m) = g[N]
  BY DEF coalesce_ranges, N
<1>. HIDE DEF g
<1>12. \A n \in 0 .. N : g[n] = body(g, n)
  BY <1>10
<1>13. \A n \in 0 .. N : g[n] = h[n]
  <2>. DEFINE S == {n \in Nat : n <= N => g[n] = h[n]}
  <2>1. 0 \in S
    BY <1>1, <1>8, <1>12
  <2>2. ASSUME NEW n \in Nat, n \in S
        PROVE  n + 1 \in S
    <3>. SUFFICES ASSUME n + 1 <= N PROVE g[n + 1] = h[n + 1]
      OBVIOUS
    <3>1. n + 1 \in 0 .. N /\ n + 1 # 0 /\ (n + 1) - 1 = n /\ g[n] = h[n]
      BY <1>1, <2>2
    <3>. QED  BY <1>8, <1>12, <3>1
  <2>. HIDE DEF S
  <2>3. Nat \subseteq S
    BY <2>1, <2>2, Induction
  <2>. QED  BY <1>1, <2>3 DEF S
<1>14. coalesce_ranges(m) = h[N]
  BY <1>1, <1>11, <1>13
<1>15. \A n \in 1 .. N : h[n] = Join(h[n - 1], m[n])
  BY <1>7, <1>8
<1>16. Merges(h, m)
  BY <1>7, <1>14, <1>15 DEF Merges, X, N
<1>. QED  BY <1>16
Sums(g, m) ==
  /\ g \in [0 .. Len(m) -> Int]
  /\ g[0] = 0
  /\ \A n \in 1 .. Len(m) : g[n] = g[n - 1] + (m[n].end - m[n].start)
  /\ TotalBytes(m) = g[Len(m)]

\* The sum of the bytes, step by step.
LEMMA SumsRun ==
  ASSUME NEW m \in Seq(AnyRange)
  PROVE  \E g : Sums(g, m)
<1>. DEFINE N == Len(m)
            X == Int
            step == [n \in 1 .. N |-> [d \in X |-> d + (m[n].end - m[n].start)]]
            body(g, n) == IF n = 0 THEN 0 ELSE g[n - 1] + (m[n].end - m[n].start)
<1>1. N \in Nat /\ \A n \in 1 .. N : m[n] \in AnyRange
  BY SeqIsFunction
<1>2. 0 \in X
  OBVIOUS
<1>3. \A n \in 1 .. N, d \in X : d + (m[n].end - m[n].start) \in X
  BY <1>1 DEF AnyRange
<1>. HIDE DEF N, X
<1>4. Steps(step, X, N)
  BY <1>3 DEF Steps
<1>5. \A n \in 1 .. N, d \in X : step[n][d] = d + (m[n].end - m[n].start)
  OBVIOUS
<1>. HIDE DEF step
<1>6. PICK h : Iterates(h, X, 0, step, N)
  BY ONLY <1>1, <1>2, <1>4, Iterate
<1>7. /\ h \in [0 .. N -> X] /\ h[0] = 0
      /\ \A n \in 1 .. N : n \in 0 .. N /\ n - 1 \in 0 .. N /\ h[n] = step[n][h[n - 1]]
  BY <1>1, <1>6 DEF Iterates
<1>8. ASSUME NEW n \in 0 .. N
      PROVE  h[n] = body(h, n)
  <2>1. CASE n = 0
    BY <1>7, <2>1
  <2>2. CASE n \in 1 .. N
    <3>1. n # 0 /\ h[n - 1] \in X
      BY <1>7, <2>2
    <3>2. h[n] = h[n - 1] + (m[n].end - m[n].start)
      BY <1>5, <1>7, <2>2, <3>1
    <3>. QED  BY <3>1, <3>2
  <2>. QED  BY <1>1, <2>1, <2>2
<1>9. h = [n \in 0 .. N |-> body(h, n)]
  BY <1>7, <1>8
<1>. DEFINE g == CHOOSE f : f = [n \in 0 .. N |-> body(f, n)]
<1>10. g = [n \in 0 .. N |-> body(g, n)]
  BY <1>9
<1>11. TotalBytes(m) = g[N]
  BY DEF TotalBytes, N
<1>. HIDE DEF g
<1>12. \A n \in 0 .. N : g[n] = body(g, n)
  BY <1>10
<1>13. \A n \in 0 .. N : g[n] = h[n]
  <2>. DEFINE S == {n \in Nat : n <= N => g[n] = h[n]}
  <2>1. 0 \in S
    BY <1>1, <1>8, <1>12
  <2>2. ASSUME NEW n \in Nat, n \in S
        PROVE  n + 1 \in S
    <3>. SUFFICES ASSUME n + 1 <= N PROVE g[n + 1] = h[n + 1]
      OBVIOUS
    <3>1. n + 1 \in 0 .. N /\ n + 1 # 0 /\ (n + 1) - 1 = n /\ g[n] = h[n]
      BY <1>1, <2>2
    <3>. QED  BY <1>8, <1>12, <3>1
  <2>. HIDE DEF S
  <2>3. Nat \subseteq S
    BY <2>1, <2>2, Induction
  <2>. QED  BY <1>1, <2>3 DEF S
<1>14. TotalBytes(m) = h[N]
  BY <1>1, <1>11, <1>13
<1>15. \A n \in 1 .. N : h[n] = h[n - 1] + (m[n].end - m[n].start)
  BY <1>7, <1>8
<1>16. Sums(h, m)
  BY <1>7, <1>14, <1>15 DEF Sums, X, N
<1>. QED  BY <1>16
-----------------------------------------------------------------------------
(* What the loops establish.                                               *)

\* No two ranges overlap.
Disjoint(s) == \A i, j \in DOMAIN s : i # j => Apart(s[i], s[j])

\* The region that a range was taken from.
Covers(region, r) == region.usable /\ region.start <= r.start /\ r.end <= region.end

LEMMA AlignedAreRanges == AlignedRange \subseteq AnyRange
BY DEF AlignedRange, AnyRange

LEMMA AlignedSeq ==
  ASSUME NEW s \in Seq(AlignedRange)
  PROVE  s \in Seq(AnyRange)
<1>1. Len(s) \in Nat /\ s \in [1 .. Len(s) -> AlignedRange]
  BY SeqIsFunction
<1>2. s \in [1 .. Len(s) -> AnyRange]
  BY <1>1, AlignedAreRanges
<1>. QED  BY <1>1, <1>2, FunctionIsSeq

\* init takes aligned ranges that do not overlap, and no more than fit.
LEMMA AcceptedRanges ==
  ASSUME NEW m \in MemoryMaps
  PROVE  /\ UsableRanges(m) \in Seq(AlignedRange)
         /\ Len(UsableRanges(m)) <= MAX_RANGES
         /\ Disjoint(UsableRanges(m))
<1>1. /\ m \in Seq(MemoryRegion)
      /\ \A i, j \in DOMAIN m : i # j /\ m[i].usable /\ m[j].usable =>
           m[i].end <= m[j].start \/ m[j].end <= m[i].start
  BY MemoryMapAssumption
<1>. DEFINE N == Len(m)
<1>2. N \in Nat /\ DOMAIN m = 1 .. N /\ \A n \in 1 .. N : m[n] \in MemoryRegion
  BY <1>1, SeqIsFunction
<1>3. PICK g : Accepts(g, m)
  BY <1>1, AcceptsRun
<1>4. /\ g[0] = <<>> /\ UsableRanges(m) = g[N]
      /\ \A n \in 1 .. N : g[n] = Accept(g[n - 1], m[n])
  BY <1>3 DEF Accepts
<1>. HIDE DEF N
<1>5. MAX_RANGES \in Nat \ {0} /\ PAGE_SIZE \in Nat \ {0}
  BY SizesAssumption
<1>. DEFINE Good(n) == /\ g[n] \in Seq(AlignedRange)
                       /\ Len(g[n]) <= MAX_RANGES
                       /\ Disjoint(g[n])
                       /\ \A i \in DOMAIN g[n] : \E k \in 1 .. n : Covers(m[k], g[n][i])
            S == {n \in Nat : n <= N => Good(n)}
<1>6. 0 \in S
  <2>1. /\ <<>> \in Seq(AlignedRange) /\ Len(<<>>) = 0 /\ DOMAIN <<>> = {}
        /\ Disjoint(<<>>) /\ 0 <= MAX_RANGES
    BY <1>5 DEF Disjoint
  <2>2. Good(0)
    BY <1>4, <2>1
  <2>. QED  BY <2>2
<1>7. ASSUME NEW n \in Nat, n \in S
      PROVE  n + 1 \in S
  <2>. SUFFICES ASSUME n + 1 <= N PROVE Good(n + 1)
    OBVIOUS
  <2>. DEFINE d == g[n]
              region == m[n + 1]
              r == PhysRange(AlignUp(region.start, PAGE_SIZE), AlignDown(region.end, PAGE_SIZE))
  <2>1. n + 1 \in 1 .. N /\ (n + 1) - 1 = n /\ n <= N
    BY <1>2
  <2>2. g[n + 1] = Accept(d, region)
    BY <1>4, <2>1
  <2>3. /\ d \in Seq(AlignedRange) /\ Len(d) <= MAX_RANGES /\ Disjoint(d)
        /\ \A i \in DOMAIN d : \E k \in 1 .. n : Covers(m[k], d[i])
    BY <1>7, <2>1
  <2>4. region.start \in Nat /\ region.end \in Nat
    BY <1>2, <2>1 DEF MemoryRegion
  <2>. HIDE DEF d
  <2>5. CASE region.usable /\ r.end > r.start /\ Len(d) < MAX_RANGES
    <3>1. g[n + 1] = Append(d, r)
      BY <2>2, <2>5 DEF Accept
    <3>2. /\ r.start = AlignUp(region.start, PAGE_SIZE)
          /\ r.end = AlignDown(region.end, PAGE_SIZE)
          /\ r = [start |-> r.start, end |-> r.end]
      BY DEF PhysRange
    <3>3. /\ r.start \in Nat /\ r.start % PAGE_SIZE = 0 /\ region.start <= r.start
          /\ r.end \in Nat /\ r.end % PAGE_SIZE = 0 /\ r.end <= region.end
      BY <1>5, <2>4, <3>2, AlignUpRounds, AlignDownRounds
    <3>. HIDE DEF r
    <3>4. r \in AlignedRange
      BY <2>5, <3>2, <3>3 DEF AlignedRange
    <3>5. Covers(region, r)
      BY <2>5, <3>3 DEF Covers
    <3>. DEFINE e == Append(d, r)  l == Len(d)
    <3>6. /\ l \in Nat /\ DOMAIN d = 1 .. l /\ e \in Seq(AlignedRange)
          /\ Len(e) = l + 1 /\ DOMAIN e = 1 .. l + 1
          /\ \A i \in 1 .. l : e[i] = d[i] /\ d[i] \in AlignedRange
          /\ e[l + 1] = r
      BY <2>3, <3>4
    <3>. HIDE DEF e, l
    <3>7. Len(e) <= MAX_RANGES
      BY <1>5, <2>5, <3>6 DEF l
    <3>8. ASSUME NEW i \in 1 .. l
          PROVE  Apart(d[i], r)
      <4>1. PICK k \in 1 .. n : Covers(m[k], d[i])
        BY <2>3, <3>6
      <4>2. k \in 1 .. N /\ k # n + 1 /\ m[k] \in MemoryRegion
        BY <1>2, <2>1
      <4>3. m[k].end <= region.start \/ region.end <= m[k].start
        BY <1>1, <1>2, <2>1, <2>5, <4>1, <4>2 DEF Covers
      <4>4. /\ m[k].start \in Nat /\ m[k].end \in Nat
            /\ d[i].start \in Nat /\ d[i].end \in Nat
        BY <3>6, <4>2, RangeFields DEF MemoryRegion
      <4>. QED  BY <2>4, <3>3, <4>1, <4>3, <4>4 DEF Apart, Covers
    <3>9. Disjoint(e)
      <4>. SUFFICES ASSUME NEW i \in 1 .. l + 1, NEW j \in 1 .. l + 1, i # j
                    PROVE  Apart(e[i], e[j])
        BY <3>6 DEF Disjoint
      <4>1. CASE i \in 1 .. l /\ j \in 1 .. l
        BY <2>3, <3>6, <4>1 DEF Disjoint
      <4>2. CASE i \in 1 .. l /\ j = l + 1
        BY <3>6, <3>8, <4>2
      <4>3. CASE i = l + 1 /\ j \in 1 .. l
        BY <3>6, <3>8, <4>3 DEF Apart
      <4>. QED  BY <3>6, <4>1, <4>2, <4>3
    <3>10. ASSUME NEW i \in 1 .. l + 1
           PROVE  \E k \in 1 .. n + 1 : Covers(m[k], e[i])
      <4>1. CASE i \in 1 .. l
        BY <2>3, <3>6, <4>1
      <4>2. CASE i = l + 1
        BY <3>5, <3>6, <4>2
      <4>. QED  BY <3>6, <4>1, <4>2
    <3>11. g[n + 1] = e
      BY <3>1 DEF e
    <3>. QED  BY <3>6, <3>7, <3>9, <3>10, <3>11
  <2>6. CASE ~(region.usable /\ r.end > r.start /\ Len(d) < MAX_RANGES)
    <3>1. g[n + 1] = d
      BY <2>2, <2>6 DEF Accept
    <3>. QED  BY <2>3, <3>1
  <2>. QED  BY <2>5, <2>6
<1>. HIDE DEF S
<1>8. Nat \subseteq S
  BY <1>6, <1>7, Induction
<1>. QED  BY <1>2, <1>4, <1>8 DEF S

FramesIn(R) == UNION {FramesOf(r) : r \in R}

\* The sort keeps the ranges and puts them in order.
LEMMA SortedRanges ==
  ASSUME NEW s \in Seq(AlignedRange), Disjoint(s)
  PROVE  /\ Ordered(SortRanges(s))
         /\ Len(SortRanges(s)) = Len(s)
         /\ Range(SortRanges(s)) = Range(s)
<1>. DEFINE N == Len(s)
<1>1. N \in Nat /\ DOMAIN s = 1 .. N /\ \A n \in 1 .. N : s[n] \in AlignedRange
  BY SeqIsFunction
<1>2. PICK g : Sorts(g, s)
  BY AlignedSeq, SortsRun
<1>3. /\ g[0] = <<>> /\ SortRanges(s) = g[N]
      /\ \A n \in 1 .. N : g[n] = insert_range_sorted(g[n - 1], s[n])
  BY <1>2 DEF Sorts
<1>. HIDE DEF N
<1>. DEFINE Good(n) == /\ Ordered(g[n]) /\ Len(g[n]) = n
                       /\ Range(g[n]) = {s[i] : i \in 1 .. n}
            S == {n \in Nat : n <= N => Good(n)}
<1>4. 0 \in S
  <2>1. /\ Ordered(<<>>) /\ Len(<<>>) = 0 /\ Range(<<>>) = {}
        /\ {s[i] : i \in 1 .. 0} = {}
    BY DEF Ordered, Range
  <2>2. Good(0)
    BY <1>3, <2>1
  <2>. QED  BY <2>2
<1>5. ASSUME NEW n \in Nat, n \in S
      PROVE  n + 1 \in S
  <2>. SUFFICES ASSUME n + 1 <= N PROVE Good(n + 1)
    OBVIOUS
  <2>. DEFINE d == g[n]  r == s[n + 1]
  <2>1. n + 1 \in 1 .. N /\ (n + 1) - 1 = n /\ n <= N
    BY <1>1
  <2>2. g[n + 1] = insert_range_sorted(d, r) /\ r \in AlignedRange
    BY <1>1, <1>3, <2>1
  <2>3. Ordered(d) /\ Len(d) = n /\ Range(d) = {s[i] : i \in 1 .. n}
    BY <1>5, <2>1
  <2>. HIDE DEF d
  <2>4. ASSUME NEW k \in DOMAIN d
        PROVE  Apart(r, d[k])
    <3>1. PICK i \in 1 .. n : d[k] = s[i]
      BY <2>3, InRange
    <3>2. i \in DOMAIN s /\ n + 1 \in DOMAIN s /\ i # n + 1
      BY <1>1, <2>1
    <3>. QED  BY <3>1, <3>2 DEF Disjoint
  <2>. HIDE DEF r
  <2>5. /\ Ordered(insert_range_sorted(d, r))
        /\ Len(insert_range_sorted(d, r)) = n + 1
        /\ Range(insert_range_sorted(d, r)) = {s[i] : i \in 1 .. n} \union {r}
    BY <2>2, <2>3, <2>4, InsertSorted
  <2>6. {s[i] : i \in 1 .. n + 1} = {s[i] : i \in 1 .. n} \union {r}
    BY DEF r
  <2>. QED  BY <2>2, <2>5, <2>6
<1>. HIDE DEF S
<1>6. Nat \subseteq S
  BY <1>4, <1>5, Induction
<1>7. Good(N)
  <2>1. N \in S /\ N <= N
    BY <1>1, <1>6
  <2>. HIDE DEF Good
  <2>. QED  BY <2>1 DEF S
<1>. QED  BY <1>1, <1>3, <1>7 DEF Range, N

\* Ranges that are apart have no frame in common.
LEMMA ApartFrames ==
  ASSUME NEW r \in AlignedRange, NEW q \in AlignedRange
  PROVE  Apart(r, q) <=> FramesOf(r) \intersect FramesOf(q) = {}
<1>1. /\ FramesOf(r) = {a \in Frame : r.start <= a /\ a < r.end}
      /\ FramesOf(q) = {a \in Frame : q.start <= a /\ a < q.end}
  BY FramesBetween
<1>2. /\ r.start \in Frame /\ q.start \in Frame /\ r.start < r.end /\ q.start < q.end
      /\ r.start \in Nat /\ q.start \in Nat /\ r.end \in Nat /\ q.end \in Nat
  BY DEF Frame, AlignedRange
<1>3. ASSUME Apart(r, q)
      PROVE  FramesOf(r) \intersect FramesOf(q) = {}
  <2>. SUFFICES ASSUME NEW a \in Frame, r.start <= a, a < r.end, q.start <= a, a < q.end
                PROVE  FALSE
    BY <1>1
  <2>1. a \in Nat
    BY DEF Frame
  <2>. QED  BY <1>2, <1>3, <2>1 DEF Apart
<1>4. ASSUME ~Apart(r, q)
      PROVE  FramesOf(r) \intersect FramesOf(q) # {}
  <2>1. q.start < r.end /\ r.start < q.end
    BY <1>2, <1>4 DEF Apart
  <2>2. CASE r.start <= q.start
    BY <1>1, <1>2, <2>1, <2>2
  <2>3. CASE q.start < r.start
    BY <1>1, <1>2, <2>1, <2>3
  <2>. QED  BY <1>2, <2>2, <2>3
<1>. QED  BY <1>3, <1>4

\* TotalBytes counts the frames.
LEMMA TotalCounts ==
  ASSUME NEW s \in Seq(AlignedRange), Disjoint(s)
  PROVE  /\ IsFiniteSet(FramesIn(Range(s)))
         /\ TotalBytes(s) = PAGE_SIZE * Cardinality(FramesIn(Range(s)))
<1>. DEFINE N == Len(s)  P == PAGE_SIZE
            F(n) == UNION {FramesOf(s[i]) : i \in 1 .. n}
<1>1. N \in Nat /\ DOMAIN s = 1 .. N /\ \A n \in 1 .. N : s[n] \in AlignedRange
  BY SeqIsFunction
<1>2. PICK g : Sums(g, s)
  BY AlignedSeq, SumsRun
<1>3. /\ g[0] = 0 /\ TotalBytes(s) = g[N]
      /\ \A n \in 1 .. N : g[n] = g[n - 1] + (s[n].end - s[n].start)
  BY <1>2 DEF Sums
<1>4. P \in Nat
  BY SizesAssumption
<1>. HIDE DEF N, P
<1>. DEFINE Good(n) == /\ IsFiniteSet(F(n)) /\ g[n] = P * Cardinality(F(n))
            S == {n \in Nat : n <= N => Good(n)}
<1>5. 0 \in S
  <2>1. F(0) = {}
    OBVIOUS
  <2>2. IsFiniteSet({}) /\ Cardinality({}) = 0
    BY FS_EmptySet
  <2>3. g[0] = P * 0
    BY <1>3, <1>4
  <2>. QED  BY <2>1, <2>2, <2>3
<1>6. ASSUME NEW n \in Nat, n \in S
      PROVE  n + 1 \in S
  <2>. SUFFICES ASSUME n + 1 <= N PROVE Good(n + 1)
    OBVIOUS
  <2>. DEFINE r == s[n + 1]  A == F(n)  B == FramesOf(r)
  <2>1. n + 1 \in 1 .. N /\ (n + 1) - 1 = n /\ n <= N
    BY <1>1
  <2>2. r \in AlignedRange /\ g[n + 1] = g[n] + (r.end - r.start)
    BY <1>1, <1>3, <2>1
  <2>3. IsFiniteSet(A) /\ g[n] = P * Cardinality(A)
    BY <1>6, <2>1
  <2>4. F(n + 1) = A \union B
    OBVIOUS
  <2>5. A \intersect B = {}
    <3>. SUFFICES ASSUME NEW i \in 1 .. n PROVE FramesOf(s[i]) \intersect B = {}
      OBVIOUS
    <3>1. i \in DOMAIN s /\ n + 1 \in DOMAIN s /\ i # n + 1 /\ s[i] \in AlignedRange
      BY <1>1, <2>1
    <3>2. Apart(s[i], r)
      BY <3>1 DEF Disjoint
    <3>. QED  BY <2>2, <3>1, <3>2, ApartFrames
  <2>6. /\ IsFiniteSet(B) /\ Cardinality(B) \in Nat
        /\ P * Cardinality(B) = r.end - r.start
    BY <2>2, FramesCount DEF P
  <2>. HIDE DEF r, A, B
  <2>7. Cardinality(A) \in Nat
    BY <2>3, FS_CardinalityType
  <2>8. IsFiniteSet(A \union B) /\ Cardinality(A \union B) = Cardinality(A) + Cardinality(B)
    <3>1. /\ IsFiniteSet(A \union B)
          /\ Cardinality(A \union B) =
               Cardinality(A) + Cardinality(B) - Cardinality(A \cap B)
      BY <2>3, <2>6, FS_Union
    <3>2. Cardinality(A \cap B) = 0
      BY <2>5, FS_EmptySet
    <3>. QED  BY <2>6, <2>7, <3>1, <3>2
  <2>9. P * (Cardinality(A) + Cardinality(B)) = P * Cardinality(A) + P * Cardinality(B)
    BY <1>4, <2>6, <2>7
  <2>10. g[n + 1] = P * Cardinality(A \union B)
    BY <2>2, <2>3, <2>6, <2>8, <2>9
  <2>11. IsFiniteSet(F(n + 1)) /\ g[n + 1] = P * Cardinality(F(n + 1))
    BY <2>4, <2>8, <2>10
  <2>. QED  BY <2>11
<1>. HIDE DEF S
<1>7. Nat \subseteq S
  BY <1>5, <1>6, Induction
<1>8. Good(N)
  <2>1. N \in S /\ N <= N
    BY <1>1, <1>7
  <2>. HIDE DEF Good
  <2>. QED  BY <2>1 DEF S
<1>9. FramesIn(Range(s)) = F(N)
  BY <1>1 DEF FramesIn, Range
<1>. QED  BY <1>3, <1>8, <1>9 DEF P

LEMMA FramesInSeq ==
  ASSUME NEW s
  PROVE  FramesIn(Range(s)) = UNION {FramesOf(s[i]) : i \in DOMAIN s}
BY DEF FramesIn, Range

\* Ranges in order and apart share no frame.
LEMMA OrderedDisjoint ==
  ASSUME NEW s, Ordered(s)
  PROVE  s \in Seq(AlignedRange) /\ Disjoint(s)
<1>1. Len(s) \in Nat /\ DOMAIN s = 1 .. Len(s)
  BY SeqIsFunction DEF Ordered
<1>2. \A i, j \in DOMAIN s : i # j => i < j \/ j < i
  BY <1>1
<1>. QED  BY <1>2 DEF Ordered, Disjoint, Apart

\* No range touches the next.
NoneTouch(s) == \A i \in 1 .. Len(s) - 1 : s[i].end # s[i + 1].start

\* One round of the merge.
LEMMA JoinSorted ==
  ASSUME NEW d, Ordered(d), NoneTouch(d), NEW r \in AlignedRange,
         Len(d) > 0 => d[Len(d)].end <= r.start
  PROVE  /\ Ordered(Join(d, r)) /\ NoneTouch(Join(d, r))
         /\ Len(Join(d, r)) \in 1 .. Len(d) + 1
         /\ Join(d, r)[Len(Join(d, r))].end = r.end
         /\ FramesIn(Range(Join(d, r))) = FramesIn(Range(d)) \union FramesOf(r)
<1>. DEFINE l == Len(d)
<1>1. /\ l \in Nat /\ DOMAIN d = 1 .. l /\ d \in [1 .. l -> AlignedRange]
      /\ \A i \in 1 .. l : d[i] \in AlignedRange
      /\ d \in Seq(AlignedRange)
  BY SeqIsFunction DEF Ordered
<1>2. /\ \A i, j \in 1 .. l : i < j => d[i].end <= d[j].start
      /\ \A i \in 1 .. l - 1 : d[i].end # d[i + 1].start
      /\ l > 0 => d[l].end <= r.start
  BY <1>1 DEF Ordered, NoneTouch
<1>3. r.start \in Nat /\ r.end \in Nat /\ r.start < r.end
  BY RangeFields
<1>4. \A i \in 1 .. l : d[i].start \in Nat /\ d[i].end \in Nat /\ d[i].start < d[i].end
  BY <1>1, RangeFields
<1>5. d # <<>> <=> l > 0
  BY <1>1
<1>. HIDE DEF l
<1>6. CASE d # <<>> /\ d[l].end = r.start
  <2>. DEFINE e == [d EXCEPT ![l].end = r.end]
              q == [d[l] EXCEPT !.end = r.end]
  <2>1. l \in 1 .. l /\ l > 0
    BY <1>1, <1>5, <1>6
  <2>2. d[l] \in [start : Nat, end : Nat] /\ d[l].start % PAGE_SIZE = 0
    BY <1>1, <2>1 DEF AlignedRange
  <2>3. q.start = d[l].start /\ q.end = r.end /\ q \in [start : Nat, end : Nat]
    BY <1>3, <2>2
  <2>4. q \in AlignedRange
    <3>1. r.end % PAGE_SIZE = 0
      BY DEF AlignedRange
    <3>2. q.start < q.end
      BY <1>3, <1>4, <1>6, <2>1, <2>3
    <3>. HIDE DEF q
    <3>. QED  BY <2>2, <2>3, <3>1, <3>2 DEF AlignedRange
  <2>5. /\ e \in [1 .. l -> AlignedRange] /\ e[l] = q
        /\ \A i \in 1 .. l : i # l => e[i] = d[i]
    <3>. HIDE DEF q
    <3>1. e = [d EXCEPT ![l] = q]
      BY DEF q
    <3>. QED  BY <1>1, <2>1, <2>4, <3>1
  <2>6. Join(d, r) = e
    BY <1>6 DEF Join, l
  <2>. HIDE DEF e, q
  <2>7. e \in Seq(AlignedRange) /\ Len(e) = l /\ DOMAIN e = 1 .. l
    BY <1>1, <2>5, FunctionIsSeq
  <2>8. \A i, j \in 1 .. l : i < j => e[i].end <= e[j].start
    <3>. SUFFICES ASSUME NEW i \in 1 .. l, NEW j \in 1 .. l, i < j
                  PROVE  e[i].end <= e[j].start
      OBVIOUS
    <3>1. i # l /\ e[i] = d[i] /\ e[j].start = d[j].start
      BY <1>1, <2>3, <2>5
    <3>. QED  BY <1>2, <3>1
  <2>9. \A i \in 1 .. l - 1 : e[i].end # e[i + 1].start
    <3>. SUFFICES ASSUME NEW i \in 1 .. l - 1
                  PROVE  e[i].end # e[i + 1].start
      OBVIOUS
    <3>1. i \in 1 .. l /\ i # l /\ i + 1 \in 1 .. l
      BY <1>1
    <3>2. e[i] = d[i] /\ e[i + 1].start = d[i + 1].start
      BY <2>3, <2>5, <3>1
    <3>. QED  BY <1>2, <3>2
  <2>10. FramesOf(q) = FramesOf(d[l]) \union FramesOf(r)
    <3>1. /\ FramesOf(q) = {a \in Frame : q.start <= a /\ a < q.end}
          /\ FramesOf(r) = {a \in Frame : r.start <= a /\ a < r.end}
          /\ FramesOf(d[l]) = {a \in Frame : d[l].start <= a /\ a < d[l].end}
      BY <1>1, <2>1, <2>4, FramesBetween
    <3>2. \A a \in Frame : a \in Nat
      BY DEF Frame
    <3>3. d[l].start \in Nat /\ d[l].end \in Nat /\ d[l].start < d[l].end
      BY <1>4, <2>1
    <3>. QED  BY <1>3, <1>6, <2>3, <3>1, <3>2, <3>3
  <2>11. FramesIn(Range(e)) = FramesIn(Range(d)) \union FramesOf(r)
    <3>1. /\ FramesIn(Range(e)) = UNION {FramesOf(e[i]) : i \in 1 .. l}
          /\ FramesIn(Range(d)) = UNION {FramesOf(d[i]) : i \in 1 .. l}
      BY <1>1, <2>7, FramesInSeq
    <3>2. ASSUME NEW i \in 1 .. l
          PROVE  /\ FramesOf(e[i]) \subseteq FramesOf(d[i]) \union FramesOf(r)
                 /\ FramesOf(d[i]) \subseteq FramesOf(e[i])
      <4>1. CASE i = l
        BY <2>5, <2>10, <4>1
      <4>2. CASE i # l
        BY <2>5, <4>2
      <4>. QED  BY <4>1, <4>2
    <3>3. FramesOf(r) \subseteq FramesOf(e[l])
      BY <2>5, <2>10
    <3>. DEFINE E == UNION {FramesOf(e[i]) : i \in 1 .. l}
                D == UNION {FramesOf(d[i]) : i \in 1 .. l}
    <3>4. E \subseteq D \union FramesOf(r)
      BY <3>2
    <3>5. D \subseteq E
      BY <3>2
    <3>6. FramesOf(r) \subseteq E
      BY <2>1, <3>3
    <3>. HIDE DEF E, D
    <3>7. E = D \union FramesOf(r)
      BY <3>4, <3>5, <3>6
    <3>. QED  BY <3>1, <3>7 DEF E, D
  <2>12. Ordered(e) /\ NoneTouch(e)
    BY <2>7, <2>8, <2>9 DEF Ordered, NoneTouch
  <2>13. Len(e) \in 1 .. l + 1 /\ e[Len(e)].end = r.end
    BY <1>1, <2>1, <2>3, <2>5, <2>7
  <2>. QED  BY <2>6, <2>11, <2>12, <2>13 DEF l
<1>7. CASE ~(d # <<>> /\ d[l].end = r.start)
  <2>. DEFINE e == Append(d, r)
  <2>1. Join(d, r) = e
    BY <1>7 DEF Join, l
  <2>2. /\ e \in Seq(AlignedRange) /\ Len(e) = l + 1 /\ DOMAIN e = 1 .. l + 1
        /\ e[l + 1] = r /\ \A i \in 1 .. l : e[i] = d[i]
    BY <1>1 DEF l
  <2>. HIDE DEF e
  <2>3. l > 0 => d[l].end < r.start
    <3>1. l > 0 => d[l].end # r.start /\ l \in 1 .. l
      BY <1>1, <1>5, <1>7
    <3>. QED  BY <1>2, <1>3, <1>4, <3>1
  <2>4. \A i \in 1 .. l : d[i].end <= r.start
    <3>. SUFFICES ASSUME NEW i \in 1 .. l PROVE d[i].end <= r.start
      OBVIOUS
    <3>1. l > 0 /\ l \in 1 .. l
      BY <1>1
    <3>2. CASE i = l
      BY <1>2, <3>1, <3>2
    <3>3. CASE i # l
      <4>1. d[i].end <= d[l].start /\ d[l].end <= r.start
        BY <1>1, <1>2, <3>1, <3>3
      <4>. QED  BY <1>3, <1>4, <3>1, <4>1
    <3>. QED  BY <3>2, <3>3
  <2>5. Ordered(e)
    <3>. SUFFICES ASSUME NEW i \in 1 .. l + 1, NEW j \in 1 .. l + 1, i < j
                  PROVE  e[i].end <= e[j].start
      BY <2>2 DEF Ordered
    <3>1. i \in 1 .. l /\ e[i] = d[i]
      BY <1>1, <2>2
    <3>2. CASE j = l + 1
      BY <2>2, <2>4, <3>1, <3>2
    <3>3. CASE j \in 1 .. l
      BY <1>2, <2>2, <3>1, <3>3
    <3>. QED  BY <1>1, <3>2, <3>3
  <2>6. NoneTouch(e)
    <3>. SUFFICES ASSUME NEW i \in 1 .. l PROVE e[i].end # e[i + 1].start
      BY <1>1, <2>2 DEF NoneTouch
    <3>1. e[i] = d[i]
      BY <2>2
    <3>2. CASE i = l
      <4>1. e[i + 1] = r /\ d[l].end < r.start
        BY <1>1, <2>2, <2>3, <3>2
      <4>. QED  BY <1>3, <1>4, <3>1, <3>2, <4>1
    <3>3. CASE i # l
      <4>1. i \in 1 .. l - 1 /\ i + 1 \in 1 .. l
        BY <1>1, <3>3
      <4>. QED  BY <1>2, <2>2, <3>1, <4>1
    <3>. QED  BY <3>2, <3>3
  <2>7. FramesIn(Range(e)) = FramesIn(Range(d)) \union FramesOf(r)
    <3>1. /\ FramesIn(Range(e)) = UNION {FramesOf(e[i]) : i \in 1 .. l + 1}
          /\ FramesIn(Range(d)) = UNION {FramesOf(d[i]) : i \in 1 .. l}
      BY <1>1, <2>2, FramesInSeq
    <3>2. \A i \in 1 .. l + 1 : i \in 1 .. l \/ i = l + 1
      BY <1>1
    <3>3. \A i \in 1 .. l : i \in 1 .. l + 1
      BY <1>1
    <3>4. l + 1 \in 1 .. l + 1
      BY <1>1
    <3>. QED  BY <2>2, <3>1, <3>2, <3>3, <3>4
  <2>8. Len(e) \in 1 .. l + 1 /\ e[Len(e)].end = r.end
    BY <1>1, <2>2
  <2>. QED  BY <2>1, <2>5, <2>6, <2>7, <2>8 DEF l
<1>. QED  BY <1>6, <1>7

\* coalesce_ranges keeps the frames and leaves no two ranges that touch.
LEMMA CoalescedRanges ==
  ASSUME NEW s, Ordered(s)
  PROVE  /\ Ordered(coalesce_ranges(s)) /\ NoneTouch(coalesce_ranges(s))
         /\ Len(coalesce_ranges(s)) <= Len(s)
         /\ FramesIn(Range(coalesce_ranges(s))) = FramesIn(Range(s))
<1>. DEFINE N == Len(s)
            F(n) == UNION {FramesOf(s[i]) : i \in 1 .. n}
<1>1. /\ N \in Nat /\ DOMAIN s = 1 .. N /\ s \in Seq(AlignedRange)
      /\ \A n \in 1 .. N : s[n] \in AlignedRange
      /\ \A i, j \in 1 .. N : i < j => s[i].end <= s[j].start
  BY SeqIsFunction DEF Ordered
<1>2. PICK g : Merges(g, s)
  BY <1>1, AlignedSeq, MergesRun
<1>3. /\ g[0] = <<>> /\ coalesce_ranges(s) = g[N]
      /\ \A n \in 1 .. N : g[n] = Join(g[n - 1], s[n])
  BY <1>2 DEF Merges
<1>. HIDE DEF N
<1>. DEFINE Good(n) == /\ Ordered(g[n]) /\ NoneTouch(g[n]) /\ Len(g[n]) \in 0 .. n
                       /\ Len(g[n]) > 0 => n \in 1 .. N /\ g[n][Len(g[n])].end = s[n].end
                       /\ FramesIn(Range(g[n])) = F(n)
            S == {n \in Nat : n <= N => Good(n)}
<1>4. 0 \in S
  <2>1. /\ Ordered(<<>>) /\ NoneTouch(<<>>) /\ Len(<<>>) = 0 /\ Range(<<>>) = {}
        /\ F(0) = {}
    BY DEF Ordered, Range, NoneTouch
  <2>2. FramesIn({}) = {}
    BY DEF FramesIn
  <2>3. Good(0)
    BY <1>3, <2>1, <2>2
  <2>. QED  BY <2>3
<1>5. ASSUME NEW n \in Nat, n \in S
      PROVE  n + 1 \in S
  <2>. SUFFICES ASSUME n + 1 <= N PROVE Good(n + 1)
    OBVIOUS
  <2>. DEFINE d == g[n]  r == s[n + 1]
  <2>1. n + 1 \in 1 .. N /\ (n + 1) - 1 = n /\ n <= N
    BY <1>1
  <2>2. g[n + 1] = Join(d, r) /\ r \in AlignedRange
    BY <1>1, <1>3, <2>1
  <2>3. /\ Ordered(d) /\ NoneTouch(d) /\ Len(d) \in 0 .. n
        /\ Len(d) > 0 => n \in 1 .. N /\ d[Len(d)].end = s[n].end
        /\ FramesIn(Range(d)) = F(n)
    BY <1>5, <2>1
  <2>. HIDE DEF d
  <2>4. Len(d) > 0 => d[Len(d)].end <= r.start
    BY <1>1, <2>1, <2>3
  <2>5. F(n + 1) = F(n) \union FramesOf(r)
    OBVIOUS
  <2>. HIDE DEF r
  <2>6. /\ Ordered(Join(d, r)) /\ NoneTouch(Join(d, r))
        /\ Len(Join(d, r)) \in 1 .. Len(d) + 1
        /\ Join(d, r)[Len(Join(d, r))].end = r.end
        /\ FramesIn(Range(Join(d, r))) = FramesIn(Range(d)) \union FramesOf(r)
    BY ONLY <2>2, <2>3, <2>4, JoinSorted
  <2>7. Len(Join(d, r)) \in 0 .. n + 1
    BY <2>3, <2>6
  <2>8. r = s[n + 1]
    BY DEF r
  <2>. HIDE DEF F
  <2>. QED  BY <2>1, <2>2, <2>3, <2>5, <2>6, <2>7, <2>8
<1>. HIDE DEF S
<1>6. Nat \subseteq S
  BY <1>4, <1>5, Induction
<1>7. Good(N)
  <2>1. N \in S /\ N <= N
    BY <1>1, <1>6
  <2>. HIDE DEF Good
  <2>. QED  BY <2>1 DEF S
<1>8. FramesIn(Range(s)) = F(N)
  BY <1>1, FramesInSeq
<1>9. Len(g[N]) <= N
  BY <1>1, <1>7
<1>. QED  BY <1>3, <1>7, <1>8, <1>9 DEF N

\* A range that is apart from one is apart from its parts.
LEMMA ApartParts ==
  ASSUME NEW r \in AlignedRange, NEW p \in AlignedRange, NEW q \in AlignedRange,
         Apart(r, q), r.start <= p.start, p.end <= r.end
  PROVE  Apart(p, q)
<1>1. /\ r.start \in Nat /\ r.end \in Nat /\ p.start \in Nat /\ p.end \in Nat
      /\ q.start \in Nat /\ q.end \in Nat
  BY RangeFields
<1>. QED  BY <1>1 DEF Apart

\* Inserting a range adds its frames.
LEMMA InsertFrames ==
  ASSUME NEW s, Ordered(s), NEW r \in AlignedRange, \A q \in Range(s) : Apart(r, q)
  PROVE  /\ Ordered(insert_range_sorted(s, r))
         /\ Len(insert_range_sorted(s, r)) = Len(s) + 1
         /\ Range(insert_range_sorted(s, r)) = Range(s) \union {r}
         /\ FramesIn(Range(insert_range_sorted(s, r))) = FramesIn(Range(s)) \union FramesOf(r)
<1>1. \A i \in DOMAIN s : Apart(r, s[i])
  BY InRange
<1>2. /\ Ordered(insert_range_sorted(s, r))
      /\ Len(insert_range_sorted(s, r)) = Len(s) + 1
      /\ Range(insert_range_sorted(s, r)) = Range(s) \union {r}
  BY <1>1, InsertSorted
<1>3. FramesIn(Range(s) \union {r}) = FramesIn(Range(s)) \union FramesOf(r)
  BY DEF FramesIn
<1>. QED  BY <1>2, <1>3

LEMMA PhysRangeAligned ==
  ASSUME NEW a \in Frame, NEW b \in Frame, a < b
  PROVE  PhysRange(a, b) \in AlignedRange /\ PhysRange(a, b).start = a /\ PhysRange(a, b).end = b
BY DEF PhysRange, AlignedRange, Frame

\* Cutting a run out of a range takes the run's frames, and no others.
LEMMA CutOut ==
  ASSUME NEW s, Ordered(s), NEW k \in DOMAIN s, NEW run \in AlignedRange,
         s[k].start <= run.start, run.end <= s[k].end
  PROVE  LET r == s[k]
             t == InsertPieces(remove_range(s, k), r, run)
         IN  /\ Ordered(t)
             /\ Len(t) = Len(s) - 1 + new_ranges_needed(r, run)
             /\ FramesIn(Range(t)) = FramesIn(Range(s)) \ FramesOf(run)
             /\ FramesOf(run) \subseteq FramesIn(Range(s))
<1>. DEFINE r == s[k]
            rest == remove_range(s, k)
            before == PhysRange(r.start, run.start)
            after == PhysRange(run.end, r.end)
            mid == IF has_before(r, run) THEN insert_range_sorted(rest, before) ELSE rest
            t == InsertPieces(rest, r, run)
<1>1. /\ Len(s) \in Nat /\ DOMAIN s = 1 .. Len(s) /\ r \in AlignedRange
      /\ \A i \in DOMAIN s : s[i] \in AlignedRange
      /\ Disjoint(s)
  BY SeqIsFunction, OrderedDisjoint DEF Ordered
<1>2. Ordered(rest) /\ Len(rest) = Len(s) - 1 /\ Range(rest) = Range(s) \ {r}
  BY RemoveSorted
<1>3. ASSUME NEW q \in Range(s) \ {r}
      PROVE  q \in AlignedRange /\ Apart(r, q)
  <2>1. PICK i \in DOMAIN s : q = s[i]
    BY DEF Range
  <2>2. i # k
    BY <1>3, <2>1
  <2>. QED  BY <1>1, <2>1, <2>2 DEF Disjoint
<1>4. /\ r.start \in Frame /\ r.end \in Frame /\ run.start \in Frame /\ run.end \in Frame
      /\ r.start \in Nat /\ r.end \in Nat /\ run.start \in Nat /\ run.end \in Nat
      /\ r.start < r.end /\ run.start < run.end /\ r.start <= run.start /\ run.end <= r.end
  BY <1>1 DEF AlignedRange, Frame
<1>5. FramesIn(Range(s)) = FramesIn(Range(rest)) \union FramesOf(r)
  <2>1. Range(s) = (Range(s) \ {r}) \union {r}
    BY InRange
  <2>. QED  BY <1>2, <2>1 DEF FramesIn
<1>6. FramesIn(Range(rest)) \intersect FramesOf(r) = {}
  <2>. SUFFICES ASSUME NEW q \in Range(s) \ {r} PROVE FramesOf(q) \intersect FramesOf(r) = {}
    BY <1>2 DEF FramesIn
  <2>1. FramesOf(r) \intersect FramesOf(q) = {}
    BY <1>1, <1>3, ApartFrames
  <2>. QED  BY <2>1
<1>7. has_before(r, run) => /\ before \in AlignedRange
                            /\ before.start = r.start /\ before.end = run.start
  BY <1>4, PhysRangeAligned DEF has_before
<1>8. has_after(r, run) => /\ after \in AlignedRange
                           /\ after.start = run.end /\ after.end = r.end
  BY <1>4, PhysRangeAligned DEF has_after
<1>. DEFINE B == IF has_before(r, run) THEN FramesOf(before) ELSE {}
            A == IF has_after(r, run) THEN FramesOf(after) ELSE {}
<1>9. /\ FramesOf(r) = {a \in Frame : r.start <= a /\ a < r.end}
      /\ FramesOf(run) = {a \in Frame : run.start <= a /\ a < run.end}
  BY <1>1, FramesBetween
<1>10. B = {a \in Frame : r.start <= a /\ a < run.start}
  <2>0. \A a \in Frame : a \in Nat
    BY DEF Frame
  <2>1. CASE has_before(r, run)
    <3>1. FramesOf(before) = {a \in Frame : before.start <= a /\ a < before.end}
      BY <1>7, <2>1, FramesBetween
    <3>. QED  BY <1>7, <2>1, <3>1
  <2>2. CASE ~has_before(r, run)
    <3>1. run.start = r.start
      BY <1>4, <2>2 DEF has_before
    <3>. QED  BY <1>4, <2>0, <2>2, <3>1
  <2>. QED  BY <2>1, <2>2
<1>11. A = {a \in Frame : run.end <= a /\ a < r.end}
  <2>0. \A a \in Frame : a \in Nat
    BY DEF Frame
  <2>1. CASE has_after(r, run)
    <3>1. FramesOf(after) = {a \in Frame : after.start <= a /\ a < after.end}
      BY <1>8, <2>1, FramesBetween
    <3>. QED  BY <1>8, <2>1, <3>1
  <2>2. CASE ~has_after(r, run)
    <3>1. run.end = r.end
      BY <1>4, <2>2 DEF has_after
    <3>. QED  BY <1>4, <2>0, <2>2, <3>1
  <2>. QED  BY <2>1, <2>2
<1>. HIDE DEF r, rest, before, after
<1>12. /\ Ordered(mid) /\ FramesIn(Range(mid)) = FramesIn(Range(rest)) \union B
       /\ Len(mid) = Len(rest) + (IF has_before(r, run) THEN 1 ELSE 0)
       /\ has_after(r, run) => \A q \in Range(mid) : Apart(after, q)
  <2>0. has_after(r, run) => \A q \in Range(rest) : Apart(after, q)
    <3>. SUFFICES ASSUME has_after(r, run), NEW q \in Range(rest) PROVE Apart(after, q)
      OBVIOUS
    <3>1. q \in AlignedRange /\ Apart(r, q)
      BY <1>2, <1>3
    <3>2. after \in AlignedRange /\ r.start <= after.start /\ after.end <= r.end
      BY <1>4, <1>8
    <3>. QED  BY <1>1, <3>1, <3>2, ApartParts
  <2>1. CASE has_before(r, run)
    <3>1. \A q \in Range(rest) : Apart(before, q)
      <4>. SUFFICES ASSUME NEW q \in Range(rest) PROVE Apart(before, q)
        OBVIOUS
      <4>1. q \in AlignedRange /\ Apart(r, q)
        BY <1>2, <1>3
      <4>2. before \in AlignedRange /\ r.start <= before.start /\ before.end <= r.end
        BY <1>4, <1>7, <2>1
      <4>. QED  BY <1>1, <4>1, <4>2, ApartParts
    <3>2. mid = insert_range_sorted(rest, before)
      BY <2>1
    <3>3. before \in AlignedRange
      BY <1>7, <2>1
    <3>. HIDE DEF mid
    <3>4. /\ Ordered(mid) /\ Len(mid) = Len(rest) + 1
          /\ Range(mid) = Range(rest) \union {before}
          /\ FramesIn(Range(mid)) = FramesIn(Range(rest)) \union FramesOf(before)
      BY <1>2, <3>1, <3>2, <3>3, InsertFrames
    <3>5. has_after(r, run) => Apart(after, before)
      BY <1>4, <1>7, <1>8, <2>1 DEF Apart
    <3>6. has_after(r, run) => \A q \in Range(mid) : Apart(after, q)
      BY <2>0, <3>4, <3>5
    <3>7. B = FramesOf(before)
      BY <2>1
    <3>. QED  BY <2>1, <3>4, <3>6, <3>7
  <2>2. CASE ~has_before(r, run)
    <3>1. mid = rest /\ B = {}
      BY <2>2
    <3>2. Len(rest) = Len(rest) + 0
      BY <1>1, <1>2
    <3>. QED  BY <1>2, <2>0, <2>2, <3>1, <3>2
  <2>. QED  BY <2>1, <2>2
<1>13. t = InsertAfter(mid, r, run)
  BY DEF InsertPieces, before
<1>14. /\ Ordered(t) /\ FramesIn(Range(t)) = FramesIn(Range(mid)) \union A
       /\ Len(t) = Len(mid) + (IF has_after(r, run) THEN 1 ELSE 0)
  <2>0. Len(mid) \in Nat
    BY <1>12, SeqIsFunction DEF Ordered
  <2>. HIDE DEF mid, t
  <2>1. CASE has_after(r, run)
    <3>1. t = insert_range_sorted(mid, after) /\ A = FramesOf(after)
      BY <1>13, <2>1 DEF InsertAfter, after
    <3>2. after \in AlignedRange /\ \A q \in Range(mid) : Apart(after, q)
      BY <1>8, <1>12, <2>1
    <3>. QED  BY <1>12, <2>1, <3>1, <3>2, InsertFrames
  <2>2. CASE ~has_after(r, run)
    <3>1. t = mid /\ A = {}
      BY <1>13, <2>2 DEF InsertAfter
    <3>. QED  BY <1>12, <2>0, <2>2, <3>1
  <2>. QED  BY <2>1, <2>2
<1>. HIDE DEF mid, t, A, B
<1>15. FramesOf(r) = B \union A \union FramesOf(run) /\ (A \union B) \intersect FramesOf(run) = {}
  <2>0. \A a \in Frame : a \in Nat
    BY DEF Frame
  <2>. QED  BY <1>4, <1>9, <1>10, <1>11, <2>0
<1>16. FramesIn(Range(t)) = FramesIn(Range(s)) \ FramesOf(run)
  BY <1>5, <1>6, <1>12, <1>14, <1>15
<1>17. Len(t) = Len(s) - 1 + new_ranges_needed(r, run)
  <2>. DEFINE b == IF has_before(r, run) THEN 1 ELSE 0
              c == IF has_after(r, run) THEN 1 ELSE 0
  <2>1. b \in Nat /\ c \in Nat
    OBVIOUS
  <2>2. Len(t) = Len(mid) + c /\ Len(mid) = Len(rest) + b /\ new_ranges_needed(r, run) = b + c
    BY <1>12, <1>14 DEF new_ranges_needed
  <2>. HIDE DEF b, c
  <2>. QED  BY <1>1, <1>2, <2>1, <2>2
<1>18. FramesOf(run) \subseteq FramesIn(Range(s))
  BY <1>5, <1>15
<1>. QED  BY <1>14, <1>16, <1>17, <1>18 DEF t, r, rest
-----------------------------------------------------------------------------
(* The invariant.                                                          *)

Alignments == {PAGE_SIZE, HUGE_PAGE_SIZE}

IInv ==
  /\ Ordered(free_ranges) /\ Len(free_ranges) <= MAX_RANGES
  /\ pool \subseteq Frame /\ IsFiniteSet(pool)
  /\ usable_frames \union held = pool /\ usable_frames \intersect held = {}
  /\ allocated_bytes = PAGE_SIZE * Cardinality(held)
  /\ total_bytes = PAGE_SIZE * Cardinality(pool)
  /\ panicked \in BOOLEAN /\ (panicked => ret.call = "free")
  /\ ret.call = "alloc" /\ ret.frame = None /\ ret.count > 0 =>
       /\ ret.count \in Nat /\ ret.alignment \in Alignments
       /\ FirstFit(ret.count, ret.alignment) = 0

LEMMA Sizes ==
  /\ PAGE_SIZE \in Nat \ {0} /\ PAGE_SIZE % PAGE_SIZE = 0
  /\ \A alignment \in Alignments : alignment \in Nat \ {0} /\ alignment % PAGE_SIZE = 0
  /\ HUGE_PAGE_SIZE \div PAGE_SIZE \in Nat
  /\ MAX_RANGES \in Nat \ {0} /\ Counts \subseteq Nat /\ None \notin Nat
<1>1. PAGE_SIZE % PAGE_SIZE = 0
  <2>1. PAGE_SIZE = 1 * PAGE_SIZE
    BY SizesAssumption
  <2>. QED  BY <2>1, SizesAssumption, MultipleMod
<1>2. HUGE_PAGE_SIZE \div PAGE_SIZE \in Nat
  BY SizesAssumption, DivMod
<1>. QED  BY <1>1, <1>2, SizesAssumption DEF Alignments

LEMMA UsableFrames == usable_frames = FramesIn(Range(free_ranges))
BY DEF usable_frames, FramesIn

LEMMA FramesAreFrames ==
  ASSUME NEW s \in Seq(AlignedRange)
  PROVE  FramesIn(Range(s)) \subseteq Frame
<1>1. DOMAIN s = 1 .. Len(s) /\ \A i \in DOMAIN s : s[i] \in AlignedRange
  BY SeqIsFunction
<1>. SUFFICES ASSUME NEW i \in DOMAIN s PROVE FramesOf(s[i]) \subseteq Frame
  BY FramesInSeq
<1>. QED  BY <1>1, FramesBetween

\* init establishes the invariant.
LEMMA InitIInv == Init => IInv
<1>. SUFFICES ASSUME Init PROVE IInv
  OBVIOUS
<1>1. PICK m \in MemoryMaps : init(m)
  BY DEF Init
<1>. DEFINE a == UsableRanges(m)
<1>2. a \in Seq(AlignedRange) /\ Len(a) <= MAX_RANGES /\ Disjoint(a)
  BY AcceptedRanges
<1>3. /\ free_ranges = SortRanges(a) /\ allocated_bytes = 0 /\ total_bytes = TotalBytes(a)
      /\ pool = FramesIn(Range(a))
  BY <1>1 DEF init, FramesIn
<1>. HIDE DEF a
<1>4. Ordered(free_ranges) /\ Len(free_ranges) = Len(a) /\ Range(free_ranges) = Range(a)
  BY <1>2, <1>3, SortedRanges
<1>5. usable_frames = pool
  BY <1>3, <1>4, UsableFrames
<1>6. IsFiniteSet(pool) /\ total_bytes = PAGE_SIZE * Cardinality(pool)
  BY <1>2, <1>3, TotalCounts
<1>7. pool \subseteq Frame
  BY <1>2, <1>3, FramesAreFrames
<1>8. held = {} /\ panicked = FALSE /\ ret.call = "init"
  BY DEF Init
<1>9. allocated_bytes = PAGE_SIZE * Cardinality(held)
  <2>1. Cardinality(held) = 0
    BY <1>8, FS_EmptySet
  <2>2. PAGE_SIZE * 0 = 0
    BY Sizes
  <2>. QED  BY <1>3, <2>1, <2>2
<1>10. panicked \in BOOLEAN /\ ~panicked
  BY <1>8
<1>11. usable_frames \union held = pool /\ usable_frames \intersect held = {}
  BY <1>5, <1>8
<1>12. ~(ret.call = "alloc")
  BY <1>8
<1>. QED  BY <1>2, <1>4, <1>6, <1>7, <1>9, <1>10, <1>11, <1>12 DEF IInv

\* The byte counters when frames move between free and held.
LEMMA CountSum ==
  ASSUME NEW A, NEW B, IsFiniteSet(A), IsFiniteSet(B), A \intersect B = {}
  PROVE  /\ IsFiniteSet(A \union B)
         /\ Cardinality(A) \in Nat /\ Cardinality(B) \in Nat
         /\ PAGE_SIZE * Cardinality(A) \in Nat /\ PAGE_SIZE * Cardinality(B) \in Nat
         /\ PAGE_SIZE * Cardinality(A \union B)
              = PAGE_SIZE * Cardinality(A) + PAGE_SIZE * Cardinality(B)
<1>1. Cardinality(A) \in Nat /\ Cardinality(B) \in Nat /\ PAGE_SIZE \in Nat
  BY Sizes, FS_CardinalityType
<1>2. /\ IsFiniteSet(A \union B)
      /\ Cardinality(A \union B) = Cardinality(A) + Cardinality(B) - Cardinality(A \cap B)
  BY FS_Union
<1>3. Cardinality(A \cap B) = 0
  BY FS_EmptySet
<1>4. Cardinality(A \union B) = Cardinality(A) + Cardinality(B)
  BY <1>1, <1>2, <1>3
<1>5. PAGE_SIZE * (Cardinality(A) + Cardinality(B))
        = PAGE_SIZE * Cardinality(A) + PAGE_SIZE * Cardinality(B)
  BY <1>1
<1>6. PAGE_SIZE * Cardinality(A) \in Nat /\ PAGE_SIZE * Cardinality(B) \in Nat
  BY <1>1
<1>. QED  BY <1>1, <1>2, <1>4, <1>5, <1>6

\* A range of `count` frames.
LEMMA RunOf ==
  ASSUME NEW a \in Frame, NEW count \in Nat \ {0}
  PROVE  /\ count * PAGE_SIZE \in Nat \ {0}
         /\ PhysRange(a, a + count * PAGE_SIZE) \in AlignedRange
         /\ PhysRange(a, a + count * PAGE_SIZE).start = a
         /\ PhysRange(a, a + count * PAGE_SIZE).end = a + count * PAGE_SIZE
         /\ IsFiniteSet(FramesOf(PhysRange(a, a + count * PAGE_SIZE)))
         /\ PAGE_SIZE * Cardinality(FramesOf(PhysRange(a, a + count * PAGE_SIZE)))
              = count * PAGE_SIZE
<1>. DEFINE b == count * PAGE_SIZE  r == PhysRange(a, a + b)
<1>1. b \in Nat /\ b % PAGE_SIZE = 0 /\ a \in Nat /\ a % PAGE_SIZE = 0
  BY Sizes, MultipleMod DEF Frame
<1>2. b > 0
  BY Sizes
<1>. HIDE DEF b
<1>3. a + b \in Frame /\ a < a + b
  <2>1. PAGE_SIZE \in Nat \ {0}
    BY Sizes
  <2>2. (a + b) % PAGE_SIZE = 0
    BY ONLY <1>1, <2>1, SumOfMultiples
  <2>. QED  BY <1>1, <1>2, <2>2 DEF Frame
<1>4. r \in AlignedRange /\ r.start = a /\ r.end = a + b
  BY <1>3, PhysRangeAligned
<1>. HIDE DEF r
<1>5. IsFiniteSet(FramesOf(r)) /\ PAGE_SIZE * Cardinality(FramesOf(r)) = b
  <2>1. IsFiniteSet(FramesOf(r)) /\ PAGE_SIZE * Cardinality(FramesOf(r)) = r.end - r.start
    BY <1>4, FramesCount
  <2>. QED  BY <1>1, <1>4, <2>1
<1>. QED  BY <1>1, <1>2, <1>4, <1>5 DEF r, b

\* What FirstFit finds: a range, the run in it, and room for the pieces.
LEMMA FirstFitFound ==
  ASSUME IInv, NEW count \in Nat \ {0}, NEW alignment \in Alignments,
         FirstFit(count, alignment) # 0
  PROVE  LET i   == FirstFit(count, alignment)
             r   == free_ranges[i]
             run == RunIn(r, count, alignment)
         IN  /\ i \in DOMAIN free_ranges
             /\ run \in AlignedRange /\ run.start \in Nat /\ run.start % alignment = 0
             /\ run = PhysRange(run.start, run.start + count * PAGE_SIZE)
             /\ r.start <= run.start /\ run.end <= r.end
             /\ Len(free_ranges) - 1 + new_ranges_needed(r, run) <= MAX_RANGES
<1>. DEFINE F   == Fitting(count, alignment)
            i   == FirstFit(count, alignment)
            r   == free_ranges[i]
            run == RunIn(r, count, alignment)
<1>1. F # {} /\ i = Min(F)
  BY DEF FirstFit
<1>2. Len(free_ranges) \in Nat /\ DOMAIN free_ranges = 1 .. Len(free_ranges)
  BY SeqIsFunction DEF IInv, Ordered
<1>3. F \subseteq Nat
  BY <1>2 DEF Fitting
<1>4. i \in F
  BY <1>1, <1>3, MinOf
<1>. HIDE DEF i
<1>5. i \in DOMAIN free_ranges /\ Fits(r, count, alignment) /\ HasRoom(r, run)
  BY <1>4 DEF Fitting
<1>6. r \in AlignedRange
  BY <1>2, <1>5, SeqIsFunction DEF IInv, Ordered
<1>. HIDE DEF r
<1>. DEFINE a == AlignUp(r.start, alignment)
<1>7. r.start \in Nat /\ r.end \in Nat
  BY <1>6, RangeFields
<1>8. alignment \in Nat \ {0} /\ alignment % PAGE_SIZE = 0 /\ PAGE_SIZE \in Nat \ {0}
  BY Sizes
<1>9. a \in Nat /\ a % alignment = 0
  BY <1>7, <1>8, AlignUpRounds
<1>10. run = PhysRange(a, a + count * PAGE_SIZE)
  BY DEF RunIn
<1>. HIDE DEF a
<1>11. a \in Frame
  BY <1>8, <1>9, MultipleOfMultiple DEF Frame
<1>12. run \in AlignedRange /\ run.start = a
  BY <1>10, <1>11, RunOf
<1>13. r.start <= run.start /\ run.end <= r.end
  <2>1. run.start >= r.start /\ run.end <= r.end
    BY <1>5 DEF Fits
  <2>. HIDE DEF run
  <2>. QED  BY <1>7, <1>9, <1>12, <2>1
<1>14. Len(free_ranges) - 1 + new_ranges_needed(r, run) <= MAX_RANGES
  <2>. DEFINE n == new_ranges_needed(r, run)
  <2>1. n \in 0 .. 2
    BY DEF new_ranges_needed
  <2>2. ~(n > 1 /\ Len(free_ranges) >= MAX_RANGES)
    BY <1>5 DEF HasRoom
  <2>. HIDE DEF n
  <2>3. Len(free_ranges) - 1 + n <= MAX_RANGES
    BY <1>2, <2>1, <2>2, Sizes DEF IInv
  <2>. QED  BY <2>3 DEF n
<1>. QED  BY <1>5, <1>9, <1>10, <1>12, <1>13, <1>14 DEF i, r

\* An allocation that answers None keeps it.
LEMMA AllocateNoneStep ==
  ASSUME IInv, NEW count \in Nat, NEW alignment \in Alignments,
         AllocateNone(count, alignment), ~panicked
  PROVE  IInv'
<1>. USE DEF AllocateNone, Answer
<1>1. UNCHANGED <<free_ranges, allocated_bytes, total_bytes, panicked, pool, held>>
  OBVIOUS
<1>2. usable_frames' = usable_frames
  BY DEF usable_frames
<1>3. ret'.count = count /\ ret'.alignment = alignment
  OBVIOUS
<1>4. count > 0 => FirstFit(count, alignment)' = 0
  <2>1. FirstFit(count, alignment)' = FirstFit(count, alignment)
    BY DEF FirstFit, Fitting, HasRoom
  <2>. QED  BY <2>1
<1>5. count > 0 => FirstFit(ret.count, ret.alignment)' = 0
  BY <1>3, <1>4
<1>. QED  BY <1>1, <1>2, <1>3, <1>5 DEF IInv, Ordered

\* What a successful allocation does to the ranges.
LEMMA AllocateSomeEffect ==
  ASSUME IInv, NEW count \in Nat, NEW alignment \in Alignments,
         AllocateSome(count, alignment)
  PROVE  \E run \in AlignedRange :
           /\ count # 0 /\ run.start \in Frame /\ run.start % alignment = 0
           /\ run = PhysRange(run.start, run.start + count * PAGE_SIZE)
           /\ Ordered(free_ranges)' /\ (Len(free_ranges) <= MAX_RANGES)'
           /\ usable_frames' = usable_frames \ FramesOf(run)
           /\ FramesOf(run) \subseteq usable_frames
           /\ allocated_bytes' = allocated_bytes + count * PAGE_SIZE
           /\ held' = held \union FramesOf(run)
           /\ ret' = [call |-> "alloc", count |-> count, alignment |-> alignment,
                      frame |-> run.start]
           /\ UNCHANGED <<total_bytes, panicked, pool>>
<1>. DEFINE i    == FirstFit(count, alignment)
            r    == free_ranges[i]
            run  == RunIn(r, count, alignment)
            rest == remove_range(free_ranges, i)
            t    == InsertPieces(rest, r, run)
<1>1. count # 0 /\ i # 0 /\ count \in Nat \ {0}
  BY DEF AllocateSome
<1>2. /\ i \in DOMAIN free_ranges
      /\ run \in AlignedRange /\ run.start \in Nat /\ run.start % alignment = 0
      /\ run = PhysRange(run.start, run.start + count * PAGE_SIZE)
      /\ r.start <= run.start /\ run.end <= r.end
      /\ Len(free_ranges) - 1 + new_ranges_needed(r, run) <= MAX_RANGES
  BY <1>1, FirstFitFound
<1>3. Ordered(free_ranges)
  BY DEF IInv
<1>4. IF Len(rest) + new_ranges_needed(r, run) > MAX_RANGES
      THEN Panic("alloc", count, alignment)
      ELSE /\ free_ranges' = t
           /\ allocated_bytes' = allocated_bytes + count * PAGE_SIZE
           /\ held' = held \union FramesOf(run)
           /\ Answer("alloc", count, alignment, run.start)
           /\ UNCHANGED <<total_bytes, panicked, pool>>
  BY DEF AllocateSome
<1>. HIDE DEF i
<1>5. Len(rest) = Len(free_ranges) - 1
  BY <1>2, <1>3, RemoveSorted
<1>. HIDE DEF run
<1>6. /\ Ordered(t) /\ Len(t) = Len(free_ranges) - 1 + new_ranges_needed(r, run)
      /\ FramesIn(Range(t)) = FramesIn(Range(free_ranges)) \ FramesOf(run)
      /\ FramesOf(run) \subseteq FramesIn(Range(free_ranges))
  BY <1>2, <1>3, CutOut
<1>7. ~(Len(rest) + new_ranges_needed(r, run) > MAX_RANGES)
  <2>. DEFINE x == new_ranges_needed(r, run)  y == Len(rest)
  <2>1. x \in Nat
    BY DEF new_ranges_needed
  <2>2. y \in Int /\ y + x <= MAX_RANGES
    <3>1. Len(free_ranges) \in Nat
      BY <1>3, SeqIsFunction DEF Ordered
    <3>. QED  BY <1>2, <1>5, <3>1
  <2>3. MAX_RANGES \in Nat
    BY Sizes
  <2>. HIDE DEF x, y
  <2>4. ~(y + x > MAX_RANGES)
    BY <2>1, <2>2, <2>3
  <2>. QED  BY <2>4 DEF x, y
<1>. HIDE DEF t
<1>8. /\ free_ranges' = t
      /\ allocated_bytes' = allocated_bytes + count * PAGE_SIZE
      /\ held' = held \union FramesOf(run)
      /\ ret' = [call |-> "alloc", count |-> count, alignment |-> alignment,
                 frame |-> run.start]
      /\ UNCHANGED <<total_bytes, panicked, pool>>
  BY <1>4, <1>7 DEF Answer
<1>9. usable_frames' = FramesIn(Range(t)) /\ usable_frames = FramesIn(Range(free_ranges))
  BY <1>8 DEF usable_frames, FramesIn
<1>10. Ordered(free_ranges)' /\ (Len(free_ranges) <= MAX_RANGES)'
  <2>1. Len(t) <= MAX_RANGES
    BY <1>2, <1>6
  <2>. QED  BY <1>6, <1>8, <2>1 DEF Ordered
<1>11. run.start \in Frame
  BY <1>2 DEF AlignedRange, Frame
<1>. QED  BY <1>1, <1>2, <1>6, <1>8, <1>9, <1>10, <1>11

\* So does one that takes a run and puts back the pieces.
LEMMA AllocateSomeStep ==
  ASSUME IInv, NEW count \in Nat, NEW alignment \in Alignments,
         AllocateSome(count, alignment), ~panicked
  PROVE  IInv'
<1>1. PICK run \in AlignedRange :
           /\ count # 0 /\ run.start \in Frame /\ run.start % alignment = 0
           /\ run = PhysRange(run.start, run.start + count * PAGE_SIZE)
           /\ Ordered(free_ranges)' /\ (Len(free_ranges) <= MAX_RANGES)'
           /\ usable_frames' = usable_frames \ FramesOf(run)
           /\ FramesOf(run) \subseteq usable_frames
           /\ allocated_bytes' = allocated_bytes + count * PAGE_SIZE
           /\ held' = held \union FramesOf(run)
           /\ ret' = [call |-> "alloc", count |-> count, alignment |-> alignment,
                      frame |-> run.start]
           /\ UNCHANGED <<total_bytes, panicked, pool>>
  BY AllocateSomeEffect
<1>. DEFINE R == FramesOf(run)
<1>2. /\ pool \subseteq Frame /\ IsFiniteSet(pool)
      /\ usable_frames \union held = pool /\ usable_frames \intersect held = {}
      /\ allocated_bytes = PAGE_SIZE * Cardinality(held)
      /\ total_bytes = PAGE_SIZE * Cardinality(pool)
  BY DEF IInv
<1>3. IsFiniteSet(R) /\ PAGE_SIZE * Cardinality(R) = count * PAGE_SIZE
  BY <1>1, RunOf
<1>4. R \subseteq usable_frames /\ R \intersect held = {}
  BY <1>1, <1>2
<1>5. IsFiniteSet(held)
  BY <1>2, FS_Subset
<1>. HIDE DEF R
<1>6. PAGE_SIZE * Cardinality(held \union R)
        = PAGE_SIZE * Cardinality(held) + PAGE_SIZE * Cardinality(R)
  BY <1>3, <1>4, <1>5, CountSum
<1>7. held' = held \union R /\ usable_frames' = usable_frames \ R
  BY <1>1 DEF R
<1>8. allocated_bytes' = PAGE_SIZE * Cardinality(held')
  BY <1>1, <1>2, <1>3, <1>6, <1>7
<1>9. usable_frames' \union held' = pool' /\ usable_frames' \intersect held' = {}
  BY <1>1, <1>2, <1>4, <1>7
<1>10. ret'.frame # None
  BY <1>1, Sizes DEF Frame
<1>11. pool' = pool /\ total_bytes' = total_bytes
  BY <1>1
<1>12. panicked' \in BOOLEAN /\ ~panicked'
  <2>1. panicked' = panicked
    BY <1>1
  <2>2. panicked \in BOOLEAN
    BY DEF IInv
  <2>. QED  BY <2>1, <2>2
<1>13. total_bytes' = PAGE_SIZE * Cardinality(pool') /\ pool' \subseteq Frame /\ IsFiniteSet(pool')
  BY <1>2, <1>11
<1>14. Ordered(free_ranges)' /\ (Len(free_ranges) <= MAX_RANGES)'
  BY <1>1
<1>. QED  BY <1>8, <1>9, <1>10, <1>12, <1>13, <1>14 DEF IInv, Frame

\* What a free does to the ranges, when the array has room.
LEMMA FreeEffect ==
  ASSUME IInv, NEW start \in held, NEW count \in Nat, free_contiguous(start, count)
  PROVE  LET run == PhysRange(start, start + count * PAGE_SIZE)
         IN  \/ /\ panicked' = TRUE /\ ret'.call = "free"
                /\ UNCHANGED <<free_ranges, allocated_bytes, total_bytes, pool, held>>
             \/ /\ Ordered(free_ranges)' /\ (Len(free_ranges) <= MAX_RANGES)'
                /\ NoneTouch(free_ranges')
                /\ usable_frames' = usable_frames \union FramesOf(run)
                /\ FramesOf(run) \subseteq held
                /\ IsFiniteSet(FramesOf(run))
                /\ PAGE_SIZE * Cardinality(FramesOf(run)) = count * PAGE_SIZE
                /\ allocated_bytes' = IF allocated_bytes < count * PAGE_SIZE THEN 0
                                      ELSE allocated_bytes - count * PAGE_SIZE
                /\ held' = held \ FramesOf(run)
                /\ ret'.call = "free"
                /\ UNCHANGED <<total_bytes, panicked, pool>>
<1>. DEFINE run == PhysRange(start, start + count * PAGE_SIZE)
            ins == insert_range_sorted(free_ranges, run)
            t   == coalesce_ranges(ins)
<1>1. FramesOf(run) \subseteq held /\ count # 0 /\ count \in Nat \ {0}
  BY DEF free_contiguous
<1>2. CASE Len(free_ranges) >= MAX_RANGES
  <2>1. Panic("free", count, PAGE_SIZE)
    BY <1>2 DEF free_contiguous
  <2>. QED  BY <2>1 DEF Panic, Answer
<1>3. CASE ~(Len(free_ranges) >= MAX_RANGES)
  <2>1. /\ free_ranges' = t
        /\ allocated_bytes' = IF allocated_bytes < count * PAGE_SIZE THEN 0
                              ELSE allocated_bytes - count * PAGE_SIZE
        /\ held' = held \ FramesOf(run)
        /\ ret'.call = "free"
        /\ UNCHANGED <<total_bytes, panicked, pool>>
    BY <1>3 DEF free_contiguous, Answer
  <2>2. start \in Frame
    BY DEF IInv
  <2>3. /\ run \in AlignedRange /\ IsFiniteSet(FramesOf(run))
        /\ PAGE_SIZE * Cardinality(FramesOf(run)) = count * PAGE_SIZE
    BY <1>1, <2>2, RunOf
  <2>. HIDE DEF run
  <2>4. /\ Ordered(free_ranges) /\ Len(free_ranges) \in Nat
        /\ DOMAIN free_ranges = 1 .. Len(free_ranges)
        /\ \A i \in DOMAIN free_ranges : free_ranges[i] \in AlignedRange
    BY SeqIsFunction DEF IInv, Ordered
  <2>5. ASSUME NEW q \in Range(free_ranges)
        PROVE  Apart(run, q)
    <3>1. q \in AlignedRange
      BY <2>4 DEF Range
    <3>2. FramesOf(q) \subseteq usable_frames
      BY DEF usable_frames
    <3>3. FramesOf(run) \intersect FramesOf(q) = {}
      BY <1>1, <3>2 DEF IInv
    <3>. QED  BY <2>3, <3>1, <3>3, ApartFrames
  <2>6. /\ Ordered(ins) /\ Len(ins) = Len(free_ranges) + 1
        /\ FramesIn(Range(ins)) = FramesIn(Range(free_ranges)) \union FramesOf(run)
    BY <2>3, <2>4, <2>5, InsertFrames
  <2>. HIDE DEF ins
  <2>7. /\ Ordered(t) /\ NoneTouch(t) /\ Len(t) <= Len(ins)
        /\ FramesIn(Range(t)) = FramesIn(Range(ins))
    BY <2>6, CoalescedRanges
  <2>. HIDE DEF t
  <2>8. usable_frames' = FramesIn(Range(t)) /\ usable_frames = FramesIn(Range(free_ranges))
    BY <2>1 DEF usable_frames, FramesIn
  <2>9. Len(t) <= MAX_RANGES
    <3>1. Len(t) \in Nat
      BY <2>7, SeqIsFunction DEF Ordered
    <3>. QED  BY <1>3, <2>4, <2>6, <2>7, <3>1, Sizes
  <2>10. Ordered(free_ranges)' /\ (Len(free_ranges) <= MAX_RANGES)' /\ NoneTouch(free_ranges')
    BY <2>1, <2>7, <2>9 DEF Ordered
  <2>11. usable_frames' = usable_frames \union FramesOf(run)
    BY <2>6, <2>7, <2>8
  <2>. QED  BY <1>1, <2>1, <2>3, <2>10, <2>11 DEF run
<1>. QED  BY <1>2, <1>3

\* So does free_contiguous, panic included.
LEMMA FreeStep ==
  ASSUME IInv, NEW start \in held, NEW count \in Nat, free_contiguous(start, count), ~panicked
  PROVE  IInv'
<1>. DEFINE R == FramesOf(PhysRange(start, start + count * PAGE_SIZE))
<1>2. /\ pool \subseteq Frame /\ IsFiniteSet(pool)
      /\ usable_frames \union held = pool /\ usable_frames \intersect held = {}
      /\ allocated_bytes = PAGE_SIZE * Cardinality(held)
      /\ total_bytes = PAGE_SIZE * Cardinality(pool)
  BY DEF IInv
<1>3. CASE /\ panicked' = TRUE /\ ret'.call = "free"
           /\ UNCHANGED <<free_ranges, allocated_bytes, total_bytes, pool, held>>
  <2>1. usable_frames' = usable_frames
    BY <1>3 DEF usable_frames
  <2>2. Ordered(free_ranges)' /\ (Len(free_ranges) <= MAX_RANGES)'
    BY <1>3 DEF IInv, Ordered
  <2>3. panicked' \in BOOLEAN
    BY <1>3
  <2>4. ret'.call = "free"
    BY <1>3
  <2>. QED  BY <1>2, <1>3, <2>1, <2>2, <2>3, <2>4 DEF IInv, Frame
<1>4. CASE /\ Ordered(free_ranges)' /\ (Len(free_ranges) <= MAX_RANGES)'
           /\ NoneTouch(free_ranges')
           /\ usable_frames' = usable_frames \union R
           /\ R \subseteq held
           /\ IsFiniteSet(R)
           /\ PAGE_SIZE * Cardinality(R) = count * PAGE_SIZE
           /\ allocated_bytes' = IF allocated_bytes < count * PAGE_SIZE THEN 0
                                 ELSE allocated_bytes - count * PAGE_SIZE
           /\ held' = held \ R
           /\ ret'.call = "free"
           /\ UNCHANGED <<total_bytes, panicked, pool>>
  <2>. HIDE DEF R
  <2>1. IsFiniteSet(held) /\ IsFiniteSet(held \ R) /\ IsFiniteSet(R)
    BY <1>2, <1>4, FS_Subset
  <2>2. (held \ R) \union R = held /\ (held \ R) \intersect R = {}
    BY <1>4
  <2>3. /\ PAGE_SIZE * Cardinality(held)
             = PAGE_SIZE * Cardinality(held \ R) + PAGE_SIZE * Cardinality(R)
        /\ PAGE_SIZE * Cardinality(held \ R) \in Nat /\ PAGE_SIZE * Cardinality(R) \in Nat
    <3>. DEFINE H == held \ R
    <3>1. /\ PAGE_SIZE * Cardinality(H \union R)
               = PAGE_SIZE * Cardinality(H) + PAGE_SIZE * Cardinality(R)
          /\ PAGE_SIZE * Cardinality(H) \in Nat /\ PAGE_SIZE * Cardinality(R) \in Nat
      <4>1. IsFiniteSet(H) /\ IsFiniteSet(R) /\ H \intersect R = {}
        BY <2>1, <2>2
      <4>. HIDE DEF H
      <4>. QED  BY ONLY <4>1, CountSum
    <3>. QED  BY <2>2, <3>1
  <2>4. allocated_bytes' = PAGE_SIZE * Cardinality(held')
    <3>. DEFINE x == PAGE_SIZE * Cardinality(held \ R)  y == PAGE_SIZE * Cardinality(R)
    <3>1. allocated_bytes = x + y /\ x \in Nat /\ y \in Nat /\ y = count * PAGE_SIZE
      BY <1>2, <1>4, <2>3
    <3>2. allocated_bytes' = IF allocated_bytes < y THEN 0 ELSE allocated_bytes - y
      BY <1>4, <3>1
    <3>. HIDE DEF x, y
    <3>3. allocated_bytes' = x
      BY <3>1, <3>2
    <3>. QED  BY <1>4, <3>3 DEF x
  <2>5. usable_frames' \union held' = pool' /\ usable_frames' \intersect held' = {}
    BY <1>2, <1>4
  <2>6. panicked' \in BOOLEAN
    <3>1. panicked' = panicked /\ panicked \in BOOLEAN
      BY <1>4 DEF IInv
    <3>. QED  BY <3>1
  <2>7. ret'.call = "free"
    BY <1>4
  <2>8. total_bytes' = PAGE_SIZE * Cardinality(pool') /\ pool' \subseteq Frame /\ IsFiniteSet(pool')
    BY <1>2, <1>4
  <2>9. Ordered(free_ranges)' /\ (Len(free_ranges) <= MAX_RANGES)'
    BY <1>4
  <2>. QED  BY <2>4, <2>5, <2>6, <2>7, <2>8, <2>9 DEF IInv, Frame
<1>. QED  BY <1>3, <1>4, FreeEffect

\* The calls a step may make.
LEMMA StepCases ==
  ASSUME Next
  PROVE  /\ ~panicked
         /\ \/ \E count \in Nat, alignment \in Alignments :
                 AllocateNone(count, alignment) \/ AllocateSome(count, alignment)
            \/ \E start \in held, count \in Nat : free_contiguous(start, count)
<1>1. PAGE_SIZE \in Alignments /\ HUGE_PAGE_SIZE \in Alignments
  BY DEF Alignments
<1>2. Counts \subseteq Nat /\ HUGE_PAGE_SIZE \div PAGE_SIZE \in Nat
  BY Sizes
<1>3. CASE \E count \in Counts : allocate_contiguous(count)
  BY <1>1, <1>2, <1>3 DEF Next, allocate_contiguous, allocate_contiguous_aligned
<1>4. CASE allocate_huge_page
  BY <1>1, <1>2, <1>4 DEF Next, allocate_huge_page, allocate_contiguous_aligned
<1>5. CASE \E start \in held, count \in Counts : free_contiguous(start, count)
  BY <1>2, <1>5 DEF Next
<1>. QED  BY <1>3, <1>4, <1>5 DEF Next

\* So does every step.
LEMMA NextIInv ==
  ASSUME IInv, [Next]_vars
  PROVE  IInv'
<1>1. CASE Next
  <2>1. ~panicked
    BY <1>1, StepCases
  <2>2. ASSUME NEW count \in Nat, NEW alignment \in Alignments,
               AllocateNone(count, alignment) \/ AllocateSome(count, alignment)
        PROVE  IInv'
    BY <2>1, <2>2, AllocateNoneStep, AllocateSomeStep
  <2>3. ASSUME NEW start \in held, NEW count \in Nat, free_contiguous(start, count)
        PROVE  IInv'
    BY <2>1, <2>3, FreeStep
  <2>. QED  BY <1>1, <2>2, <2>3, StepCases
<1>2. CASE UNCHANGED vars
  <2>1. usable_frames' = usable_frames
    BY <1>2 DEF vars, usable_frames
  <2>2. FirstFit(ret.count, ret.alignment)' = FirstFit(ret.count, ret.alignment)
    BY <1>2 DEF vars, FirstFit, Fitting, HasRoom
  <2>3. Ordered(free_ranges)' <=> Ordered(free_ranges)
    BY <1>2 DEF vars, Ordered
  <2>. QED  BY <1>2, <2>1, <2>2, <2>3 DEF IInv, vars
<1>. QED  BY <1>1, <1>2

\* memory.rs: what init establishes and every allocation and free keeps: the
\* ranges ordered, page-aligned and apart, and the books that go with them.
THEOREM BootFramesInvariant == Spec => []IInv
<1>1. Init => IInv
  BY InitIInv
<1>2. IInv /\ [Next]_vars => IInv'
  BY NextIInv
<1>. QED  BY <1>1, <1>2, PTL DEF Spec
-----------------------------------------------------------------------------
\* memory.rs: through every split, insertion and merge the ranges stay in order
\* and apart, each frame that init took is free or held and not both, and the
\* two byte counters are the bytes free and held.
THEOREM FramesAreConserved == Spec => []FramesConserved
<1>1. ASSUME IInv PROVE FramesConserved
  <2>1. /\ Ordered(free_ranges) /\ Len(free_ranges) <= MAX_RANGES
        /\ pool \subseteq Frame /\ IsFiniteSet(pool)
        /\ usable_frames \union held = pool /\ usable_frames \intersect held = {}
        /\ allocated_bytes = PAGE_SIZE * Cardinality(held)
        /\ total_bytes = PAGE_SIZE * Cardinality(pool)
    BY <1>1 DEF IInv
  <2>2. /\ Len(free_ranges) \in Nat /\ DOMAIN free_ranges = 1 .. Len(free_ranges)
        /\ \A i \in DOMAIN free_ranges : free_ranges[i] \in AlignedRange
        /\ free_ranges \in Seq(AlignedRange) /\ Disjoint(free_ranges)
    BY <2>1, SeqIsFunction, OrderedDisjoint DEF Ordered
  <2>3. RangesSorted
    <3>. SUFFICES ASSUME NEW i \in DOMAIN free_ranges
                  PROVE  /\ free_ranges[i].start < free_ranges[i].end
                         /\ free_ranges[i].start % PAGE_SIZE = 0
                         /\ free_ranges[i].end % PAGE_SIZE = 0
                         /\ i < Len(free_ranges) => free_ranges[i].end <= free_ranges[i + 1].start
      BY <2>1 DEF RangesSorted
    <3>1. i < Len(free_ranges) => i + 1 \in DOMAIN free_ranges /\ i < i + 1
      BY <2>2
    <3>2. i < Len(free_ranges) => free_ranges[i].end <= free_ranges[i + 1].start
      BY <2>1, <3>1 DEF Ordered
    <3>. QED  BY <2>2, <3>2 DEF AlignedRange
  <2>4. TotalBytes(free_ranges) = PAGE_SIZE * Cardinality(usable_frames)
    BY <2>2, TotalCounts, UsableFrames
  <2>5. IsFiniteSet(usable_frames) /\ IsFiniteSet(held)
    BY <2>1, FS_Subset
  <2>6. /\ PAGE_SIZE * Cardinality(usable_frames \union held)
             = PAGE_SIZE * Cardinality(usable_frames) + PAGE_SIZE * Cardinality(held)
        /\ PAGE_SIZE * Cardinality(usable_frames) \in Nat /\ PAGE_SIZE * Cardinality(held) \in Nat
    BY ONLY <2>1, <2>5, CountSum
  <2>7. free_memory = TotalBytes(free_ranges)
    <3>. DEFINE x == PAGE_SIZE * Cardinality(usable_frames)
                y == PAGE_SIZE * Cardinality(held)
    <3>1. total_bytes = x + y /\ allocated_bytes = y /\ x \in Nat /\ y \in Nat
      BY <2>1, <2>6
    <3>. HIDE DEF x, y
    <3>2. free_memory = x
      BY <3>1 DEF free_memory
    <3>. QED  BY <2>4, <3>2 DEF x
  <2>. QED  BY <2>1, <2>3, <2>7 DEF FramesConserved
<1>. QED  BY <1>1, BootFramesInvariant, PTL

\* insert_range_sorted: only a free can find the array full; an allocation skips
\* the ranges whose pieces would not fit.
THEOREM AllocationsDoNotPanic == Spec => []AllocNeverPanics
<1>1. IInv => AllocNeverPanics
  BY DEF IInv, AllocNeverPanics
<1>. QED  BY <1>1, BootFramesInvariant, PTL

\* In ranges that do not touch, a run of free frames lies within one of them.
LEMMA RunWithinRange ==
  ASSUME NEW s, Ordered(s), NoneTouch(s), NEW run \in AlignedRange,
         FramesOf(run) \subseteq FramesIn(Range(s))
  PROVE  \E i \in DOMAIN s : s[i].start <= run.start /\ run.end <= s[i].end
<1>. DEFINE n == Len(s)
<1>1. /\ n \in Nat /\ DOMAIN s = 1 .. n
      /\ \A i \in 1 .. n : s[i] \in AlignedRange
      /\ \A i, j \in 1 .. n : i < j => s[i].end <= s[j].start
      /\ \A i \in 1 .. n - 1 : s[i].end # s[i + 1].start
  BY SeqIsFunction DEF Ordered, NoneTouch
<1>2. \A i \in 1 .. n : s[i].start \in Nat /\ s[i].end \in Nat /\ s[i].start < s[i].end
  BY <1>1, RangeFields
<1>3. /\ run.start \in Nat /\ run.end \in Nat /\ run.start < run.end /\ run.start \in Frame
      /\ FramesOf(run) = {a \in Frame : run.start <= a /\ a < run.end}
  BY FramesBetween DEF AlignedRange, Frame
<1>4. \A i \in 1 .. n : FramesOf(s[i]) = {a \in Frame : s[i].start <= a /\ a < s[i].end}
  BY <1>1, FramesBetween
<1>5. FramesIn(Range(s)) = UNION {FramesOf(s[i]) : i \in 1 .. n}
  BY <1>1, FramesInSeq
<1>. HIDE DEF n
<1>6. run.start \in FramesOf(run)
  BY <1>3
<1>7. PICK k \in 1 .. n : run.start \in FramesOf(s[k])
  BY <1>5, <1>6
<1>8. s[k].start <= run.start /\ run.start < s[k].end
  BY <1>4, <1>7
<1>9. ASSUME s[k].end < run.end
      PROVE  FALSE
  <2>1. s[k].end \in Frame
    BY <1>1 DEF AlignedRange, Frame
  <2>2. s[k].end \in FramesOf(run)
    BY <1>2, <1>3, <1>8, <1>9, <2>1
  <2>3. PICK j \in 1 .. n : s[k].end \in FramesOf(s[j])
    BY <1>5, <2>2
  <2>4. s[j].start <= s[k].end /\ s[k].end < s[j].end
    BY <1>4, <2>3
  <2>5. CASE j < k
    <3>1. s[j].end <= s[k].start
      BY <1>1, <2>5
    <3>. QED  BY <1>2, <2>4, <3>1
  <2>6. CASE j = k
    BY <1>2, <2>4, <2>6
  <2>7. CASE j = k + 1
    <3>1. k \in 1 .. n - 1 /\ s[k].end <= s[j].start /\ s[k].end # s[k + 1].start
      BY <1>1, <2>7
    <3>. QED  BY <1>2, <2>4, <2>7, <3>1
  <2>8. CASE j > k + 1
    <3>1. k + 1 \in 1 .. n /\ s[k].end <= s[k + 1].start /\ s[k + 1].end <= s[j].start
      BY <1>1, <2>8
    <3>. QED  BY <1>2, <2>4, <3>1
  <2>. QED  BY <1>1, <2>5, <2>6, <2>7, <2>8
<1>10. run.end <= s[k].end
  BY <1>2, <1>3, <1>9
<1>. QED  BY <1>1, <1>8, <1>10

\* "Returns the starting physical frame, or None if not enough contiguous
\* memory" (allocate_contiguous_aligned): true whenever no two ranges touch and
\* the array has room.
THEOREM NoneIsJustified == Spec => []NoneMeansNoMemoryWhenMerged
<1>1. ASSUME IInv PROVE NoneMeansNoMemoryWhenMerged
  <2>. SUFFICES ASSUME Merged, Len(free_ranges) < MAX_RANGES,
                       ret.call = "alloc", ret.frame = None, ret.count > 0,
                       RunExists(ret.count, ret.alignment)
                PROVE  FALSE
    BY DEF NoneMeansNoMemoryWhenMerged, NoneMeansNoMemory
  <2>. DEFINE c == ret.count  al == ret.alignment
  <2>1. c \in Nat \ {0} /\ al \in Alignments /\ FirstFit(c, al) = 0
    BY <1>1 DEF IInv
  <2>2. PICK a \in usable_frames :
          /\ a % al = 0
          /\ FramesOf(PhysRange(a, a + c * PAGE_SIZE)) \subseteq usable_frames
    BY DEF RunExists
  <2>. DEFINE run == PhysRange(a, a + c * PAGE_SIZE)
  <2>3. a \in Frame /\ a \in Nat
    BY <1>1 DEF IInv, Frame
  <2>4. run \in AlignedRange /\ run.start = a /\ run.end = a + c * PAGE_SIZE
        /\ c * PAGE_SIZE \in Nat
    BY <2>1, <2>3, RunOf
  <2>5. FramesOf(run) \subseteq FramesIn(Range(free_ranges))
    BY <2>2, UsableFrames
  <2>6. Ordered(free_ranges) /\ NoneTouch(free_ranges)
    BY <1>1 DEF IInv, Merged, NoneTouch
  <2>. HIDE DEF run
  <2>7. PICK i \in DOMAIN free_ranges :
          free_ranges[i].start <= run.start /\ run.end <= free_ranges[i].end
    BY <2>4, <2>5, <2>6, RunWithinRange
  <2>. DEFINE r == free_ranges[i]  u == AlignUp(r.start, al)
  <2>8. /\ r \in AlignedRange /\ Len(free_ranges) \in Nat
        /\ DOMAIN free_ranges = 1 .. Len(free_ranges)
    BY <2>6, SeqIsFunction DEF Ordered
  <2>9. r.start \in Nat /\ r.end \in Nat
    BY <2>8, RangeFields
  <2>10. al \in Nat \ {0}
    BY <2>1, Sizes
  <2>11. u \in Nat /\ r.start <= u /\ u <= a
    BY <2>2, <2>3, <2>4, <2>7, <2>9, <2>10, AlignUpRounds
  <2>12. /\ RunIn(r, c, al).start = u /\ RunIn(r, c, al).end = u + c * PAGE_SIZE
    BY DEF RunIn, PhysRange
  <2>. HIDE DEF r, u, c, al
  <2>13. Fits(r, c, al)
    <3>1. u >= r.start /\ u + c * PAGE_SIZE <= r.end
      <4>1. run.end <= r.end
        BY <2>7 DEF r
      <4>. QED  BY <2>3, <2>4, <2>9, <2>11, <4>1
    <3>. QED  BY <2>12, <3>1 DEF Fits
  <2>14. HasRoom(r, RunIn(r, c, al))
    <3>1. ~(Len(free_ranges) >= MAX_RANGES)
      BY <2>8, Sizes
    <3>. QED  BY <3>1 DEF HasRoom
  <2>15. i \in Fitting(c, al)
    BY <2>13, <2>14 DEF Fitting, r
  <2>16. FirstFit(c, al) = Min(Fitting(c, al)) /\ Fitting(c, al) # {}
    BY <2>15 DEF FirstFit
  <2>17. Fitting(c, al) \subseteq 1 .. Len(free_ranges)
    BY <2>8 DEF Fitting
  <2>18. Min(Fitting(c, al)) \in Fitting(c, al)
    BY <2>16, <2>17, MinOf
  <2>. QED  BY <2>1, <2>16, <2>17, <2>18
<1>. QED  BY <1>1, BootFramesInvariant, PTL

\* coalesce_ranges: a free leaves no two ranges that touch.
THEOREM FreesMerge == Spec => MergedAfterFree
<1>1. ASSUME IInv, [Next]_vars
      PROVE  [ret'.call = "free" /\ held' # held => Merged']_vars
  <2>. SUFFICES ASSUME Next, ret'.call = "free", held' # held PROVE Merged'
    BY <1>1
  <2>1. ASSUME NEW count \in Nat, NEW alignment \in Alignments,
               AllocateNone(count, alignment) \/ AllocateSome(count, alignment)
        PROVE  FALSE
    <3>1. CASE AllocateNone(count, alignment)
      BY <3>1 DEF AllocateNone
    <3>2. CASE AllocateSome(count, alignment)
      <4>1. ret'.call = "alloc"
        BY <1>1, <3>2, AllocateSomeEffect
      <4>. QED  BY <4>1
    <3>. QED  BY <2>1, <3>1, <3>2
  <2>2. ASSUME NEW start \in held, NEW count \in Nat, free_contiguous(start, count)
        PROVE  Merged'
    <3>1. held' = held \/ NoneTouch(free_ranges')
      BY <1>1, <2>2, FreeEffect
    <3>. QED  BY <3>1 DEF Merged, NoneTouch
  <2>. QED  BY <2>1, <2>2, StepCases
<1>. QED  BY <1>1, BootFramesInvariant, PTL DEF Spec, MergedAfterFree

\* allocate_contiguous_aligned: the answer is aligned as asked, and exactly its
\* frames, all free before, become held.
THEOREM AnswersFitRequests == Spec => AnswersFit
<1>. DEFINE A == ret'.call = "alloc" /\ ret'.frame # None /\ held' # held =>
                   /\ ret'.frame % ret'.alignment = 0
                   /\ held' \ held = FramesOf(PhysRange(ret'.frame, ret'.frame + ret'.count * PAGE_SIZE))
                   /\ held' \ held \subseteq usable_frames
<1>1. ASSUME IInv, [Next]_vars
      PROVE  [A]_vars
  <2>. SUFFICES ASSUME Next, ret'.call = "alloc", held' # held PROVE A
    BY <1>1
  <2>1. ASSUME NEW count \in Nat, NEW alignment \in Alignments,
               AllocateNone(count, alignment) \/ AllocateSome(count, alignment)
        PROVE  A
    <3>1. CASE AllocateNone(count, alignment)
      BY <3>1 DEF AllocateNone
    <3>2. CASE AllocateSome(count, alignment)
      <4>1. PICK run \in AlignedRange :
              /\ run.start % alignment = 0
              /\ run = PhysRange(run.start, run.start + count * PAGE_SIZE)
              /\ FramesOf(run) \subseteq usable_frames
              /\ held' = held \union FramesOf(run)
              /\ ret' = [call |-> "alloc", count |-> count, alignment |-> alignment,
                         frame |-> run.start]
        BY <1>1, <3>2, AllocateSomeEffect
      <4>2. held \intersect FramesOf(run) = {}
        BY <1>1, <4>1 DEF IInv
      <4>3. held' \ held = FramesOf(run)
        BY <4>1, <4>2
      <4>4. ret'.frame = run.start /\ ret'.count = count /\ ret'.alignment = alignment
        BY <4>1
      <4>5. FramesOf(run) = FramesOf(PhysRange(ret'.frame, ret'.frame + ret'.count * PAGE_SIZE))
        BY <4>1, <4>4
      <4>. QED  BY <4>1, <4>3, <4>4, <4>5
    <3>. QED  BY <2>1, <3>1, <3>2
  <2>2. ASSUME NEW start \in held, NEW count \in Nat, free_contiguous(start, count)
        PROVE  FALSE
    <3>1. ret'.call = "free"
      BY <1>1, <2>2, FreeEffect
    <3>. QED  BY <3>1
  <2>. QED  BY <2>1, <2>2, StepCases
<1>. QED  BY <1>1, BootFramesInvariant, PTL DEF Spec, AnswersFit
=============================================================================
