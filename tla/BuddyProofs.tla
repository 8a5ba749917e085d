---------------------------- MODULE BuddyProofs ----------------------------
(***************************************************************************)
(* Proofs about the buddy allocator, for every number of orders, pages and *)
(* frames.                                                                 *)
(***************************************************************************)
EXTENDS Buddy, WellFoundedInduction, TLAPS

(***************************************************************************)
(* Induction over the natural numbers, and that a function defined by      *)
(* recursion over 0 .. N is what its definition says.                      *)
(***************************************************************************)
\* Every non-empty set of natural numbers has a least element.
LEMMA LeastNumber ==
  ASSUME NEW T, T \subseteq Nat, T # {}
  PROVE  \E n \in T : \A m \in T : n <= m
<1>. DEFINE Less == {ss \in Nat \X Nat : ss[1] < ss[2]}
<1>1. IsWellFoundedOn(Less, Nat)
  BY NatLessThanWellFounded DEF OpToRel
<1>2. \A m, n \in Nat : m < n => <<m, n>> \in Less
  OBVIOUS
<1>. HIDE DEF Less
<1>3. PICK x \in T : \A y \in T : ~(<<y, x>> \in Less)
  BY <1>1, WFMin
<1>4. \A y \in T : x <= y
  <2>. SUFFICES ASSUME NEW y \in T PROVE ~(y < x)
    OBVIOUS
  <2>1. y < x => <<y, x>> \in Less
    BY <1>2
  <2>. QED  BY <1>3, <2>1
<1>. QED  BY <1>4

\* Induction over the natural numbers.
LEMMA Induction ==
  ASSUME NEW S, 0 \in S, \A n \in Nat : n \in S => n + 1 \in S
  PROVE  Nat \subseteq S
<1>. SUFFICES ASSUME Nat \ S # {} PROVE FALSE
  OBVIOUS
<1>1. PICK n \in Nat \ S : \A m \in Nat \ S : n <= m
  BY LeastNumber
<1>2. n # 0 /\ n - 1 \in Nat /\ n - 1 \in S
  BY <1>1
<1>. QED  BY <1>1, <1>2

\* step gives the n-th value from the one before it.
Steps(step, X, N) == step \in [1 .. N -> [X -> X]]

Iterates(g, X, base, step, N) ==
  /\ g \in [0 .. N -> X]
  /\ g[0] = base
  /\ \A n \in 1 .. N : g[n] = step[n][g[n - 1]]

\* A recursive definition over 0 .. N has a solution.
LEMMA Iterate ==
  ASSUME NEW X, NEW base \in X, NEW step, NEW N \in Nat, Steps(step, X, N)
  PROVE  \E g : Iterates(g, X, base, step, N)
<1>. DEFINE S == {M \in Nat : M <= N => \E g : Iterates(g, X, base, step, M)}
<1>1. 0 \in S
  <2>1. Iterates([n \in 0 .. 0 |-> base], X, base, step, 0)
    BY DEF Iterates
  <2>. QED  BY <2>1
<1>2. ASSUME NEW M \in Nat, M \in S
      PROVE  M + 1 \in S
  <2>. SUFFICES ASSUME M + 1 <= N PROVE \E h : Iterates(h, X, base, step, M + 1)
    OBVIOUS
  <2>1. PICK g : Iterates(g, X, base, step, M)
    BY <1>2
  <2>. DEFINE h == [n \in 0 .. M + 1 |-> IF n <= M THEN g[n] ELSE step[n][g[M]]]
  <2>2. \A n \in 1 .. M + 1, x \in X : step[n][x] \in X
    BY DEF Steps
  <2>3. h \in [0 .. M + 1 -> X]
    BY <2>1, <2>2 DEF Iterates
  <2>4. h[0] = base
    BY <2>1 DEF Iterates
  <2>5. ASSUME NEW n \in 1 .. M + 1
        PROVE  h[n] = step[n][h[n - 1]]
    <3>1. CASE n \in 1 .. M
      BY <2>1, <3>1 DEF Iterates
    <3>2. CASE n = M + 1
      BY <2>1, <3>2 DEF Iterates
    <3>. QED  BY <3>1, <3>2
  <2>. HIDE DEF h
  <2>6. Iterates(h, X, base, step, M + 1)
    BY <2>3, <2>4, <2>5 DEF Iterates
  <2>. QED  BY <2>6
<1>. HIDE DEF S
<1>3. N \in S
  BY <1>1, <1>2, Induction
<1>. QED  BY <1>3 DEF S

(***************************************************************************)
(* Arithmetic of blocks: S is a block size, k a block number.              *)
(***************************************************************************)
\* A multiple of S divides back to its factor.
LEMMA DivOfMultiple ==
  ASSUME NEW S \in Nat \ {0}, NEW k \in Nat
  PROVE  (k * S) \div S = k
  OBVIOUS

\* A product with a positive factor keeps the order.
LEMMA SmallFactor ==
  ASSUME NEW S \in Nat \ {0}, NEW x \in Int, S * x >= 0, S * x < 2 * S
  PROVE  x \in {0, 1}
<1>1. x >= 0
  <2>1. SUFFICES ASSUME x <= -1 PROVE FALSE
    OBVIOUS
  <2>2. S * x <= S * (-1)
    BY <2>1
  <2>. QED  BY <2>2
<1>2. x < 2
  <2>1. SUFFICES ASSUME x >= 2 PROVE FALSE
    OBVIOUS
  <2>2. S * x >= S * 2
    BY <2>1
  <2>. QED  BY <2>2
<1>. QED  BY <1>1, <1>2

\* Block k of size S lies in block k \div 2 of size 2 * S.
LEMMA PairOfMultiple ==
  ASSUME NEW S \in Nat \ {0}, NEW k \in Nat
  PROVE  (k * S) \div (2 * S) = k \div 2
<1>. DEFINE d == (k * S) \div (2 * S)
            m == (k * S) % (2 * S)
<1>1. k * S \in Nat /\ 2 * S \in Nat \ {0}
  OBVIOUS
<1>2. d \in Nat /\ m \in 0 .. 2 * S - 1 /\ k * S = (2 * S) * d + m
  BY <1>1
<1>3. S * (k - 2 * d) = m
  BY <1>2
<1>4. k - 2 * d \in {0, 1}
  <2>. HIDE DEF d, m
  <2>. QED  BY <1>2, <1>3, SmallFactor
<1>5. k \div 2 = d
  <2>. HIDE DEF d, m
  <2>. QED  BY <1>4, <1>2
<1>. QED  BY <1>5

(***************************************************************************)
(* Buddies.                                                                *)
(***************************************************************************)
\* The size of a block, and of the block one order up.
LEMMA Sizes ==
  ASSUME NEW o \in Orders
  PROVE  2^o \in Nat \ {0} /\ 2^(o + 1) \in Nat \ {0} /\ 2^(o + 1) = 2 * 2^o
  BY ConstantsAssumption, PowersOfTwo DEF Orders

\* Aligned pages are block numbers times the block size.
LEMMA AlignedForm ==
  ASSUME NEW o \in Orders, NEW p \in Nat
  PROVE  /\ IsAligned(p, o) => \E k \in Nat : p = k * 2^o
         /\ \A k \in Nat : p = k * 2^o =>
              /\ IsAligned(p, o)
              /\ p \div 2^o = k
              /\ pair_index(p, o) = k \div 2
              /\ calculate_buddy_address(p, o) =
                   IF k % 2 = 0 THEN p + 2^o ELSE p - 2^o
<1>. DEFINE S == 2^o
<1>1. S \in Nat \ {0} /\ 2^(o + 1) = 2 * S
  BY Sizes
<1>2. ASSUME IsAligned(p, o) PROVE \E k \in Nat : p = k * S
  <2>1. p \div S \in Nat
    BY <1>1
  <2>. QED  BY <2>1, <1>2 DEF IsAligned
<1>3. ASSUME NEW k \in Nat, p = k * S
      PROVE  /\ IsAligned(p, o)
             /\ p \div S = k
             /\ pair_index(p, o) = k \div 2
             /\ calculate_buddy_address(p, o) = IF k % 2 = 0 THEN p + S ELSE p - S
  <2>. HIDE DEF S
  <2>1. p \div S = k
    BY <1>1, <1>3, DivOfMultiple
  <2>2. p \div (2 * S) = k \div 2
    BY <1>1, <1>3, PairOfMultiple
  <2>. QED
    BY <1>1, <1>3, <2>1, <2>2 DEF IsAligned, pair_index, calculate_buddy_address, S
<1>. QED  BY <1>2, <1>3

\* XOR with the block size: an involution that stays in the pair, and the
\* lower of the two buddies is a block of the next order.
LEMMA BuddyFacts ==
  ASSUME NEW o \in Orders, NEW p \in Nat, IsAligned(p, o)
  PROVE  LET b == calculate_buddy_address(p, o)
             m == IF p < b THEN p ELSE b
         IN  /\ b \in Nat
             /\ IsAligned(b, o)
             /\ calculate_buddy_address(b, o) = p
             /\ pair_index(b, o) = pair_index(p, o)
             /\ b = p + 2^o \/ p = b + 2^o
             /\ m = (m \div 2^(o + 1)) * 2^(o + 1)
<1>. DEFINE S == 2^o
            b == calculate_buddy_address(p, o)
            m == IF p < b THEN p ELSE b
<1>1. S \in Nat \ {0} /\ 2^(o + 1) = 2 * S
  BY Sizes
<1>2. PICK k \in Nat : p = k * S
  BY AlignedForm
<1>3. pair_index(p, o) = k \div 2 /\ b = (IF k % 2 = 0 THEN p + S ELSE p - S)
  BY <1>2, AlignedForm
<1>4. PICK j \in Nat : j = k \div 2 /\ (k = 2 * j \/ k = 2 * j + 1)
  OBVIOUS
<1>5. CASE k = 2 * j
  <2>1. b = p + S
    BY <1>3, <1>5
  <2>2. b = (k + 1) * S /\ k + 1 \in Nat /\ b \in Nat
    BY <2>1, <1>1, <1>2
  <2>3. IsAligned(b, o) /\ pair_index(b, o) = (k + 1) \div 2
        /\ calculate_buddy_address(b, o) = IF (k + 1) % 2 = 0 THEN b + S ELSE b - S
    <3>. HIDE DEF b
    <3>. QED  BY <2>2, AlignedForm
  <2>4. (k + 1) \div 2 = k \div 2 /\ (k + 1) % 2 = 1
    BY <1>5
  <2>5. m = p /\ p = j * (2 * S)
    BY <2>1, <1>1, <1>2, <1>5
  <2>6. m = (m \div (2 * S)) * (2 * S)
    <3>. HIDE DEF S, m, b
    <3>. QED  BY <2>5, <1>1, DivOfMultiple
  <2>7. calculate_buddy_address(b, o) = p
    <3>. HIDE DEF b
    <3>. QED  BY <2>1, <2>3, <2>4, <1>1
  <2>. QED  BY <1>1, <1>3, <2>1, <2>2, <2>3, <2>4, <2>6, <2>7
<1>6. CASE k = 2 * j + 1
  <2>1. b = p - S
    BY <1>3, <1>6
  <2>2. b = (k - 1) * S /\ k - 1 \in Nat /\ b \in Nat
    BY <2>1, <1>1, <1>2, <1>6
  <2>3. IsAligned(b, o) /\ pair_index(b, o) = (k - 1) \div 2
        /\ calculate_buddy_address(b, o) = IF (k - 1) % 2 = 0 THEN b + S ELSE b - S
    <3>. HIDE DEF b
    <3>. QED  BY <2>2, AlignedForm
  <2>4. (k - 1) \div 2 = k \div 2 /\ (k - 1) % 2 = 0
    BY <1>6
  <2>5. m = b /\ b = j * (2 * S)
    BY <2>1, <2>2, <1>1, <1>6
  <2>6. m = (m \div (2 * S)) * (2 * S)
    <3>. HIDE DEF S, m, b
    <3>. QED  BY <2>5, <1>1, DivOfMultiple
  <2>. QED  BY <1>1, <1>2, <1>3, <2>1, <2>2, <2>3, <2>4, <2>6
<1>. QED  BY <1>4, <1>5, <1>6

\* A pair has only two blocks.
LEMMA PairFacts ==
  ASSUME NEW o \in Orders, NEW p \in Nat, NEW q \in Nat,
         IsAligned(p, o), IsAligned(q, o), pair_index(p, o) = pair_index(q, o)
  PROVE  q = p \/ q = calculate_buddy_address(p, o)
<1>. DEFINE S == 2^o
<1>1. S \in Nat \ {0}
  BY Sizes
<1>2. PICK k \in Nat : p = k * S
  BY AlignedForm
<1>3. PICK l \in Nat : q = l * S
  BY AlignedForm
<1>4. k \div 2 = l \div 2
      /\ calculate_buddy_address(p, o) = IF k % 2 = 0 THEN p + S ELSE p - S
  BY <1>2, <1>3, AlignedForm
<1>5. l = k \/ (k % 2 = 0 /\ l = k + 1) \/ (k % 2 # 0 /\ l = k - 1)
  BY <1>4
<1>. QED
  <2>. HIDE DEF S
  <2>. QED  BY <1>1, <1>2, <1>3, <1>4, <1>5

\* The halves of a block of order o + 1.
LEMMA SplitFacts ==
  ASSUME NEW o \in Orders, NEW p \in Nat, p = (p \div 2^(o + 1)) * 2^(o + 1)
  PROVE  IsAligned(p, o) /\ calculate_buddy_address(p, o) = p + 2^o
<1>. DEFINE S == 2^o
            j == p \div 2^(o + 1)
<1>1. S \in Nat \ {0} /\ 2^(o + 1) = 2 * S
  BY Sizes
<1>2. j \in Nat /\ p = j * (2 * S)
  BY <1>1
<1>3. p = (2 * j) * S /\ 2 * j \in Nat /\ (2 * j) % 2 = 0
  <2>. HIDE DEF S, j
  <2>. QED  BY <1>1, <1>2
<1>. QED
  <2>. HIDE DEF j
  <2>. QED  BY <1>3, AlignedForm

(***************************************************************************)
(* Sets of blocks.                                                         *)
(***************************************************************************)
\* Aligned blocks within the managed range, no two of which share a page.
BlockSet(L) ==
  /\ L \subseteq Pages \X Orders
  /\ \A b \in L : IsAligned(b[1], b[2]) /\ b[1] + 2^b[2] <= MAX_PAGES
  /\ \A b, c \in L : b # c => Apart(b, c)

Covered(L) == {x \in Pages : \E b \in L : Covers(b, x)}

\* The lower half of a block and its buddy take the block's place.
LEMMA SplitBlock ==
  ASSUME NEW L, BlockSet(L), NEW p \in Pages, NEW o \in Orders,
         o + 1 \in Orders, <<p, o + 1>> \in L
  PROVE  LET K == L \ {<<p, o + 1>>}
             M == K \union {<<p, o>>, <<p + 2^o, o>>}
         IN  /\ p + 2^o \in Pages
             /\ <<p, o>> \notin K /\ <<p + 2^o, o>> \notin K
             /\ BlockSet(M)
             /\ Covered(M) = Covered(L)
<1>. DEFINE K == L \ {<<p, o + 1>>}
            lo == <<p, o>>
            hi == <<p + 2^o, o>>
            M == K \union {lo, hi}
<1>1. 2^o \in Nat \ {0} /\ 2^(o + 1) = 2 * 2^o
  BY Sizes
<1>2. IsAligned(p, o + 1) /\ p + 2^(o + 1) <= MAX_PAGES
  BY DEF BlockSet
<1>3. p \in Nat /\ MAX_PAGES \in Nat
  BY ConstantsAssumption DEF Pages
<1>4. p + 2^o \in Pages
  BY <1>1, <1>2, <1>3 DEF Pages
<1>5. IsAligned(p, o) /\ calculate_buddy_address(p, o) = p + 2^o
  BY <1>2, <1>3, SplitFacts DEF IsAligned
<1>6. IsAligned(p + 2^o, o)
  BY <1>3, <1>5, BuddyFacts
<1>7. \A c \in K : /\ c[1] \in Nat /\ c[2] \in Orders /\ c = <<c[1], c[2]>>
                   /\ 2^c[2] \in Nat \ {0}
                   /\ c[1] + 2^c[2] <= p \/ p + 2 * 2^o <= c[1]
  BY <1>1, Sizes DEF BlockSet, Apart, Pages
<1>8. \A c \in K : Apart(c, lo) /\ Apart(lo, c) /\ Apart(c, hi) /\ Apart(hi, c)
  BY <1>7, <1>1, <1>3 DEF Apart
<1>9. Apart(lo, hi) /\ Apart(hi, lo)
  BY <1>1, <1>3 DEF Apart
<1>10. lo \notin K /\ hi \notin K
  BY <1>7, <1>1, <1>3
<1>11. BlockSet(M)
  <2>1. M \subseteq Pages \X Orders
    BY <1>4 DEF BlockSet
  <2>2. \A b \in M : IsAligned(b[1], b[2]) /\ b[1] + 2^b[2] <= MAX_PAGES
    <3>1. \A b \in K : IsAligned(b[1], b[2]) /\ b[1] + 2^b[2] <= MAX_PAGES
      BY DEF BlockSet
    <3>2. p + 2^o <= MAX_PAGES /\ p + 2^o + 2^o <= MAX_PAGES
      BY <1>1, <1>2, <1>3
    <3>. QED  BY <3>1, <3>2, <1>5, <1>6
  <2>3. \A b, c \in K : b # c => Apart(b, c)
    BY DEF BlockSet
  <2>4. \A b, c \in M : b # c => Apart(b, c)
    BY <2>3, <1>8, <1>9
  <2>. QED  BY <2>1, <2>2, <2>4 DEF BlockSet
<1>12. \A x \in Pages : Covers(<<p, o + 1>>, x) <=> Covers(lo, x) \/ Covers(hi, x)
  BY <1>1, <1>3 DEF Covers, Pages
<1>13. Covered(M) = Covered(L)
  BY <1>12 DEF Covered
<1>. QED  BY <1>4, <1>10, <1>11, <1>13

\* A block takes the place of two buddies.
LEMMA MergeBlocks ==
  ASSUME NEW L, BlockSet(L), NEW p \in Pages, NEW o \in Orders, o + 1 \in Orders,
         <<p, o>> \in L, <<calculate_buddy_address(p, o), o>> \in L
  PROVE  LET b == calculate_buddy_address(p, o)
             m == IF p < b THEN p ELSE b
             K == L \ {<<p, o>>, <<b, o>>}
             M == K \union {<<m, o + 1>>}
         IN  /\ m \in Pages
             /\ <<m, o + 1>> \notin K
             /\ BlockSet(M)
             /\ Covered(M) = Covered(L)
<1>. DEFINE b == calculate_buddy_address(p, o)
            m == IF p < b THEN p ELSE b
            K == L \ {<<p, o>>, <<b, o>>}
            top == <<m, o + 1>>
            M == K \union {top}
<1>1. 2^o \in Nat \ {0} /\ 2^(o + 1) = 2 * 2^o
  BY Sizes
<1>2. p \in Nat /\ MAX_PAGES \in Nat
  BY ConstantsAssumption DEF Pages
<1>3. IsAligned(p, o) /\ p + 2^o <= MAX_PAGES /\ b + 2^o <= MAX_PAGES /\ b \in Pages
  BY DEF BlockSet
<1>4. /\ b = p + 2^o \/ p = b + 2^o
      /\ m = (m \div 2^(o + 1)) * 2^(o + 1)
  BY <1>2, <1>3, BuddyFacts
<1>5. m \in Pages /\ m \in Nat
  BY <1>2, <1>3 DEF Pages
<1>6. IsAligned(m, o + 1) /\ m + 2^(o + 1) <= MAX_PAGES
  <2>1. IsAligned(m, o + 1)
    BY <1>4 DEF IsAligned
  <2>2. m + 2 * 2^o <= MAX_PAGES
    <3>. HIDE DEF b
    <3>. QED  BY <1>1, <1>2, <1>3, <1>4 DEF Pages
  <2>. QED  BY <2>1, <2>2, <1>1
<1>7. \A c \in K : /\ c[1] \in Nat /\ c[2] \in Orders /\ c = <<c[1], c[2]>>
                   /\ 2^c[2] \in Nat \ {0}
                   /\ c[1] + 2^c[2] <= p \/ p + 2^o <= c[1]
                   /\ c[1] + 2^c[2] <= b \/ b + 2^o <= c[1]
  BY <1>1, Sizes DEF BlockSet, Apart, Pages
<1>8. \A c \in K : c[1] + 2^c[2] <= m \/ m + 2 * 2^o <= c[1]
  <2>. SUFFICES ASSUME NEW c \in K
                PROVE  c[1] + 2^c[2] <= m \/ m + 2 * 2^o <= c[1]
    OBVIOUS
  <2>. DEFINE start == c[1]
              size == 2^c[2]
  <2>1. /\ start \in Nat /\ size \in Nat \ {0} /\ b \in Nat
        /\ start + size <= p \/ p + 2^o <= start
        /\ start + size <= b \/ b + 2^o <= start
    BY <1>7, <1>3 DEF Pages
  <2>. HIDE DEF b, K, start, size
  <2>2. ASSUME b = p + 2^o PROVE start + size <= m \/ m + 2 * 2^o <= start
    BY <2>1, <2>2, <1>1, <1>2
  <2>3. ASSUME p = b + 2^o PROVE start + size <= m \/ m + 2 * 2^o <= start
    BY <2>1, <2>3, <1>1, <1>2
  <2>4. start + size <= m \/ m + 2 * 2^o <= start
    BY <2>2, <2>3, <1>4
  <2>. QED  BY <2>4 DEF start, size
<1>9. \A c \in K : Apart(c, top) /\ Apart(top, c)
  BY <1>8, <1>1 DEF Apart
<1>10. top \notin K
  <2>. HIDE DEF m
  <2>. QED  BY <1>7, <1>8, <1>1, <1>5
<1>11. BlockSet(M)
  <2>1. M \subseteq Pages \X Orders
    BY <1>5 DEF BlockSet
  <2>2. \A c \in M : IsAligned(c[1], c[2]) /\ c[1] + 2^c[2] <= MAX_PAGES
    <3>1. \A c \in K : IsAligned(c[1], c[2]) /\ c[1] + 2^c[2] <= MAX_PAGES
      BY DEF BlockSet
    <3>. QED  BY <3>1, <1>6
  <2>3. \A c, d \in K : c # d => Apart(c, d)
    BY DEF BlockSet
  <2>4. \A c, d \in M : c # d => Apart(c, d)
    BY <2>3, <1>9
  <2>. QED  BY <2>1, <2>2, <2>4 DEF BlockSet
<1>12. \A x \in Pages : Covers(top, x) <=> Covers(<<p, o>>, x) \/ Covers(<<b, o>>, x)
  <2>. HIDE DEF b
  <2>. QED  BY <1>1, <1>2, <1>3, <1>4 DEF Covers, Pages
<1>13. Covered(M) = Covered(L)
  BY <1>12 DEF Covered
<1>. QED  BY <1>5, <1>10, <1>11, <1>13

(***************************************************************************)
(* The bitmap.                                                             *)
(***************************************************************************)
\* The bit of every page's pair exists.
LEMMA PairIndexInRange ==
  ASSUME NEW p \in Pages, NEW o \in Orders
  PROVE  pair_index(p, o) \in Pages
<1>. DEFINE S == 2^(o + 1)
<1>1. S \in Nat \ {0} /\ p \in Nat /\ MAX_PAGES \in Nat
  BY Sizes, ConstantsAssumption DEF Pages
<1>. HIDE DEF S
<1>2. p \div S \in Nat /\ p \div S <= p
  BY <1>1
<1>. QED  BY <1>1, <1>2 DEF pair_index, Pages, S

\* Toggling the bit of a pair when exactly one block of the pair enters or
\* leaves the free list keeps the bitmap in agreement with the lists.
LEMMA ToggleKeepsAgreement ==
  ASSUME TypeOK, BitmapAgrees,
         NEW o \in Orders, NEW p \in Pages, IsAligned(p, o),
         NEW c \in {p, calculate_buddy_address(p, o)},
         bitmap' = toggle_bit(p, o),
         \A r \in Orders : r # o => free_lists'[r] = free_lists[r],
         \A q : q # c => (q \in free_lists'[o] <=> q \in free_lists[o]),
         c \in free_lists'[o] <=> c \notin free_lists[o]
  PROVE  BitmapAgrees'
<1>. DEFINE Tracked == 0 .. MAX_ORDER - 2
            b == calculate_buddy_address(p, o)
<1>. SUFFICES ASSUME NEW r \in Tracked, NEW q \in Pages, IsAligned(q, r)
              PROVE  Bit(q, r)' <=> (q \in free_lists'[r])
                                      # (calculate_buddy_address(q, r) \in free_lists'[r])
  BY DEF BitmapAgrees, IsAligned, calculate_buddy_address
<1>. DEFINE d == calculate_buddy_address(q, r)
<1>1. /\ MAX_ORDER \in Nat \ {0} /\ Tracked \subseteq Orders
      /\ p \in Nat /\ q \in Nat
  BY ConstantsAssumption DEF Orders, Pages
<1>2. Bit(q, r) <=> (q \in free_lists[r]) # (d \in free_lists[r])
  BY DEF BitmapAgrees
<1>3. /\ bitmap \in [Orders -> [Pages -> BOOLEAN]]
      /\ pair_index(p, o) \in Pages /\ pair_index(q, r) \in Pages
  BY <1>1, PairIndexInRange DEF TypeOK
<1>4. CASE r # o
  <2>1. bitmap'[r] = bitmap[r]
    BY <1>1, <1>3, <1>4 DEF toggle_bit
  <2>. QED  BY <1>1, <1>2, <1>4, <2>1 DEF Bit, pair_index
<1>5. CASE r = o
  <2>1. bitmap'[o] = [bitmap[o] EXCEPT ![pair_index(p, o)] = ~@]
    <3>1. o < MAX_ORDER - 1
      BY <1>1, <1>5
    <3>2. bitmap' = [bitmap EXCEPT ![o][pair_index(p, o)] = ~@]
      BY <3>1 DEF toggle_bit
    <3>. HIDE DEF Tracked
    <3>. QED  BY ONLY <3>2, <1>3, o \in Orders, Zenon
  <2>2. /\ b \in Nat /\ calculate_buddy_address(b, o) = p
        /\ pair_index(b, o) = pair_index(p, o) /\ b # p
    BY <1>1, BuddyFacts, Sizes, SMTT(30)
  <2>3. /\ d \in Nat /\ calculate_buddy_address(d, o) = q
    BY <1>1, <1>5, BuddyFacts
  <2>4. CASE q \in {p, b}
    <3>1. pair_index(q, o) = pair_index(p, o) /\ {q, d} = {p, b} /\ q # d
      BY <2>2, <2>4, <1>5
    <3>2. Bit(q, o)' <=> ~Bit(q, o)
      BY <2>1, <3>1, <1>3, <1>5 DEF Bit, pair_index
    <3>3. c = q \/ c = d
      BY <3>1
    <3>. QED  BY <3>1, <3>2, <3>3, <1>2, <1>5
  <2>5. CASE q \notin {p, b}
    <3>1. pair_index(q, o) # pair_index(p, o)
      BY <2>5, <1>1, <1>5, PairFacts
    <3>2. Bit(q, o)' <=> Bit(q, o)
      BY <2>1, <3>1, <1>3, <1>5 DEF Bit, pair_index
    <3>3. d \notin {p, b}
      BY <2>2, <2>3, <2>5
    <3>. QED  BY <3>2, <3>3, <2>5, <1>2, <1>5
  <2>. QED  BY <2>4, <2>5
<1>. QED  BY <1>4, <1>5

(***************************************************************************)
(* The invariant.                                                          *)
(***************************************************************************)
\* What the parts of the invariant say of the set of live blocks.
LEMMA LiveBlocks ==
  ASSUME IInv
  PROVE  BlockSet(Live) /\ Covered(Live) = fed \intersect Pages
<1>1. Live \subseteq Pages \X Orders
  BY DEF IInv, TypeOK, Live, FreeBlocks, InFlight
<1>2. BlockSet(Live)
  BY <1>1 DEF IInv, Aligned, NoOverlap, BlockSet
<1>3. Covered(Live) = fed \intersect Pages
  BY DEF IInv, PagesConserved, Covered
<1>. QED  BY <1>2, <1>3

\* And back, for the state after a step.
LEMMA FromLiveBlocks ==
  ASSUME TypeOK', BitmapAgrees', FullyMerged', BlockSet(Live'),
         Covered(Live') = fed' \intersect Pages,
         FreeBlocks' \intersect used' = {},
         InFlight' \intersect (FreeBlocks' \union used') = {}
  PROVE  IInv'
<1>1. Aligned' /\ NoOverlap'
  BY DEF BlockSet, Aligned, NoOverlap, IsAligned, Apart
<1>2. PagesConserved'
  BY DEF PagesConserved, Covered, Covers
<1>. QED  BY <1>1, <1>2 DEF IInv

\* What push_free and remove_frame do to the set of free blocks.
LEMMA ListUpdates ==
  ASSUME TypeOK, NEW p \in Pages, NEW o \in Orders
  PROVE  /\ free_lists' = push_free(p, o) =>
              /\ free_lists' \in [Orders -> SUBSET Pages]
              /\ FreeBlocks' = FreeBlocks \union {<<p, o>>}
         /\ free_lists' = remove_frame(p, o) =>
              /\ free_lists' \in [Orders -> SUBSET Pages]
              /\ FreeBlocks' = FreeBlocks \ {<<p, o>>}
<1>1. free_lists \in [Orders -> SUBSET Pages]
  BY DEF TypeOK
<1>2. ASSUME free_lists' = push_free(p, o)
      PROVE  /\ free_lists' \in [Orders -> SUBSET Pages]
             /\ FreeBlocks' = FreeBlocks \union {<<p, o>>}
  <2>1. free_lists' \in [Orders -> SUBSET Pages]
    BY <1>1, <1>2 DEF push_free
  <2>2. \A q \in Pages, r \in Orders :
          q \in free_lists'[r] <=> q \in free_lists[r] \/ <<q, r>> = <<p, o>>
    BY <1>1, <1>2 DEF push_free
  <2>. QED  BY <2>1, <2>2 DEF FreeBlocks
<1>3. ASSUME free_lists' = remove_frame(p, o)
      PROVE  /\ free_lists' \in [Orders -> SUBSET Pages]
             /\ FreeBlocks' = FreeBlocks \ {<<p, o>>}
  <2>1. free_lists' \in [Orders -> SUBSET Pages]
    BY <1>1, <1>3 DEF remove_frame
  <2>2. \A q \in Pages, r \in Orders :
          q \in free_lists'[r] <=> q \in free_lists[r] /\ <<q, r>> # <<p, o>>
    BY <1>1, <1>3 DEF remove_frame
  <2>. QED  BY <2>1, <2>2 DEF FreeBlocks
<1>. QED  BY <1>2, <1>3

\* toggle_bit keeps the type of the bitmap.
LEMMA ToggleType ==
  ASSUME TypeOK, NEW p \in Pages, NEW o \in Orders, bitmap' = toggle_bit(p, o)
  PROVE  bitmap' \in [Orders -> [Pages -> BOOLEAN]]
  BY PairIndexInRange DEF TypeOK, toggle_bit

\* What a toggled bitmap says of the bit of each pair.
LEMMA ToggledBit ==
  ASSUME TypeOK, NEW p \in Pages, NEW o \in Orders, o < MAX_ORDER - 1,
         bitmap' = toggle_bit(p, o)
  PROVE  bitmap'[o][pair_index(p, o)] = ~bitmap[o][pair_index(p, o)]
<1>1. bitmap \in [Orders -> [Pages -> BOOLEAN]] /\ pair_index(p, o) \in Pages
  BY PairIndexInRange DEF TypeOK
<1>2. bitmap' = [bitmap EXCEPT ![o][pair_index(p, o)] = ~@]
  BY DEF toggle_bit
<1>. QED  BY ONLY <1>1, <1>2, o \in Orders, Zenon

\* Nothing below reads the definitions of the parts when the lists and the
\* bitmap stay as they are.
LEMMA ListsUnchanged ==
  ASSUME UNCHANGED <<free_lists, bitmap>>
  PROVE  /\ BitmapAgrees => BitmapAgrees'
         /\ FullyMerged => FullyMerged'
         /\ FreeBlocks' = FreeBlocks
  BY DEF BitmapAgrees, FullyMerged, FreeBlocks, Bit, IsAligned,
         calculate_buddy_address, pair_index

\* Taking blocks off the lists cannot make two buddies free.
LEMMA Shrinks ==
  ASSUME FullyMerged, \A r \in Orders : free_lists'[r] \subseteq free_lists[r]
  PROVE  FullyMerged'
<1>1. 0 .. MAX_ORDER - 2 \subseteq Orders
  BY ConstantsAssumption DEF Orders
<1>. QED  BY <1>1 DEF FullyMerged, calculate_buddy_address

\* Freeing a block whose buddy is not free keeps the lists merged.
LEMMA GrowsByLoneBlock ==
  ASSUME TypeOK, FullyMerged, NEW o \in Orders, NEW p \in Pages, IsAligned(p, o),
         NEW c \in {p, calculate_buddy_address(p, o)},
         p \notin free_lists[o], calculate_buddy_address(p, o) \notin free_lists[o],
         \A r \in Orders : r # o => free_lists'[r] = free_lists[r],
         free_lists'[o] = free_lists[o] \union {c},
         \A q \in free_lists[o] : IsAligned(q, o)
  PROVE  FullyMerged'
<1>. DEFINE b == calculate_buddy_address(p, o)
<1>1. 0 .. MAX_ORDER - 2 \subseteq Orders /\ p \in Nat
  BY ConstantsAssumption DEF Orders, Pages
<1>2. b \in Nat /\ calculate_buddy_address(b, o) = p /\ b # p
  BY <1>1, BuddyFacts, Sizes
<1>. SUFFICES ASSUME NEW r \in 0 .. MAX_ORDER - 2, NEW q \in free_lists'[r]
              PROVE  calculate_buddy_address(q, r) \notin free_lists'[r]
  BY DEF FullyMerged, calculate_buddy_address
<1>3. CASE r # o
  BY <1>1, <1>3 DEF FullyMerged
<1>4. CASE r = o /\ q = c
  BY <1>2, <1>4
<1>5. CASE r = o /\ q # c
  <2>1. q \in free_lists[o] /\ q \in Nat /\ IsAligned(q, o)
    BY <1>5 DEF TypeOK, Pages
  <2>2. calculate_buddy_address(q, o) \notin free_lists[o]
    BY <2>1, <1>5 DEF FullyMerged
  <2>3. calculate_buddy_address(calculate_buddy_address(q, o), o) = q
    BY <2>1, BuddyFacts
  <2>4. calculate_buddy_address(q, o) # c
    BY <2>1, <2>3, <1>2
  <2>. QED  BY <2>2, <2>4, <1>5
<1>. QED  BY <1>3, <1>4, <1>5

\* Blocks on a list are aligned.
LEMMA FreeAligned ==
  ASSUME IInv, NEW o \in Orders
  PROVE  \A q \in free_lists[o] : q \in Pages /\ IsAligned(q, o)
<1>. SUFFICES ASSUME NEW q \in free_lists[o] PROVE q \in Pages /\ IsAligned(q, o)
  OBVIOUS
<1>1. q \in Pages /\ <<q, o>> \in Live
  BY DEF IInv, TypeOK, Live, FreeBlocks
<1>2. IsAligned(<<q, o>>[1], <<q, o>>[2])
  BY <1>1 DEF IInv, Aligned
<1>. QED  BY <1>1, <1>2

\* The empty allocator satisfies the invariant.
LEMMA InitInvariant == Init => IInv
<1>. SUFFICES ASSUME Init PROVE IInv
  OBVIOUS
<1>. USE ConstantsAssumption DEF Init
<1>1. TypeOK
  BY DEF TypeOK, Orders, Pages, Ops
<1>2. FreeBlocks = {} /\ InFlight = {} /\ Live = {}
  BY DEF FreeBlocks, InFlight, Live
<1>3. Aligned /\ NoOverlap /\ PagesConserved
  BY <1>2 DEF Aligned, NoOverlap, PagesConserved
<1>4. FullyMerged
  BY DEF FullyMerged, Orders
<1>5. BitmapAgrees
  <2>1. ASSUME NEW o \in 0 .. MAX_ORDER - 2, NEW p \in Pages
        PROVE  ~Bit(p, o) /\ free_lists[o] = {}
    <3>1. o \in Orders
      BY DEF Orders
    <3>2. pair_index(p, o) \in Pages
      BY <3>1, PairIndexInRange
    <3>. QED  BY <3>1, <3>2 DEF Bit
  <2>. QED  BY ONLY <2>1, SMT DEF BitmapAgrees
<1>. QED  BY <1>1, <1>3, <1>4, <1>5 DEF IInv

\* When dealloc sees the bit of its pair set, the buddy is on the list.
LEMMA MergeFindsBuddyFromInvariant == IInv => MergeFindsBuddy
<1>. SUFFICES ASSUME IInv, op = "dealloc", order < MAX_ORDER - 1, Bit(ptr, order)
              PROVE  calculate_buddy_address(ptr, order) \in free_lists[order]
  BY DEF MergeFindsBuddy
<1>1. order \in 0 .. MAX_ORDER - 2 /\ ptr \in Pages /\ order \in Orders
  BY ConstantsAssumption DEF IInv, TypeOK, Orders
<1>2. InFlight = {<<ptr, order>>}
  BY DEF InFlight
<1>3. IsAligned(ptr, order)
  <2>1. <<ptr, order>> \in Live
    BY <1>2 DEF Live
  <2>2. IsAligned(<<ptr, order>>[1], <<ptr, order>>[2])
    BY <2>1 DEF IInv, Aligned
  <2>. QED  BY <2>2
<1>4. ptr \notin free_lists[order]
  <2>1. <<ptr, order>> \notin FreeBlocks
    BY <1>2 DEF IInv, NoOverlap
  <2>. QED  BY <2>1, <1>1 DEF FreeBlocks
<1>. QED  BY <1>1, <1>3, <1>4 DEF IInv, BitmapAgrees

\* The steps that move no block between the lists: calls and returns.
LEMMA QuietSteps ==
  ASSUME IInv, UNCHANGED <<free_lists, bitmap>>, TypeOK',
         Live' = Live, fed' = fed,
         FreeBlocks \intersect used' = {},
         InFlight' \intersect (FreeBlocks \union used') = {}
  PROVE  IInv'
<1>1. BitmapAgrees' /\ FullyMerged' /\ FreeBlocks' = FreeBlocks
  BY ListsUnchanged DEF IInv
<1>2. BlockSet(Live') /\ Covered(Live') = fed' \intersect Pages
  BY LiveBlocks
<1>. QED  BY <1>1, <1>2, FromLiveBlocks

\* Starting a call of alloc changes no block.
LEMMA AllocInvariant ==
  ASSUME IInv, NEW o \in 0 .. MAX_ORDER, Alloc(o)
  PROVE  IInv'
<1>1. TypeOK'
  BY ConstantsAssumption DEF IInv, TypeOK, Alloc, Call, Ops, Pages
<1>2. InFlight = {} /\ InFlight' = {}
  BY DEF Alloc, Call, InFlight
<1>3. UNCHANGED <<free_lists, bitmap>> /\ fed' = fed /\ used' = used
  BY DEF Alloc
<1>4. FreeBlocks' = FreeBlocks
  BY <1>3, ListsUnchanged
<1>5. Live' = Live
  BY <1>2, <1>3, <1>4 DEF Live
<1>. QED  BY <1>1, <1>2, <1>3, <1>5, QuietSteps DEF IInv, NoOverlap

\* Returning None changes no block.
LEMMA AllocNoneInvariant ==
  ASSUME IInv, AllocNone
  PROVE  IInv'
<1>1. TypeOK'
  BY ConstantsAssumption DEF IInv, TypeOK, AllocNone, Return, Ops, Pages
<1>2. InFlight = {} /\ InFlight' = {}
  BY DEF AllocNone, Return, InFlight
<1>3. UNCHANGED <<free_lists, bitmap>> /\ fed' = fed /\ used' = used
  BY DEF AllocNone
<1>4. FreeBlocks' = FreeBlocks
  BY <1>3, ListsUnchanged
<1>5. Live' = Live
  BY <1>2, <1>3, <1>4 DEF Live
<1>. QED  BY <1>1, <1>2, <1>3, <1>5, QuietSteps DEF IInv, NoOverlap

\* Going on to the next order changes no block.
LEMMA AllocSearchInvariant ==
  ASSUME IInv, AllocSearch
  PROVE  IInv'
<1>1. TypeOK'
  BY ConstantsAssumption DEF IInv, TypeOK, AllocSearch, Call, Ops, Pages
<1>2. InFlight = {} /\ InFlight' = {}
  BY DEF AllocSearch, Call, InFlight
<1>3. UNCHANGED <<free_lists, bitmap>> /\ fed' = fed /\ used' = used
  BY DEF AllocSearch
<1>4. FreeBlocks' = FreeBlocks
  BY <1>3, ListsUnchanged
<1>5. Live' = Live
  BY <1>2, <1>3, <1>4 DEF Live
<1>. QED  BY <1>1, <1>2, <1>3, <1>5, QuietSteps DEF IInv, NoOverlap

\* The block in flight becomes the caller's.
LEMMA AllocReturnInvariant ==
  ASSUME IInv, AllocReturn
  PROVE  IInv'
<1>1. TypeOK'
  BY ConstantsAssumption DEF IInv, TypeOK, AllocReturn, Return, Ops, Pages
<1>2. InFlight = {<<ptr, order>>} /\ InFlight' = {} /\ used' = used \union InFlight
  BY DEF AllocReturn, Return, InFlight
<1>3. UNCHANGED <<free_lists, bitmap>> /\ fed' = fed
  BY DEF AllocReturn
<1>4. FreeBlocks' = FreeBlocks
  BY <1>3, ListsUnchanged
<1>5. Live' = Live
  BY <1>2, <1>3, <1>4 DEF Live
<1>6. FreeBlocks \intersect used' = {}
  BY <1>2 DEF IInv, NoOverlap
<1>. QED  BY <1>1, <1>2, <1>3, <1>5, <1>6, QuietSteps

\* A freed block is in flight until it is listed or merged.
LEMMA DeallocInvariant ==
  ASSUME IInv, NEW p \in Pages, NEW o \in Orders, Dealloc(p, o)
  PROVE  IInv'
<1>1. TypeOK'
  <2>1. o \in 0 .. MAX_ORDER /\ 0 \in 0 .. MAX_ORDER
    BY ConstantsAssumption DEF Orders
  <2>. QED  BY <2>1 DEF IInv, TypeOK, Dealloc, Call, Ops
<1>2. InFlight = {} /\ InFlight' = {<<p, o>>} /\ used' = used \ {<<p, o>>}
      /\ <<p, o>> \in used
  BY DEF Dealloc, Call, InFlight
<1>3. UNCHANGED <<free_lists, bitmap>> /\ fed' = fed
  BY DEF Dealloc
<1>4. FreeBlocks' = FreeBlocks
  BY <1>3, ListsUnchanged
<1>5. Live' = Live
  BY <1>2, <1>3, <1>4 DEF Live
<1>6. FreeBlocks \intersect used' = {} /\ InFlight' \intersect (FreeBlocks \union used') = {}
  BY <1>2 DEF IInv, NoOverlap
<1>. QED  BY <1>1, <1>3, <1>5, <1>6, QuietSteps

\* A new frame is apart from every block because no block covers it.
LEMMA AddFrameInvariant ==
  ASSUME IInv, NEW f \in Frames, AddFrame(f)
  PROVE  IInv'
<1>. DEFINE new == <<f, 0>>
<1>1. /\ UNCHANGED <<free_lists, bitmap, used>> /\ fed' = fed \union {f} /\ f \notin fed
      /\ f \in Nat /\ InFlight = {} /\ op = "idle"
  BY ConstantsAssumption DEF AddFrame, InFlight
<1>2. BitmapAgrees' /\ FullyMerged' /\ FreeBlocks' = FreeBlocks
  BY <1>1, ListsUnchanged DEF IInv
<1>3. FreeBlocks \intersect used = {} /\ BlockSet(Live)
      /\ Covered(Live) = fed \intersect Pages
  BY LiveBlocks DEF IInv, NoOverlap
<1>4. CASE ~InRange(f)
  <2>1. UNCHANGED <<op, ptr, order, want>> /\ f \notin Pages
    BY <1>1, <1>4, ConstantsAssumption DEF AddFrame, InRange, Pages
  <2>2. TypeOK'
    BY <1>1, <2>1 DEF IInv, TypeOK
  <2>3. InFlight' = {} /\ Live' = Live
    BY <1>1, <1>2, <2>1 DEF InFlight, Live
  <2>4. fed' \intersect Pages = fed \intersect Pages
    BY <1>1, <2>1
  <2>. QED  BY <1>1, <1>2, <1>3, <2>2, <2>3, <2>4, FromLiveBlocks
<1>5. CASE InRange(f)
  <2>1. Call("dealloc", f, 0, 0) /\ f \in Pages /\ 0 \in Orders /\ 2^0 = 1
    BY <1>1, <1>5, ConstantsAssumption, PowersOfTwo DEF AddFrame, InRange, Pages, Orders
  <2>2. TypeOK'
    <3>1. 0 \in 0 .. MAX_ORDER
      BY ConstantsAssumption
    <3>. QED  BY <1>1, <2>1, <3>1 DEF IInv, TypeOK, Call, Ops
  <2>3. InFlight' = {new}
    BY <2>1 DEF InFlight, Call
  <2>4. Live' = Live \union {new}
    BY <1>1, <1>2, <2>3 DEF Live
  <2>5. \A b \in Live : ~Covers(b, f)
    BY <1>1, <1>3, <2>1 DEF Covered
  <2>6. new \notin Live
    <3>1. Covers(new, f)
      BY <1>1, <2>1 DEF Covers
    <3>. QED  BY <3>1, <2>5
  <2>7. \A b \in Live : Apart(b, new) /\ Apart(new, b)
    <3>. SUFFICES ASSUME NEW b \in Live PROVE Apart(b, new) /\ Apart(new, b)
      OBVIOUS
    <3>1. b[1] \in Nat /\ 2^b[2] \in Nat \ {0}
      BY <1>3, Sizes DEF BlockSet, Pages
    <3>2. ~(b[1] <= f /\ f < b[1] + 2^b[2])
      BY <2>5 DEF Covers
    <3>. QED  BY <3>1, <3>2, <1>1, <2>1 DEF Apart
  <2>8. BlockSet(Live')
    <3>1. IsAligned(f, 0) /\ f + 2^0 <= MAX_PAGES
      BY <2>1, ConstantsAssumption DEF IsAligned, Pages
    <3>2. Live' \subseteq Pages \X Orders
      BY <1>3, <2>1, <2>4 DEF BlockSet
    <3>3. \A b \in Live' : IsAligned(b[1], b[2]) /\ b[1] + 2^b[2] <= MAX_PAGES
      <4>1. \A b \in Live : IsAligned(b[1], b[2]) /\ b[1] + 2^b[2] <= MAX_PAGES
        BY <1>3 DEF BlockSet
      <4>2. IsAligned(new[1], new[2]) /\ new[1] + 2^new[2] <= MAX_PAGES
        BY <3>1
      <4>. QED  BY ONLY <4>1, <4>2, <2>4, Zenon
    <3>4. \A b, c \in Live' : b # c => Apart(b, c)
      BY <1>3, <2>4, <2>7 DEF BlockSet
    <3>. QED  BY <3>2, <3>3, <3>4 DEF BlockSet
  <2>9. Covered(Live') = fed' \intersect Pages
    <3>1. \A x \in Pages : Covers(new, x) <=> x = f
      BY <2>1 DEF Covers, Pages
    <3>. QED  BY <3>1, <1>1, <1>3, <2>1, <2>4 DEF Covered
  <2>10. InFlight' \intersect (FreeBlocks' \union used') = {}
    BY <2>3, <2>6, <1>1, <1>2 DEF Live
  <2>. QED  BY <1>1, <1>2, <1>3, <2>2, <2>8, <2>9, <2>10, FromLiveBlocks
<1>. QED  BY <1>4, <1>5

\* Taking a block off its list: the block changes hands, nothing moves.
LEMMA AllocTakeInvariant ==
  ASSUME IInv, AllocTake
  PROVE  IInv'
<1>1. order \in Orders /\ InFlight = {} /\ used' = used /\ fed' = fed
  BY ConstantsAssumption DEF AllocTake, InFlight, IInv, TypeOK, Orders
<1>2. PICK p \in free_lists[order] :
        /\ free_lists' = remove_frame(p, order)
        /\ bitmap' = toggle_bit(p, order)
        /\ Call("split", p, order, want)
  BY DEF AllocTake
<1>3. p \in Pages /\ <<p, order>> \in FreeBlocks
  BY <1>1, <1>2 DEF IInv, TypeOK, FreeBlocks
<1>4. /\ free_lists' \in [Orders -> SUBSET Pages]
      /\ FreeBlocks' = FreeBlocks \ {<<p, order>>}
  BY <1>1, <1>2, <1>3, ListUpdates DEF IInv
<1>5. TypeOK'
  <2>1. bitmap' \in [Orders -> [Pages -> BOOLEAN]]
    BY <1>1, <1>2, <1>3, ToggleType DEF IInv
  <2>2. want <= order
    BY DEF AllocTake, IInv, TypeOK
  <2>. QED  BY <1>1, <1>2, <1>3, <1>4, <2>1, <2>2 DEF IInv, TypeOK, Call, Ops
<1>6. InFlight' = {<<p, order>>}
  BY <1>2 DEF Call, InFlight
<1>7. Live' = Live
  BY <1>1, <1>3, <1>4, <1>6 DEF Live
<1>8. BlockSet(Live') /\ Covered(Live') = fed' \intersect Pages
  BY <1>1, <1>7, LiveBlocks
<1>9. IsAligned(p, order)
  <2>1. IsAligned(<<p, order>>[1], <<p, order>>[2])
    BY <1>3 DEF IInv, Aligned, Live
  <2>. QED  BY <2>1
<1>10. \A r \in Orders : r # order => free_lists'[r] = free_lists[r]
  BY <1>2, <1>1 DEF remove_frame, IInv, TypeOK
<1>11. free_lists'[order] = free_lists[order] \ {p}
  BY <1>2, <1>1 DEF remove_frame, IInv, TypeOK
<1>12. BitmapAgrees'
  BY <1>1, <1>2, <1>3, <1>9, <1>10, <1>11, ToggleKeepsAgreement DEF IInv
<1>13. FullyMerged'
  BY <1>1, <1>10, <1>11, Shrinks DEF IInv
<1>14. /\ FreeBlocks' \intersect used' = {}
       /\ InFlight' \intersect (FreeBlocks' \union used') = {}
  BY <1>1, <1>3, <1>4, <1>6 DEF IInv, NoOverlap
<1>. QED  BY <1>5, <1>8, <1>12, <1>13, <1>14, FromLiveBlocks

\* The halves of the block alloc is about to split: both belong to nobody
\* else, and together they cover what the block covers.
LEMMA SplitHalves ==
  ASSUME IInv, op = "split", order > want, NEW o \in Orders, order = o + 1
  PROVE  LET hi   == ptr + 2^o
             Rest == FreeBlocks \union used
             New  == Rest \union {<<ptr, o>>, <<hi, o>>}
         IN  /\ ptr \in Pages /\ hi \in Pages /\ hi # ptr
             /\ IsAligned(ptr, o) /\ calculate_buddy_address(ptr, o) = hi
             /\ <<ptr, o>> \notin Rest /\ <<hi, o>> \notin Rest
             /\ ptr \notin free_lists[o] /\ hi \notin free_lists[o]
             /\ BlockSet(New) /\ Covered(New) = fed \intersect Pages
<1>. DEFINE hi   == ptr + 2^o
            Rest == FreeBlocks \union used
            New  == Rest \union {<<ptr, o>>, <<hi, o>>}
<1>1. ptr \in Pages /\ ptr \in Nat /\ o + 1 \in Orders
  BY DEF IInv, TypeOK, Pages
<1>2. InFlight = {<<ptr, o + 1>>}
  BY DEF InFlight
<1>3. <<ptr, o + 1>> \in Live /\ BlockSet(Live) /\ Covered(Live) = fed \intersect Pages
  BY <1>2, LiveBlocks DEF Live
<1>4. Rest = Live \ {<<ptr, o + 1>>}
  BY <1>2 DEF Live, IInv, NoOverlap
<1>5. IsAligned(ptr, o) /\ calculate_buddy_address(ptr, o) = hi
  <2>1. IsAligned(<<ptr, o + 1>>[1], <<ptr, o + 1>>[2])
    BY <1>3 DEF BlockSet
  <2>2. IsAligned(ptr, o + 1)
    BY <2>1
  <2>. QED  BY <1>1, <2>2, SplitFacts DEF IsAligned
<1>6. /\ hi \in Pages
      /\ <<ptr, o>> \notin Rest /\ <<hi, o>> \notin Rest
      /\ BlockSet(New) /\ Covered(New) = Covered(Live)
  BY <1>1, <1>3, <1>4, SplitBlock
<1>7. ptr \notin free_lists[o] /\ hi \notin free_lists[o]
  BY <1>1, <1>6 DEF FreeBlocks
<1>8. hi # ptr
  BY <1>1, Sizes
<1>. QED  BY <1>1, <1>3, <1>5, <1>6, <1>7, <1>8

\* Splitting: the block in flight becomes its lower half, the upper half goes
\* to a list on which neither half was.
LEMMA AllocSplitInvariant ==
  ASSUME IInv, AllocSplit
  PROVE  IInv'
<1>1. PICK o \in Orders : order = o + 1
  <2>1. order - 1 \in Orders /\ order = (order - 1) + 1
    BY ConstantsAssumption DEF AllocSplit, IInv, TypeOK, Orders
  <2>. QED  BY <2>1
<1>. DEFINE hi == ptr + 2^o
<1>2. order - 1 = o /\ o \in 0 .. MAX_ORDER /\ want \in 0 .. MAX_ORDER /\ want <= o
  BY <1>1, ConstantsAssumption DEF AllocSplit, IInv, TypeOK, Orders
<1>3. /\ bitmap' = toggle_bit(ptr, o)
      /\ free_lists' = push_free(calculate_buddy_address(ptr, o), o)
      /\ op' = "split" /\ ptr' = ptr /\ order' = o /\ want' = want
      /\ used' = used /\ fed' = fed
  BY <1>2 DEF AllocSplit, Call
<1>4. InFlight' = {<<ptr, o>>}
  BY <1>3 DEF InFlight
<1>. DEFINE Rest == FreeBlocks \union used
            New  == Rest \union {<<ptr, o>>, <<hi, o>>}
<1>5. /\ ptr \in Pages /\ hi \in Pages /\ hi # ptr
      /\ IsAligned(ptr, o) /\ calculate_buddy_address(ptr, o) = hi
      /\ <<ptr, o>> \notin Rest /\ <<hi, o>> \notin Rest
      /\ ptr \notin free_lists[o] /\ hi \notin free_lists[o]
      /\ BlockSet(New) /\ Covered(New) = fed \intersect Pages
  BY <1>1, SplitHalves DEF AllocSplit
<1>. HIDE DEF hi
<1>6. /\ free_lists' \in [Orders -> SUBSET Pages]
      /\ FreeBlocks' = FreeBlocks \union {<<hi, o>>}
  BY <1>3, <1>5, ListUpdates DEF IInv
<1>7. Live' = New
  BY <1>3, <1>4, <1>6 DEF Live
<1>8. TypeOK'
  <2>1. bitmap' \in [Orders -> [Pages -> BOOLEAN]]
    BY <1>3, <1>5, ToggleType DEF IInv
  <2>. QED  BY <1>2, <1>3, <1>5, <1>6, <2>1 DEF IInv, TypeOK, Ops
<1>9. /\ \A r \in Orders : r # o => free_lists'[r] = free_lists[r]
      /\ free_lists'[o] = free_lists[o] \union {hi}
  BY <1>3, <1>5 DEF push_free, IInv, TypeOK
<1>10. BitmapAgrees'
  BY <1>3, <1>5, <1>9, ToggleKeepsAgreement DEF IInv
<1>11. FullyMerged'
  BY <1>5, <1>9, FreeAligned, GrowsByLoneBlock DEF IInv
<1>12. /\ FreeBlocks' \intersect used' = {}
       /\ InFlight' \intersect (FreeBlocks' \union used') = {}
  <2>. DEFINE lower == <<ptr, o>>  upper == <<hi, o>>
  <2>1. FreeBlocks \intersect used = {}
    BY DEF IInv, NoOverlap
  <2>2. lower # upper
    BY <1>5
  <2>3. lower \notin FreeBlocks \union used /\ upper \notin FreeBlocks \union used
    BY <1>5
  <2>4. FreeBlocks' = FreeBlocks \union {upper} /\ used' = used /\ InFlight' = {lower}
    BY <1>3, <1>4, <1>6
  <2>. HIDE DEF lower, upper
  <2>. QED  BY ONLY <2>1, <2>2, <2>3, <2>4
<1>. QED  BY <1>3, <1>5, <1>7, <1>8, <1>10, <1>11, <1>12, FromLiveBlocks

\* The block in flight in dealloc.
LEMMA DeallocBlock ==
  ASSUME IInv, op = "dealloc"
  PROVE  /\ order \in Orders /\ ptr \in Pages /\ IsAligned(ptr, order)
         /\ InFlight = {<<ptr, order>>} /\ <<ptr, order>> \in Live
         /\ ptr \notin free_lists[order] /\ <<ptr, order>> \notin used
<1>1. order \in Orders /\ ptr \in Pages
  BY DEF IInv, TypeOK
<1>2. InFlight = {<<ptr, order>>} /\ <<ptr, order>> \in Live
  BY DEF InFlight, Live
<1>3. IsAligned(<<ptr, order>>[1], <<ptr, order>>[2])
  BY <1>2 DEF IInv, Aligned
<1>4. <<ptr, order>> \notin FreeBlocks /\ <<ptr, order>> \notin used
  BY <1>2 DEF IInv, NoOverlap
<1>5. ptr \notin free_lists[order]
  BY <1>1, <1>4 DEF FreeBlocks
<1>. QED  BY <1>1, <1>2, <1>3, <1>4, <1>5

\* Listing the freed block: at the top order, or its buddy is not free.
LEMMA DeallocKeepInvariant ==
  ASSUME IInv, DeallocKeep
  PROVE  IInv'
<1>1. /\ op = "dealloc" /\ used' = used /\ fed' = fed
      /\ bitmap' = toggle_bit(ptr, order) /\ free_lists' = push_free(ptr, order)
      /\ op' = "idle" /\ ptr' = 0 /\ order' = 0 /\ want' = 0
  BY DEF DeallocKeep, Return
<1>2. /\ order \in Orders /\ ptr \in Pages /\ IsAligned(ptr, order)
      /\ InFlight = {<<ptr, order>>} /\ ptr \notin free_lists[order]
      /\ <<ptr, order>> \notin used
  BY <1>1, DeallocBlock
<1>3. /\ free_lists' \in [Orders -> SUBSET Pages]
      /\ FreeBlocks' = FreeBlocks \union {<<ptr, order>>}
  BY <1>1, <1>2, ListUpdates DEF IInv
<1>4. TypeOK'
  <2>1. bitmap' \in [Orders -> [Pages -> BOOLEAN]]
    BY <1>1, <1>2, ToggleType DEF IInv
  <2>2. 0 \in 0 .. MAX_ORDER /\ 0 \in Pages
    BY ConstantsAssumption DEF Pages
  <2>. QED  BY <1>1, <1>3, <2>1, <2>2 DEF IInv, TypeOK, Ops
<1>5. InFlight' = {}
  BY <1>1 DEF InFlight
<1>6. Live' = Live
  BY <1>1, <1>2, <1>3, <1>5 DEF Live
<1>7. BlockSet(Live') /\ Covered(Live') = fed' \intersect Pages
  BY <1>1, <1>6, LiveBlocks
<1>8. /\ \A r \in Orders : r # order => free_lists'[r] = free_lists[r]
      /\ free_lists'[order] = free_lists[order] \union {ptr}
  BY <1>1, <1>2 DEF push_free, IInv, TypeOK
<1>9. BitmapAgrees'
  BY <1>1, <1>2, <1>8, ToggleKeepsAgreement DEF IInv
<1>10. FullyMerged'
  <2>1. CASE order >= MAX_ORDER - 1
    <3>1. \A r \in 0 .. MAX_ORDER - 2 : r \in Orders /\ r # order
      BY <2>1, <1>2, ConstantsAssumption DEF Orders
    <3>. QED  BY <3>1, <1>8 DEF IInv, FullyMerged, calculate_buddy_address
  <2>2. CASE order < MAX_ORDER - 1 /\ ~Bit(ptr, order)
    <3>1. order \in 0 .. MAX_ORDER - 2
      BY <2>2, <1>2, ConstantsAssumption DEF Orders
    <3>2. calculate_buddy_address(ptr, order) \notin free_lists[order]
      BY <2>2, <3>1, <1>2 DEF IInv, BitmapAgrees
    <3>. QED  BY <3>2, <1>2, <1>8, FreeAligned, GrowsByLoneBlock DEF IInv
  <2>3. order >= MAX_ORDER - 1 \/ order < MAX_ORDER - 1
    BY <1>2, ConstantsAssumption DEF Orders
  <2>. QED  BY <2>1, <2>2, <2>3 DEF DeallocKeep
<1>11. /\ FreeBlocks' \intersect used' = {}
       /\ InFlight' \intersect (FreeBlocks' \union used') = {}
  BY <1>1, <1>2, <1>3, <1>5 DEF IInv, NoOverlap
<1>. QED  BY <1>4, <1>7, <1>9, <1>10, <1>11, FromLiveBlocks

\* Merging the freed block with its free buddy, one order up.
LEMMA DeallocMergeInvariant ==
  ASSUME IInv, DeallocMerge
  PROVE  IInv'
<1>. DEFINE b == calculate_buddy_address(ptr, order)
            m == IF ptr < b THEN ptr ELSE b
<1>1. /\ op = "dealloc" /\ used' = used /\ fed' = fed
      /\ order < MAX_ORDER - 1 /\ Bit(ptr, order)
      /\ bitmap' = toggle_bit(ptr, order) /\ free_lists' = remove_frame(b, order)
      /\ op' = "dealloc" /\ ptr' = m /\ order' = order + 1 /\ want' = 0
  BY DEF DeallocMerge, Call
<1>2. /\ order \in Orders /\ ptr \in Pages /\ IsAligned(ptr, order)
      /\ InFlight = {<<ptr, order>>} /\ <<ptr, order>> \in Live
      /\ ptr \notin free_lists[order] /\ <<ptr, order>> \notin used
  BY <1>1, DeallocBlock
<1>3. order + 1 \in Orders /\ order + 1 \in 0 .. MAX_ORDER /\ 0 \in 0 .. MAX_ORDER
  BY <1>1, <1>2, ConstantsAssumption DEF Orders
<1>4. b \in free_lists[order]
  BY <1>1, MergeFindsBuddyFromInvariant DEF MergeFindsBuddy
<1>5. b \in Pages /\ <<b, order>> \in FreeBlocks /\ <<b, order>> \in Live
  BY <1>2, <1>4 DEF IInv, TypeOK, FreeBlocks, Live
<1>6. /\ free_lists' \in [Orders -> SUBSET Pages]
      /\ FreeBlocks' = FreeBlocks \ {<<b, order>>}
  BY <1>1, <1>2, <1>5, ListUpdates DEF IInv
<1>. DEFINE K == Live \ {<<ptr, order>>, <<b, order>>}
<1>7. /\ m \in Pages /\ <<m, order + 1>> \notin K
      /\ BlockSet(K \union {<<m, order + 1>>})
      /\ Covered(K \union {<<m, order + 1>>}) = Covered(Live)
  BY <1>2, <1>3, <1>5, LiveBlocks, MergeBlocks
<1>8. InFlight' = {<<m, order + 1>>}
  BY <1>1 DEF InFlight
<1>9. K = FreeBlocks' \union used'
  BY <1>1, <1>2, <1>5, <1>6 DEF Live, IInv, NoOverlap
<1>10. Live' = K \union {<<m, order + 1>>}
  BY <1>8, <1>9 DEF Live
<1>11. BlockSet(Live') /\ Covered(Live') = fed' \intersect Pages
  BY <1>1, <1>7, <1>10, LiveBlocks
<1>12. TypeOK'
  <2>1. bitmap' \in [Orders -> [Pages -> BOOLEAN]]
    BY <1>1, <1>2, ToggleType DEF IInv
  <2>. HIDE DEF m
  <2>. QED  BY <1>1, <1>3, <1>6, <1>7, <2>1 DEF IInv, TypeOK, Ops
<1>13. /\ \A r \in Orders : r # order => free_lists'[r] = free_lists[r]
       /\ free_lists'[order] = free_lists[order] \ {b}
  <2>. HIDE DEF b
  <2>. QED  BY <1>1, <1>2 DEF remove_frame, IInv, TypeOK
<1>14. BitmapAgrees'
  BY <1>1, <1>2, <1>4, <1>13, ToggleKeepsAgreement DEF IInv
<1>15. FullyMerged'
  BY <1>2, <1>13, Shrinks DEF IInv
<1>16. /\ FreeBlocks' \intersect used' = {}
       /\ InFlight' \intersect (FreeBlocks' \union used') = {}
  BY <1>1, <1>6, <1>7, <1>8, <1>9 DEF IInv, NoOverlap
<1>. QED  BY <1>11, <1>12, <1>14, <1>15, <1>16, FromLiveBlocks

\* A block is on the list of one order only.
LEMMA FreeListsApart ==
  IInv => \A r, s \in Orders : r # s => free_lists[r] \intersect free_lists[s] = {}
<1>. SUFFICES ASSUME IInv, NEW r \in Orders, NEW s \in Orders, r # s,
                     NEW p, p \in free_lists[r], p \in free_lists[s]
              PROVE  FALSE
  OBVIOUS
<1>1. p \in Pages /\ p \in Nat
  BY DEF IInv, TypeOK, Pages
<1>2. <<p, r>> \in Live /\ <<p, s>> \in Live
  BY <1>1 DEF Live, FreeBlocks
<1>3. Apart(<<p, r>>, <<p, s>>)
  BY <1>2 DEF IInv, NoOverlap
<1>. QED  BY <1>1, <1>3, Sizes DEF Apart

\* No page of the block in flight is the start of a free block.
LEMMA FlightUnlisted ==
  IInv /\ op \in {"split", "dealloc"} =>
    \A r \in Orders : \A x \in Pages :
      ptr <= x /\ x < ptr + 2^order => x \notin free_lists[r]
<1>. SUFFICES ASSUME IInv, op \in {"split", "dealloc"}, NEW r \in Orders, NEW x \in Pages,
                     ptr <= x, x < ptr + 2^order, x \in free_lists[r]
              PROVE  FALSE
  OBVIOUS
<1>1. order \in Orders /\ ptr \in Nat /\ x \in Nat
  BY DEF IInv, TypeOK, Pages
<1>2. <<x, r>> \in FreeBlocks /\ <<ptr, order>> \in InFlight
  BY DEF FreeBlocks, InFlight
<1>3. <<x, r>> # <<ptr, order>>
  BY <1>2 DEF IInv, NoOverlap
<1>4. Apart(<<x, r>>, <<ptr, order>>)
  BY <1>2, <1>3 DEF IInv, NoOverlap, Live
<1>5. 2^r \in Nat \ {0} /\ 2^order \in Nat \ {0}
  BY <1>1, Sizes
<1>. QED  BY <1>1, <1>4, <1>5 DEF Apart

\* The buddy alloc frees when it splits is the upper half of the block in flight.
LEMMA SplitBuddy ==
  IInv /\ op = "split" /\ order > want =>
    /\ order - 1 \in Orders /\ ptr \in Pages
    /\ calculate_buddy_address(ptr, order - 1) \in Pages
    /\ ptr <= calculate_buddy_address(ptr, order - 1)
    /\ calculate_buddy_address(ptr, order - 1) < ptr + 2^order
<1>. SUFFICES ASSUME IInv, op = "split", order > want
              PROVE  /\ order - 1 \in Orders /\ ptr \in Pages
                     /\ calculate_buddy_address(ptr, order - 1) \in Pages
                     /\ ptr <= calculate_buddy_address(ptr, order - 1)
                     /\ calculate_buddy_address(ptr, order - 1) < ptr + 2^order
  OBVIOUS
<1>. DEFINE o == order - 1  h == 2^o
<1>1. order \in Orders /\ want \in Nat /\ ptr \in Pages /\ ptr \in Nat
  BY DEF IInv, TypeOK, Pages
<1>2. o \in Orders /\ order = o + 1
  BY <1>1, ConstantsAssumption DEF Orders
<1>. HIDE DEF o
<1>3. ptr + h \in Pages /\ calculate_buddy_address(ptr, o) = ptr + h
  BY <1>2, SplitHalves
<1>4. h \in Nat \ {0} /\ 2^order = 2 * h
  BY <1>2, Sizes
<1>5. ptr <= ptr + h /\ ptr + h < ptr + 2^order
  BY <1>1, <1>4
<1>. QED  BY <1>1, <1>2, <1>3, <1>5 DEF o

\* The invariant is inductive.
LEMMA NextInvariant == IInv /\ [Next]_vars => IInv'
<1>. SUFFICES ASSUME IInv, [Next]_vars PROVE IInv'
  OBVIOUS
<1>1. ASSUME NEW f \in Frames, AddFrame(f) PROVE IInv'
  BY <1>1, AddFrameInvariant
<1>2. ASSUME NEW o \in 0 .. MAX_ORDER, Alloc(o) PROVE IInv'
  BY <1>2, AllocInvariant
<1>3. ASSUME NEW p \in Pages, NEW o \in Orders, Dealloc(p, o) PROVE IInv'
  BY <1>3, DeallocInvariant
<1>4. CASE AllocNone
  BY <1>4, AllocNoneInvariant
<1>5. CASE AllocSearch
  BY <1>5, AllocSearchInvariant
<1>6. CASE AllocTake
  BY <1>6, AllocTakeInvariant
<1>7. CASE AllocSplit
  BY <1>7, AllocSplitInvariant
<1>8. CASE AllocReturn
  BY <1>8, AllocReturnInvariant
<1>9. CASE DeallocKeep
  BY <1>9, DeallocKeepInvariant
<1>10. CASE DeallocMerge
  BY <1>10, DeallocMergeInvariant
<1>11. CASE UNCHANGED vars
  <2>1. TypeOK' /\ fed' = fed /\ used' = used /\ InFlight' = InFlight
        /\ UNCHANGED <<free_lists, bitmap>>
    BY <1>11 DEF vars, IInv, TypeOK, InFlight
  <2>2. FreeBlocks' = FreeBlocks
    BY <2>1, ListsUnchanged
  <2>3. Live' = Live
    BY <2>1, <2>2 DEF Live
  <2>. QED  BY <2>1, <2>3, QuietSteps DEF IInv, NoOverlap
<1>. QED
  BY <1>1, <1>2, <1>3, <1>4, <1>5, <1>6, <1>7, <1>8, <1>9, <1>10, <1>11 DEF Next, Step

\* Every behaviour of the allocator, for every number of orders, pages and
\* frames, keeps the inductive invariant.
THEOREM Invariant == Spec => []IInv
  BY InitInvariant, NextInvariant, PTL DEF Spec

\* add_frame, alloc and dealloc keep the types of the lists, the bitmap and
\* their arguments.
THEOREM TypeCorrect == Spec => []TypeOK
<1>1. IInv => TypeOK
  BY DEF IInv
<1>. QED  BY <1>1, Invariant, PTL

\* alloc never hands out a page twice and dealloc never links one twice.
THEOREM BlocksDisjoint == Spec => []NoOverlap
<1>1. IInv => NoOverlap
  BY DEF IInv
<1>. QED  BY <1>1, Invariant, PTL

\* Every block alloc returns or dealloc links is aligned to its size and ends
\* inside the managed range.
THEOREM BlocksAligned == Spec => []Aligned
<1>1. IInv => Aligned
  BY DEF IInv
<1>. QED  BY <1>1, Invariant, PTL

\* dealloc leaves no pair of buddies unmerged below the top order.
THEOREM EagerMerging == Spec => []FullyMerged
<1>1. IInv => FullyMerged
  BY DEF IInv
<1>. QED  BY <1>1, Invariant, PTL

\* The bitmap always says which pairs have exactly one free block.
THEOREM BitmapCorrect == Spec => []BitmapAgrees
<1>1. IInv => BitmapAgrees
  BY DEF IInv
<1>. QED  BY <1>1, Invariant, PTL

\* The assumption remove_frame makes about dealloc's bitmap test holds.
THEOREM RemoveFindsBuddy == Spec => []MergeFindsBuddy
  BY MergeFindsBuddyFromInvariant, Invariant, PTL

\* The allocator neither loses nor invents pages.
THEOREM NoPageLost == Spec => []PagesConserved
<1>1. IInv => PagesConserved
  BY DEF IInv
<1>. QED  BY <1>1, Invariant, PTL

\* alloc toggles the bits the way its comments say it does.
THEOREM AllocBitsCorrect == Spec => AllocBits
<1>. DEFINE TakeBit ==
              AllocTake /\ order < MAX_ORDER - 1 =>
                /\ bitmap[order][pair_index(ptr', order)]
                /\ ~bitmap'[order][pair_index(ptr', order)]
            SplitBit ==
              AllocSplit =>
                ~Bit(ptr, order - 1) /\ bitmap'[order - 1][pair_index(ptr, order - 1)]
<1>1. ASSUME IInv PROVE TakeBit
  <2>. SUFFICES ASSUME AllocTake, order < MAX_ORDER - 1
                PROVE  /\ bitmap[order][pair_index(ptr', order)]
                       /\ ~bitmap'[order][pair_index(ptr', order)]
    OBVIOUS
  <2>1. order \in Orders /\ order \in 0 .. MAX_ORDER - 2
    BY <1>1, ConstantsAssumption DEF IInv, TypeOK, Orders
  <2>2. ptr' \in free_lists[order] /\ bitmap' = toggle_bit(ptr', order)
    BY DEF AllocTake, Call
  <2>3. ptr' \in Pages /\ IsAligned(ptr', order)
    BY <1>1, <2>1, <2>2, FreeAligned
  <2>4. calculate_buddy_address(ptr', order) \notin free_lists[order]
    BY <1>1, <2>1, <2>2 DEF IInv, FullyMerged
  <2>5. bitmap[order][pair_index(ptr', order)]
    BY <1>1, <2>1, <2>2, <2>3, <2>4 DEF IInv, BitmapAgrees, Bit
  <2>6. bitmap'[order][pair_index(ptr', order)] = ~bitmap[order][pair_index(ptr', order)]
    BY <1>1, <2>1, <2>2, <2>3, ToggledBit DEF IInv
  <2>. QED  BY <2>5, <2>6
<1>2. ASSUME IInv PROVE SplitBit
  <2>. SUFFICES ASSUME AllocSplit
                PROVE  /\ ~Bit(ptr, order - 1)
                       /\ bitmap'[order - 1][pair_index(ptr, order - 1)]
    OBVIOUS
  <2>1. order \in Orders /\ order > want /\ want \in 0 .. MAX_ORDER /\ ptr \in Pages
    BY <1>2 DEF AllocSplit, IInv, TypeOK
  <2>2. PICK o \in Orders : order = o + 1 /\ order - 1 = o /\ o \in 0 .. MAX_ORDER - 2
    <3>1. /\ order - 1 \in Orders /\ order = (order - 1) + 1
          /\ order - 1 \in 0 .. MAX_ORDER - 2
      BY <2>1, ConstantsAssumption DEF Orders
    <3>. QED  BY <3>1
  <2>3. /\ IsAligned(ptr, o) /\ ptr \notin free_lists[o]
        /\ calculate_buddy_address(ptr, o) \notin free_lists[o]
    BY <1>2, <2>2, SplitHalves DEF AllocSplit
  <2>4. ~Bit(ptr, o)
    BY <1>2, <2>1, <2>2, <2>3 DEF IInv, BitmapAgrees
  <2>5. bitmap' = toggle_bit(ptr, o) /\ o < MAX_ORDER - 1
    BY <2>2, ConstantsAssumption DEF AllocSplit
  <2>6. bitmap'[o][pair_index(ptr, o)] = ~Bit(ptr, o)
    BY <1>2, <2>1, <2>5, ToggledBit DEF IInv, Bit
  <2>. QED  BY <2>2, <2>4, <2>6
<1>3. IInv => TakeBit /\ SplitBit
  BY <1>1, <1>2
<1>. QED  BY <1>3, Invariant, PTL DEF AllocBits

(***************************************************************************)
(* alloc answers None: no list from the order asked for up has a block     *)
(* (Searched), and smaller free blocks cannot fill an aligned run of that  *)
(* order, since two of them that did would have been merged.               *)
(***************************************************************************)
\* The lists that alloc has looked at are empty.
Searched ==
  op = "alloc" => \A k \in Orders : want <= k /\ k < order => free_lists[k] = {}

\* Every step keeps Searched.
LEMMA SearchedStep ==
  ASSUME IInv, Searched, [Next]_vars
  PROVE  Searched'
<1>. SUFFICES ASSUME op' = "alloc", NEW k \in Orders, want' <= k, k < order'
              PROVE  free_lists'[k] = {}
  BY DEF Searched
<1>1. order \in Nat /\ want \in Nat /\ k \in Nat
  BY DEF IInv, TypeOK, Orders
<1>2. ASSUME NEW f \in Frames, AddFrame(f) PROVE FALSE
  BY <1>2 DEF AddFrame, Call
<1>3. ASSUME NEW o \in 0 .. MAX_ORDER, Alloc(o) PROVE FALSE
  <2>1. want' = o /\ order' = o
    BY <1>3 DEF Alloc, Call
  <2>. QED  BY <1>1, <2>1
<1>4. ASSUME NEW p \in Pages, NEW o \in Orders, Dealloc(p, o) PROVE FALSE
  BY <1>4 DEF Dealloc, Call
<1>5. CASE AllocSearch
  <2>1. /\ op = "alloc" /\ free_lists[order] = {} /\ order' = order + 1 /\ want' = want
        /\ free_lists' = free_lists
    BY <1>5 DEF AllocSearch, Call
  <2>2. CASE k = order
    BY <2>1, <2>2
  <2>3. CASE k < order
    BY <2>1, <2>3 DEF Searched
  <2>. QED  BY <1>1, <2>1, <2>2, <2>3
<1>6. CASE AllocNone \/ AllocReturn \/ DeallocKeep
  BY <1>6 DEF AllocNone, AllocReturn, DeallocKeep, Return
<1>7. CASE AllocTake \/ AllocSplit
  BY <1>7 DEF AllocTake, AllocSplit, Call
<1>8. CASE DeallocMerge
  BY <1>8 DEF DeallocMerge, Call
<1>9. CASE UNCHANGED vars
  BY <1>9 DEF vars, Searched
<1>. QED  BY <1>2, <1>3, <1>4, <1>5, <1>6, <1>7, <1>8, <1>9 DEF Next, Step

\* A block number of a larger order is one of every smaller order.
LEMMA AlignedBelow ==
  ASSUME NEW m \in Orders, NEW j \in Orders, j <= m, NEW p \in Nat, IsAligned(p, m)
  PROVE  IsAligned(p, j)
<1>. DEFINE S == {d \in Nat : d <= m => IsAligned(p, m - d)}
<1>1. m \in Nat /\ j \in Nat
  BY DEF Orders
<1>2. 0 \in S
  BY <1>1
<1>3. ASSUME NEW d \in Nat, d \in S
      PROVE  d + 1 \in S
  <2>. SUFFICES ASSUME d + 1 <= m PROVE IsAligned(p, m - (d + 1))
    OBVIOUS
  <2>. DEFINE o == m - (d + 1)
  <2>1. o \in Orders /\ o + 1 = m - d /\ d <= m
    <3>1. m \in Nat /\ m <= MAX_ORDER - 1 /\ MAX_ORDER \in Nat
      BY ConstantsAssumption DEF Orders
    <3>2. o \in Nat /\ o <= MAX_ORDER - 1 /\ o + 1 = m - d /\ d <= m
      BY <3>1
    <3>. QED  BY <3>1, <3>2 DEF Orders
  <2>2. IsAligned(p, m - d)
    BY <1>3, <2>1
  <2>. HIDE DEF o
  <2>3. p = (p \div 2^(o + 1)) * 2^(o + 1)
    BY <2>1, <2>2 DEF IsAligned
  <2>4. IsAligned(p, o)
    BY <2>1, <2>3, SplitFacts
  <2>. QED  BY <2>4 DEF o
<1>. HIDE DEF S
<1>4. Nat \subseteq S
  BY <1>2, <1>3, Induction
<1>5. m - j \in Nat /\ m - (m - j) = j /\ m - j <= m
  BY <1>1
<1>. QED  BY <1>4, <1>5 DEF S

\* An aligned page inside an aligned block of the same order is its start.
LEMMA SameStart ==
  ASSUME NEW o \in Orders, NEW p \in Nat, NEW q \in Nat, IsAligned(p, o), IsAligned(q, o),
         q <= p, p < q + 2^o
  PROVE  p = q
<1>. DEFINE S == 2^o
<1>1. S \in Nat \ {0}
  BY Sizes
<1>2. PICK k \in Nat : p = k * S
  BY AlignedForm
<1>3. PICK l \in Nat : q = l * S
  BY AlignedForm
<1>. HIDE DEF S
<1>4. S * (k - l) = p - q
  BY <1>1, <1>2, <1>3
<1>5. S * (k - l) >= 0 /\ S * (k - l) < S
  BY <1>1, <1>4 DEF S
<1>6. k - l \in {0, 1}
  BY <1>1, <1>5, SmallFactor
<1>7. k - l # 1
  BY <1>1, <1>5
<1>8. k = l
  BY <1>6, <1>7
<1>. QED  BY <1>2, <1>3, <1>8

\* Free pages that fill an aligned run of order o.
Filled(p, o) ==
  p \in Nat /\ IsAligned(p, o) /\ \A x \in p .. p + 2^o - 1 : \E b \in FreeBlocks : Covers(b, x)

\* A free block that is at least as large covers the start of the run.
Whole(p, o) == \E b \in FreeBlocks : b[2] >= o /\ Covers(b, p)

\* Merged free blocks fill an aligned run only with one block that holds all of it.
LEMMA FilledIsWhole ==
  ASSUME IInv
  PROVE  \A o \in Orders : \A p : Filled(p, o) => Whole(p, o)
<1>. DEFINE T == {o \in Nat : o \in Orders => \A p : Filled(p, o) => Whole(p, o)}
<1>0. /\ \A b \in FreeBlocks : /\ b[1] \in Pages /\ b[2] \in Orders /\ b[1] \in Nat /\ b[2] \in Nat
                               /\ b = <<b[1], b[2]>> /\ b[1] \in free_lists[b[2]]
                               /\ IsAligned(b[1], b[2])
      /\ \A o \in Orders : o \in Nat
  <2>1. \A b \in FreeBlocks : b[1] \in Pages /\ b[2] \in Orders /\ b[1] \in free_lists[b[2]]
                              /\ b = <<b[1], b[2]>>
    BY DEF FreeBlocks
  <2>2. \A b \in FreeBlocks : IsAligned(b[1], b[2])
    BY <2>1, FreeAligned
  <2>. QED  BY <2>1, <2>2 DEF Pages, Orders
<1>1. 0 \in T
  <2>. SUFFICES ASSUME NEW p, Filled(p, 0) PROVE Whole(p, 0)
    OBVIOUS
  <2>1. p \in Nat /\ p \in p .. p + 2^0 - 1
    BY PowersOfTwo DEF Filled
  <2>2. PICK b \in FreeBlocks : Covers(b, p)
    BY <2>1 DEF Filled
  <2>3. b[2] >= 0
    BY <1>0
  <2>. QED  BY <2>2, <2>3 DEF Whole
<1>2. ASSUME NEW o \in Nat, o \in T
      PROVE  o + 1 \in T
  <2>. SUFFICES ASSUME o + 1 \in Orders, NEW p, Filled(p, o + 1)
                PROVE  Whole(p, o + 1)
    OBVIOUS
  <2>. DEFINE S == 2^o
  <2>1. o \in Orders /\ o \in 0 .. MAX_ORDER - 2
    BY ConstantsAssumption DEF Orders
  <2>2. S \in Nat \ {0} /\ 2^(o + 1) = 2 * S
    BY <2>1, Sizes
  <2>3. p \in Nat /\ IsAligned(p, o + 1)
    BY DEF Filled
  <2>4. IsAligned(p, o) /\ calculate_buddy_address(p, o) = p + S
    <3>1. p = (p \div 2^(o + 1)) * 2^(o + 1)
      BY <2>3 DEF IsAligned
    <3>. QED  BY <2>1, <2>3, <3>1, SplitFacts
  <2>5. p + S \in Nat /\ IsAligned(p + S, o)
    <3>1. PICK k \in Nat : p = k * S
      BY <2>1, <2>3, <2>4, AlignedForm
    <3>. HIDE DEF S
    <3>2. p + S = (k + 1) * S /\ k + 1 \in Nat /\ p + S \in Nat
      BY <2>2, <3>1
    <3>3. IsAligned(p + S, o)
      <4>1. (p + S) = (k + 1) * 2^o
        BY <3>2 DEF S
      <4>. QED  BY <2>1, <3>2, <4>1, AlignedForm
    <3>. QED  BY <3>2, <3>3
  <2>6. Filled(p, o) /\ Filled(p + S, o)
    <3>1. \A x \in p .. p + S - 1 : x \in p .. p + 2 * S - 1
      BY <2>2, <2>3
    <3>2. \A x \in p + S .. p + S + S - 1 : x \in p .. p + 2 * S - 1
      BY <2>2, <2>3
    <3>3. \A x \in p .. p + 2 * S - 1 : \E b \in FreeBlocks : Covers(b, x)
      BY <2>2 DEF Filled
    <3>. QED  BY <2>3, <2>4, <2>5, <3>1, <3>2, <3>3 DEF Filled
  <2>7. Whole(p, o) /\ Whole(p + S, o)
    BY <1>2, <2>1, <2>6
  <2>8. PICK b \in FreeBlocks : b[2] >= o /\ Covers(b, p)
    BY <2>7 DEF Whole
  <2>9. PICK c \in FreeBlocks : c[2] >= o /\ Covers(c, p + S)
    BY <2>7 DEF Whole
  <2>10. CASE b[2] # o
    <3>1. b[2] >= o + 1
      BY <1>0, <2>8, <2>10
    <3>. QED  BY <2>8, <3>1 DEF Whole
  <2>11. CASE b[2] = o
    <3>1. b[1] <= p /\ p < b[1] + S /\ IsAligned(b[1], o) /\ b[1] \in Nat
      BY <1>0, <2>8, <2>11 DEF Covers
    <3>2. b[1] = p
      BY <2>1, <2>3, <2>4, <3>1, SameStart
    <3>3. p \in free_lists[o]
      BY <1>0, <2>11, <3>2
    <3>4. p + S \notin free_lists[o]
      BY <2>1, <2>4, <3>3 DEF IInv, FullyMerged
    <3>5. CASE c[2] = o
      <4>1. c[1] <= p + S /\ p + S < c[1] + S /\ IsAligned(c[1], o) /\ c[1] \in Nat
        BY <1>0, <2>9, <3>5 DEF Covers
      <4>2. c[1] = p + S
        BY <2>1, <2>5, <4>1, SameStart
      <4>. QED  BY <1>0, <3>4, <3>5, <4>2
    <3>6. CASE c[2] # o
      <4>. DEFINE m == c[2]  Z == 2^m
      <4>1. m \in Orders /\ o + 1 <= m /\ c[1] \in Nat /\ IsAligned(c[1], m)
        BY <1>0, <2>9, <3>6
      <4>2. Z \in Nat \ {0}
        BY <4>1, Sizes
      <4>3. Apart(b, c)
        <5>1. b # c
          BY <2>11, <3>6
        <5>2. b \in Live /\ c \in Live
          BY DEF Live
        <5>. QED  BY <5>1, <5>2 DEF IInv, NoOverlap
      <4>4. c[1] <= p + S /\ p + S < c[1] + Z
        BY <2>9 DEF Covers
      <4>5. p + S <= c[1] \/ c[1] + Z <= p
        BY <2>11, <3>2, <4>3 DEF Apart
      <4>. HIDE DEF m, Z, S
      <4>6. c[1] = p + S
        BY <2>2, <2>3, <2>5, <4>1, <4>2, <4>4, <4>5
      <4>7. IsAligned(c[1], o + 1)
        BY <4>1, AlignedBelow
      <4>8. p <= c[1] /\ c[1] < p + 2^(o + 1)
        BY <2>2, <2>3, <4>6
      <4>9. c[1] = p
        BY <2>3, <4>1, <4>7, <4>8, SameStart
      <4>. QED  BY <2>2, <2>3, <4>6, <4>9
    <3>. QED  BY <3>5, <3>6
  <2>. QED  BY <2>10, <2>11
<1>. HIDE DEF T
<1>3. Nat \subseteq T
  BY <1>1, <1>2, Induction
<1>. QED  BY <1>0, <1>3 DEF T

\* alloc gives up only when no aligned run of the order asked for is free, not
\* even one made of smaller free blocks.
THEOREM NoneIsHonest == Spec => NoneMeansNoRun
<1>. DEFINE A == op = "alloc" /\ op' = "idle" /\ want < MAX_ORDER =>
                   ~ \E p \in Pages :
                       /\ p % 2^want = 0
                       /\ \A x \in p .. p + 2^want - 1 :
                            \E b \in FreeBlocks : Covers(b, x)
<1>1. ASSUME IInv, Searched, [Next]_vars
      PROVE  [A]_vars
  <2>. SUFFICES ASSUME Next, op = "alloc", op' = "idle", want < MAX_ORDER,
                       NEW p \in Pages, p % 2^want = 0,
                       \A x \in p .. p + 2^want - 1 : \E b \in FreeBlocks : Covers(b, x)
                PROVE  FALSE
    BY <1>1
  <2>1. order >= MAX_ORDER
    <3>1. CASE AllocNone
      BY <3>1 DEF AllocNone
    <3>2. CASE AllocSearch \/ AllocTake
      BY <3>2 DEF AllocSearch, AllocTake, Call
    <3>3. CASE AllocSplit \/ AllocReturn \/ DeallocKeep \/ DeallocMerge
      BY <3>3 DEF AllocSplit, AllocReturn, DeallocKeep, DeallocMerge
    <3>4. ~\E f \in Frames : AddFrame(f)
      BY DEF AddFrame
    <3>5. ~\E o \in 0 .. MAX_ORDER : Alloc(o)
      BY DEF Alloc
    <3>6. ~\E q \in Pages, o \in Orders : Dealloc(q, o)
      BY DEF Dealloc
    <3>. QED  BY <3>1, <3>2, <3>3, <3>4, <3>5, <3>6 DEF Next, Step
  <2>2. want \in Orders /\ want \in Nat /\ p \in Nat
    BY <1>1, ConstantsAssumption DEF IInv, TypeOK, Orders, Pages
  <2>3. \A k \in Orders : want <= k => free_lists[k] = {}
    BY <1>1, <2>1, ConstantsAssumption DEF Searched, Orders, IInv, TypeOK
  <2>4. IsAligned(p, want)
    <3>. DEFINE S == 2^want
    <3>1. S \in Nat \ {0}
      BY <2>2, Sizes
    <3>2. p % S = 0
      OBVIOUS
    <3>. HIDE DEF S
    <3>3. p = (p \div S) * S + (p % S) /\ p \div S \in Nat
      BY <2>2, <3>1
    <3>4. p = (p \div S) * S
      <4>. DEFINE q == p \div S
      <4>1. p = q * S + 0 /\ q \in Nat
        BY <3>2, <3>3
      <4>. HIDE DEF q
      <4>2. p = q * S
        BY <3>1, <4>1
      <4>. QED  BY <4>2 DEF q
    <3>. QED  BY <3>4 DEF IsAligned, S
  <2>5. Filled(p, want)
    BY <2>2, <2>4 DEF Filled
  <2>6. Whole(p, want)
    BY <1>1, <2>2, <2>5, FilledIsWhole
  <2>7. PICK b \in FreeBlocks : b[2] >= want
    BY <2>6 DEF Whole
  <2>8. b[2] \in Orders /\ b[1] \in free_lists[b[2]]
    BY DEF FreeBlocks
  <2>9. want <= b[2]
    BY <2>2, <2>7, <2>8 DEF Orders
  <2>. QED  BY <2>3, <2>8, <2>9
<1>2. Init => Searched
  BY DEF Init, Searched
<1>3. IInv /\ Searched /\ [Next]_vars => Searched'
  BY SearchedStep
<1>4. IInv /\ Searched /\ [Next]_vars => [A]_vars
  BY <1>1
<1>. QED  BY <1>2, <1>3, <1>4, Invariant, PTL DEF Spec, NoneMeansNoRun
=============================================================================
