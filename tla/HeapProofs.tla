----------------------------- MODULE HeapProofs -----------------------------
(***************************************************************************)
(* The kernel heap, for every page size, set of pages and set of object    *)
(* sizes: no slot is handed out twice (SlotsExact), the partial lists are  *)
(* exact (PartialExact), every page has one owner (PagesAccounted), objects*)
(* lie where they should (ObjectsPlaced), and a null pointer means that    *)
(* memory is exhausted (NullMeansExhausted).                               *)
(*                                                                         *)
(* The partial list of a cache is reasoned about through the sequence of   *)
(* its slabs (Chain); that following next_slab yields this sequence is an  *)
(* induction on the number of links.                                       *)
(***************************************************************************)
EXTENDS Heap, SequenceTheorems, FiniteSetTheorems, TLAPS

(***************************************************************************)
(* Induction over the natural numbers, and that a function defined by      *)
(* recursion over 0 .. N is what its definition says.                      *)
(***************************************************************************)
\* Every non-empty set of natural numbers has a least element.
LEMMA LeastNumber ==
  ASSUME NEW T, T \subseteq Nat, T # {}
  PROVE  \E n \in T : \A m \in T : n <= m
<1>. DEFINE Less == {ss \in Nat \X Nat : ss[1] < ss[2]}
<1>1. IsWellFoundedOn(Less, Nat)
  BY NatLessThanWellFounded DEF OpToRel
<1>2. \A m, n \in Nat : m < n => <<m, n>> \in Less
  OBVIOUS
<1>. HIDE DEF Less
<1>3. PICK x \in T : \A y \in T : ~(<<y, x>> \in Less)
  BY <1>1, WFMin
<1>4. \A y \in T : x <= y
  <2>. SUFFICES ASSUME NEW y \in T PROVE ~(y < x)
    OBVIOUS
  <2>1. y < x => <<y, x>> \in Less
    BY <1>2
  <2>. QED  BY <1>3, <2>1
<1>. QED  BY <1>4

\* Induction over the natural numbers.
LEMMA Induction ==
  ASSUME NEW S, 0 \in S, \A n \in Nat : n \in S => n + 1 \in S
  PROVE  Nat \subseteq S
<1>. SUFFICES ASSUME Nat \ S # {} PROVE FALSE
  OBVIOUS
<1>1. PICK n \in Nat \ S : \A m \in Nat \ S : n <= m
  BY LeastNumber
<1>2. n # 0 /\ n - 1 \in Nat /\ n - 1 \in S
  BY <1>1
<1>. QED  BY <1>1, <1>2

\* step gives the n-th value from the one before it.
Steps(step, X, N) == step \in [1 .. N -> [X -> X]]

Iterates(g, X, base, step, N) ==
  /\ g \in [0 .. N -> X]
  /\ g[0] = base
  /\ \A n \in 1 .. N : g[n] = step[n][g[n - 1]]

\* A recursive definition over 0 .. N has a solution.
LEMMA Iterate ==
  ASSUME NEW X, NEW base \in X, NEW step, NEW N \in Nat, Steps(step, X, N)
  PROVE  \E g : Iterates(g, X, base, step, N)
<1>. DEFINE S == {M \in Nat : M <= N => \E g : Iterates(g, X, base, step, M)}
<1>1. 0 \in S
  <2>1. Iterates([n \in 0 .. 0 |-> base], X, base, step, 0)
    BY DEF Iterates
  <2>. QED  BY <2>1
<1>2. ASSUME NEW M \in Nat, M \in S
      PROVE  M + 1 \in S
  <2>. SUFFICES ASSUME M + 1 <= N PROVE \E h : Iterates(h, X, base, step, M + 1)
    OBVIOUS
  <2>1. PICK g : Iterates(g, X, base, step, M)
    BY <1>2
  <2>. DEFINE h == [n \in 0 .. M + 1 |-> IF n <= M THEN g[n] ELSE step[n][g[M]]]
  <2>2. \A n \in 1 .. M + 1, x \in X : step[n][x] \in X
    BY DEF Steps
  <2>3. h \in [0 .. M + 1 -> X]
    BY <2>1, <2>2 DEF Iterates
  <2>4. h[0] = base
    BY <2>1 DEF Iterates
  <2>5. ASSUME NEW n \in 1 .. M + 1
        PROVE  h[n] = step[n][h[n - 1]]
    <3>1. CASE n \in 1 .. M
      BY <2>1, <3>1 DEF Iterates
    <3>2. CASE n = M + 1
      BY <2>1, <3>2 DEF Iterates
    <3>. QED  BY <3>1, <3>2
  <2>. HIDE DEF h
  <2>6. Iterates(h, X, base, step, M + 1)
    BY <2>3, <2>4, <2>5 DEF Iterates
  <2>. QED  BY <2>6
<1>. HIDE DEF S
<1>3. N \in S
  BY <1>1, <1>2, Induction
<1>. QED  BY <1>3 DEF S
-----------------------------------------------------------------------------
Links == [Pages -> Pages \union {None}]

RoomBody(g, n) ==
  [q \in Pages \union {None} |->
     IF q = None \/ n = 0 THEN None
     ELSE IF freelist[q] # <<>> THEN q ELSE g[n - 1][next_slab[q]]]

ListBody(g, n) ==
  [q \in Pages \union {None} |->
     IF q = None \/ n = 0 THEN <<>> ELSE <<q>> \o g[n - 1][next_slab[q]]]

\* The recursive definition of RoomWithin has a solution.
LEMMA RoomUnfold ==
  ASSUME next_slab \in Links
  PROVE  RoomWithin = [n \in 0 .. Cardinality(Pages) |-> RoomBody(RoomWithin, n)]
<1>. DEFINE Q == Pages \union {None}
            N == Cardinality(Pages)
            X == [Q -> Q]
            base == [q \in Q |-> None]
            step == [n \in 1 .. N |-> [r \in X |-> [q \in Q |->
                       IF q = None THEN None
                       ELSE IF freelist[q] # <<>> THEN q ELSE r[next_slab[q]]]]]
<1>1. N \in Nat
  BY SlabAssumption, FS_CardinalityType
<1>2. base \in X
  OBVIOUS
<1>3. Steps(step, X, N)
  BY DEF Links, Steps
<1>. HIDE DEF N, X, base, step
<1>4. PICK g : Iterates(g, X, base, step, N)
  BY <1>1, <1>2, <1>3, Iterate
<1>5. ASSUME NEW n \in 0 .. N
      PROVE  g[n] = RoomBody(g, n)
  <2>1. CASE n = 0
    BY <1>4, <2>1 DEF Iterates, RoomBody, base
  <2>2. CASE n \in 1 .. N
    <3>1. g[n] = step[n][g[n - 1]] /\ g[n - 1] \in X
      BY <1>1, <1>4, <2>2 DEF Iterates
    <3>2. n # 0 /\ n \in 1 .. N
      BY <2>2
    <3>. QED  BY <3>1, <3>2 DEF RoomBody, X, step
  <2>. QED  BY <1>1, <2>1, <2>2
<1>6. g = [n \in 0 .. N |-> RoomBody(g, n)]
  BY <1>4, <1>5 DEF Iterates
<1>. QED  BY <1>6 DEF RoomBody, RoomWithin, N

\* So has that of ListWithin.
LEMMA ListUnfold ==
  ASSUME next_slab \in Links
  PROVE  ListWithin = [n \in 0 .. Cardinality(Pages) |-> ListBody(ListWithin, n)]
<1>. DEFINE Q == Pages \union {None}
            N == Cardinality(Pages)
            X == [Q -> Seq(Pages)]
            base == [q \in Q |-> <<>>]
            step == [n \in 1 .. N |-> [r \in X |-> [q \in Q |->
                       IF q = None THEN <<>> ELSE <<q>> \o r[next_slab[q]]]]]
<1>1. N \in Nat
  BY SlabAssumption, FS_CardinalityType
<1>2. base \in X
  OBVIOUS
<1>3. Steps(step, X, N)
  <2>1. ASSUME NEW r \in X, NEW q \in Q, q # None
        PROVE  <<q>> \o r[next_slab[q]] \in Seq(Pages)
    <3>1. <<q>> \in Seq(Pages) /\ r[next_slab[q]] \in Seq(Pages)
      BY <2>1 DEF Links
    <3>. QED  BY <3>1, ConcatProperties
  <2>. DEFINE after(r) == [q \in Q |-> IF q = None THEN <<>> ELSE <<q>> \o r[next_slab[q]]]
  <2>2. \A r \in X : after(r) \in X
    BY <2>1
  <2>3. step = [n \in 1 .. N |-> [r \in X |-> after(r)]]
    OBVIOUS
  <2>. HIDE DEF step, after, X
  <2>. QED  BY <2>2, <2>3 DEF Steps
<1>. HIDE DEF N, X, base, step
<1>4. PICK g : Iterates(g, X, base, step, N)
  BY <1>1, <1>2, <1>3, Iterate
<1>5. ASSUME NEW n \in 0 .. N
      PROVE  g[n] = ListBody(g, n)
  <2>1. CASE n = 0
    BY <1>4, <2>1 DEF Iterates, ListBody, base
  <2>2. CASE n \in 1 .. N
    <3>1. g[n] = step[n][g[n - 1]] /\ g[n - 1] \in X
      BY <1>1, <1>4, <2>2 DEF Iterates
    <3>2. n # 0 /\ n \in 1 .. N
      BY <2>2
    <3>. QED  BY <3>1, <3>2 DEF ListBody, X, step
  <2>. QED  BY <1>1, <2>1, <2>2
<1>6. g = [n \in 0 .. N |-> ListBody(g, n)]
  BY <1>4, <1>5 DEF Iterates
<1>. QED  BY <1>6 DEF ListBody, ListWithin, N
-----------------------------------------------------------------------------
\* L is the sequence of n slabs that following nxt from head meets.
Chain(L, n, head, nxt) ==
  /\ n \in Nat /\ L \in [1 .. n -> Pages]
  /\ head = IF n = 0 THEN None ELSE L[1]
  /\ \A i \in 1 .. n : nxt[L[i]] = IF i = n THEN None ELSE L[i + 1]
  /\ \A i, j \in 1 .. n : L[i] = L[j] => i = j

On(L, n) == {L[i] : i \in 1 .. n}

\* A chain is not touched by what happens to the links of other pages.
LEMMA ChainKept ==
  ASSUME NEW L, NEW n, NEW head, NEW nxt, NEW nxt2, Chain(L, n, head, nxt),
         \A q \in On(L, n) : nxt2[q] = nxt[q]
  PROVE  Chain(L, n, head, nxt2)
BY DEF Chain, On

Linked(nxt, p, q) == [nxt EXCEPT ![p] = q]

\* Linking a page in front.
LEMMA ChainPush ==
  ASSUME NEW L, NEW n, NEW head, NEW nxt \in Links, Chain(L, n, head, nxt),
         NEW p \in Pages, p \notin On(L, n)
  PROVE  \E M, m : /\ Chain(M, m, p, Linked(nxt, p, head))
                   /\ On(M, m) = On(L, n) \union {p}
<1>. DEFINE m == n + 1
            M == [i \in 1 .. m |-> IF i = 1 THEN p ELSE L[i - 1]]
            nxt2 == Linked(nxt, p, head)
<1>1. n \in Nat /\ L \in [1 .. n -> Pages]
  BY DEF Chain
<1>2. M \in [1 .. m -> Pages]
  BY <1>1
<1>3. \A q \in Pages : nxt2[q] = IF q = p THEN head ELSE nxt[q]
  BY DEF Links, Linked
<1>4. M[1] = p /\ \A i \in 2 .. m : M[i] = L[i - 1] /\ M[i] # p /\ i - 1 \in 1 .. n
  BY <1>1 DEF On
<1>. HIDE DEF M, nxt2
<1>5. ASSUME NEW i \in 1 .. m
      PROVE  nxt2[M[i]] = IF i = m THEN None ELSE M[i + 1]
  <2>1. CASE i = 1
    <3>1. nxt2[M[i]] = head
      BY <1>3, <1>4, <2>1
    <3>2. head = IF n = 0 THEN None ELSE L[1]
      BY DEF Chain
    <3>3. n # 0 => M[2] = L[1]
      BY <1>1, <1>4
    <3>. QED  BY <1>1, <2>1, <3>1, <3>2, <3>3
  <2>2. CASE i \in 2 .. m
    <3>1. M[i] = L[i - 1] /\ M[i] # p /\ i - 1 \in 1 .. n /\ M[i] \in Pages
      BY <1>2, <1>4, <2>2
    <3>2. nxt2[M[i]] = nxt[L[i - 1]]
      BY <1>3, <3>1
    <3>3. nxt[L[i - 1]] = IF i - 1 = n THEN None ELSE L[i]
      BY <3>1, <1>1 DEF Chain
    <3>4. i # m => M[i + 1] = L[i]
      BY <1>1, <1>4, <2>2
    <3>. QED  BY <1>1, <3>1, <3>2, <3>3, <3>4
  <2>. QED  BY <1>1, <2>1, <2>2
<1>6. ASSUME NEW i \in 1 .. m, NEW j \in 1 .. m, M[i] = M[j]
      PROVE  i = j
  <2>1. CASE i = 1 \/ j = 1
    BY <1>1, <1>4, <1>6, <2>1
  <2>2. CASE i \in 2 .. m /\ j \in 2 .. m
    <3>1. L[i - 1] = L[j - 1] /\ i - 1 \in 1 .. n /\ j - 1 \in 1 .. n
      BY <1>4, <1>6, <2>2
    <3>2. i - 1 = j - 1
      BY <3>1 DEF Chain
    <3>. QED  BY <3>2
  <2>. QED  BY <1>1, <2>1, <2>2
<1>7. Chain(M, m, p, nxt2)
  BY <1>1, <1>2, <1>4, <1>5, <1>6 DEF Chain
<1>8. On(M, m) = On(L, n) \union {p}
  <2>1. On(M, m) \subseteq On(L, n) \union {p}
    BY <1>1, <1>4 DEF On
  <2>2. ASSUME NEW i \in 1 .. n
        PROVE  L[i] \in On(M, m)
    <3>1. i + 1 \in 2 .. m /\ M[i + 1] = L[i]
      BY <1>1, <1>4
    <3>. QED  BY <1>1, <3>1 DEF On
  <2>3. p \in On(M, m)
    BY <1>1, <1>4 DEF On
  <2>. QED  BY <2>1, <2>2, <2>3 DEF On
<1>. QED  BY <1>7, <1>8 DEF nxt2

\* Dropping the first page.
LEMMA ChainPop ==
  ASSUME NEW L, NEW n, NEW nxt \in Links, NEW p \in Pages, Chain(L, n, p, nxt)
  PROVE  \E M, m : /\ Chain(M, m, nxt[p], Linked(nxt, p, None))
                   /\ On(M, m) = On(L, n) \ {p}
<1>. DEFINE m == n - 1
            M == [i \in 1 .. m |-> L[i + 1]]
            nxt2 == Linked(nxt, p, None)
<1>1. n \in Nat /\ n > 0 /\ L \in [1 .. n -> Pages] /\ L[1] = p
  BY SlabAssumption DEF Chain
<1>2. m \in Nat /\ M \in [1 .. m -> Pages]
  BY <1>1
<1>3. \A q \in Pages : nxt2[q] = IF q = p THEN None ELSE nxt[q]
  BY DEF Links, Linked
<1>4. \A i \in 1 .. m : M[i] = L[i + 1] /\ M[i] # p /\ i + 1 \in 1 .. n
  BY <1>1 DEF Chain
<1>. HIDE DEF M, nxt2
<1>5. ASSUME NEW i \in 1 .. m
      PROVE  nxt2[M[i]] = IF i = m THEN None ELSE M[i + 1]
  <2>1. nxt2[M[i]] = nxt[L[i + 1]]
    BY <1>2, <1>3, <1>4
  <2>2. nxt[L[i + 1]] = IF i + 1 = n THEN None ELSE L[(i + 1) + 1]
    BY <1>4 DEF Chain
  <2>3. i # m => M[i + 1] = L[(i + 1) + 1]
    BY <1>1, <1>4
  <2>. QED  BY <1>1, <2>1, <2>2, <2>3
<1>6. \A i, j \in 1 .. m : M[i] = M[j] => i = j
  <2>. SUFFICES ASSUME NEW i \in 1 .. m, NEW j \in 1 .. m, M[i] = M[j] PROVE i = j
    OBVIOUS
  <2>1. L[i + 1] = L[j + 1] /\ i + 1 \in 1 .. n /\ j + 1 \in 1 .. n
    BY <1>4
  <2>2. i + 1 = j + 1
    BY <2>1 DEF Chain
  <2>. QED  BY <2>2
<1>7. nxt[p] = IF m = 0 THEN None ELSE M[1]
  <2>1. nxt[L[1]] = IF 1 = n THEN None ELSE L[1 + 1]
    BY <1>1 DEF Chain
  <2>2. m # 0 => M[1] = L[1 + 1]
    BY <1>1, <1>4
  <2>. QED  BY <1>1, <2>1, <2>2
<1>8. Chain(M, m, nxt[p], nxt2)
  BY <1>2, <1>5, <1>6, <1>7 DEF Chain
<1>9. On(M, m) = On(L, n) \ {p}
  <2>1. On(M, m) \subseteq On(L, n) \ {p}
    BY <1>4 DEF On
  <2>2. ASSUME NEW i \in 1 .. n, L[i] # p
        PROVE  L[i] \in On(M, m)
    <3>1. i - 1 \in 1 .. m /\ M[i - 1] = L[(i - 1) + 1]
      BY <1>1, <1>4, <2>2
    <3>. QED  BY <3>1 DEF On
  <2>. QED  BY <2>1, <2>2 DEF On
<1>. QED  BY <1>8, <1>9 DEF nxt2

\* Unlinking a page as remove_slab_from_partial does, wherever it is on the
\* list, if it is on it at all.
Unlinked(nxt, head, S, p) ==
  [q \in Pages |-> IF q \in S /\ p # head /\ nxt[q] = p THEN nxt[p] ELSE nxt[q]]

HeadWithout(nxt, head, p) == IF head = p THEN nxt[p] ELSE head

\* The list without the page, and nothing else changed.
LEMMA ChainRemove ==
  ASSUME NEW L, NEW n, NEW head, NEW nxt \in Links, NEW p \in Pages, Chain(L, n, head, nxt)
  PROVE  \E M, m : /\ Chain(M, m, HeadWithout(nxt, head, p),
                            Unlinked(nxt, head, On(L, n), p))
                   /\ On(M, m) = On(L, n) \ {p}
<1>. DEFINE nxt2 == Unlinked(nxt, head, On(L, n), p)
<1>1. n \in Nat /\ L \in [1 .. n -> Pages] /\ head = (IF n = 0 THEN None ELSE L[1])
  BY DEF Chain
<1>2. \A q \in Pages :
        nxt2[q] = IF q \in On(L, n) /\ p # head /\ nxt[q] = p THEN nxt[p] ELSE nxt[q]
  BY DEF Unlinked
<1>3. \A i \in 1 .. n : L[i] \in On(L, n) /\ L[i] \in Pages
  BY <1>1 DEF On
<1>4. head = p => p \in On(L, n)
  BY <1>1, <1>3, SlabAssumption
<1>. HIDE DEF nxt2
<1>5. CASE p \notin On(L, n)
  <2>1. ASSUME NEW i \in 1 .. n
        PROVE  nxt2[L[i]] = nxt[L[i]]
    <3>1. nxt[L[i]] = IF i = n THEN None ELSE L[i + 1]
      BY DEF Chain
    <3>2. nxt[L[i]] # p
      BY <1>1, <1>3, <1>5, <3>1, SlabAssumption
    <3>. QED  BY <1>2, <1>3, <3>2
  <2>2. Chain(L, n, head, nxt2)
    BY <2>1 DEF Chain
  <2>. QED  BY <1>4, <1>5, <2>2 DEF nxt2, HeadWithout
<1>6. CASE head = p
  <2>0. Chain(L, n, p, nxt)
    BY <1>6
  <2>1. PICK M, m : /\ Chain(M, m, nxt[p], Linked(nxt, p, None))
                    /\ On(M, m) = On(L, n) \ {p}
    BY <2>0, ChainPop
  <2>2. \A q \in On(M, m) : q \in Pages /\ q # p
    BY <1>1, <2>1 DEF On
  <2>3. \A q \in On(M, m) : nxt2[q] = Linked(nxt, p, None)[q]
    BY <1>2, <1>6, <2>2 DEF Links, Linked
  <2>4. Chain(M, m, nxt[p], nxt2)
    BY <2>1, <2>3, ChainKept
  <2>. QED  BY <1>6, <2>1, <2>4 DEF nxt2, HeadWithout
<1>7. CASE p \in On(L, n) /\ head # p
  <2>1. PICK k \in 1 .. n : L[k] = p
    BY <1>7 DEF On
  <2>2. k # 1
    BY <1>1, <1>7, <2>1
  <2>. DEFINE m == n - 1
              M == [i \in 1 .. m |-> IF i < k THEN L[i] ELSE L[i + 1]]
  <2>3. m \in Nat /\ M \in [1 .. m -> Pages] /\ k - 1 \in 1 .. m
    BY <1>1, <2>1, <2>2
  <2>4. \A i \in 1 .. m : /\ i < k => M[i] = L[i]
                          /\ i >= k => M[i] = L[i + 1]
    BY <1>1
  <2>5. \A i \in 1 .. n : nxt[L[i]] = p <=> i = k - 1
    <3>1. ASSUME NEW i \in 1 .. n PROVE nxt[L[i]] = IF i = n THEN None ELSE L[i + 1]
      BY DEF Chain
    <3>2. \A i \in 1 .. n : i # n => (L[i + 1] = p <=> i + 1 = k)
      BY <1>1, <2>1 DEF Chain
    <3>. QED  BY <1>1, <2>1, <2>2, <3>1, <3>2, SlabAssumption
  <2>6. nxt[p] = IF k = n THEN None ELSE L[k + 1]
    BY <2>1 DEF Chain
  <2>7. \A i \in 1 .. n :
          nxt2[L[i]] = IF i = k - 1 THEN (IF k = n THEN None ELSE L[k + 1]) ELSE nxt[L[i]]
    BY <1>2, <1>3, <1>7, <2>5, <2>6
  <2>. HIDE DEF M
  <2>8. ASSUME NEW i \in 1 .. m
        PROVE  nxt2[M[i]] = IF i = m THEN None ELSE M[i + 1]
    <3>0. \A j \in 1 .. n : nxt[L[j]] = IF j = n THEN None ELSE L[j + 1]
      BY DEF Chain
    <3>1. CASE i < k - 1
      <4>1. M[i] = L[i] /\ M[i + 1] = L[i + 1] /\ i \in 1 .. n /\ i # n /\ i # m
        BY <1>1, <2>1, <2>4, <3>1
      <4>. QED  BY <2>7, <3>0, <3>1, <4>1
    <3>2. CASE i = k - 1
      <4>1. M[i] = L[i] /\ i \in 1 .. n
        BY <1>1, <2>1, <2>4, <3>2
      <4>2. i # m => M[i + 1] = L[k + 1]
        BY <1>1, <2>1, <2>4, <3>2
      <4>3. i = m <=> k = n
        BY <1>1, <2>1, <3>2
      <4>. QED  BY <2>7, <3>2, <4>1, <4>2, <4>3
    <3>3. CASE i >= k
      <4>1. M[i] = L[i + 1] /\ i + 1 \in 1 .. n /\ i + 1 # k - 1
        BY <1>1, <2>1, <2>4, <3>3
      <4>2. i # m => M[i + 1] = L[(i + 1) + 1]
        BY <1>1, <2>1, <2>4, <3>3
      <4>3. i = m <=> i + 1 = n
        BY <1>1
      <4>. QED  BY <2>7, <3>0, <4>1, <4>2, <4>3
    <3>. QED  BY <2>1, <3>1, <3>2, <3>3
  <2>9. \A i, j \in 1 .. m : M[i] = M[j] => i = j
    <3>. SUFFICES ASSUME NEW i \in 1 .. m, NEW j \in 1 .. m, M[i] = M[j] PROVE i = j
      OBVIOUS
    <3>. DEFINE f(x) == IF x < k THEN x ELSE x + 1
    <3>1. M[i] = L[f(i)] /\ M[j] = L[f(j)] /\ f(i) \in 1 .. n /\ f(j) \in 1 .. n
      BY <1>1, <2>1, <2>4
    <3>2. f(i) = f(j)
      <4>. HIDE DEF f
      <4>. QED  BY <3>1 DEF Chain
    <3>. QED  BY <2>1, <3>2
  <2>10. head = IF m = 0 THEN None ELSE M[1]
    BY <1>1, <2>1, <2>2, <2>3, <2>4
  <2>11. Chain(M, m, head, nxt2)
    BY <2>3, <2>8, <2>9, <2>10 DEF Chain
  <2>12. On(M, m) = On(L, n) \ {p}
    <3>1. ASSUME NEW i \in 1 .. m PROVE M[i] \in On(L, n) \ {p}
      <4>1. PICK j \in 1 .. n : M[i] = L[j] /\ j # k
        BY <1>1, <2>1, <2>4
      <4>. QED  BY <1>3, <2>1, <4>1 DEF Chain
    <3>2. ASSUME NEW i \in 1 .. n, L[i] # p PROVE L[i] \in On(M, m)
      <4>1. CASE i < k
        <5>1. i \in 1 .. m /\ M[i] = L[i]
          BY <1>1, <2>1, <2>4, <4>1
        <5>. QED  BY <5>1 DEF On
      <4>2. CASE i > k
        <5>1. i - 1 \in 1 .. m /\ M[i - 1] = L[(i - 1) + 1]
          BY <1>1, <2>1, <2>4, <4>2
        <5>. QED  BY <5>1 DEF On
      <4>. QED  BY <2>1, <3>2, <4>1, <4>2
    <3>. QED  BY <3>1, <3>2 DEF On
  <2>. QED  BY <1>7, <2>11, <2>12 DEF nxt2, HeadWithout
<1>. QED  BY <1>5, <1>6, <1>7

\* Following next_slab from the head of a chain yields the chain.
LEMMA ChainList ==
  ASSUME NEW L, NEW n, NEW head, next_slab \in Links, Chain(L, n, head, next_slab)
  PROVE  /\ ListFrom(head) = L
         /\ L \in Seq(Pages) /\ Len(L) = n /\ Range(L) = On(L, n)
<1>. DEFINE N == Cardinality(Pages)
<1>1. n \in Nat /\ L \in [1 .. n -> Pages] /\ head = (IF n = 0 THEN None ELSE L[1])
  BY DEF Chain
<1>2. L \in Seq(Pages) /\ Len(L) = n
  BY <1>1, SeqDef
<1>3. Range(L) = On(L, n)
  BY <1>1 DEF Range, On
<1>4. N \in Nat /\ n <= N
  <2>1. L \in Injection(1 .. n, Pages)
    BY <1>1 DEF Chain, Injection, IsInjective
  <2>2. Cardinality(1 .. n) = n
    BY <1>1, FS_Interval
  <2>. QED  BY <2>1, <2>2, SlabAssumption, FS_CardinalityType, FS_Injection
<1>5. \A m \in 0 .. N : \A q \in Pages \union {None} :
        ListWithin[m][q] = IF q = None \/ m = 0 THEN <<>>
                           ELSE <<q>> \o ListWithin[m - 1][next_slab[q]]
  <2>1. \A m \in 0 .. N : ListWithin[m] = ListBody(ListWithin, m)
    BY ListUnfold
  <2>. QED  BY <2>1 DEF ListBody
<1>. HIDE DEF N
<1>. DEFINE X(k) == IF k = 0 THEN None ELSE L[n - k + 1]
            S == {k \in Nat : k <= n =>
                    \A m \in k .. N : ListWithin[m][X(k)] = SubSeq(L, n - k + 1, n)}
<1>6. 0 \in S
  <2>1. SubSeq(L, n - 0 + 1, n) = <<>>
    BY <1>1, SubSeqEmpty
  <2>2. \A m \in 0 .. N : ListWithin[m][None] = <<>>
    BY <1>5
  <2>. QED  BY <2>1, <2>2
<1>7. ASSUME NEW k \in Nat, k \in S
      PROVE  k + 1 \in S
  <2>. SUFFICES ASSUME k + 1 <= n, NEW m \in k + 1 .. N
                PROVE  ListWithin[m][X(k + 1)] = SubSeq(L, n - (k + 1) + 1, n)
    OBVIOUS
  <2>. DEFINE j == n - k
  <2>1. j \in 1 .. n /\ m \in 0 .. N /\ m # 0 /\ m - 1 \in k .. N
    BY <1>1, <1>4
  <2>2. X(k + 1) = L[j] /\ L[j] \in Pages /\ L[j] # None
    BY <1>1, <2>1, SlabAssumption
  <2>3. next_slab[L[j]] = X(k)
    <3>1. next_slab[L[j]] = IF j = n THEN None ELSE L[j + 1]
      BY <2>1 DEF Chain
    <3>. QED  BY <1>1, <3>1
  <2>4. ListWithin[m][L[j]] = <<L[j]>> \o ListWithin[m - 1][next_slab[L[j]]]
    BY <1>5, <2>1, <2>2
  <2>5. ListWithin[m - 1][X(k)] = SubSeq(L, j + 1, n)
    BY <1>1, <1>7, <2>1
  <2>6. SubSeq(L, j, n) = <<L[j]>> \o SubSeq(L, j + 1, n)
    BY <1>1, <1>2, <2>1, SubSeqRecursiveFirst
  <2>7. n - (k + 1) + 1 = j
    BY <1>1
  <2>. QED  BY <2>2, <2>3, <2>4, <2>5, <2>6, <2>7
<1>. HIDE DEF S
<1>8. n \in S
  BY <1>1, <1>6, <1>7, Induction
<1>9. ListWithin[N][X(n)] = SubSeq(L, n - n + 1, n)
  BY <1>1, <1>4, <1>8 DEF S
<1>10. X(n) = head /\ n - n + 1 = 1
  BY <1>1
<1>11. SubSeq(L, 1, n) = L
  BY <1>2, SubSeqFull
<1>. QED  BY <1>2, <1>3, <1>9, <1>10, <1>11 DEF ListFrom, N
-----------------------------------------------------------------------------
\* SlabsOf and HeldSlots of any set of held slots.
SlabsIn(l, s)   == {b[2] : b \in {c \in l : c[1] = s}}
HeldIn(l, s, p) == {b[3] : b \in {c \in l : c[1] = s /\ c[2] = p}}

Triples == Sizes \X Pages \X Nat

\* Membership in them.
LEMMA HeldMembers ==
  ASSUME NEW l, l \subseteq Triples, NEW s
  PROVE  /\ SlabsIn(l, s) \subseteq Pages
         /\ \A p : p \in SlabsIn(l, s) <=> HeldIn(l, s, p) # {}
         /\ \A p, k : k \in HeldIn(l, s, p) <=> <<s, p, k>> \in l
         /\ \A p : HeldIn(l, s, p) \subseteq Nat
<1>1. \A b \in l : b = <<b[1], b[2], b[3]>> /\ b[1] \in Sizes /\ b[2] \in Pages /\ b[3] \in Nat
  BY DEF Triples
<1>2. ASSUME NEW p, NEW k
      PROVE  k \in HeldIn(l, s, p) <=> <<s, p, k>> \in l
  <2>1. <<s, p, k>> \in l => k \in HeldIn(l, s, p)
    <3>1. <<s, p, k>>[1] = s /\ <<s, p, k>>[2] = p /\ <<s, p, k>>[3] = k
      OBVIOUS
    <3>. QED  BY <3>1 DEF HeldIn
  <2>2. ASSUME k \in HeldIn(l, s, p)
        PROVE  <<s, p, k>> \in l
    <3>1. PICK b \in l : b[1] = s /\ b[2] = p /\ b[3] = k
      BY <2>2 DEF HeldIn
    <3>. QED  BY <1>1, <3>1
  <2>. QED  BY <2>1, <2>2
<1>3. ASSUME NEW p
      PROVE  p \in SlabsIn(l, s) <=> HeldIn(l, s, p) # {}
  BY DEF SlabsIn, HeldIn
<1>4. SlabsIn(l, s) \subseteq Pages /\ \A p : HeldIn(l, s, p) \subseteq Nat
  BY <1>1 DEF SlabsIn, HeldIn
<1>. QED  BY <1>2, <1>3, <1>4

Gains(l, m, s, p, k) ==
  /\ l \subseteq Triples /\ s \in Sizes /\ p \in Pages /\ k \in Nat
  /\ m = l \union {<<s, p, k>>}

Loses(l, m, s, p, k) ==
  /\ l \subseteq Triples /\ s \in Sizes /\ p \in Pages /\ k \in Nat
  /\ <<s, p, k>> \in l /\ m = l \ {<<s, p, k>>}

\* One more slot is held.
LEMMA HeldMore ==
  ASSUME NEW l, NEW m, NEW s, NEW p, NEW k, Gains(l, m, s, p, k)
  PROVE  /\ m \subseteq Triples
         /\ HeldIn(m, s, p) = HeldIn(l, s, p) \union {k}
         /\ \A t, q : t # s \/ q # p => HeldIn(m, t, q) = HeldIn(l, t, q)
         /\ SlabsIn(m, s) = SlabsIn(l, s) \union {p}
         /\ \A t : t # s => SlabsIn(m, t) = SlabsIn(l, t)
<1>. USE DEF Gains
<1>1. m \subseteq Triples
  BY DEF Triples
<1>2. \A t, q, j : <<t, q, j>> \in m <=> <<t, q, j>> \in l \/ (t = s /\ q = p /\ j = k)
  OBVIOUS
<1>3. \A t, q, j : j \in HeldIn(m, t, q) <=> j \in HeldIn(l, t, q) \/ (t = s /\ q = p /\ j = k)
  BY <1>1, <1>2, HeldMembers
<1>4. ASSUME NEW t, NEW q
      PROVE  q \in SlabsIn(m, t) <=> q \in SlabsIn(l, t) \/ (t = s /\ q = p)
  <2>1. HeldIn(m, t, q) # {} <=> HeldIn(l, t, q) # {} \/ (t = s /\ q = p)
    BY <1>3
  <2>. QED  BY <1>1, <2>1, HeldMembers
<1>5. HeldIn(m, s, p) = HeldIn(l, s, p) \union {k}
  BY <1>3
<1>6. ASSUME NEW t, NEW q, t # s \/ q # p
      PROVE  HeldIn(m, t, q) = HeldIn(l, t, q)
  <2>1. \A j : j \in HeldIn(m, t, q) <=> j \in HeldIn(l, t, q)
    BY <1>3, <1>6
  <2>. QED  BY <2>1, Zenon
<1>7. SlabsIn(m, s) = SlabsIn(l, s) \union {p}
  BY <1>4
<1>8. ASSUME NEW t, t # s
      PROVE  SlabsIn(m, t) = SlabsIn(l, t)
  BY <1>4, <1>8
<1>. QED  BY <1>1, <1>5, <1>6, <1>7, <1>8

\* One slot is given back.
LEMMA HeldLess ==
  ASSUME NEW l, NEW m, NEW s, NEW p, NEW k, Loses(l, m, s, p, k)
  PROVE  /\ m \subseteq Triples
         /\ HeldIn(m, s, p) = HeldIn(l, s, p) \ {k} /\ k \in HeldIn(l, s, p)
         /\ \A t, q : t # s \/ q # p => HeldIn(m, t, q) = HeldIn(l, t, q)
         /\ SlabsIn(m, s) = IF HeldIn(l, s, p) = {k} THEN SlabsIn(l, s) \ {p} ELSE SlabsIn(l, s)
         /\ p \in SlabsIn(l, s)
         /\ \A t : t # s => SlabsIn(m, t) = SlabsIn(l, t)
<1>. USE DEF Loses
<1>1. m \subseteq Triples
  OBVIOUS
<1>2. \A t, q, j : <<t, q, j>> \in m <=> <<t, q, j>> \in l /\ ~(t = s /\ q = p /\ j = k)
  OBVIOUS
<1>3. \A t, q, j : j \in HeldIn(m, t, q) <=> j \in HeldIn(l, t, q) /\ ~(t = s /\ q = p /\ j = k)
  BY <1>1, <1>2, HeldMembers
<1>4. k \in HeldIn(l, s, p) /\ p \in SlabsIn(l, s)
  BY HeldMembers
<1>5. HeldIn(m, s, p) = HeldIn(l, s, p) \ {k}
  BY <1>3
<1>6. ASSUME NEW t, NEW q, t # s \/ q # p
      PROVE  HeldIn(m, t, q) = HeldIn(l, t, q)
  <2>1. \A j : j \in HeldIn(m, t, q) <=> j \in HeldIn(l, t, q)
    BY <1>3, <1>6
  <2>. QED  BY <2>1, Zenon
<1>7. ASSUME NEW t, NEW q, t # s \/ q # p
      PROVE  q \in SlabsIn(m, t) <=> q \in SlabsIn(l, t)
  <2>1. HeldIn(m, t, q) = HeldIn(l, t, q)
    BY <1>6, <1>7
  <2>2. (q \in SlabsIn(m, t) <=> HeldIn(m, t, q) # {})
        /\ (q \in SlabsIn(l, t) <=> HeldIn(l, t, q) # {})
    BY <1>1, HeldMembers
  <2>. QED  BY <2>1, <2>2
<1>8. p \in SlabsIn(m, s) <=> HeldIn(l, s, p) # {k}
  BY <1>1, <1>4, <1>5, HeldMembers
<1>. HIDE DEF Loses
<1>9. SlabsIn(m, s) = IF HeldIn(l, s, p) = {k} THEN SlabsIn(l, s) \ {p} ELSE SlabsIn(l, s)
  BY <1>4, <1>7, <1>8
<1>10. ASSUME NEW t, t # s
       PROVE  SlabsIn(m, t) = SlabsIn(l, t)
  BY <1>7, <1>10
<1>. QED  BY <1>1, <1>4, <1>5, <1>6, <1>9, <1>10
-----------------------------------------------------------------------------
\* What the freelist and in_use of a slab are when the slots H are held.
SlabOK(s, fl, used, H) ==
  /\ fl \in Seq(Nat) /\ used \in Nat
  /\ H \subseteq Slots(s) /\ used = Cardinality(H)
  /\ \A i, j \in DOMAIN fl : fl[i] = fl[j] => i = j
  /\ Range(fl) = Slots(s) \ H
  /\ Len(fl) = Capacity(s) - used

\* The layout of a slab: objects start behind the header, fit in the page,
\* and, the sizes being powers of two, are aligned to their size.
LEMMA CapacityType ==
  ASSUME NEW s \in Sizes
  PROVE  /\ s \in Nat /\ s > 0 /\ ObjectStart(s) \in Nat /\ Capacity(s) \in Nat
         /\ ObjectStart(s) >= HEADER_SIZE /\ (\E d \in Nat : ObjectStart(s) = d * s)
         /\ Capacity(s) > 0 => ObjectStart(s) + Capacity(s) * s <= PAGE_SIZE
<1>1. s \in Nat /\ s > 0 /\ HEADER_SIZE \in Nat /\ PAGE_SIZE \in Nat
  BY SlabAssumption
<1>2. ObjectStart(s) = ((HEADER_SIZE + s - 1) \div s) * s
  BY LayoutAssumption DEF ObjectStart
<1>. DEFINE x == HEADER_SIZE + s - 1
            d == x \div s
<1>3. x \in Nat /\ d \in Nat
  BY <1>1
<1>4. \A a \in Nat : a \div s \in Nat /\ (a \div s) * s <= a /\ a < (a \div s) * s + s
  BY <1>1, Z3
<1>5. d * s \in Nat
  BY <1>1, <1>3
<1>6. d * s >= HEADER_SIZE
  BY <1>1, <1>3, <1>4, <1>5
<1>7. ObjectStart(s) \in Nat /\ ObjectStart(s) >= HEADER_SIZE
      /\ (\E e \in Nat : ObjectStart(s) = e * s)
  BY <1>2, <1>3, <1>5, <1>6
<1>. DEFINE r == PAGE_SIZE - ObjectStart(s)
<1>8. CASE ObjectStart(s) >= PAGE_SIZE
  BY <1>1, <1>7, <1>8 DEF Capacity
<1>9. CASE ~(ObjectStart(s) >= PAGE_SIZE)
  <2>1. r \in Nat /\ Capacity(s) = r \div s
    BY <1>1, <1>7, <1>9 DEF Capacity
  <2>2. Capacity(s) \in Nat /\ Capacity(s) * s <= r
    BY <1>4, <2>1
  <2>3. Capacity(s) * s \in Nat
    BY <1>1, <2>2
  <2>. QED  BY <1>1, <1>7, <2>2, <2>3
<1>. QED  BY <1>8, <1>9

\* The set of a sequence's elements.
LEMMA SetOfSeq ==
  ASSUME NEW q \in Seq(Nat)
  PROVE  \A x : x \in Range(q) <=> \E i \in 1 .. Len(q) : q[i] = x
BY DEF Range

\* Taking the first free slot.
LEMMA SlabTake ==
  ASSUME NEW s \in Sizes, NEW fl, NEW used, NEW H, SlabOK(s, fl, used, H), fl # <<>>
  PROVE  /\ Head(fl) \in Slots(s) \ H /\ Head(fl) \in Nat
         /\ SlabOK(s, Tail(fl), used + 1, H \union {Head(fl)})
<1>. DEFINE h == Head(fl)  t == Tail(fl)
<1>1. Capacity(s) \in Nat /\ IsFiniteSet(Slots(s))
  BY CapacityType, FS_Interval DEF Slots
<1>2. fl \in Seq(Nat) /\ Len(fl) \in Nat /\ Len(fl) > 0 /\ used \in Nat
  BY EmptySeq DEF SlabOK
<1>3. t \in Seq(Nat) /\ Len(t) = Len(fl) - 1 /\ h = fl[1] /\ h \in Nat
      /\ \A i \in 1 .. Len(t) : t[i] = fl[i + 1]
  BY <1>2
<1>4. h \in Slots(s) \ H
  BY <1>2, <1>3, SetOfSeq DEF SlabOK
<1>5. H \union {h} \subseteq Slots(s)
  BY <1>4 DEF SlabOK
<1>6. used + 1 = Cardinality(H \union {h})
  <2>1. IsFiniteSet(H)
    BY <1>1, FS_Subset DEF SlabOK
  <2>. QED  BY <1>4, <2>1, FS_AddElement DEF SlabOK
<1>. HIDE DEF h, t
<1>7. \A i, j \in DOMAIN t : t[i] = t[j] => i = j
  <2>. SUFFICES ASSUME NEW i \in 1 .. Len(t), NEW j \in 1 .. Len(t), t[i] = t[j] PROVE i = j
    BY <1>3
  <2>0. DOMAIN fl = 1 .. Len(fl) /\ Len(t) = Len(fl) - 1
    BY <1>2, <1>3
  <2>1. i + 1 \in DOMAIN fl /\ j + 1 \in DOMAIN fl
    BY <1>2, <2>0
  <2>3. fl[i + 1] = fl[j + 1]
    <3>1. fl[i + 1] = t[i] /\ fl[j + 1] = t[j]
      BY <1>3
    <3>. QED  BY <3>1
  <2>2. i + 1 = j + 1
    BY <2>1, <2>3 DEF SlabOK
  <2>. QED  BY <2>2
<1>8. ASSUME NEW x
      PROVE  x \in Range(t) <=> x \in Slots(s) \ (H \union {h})
  <2>1. x \in Range(fl) <=> x \in Slots(s) \ H
    BY DEF SlabOK
  <2>2. ASSUME x \in Range(t) PROVE x \in Range(fl) /\ x # h
    <3>1. PICK i \in 1 .. Len(t) : t[i] = x
      BY <1>3, <2>2, SetOfSeq
    <3>2. i + 1 \in 1 .. Len(fl) /\ fl[i + 1] = x
      BY <1>2, <1>3, <3>1
    <3>3. fl[1] = x => i + 1 = 1
      BY <1>2, <3>2 DEF SlabOK
    <3>. QED  BY <1>2, <1>3, <3>2, <3>3, SetOfSeq
  <2>3. ASSUME x \in Range(fl), x # h PROVE x \in Range(t)
    <3>1. PICK i \in 1 .. Len(fl) : fl[i] = x
      BY <1>2, <2>3, SetOfSeq
    <3>2. i # 1
      BY <1>3, <2>3, <3>1
    <3>3. Len(fl) \in Nat /\ Len(t) = Len(fl) - 1
      BY <1>2, <1>3
    <3>4. i - 1 \in 1 .. Len(t) /\ (i - 1) + 1 = i
      BY <3>1, <3>2, <3>3
    <3>5. t[i - 1] = fl[(i - 1) + 1]
      BY <1>3, <3>4
    <3>6. t[i - 1] = x
      BY <3>1, <3>4, <3>5
    <3>. QED  BY <1>3, <3>4, <3>6, SetOfSeq
  <2>. QED  BY <2>1, <2>2, <2>3
<1>9. Range(t) = Slots(s) \ (H \union {h})
  BY <1>8
<1>10. Len(t) = Capacity(s) - (used + 1)
  BY <1>1, <1>2, <1>3 DEF SlabOK
<1>11. used + 1 \in Nat
  BY <1>2
<1>. QED  BY <1>3, <1>4, <1>5, <1>6, <1>7, <1>9, <1>10, <1>11 DEF SlabOK, h, t

\* Putting a held slot in front.
LEMMA SlabPut ==
  ASSUME NEW s \in Sizes, NEW fl, NEW used, NEW H, SlabOK(s, fl, used, H), NEW k \in H
  PROVE  used > 0 /\ SlabOK(s, <<k>> \o fl, used - 1, H \ {k})
<1>. DEFINE t == <<k>> \o fl
<1>1. Capacity(s) \in Nat /\ IsFiniteSet(Slots(s)) /\ k \in Nat /\ k \in Slots(s)
  BY CapacityType, FS_Interval DEF Slots, SlabOK
<1>2. fl \in Seq(Nat) /\ Len(fl) \in Nat /\ used \in Nat
  BY DEF SlabOK
<1>3. t \in Seq(Nat) /\ Len(t) = Len(fl) + 1 /\ t[1] = k
      /\ \A i \in 1 .. Len(fl) : t[i + 1] = fl[i]
  <2>1. <<k>> \in Seq(Nat) /\ Len(<<k>>) = 1 /\ <<k>>[1] = k
    BY <1>1
  <2>2. t \in Seq(Nat) /\ Len(t) = Len(fl) + 1
        /\ \A i \in 1 .. 1 + Len(fl) : t[i] = IF i <= 1 THEN <<k>>[i] ELSE fl[i - 1]
    BY <1>2, <2>1, ConcatProperties
  <2>. QED  BY <1>2, <2>1, <2>2
<1>4. IsFiniteSet(H) /\ used > 0 /\ used - 1 = Cardinality(H \ {k})
  <2>1. IsFiniteSet(H)
    BY <1>1, FS_Subset DEF SlabOK
  <2>2. used # 0
    BY <2>1, FS_EmptySet DEF SlabOK
  <2>3. Cardinality(H \ {k}) = Cardinality(H) - 1
    BY <2>1, FS_RemoveElement
  <2>. QED  BY <1>2, <2>1, <2>2, <2>3 DEF SlabOK
<1>5. \A i \in 1 .. Len(fl) : fl[i] # k
  BY <1>2, SetOfSeq DEF SlabOK
<1>. HIDE DEF t
<1>6. \A i \in 2 .. Len(t) : i - 1 \in 1 .. Len(fl) /\ t[i] = fl[i - 1]
  <2>. SUFFICES ASSUME NEW i \in 2 .. Len(t)
                PROVE  i - 1 \in 1 .. Len(fl) /\ t[i] = fl[i - 1]
    OBVIOUS
  <2>1. i - 1 \in 1 .. Len(fl) /\ (i - 1) + 1 = i
    BY <1>2, <1>3
  <2>. QED  BY <1>3, <2>1
<1>7. \A i, j \in DOMAIN t : t[i] = t[j] => i = j
  <2>. SUFFICES ASSUME NEW i \in 1 .. Len(t), NEW j \in 1 .. Len(t), t[i] = t[j] PROVE i = j
    BY <1>3
  <2>1. CASE i = 1 \/ j = 1
    <3>1. \A m \in 2 .. Len(t) : t[m] # t[1]
      BY <1>3, <1>5, <1>6
    <3>2. \A m \in 1 .. Len(t) : m = 1 \/ m \in 2 .. Len(t)
      BY <1>2, <1>3
    <3>. QED  BY <2>1, <3>1, <3>2
  <2>2. CASE i \in 2 .. Len(t) /\ j \in 2 .. Len(t)
    <3>1. i - 1 \in DOMAIN fl /\ j - 1 \in DOMAIN fl /\ fl[i - 1] = fl[j - 1]
      BY <1>2, <1>6, <2>2
    <3>2. i - 1 = j - 1
      BY <3>1 DEF SlabOK
    <3>. QED  BY <3>2
  <2>. QED  BY <1>2, <1>3, <2>1, <2>2
<1>8. ASSUME NEW x
      PROVE  x \in Range(t) <=> x \in Slots(s) \ (H \ {k})
  <2>1. x \in Range(fl) <=> x \in Slots(s) \ H
    BY DEF SlabOK
  <2>2. ASSUME x \in Range(t), x # k PROVE x \in Range(fl)
    <3>1. PICK i \in 1 .. Len(t) : t[i] = x
      BY <1>3, <2>2, SetOfSeq
    <3>2. i \in 2 .. Len(t)
      BY <1>2, <1>3, <2>2, <3>1
    <3>3. i - 1 \in 1 .. Len(fl) /\ fl[i - 1] = x
      BY <1>6, <3>1, <3>2
    <3>. QED  BY <1>2, <3>3, SetOfSeq
  <2>3. ASSUME x \in Range(fl) PROVE x \in Range(t)
    <3>1. PICK i \in 1 .. Len(fl) : fl[i] = x
      BY <1>2, <2>3, SetOfSeq
    <3>2. i + 1 \in 1 .. Len(t)
      BY <1>2, <1>3
    <3>3. t[i + 1] = x
      BY <1>3, <3>1
    <3>. QED  BY <1>3, <3>2, <3>3, SetOfSeq
  <2>4. k \in Range(t)
    BY <1>2, <1>3, SetOfSeq
  <2>. QED  BY <1>1, <2>1, <2>2, <2>3, <2>4
<1>9. Range(t) = Slots(s) \ (H \ {k})
  BY <1>8
<1>10. Len(t) = Capacity(s) - (used - 1) /\ used - 1 \in Nat /\ H \ {k} \subseteq Slots(s)
  <2>1. used \in Nat /\ Len(fl) = Capacity(s) - used /\ H \subseteq Slots(s)
    BY DEF SlabOK
  <2>2. Capacity(s) \in Nat
    BY CapacityType
  <2>3. used - 1 \in Nat
    BY <1>4, <2>1
  <2>4. Len(t) = Capacity(s) - (used - 1)
    BY <1>2, <1>3, <2>1, <2>2
  <2>. QED  BY <2>1, <2>3, <2>4
<1>. QED  BY <1>3, <1>4, <1>7, <1>9, <1>10 DEF SlabOK, t

\* A new slab with its first slot taken.
LEMMA SlabNew ==
  ASSUME NEW s \in Sizes, Capacity(s) # 0
  PROVE  SlabOK(s, [i \in 1 .. Capacity(s) - 1 |-> i + 1], 1, {1})
<1>. DEFINE c == Capacity(s)  fl == [i \in 1 .. c - 1 |-> i + 1]
<1>1. c \in Nat /\ c > 0
  BY CapacityType
<1>. HIDE DEF c
<1>2. fl \in [1 .. c - 1 -> Nat] /\ c - 1 \in Nat
  BY <1>1
<1>3. fl \in Seq(Nat) /\ Len(fl) = c - 1
  BY <1>1, <1>2, SeqDef
<1>4. Range(fl) = 1 .. c \ {1}
  <2>1. ASSUME NEW x \in 1 .. c \ {1} PROVE x \in Range(fl)
    <3>1. x - 1 \in 1 .. c - 1 /\ fl[x - 1] = x
      BY <1>1, <2>1
    <3>. QED  BY <1>2, <3>1 DEF Range
  <2>2. ASSUME NEW x \in Range(fl) PROVE x \in 1 .. c \ {1}
    BY <1>1, <1>2, <2>2 DEF Range
  <2>. QED  BY <2>1, <2>2
<1>5. Cardinality({1}) = 1
  BY FS_Singleton
<1>. QED  BY <1>1, <1>2, <1>3, <1>4, <1>5 DEF SlabOK, Slots, c
-----------------------------------------------------------------------------
(***************************************************************************)
(* The inductive invariant, with the state it speaks of as parameters.     *)
(***************************************************************************)
HeapTypeOK ==
  /\ partial \in [Sizes -> Pages \union {None}]
  /\ next_slab \in Links
  /\ freelist \in [Pages -> Seq(Nat)]
  /\ in_use \in [Pages -> Int]
  /\ live \subseteq Triples
  /\ free_pages \subseteq Pages /\ large \subseteq Pages
  /\ frames \subseteq Pages /\ fed \subseteq Pages

SlabsOK(t, fls, used, l) ==
  \A q \in SlabsIn(l, t) : SlabOK(t, fls[q], used[q], HeldIn(l, t, q))

PartialOK(t, head, nxt, used, l) ==
  \E L, n : /\ Chain(L, n, head, nxt)
            /\ On(L, n) = {q \in SlabsIn(l, t) : used[q] < Capacity(t)}

OwnersOK(free, big, given, l, all) ==
  /\ \A q : q \in all /\ q \in Managed <=> \/ q \in free \/ q \in big \/ q \in given
                                          \/ \E t \in Sizes : q \in SlabsIn(l, t)
  /\ free \intersect big = {} /\ given \intersect (free \union big) = {}
  /\ \A t \in Sizes : SlabsIn(l, t) \intersect (free \union big \union given) = {}
  /\ \A t, u \in Sizes : t # u => SlabsIn(l, t) \intersect SlabsIn(l, u) = {}

HeapInv ==
  /\ HeapTypeOK
  /\ \A t \in Sizes : SlabsOK(t, freelist, in_use, live)
  /\ \A t \in Sizes : PartialOK(t, partial[t], next_slab, in_use, live)
  /\ OwnersOK(free_pages, large, frames, live, fed)

\* The empty sequence is the one of length 0.
LEMMA EmptyOrNot ==
  ASSUME NEW q \in Seq(Nat)
  PROVE  Len(q) \in Nat /\ (q = <<>> <=> Len(q) = 0)
BY EmptySeq

\* The head of a partial list has a free slot, so alloc takes it: the loop that
\* drops full slabs never turns.
LEMMA HeadHasRoom ==
  ASSUME HeapInv, NEW s \in Sizes
  PROVE  /\ WithRoom(partial[s]) = partial[s]
         /\ partial[s] # None => /\ partial[s] \in Pages /\ partial[s] \in SlabsIn(live, s)
                                 /\ in_use[partial[s]] < Capacity(s)
                                 /\ freelist[partial[s]] # <<>>
         /\ partial[s] = None => \A q \in SlabsIn(live, s) : freelist[q] = <<>>
<1>. DEFINE h == partial[s]  N == Cardinality(Pages)
<1>1. h \in Pages \union {None} /\ live \subseteq Triples /\ next_slab \in Links
  BY DEF HeapInv, HeapTypeOK
<1>2. PICK L, n : /\ Chain(L, n, h, next_slab)
                  /\ On(L, n) = {q \in SlabsIn(live, s) : in_use[q] < Capacity(s)}
  BY DEF HeapInv, PartialOK
<1>3. n \in Nat /\ L \in [1 .. n -> Pages] /\ h = (IF n = 0 THEN None ELSE L[1])
  BY <1>2 DEF Chain
<1>4. h # None => h \in On(L, n)
  BY <1>3 DEF On
<1>5. ASSUME NEW q \in SlabsIn(live, s)
      PROVE  freelist[q] = <<>> <=> ~(in_use[q] < Capacity(s))
  <2>1. SlabOK(s, freelist[q], in_use[q], HeldIn(live, s, q))
    BY DEF HeapInv, SlabsOK
  <2>2. freelist[q] \in Seq(Nat) /\ Len(freelist[q]) = Capacity(s) - in_use[q]
        /\ in_use[q] \in Nat
    BY <2>1 DEF SlabOK
  <2>3. Len(freelist[q]) \in Nat /\ (freelist[q] = <<>> <=> Len(freelist[q]) = 0)
    BY <2>2
  <2>. QED  BY <2>2, <2>3, CapacityType
<1>6. h # None => h \in Pages /\ h \in SlabsIn(live, s) /\ in_use[h] < Capacity(s)
                  /\ freelist[h] # <<>>
  BY <1>1, <1>2, <1>4, <1>5
<1>7. h = None => \A q \in SlabsIn(live, s) : freelist[q] = <<>>
  <2>1. h = None => n = 0
    BY <1>3, SlabAssumption
  <2>2. h = None => On(L, n) = {}
    BY <2>1 DEF On
  <2>. QED  BY <1>2, <1>5, <2>2
<1>8. N \in Nat /\ (h # None => N # 0)
  BY <1>1, SlabAssumption, FS_CardinalityType, FS_EmptySet
<1>9. WithRoom(h) = h
  <2>1. RoomWithin[N] = RoomBody(RoomWithin, N)
    BY <1>1, <1>8, RoomUnfold
  <2>. HIDE DEF h, N
  <2>2. RoomBody(RoomWithin, N)[h] = h
    BY <1>1, <1>6, <1>8 DEF RoomBody
  <2>. QED  BY <2>1, <2>2 DEF WithRoom, N
<1>. QED  BY <1>6, <1>7, <1>9

TouchesOnly(s, p) ==
  /\ \A t \in Sizes \ {s} : p \notin SlabsIn(live, t)
  /\ \A t \in Sizes \ {s} : partial'[t] = partial[t]
  /\ \A q \in Pages \ {p} : freelist'[q] = freelist[q] /\ in_use'[q] = in_use[q]
  /\ \A q \in Pages : q # p /\ q \notin SlabsIn(live, s) => next_slab'[q] = next_slab[q]
  /\ \A t, q : t # s \/ q # p => HeldIn(live', t, q) = HeldIn(live, t, q)
  /\ \A t : t # s => SlabsIn(live', t) = SlabsIn(live, t)
  /\ SlabsIn(live', s) \ {p} = SlabsIn(live, s) \ {p}

\* A step that works on page p of the cache of size s leaves the other slabs
\* as they were.
LEMMA OthersKept ==
  ASSUME HeapInv, NEW s \in Sizes, NEW p \in Pages, TouchesOnly(s, p)
  PROVE  /\ \A t \in Sizes \ {s} : SlabsOK(t, freelist', in_use', live')
         /\ \A t \in Sizes \ {s} : PartialOK(t, partial'[t], next_slab', in_use', live')
         /\ \A q \in SlabsIn(live', s) \ {p} :
              SlabOK(s, freelist'[q], in_use'[q], HeldIn(live', s, q))
<1>. USE DEF TouchesOnly
<1>1. \A t : SlabsIn(live, t) \subseteq Pages
  BY HeldMembers DEF HeapInv, HeapTypeOK
<1>2. ASSUME NEW t \in Sizes \ {s}, NEW q \in SlabsIn(live', t)
      PROVE  SlabOK(t, freelist'[q], in_use'[q], HeldIn(live', t, q))
  <2>1. q \in SlabsIn(live, t) /\ q \in Pages /\ q # p
    BY <1>1
  <2>2. SlabOK(t, freelist[q], in_use[q], HeldIn(live, t, q))
    BY <2>1 DEF HeapInv, SlabsOK
  <2>. QED  BY <2>1, <2>2
<1>3. ASSUME NEW t \in Sizes \ {s}
      PROVE  PartialOK(t, partial'[t], next_slab', in_use', live')
  <2>1. PICK L, n : /\ Chain(L, n, partial[t], next_slab)
                    /\ On(L, n) = {q \in SlabsIn(live, t) : in_use[q] < Capacity(t)}
    BY DEF HeapInv, PartialOK
  <2>2. \A q \in SlabsIn(live, t) : q \in Pages /\ q # p /\ q \notin SlabsIn(live, s)
    BY <1>1 DEF HeapInv, OwnersOK
  <2>3. \A q \in SlabsIn(live, t) : next_slab'[q] = next_slab[q] /\ in_use'[q] = in_use[q]
    BY <2>2
  <2>4. Chain(L, n, partial'[t], next_slab')
    <3>1. \A q \in On(L, n) : next_slab'[q] = next_slab[q]
      BY <2>1, <2>3
    <3>2. Chain(L, n, partial[t], next_slab')
      BY <2>1, <3>1, ChainKept
    <3>. QED  BY <3>2
  <2>5. {q \in SlabsIn(live', t) : in_use'[q] < Capacity(t)}
          = {q \in SlabsIn(live, t) : in_use[q] < Capacity(t)}
    <3>1. SlabsIn(live', t) = SlabsIn(live, t)
      OBVIOUS
    <3>. QED  BY ONLY <2>3, <3>1
  <2>. QED  BY <2>1, <2>4, <2>5 DEF PartialOK
<1>4. ASSUME NEW q \in SlabsIn(live', s) \ {p}
      PROVE  SlabOK(s, freelist'[q], in_use'[q], HeldIn(live', s, q))
  <2>1. q \in SlabsIn(live, s) /\ q \in Pages /\ q # p
    BY <1>1
  <2>2. SlabOK(s, freelist[q], in_use[q], HeldIn(live, s, q))
    BY <2>1 DEF HeapInv, SlabsOK
  <2>. QED  BY <2>1, <2>2
<1>. QED  BY <1>2, <1>3, <1>4 DEF SlabsOK

\* alloc from a partial slab.
LEMMA AllocPartialStep ==
  ASSUME HeapInv, NEW s \in Sizes, AllocPartial(s), UNCHANGED <<large, frames, fed>>
  PROVE  HeapInv'
<1>. DEFINE p == partial[s]  k == Head(freelist[p])  fl == freelist[p]
            full == Tail(fl) = <<>>
<1>1. /\ p # None /\ p \in Pages /\ p \in SlabsIn(live, s)
      /\ in_use[p] < Capacity(s) /\ fl # <<>> /\ WithRoom(partial[s]) = p
  BY HeadHasRoom DEF AllocPartial
<1>2. /\ freelist' = [freelist EXCEPT ![p] = Tail(fl)]
      /\ in_use' = [in_use EXCEPT ![p] = in_use[p] + 1]
      /\ live' = live \union {<<s, p, k>>} /\ free_pages' = free_pages
      /\ full => /\ partial' = [partial EXCEPT ![s] = next_slab[p]]
                 /\ next_slab' = Linked(next_slab, p, None)
      /\ ~full => partial' = [partial EXCEPT ![s] = p] /\ next_slab' = next_slab
  BY <1>1 DEF AllocPartial, Linked
<1>3. HeapTypeOK
  BY DEF HeapInv
<1>4. SlabOK(s, fl, in_use[p], HeldIn(live, s, p))
  BY <1>1 DEF HeapInv, SlabsOK
<1>5. k \in Nat /\ SlabOK(s, Tail(fl), in_use[p] + 1, HeldIn(live, s, p) \union {k})
  BY <1>1, <1>4, SlabTake
<1>6. /\ live' \subseteq Triples
      /\ HeldIn(live', s, p) = HeldIn(live, s, p) \union {k}
      /\ \A t, q : t # s \/ q # p => HeldIn(live', t, q) = HeldIn(live, t, q)
      /\ SlabsIn(live', s) = SlabsIn(live, s) \union {p}
      /\ \A t : t # s => SlabsIn(live', t) = SlabsIn(live, t)
  <2>. HIDE DEF p, k, fl, full
  <2>1. live \subseteq Triples
    BY <1>3 DEF HeapTypeOK
  <2>2. Gains(live, live', s, p, k)
    BY <1>1, <1>2, <1>5, <2>1 DEF Gains
  <2>. QED  BY <2>2, HeldMore
<1>7. SlabsIn(live', s) = SlabsIn(live, s)
  BY <1>1, <1>6
<1>8. /\ freelist'[p] = Tail(fl) /\ in_use'[p] = in_use[p] + 1
      /\ \A q \in Pages \ {p} : freelist'[q] = freelist[q] /\ in_use'[q] = in_use[q]
      /\ \A t \in Sizes \ {s} : partial'[t] = partial[t]
      /\ \A q \in Pages \ {p} : next_slab'[q] = next_slab[q]
  BY <1>1, <1>2, <1>3 DEF HeapTypeOK, Linked, Links
<1>9. \A t \in Sizes \ {s} : p \notin SlabsIn(live, t)
  BY <1>1 DEF HeapInv, OwnersOK
<1>. HIDE DEF p, k, fl, full
<1>10. /\ \A t \in Sizes \ {s} : SlabsOK(t, freelist', in_use', live')
       /\ \A t \in Sizes \ {s} : PartialOK(t, partial'[t], next_slab', in_use', live')
       /\ \A q \in SlabsIn(live', s) \ {p} :
            SlabOK(s, freelist'[q], in_use'[q], HeldIn(live', s, q))
  <2>1. TouchesOnly(s, p)
    BY <1>6, <1>7, <1>8, <1>9 DEF TouchesOnly
  <2>. QED  BY <1>1, <2>1, OthersKept
<1>11. SlabsOK(s, freelist', in_use', live')
  BY <1>5, <1>6, <1>8, <1>10 DEF SlabsOK
<1>12. HeapTypeOK'
  <2>1. Tail(fl) \in Seq(Nat) /\ in_use[p] + 1 \in Int
    <3>1. Tail(fl) \in Seq(Nat) /\ in_use[p] + 1 \in Nat
      BY <1>5 DEF SlabOK
    <3>. QED  BY <3>1
  <2>2. freelist' \in [Pages -> Seq(Nat)] /\ in_use' \in [Pages -> Int]
    BY <1>1, <1>2, <1>3, <2>1 DEF HeapTypeOK
  <2>3. next_slab[p] \in Pages \union {None} /\ next_slab \in Links
        /\ partial \in [Sizes -> Pages \union {None}]
    BY <1>1, <1>3 DEF HeapTypeOK, Links
  <2>4. partial' \in [Sizes -> Pages \union {None}] /\ next_slab' \in Links
    BY <1>1, <1>2, <2>3 DEF Links, Linked
  <2>. QED  BY <1>2, <1>3, <1>6, <2>2, <2>4 DEF HeapTypeOK
<1>13. PartialOK(s, partial'[s], next_slab', in_use', live')
  <2>1. PICK L, n : /\ Chain(L, n, p, next_slab)
                    /\ On(L, n) = {q \in SlabsIn(live, s) : in_use[q] < Capacity(s)}
    BY DEF HeapInv, PartialOK, p
  <2>2. next_slab \in Links /\ \A q \in SlabsIn(live, s) : q \in Pages
    BY <1>3, HeldMembers DEF HeapTypeOK
  <2>3. full <=> ~(in_use[p] + 1 < Capacity(s))
    <3>. DEFINE rest == Tail(fl)
    <3>1. rest \in Seq(Nat) /\ Len(rest) = Capacity(s) - (in_use[p] + 1)
      BY <1>5 DEF SlabOK
    <3>2. full <=> rest = <<>>
      BY DEF full
    <3>. HIDE DEF rest
    <3>3. Len(rest) \in Nat /\ (rest = <<>> <=> Len(rest) = 0)
      BY <3>1, EmptyOrNot
    <3>4. Capacity(s) \in Nat /\ in_use[p] \in Int
      BY <1>1, <1>3, CapacityType DEF HeapTypeOK
    <3>. QED  BY <3>1, <3>2, <3>3, <3>4
  <2>4. CASE full
    <3>1. PICK M, m : /\ Chain(M, m, next_slab[p], Linked(next_slab, p, None))
                      /\ On(M, m) = On(L, n) \ {p}
      <4>1. Chain(L, n, p, next_slab) /\ next_slab \in Links /\ p \in Pages
        BY <1>1, <2>1, <2>2
      <4>. QED  BY ONLY <4>1, ChainPop
    <3>2. partial'[s] = next_slab[p] /\ next_slab' = Linked(next_slab, p, None)
      BY <1>2, <1>3, <2>4 DEF HeapTypeOK
    <3>3. {q \in SlabsIn(live', s) : in_use'[q] < Capacity(s)} = On(L, n) \ {p}
      BY <1>1, <1>7, <1>8, <2>1, <2>2, <2>3, <2>4
    <3>. QED  BY <3>1, <3>2, <3>3 DEF PartialOK
  <2>5. CASE ~full
    <3>1. partial'[s] = p /\ next_slab' = next_slab
      BY <1>2, <1>3, <2>5 DEF HeapTypeOK
    <3>2. {q \in SlabsIn(live', s) : in_use'[q] < Capacity(s)} = On(L, n)
      BY <1>1, <1>7, <1>8, <2>1, <2>2, <2>3, <2>5
    <3>. QED  BY <2>1, <3>1, <3>2 DEF PartialOK
  <2>. QED  BY <2>4, <2>5
<1>14. OwnersOK(free_pages', large', frames', live', fed')
  <2>1. \A t : SlabsIn(live', t) = SlabsIn(live, t)
    BY <1>6, <1>7
  <2>2. OwnersOK(free_pages, large, frames, live, fed)
    BY DEF HeapInv
  <2>. QED  BY <1>2, <2>1, <2>2 DEF OwnersOK
<1>. QED  BY <1>10, <1>11, <1>12, <1>13, <1>14 DEF HeapInv

\* A request whose cache has no free slot and no page to grow by changes nothing.
LEMMA AllocFailStep ==
  ASSUME HeapInv, NEW s \in Sizes, AllocFail(s)
  PROVE  UNCHANGED slab_vars
<1>1. partial \in [Sizes -> Pages \union {None}] /\ partial[s] = None
  BY HeadHasRoom DEF AllocFail, HeapInv, HeapTypeOK
<1>2. partial' = partial
  BY <1>1 DEF AllocFail
<1>. QED  BY <1>2 DEF AllocFail, slab_vars

\* alloc from a new page.
LEMMA AllocNewStep ==
  ASSUME HeapInv, NEW s \in Sizes, AllocNew(s), UNCHANGED <<large, frames, fed>>
  PROVE  HeapInv'
<1>. DEFINE C == Capacity(s)  fl == [i \in 1 .. C - 1 |-> i + 1]
<1>1. C \in Nat /\ C > 0
  BY CapacityType, LayoutAssumption
<1>2. partial[s] = None
  BY HeadHasRoom DEF AllocNew
<1>3. PICK p \in free_pages :
        /\ free_pages' = free_pages \ {p}
        /\ freelist' = [freelist EXCEPT ![p] = fl]
        /\ in_use' = [in_use EXCEPT ![p] = 1]
        /\ next_slab' = Linked(next_slab, p, None)
        /\ partial' = [partial EXCEPT ![s] = IF C > 1 THEN p ELSE None]
        /\ live' = live \union {<<s, p, 1>>}
  BY <1>1 DEF AllocNew, Linked
<1>4. HeapTypeOK /\ p \in Pages
  BY DEF HeapInv, HeapTypeOK
<1>5. SlabOK(s, fl, 1, {1})
  BY <1>1, SlabNew
<1>. HIDE DEF C, fl
<1>6. \A t \in Sizes : p \notin SlabsIn(live, t)
  BY DEF HeapInv, OwnersOK
<1>7. /\ live' \subseteq Triples
      /\ HeldIn(live', s, p) = HeldIn(live, s, p) \union {1}
      /\ \A t, q : t # s \/ q # p => HeldIn(live', t, q) = HeldIn(live, t, q)
      /\ SlabsIn(live', s) = SlabsIn(live, s) \union {p}
      /\ \A t : t # s => SlabsIn(live', t) = SlabsIn(live, t)
  <2>1. Gains(live, live', s, p, 1)
    BY <1>3, <1>4 DEF Gains, HeapTypeOK
  <2>. QED  BY <2>1, HeldMore
<1>8. HeldIn(live', s, p) = {1}
  <2>1. HeldIn(live, s, p) = {}
    BY <1>4, <1>6, HeldMembers DEF HeapTypeOK
  <2>. QED  BY <1>7, <2>1
<1>9. /\ freelist'[p] = fl /\ in_use'[p] = 1
      /\ \A q \in Pages \ {p} : freelist'[q] = freelist[q] /\ in_use'[q] = in_use[q]
      /\ \A t \in Sizes \ {s} : partial'[t] = partial[t]
      /\ partial'[s] = IF C > 1 THEN p ELSE None
      /\ \A q \in Pages \ {p} : next_slab'[q] = next_slab[q]
  BY <1>3, <1>4 DEF HeapTypeOK, Linked, Links
<1>10. /\ \A t \in Sizes \ {s} : SlabsOK(t, freelist', in_use', live')
       /\ \A t \in Sizes \ {s} : PartialOK(t, partial'[t], next_slab', in_use', live')
       /\ \A q \in SlabsIn(live', s) \ {p} :
            SlabOK(s, freelist'[q], in_use'[q], HeldIn(live', s, q))
  <2>1. SlabsIn(live', s) \ {p} = SlabsIn(live, s) \ {p}
    BY <1>7
  <2>2. TouchesOnly(s, p)
    BY <1>6, <1>7, <1>9, <2>1 DEF TouchesOnly
  <2>. QED  BY <1>4, <2>2, OthersKept
<1>11. SlabsOK(s, freelist', in_use', live')
  BY <1>5, <1>8, <1>9, <1>10 DEF SlabsOK
<1>12. HeapTypeOK'
  <2>1. fl \in Seq(Nat)
    BY <1>5 DEF SlabOK
  <2>2. freelist' \in [Pages -> Seq(Nat)] /\ in_use' \in [Pages -> Int]
    BY <1>3, <1>4, <2>1 DEF HeapTypeOK
  <2>3. next_slab \in Links /\ partial \in [Sizes -> Pages \union {None}]
    BY <1>4 DEF HeapTypeOK
  <2>4. partial' \in [Sizes -> Pages \union {None}] /\ next_slab' \in Links
    BY <1>3, <1>4, <2>3 DEF Links, Linked
  <2>. QED  BY <1>3, <1>4, <1>7, <2>2, <2>4 DEF HeapTypeOK
<1>13. PartialOK(s, partial'[s], next_slab', in_use', live')
  <2>1. PICK L, n : /\ Chain(L, n, None, next_slab)
                    /\ On(L, n) = {q \in SlabsIn(live, s) : in_use[q] < C}
    BY <1>2 DEF HeapInv, PartialOK, C
  <2>2. next_slab \in Links /\ \A q \in SlabsIn(live, s) : q \in Pages /\ q # p
    BY <1>4, <1>6, HeldMembers DEF HeapTypeOK
  <2>3. p \notin On(L, n)
    BY <2>1, <2>2
  <2>4. {q \in SlabsIn(live', s) : in_use'[q] < C}
          = IF C > 1 THEN On(L, n) \union {p} ELSE On(L, n)
    BY <1>1, <1>7, <1>9, <2>1, <2>2
  <2>5. CASE C > 1
    <3>1. PICK M, m : /\ Chain(M, m, p, Linked(next_slab, p, None))
                      /\ On(M, m) = On(L, n) \union {p}
      <4>1. Chain(L, n, None, next_slab) /\ next_slab \in Links /\ p \in Pages
        BY <1>4, <2>1, <2>2
      <4>. QED  BY <2>3, <4>1, ChainPush
    <3>2. Chain(M, m, partial'[s], next_slab')
      BY <1>3, <1>9, <2>5, <3>1
    <3>3. On(M, m) = {q \in SlabsIn(live', s) : in_use'[q] < C}
      BY <2>4, <2>5, <3>1
    <3>. QED  BY <3>2, <3>3 DEF PartialOK, C
  <2>6. CASE ~(C > 1)
    <3>1. \A q \in On(L, n) : next_slab'[q] = next_slab[q]
      BY <1>9, <2>1, <2>2
    <3>2. Chain(L, n, None, next_slab')
      BY <2>1, <3>1, ChainKept
    <3>. QED  BY <1>9, <2>4, <2>6, <3>2 DEF PartialOK, C
  <2>. QED  BY <2>5, <2>6
<1>14. OwnersOK(free_pages', large', frames', live', fed')
  <2>1. OwnersOK(free_pages, large, frames, live, fed)
    BY DEF HeapInv
  <2>2. \A t, q : q \in SlabsIn(live', t) <=> q \in SlabsIn(live, t) \/ (t = s /\ q = p)
    BY <1>7
  <2>3. p \in free_pages /\ p \notin large /\ p \notin frames
        /\ \A q : q \in free_pages' <=> q \in free_pages /\ q # p
    BY <1>3, <2>1 DEF OwnersOK
  <2>4. \A q : q \in fed' /\ q \in Managed <=>
                \/ q \in free_pages' \/ q \in large' \/ q \in frames'
                \/ \E t \in Sizes : q \in SlabsIn(live', t)
    BY <2>1, <2>2, <2>3 DEF OwnersOK
  <2>5. /\ free_pages' \intersect large' = {}
        /\ frames' \intersect (free_pages' \union large') = {}
    BY <2>1, <2>3 DEF OwnersOK
  <2>6. ASSUME NEW t \in Sizes
        PROVE  SlabsIn(live', t) \intersect (free_pages' \union large' \union frames') = {}
    BY <2>1, <2>2, <2>3 DEF OwnersOK
  <2>7. ASSUME NEW t \in Sizes, NEW u \in Sizes, t # u
        PROVE  SlabsIn(live', t) \intersect SlabsIn(live', u) = {}
    BY <1>6, <2>1, <2>2, <2>7 DEF OwnersOK
  <2>. QED  BY <2>4, <2>5, <2>6, <2>7 DEF OwnersOK
<1>. QED  BY <1>10, <1>11, <1>12, <1>13, <1>14 DEF HeapInv

\* dealloc of a slot the caller holds: a slab that becomes empty is unlinked
\* and its page goes back, one that was full is linked again.
LEMMA DeallocStep ==
  ASSUME HeapInv, NEW s, NEW p, NEW k, SlabDealloc(s, p, k), UNCHANGED <<large, frames, fed>>
  PROVE  HeapInv'
<1>. DEFINE fl == freelist[p]  H == HeldIn(live, s, p)  head == partial[s]
<1>1. HeapTypeOK /\ Loses(live, live', s, p, k)
  <2>1. HeapTypeOK /\ <<s, p, k>> \in live /\ live' = live \ {<<s, p, k>>}
    BY DEF HeapInv, SlabDealloc
  <2>2. live \subseteq Triples /\ <<s, p, k>> \in Triples
    BY <2>1 DEF HeapTypeOK
  <2>3. s \in Sizes /\ p \in Pages /\ k \in Nat
    BY <2>2 DEF Triples
  <2>. QED  BY <2>1, <2>2, <2>3 DEF Loses
<1>2. s \in Sizes /\ p \in Pages /\ k \in Nat
  BY <1>1 DEF Loses
<1>3. /\ live' \subseteq Triples
      /\ HeldIn(live', s, p) = H \ {k} /\ k \in H
      /\ \A t, q : t # s \/ q # p => HeldIn(live', t, q) = HeldIn(live, t, q)
      /\ SlabsIn(live', s) = IF H = {k} THEN SlabsIn(live, s) \ {p} ELSE SlabsIn(live, s)
      /\ p \in SlabsIn(live, s)
      /\ \A t : t # s => SlabsIn(live', t) = SlabsIn(live, t)
  BY <1>1, HeldLess
<1>4. SlabOK(s, fl, in_use[p], H)
  BY <1>2, <1>3 DEF HeapInv, SlabsOK
<1>5. in_use[p] > 0 /\ SlabOK(s, <<k>> \o fl, in_use[p] - 1, H \ {k})
  BY <1>2, <1>3, <1>4, SlabPut
<1>6. in_use[p] = 1 <=> H = {k}
  <2>1. IsFiniteSet(H) /\ in_use[p] = Cardinality(H)
    <3>1. H \subseteq Slots(s) /\ in_use[p] = Cardinality(H)
      BY <1>4 DEF SlabOK
    <3>2. IsFiniteSet(Slots(s))
      BY <1>2, CapacityType, FS_Interval DEF Slots
    <3>. QED  BY <3>1, <3>2, FS_Subset
  <2>2. Cardinality(H) = 1 => H = {k}
    BY <1>3, <2>1, FS_Singleton
  <2>3. H = {k} => Cardinality(H) = 1
    BY FS_Singleton
  <2>. QED  BY <2>1, <2>2, <2>3
<1>7. /\ freelist' = [freelist EXCEPT ![p] = <<k>> \o fl]
      /\ in_use' = [in_use EXCEPT ![p] = in_use[p] - 1]
  BY DEF SlabDealloc
<1>8. /\ freelist'[p] = <<k>> \o fl /\ in_use'[p] = in_use[p] - 1
      /\ \A q \in Pages \ {p} : freelist'[q] = freelist[q] /\ in_use'[q] = in_use[q]
      /\ freelist' \in [Pages -> Seq(Nat)] /\ in_use' \in [Pages -> Int]
  <2>1. <<k>> \o fl \in Seq(Nat) /\ in_use[p] - 1 \in Int
    <3>1. <<k>> \o fl \in Seq(Nat) /\ in_use[p] - 1 \in Nat
      BY <1>5 DEF SlabOK
    <3>. QED  BY <3>1
  <2>. HIDE DEF fl
  <2>. QED  BY <1>1, <1>2, <1>7, <2>1 DEF HeapTypeOK
<1>9. \A t \in Sizes \ {s} : p \notin SlabsIn(live, t)
  BY <1>2, <1>3 DEF HeapInv, OwnersOK
<1>10. PICK L, n : /\ Chain(L, n, head, next_slab)
                   /\ On(L, n) = {q \in SlabsIn(live, s) : in_use[q] < Capacity(s)}
  BY <1>2 DEF HeapInv, PartialOK
<1>11. /\ next_slab \in Links /\ partial \in [Sizes -> Pages \union {None}]
       /\ next_slab[p] \in Pages \union {None} /\ head \in Pages \union {None}
       /\ \A q \in SlabsIn(live, s) : q \in Pages
  BY <1>1, <1>2, HeldMembers DEF HeapTypeOK, Links
<1>12. Capacity(s) \in Nat /\ in_use[p] \in Nat /\ in_use[p] <= Capacity(s)
       /\ (fl = <<>> <=> in_use[p] = Capacity(s))
  <2>1. fl \in Seq(Nat) /\ in_use[p] \in Nat /\ Len(fl) = Capacity(s) - in_use[p]
    BY <1>4 DEF SlabOK
  <2>2. Capacity(s) \in Nat
    BY <1>2, CapacityType
  <2>. HIDE DEF fl
  <2>3. Len(fl) \in Nat /\ (fl = <<>> <=> Len(fl) = 0)
    BY <2>1, EmptyOrNot
  <2>. QED  BY <2>1, <2>2, <2>3
<1>. DEFINE room == {q \in SlabsIn(live', s) : in_use'[q] < Capacity(s)}
<1>13. ASSUME NEW h \in Pages \union {None}, partial' = [partial EXCEPT ![s] = h],
              next_slab' \in Links, free_pages' \subseteq Pages,
              \A q \in Pages : q # p /\ q \notin SlabsIn(live, s) => next_slab'[q] = next_slab[q],
              \E M, m : Chain(M, m, h, next_slab') /\ On(M, m) = room,
              OwnersOK(free_pages', large', frames', live', fed')
       PROVE  HeapInv'
  <2>1. /\ \A t \in Sizes \ {s} : partial'[t] = partial[t]
        /\ partial'[s] = h /\ partial' \in [Sizes -> Pages \union {None}]
    BY <1>2, <1>11, <1>13
  <2>2. SlabsIn(live', s) \ {p} = SlabsIn(live, s) \ {p}
    BY <1>3
  <2>3. /\ \A t \in Sizes \ {s} : SlabsOK(t, freelist', in_use', live')
        /\ \A t \in Sizes \ {s} : PartialOK(t, partial'[t], next_slab', in_use', live')
        /\ \A q \in SlabsIn(live', s) \ {p} :
             SlabOK(s, freelist'[q], in_use'[q], HeldIn(live', s, q))
    <3>1. TouchesOnly(s, p)
      BY <1>3, <1>8, <1>9, <1>13, <2>1, <2>2 DEF TouchesOnly
    <3>. QED  BY <1>2, <3>1, OthersKept
  <2>4. SlabsOK(s, freelist', in_use', live')
    BY <1>3, <1>5, <1>8, <2>3 DEF SlabsOK
  <2>5. PartialOK(s, partial'[s], next_slab', in_use', live')
    BY <1>13, <2>1 DEF PartialOK
  <2>6. HeapTypeOK'
    BY <1>1, <1>3, <1>8, <1>13, <2>1 DEF HeapTypeOK
  <2>. QED  BY <1>13, <2>3, <2>4, <2>5, <2>6 DEF HeapInv
<1>14. OwnersOK(free_pages, large, frames, live, fed)
  BY DEF HeapInv
<1>15. CASE in_use[p] = 1
  <2>. DEFINE h == HeadWithout(next_slab, head, p)
  <2>1. /\ partial' = [partial EXCEPT ![s] = h]
        /\ next_slab' = links_without(p, head)
        /\ free_pages' = free_pages \union {p}
    BY <1>15 DEF SlabDealloc, head_without, HeadWithout
  <2>2. Range(ListFrom(head)) = On(L, n)
    BY <1>10, <1>11, ChainList
  <2>. HIDE DEF head
  <2>3. next_slab' = Unlinked(next_slab, head, On(L, n), p)
    BY <2>1, <2>2 DEF links_without, Unlinked
  <2>4. PICK M, m : /\ Chain(M, m, h, next_slab')
                    /\ On(M, m) = On(L, n) \ {p}
    <3>1. Chain(L, n, head, next_slab) /\ next_slab \in Links /\ p \in Pages
      BY <1>2, <1>10, <1>11
    <3>2. \E M, m : /\ Chain(M, m, HeadWithout(next_slab, head, p),
                             Unlinked(next_slab, head, On(L, n), p))
                    /\ On(M, m) = On(L, n) \ {p}
      BY <3>1, ChainRemove
    <3>. QED  BY <2>3, <3>2
  <2>5. H = {k} /\ SlabsIn(live', s) = SlabsIn(live, s) \ {p}
    BY <1>3, <1>6, <1>15
  <2>6. room = On(L, n) \ {p}
    BY <1>8, <1>10, <1>11, <2>5
  <2>7. h \in Pages \union {None} /\ next_slab' \in Links
    BY <1>11, <2>3 DEF Unlinked, Links, HeadWithout
  <2>8. \A q \in Pages : q # p /\ q \notin SlabsIn(live, s) => next_slab'[q] = next_slab[q]
    BY <1>10, <2>3 DEF Unlinked
  <2>9. OwnersOK(free_pages', large', frames', live', fed')
    <3>1. \A t, q : q \in SlabsIn(live', t) <=> q \in SlabsIn(live, t) /\ ~(t = s /\ q = p)
      BY <1>3, <2>5
    <3>2. p \in SlabsIn(live, s) /\ s \in Sizes /\ \A q : q \in free_pages' <=> q \in free_pages \/ q = p
      BY <1>2, <1>3, <2>1
    <3>3. p \notin free_pages /\ p \notin large /\ p \notin frames
      BY <1>14, <3>2 DEF OwnersOK
    <3>4. ASSUME NEW q
          PROVE  q \in fed' /\ q \in Managed <=>
                   \/ q \in free_pages' \/ q \in large' \/ q \in frames'
                   \/ \E t \in Sizes : q \in SlabsIn(live', t)
      <4>1. CASE q = p
        BY <1>14, <3>2, <4>1 DEF OwnersOK
      <4>2. CASE q # p
        BY <1>14, <3>1, <3>2, <4>2 DEF OwnersOK
      <4>. QED  BY <4>1, <4>2
    <3>5. /\ free_pages' \intersect large' = {}
          /\ frames' \intersect (free_pages' \union large') = {}
      BY <1>14, <3>2, <3>3 DEF OwnersOK
    <3>6. ASSUME NEW t \in Sizes
          PROVE  SlabsIn(live', t) \intersect (free_pages' \union large' \union frames') = {}
      BY <1>9, <1>14, <3>1, <3>2, <3>3 DEF OwnersOK
    <3>7. ASSUME NEW t \in Sizes, NEW u \in Sizes, t # u
          PROVE  SlabsIn(live', t) \intersect SlabsIn(live', u) = {}
      BY <1>14, <3>1, <3>7 DEF OwnersOK
    <3>. QED  BY <3>4, <3>5, <3>6, <3>7 DEF OwnersOK
  <2>10. free_pages' \subseteq Pages
    BY <1>1, <1>2, <2>1 DEF HeapTypeOK
  <2>. HIDE DEF h, room
  <2>. QED  BY <1>13, <2>1, <2>4, <2>6, <2>7, <2>8, <2>9, <2>10
<1>16. ASSUME in_use[p] # 1
       PROVE  /\ SlabsIn(live', s) = SlabsIn(live, s)
              /\ free_pages' = free_pages /\ free_pages' \subseteq Pages
              /\ OwnersOK(free_pages', large', frames', live', fed')
  <2>1. free_pages' = free_pages /\ SlabsIn(live', s) = SlabsIn(live, s)
    BY <1>3, <1>6, <1>16 DEF SlabDealloc
  <2>2. \A t : SlabsIn(live', t) = SlabsIn(live, t)
    BY <1>3, <2>1
  <2>3. OwnersOK(free_pages', large', frames', live', fed')
    BY <1>14, <2>1, <2>2 DEF OwnersOK
  <2>. QED  BY <1>1, <2>1, <2>3 DEF HeapTypeOK
<1>17. CASE in_use[p] # 1 /\ fl = <<>>
  <2>1. /\ partial' = [partial EXCEPT ![s] = p]
        /\ next_slab' = Linked(next_slab, p, head)
    BY <1>17 DEF SlabDealloc, Linked
  <2>2. p \notin On(L, n)
    <3>1. in_use[p] = Capacity(s) /\ Capacity(s) \in Nat
      BY <1>12, <1>17
    <3>2. ~(in_use[p] < Capacity(s))
      BY <3>1
    <3>. QED  BY <1>10, <3>2
  <2>. HIDE DEF head
  <2>3. PICK M, m : Chain(M, m, p, next_slab') /\ On(M, m) = On(L, n) \union {p}
    <3>1. Chain(L, n, head, next_slab) /\ next_slab \in Links /\ p \in Pages
      BY <1>2, <1>10, <1>11
    <3>2. \E M, m : /\ Chain(M, m, p, Linked(next_slab, p, head))
                    /\ On(M, m) = On(L, n) \union {p}
      BY <2>2, <3>1, ChainPush
    <3>. QED  BY <2>1, <3>2
  <2>4. in_use[p] - 1 < Capacity(s)
    <3>1. Capacity(s) \in Nat /\ in_use[p] \in Nat /\ in_use[p] <= Capacity(s)
      BY <1>12
    <3>. QED  BY <3>1
  <2>5. room = On(L, n) \union {p}
    BY <1>3, <1>8, <1>10, <1>11, <1>16, <1>17, <2>4
  <2>6. next_slab' \in Links
    BY <1>2, <1>11, <2>1 DEF Linked, Links
  <2>7. \A q \in Pages : q # p => next_slab'[q] = next_slab[q]
    BY <1>11, <2>1 DEF Linked, Links
  <2>. HIDE DEF room
  <2>. QED  BY <1>2, <1>13, <1>16, <1>17, <2>1, <2>3, <2>5, <2>6, <2>7
<1>18. CASE in_use[p] # 1 /\ fl # <<>>
  <2>1. partial' = partial /\ next_slab' = next_slab
    BY <1>18 DEF SlabDealloc
  <2>2. partial' = [partial EXCEPT ![s] = head]
    BY <1>11, <2>1
  <2>3. in_use[p] < Capacity(s) /\ in_use[p] - 1 < Capacity(s)
    BY <1>12, <1>18
  <2>4. room = On(L, n)
    BY <1>3, <1>8, <1>10, <1>11, <1>16, <1>18, <2>3
  <2>. HIDE DEF room, head
  <2>. QED  BY <1>10, <1>11, <1>13, <1>16, <1>18, <2>1, <2>2, <2>4
<1>. QED  BY <1>15, <1>17, <1>18
-----------------------------------------------------------------------------
\* A request no larger than the largest objects has a cache.
LEMMA CacheExists ==
  ASSUME NEW size \in Nat, size <= Largest
  PROVE  CacheFor(size) \in Sizes
<1>. DEFINE S == {s \in Sizes : size <= s}
<1>1. \E m \in Sizes : \A s \in Sizes : m >= s
  <2>1. PICK m \in Sizes : \A s \in Sizes : s <= m
    BY LayoutAssumption
  <2>. QED  BY <2>1, SlabAssumption
<1>2. Largest \in Sizes
  BY <1>1 DEF Largest, Max
<1>3. S \subseteq Nat /\ S # {}
  BY <1>2, SlabAssumption
<1>. HIDE DEF S
<1>4. \E n \in S : \A m \in S : n <= m
  BY <1>3, LeastNumber
<1>5. Min(S) \in S
  BY <1>4 DEF Min
<1>. QED  BY <1>5 DEF CacheFor, S

\* Pages change hands between the buddy allocator, the large allocations and the
\* page tables only.
LEMMA OwnerStep ==
  ASSUME HeapInv, UNCHANGED <<partial, next_slab, freelist, in_use, live>>,
         free_pages' \subseteq Pages, large' \subseteq Pages,
         frames' \subseteq Pages, fed' \subseteq Pages,
         OwnersOK(free_pages', large', frames', live, fed')
  PROVE  HeapInv'
<1>1. HeapTypeOK'
  BY DEF HeapInv, HeapTypeOK
<1>2. \A t \in Sizes : SlabsOK(t, freelist', in_use', live')
  BY DEF HeapInv
<1>3. \A t \in Sizes : PartialOK(t, partial'[t], next_slab', in_use', live')
  BY DEF HeapInv
<1>. QED  BY <1>1, <1>2, <1>3 DEF HeapInv

\* The initial state.
LEMMA HeapInit ==
  ASSUME Init
  PROVE  HeapInv
<1>1. HeapTypeOK
  BY DEF Init, SlabInit, HeapTypeOK, Links
<1>2. \A t : SlabsIn(live, t) = {}
  BY DEF Init, SlabInit, SlabsIn
<1>3. ASSUME NEW t \in Sizes
      PROVE  PartialOK(t, partial[t], next_slab, in_use, live)
  <2>1. partial[t] = None
    BY DEF Init, SlabInit
  <2>2. Chain([i \in 1 .. 0 |-> None], 0, None, next_slab)
    BY DEF Chain
  <2>3. On([i \in 1 .. 0 |-> None], 0) = {}
    BY DEF On
  <2>. QED  BY <1>2, <2>1, <2>2, <2>3 DEF PartialOK
<1>4. \A t \in Sizes : SlabsOK(t, freelist, in_use, live)
  BY <1>2 DEF SlabsOK
<1>5. OwnersOK(free_pages, large, frames, live, fed)
  BY <1>2 DEF OwnersOK, Init, SlabInit
<1>. QED  BY <1>1, <1>3, <1>4, <1>5 DEF HeapInv

\* Every step of the heap keeps the invariant.
LEMMA HeapStep ==
  ASSUME HeapInv, [Next]_vars
  PROVE  HeapInv'
<1>1. HeapTypeOK /\ OwnersOK(free_pages, large, frames, live, fed)
  BY DEF HeapInv
<1>2. CASE init_heap
  BY <1>1, <1>2, OwnerStep DEF init_heap, slab_vars, HeapTypeOK
<1>3. ASSUME NEW p \in Pages, add_frame(p)
      PROVE  HeapInv'
  <2>1. OwnersOK(free_pages', large', frames', live, fed')
    <3>1. CASE p \in Managed
      BY <1>1, <1>3, <3>1 DEF add_frame, OwnersOK
    <3>2. CASE p \notin Managed
      BY <1>1, <1>3, <3>2 DEF add_frame, OwnersOK
    <3>. QED  BY <3>1, <3>2
  <2>. QED  BY <1>1, <1>3, <2>1, OwnerStep DEF add_frame, HeapTypeOK
<1>4. ASSUME NEW size \in LayoutSizes, AllocLarge(size)
      PROVE  HeapInv'
  <2>1. PICK p \in free_pages : free_pages' = free_pages \ {p} /\ large' = large \union {p}
    BY <1>4 DEF AllocLarge
  <2>2. p \in Pages /\ frames' = frames /\ fed' = fed
    BY <1>1, <1>4 DEF AllocLarge, HeapTypeOK
  <2>3. OwnersOK(free_pages', large', frames', live, fed')
    BY <1>1, <2>1, <2>2 DEF OwnersOK
  <2>. QED  BY <1>1, <1>4, <2>1, <2>2, <2>3, OwnerStep DEF AllocLarge, HeapTypeOK
<1>5. ASSUME NEW size \in LayoutSizes, AllocSmall(size)
      PROVE  HeapInv'
  <2>1. size \in Nat /\ size <= Largest /\ UNCHANGED <<large, frames, fed>>
    BY <1>5, LayoutAssumption DEF AllocSmall
  <2>2. CacheFor(size) \in Sizes
    BY <2>1, CacheExists
  <2>3. CASE AllocPartial(CacheFor(size))
    BY <2>1, <2>2, <2>3, AllocPartialStep
  <2>4. CASE AllocNew(CacheFor(size))
    BY <2>1, <2>2, <2>4, AllocNewStep
  <2>5. CASE AllocFail(CacheFor(size))
    <3>1. UNCHANGED slab_vars
      BY <2>2, <2>5, AllocFailStep
    <3>. QED  BY <1>1, <2>1, <3>1, OwnerStep DEF slab_vars, HeapTypeOK
  <2>. QED  BY <1>5, <2>3, <2>4, <2>5 DEF AllocSmall
<1>6. ASSUME NEW size \in LayoutSizes, AllocNull(size)
      PROVE  HeapInv'
  BY <1>1, <1>6, OwnerStep DEF AllocNull, slab_vars, HeapTypeOK
<1>7. ASSUME NEW p \in large, DeallocLarge(p)
      PROVE  HeapInv'
  <2>1. /\ free_pages' = free_pages \union {p} /\ large' = large \ {p}
        /\ p \in Pages /\ frames' = frames /\ fed' = fed
    BY <1>1, <1>7 DEF DeallocLarge, HeapTypeOK
  <2>2. OwnersOK(free_pages', large', frames', live, fed')
    BY <1>1, <2>1 DEF OwnersOK
  <2>. QED  BY <1>1, <1>7, <2>1, <2>2, OwnerStep DEF DeallocLarge, HeapTypeOK
<1>8. ASSUME NEW b \in live, DeallocSmall(b[1], b[2], b[3])
      PROVE  HeapInv'
  BY <1>8, DeallocStep DEF DeallocSmall
<1>9. CASE allocate_frame
  <2>1. PICK p \in free_pages : free_pages' = free_pages \ {p} /\ frames' = frames \union {p}
    BY <1>9 DEF allocate_frame
  <2>2. p \in Pages /\ large' = large /\ fed' = fed
    BY <1>1, <1>9 DEF allocate_frame, HeapTypeOK
  <2>3. OwnersOK(free_pages', large', frames', live, fed')
    BY <1>1, <2>1, <2>2 DEF OwnersOK
  <2>. QED  BY <1>1, <1>9, <2>1, <2>2, <2>3, OwnerStep DEF allocate_frame, HeapTypeOK
<1>10. CASE UNCHANGED vars
  BY <1>1, <1>10, OwnerStep DEF vars, slab_vars, HeapTypeOK
<1>. QED  BY <1>2, <1>3, <1>4, <1>5, <1>6, <1>7, <1>8, <1>9, <1>10 DEF Next

\* The heap keeps its invariant.
THEOREM HeapInvariant == Spec => []HeapInv
<1>1. Init => HeapInv
  BY HeapInit
<1>2. HeapInv /\ [Next]_vars => HeapInv'
  BY HeapStep
<1>. QED  BY <1>1, <1>2, PTL DEF Spec

\* No object is handed out twice: in every slab each slot is held by one caller
\* or is on the freelist, once, and in_use counts the held ones (SCache::alloc
\* and SCache::dealloc, for any object sizes and any number of pages).
THEOREM SlotsAreExact == Spec => []SlotsExact
<1>1. ASSUME HeapInv
      PROVE  SlotsExact
  <2>1. ASSUME NEW s \in Sizes, NEW p \in SlabsOf(s)
        PROVE  /\ in_use[p] = Cardinality(HeldSlots(s, p))
               /\ Range(freelist[p]) = Slots(s) \ HeldSlots(s, p)
               /\ Len(freelist[p]) = Capacity(s) - in_use[p]
    <3>1. p \in SlabsIn(live, s) /\ HeldSlots(s, p) = HeldIn(live, s, p)
      BY DEF SlabsOf, SlabsIn, HeldSlots, HeldIn
    <3>2. SlabOK(s, freelist[p], in_use[p], HeldIn(live, s, p))
      BY <1>1, <3>1 DEF HeapInv, SlabsOK
    <3>. QED  BY <3>1, <3>2 DEF SlabOK
  <2>. QED  BY <2>1 DEF SlotsExact
<1>. QED  BY <1>1, HeapInvariant, PTL

\* The partial list of a cache holds exactly its slabs with a free slot, each
\* once, and ends: alloc's loop over full slabs never turns, dealloc never links
\* a slab twice and remove_slab_from_partial always finds its slab.
THEOREM PartialIsExact == Spec => []PartialExact
<1>1. ASSUME HeapInv
      PROVE  PartialExact
  <2>1. ASSUME NEW s \in Sizes
        PROVE  LET list == ListFrom(partial[s])
               IN  /\ Range(list) = {p \in SlabsOf(s) : in_use[p] < Capacity(s)}
                   /\ \A i, j \in DOMAIN list : list[i] = list[j] => i = j
                   /\ list # <<>> => next_slab[list[Len(list)]] = None
    <3>1. PICK L, n : /\ Chain(L, n, partial[s], next_slab)
                      /\ On(L, n) = {q \in SlabsIn(live, s) : in_use[q] < Capacity(s)}
      BY <1>1 DEF HeapInv, PartialOK
    <3>2. /\ ListFrom(partial[s]) = L
          /\ L \in Seq(Pages) /\ Len(L) = n /\ Range(L) = On(L, n)
      BY <1>1, <3>1, ChainList DEF HeapInv, HeapTypeOK
    <3>3. SlabsOf(s) = SlabsIn(live, s)
      BY DEF SlabsOf, SlabsIn
    <3>4. \A i, j \in 1 .. n : L[i] = L[j] => i = j
      BY <3>1 DEF Chain
    <3>5. DOMAIN L = 1 .. n
      BY <3>2
    <3>6. L # <<>> => next_slab[L[Len(L)]] = None
      <4>1. L # <<>> => n \in Nat /\ n > 0
        BY <3>2, EmptySeq
      <4>2. ASSUME L # <<>> PROVE next_slab[L[n]] = None
        <5>1. n \in 1 .. n
          BY <4>1, <4>2
        <5>. QED  BY <3>1, <5>1 DEF Chain
      <4>. QED  BY <3>2, <4>2
    <3>. QED  BY <3>1, <3>2, <3>3, <3>4, <3>5, <3>6
  <2>. QED  BY <2>1 DEF PartialExact
<1>. QED  BY <1>1, HeapInvariant, PTL

\* Every page given to add_frame that lies in the buddy allocator's range has
\* exactly one owner, whatever is allocated and freed.
THEOREM PagesAreAccounted == Spec => []PagesAccounted
<1>1. ASSUME HeapInv
      PROVE  PagesAccounted
  <2>1. OwnersOK(free_pages, large, frames, live, fed)
    BY <1>1 DEF HeapInv
  <2>2. \A t : SlabsOf(t) = SlabsIn(live, t)
    BY DEF SlabsOf, SlabsIn
  <2>3. \A q : q \in UNION {SlabsOf(t) : t \in Sizes} <=> \E t \in Sizes : q \in SlabsIn(live, t)
    BY <2>2
  <2>4. Owned = fed \intersect Managed
    BY <2>1, <2>3 DEF OwnersOK, Owned
  <2>. QED  BY <2>1, <2>2, <2>4 DEF OwnersOK, PagesAccounted
<1>. QED  BY <1>1, HeapInvariant, PTL

\* Objects do not overlap the header, each other or the next page, and are
\* aligned to the size of their cache.
THEOREM ObjectsArePlaced == Spec => []ObjectsPlaced
<1>1. ASSUME HeapInv
      PROVE  ObjectsPlaced
  <2>1. ASSUME NEW b \in live
        PROVE  LET offset == SlotOffset(b[1], b[3])
               IN  /\ offset >= HEADER_SIZE
                   /\ offset + b[1] <= PAGE_SIZE
                   /\ offset % b[1] = 0
    <3>. DEFINE s == b[1]  p == b[2]  k == b[3]  start == ObjectStart(s)  C == Capacity(s)
    <3>1. b \in Triples /\ live \subseteq Triples
      BY <1>1 DEF HeapInv, HeapTypeOK
    <3>2. s \in Sizes /\ p \in Pages /\ k \in Nat /\ <<s, p, k>> = b
      BY <3>1 DEF Triples
    <3>. HIDE DEF s, p, k
    <3>3. k \in HeldIn(live, s, p) /\ p \in SlabsIn(live, s)
      BY <3>1, <3>2, HeldMembers
    <3>4. SlabOK(s, freelist[p], in_use[p], HeldIn(live, s, p))
      BY <1>1, <3>2, <3>3 DEF HeapInv, SlabsOK
    <3>5. k \in 1 .. C
      BY <3>3, <3>4 DEF SlabOK, Slots
    <3>6. /\ s \in Nat /\ s > 0 /\ start \in Nat /\ C \in Nat
          /\ start >= HEADER_SIZE /\ (\E d \in Nat : start = d * s)
          /\ C > 0 => start + C * s <= PAGE_SIZE
      BY <3>2, CapacityType
    <3>. HIDE DEF start, C
    <3>7. PICK d \in Nat : start = d * s
      BY <3>6
    <3>8. HEADER_SIZE \in Nat /\ PAGE_SIZE \in Nat
      BY SlabAssumption
    <3>. DEFINE e == k - 1
    <3>9. e \in Nat /\ e + 1 <= C /\ start + C * s <= PAGE_SIZE
      BY <3>5, <3>6
    <3>10. SlotOffset(s, k) = start + e * s
      BY DEF SlotOffset, start
    <3>. HIDE DEF e
    <3>11. \A a, c \in Nat : a + 1 <= c => a * s \in Nat /\ c * s \in Nat /\ a * s + s <= c * s
      BY <3>6, Z3
    <3>12. e * s \in Nat /\ C * s \in Nat /\ e * s + s <= C * s
      BY <3>6, <3>9, <3>11
    <3>13. start + e * s >= HEADER_SIZE /\ start + e * s + s <= PAGE_SIZE
      BY <3>6, <3>8, <3>9, <3>12
    <3>14. (start + e * s) % s = 0
      <4>1. \A a \in Nat : (a * s) % s = 0
        BY <3>6
      <4>2. start + e * s = (d + e) * s
        BY <3>6, <3>7, <3>9
      <4>. QED  BY <3>9, <4>1, <4>2
    <3>. QED  BY <3>10, <3>13, <3>14 DEF s, k
  <2>. QED  BY <2>1 DEF ObjectsPlaced
<1>. QED  BY <1>1, HeapInvariant, PTL

\* A null pointer for a request that fits a page means that there is no page
\* and, for a small request, no free slot in its cache (GlobalAlloc::alloc).
THEOREM NullIsExhaustion == Spec => NullMeansExhausted
<1>. DEFINE A == ~ret'.ok /\ initialized /\ ret'.size <= PAGE_SIZE =>
                   /\ free_pages = {}
                   /\ ret'.size <= Largest =>
                        \A p \in SlabsOf(CacheFor(ret'.size)) : freelist[p] = <<>>
<1>1. ASSUME HeapInv, Next, ~ret'.ok, initialized, ret'.size <= PAGE_SIZE
      PROVE  /\ free_pages = {}
             /\ ret'.size <= Largest =>
                  \A p \in SlabsOf(CacheFor(ret'.size)) : freelist[p] = <<>>
  <2>1. ~NoAnswer
    BY <1>1 DEF NoAnswer, Answer
  <2>2. PICK size \in LayoutSizes : AllocLarge(size) \/ AllocSmall(size) \/ AllocNull(size)
    BY <1>1, <2>1 DEF Next, init_heap, add_frame, DeallocLarge, DeallocSmall, allocate_frame
  <2>3. size \in Nat /\ PAGE_SIZE \in Nat
    BY LayoutAssumption, SlabAssumption
  <2>4. \A n, c : Answer(n, c) => ~c /\ ret'.size = n
    <3>1. ASSUME NEW n, NEW c, Answer(n, c)
          PROVE  ~c /\ ret'.size = n
      <4>1. ret' = [size |-> n, ok |-> c]
        BY <3>1 DEF Answer
      <4>2. ret'.ok = c
        BY <4>1
      <4>. QED  BY <1>1, <4>1, <4>2
    <3>. QED  BY <3>1
  <2>5. ~AllocLarge(size)
    BY <2>4 DEF AllocLarge
  <2>6. CASE AllocSmall(size)
    <3>. DEFINE s == CacheFor(size)
    <3>1. s \in Sizes /\ size <= Largest
      BY <2>3, <2>6, CacheExists DEF AllocSmall
    <3>2. Capacity(s) > 0
      BY <3>1, LayoutAssumption
    <3>3. AllocFail(s) /\ ret'.size = size
      BY <2>4, <2>6, <3>2 DEF AllocSmall
    <3>. HIDE DEF s
    <3>4. free_pages = {} /\ partial[s] = None
      BY <1>1, <3>1, <3>3, HeadHasRoom DEF AllocFail
    <3>5. \A q \in SlabsIn(live, s) : freelist[q] = <<>>
      BY <1>1, <3>1, <3>4, HeadHasRoom
    <3>6. SlabsOf(s) = SlabsIn(live, s)
      BY DEF SlabsOf, SlabsIn
    <3>. QED  BY <3>3, <3>4, <3>5, <3>6 DEF s
  <2>7. CASE AllocNull(size)
    <3>1. ret'.size = size
      BY <2>7 DEF AllocNull, Answer
    <3>2. size > Largest /\ free_pages = {}
      BY <1>1, <2>3, <2>7, <3>1 DEF AllocNull
    <3>3. Largest \in Nat
      <4>1. \E m \in Sizes : \A s \in Sizes : m >= s
        BY LayoutAssumption, SlabAssumption
      <4>2. Largest \in Sizes
        BY <4>1 DEF Largest, Max
      <4>. QED  BY <4>2, SlabAssumption
    <3>. QED  BY <2>3, <3>1, <3>2, <3>3
  <2>. QED  BY <2>2, <2>5, <2>6, <2>7
<1>2. HeapInv /\ [Next]_vars => [A]_vars
  BY <1>1
<1>. QED  BY <1>2, HeapInvariant, PTL DEF Spec, NullMeansExhausted
=============================================================================
