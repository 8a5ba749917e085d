-------------------------- MODULE BuddyListsProofs --------------------------
(***************************************************************************)
(* For every number of orders and pages: the free lists stay doubly linked *)
(* (DoublyLinked), and the lists and the shared bitmap take only steps of  *)
(* the abstract allocator (ListsImplementBuddy). A list is reasoned about  *)
(* through the sequence of its blocks (Chain). What the steps rely on, that*)
(* a block which is pushed is on no list and one which is removed is on    *)
(* its list, is the invariant of the abstract allocator: it is taken from  *)
(* module BuddyProofs, through the refinement mapping.                     *)
(***************************************************************************)
EXTENDS BuddyLists, WellFoundedInduction, FiniteSetTheorems, TLAPS

(***************************************************************************)
(* Induction over the natural numbers, and that a function defined by      *)
(* recursion over 0 .. N is what its definition says.                      *)
(***************************************************************************)
\* Every non-empty set of natural numbers has a least element.
LEMMA LeastNumber ==
  ASSUME NEW T, T \subseteq Nat, T # {}
  PROVE  \E n \in T : \A m \in T : n <= m
<1>. DEFINE Less == {ss \in Nat \X Nat : ss[1] < ss[2]}
<1>1. IsWellFoundedOn(Less, Nat)
  BY NatLessThanWellFounded DEF OpToRel
<1>2. \A m, n \in Nat : m < n => <<m, n>> \in Less
  OBVIOUS
<1>. HIDE DEF Less
<1>3. PICK x \in T : \A y \in T : ~(<<y, x>> \in Less)
  BY <1>1, WFMin
<1>4. \A y \in T : x <= y
  <2>. SUFFICES ASSUME NEW y \in T PROVE ~(y < x)
    OBVIOUS
  <2>1. y < x => <<y, x>> \in Less
    BY <1>2
  <2>. QED  BY <1>3, <2>1
<1>. QED  BY <1>4

\* Induction over the natural numbers.
LEMMA Induction ==
  ASSUME NEW S, 0 \in S, \A n \in Nat : n \in S => n + 1 \in S
  PROVE  Nat \subseteq S
<1>. SUFFICES ASSUME Nat \ S # {} PROVE FALSE
  OBVIOUS
<1>1. PICK n \in Nat \ S : \A m \in Nat \ S : n <= m
  BY LeastNumber
<1>2. n # 0 /\ n - 1 \in Nat /\ n - 1 \in S
  BY <1>1
<1>. QED  BY <1>1, <1>2

\* step gives the n-th value from the one before it.
Steps(step, X, N) == step \in [1 .. N -> [X -> X]]

Iterates(g, X, base, step, N) ==
  /\ g \in [0 .. N -> X]
  /\ g[0] = base
  /\ \A n \in 1 .. N : g[n] = step[n][g[n - 1]]

\* A recursive definition over 0 .. N has a solution.
LEMMA Iterate ==
  ASSUME NEW X, NEW base \in X, NEW step, NEW N \in Nat, Steps(step, X, N)
  PROVE  \E g : Iterates(g, X, base, step, N)
<1>. DEFINE S == {M \in Nat : M <= N => \E g : Iterates(g, X, base, step, M)}
<1>1. 0 \in S
  <2>1. Iterates([n \in 0 .. 0 |-> base], X, base, step, 0)
    BY DEF Iterates
  <2>. QED  BY <2>1
<1>2. ASSUME NEW M \in Nat, M \in S
      PROVE  M + 1 \in S
  <2>. SUFFICES ASSUME M + 1 <= N PROVE \E h : Iterates(h, X, base, step, M + 1)
    OBVIOUS
  <2>1. PICK g : Iterates(g, X, base, step, M)
    BY <1>2
  <2>. DEFINE h == [n \in 0 .. M + 1 |-> IF n <= M THEN g[n] ELSE step[n][g[M]]]
  <2>2. \A n \in 1 .. M + 1, x \in X : step[n][x] \in X
    BY DEF Steps
  <2>3. h \in [0 .. M + 1 -> X]
    BY <2>1, <2>2 DEF Iterates
  <2>4. h[0] = base
    BY <2>1 DEF Iterates
  <2>5. ASSUME NEW n \in 1 .. M + 1
        PROVE  h[n] = step[n][h[n - 1]]
    <3>1. CASE n \in 1 .. M
      BY <2>1, <3>1 DEF Iterates
    <3>2. CASE n = M + 1
      BY <2>1, <3>2 DEF Iterates
    <3>. QED  BY <3>1, <3>2
  <2>. HIDE DEF h
  <2>6. Iterates(h, X, base, step, M + 1)
    BY <2>3, <2>4, <2>5 DEF Iterates
  <2>. QED  BY <2>6
<1>. HIDE DEF S
<1>3. N \in S
  BY <1>1, <1>2, Induction
<1>. QED  BY <1>3 DEF S

Frame == [Pages -> Links]

ListedBody(g, n) ==
  [p \in Links |-> IF p \in Pages /\ n > 0 THEN {p} \union g[n - 1][next[p]] ELSE {p}]

\* The recursive definition of ListedWithin has a solution.
LEMMA ListedUnfold ==
  ASSUME next \in Frame
  PROVE  ListedWithin = [n \in 0 .. MAX_PAGES |-> ListedBody(ListedWithin, n)]
<1>. DEFINE N == MAX_PAGES
            X == [Links -> SUBSET Links]
            base == [p \in Links |-> {p}]
            after(r) == [p \in Links |-> IF p \in Pages THEN {p} \union r[next[p]] ELSE {p}]
            step == [n \in 1 .. N |-> [r \in X |-> after(r)]]
<1>1. N \in Nat
  BY BitmapAssumption
<1>2. base \in X
  OBVIOUS
<1>3. Steps(step, X, N)
  <2>1. \A r \in X : after(r) \in X
    BY DEF Frame
  <2>. HIDE DEF after, X
  <2>. QED  BY <2>1 DEF Steps
<1>. HIDE DEF N, X, base, step
<1>4. PICK g : Iterates(g, X, base, step, N)
  BY <1>1, <1>2, <1>3, Iterate
<1>5. ASSUME NEW n \in 0 .. N
      PROVE  g[n] = ListedBody(g, n)
  <2>1. CASE n = 0
    BY <1>4, <2>1 DEF Iterates, ListedBody, base
  <2>2. CASE n \in 1 .. N
    <3>1. g[n] = step[n][g[n - 1]] /\ g[n - 1] \in X
      BY <1>1, <1>4, <2>2 DEF Iterates
    <3>2. n > 0 /\ n \in 1 .. N
      BY <2>2
    <3>. QED  BY <3>1, <3>2 DEF ListedBody, step
  <2>. QED  BY <1>1, <2>1, <2>2
<1>6. g = [n \in 0 .. N |-> ListedBody(g, n)]
  BY <1>4, <1>5 DEF Iterates
<1>. QED  BY <1>6 DEF ListedBody, ListedWithin, N
-----------------------------------------------------------------------------
(***************************************************************************)
(* A doubly linked list: the n blocks of L, from head.                     *)
(***************************************************************************)
Chain(L, n, head, nxt, prv) ==
  /\ n \in Nat /\ L \in [1 .. n -> Pages]
  /\ head = IF n = 0 THEN None ELSE L[1]
  /\ \A i \in 1 .. n : nxt[L[i]] = IF i = n THEN None ELSE L[i + 1]
  /\ \A i \in 1 .. n : prv[L[i]] = IF i = 1 THEN None ELSE L[i - 1]
  /\ \A i, j \in 1 .. n : L[i] = L[j] => i = j

On(L, n) == {L[i] : i \in 1 .. n}

\* Following next from the head meets the blocks of the list, and then None.
LEMMA ChainListed ==
  ASSUME NEW L, NEW n, NEW head, next \in Frame, Chain(L, n, head, next, prev)
  PROVE  ListedWithin[MAX_PAGES][head] = On(L, n) \union {None}
<1>. DEFINE N == MAX_PAGES
<1>1. n \in Nat /\ L \in [1 .. n -> Pages] /\ head = (IF n = 0 THEN None ELSE L[1])
  BY DEF Chain
<1>2. N \in Nat /\ n <= N
  <2>1. L \in Injection(1 .. n, Pages)
    BY <1>1 DEF Chain, Injection, IsInjective
  <2>2. Cardinality(1 .. n) = n
    BY <1>1, FS_Interval
  <2>3. IsFiniteSet(Pages) /\ Cardinality(Pages) = N /\ N \in Nat
    <3>1. N \in Nat /\ 0 \in Int /\ N - 1 \in Int /\ ~(0 > N - 1)
      BY BitmapAssumption
    <3>2. IsFiniteSet(0 .. N - 1) /\ Cardinality(0 .. N - 1) = (N - 1) - 0 + 1
      BY <3>1, FS_Interval
    <3>. QED  BY <3>1, <3>2 DEF Pages
  <2>. QED  BY <2>1, <2>2, <2>3, FS_Injection
<1>3. \A m \in 0 .. N : \A p \in Links :
        ListedWithin[m][p] = IF p \in Pages /\ m > 0 THEN {p} \union ListedWithin[m - 1][next[p]]
                             ELSE {p}
  <2>1. \A m \in 0 .. N : ListedWithin[m] = ListedBody(ListedWithin, m)
    BY ListedUnfold
  <2>. QED  BY <2>1 DEF ListedBody
<1>. HIDE DEF N
<1>. DEFINE X(k) == IF k = 0 THEN None ELSE L[n - k + 1]
            T(k) == {L[i] : i \in n - k + 1 .. n} \union {None}
            S == {k \in Nat : k <= n => \A m \in k .. N : ListedWithin[m][X(k)] = T(k)}
<1>4. 0 \in S
  <2>1. T(0) = {None}
    BY <1>1
  <2>2. None \in Links /\ None \notin Pages
    BY PointerAssumption DEF Links, Pages
  <2>3. \A m \in 0 .. N : ListedWithin[m][None] = {None}
    BY <1>3, <2>2
  <2>. QED  BY <2>1, <2>3
<1>5. ASSUME NEW k \in Nat, k \in S
      PROVE  k + 1 \in S
  <2>. SUFFICES ASSUME k + 1 <= n, NEW m \in k + 1 .. N
                PROVE  ListedWithin[m][X(k + 1)] = T(k + 1)
    OBVIOUS
  <2>. DEFINE j == n - k
  <2>1. j \in 1 .. n /\ m \in 0 .. N /\ m > 0 /\ m - 1 \in k .. N
    BY <1>1, <1>2
  <2>2. X(k + 1) = L[j] /\ L[j] \in Pages /\ L[j] \in Links
    BY <1>1, <2>1 DEF Links
  <2>3. next[L[j]] = X(k)
    <3>1. next[L[j]] = IF j = n THEN None ELSE L[j + 1]
      BY <2>1 DEF Chain
    <3>. QED  BY <1>1, <3>1
  <2>4. ListedWithin[m][L[j]] = {L[j]} \union ListedWithin[m - 1][next[L[j]]]
    BY <1>3, <2>1, <2>2
  <2>5. ListedWithin[m - 1][X(k)] = T(k)
    <3>1. k <= n
      BY <1>1
    <3>2. k <= n => \A l \in k .. N : ListedWithin[l][X(k)] = T(k)
      BY <1>5
    <3>. HIDE DEF X, T
    <3>. QED  BY ONLY <2>1, <3>1, <3>2
  <2>6. T(k + 1) = {L[j]} \union T(k)
    <3>1. n - (k + 1) + 1 .. n = (n - k + 1 .. n) \union {j}
      BY <1>1
    <3>. QED  BY <3>1
  <2>. QED  BY <2>2, <2>3, <2>4, <2>5, <2>6
<1>. HIDE DEF S
<1>6. n \in S
  BY <1>1, <1>4, <1>5, Induction
<1>7. ListedWithin[N][X(n)] = T(n)
  BY <1>1, <1>2, <1>6 DEF S
<1>8. X(n) = head /\ n - n + 1 = 1
  BY <1>1
<1>. QED  BY <1>7, <1>8 DEF On, N

\* A list is not touched by what is written to other pages.
LEMMA ChainKept ==
  ASSUME NEW L, NEW n, NEW head, NEW nxt, NEW prv, NEW nxt2, NEW prv2,
         Chain(L, n, head, nxt, prv),
         \A q \in On(L, n) : nxt2[q] = nxt[q] /\ prv2[q] = prv[q]
  PROVE  Chain(L, n, head, nxt2, prv2)
BY DEF Chain, On

\* What Put writes.
LEMMA PutFacts ==
  ASSUME NEW f \in Frame, NEW x, NEW v \in Links
  PROVE  /\ Put(f, x, v) \in Frame
         /\ \A y \in Pages : Put(f, x, v)[y] = IF y = x THEN v ELSE f[y]
BY DEF Frame, Put

PushedNext(nxt, head, p) == Put(nxt, p, head)
PushedPrev(prv, head, p) == Put(Put(prv, p, None), head, p)

\* push_free puts a block that is on no list in front.
LEMMA ChainPush ==
  ASSUME NEW L, NEW n, NEW head, NEW nxt \in Frame, NEW prv \in Frame,
         Chain(L, n, head, nxt, prv), NEW p \in Pages, p \notin On(L, n)
  PROVE  /\ \E M, m : /\ Chain(M, m, p, PushedNext(nxt, head, p), PushedPrev(prv, head, p))
                      /\ On(M, m) = On(L, n) \union {p}
         /\ PushedNext(nxt, head, p) \in Frame /\ PushedPrev(prv, head, p) \in Frame
         /\ \A q \in Pages : q \notin On(L, n) /\ q # p =>
              PushedNext(nxt, head, p)[q] = nxt[q] /\ PushedPrev(prv, head, p)[q] = prv[q]
<1>. DEFINE m == n + 1
            M == [i \in 1 .. m |-> IF i = 1 THEN p ELSE L[i - 1]]
            nxt2 == PushedNext(nxt, head, p)
            prv2 == PushedPrev(prv, head, p)
<1>1. /\ n \in Nat /\ m \in Nat /\ L \in [1 .. n -> Pages]
      /\ head = (IF n = 0 THEN None ELSE L[1])
  BY DEF Chain
<1>2. head \in Links /\ None \in Links /\ p \in Links /\ None \notin Pages
  BY <1>1, PointerAssumption DEF Links, Pages
<1>3. /\ nxt2 \in Frame /\ prv2 \in Frame
      /\ \A y \in Pages : nxt2[y] = IF y = p THEN head ELSE nxt[y]
      /\ \A y \in Pages : prv2[y] = IF y = head THEN p ELSE IF y = p THEN None ELSE prv[y]
  <2>1. Put(prv, p, None) \in Frame
        /\ \A y \in Pages : Put(prv, p, None)[y] = IF y = p THEN None ELSE prv[y]
    BY <1>2, PutFacts
  <2>2. prv2 \in Frame
        /\ \A y \in Pages : prv2[y] = IF y = head THEN p ELSE Put(prv, p, None)[y]
    BY <1>2, <2>1, PutFacts DEF PushedPrev
  <2>3. nxt2 \in Frame /\ \A y \in Pages : nxt2[y] = IF y = p THEN head ELSE nxt[y]
    BY <1>2, PutFacts DEF PushedNext
  <2>. QED  BY <2>1, <2>2, <2>3
<1>. HIDE DEF nxt2, prv2
<1>4. \A i \in 1 .. n : L[i] \in Pages /\ L[i] \in On(L, n) /\ L[i] # p
  BY <1>1 DEF On
<1>5. M \in [1 .. m -> Pages] /\ M[1] = p /\ \A i \in 1 .. n : M[i + 1] = L[i]
  BY <1>1, <1>4
<1>6. \A i \in 1 .. m : i = 1 \/ (i - 1 \in 1 .. n /\ i = (i - 1) + 1)
  BY <1>1
<1>. HIDE DEF M
<1>7. ASSUME NEW i \in 1 .. m
      PROVE  nxt2[M[i]] = IF i = m THEN None ELSE M[i + 1]
  <2>1. CASE i = 1
    <3>1. nxt2[M[i]] = head
      BY <1>3, <1>5, <2>1
    <3>2. n # 0 => M[i + 1] = L[1]
      BY <1>1, <1>5, <2>1
    <3>. QED  BY <1>1, <2>1, <3>1, <3>2
  <2>2. CASE i - 1 \in 1 .. n
    <3>1. M[i] = L[i - 1]
      BY <1>5, <2>2
    <3>2. nxt2[M[i]] = nxt[L[i - 1]]
      BY <1>3, <1>4, <2>2, <3>1
    <3>3. nxt[L[i - 1]] = IF i - 1 = n THEN None ELSE L[(i - 1) + 1]
      BY <2>2 DEF Chain
    <3>4. i - 1 # n => M[i + 1] = L[i]
      BY <1>1, <1>5, <2>2
    <3>. QED  BY <1>1, <3>2, <3>3, <3>4
  <2>. QED  BY <1>6, <2>1, <2>2
<1>8. ASSUME NEW i \in 1 .. m
      PROVE  prv2[M[i]] = IF i = 1 THEN None ELSE M[i - 1]
  <2>1. CASE i = 1
    <3>1. p # head
      BY <1>1, <1>2, <1>4
    <3>. QED  BY <1>3, <1>5, <2>1, <3>1
  <2>2. CASE i - 1 \in 1 .. n
    <3>1. M[i] = L[i - 1] /\ L[i - 1] \in Pages /\ L[i - 1] # p
      BY <1>4, <1>5, <2>2
    <3>2. CASE i - 1 = 1
      <4>1. L[i - 1] = head /\ M[i - 1] = p
        BY <1>1, <1>5, <2>2, <3>2
      <4>. QED  BY <1>3, <2>2, <3>1, <4>1
    <3>3. CASE i - 1 # 1
      <4>1. L[i - 1] # head
        BY <1>1, <2>2, <3>3 DEF Chain
      <4>2. prv2[M[i]] = prv[L[i - 1]]
        BY <1>3, <3>1, <4>1
      <4>3. prv[L[i - 1]] = L[(i - 1) - 1]
        BY <2>2, <3>3 DEF Chain
      <4>4. M[i - 1] = L[(i - 1) - 1]
        BY <1>1, <1>5, <2>2, <3>3
      <4>. QED  BY <2>2, <4>2, <4>3, <4>4
    <3>. QED  BY <3>2, <3>3
  <2>. QED  BY <1>6, <2>1, <2>2
<1>9. ASSUME NEW i \in 1 .. m, NEW j \in 1 .. m, M[i] = M[j]
      PROVE  i = j
  <2>1. CASE i = 1 \/ j = 1
    BY <1>4, <1>5, <1>6, <1>9, <2>1
  <2>2. CASE i - 1 \in 1 .. n /\ j - 1 \in 1 .. n
    <3>1. L[i - 1] = L[j - 1]
      BY <1>5, <1>9, <2>2
    <3>2. i - 1 = j - 1
      BY <2>2, <3>1 DEF Chain
    <3>. QED  BY <3>2
  <2>. QED  BY <1>6, <2>1, <2>2
<1>10. Chain(M, m, p, nxt2, prv2)
  <2>1. p = IF m = 0 THEN None ELSE M[1]
    BY <1>1, <1>5
  <2>. QED  BY <1>1, <1>5, <1>7, <1>8, <1>9, <2>1 DEF Chain
<1>11. On(M, m) = On(L, n) \union {p}
  <2>1. \A i \in 1 .. m : M[i] \in On(L, n) \union {p}
    BY <1>4, <1>5, <1>6
  <2>2. \A i \in 1 .. n : i + 1 \in 1 .. m /\ L[i] = M[i + 1]
    BY <1>1, <1>5
  <2>3. 1 \in 1 .. m /\ p = M[1]
    BY <1>1, <1>5
  <2>. QED  BY <2>1, <2>2, <2>3 DEF On
<1>12. ASSUME NEW q \in Pages, q \notin On(L, n), q # p
       PROVE  nxt2[q] = nxt[q] /\ prv2[q] = prv[q]
  <2>1. q # head
    BY <1>1, <1>2, <1>4, <1>12
  <2>. QED  BY <1>3, <1>12, <2>1
<1>. QED  BY <1>3, <1>10, <1>11, <1>12 DEF nxt2, prv2

CutNext(nxt, prv, p)  == Put(Put(nxt, prv[p], nxt[p]), p, None)
CutPrev(nxt, prv, p)  == Put(Put(prv, nxt[p], prv[p]), p, None)
CutHead(nxt, prv, head, p) == IF prv[p] = None THEN nxt[p] ELSE head

\* remove_frame takes a block out of its list, wherever it is linked.
Unlinks(L, n, head, nxt, prv, p) ==
  /\ \E M, m : /\ Chain(M, m, CutHead(nxt, prv, head, p),
                        CutNext(nxt, prv, p), CutPrev(nxt, prv, p))
               /\ On(M, m) = On(L, n) \ {p}
  /\ CutNext(nxt, prv, p) \in Frame /\ CutPrev(nxt, prv, p) \in Frame
  /\ \A q \in Pages : q \notin On(L, n) =>
       CutNext(nxt, prv, p)[q] = nxt[q] /\ CutPrev(nxt, prv, p)[q] = prv[q]

LEMMA ChainRemove ==
  ASSUME NEW L, NEW n, NEW head, NEW nxt \in Frame, NEW prv \in Frame,
         NEW p \in On(L, n), Chain(L, n, head, nxt, prv)
  PROVE  Unlinks(L, n, head, nxt, prv, p)
<1>. DEFINE m == n - 1
            nxt2 == CutNext(nxt, prv, p)
            prv2 == CutPrev(nxt, prv, p)
            head2 == CutHead(nxt, prv, head, p)
<1>1. /\ n \in Nat /\ L \in [1 .. n -> Pages]
      /\ head = (IF n = 0 THEN None ELSE L[1])
  BY DEF Chain
<1>2. PICK k \in 1 .. n : p = L[k]
  BY DEF On
<1>. DEFINE M == [i \in 1 .. m |-> IF i < k THEN L[i] ELSE L[i + 1]]
<1>3. /\ nxt[p] = (IF k = n THEN None ELSE L[k + 1])
      /\ prv[p] = (IF k = 1 THEN None ELSE L[k - 1])
  BY <1>2 DEF Chain
<1>4. /\ p \in Pages /\ m \in Nat /\ nxt[p] \in Links /\ prv[p] \in Links
      /\ None \in Links /\ None \notin Pages
  BY <1>1, <1>2, PointerAssumption DEF Frame, Links, Pages
<1>5. /\ nxt2 \in Frame /\ prv2 \in Frame
      /\ \A y \in Pages : nxt2[y] = IF y = p THEN None ELSE IF y = prv[p] THEN nxt[p] ELSE nxt[y]
      /\ \A y \in Pages : prv2[y] = IF y = p THEN None ELSE IF y = nxt[p] THEN prv[p] ELSE prv[y]
  <2>. DEFINE a == Put(nxt, prv[p], nxt[p])  b == Put(prv, nxt[p], prv[p])
  <2>1. a \in Frame /\ \A y \in Pages : a[y] = IF y = prv[p] THEN nxt[p] ELSE nxt[y]
    BY <1>4, PutFacts
  <2>2. b \in Frame /\ \A y \in Pages : b[y] = IF y = nxt[p] THEN prv[p] ELSE prv[y]
    BY <1>4, PutFacts
  <2>3. nxt2 = Put(a, p, None) /\ prv2 = Put(b, p, None)
    BY DEF CutNext, CutPrev
  <2>. HIDE DEF a, b, nxt2, prv2
  <2>4. nxt2 \in Frame /\ \A y \in Pages : nxt2[y] = IF y = p THEN None ELSE a[y]
    BY <1>4, <2>1, <2>3, PutFacts
  <2>5. prv2 \in Frame /\ \A y \in Pages : prv2[y] = IF y = p THEN None ELSE b[y]
    BY <1>4, <2>2, <2>3, PutFacts
  <2>. QED  BY <2>1, <2>2, <2>4, <2>5
<1>. HIDE DEF nxt2, prv2
<1>6. \A i \in 1 .. n : L[i] \in Pages /\ L[i] \in On(L, n)
  BY <1>1 DEF On
<1>7. \A i, j \in 1 .. n : L[i] = L[j] => i = j
  BY DEF Chain
<1>8. /\ M \in [1 .. m -> Pages]
      /\ \A i \in 1 .. m : i < k => M[i] = L[i] /\ i \in 1 .. n
      /\ \A i \in 1 .. m : ~(i < k) => M[i] = L[i + 1] /\ i + 1 \in 1 .. n
  BY <1>1, <1>6
<1>. HIDE DEF M
<1>9. ASSUME NEW i \in 1 .. n, i # k
      PROVE  /\ nxt2[L[i]] = IF i = n \/ (i + 1 = k /\ k = n) THEN None
                             ELSE IF i + 1 = k THEN L[k + 1] ELSE L[i + 1]
             /\ prv2[L[i]] = IF i = 1 \/ (i - 1 = k /\ k = 1) THEN None
                             ELSE IF i - 1 = k THEN L[k - 1] ELSE L[i - 1]
  <2>1. L[i] # p /\ L[i] \in Pages
    BY <1>2, <1>6, <1>7, <1>9
  <2>2. nxt[L[i]] = IF i = n THEN None ELSE L[i + 1]
    BY DEF Chain
  <2>3. prv[L[i]] = IF i = 1 THEN None ELSE L[i - 1]
    BY DEF Chain
  <2>4. L[i] = prv[p] <=> i + 1 = k
    <3>1. CASE k = 1
      BY <1>3, <1>4, <2>1, <3>1
    <3>2. CASE k # 1
      <4>1. k - 1 \in 1 .. n /\ prv[p] = L[k - 1]
        BY <1>1, <1>3, <3>2
      <4>. QED  BY <1>7, <4>1
    <3>. QED  BY <3>1, <3>2
  <2>5. L[i] = nxt[p] <=> i - 1 = k
    <3>1. CASE k = n
      BY <1>1, <1>3, <1>4, <2>1, <3>1
    <3>2. CASE k # n
      <4>1. k + 1 \in 1 .. n /\ nxt[p] = L[k + 1]
        BY <1>1, <1>3, <3>2
      <4>. QED  BY <1>7, <4>1
    <3>. QED  BY <3>1, <3>2
  <2>6. nxt2[L[i]] = IF i + 1 = k THEN nxt[p] ELSE nxt[L[i]]
    BY <1>5, <2>1, <2>4
  <2>7. prv2[L[i]] = IF i - 1 = k THEN prv[p] ELSE prv[L[i]]
    BY <1>5, <2>1, <2>5
  <2>8. i + 1 = k => i # n
    BY <1>1
  <2>9. i - 1 = k => i # 1
    BY <1>1
  <2>10. nxt2[L[i]] = IF i = n \/ (i + 1 = k /\ k = n) THEN None
                      ELSE IF i + 1 = k THEN L[k + 1] ELSE L[i + 1]
    BY <1>3, <2>2, <2>6, <2>8
  <2>11. prv2[L[i]] = IF i = 1 \/ (i - 1 = k /\ k = 1) THEN None
                      ELSE IF i - 1 = k THEN L[k - 1] ELSE L[i - 1]
    BY <1>3, <2>3, <2>7, <2>9
  <2>. QED  BY <2>10, <2>11
<1>10. ASSUME NEW i \in 1 .. m
       PROVE  nxt2[M[i]] = IF i = m THEN None ELSE M[i + 1]
  <2>1. CASE i < k
    <3>1. M[i] = L[i] /\ i \in 1 .. n /\ i # k /\ i # n
      BY <1>1, <1>8, <2>1
    <3>2. CASE i + 1 = k
      <4>1. i = m <=> k = n
        BY <1>1, <3>2
      <4>2. i # m => M[i + 1] = L[k + 1]
        BY <1>1, <1>8, <3>2
      <4>. QED  BY <1>9, <3>1, <3>2, <4>1, <4>2
    <3>3. CASE i + 1 # k
      <4>1. i # m /\ i + 1 \in 1 .. m /\ i + 1 < k
        BY <1>1, <2>1, <3>3
      <4>2. M[i + 1] = L[i + 1]
        BY <1>8, <4>1
      <4>. QED  BY <1>9, <3>1, <3>3, <4>1, <4>2
    <3>. QED  BY <3>2, <3>3
  <2>2. CASE ~(i < k)
    <3>1. M[i] = L[i + 1] /\ i + 1 \in 1 .. n /\ i + 1 # k /\ (i + 1) + 1 # k
      BY <1>1, <1>8, <2>2
    <3>2. i = m <=> i + 1 = n
      BY <1>1
    <3>3. i # m => M[i + 1] = L[(i + 1) + 1]
      BY <1>1, <1>8, <2>2
    <3>4. nxt2[L[i + 1]] = IF i + 1 = n THEN None ELSE L[(i + 1) + 1]
      BY <1>9, <3>1
    <3>. QED  BY <3>1, <3>2, <3>3, <3>4
  <2>. QED  BY <2>1, <2>2
<1>11. ASSUME NEW i \in 1 .. m
       PROVE  prv2[M[i]] = IF i = 1 THEN None ELSE M[i - 1]
  <2>1. CASE i < k
    <3>1. M[i] = L[i] /\ i \in 1 .. n /\ i # k /\ i - 1 # k
      BY <1>1, <1>8, <2>1
    <3>2. i # 1 => M[i - 1] = L[i - 1]
      BY <1>1, <1>8, <2>1
    <3>. QED  BY <1>9, <3>1, <3>2
  <2>2. CASE ~(i < k)
    <3>1. M[i] = L[i + 1] /\ i + 1 \in 1 .. n /\ i + 1 # k /\ i + 1 # 1 /\ (i + 1) - 1 = i
      BY <1>1, <1>8, <2>2
    <3>2. CASE i = k
      <4>1. prv2[L[i + 1]] = IF k = 1 THEN None ELSE L[k - 1]
        BY <1>9, <3>1, <3>2
      <4>2. i # 1 => M[i - 1] = L[k - 1]
        BY <1>1, <1>8, <3>2
      <4>. QED  BY <3>1, <3>2, <4>1, <4>2
    <3>3. CASE i # k
      <4>1. prv2[L[i + 1]] = L[i]
        BY <1>9, <3>1, <3>3
      <4>2. i # 1 /\ i - 1 \in 1 .. m /\ ~(i - 1 < k) /\ (i - 1) + 1 = i
        BY <1>1, <2>2, <3>3
      <4>3. M[i - 1] = L[i]
        BY <1>8, <4>2
      <4>. QED  BY <3>1, <4>1, <4>2, <4>3
    <3>. QED  BY <3>2, <3>3
  <2>. QED  BY <2>1, <2>2
<1>12. ASSUME NEW i \in 1 .. m, NEW j \in 1 .. m, M[i] = M[j]
       PROVE  i = j
  <2>. DEFINE at(x) == IF x < k THEN x ELSE x + 1
  <2>1. \A x \in 1 .. m : M[x] = L[at(x)] /\ at(x) \in 1 .. n
    BY <1>8
  <2>2. at(i) = at(j)
    <3>. HIDE DEF at
    <3>. QED  BY <1>7, <1>12, <2>1
  <2>. QED  BY <1>1, <2>2
<1>13. head2 = IF m = 0 THEN None ELSE M[1]
  <2>1. CASE k = 1
    <3>1. head2 = nxt[p] /\ (m = 0 <=> k = n)
      BY <1>1, <1>3, <2>1 DEF CutHead
    <3>2. m # 0 => M[1] = L[k + 1]
      <4>1. m # 0 => 1 \in 1 .. m /\ ~(1 < k) /\ 1 + 1 = k + 1
        BY <1>1, <1>4, <2>1
      <4>. QED  BY <1>8, <4>1
    <3>. QED  BY <1>3, <3>1, <3>2
  <2>2. CASE k # 1
    <3>1. prv[p] = L[k - 1] /\ k - 1 \in 1 .. n
      BY <1>1, <1>3, <2>2
    <3>2. head2 = L[1] /\ m # 0
      BY <1>1, <1>4, <1>6, <2>2, <3>1 DEF CutHead
    <3>3. M[1] = L[1]
      <4>1. 1 \in 1 .. m /\ 1 < k
        BY <1>1, <1>4, <2>2, <3>2
      <4>. QED  BY <1>8, <4>1
    <3>. QED  BY <3>2, <3>3
  <2>. QED  BY <2>1, <2>2
<1>. HIDE DEF head2
<1>14. Chain(M, m, head2, nxt2, prv2)
  BY <1>4, <1>8, <1>10, <1>11, <1>12, <1>13 DEF Chain
<1>15. On(M, m) = On(L, n) \ {p}
  <2>1. ASSUME NEW i \in 1 .. m PROVE M[i] \in On(L, n) \ {p}
    <3>1. CASE i < k
      BY <1>2, <1>6, <1>7, <1>8, <3>1
    <3>2. CASE ~(i < k)
      <4>1. M[i] = L[i + 1] /\ i + 1 \in 1 .. n /\ i + 1 # k
        BY <1>1, <1>8, <3>2
      <4>. QED  BY <1>2, <1>6, <1>7, <4>1
    <3>. QED  BY <3>1, <3>2
  <2>2. ASSUME NEW i \in 1 .. n, L[i] # p PROVE \E j \in 1 .. m : M[j] = L[i]
    <3>1. i # k
      BY <1>2, <2>2
    <3>2. CASE i < k
      <4>1. i \in 1 .. m
        BY <1>1, <3>2
      <4>. QED  BY <1>8, <3>2, <4>1
    <3>3. CASE i > k
      <4>1. i - 1 \in 1 .. m /\ ~(i - 1 < k) /\ (i - 1) + 1 = i
        BY <1>1, <3>3
      <4>. QED  BY <1>8, <4>1
    <3>. QED  BY <1>1, <3>1, <3>2, <3>3
  <2>. QED  BY <2>1, <2>2 DEF On
<1>16. ASSUME NEW q \in Pages, q \notin On(L, n)
       PROVE  nxt2[q] = nxt[q] /\ prv2[q] = prv[q]
  <2>1. q # p
    BY <1>16
  <2>2. q # prv[p]
    <3>1. CASE k = 1
      BY <1>3, <1>4, <3>1
    <3>2. CASE k # 1
      BY <1>1, <1>3, <1>6, <1>16, <3>2
    <3>. QED  BY <3>1, <3>2
  <2>3. q # nxt[p]
    <3>1. CASE k = n
      BY <1>3, <1>4, <3>1
    <3>2. CASE k # n
      BY <1>1, <1>3, <1>6, <1>16, <3>2
    <3>. QED  BY <3>1, <3>2
  <2>. QED  BY <1>5, <2>1, <2>2, <2>3
<1>. QED  BY <1>5, <1>14, <1>15, <1>16 DEF nxt2, prv2, head2, Unlinks
-----------------------------------------------------------------------------
(***************************************************************************)
(* The shared bitmap: the bits of an order start where those of the order  *)
(* below end.                                                              *)
(***************************************************************************)
Pairs(o) == MAX_PAGES \div 2^(o + 1)

\* The recursive definition of order_offset has a solution.
LEMMA OffsetUnfold ==
  /\ order_offset \in [0 .. MAX_ORDER -> Nat]
  /\ order_offset[0] = 0
  /\ \A o \in 1 .. MAX_ORDER : order_offset[o] = order_offset[o - 1] + MAX_PAGES \div 2^o
<1>. DEFINE N == MAX_ORDER
            step == [o \in 1 .. N |-> [x \in Nat |-> x + MAX_PAGES \div 2^o]]
            body(g, o) == IF o = 0 THEN 0 ELSE g[o - 1] + MAX_PAGES \div 2^o
<1>1. N \in Nat
  BY BitmapAssumption
<1>2. \A o \in 0 .. N : MAX_PAGES \div 2^o \in Nat
  BY BitmapAssumption, PowersOfTwo
<1>3. Steps(step, Nat, N)
  BY <1>1, <1>2 DEF Steps
<1>. HIDE DEF N, step
<1>4. PICK g : Iterates(g, Nat, 0, step, N)
  BY <1>1, <1>3, Iterate
<1>5. g \in [0 .. N -> Nat]
  BY <1>4 DEF Iterates
<1>6. ASSUME NEW o \in 0 .. N
      PROVE  g[o] = body(g, o)
  <2>1. CASE o = 0
    BY <1>4, <2>1 DEF Iterates
  <2>2. CASE o \in 1 .. N
    <3>1. g[o] = step[o][g[o - 1]] /\ g[o - 1] \in Nat
      BY <1>1, <1>4, <2>2 DEF Iterates
    <3>2. o # 0
      BY <2>2
    <3>. QED  BY <2>2, <3>1, <3>2 DEF step
  <2>. QED  BY <1>1, <2>1, <2>2
<1>7. g = [o \in 0 .. N |-> body(g, o)]
  BY <1>5, <1>6
<1>8. order_offset = [o \in 0 .. N |-> body(order_offset, o)]
  BY <1>7 DEF order_offset, N
<1>. DEFINE f == order_offset
<1>9. ASSUME NEW o \in 0 .. N
      PROVE  f[o] = body(f, o)
  BY <1>8
<1>10. \A o \in 0 .. N : f[o] = g[o]
  <2>. DEFINE S == {o \in Nat : o <= N => f[o] = g[o]}
  <2>1. 0 \in S
    BY <1>1, <1>6, <1>9
  <2>2. ASSUME NEW o \in Nat, o \in S
        PROVE  o + 1 \in S
    <3>. SUFFICES ASSUME o + 1 <= N PROVE f[o + 1] = g[o + 1]
      OBVIOUS
    <3>1. o + 1 \in 0 .. N /\ o + 1 # 0 /\ (o + 1) - 1 = o /\ f[o] = g[o]
      BY <1>1, <2>2
    <3>. QED  BY <1>6, <1>9, <3>1
  <2>. HIDE DEF S
  <2>3. Nat \subseteq S
    BY <2>1, <2>2, Induction
  <2>. QED  BY <1>1, <2>3 DEF S
<1>11. \A o \in 0 .. N : f[o] \in Nat
  BY <1>5, <1>10
<1>12. f \in [0 .. N -> Nat]
  BY <1>8, <1>11
<1>13. f[0] = 0
  BY <1>1, <1>9
<1>14. \A o \in 1 .. N : f[o] = f[o - 1] + MAX_PAGES \div 2^o
  BY <1>1, <1>9
<1>. QED  BY <1>12, <1>13, <1>14 DEF N

\* Division with remainder.
LEMMA DivMod ==
  ASSUME NEW x \in Nat, NEW d \in Nat \ {0}
  PROVE  /\ x \div d \in Nat /\ x % d \in 0 .. d - 1
         /\ (x \div d) * d \in Nat /\ x = (x \div d) * d + (x % d)
OBVIOUS

\* A positive factor can be dropped.
LEMMA DropFactor ==
  ASSUME NEW d \in Nat \ {0}, NEW a \in Nat, NEW b \in Nat, a * d < b * d
  PROVE  a < b
<1>. SUFFICES ASSUME b <= a PROVE FALSE
  OBVIOUS
<1>1. PICK c \in Nat : a = b + c
  <2>1. a - b \in Nat /\ a = b + (a - b)
    OBVIOUS
  <2>. QED  BY <2>1
<1>2. a * d = b * d + c * d
  BY <1>1
<1>3. c * d \in Nat /\ b * d \in Nat
  OBVIOUS
<1>. QED  BY <1>2, <1>3

\* Halving the block size at least doubles the number of blocks.
LEMMA Half ==
  ASSUME NEW x \in Nat, NEW d \in Nat \ {0}
  PROVE  2 * (x \div (2 * d)) <= x \div d
<1>. DEFINE a == x \div (2 * d)  b == x \div d
<1>0. 2 * d \in Nat \ {0}
  OBVIOUS
<1>1. a \in Nat /\ a * (2 * d) \in Nat /\ a * (2 * d) <= x
  <2>. DEFINE e == 2 * d
  <2>1. e \in Nat \ {0}
    BY <1>0
  <2>. HIDE DEF e
  <2>2. /\ x \div e \in Nat /\ x % e \in 0 .. e - 1
        /\ (x \div e) * e \in Nat /\ x = (x \div e) * e + (x % e)
    BY <2>1, DivMod
  <2>3. (x \div e) * e <= x
    BY <2>1, <2>2
  <2>. QED  BY <2>2, <2>3 DEF e
<1>2. b \in Nat /\ b * d \in Nat /\ x < b * d + d
  BY DivMod
<1>. HIDE DEF a, b
<1>3. (2 * a) * d = a * (2 * d) /\ (b + 1) * d = b * d + d
  BY <1>1, <1>2
<1>4. (2 * a) * d < (b + 1) * d
  BY <1>1, <1>2, <1>3
<1>5. 2 * a < b + 1
  <2>1. 2 * a \in Nat /\ b + 1 \in Nat
    BY <1>1, <1>2
  <2>. QED  BY <1>4, <2>1, DropFactor
<1>. QED  BY <1>1, <1>2, <1>5 DEF a, b

\* The pages make up whole blocks of every order.
LEMMA WholeBlocks ==
  ASSUME NEW k \in 0 .. MAX_ORDER - 1
  PROVE  MAX_PAGES % 2^k = 0
<1>. DEFINE T == MAX_ORDER - 1
            S == {j \in Nat : j <= T => MAX_PAGES % 2^(T - j) = 0}
<1>1. T \in Nat /\ MAX_PAGES \in Nat
  BY BitmapAssumption
<1>2. 0 \in S
  BY <1>1, BitmapAssumption
<1>3. ASSUME NEW j \in Nat, j \in S
      PROVE  j + 1 \in S
  <2>. SUFFICES ASSUME j + 1 <= T PROVE MAX_PAGES % 2^(T - (j + 1)) = 0
    OBVIOUS
  <2>. DEFINE o == T - (j + 1)  d == 2^o  q == MAX_PAGES \div (2 * d)
  <2>1. o \in 0 .. MAX_ORDER /\ o + 1 = T - j
    BY BitmapAssumption
  <2>2. d \in Nat \ {0} /\ 2^(T - j) = 2 * d
    BY <2>1, PowersOfTwo
  <2>3. MAX_PAGES % (2 * d) = 0
    BY <1>1, <1>3, <2>2
  <2>. HIDE DEF d, o
  <2>4. q \in Nat /\ MAX_PAGES = q * (2 * d)
    <3>. DEFINE e == 2 * d
    <3>1. e \in Nat \ {0}
      BY <2>2
    <3>. HIDE DEF e
    <3>2. /\ MAX_PAGES \div e \in Nat /\ (MAX_PAGES \div e) * e \in Nat
          /\ MAX_PAGES = (MAX_PAGES \div e) * e + (MAX_PAGES % e)
      BY <1>1, <3>1, DivMod
    <3>3. MAX_PAGES % e = 0
      BY <2>3 DEF e
    <3>4. MAX_PAGES = (MAX_PAGES \div e) * e
      BY <3>2, <3>3
    <3>. QED  BY <3>2, <3>4 DEF e
  <2>. HIDE DEF q
  <2>5. MAX_PAGES = (2 * q) * d
    BY <2>2, <2>4
  <2>6. \A c \in Nat : (c * d) % d = 0
    BY <2>2
  <2>. QED  BY <2>4, <2>5, <2>6 DEF d, o
<1>. HIDE DEF S
<1>4. T - k \in S
  BY <1>1, <1>2, <1>3, Induction
<1>. QED  BY <1>1, <1>4 DEF S

\* Where the bits of an order lie: inside the bitmap, and behind those of the
\* lower orders.
LEMMA OffsetFacts ==
  ASSUME NEW o \in 0 .. MAX_ORDER - 2
  PROVE  /\ order_offset[o] \in Nat /\ Pairs(o) \in Nat
         /\ order_offset[o] + Pairs(o) <= MAX_PAGES
         /\ \A r \in 0 .. MAX_ORDER - 2 : o < r => order_offset[o] + Pairs(o) <= order_offset[r]
<1>. DEFINE N == MAX_ORDER  f == order_offset  P == MAX_PAGES
            part(k) == P \div 2^k
<1>1. N \in Nat /\ P \in Nat /\ \A k \in 0 .. N : 2^k \in Nat \ {0} /\ 2^(k + 1) = 2 * 2^k
  BY BitmapAssumption, PowersOfTwo
<1>2. \A k \in 0 .. N : part(k) \in Nat
  BY <1>1
<1>3. \A k \in 0 .. N - 1 : part(k + 1) \in Nat /\ 2 * part(k + 1) <= part(k)
  <2>1. ASSUME NEW k \in 0 .. N - 1
        PROVE  part(k + 1) \in Nat /\ 2 * part(k + 1) <= part(k)
    <3>1. k \in 0 .. N /\ k + 1 \in 0 .. N /\ 2^k \in Nat \ {0} /\ 2^(k + 1) = 2 * 2^k
      BY <1>1
    <3>2. 2 * (P \div (2 * 2^k)) <= P \div 2^k
      BY <1>1, <3>1, Half
    <3>. QED  BY <1>2, <3>1, <3>2
  <2>. QED  BY <2>1
<1>4. /\ \A k \in 0 .. N : f[k] \in Nat
      /\ f[0] = 0 /\ \A k \in 1 .. N : f[k] = f[k - 1] + part(k)
  BY OffsetUnfold
<1>5. part(0) = P
  BY <1>1, PowersOfTwo
<1>. HIDE DEF part, f, N, P
<1>. DEFINE S == {k \in Nat : k <= N => /\ f[k] + part(k) <= P
                                        /\ \A j \in 0 .. k : f[j] <= f[k]}
<1>6. 0 \in S
  BY <1>1, <1>4, <1>5
<1>7. ASSUME NEW k \in Nat, k \in S
      PROVE  k + 1 \in S
  <2>. SUFFICES ASSUME k + 1 <= N
                PROVE  /\ f[k + 1] + part(k + 1) <= P
                       /\ \A j \in 0 .. k + 1 : f[j] <= f[k + 1]
    OBVIOUS
  <2>1. k \in 0 .. N - 1 /\ k \in 0 .. N /\ k + 1 \in 1 .. N /\ (k + 1) - 1 = k
    BY <1>1
  <2>2. f[k] + part(k) <= P /\ \A j \in 0 .. k : f[j] <= f[k]
    BY <1>1, <1>7
  <2>3. f[k + 1] = f[k] + part(k + 1)
    BY <1>4, <2>1
  <2>4. f[k] \in Nat /\ part(k) \in Nat /\ part(k + 1) \in Nat /\ 2 * part(k + 1) <= part(k)
    BY <1>2, <1>3, <1>4, <2>1
  <2>5. f[k + 1] + part(k + 1) <= P /\ f[k] <= f[k + 1]
    BY <1>1, <2>2, <2>3, <2>4
  <2>6. ASSUME NEW j \in 0 .. k + 1
        PROVE  f[j] <= f[k + 1]
    <3>1. CASE j = k + 1
      BY <2>3, <2>4, <3>1
    <3>2. CASE j \in 0 .. k
      <4>1. f[j] <= f[k] /\ f[j] \in Nat
        BY <1>1, <1>4, <2>1, <2>2, <3>2
      <4>. QED  BY <2>3, <2>4, <2>5, <4>1
    <3>. QED  BY <3>1, <3>2
  <2>. QED  BY <2>5, <2>6
<1>. HIDE DEF S
<1>8. Nat \subseteq S
  BY <1>6, <1>7, Induction
<1>9. \A k \in 0 .. N : f[k] + part(k) <= P /\ \A j \in 0 .. k : f[j] <= f[k]
  BY <1>1, <1>8 DEF S
<1>10. /\ o \in 0 .. N /\ o + 1 \in 1 .. N /\ o + 1 \in 0 .. N /\ (o + 1) - 1 = o
       /\ \A r \in 0 .. MAX_ORDER - 2 : o < r => r \in 0 .. N /\ o + 1 \in 0 .. r
  BY <1>1 DEF N
<1>11. f[o] \in Nat /\ part(o + 1) \in Nat /\ f[o + 1] = f[o] + part(o + 1)
  BY <1>2, <1>4, <1>10
<1>12. f[o] + part(o + 1) <= P
  BY <1>1, <1>9, <1>10, <1>11
<1>13. ASSUME NEW r \in 0 .. MAX_ORDER - 2, o < r
       PROVE  f[o] + part(o + 1) <= f[r]
  BY <1>9, <1>10, <1>11, <1>13
<1>. QED  BY <1>11, <1>12, <1>13 DEF f, P, part, Pairs

(***************************************************************************)
(* The shared bitmap holds the bits of every order, each at a place of its *)
(* own.                                                                    *)
(***************************************************************************)
\* get_bit_index stays inside the bitmap.
LEMMA BitIndex ==
  ASSUME NEW p \in Pages, NEW o \in 0 .. MAX_ORDER - 2
  PROVE  /\ p \div 2^(o + 1) \in 0 .. Pairs(o) - 1
         /\ p \div 2^(o + 1) \in Pages
         /\ get_bit_index(p, o) \in Pages
<1>. DEFINE d == 2^(o + 1)  i == p \div d  k == MAX_PAGES \div d
<1>1. p \in Nat /\ MAX_PAGES \in Nat /\ p < MAX_PAGES
  BY BitmapAssumption DEF Pages
<1>2. o + 1 \in 0 .. MAX_ORDER - 1 /\ o + 1 \in 0 .. MAX_ORDER
  BY BitmapAssumption
<1>3. d \in Nat \ {0} /\ MAX_PAGES % d = 0
  BY <1>2, PowersOfTwo, WholeBlocks
<1>4. k = Pairs(o)
  BY DEF Pairs
<1>5. order_offset[o] \in Nat /\ Pairs(o) \in Nat /\ order_offset[o] + Pairs(o) <= MAX_PAGES
  BY OffsetFacts
<1>6. get_bit_index(p, o) = order_offset[o] + i
  BY DEF get_bit_index
<1>. HIDE DEF d
<1>7. /\ i \in Nat /\ i * d \in Nat /\ i * d <= p
      /\ k \in Nat /\ k * d \in Nat /\ MAX_PAGES = k * d
  <2>1. /\ p \div d \in Nat /\ p % d \in 0 .. d - 1
        /\ (p \div d) * d \in Nat /\ p = (p \div d) * d + (p % d)
    BY <1>1, <1>3, DivMod
  <2>2. /\ MAX_PAGES \div d \in Nat /\ (MAX_PAGES \div d) * d \in Nat
        /\ MAX_PAGES = (MAX_PAGES \div d) * d + (MAX_PAGES % d)
    BY <1>1, <1>3, DivMod
  <2>3. (p \div d) * d <= p
    BY <1>3, <2>1
  <2>4. MAX_PAGES = (MAX_PAGES \div d) * d
    BY <1>3, <2>2
  <2>. QED  BY <2>1, <2>2, <2>3, <2>4
<1>. HIDE DEF i, k
<1>8. i < k
  <2>1. i * d < k * d
    BY <1>1, <1>7
  <2>. QED  BY <1>3, <1>7, <2>1, DropFactor
<1>9. i \in 0 .. Pairs(o) - 1 /\ i \in Pages /\ order_offset[o] + i \in Pages
  BY <1>1, <1>4, <1>5, <1>7, <1>8 DEF Pages
<1>. QED  BY <1>6, <1>9 DEF i, d

\* No two pairs share a bit.
LEMMA BitApart ==
  ASSUME NEW o \in 0 .. MAX_ORDER - 2, NEW r \in 0 .. MAX_ORDER - 2,
         NEW i \in 0 .. Pairs(o) - 1, NEW j \in 0 .. Pairs(r) - 1,
         order_offset[o] + i = order_offset[r] + j
  PROVE  o = r /\ i = j
<1>1. /\ order_offset[o] \in Nat /\ Pairs(o) \in Nat
      /\ o < r => order_offset[o] + Pairs(o) <= order_offset[r]
  BY OffsetFacts
<1>2. /\ order_offset[r] \in Nat /\ Pairs(r) \in Nat
      /\ r < o => order_offset[r] + Pairs(r) <= order_offset[o]
  BY OffsetFacts
<1>3. ~(o < r) /\ ~(r < o)
  BY <1>1, <1>2
<1>4. o = r
  BY <1>3
<1>. QED  BY <1>1, <1>4

\* PairBits of a given bitmap.
BitsOf(b) ==
  [o \in Orders |-> [i \in Pages |->
     /\ o < MAX_ORDER - 1
     /\ i < Pairs(o)
     /\ b[order_offset[o] + i]]]

\* Flipping the bit of a pair, order by order.
Flipped(bits, p, o) ==
  [bits EXCEPT ![o][p \div 2^(o + 1)] = ~@]

LEMMA BitsToggled ==
  ASSUME NEW b \in [Pages -> BOOLEAN], NEW p \in Pages, NEW o \in 0 .. MAX_ORDER - 2
  PROVE  /\ BitsOf([b EXCEPT ![get_bit_index(p, o)] = ~@]) = Flipped(BitsOf(b), p, o)
         /\ BitsOf(b)[o][p \div 2^(o + 1)] = b[get_bit_index(p, o)]
<1>. DEFINE q == p \div 2^(o + 1)  g == get_bit_index(p, o)
            c == [b EXCEPT ![g] = ~@]
<1>1. q \in 0 .. Pairs(o) - 1 /\ q \in Pages /\ g \in Pages /\ g = order_offset[o] + q
  BY BitIndex DEF get_bit_index
<1>2. o \in Orders /\ o < MAX_ORDER - 1 /\ MAX_ORDER \in Nat
  BY BitmapAssumption DEF Orders
<1>. HIDE DEF q, g
<1>3. \A r \in Orders, i \in Pages :
        BitsOf(b)[r][i] = (r < MAX_ORDER - 1 /\ i < Pairs(r) /\ b[order_offset[r] + i])
  BY DEF BitsOf
<1>4. \A r \in Orders, i \in Pages :
        BitsOf(c)[r][i] = (r < MAX_ORDER - 1 /\ i < Pairs(r) /\ c[order_offset[r] + i])
  BY DEF BitsOf
<1>5. q < Pairs(o)
  BY <1>1, OffsetFacts
<1>6. BitsOf(b)[o][q] = b[g]
  <2>1. BitsOf(b)[o][q] = (o < MAX_ORDER - 1 /\ q < Pairs(o) /\ b[order_offset[o] + q])
    BY <1>1, <1>2, <1>3
  <2>2. b[g] \in BOOLEAN
    BY <1>1
  <2>. QED  BY <1>1, <1>2, <1>5, <2>1, <2>2
<1>. DEFINE F == [r \in Orders |-> [i \in Pages |->
                    IF r = o /\ i = q THEN ~b[g] ELSE BitsOf(b)[r][i]]]
<1>7. Flipped(BitsOf(b), p, o) = F
  <2>. DEFINE B == BitsOf(b)
  <2>1. B = [r \in Orders |-> B[r]] /\ \A r \in Orders : B[r] = [i \in Pages |-> B[r][i]]
    BY DEF BitsOf
  <2>. HIDE DEF B
  <2>2. [B EXCEPT ![o][q] = ~@]
          = [r \in Orders |-> IF r = o THEN [B[o] EXCEPT ![q] = ~@] ELSE B[r]]
    BY <2>1
  <2>3. [B[o] EXCEPT ![q] = ~@] = [i \in Pages |-> IF i = q THEN ~B[o][q] ELSE B[o][i]]
    BY <1>2, <2>1
  <2>4. \A r \in Orders : [i \in Pages |-> IF r = o /\ i = q THEN ~b[g] ELSE B[r][i]]
                           = IF r = o THEN [B[o] EXCEPT ![q] = ~@] ELSE B[r]
    <3>. SUFFICES ASSUME NEW r \in Orders
                  PROVE  [i \in Pages |-> IF r = o /\ i = q THEN ~b[g] ELSE B[r][i]]
                           = IF r = o THEN [B[o] EXCEPT ![q] = ~@] ELSE B[r]
      OBVIOUS
    <3>0. B[o][q] = b[g]
      BY <1>6 DEF B
    <3>1. CASE r = o
      BY <2>3, <3>0, <3>1
    <3>2. CASE r # o
      BY <2>1, <3>2
    <3>. QED  BY <3>1, <3>2
  <2>. QED  BY <2>2, <2>4 DEF Flipped, B, q
<1>8. ASSUME NEW r \in Orders, NEW i \in Pages
      PROVE  BitsOf(c)[r][i] = IF r = o /\ i = q THEN ~b[g] ELSE BitsOf(b)[r][i]
  <2>1. CASE r = o /\ i = q
    <3>1. c[order_offset[o] + q] = ~b[g] /\ (~b[g]) \in BOOLEAN
      BY <1>1
    <3>. QED  BY <1>2, <1>4, <1>5, <2>1, <3>1
  <2>2. CASE ~(r = o /\ i = q)
    <3>1. CASE r < MAX_ORDER - 1 /\ i < Pairs(r)
      <4>1. r \in 0 .. MAX_ORDER - 2
        BY <1>2, <3>1 DEF Orders
      <4>2. i \in 0 .. Pairs(r) - 1 /\ order_offset[r] \in Nat /\ Pairs(r) \in Nat
            /\ order_offset[r] + Pairs(r) <= MAX_PAGES
        BY <3>1, <4>1, OffsetFacts DEF Pages
      <4>3. order_offset[r] + i \in Pages
        BY <4>2, BitmapAssumption DEF Pages
      <4>4. order_offset[r] + i # g
        <5>1. ASSUME order_offset[r] + i = order_offset[o] + q PROVE r = o /\ i = q
          BY <1>1, <4>1, <4>2, <5>1, BitApart
        <5>. QED  BY <1>1, <2>2, <5>1
      <4>5. c[order_offset[r] + i] = b[order_offset[r] + i]
        BY <4>3, <4>4
      <4>6. BitsOf(c)[r][i] = (r < MAX_ORDER - 1 /\ i < Pairs(r) /\ b[order_offset[r] + i])
        BY <1>4, <4>5
      <4>7. BitsOf(c)[r][i] = BitsOf(b)[r][i]
        BY <1>3, <4>6
      <4>. QED  BY <2>2, <4>7
    <3>2. CASE ~(r < MAX_ORDER - 1 /\ i < Pairs(r))
      <4>1. BitsOf(c)[r][i] = FALSE /\ BitsOf(b)[r][i] = FALSE
        BY <1>3, <1>4, <3>2
      <4>. QED  BY <2>2, <4>1
    <3>. QED  BY <3>1, <3>2
  <2>. QED  BY <2>1, <2>2
<1>9. BitsOf(c) = F
  <2>. DEFINE C == BitsOf(c)
  <2>1. C = [r \in Orders |-> [i \in Pages |-> C[r][i]]]
    BY DEF BitsOf
  <2>2. \A r \in Orders, i \in Pages :
          C[r][i] = IF r = o /\ i = q THEN ~b[g] ELSE BitsOf(b)[r][i]
    BY <1>8
  <2>. HIDE DEF C, c
  <2>. QED  BY <2>1, <2>2 DEF C
<1>. QED  BY <1>6, <1>7, <1>9 DEF q, g

(***************************************************************************)
(* The lists.                                                              *)
(***************************************************************************)
LinksOK ==
  /\ next \in Frame /\ prev \in Frame
  /\ free_lists \in [Orders -> Pages \union {None}]
  /\ \A o \in Orders : \E L, n : Chain(L, n, free_lists[o], next, prev)

NextOK == next \in Frame

\* ListSets has the blocks of the chains.
SetsOK ==
  /\ ListSets = [o \in Orders |-> ListSets[o]]
  /\ \A o \in Orders : \A L, n :
       Chain(L, n, free_lists[o], next, prev) => ListSets[o] = On(L, n)

LEMMA SetsFromChains == NextOK => SetsOK
<1>. SUFFICES ASSUME NextOK PROVE SetsOK
  OBVIOUS
<1>1. ListSets = [o \in Orders |-> ListSets[o]]
  BY DEF ListSets
<1>2. ASSUME NEW o \in Orders, NEW L, NEW n, Chain(L, n, free_lists[o], next, prev)
      PROVE  ListSets[o] = On(L, n)
  <2>1. next \in Frame
    BY DEF NextOK
  <2>2. Listed(o) = On(L, n) \union {None}
    BY <1>2, <2>1, ChainListed DEF Listed
  <2>3. None \notin On(L, n)
    <3>1. L \in [1 .. n -> Pages] /\ None \notin Pages
      BY <1>2, PointerAssumption DEF Chain, Pages
    <3>. QED  BY <3>1 DEF On
  <2>. QED  BY <2>2, <2>3 DEF ListSets
<1>. QED  BY <1>1, <1>2 DEF SetsOK

LEMMA SetsFromChainsNext == NextOK' => SetsOK'
  BY SetsFromChains, PTL

\* The lists of two orders share no block.
SetsApart == \A r, s \in Orders : r # s => ListSets[r] \intersect ListSets[s] = {}

\* push_free of a block that is on no list.
LEMMA PushStep ==
  ASSUME LinksOK, SetsApart, NEW p \in Pages, NEW o \in Orders,
         \A r \in Orders : p \notin ListSets[r], push_free(p, o)
  PROVE  LinksOK' /\ ListSets' = [ListSets EXCEPT ![o] = @ \union {p}]
<1>. DEFINE h == free_lists[o]
            nx == PushedNext(next, h, p)  pv == PushedPrev(prev, h, p)
<1>1. next \in Frame /\ prev \in Frame /\ free_lists \in [Orders -> Pages \union {None}]
  BY DEF LinksOK
<1>2. SetsOK
  BY <1>1, SetsFromChains DEF NextOK
<1>3. next' = nx /\ prev' = pv /\ free_lists' = [free_lists EXCEPT ![o] = p]
  BY DEF push_free, PushedNext, PushedPrev
<1>4. PICK L, n : Chain(L, n, h, next, prev)
  BY DEF LinksOK
<1>5. On(L, n) = ListSets[o] /\ p \notin On(L, n)
  BY <1>2, <1>4 DEF SetsOK
<1>6. /\ \E M, m : Chain(M, m, p, nx, pv) /\ On(M, m) = On(L, n) \union {p}
      /\ nx \in Frame /\ pv \in Frame
      /\ \A q \in Pages : q \notin On(L, n) /\ q # p => nx[q] = next[q] /\ pv[q] = prev[q]
  <2>1. /\ next \in Frame /\ prev \in Frame /\ Chain(L, n, h, next, prev)
        /\ p \in Pages /\ p \notin On(L, n)
    BY <1>1, <1>4, <1>5
  <2>. HIDE DEF h
  <2>. QED  BY ONLY <2>1, ChainPush DEF nx, pv
<1>. HIDE DEF nx, pv
<1>7. \A r \in Orders : free_lists'[r] = IF r = o THEN p ELSE free_lists[r]
  BY <1>1, <1>3
<1>8. free_lists' \in [Orders -> Pages \union {None}]
  BY <1>1, <1>3
<1>9. ASSUME NEW r \in Orders
      PROVE  \E M, m : /\ Chain(M, m, free_lists'[r], next', prev')
                       /\ On(M, m) = IF r = o THEN ListSets[o] \union {p} ELSE ListSets[r]
  <2>1. CASE r = o
    BY <1>3, <1>5, <1>6, <1>7, <2>1
  <2>2. CASE r # o
    <3>1. PICK M, m : Chain(M, m, free_lists[r], next, prev)
      BY DEF LinksOK
    <3>2. On(M, m) = ListSets[r]
      BY <1>2, <3>1 DEF SetsOK
    <3>3. \A q \in On(M, m) : q \in Pages
      BY <3>1 DEF Chain, On
    <3>4. \A q \in On(M, m) : q \notin On(L, n) /\ q # p
      BY <1>5, <2>2, <3>2 DEF SetsApart
    <3>5. \A q \in On(M, m) : next'[q] = next[q] /\ prev'[q] = prev[q]
      BY <1>3, <1>6, <3>3, <3>4
    <3>6. Chain(M, m, free_lists[r], next', prev')
      BY <3>1, <3>5, ChainKept
    <3>. QED  BY <1>7, <2>2, <3>2, <3>6
  <2>. QED  BY <2>1, <2>2
<1>10. LinksOK'
  BY <1>3, <1>6, <1>8, <1>9 DEF LinksOK
<1>11. SetsOK'
  BY <1>3, <1>6, SetsFromChainsNext DEF NextOK
<1>12. \A r \in Orders : ListSets'[r] = IF r = o THEN ListSets[o] \union {p} ELSE ListSets[r]
  BY <1>9, <1>11 DEF SetsOK
<1>13. ListSets' = [r \in Orders |-> ListSets'[r]] /\ ListSets = [r \in Orders |-> ListSets[r]]
  BY <1>2, <1>11 DEF SetsOK
<1>. QED  BY <1>10, <1>12, <1>13

\* remove_frame of a block that is on the list.
LEMMA RemoveStep ==
  ASSUME LinksOK, SetsApart, NEW o \in Orders, NEW p \in ListSets[o], remove_frame(p, o)
  PROVE  LinksOK' /\ ListSets' = [ListSets EXCEPT ![o] = @ \ {p}]
<1>. DEFINE h == free_lists[o]
            nx == CutNext(next, prev, p)  pv == CutPrev(next, prev, p)
            hd == CutHead(next, prev, h, p)
<1>1. next \in Frame /\ prev \in Frame /\ free_lists \in [Orders -> Pages \union {None}]
  BY DEF LinksOK
<1>2. SetsOK
  BY <1>1, SetsFromChains DEF NextOK
<1>3. next' = nx /\ prev' = pv
  BY DEF remove_frame, CutNext, CutPrev
<1>4. PICK L, n : Chain(L, n, h, next, prev)
  BY DEF LinksOK
<1>5. On(L, n) = ListSets[o] /\ p \in On(L, n)
  BY <1>2, <1>4 DEF SetsOK
<1>6. /\ \E M, m : Chain(M, m, hd, nx, pv) /\ On(M, m) = On(L, n) \ {p}
      /\ nx \in Frame /\ pv \in Frame
      /\ \A q \in Pages : q \notin On(L, n) => nx[q] = next[q] /\ pv[q] = prev[q]
  <2>1. next \in Frame /\ prev \in Frame /\ Chain(L, n, h, next, prev) /\ p \in On(L, n)
    BY <1>1, <1>4, <1>5
  <2>. HIDE DEF h
  <2>2. Unlinks(L, n, h, next, prev, p)
    BY ONLY <2>1, ChainRemove
  <2>. QED  BY ONLY <2>2 DEF nx, pv, hd, Unlinks
<1>7. \A r \in Orders : free_lists'[r] = IF r = o THEN hd ELSE free_lists[r]
  <2>1. CASE prev[p] = None
    <3>1. free_lists' = [free_lists EXCEPT ![o] = next[p]] /\ hd = next[p]
      BY <2>1 DEF remove_frame, CutHead
    <3>. QED  BY <1>1, <3>1
  <2>2. CASE prev[p] # None
    <3>1. free_lists' = free_lists /\ hd = free_lists[o]
      BY <2>2 DEF remove_frame, CutHead
    <3>. QED  BY <1>1, <3>1
  <2>. QED  BY <2>1, <2>2
<1>8. free_lists' \in [Orders -> Pages \union {None}]
  <2>1. hd \in Pages \union {None}
    <3>1. PICK M, m : Chain(M, m, hd, nx, pv)
      BY <1>6
    <3>. HIDE DEF hd, nx, pv
    <3>2. m \in Nat /\ M \in [1 .. m -> Pages] /\ hd = IF m = 0 THEN None ELSE M[1]
      BY <3>1 DEF Chain
    <3>. QED  BY <3>2
  <2>2. free_lists' = [r \in Orders |-> free_lists'[r]]
    BY <1>1 DEF remove_frame
  <2>. QED  BY <1>1, <1>7, <2>1, <2>2
<1>. HIDE DEF nx, pv, hd
<1>9. ASSUME NEW r \in Orders
      PROVE  \E M, m : /\ Chain(M, m, free_lists'[r], next', prev')
                       /\ On(M, m) = IF r = o THEN ListSets[o] \ {p} ELSE ListSets[r]
  <2>1. CASE r = o
    BY <1>3, <1>5, <1>6, <1>7, <2>1
  <2>2. CASE r # o
    <3>1. PICK M, m : Chain(M, m, free_lists[r], next, prev)
      BY DEF LinksOK
    <3>2. On(M, m) = ListSets[r]
      BY <1>2, <3>1 DEF SetsOK
    <3>3. \A q \in On(M, m) : q \in Pages
      BY <3>1 DEF Chain, On
    <3>4. \A q \in On(M, m) : q \notin On(L, n)
      BY <1>5, <2>2, <3>2 DEF SetsApart
    <3>5. \A q \in On(M, m) : next'[q] = next[q] /\ prev'[q] = prev[q]
      BY <1>3, <1>6, <3>3, <3>4
    <3>6. Chain(M, m, free_lists[r], next', prev')
      BY <3>1, <3>5, ChainKept
    <3>. QED  BY <1>7, <2>2, <3>2, <3>6
  <2>. QED  BY <2>1, <2>2
<1>10. LinksOK'
  BY <1>3, <1>6, <1>8, <1>9 DEF LinksOK
<1>11. SetsOK'
  BY <1>3, <1>6, SetsFromChainsNext DEF NextOK
<1>12. \A r \in Orders : ListSets'[r] = IF r = o THEN ListSets[o] \ {p} ELSE ListSets[r]
  BY <1>9, <1>11 DEF SetsOK
<1>13. ListSets' = [r \in Orders |-> ListSets'[r]] /\ ListSets = [r \in Orders |-> ListSets[r]]
  BY <1>2, <1>11 DEF SetsOK
<1>. QED  BY <1>10, <1>12, <1>13

\* A step that writes to no listed block changes no list.
LEMMA KeptStep ==
  ASSUME LinksOK, next' \in Frame, prev' \in Frame, free_lists' = free_lists,
         \A r \in Orders : \A q \in ListSets[r] : next'[q] = next[q] /\ prev'[q] = prev[q]
  PROVE  LinksOK' /\ ListSets' = ListSets
<1>1. SetsOK /\ SetsOK'
  BY SetsFromChains, SetsFromChainsNext DEF NextOK, LinksOK
<1>2. ASSUME NEW r \in Orders
      PROVE  \E M, m : /\ Chain(M, m, free_lists'[r], next', prev')
                       /\ On(M, m) = ListSets[r]
  <2>1. PICK M, m : Chain(M, m, free_lists[r], next, prev)
    BY DEF LinksOK
  <2>2. On(M, m) = ListSets[r]
    BY <1>1, <2>1 DEF SetsOK
  <2>3. Chain(M, m, free_lists[r], next', prev')
    BY <2>1, <2>2, ChainKept
  <2>. QED  BY <2>2, <2>3
<1>3. LinksOK'
  BY <1>2 DEF LinksOK
<1>4. \A r \in Orders : ListSets'[r] = ListSets[r]
  BY <1>1, <1>2 DEF SetsOK
<1>5. ListSets' = [r \in Orders |-> ListSets'[r]] /\ ListSets = [r \in Orders |-> ListSets[r]]
  BY <1>1 DEF SetsOK
<1>. QED  BY <1>3, <1>4, <1>5

(***************************************************************************)
(* The abstract allocator and what is proved about it.                     *)
(***************************************************************************)
P == INSTANCE BuddyProofs WITH free_lists <- ListSets, bitmap <- PairBits

LInv == P!IInv /\ LinksOK /\ bitmap \in [Pages -> BOOLEAN]

LEMMA AbstractAssumptions == P!ConstantsAssumption /\ P!PowersOfTwo
  BY BitmapAssumption, PowersOfTwo DEF P!ConstantsAssumption, P!PowersOfTwo

\* The facts of the abstract allocator that the steps rely on.
LEMMA AbstractTypes ==
  ASSUME LInv
  PROVE  /\ ptr \in Pages /\ order \in 0 .. MAX_ORDER /\ want \in 0 .. MAX_ORDER
         /\ op \in {"split", "dealloc"} => order \in Orders
         /\ op \in {"alloc", "split"} => want <= order
         /\ used \subseteq Pages \X Orders
         /\ \A o \in Orders : ListSets[o] \subseteq Pages
<1>1. P!TypeOK
  BY DEF LInv, P!IInv
<1>. QED  BY <1>1 DEF P!TypeOK, P!Pages, P!Orders, Pages, Orders

LEMMA AbstractApart ==
  ASSUME LInv
  PROVE  SetsApart
<1>1. P!IInv
  BY DEF LInv
<1>2. \A r, s \in P!Orders : r # s => ListSets[r] \intersect ListSets[s] = {}
  BY <1>1, AbstractAssumptions, P!FreeListsApart
<1>. QED  BY <1>2 DEF SetsApart, P!Orders, Orders

LEMMA AbstractFlight ==
  ASSUME LInv, op \in {"split", "dealloc"}, NEW r \in Orders, NEW x \in Pages,
         ptr <= x, x < ptr + 2^order
  PROVE  x \notin ListSets[r]
<1>1. P!IInv
  BY DEF LInv
<1>2. \A s \in P!Orders : \A y \in P!Pages :
        ptr <= y /\ y < ptr + 2^order => y \notin ListSets[s]
  BY <1>1, AbstractAssumptions, P!FlightUnlisted
<1>. QED  BY <1>2 DEF P!Orders, Orders, P!Pages, Pages

LEMMA AbstractSplit ==
  ASSUME LInv, op = "split", order > want
  PROVE  /\ order - 1 \in Orders
         /\ calculate_buddy_address(ptr, order - 1) \in Pages
         /\ ptr <= calculate_buddy_address(ptr, order - 1)
         /\ calculate_buddy_address(ptr, order - 1) < ptr + 2^order
<1>1. P!IInv
  BY DEF LInv
<1>2. /\ order - 1 \in P!Orders
      /\ P!calculate_buddy_address(ptr, order - 1) \in P!Pages
      /\ ptr <= P!calculate_buddy_address(ptr, order - 1)
      /\ P!calculate_buddy_address(ptr, order - 1) < ptr + 2^order
  BY <1>1, AbstractAssumptions, P!SplitBuddy
<1>3. P!calculate_buddy_address(ptr, order - 1) = calculate_buddy_address(ptr, order - 1)
  BY DEF P!calculate_buddy_address, calculate_buddy_address
<1>. QED  BY <1>2, <1>3 DEF P!Orders, Orders, P!Pages, Pages

\* The bit of a pair, flat and order by order.
LEMMA AbstractBits ==
  ASSUME LInv, NEW p \in Pages, NEW o \in 0 .. MAX_ORDER - 2
  PROVE  /\ P!Bit(p, o) = bitmap[get_bit_index(p, o)]
         /\ bitmap[get_bit_index(p, o)] \in BOOLEAN
         /\ bitmap' = toggled(p, o) =>
              PairBits' = P!toggle_bit(p, o) /\ bitmap' \in [Pages -> BOOLEAN]
<1>1. bitmap \in [Pages -> BOOLEAN] /\ get_bit_index(p, o) \in Pages
  BY BitIndex DEF LInv
<1>2. /\ BitsOf([bitmap EXCEPT ![get_bit_index(p, o)] = ~@]) = Flipped(BitsOf(bitmap), p, o)
      /\ BitsOf(bitmap)[o][p \div 2^(o + 1)] = bitmap[get_bit_index(p, o)]
  BY <1>1, BitsToggled
<1>3. PairBits = BitsOf(bitmap) /\ PairBits' = BitsOf(bitmap')
  BY DEF PairBits, BitsOf, Pairs
<1>4. P!Bit(p, o) = bitmap[get_bit_index(p, o)]
  BY <1>2, <1>3 DEF P!Bit, P!pair_index
<1>5. ASSUME bitmap' = toggled(p, o)
      PROVE  PairBits' = P!toggle_bit(p, o) /\ bitmap' \in [Pages -> BOOLEAN]
  <2>1. bitmap' = [bitmap EXCEPT ![get_bit_index(p, o)] = ~@]
    BY <1>5 DEF toggled
  <2>2. PairBits' = Flipped(PairBits, p, o)
    BY <1>2, <1>3, <2>1
  <2>3. o < MAX_ORDER - 1
    BY BitmapAssumption
  <2>4. P!toggle_bit(p, o) = Flipped(PairBits, p, o)
    BY <2>3 DEF P!toggle_bit, P!pair_index, Flipped
  <2>5. bitmap' \in [Pages -> BOOLEAN]
    BY <1>1, <2>1
  <2>. QED  BY <2>2, <2>4, <2>5
<1>. QED  BY <1>1, <1>4, <1>5

LEMMA BitsKept ==
  ASSUME bitmap' = bitmap
  PROVE  PairBits' = PairBits
<1>1. PairBits = BitsOf(bitmap) /\ PairBits' = BitsOf(bitmap')
  BY DEF PairBits, BitsOf, Pairs
<1>. QED  BY <1>1

\* The head of a list is on it.
LEMMA HeadListed ==
  ASSUME LInv, NEW o \in Orders
  PROVE  /\ free_lists[o] = None => ListSets[o] = {}
         /\ free_lists[o] # None => free_lists[o] \in ListSets[o] /\ ListSets[o] # {}
<1>1. SetsOK
  BY SetsFromChains DEF LInv, LinksOK, NextOK
<1>2. PICK L, n : Chain(L, n, free_lists[o], next, prev)
  BY DEF LInv, LinksOK
<1>3. ListSets[o] = On(L, n)
  BY <1>1, <1>2 DEF SetsOK
<1>4. /\ n \in Nat /\ L \in [1 .. n -> Pages]
      /\ free_lists[o] = IF n = 0 THEN None ELSE L[1]
  BY <1>2 DEF Chain
<1>5. CASE n = 0
  BY <1>3, <1>4, <1>5 DEF On
<1>6. CASE n # 0
  <2>1. 1 \in 1 .. n
    BY <1>4, <1>6
  <2>2. L[1] \in Pages /\ L[1] # None
    BY <1>4, <2>1, PointerAssumption DEF Pages
  <2>3. L[1] \in On(L, n)
    BY <2>1 DEF On
  <2>. QED  BY <1>3, <1>4, <1>6, <2>2, <2>3
<1>. QED  BY <1>5, <1>6

(***************************************************************************)
(* Every step is a step of the abstract allocator.                         *)
(***************************************************************************)
Kept == LinksOK' /\ bitmap' \in [Pages -> BOOLEAN]

\* A step that leaves the lists and the bitmap alone.
LEMMA StillLists ==
  ASSUME LInv, UNCHANGED <<lists, bitmap>>
  PROVE  Kept /\ ListSets' = ListSets /\ PairBits' = PairBits
<1>1. next' = next /\ prev' = prev /\ free_lists' = free_lists /\ bitmap' = bitmap
  BY DEF lists
<1>2. LinksOK /\ next' \in Frame /\ prev' \in Frame /\ bitmap' \in [Pages -> BOOLEAN]
  BY <1>1 DEF LInv, LinksOK
<1>3. LinksOK' /\ ListSets' = ListSets
  BY <1>1, <1>2, KeptStep
<1>. QED  BY <1>1, <1>2, <1>3, BitsKept DEF Kept

LEMMA AllocStep ==
  ASSUME LInv, NEW o \in 0 .. MAX_ORDER, Alloc(o)
  PROVE  Kept /\ P!Alloc(o)
<1>1. Kept /\ ListSets' = ListSets /\ PairBits' = PairBits
  BY StillLists DEF Alloc
<1>. QED  BY <1>1 DEF Alloc, Call, P!Alloc, P!Call

LEMMA DeallocStep ==
  ASSUME LInv, NEW p \in Pages, NEW o \in Orders, Dealloc(p, o)
  PROVE  Kept /\ P!Dealloc(p, o)
<1>1. Kept /\ ListSets' = ListSets /\ PairBits' = PairBits
  BY StillLists DEF Dealloc
<1>. QED  BY <1>1 DEF Dealloc, Call, P!Dealloc, P!Call

LEMMA AddFrameStep ==
  ASSUME LInv, NEW f \in Frames, AddFrame(f)
  PROVE  Kept /\ P!AddFrame(f)
<1>1. Kept /\ ListSets' = ListSets /\ PairBits' = PairBits
  BY StillLists DEF AddFrame
<1>. QED  BY <1>1 DEF AddFrame, Call, InRange, P!AddFrame, P!Call, P!InRange

LEMMA AllocNoneStep ==
  ASSUME LInv, AllocNone
  PROVE  Kept /\ P!AllocNone
<1>1. Kept /\ ListSets' = ListSets /\ PairBits' = PairBits
  BY StillLists DEF AllocNone
<1>. QED  BY <1>1 DEF AllocNone, Return, P!AllocNone, P!Return

LEMMA AllocSearchStep ==
  ASSUME LInv, AllocSearch
  PROVE  Kept /\ P!AllocSearch
<1>1. Kept /\ ListSets' = ListSets /\ PairBits' = PairBits
  BY StillLists DEF AllocSearch
<1>2. order \in Orders
  BY AbstractTypes, BitmapAssumption DEF AllocSearch, Orders
<1>3. ListSets[order] = {}
  BY <1>2, HeadListed DEF AllocSearch
<1>. QED  BY <1>1, <1>3 DEF AllocSearch, Call, P!AllocSearch, P!Call

LEMMA AllocTakeStep ==
  ASSUME LInv, AllocTake
  PROVE  Kept /\ P!AllocTake
<1>. DEFINE h == free_lists[order]
<1>1. order \in Orders
  BY AbstractTypes, BitmapAssumption DEF AllocTake, Orders
<1>2. h \in ListSets[order] /\ h \in Pages
  BY <1>1, HeadListed, AbstractTypes DEF AllocTake
<1>3. LinksOK' /\ ListSets' = [ListSets EXCEPT ![order] = @ \ {h}]
  <2>1. LinksOK /\ SetsApart /\ remove_frame(h, order)
    BY AbstractApart DEF LInv, AllocTake
  <2>. HIDE DEF h
  <2>. QED  BY <1>1, <1>2, <2>1, RemoveStep
<1>4. PairBits' = P!toggle_bit(h, order) /\ bitmap' \in [Pages -> BOOLEAN]
  <2>1. CASE order < MAX_ORDER - 1
    <3>1. order \in 0 .. MAX_ORDER - 2
      BY <1>1, <2>1, BitmapAssumption DEF Orders
    <3>2. bitmap' = toggled(h, order)
      BY <2>1 DEF AllocTake
    <3>. HIDE DEF h
    <3>. QED  BY <1>2, <3>1, <3>2, AbstractBits
  <2>2. CASE ~(order < MAX_ORDER - 1)
    <3>1. bitmap' = bitmap
      BY <2>2 DEF AllocTake
    <3>2. PairBits' = PairBits /\ bitmap' \in [Pages -> BOOLEAN]
      BY <3>1, BitsKept DEF LInv
    <3>. QED  BY <2>2, <3>2 DEF P!toggle_bit
  <2>. QED  BY <2>1, <2>2
<1>5. P!AllocTake
  <2>1. /\ op = "alloc" /\ order < MAX_ORDER /\ used' = used /\ fed' = fed
        /\ op' = "split" /\ ptr' = h /\ order' = order /\ want' = want
    BY DEF AllocTake, Call
  <2>2. ListSets' = P!remove_frame(h, order)
    BY <1>3 DEF P!remove_frame
  <2>. HIDE DEF h
  <2>. QED  BY <1>2, <1>4, <2>1, <2>2 DEF P!AllocTake, P!Call
<1>. QED  BY <1>3, <1>4, <1>5 DEF Kept

LEMMA AllocSplitStep ==
  ASSUME LInv, AllocSplit
  PROVE  Kept /\ P!AllocSplit
<1>. DEFINE o == order - 1  buddy == calculate_buddy_address(ptr, o)
<1>1. op = "split" /\ order > want /\ bitmap' = toggled(ptr, o) /\ push_free(buddy, o)
      /\ used' = used /\ fed' = fed
      /\ op' = "split" /\ ptr' = ptr /\ order' = o /\ want' = want
  BY DEF AllocSplit, Call
<1>2. o \in Orders /\ buddy \in Pages /\ ptr <= buddy /\ buddy < ptr + 2^order
  BY <1>1, AbstractSplit
<1>3. ptr \in Pages /\ order \in Orders
  BY <1>1, AbstractTypes
<1>4. P!calculate_buddy_address(ptr, o) = buddy
  BY DEF P!calculate_buddy_address, calculate_buddy_address
<1>5. o \in 0 .. MAX_ORDER - 2
  BY <1>2, <1>3, BitmapAssumption DEF Orders
<1>. HIDE DEF o, buddy
<1>6. \A r \in Orders : buddy \notin ListSets[r]
  BY <1>1, <1>2, AbstractFlight
<1>7. LinksOK' /\ ListSets' = [ListSets EXCEPT ![o] = @ \union {buddy}]
  <2>1. LinksOK /\ SetsApart
    BY AbstractApart DEF LInv
  <2>. QED  BY <1>1, <1>2, <1>6, <2>1, PushStep
<1>8. PairBits' = P!toggle_bit(ptr, o) /\ bitmap' \in [Pages -> BOOLEAN]
  BY <1>1, <1>3, <1>5, AbstractBits
<1>9. ListSets' = P!push_free(P!calculate_buddy_address(ptr, o), o)
  BY <1>4, <1>7 DEF P!push_free
<1>10. P!AllocSplit
  BY <1>1, <1>8, <1>9 DEF P!AllocSplit, P!Call, o
<1>. QED  BY <1>7, <1>8, <1>10 DEF Kept

\* The caller writes only into the block it is given, which is on no list.
LEMMA AllocReturnStep ==
  ASSUME LInv, AllocReturn
  PROVE  Kept /\ P!AllocReturn
<1>. DEFINE Given == ptr .. ptr + 2^order - 1
<1>1. /\ op = "split" /\ order = want /\ used' = used \union {<<ptr, order>>}
      /\ next' = [p \in Pages |-> IF p \in Given THEN Junk ELSE next[p]]
      /\ prev' = [p \in Pages |-> IF p \in Given THEN Junk ELSE prev[p]]
      /\ free_lists' = free_lists /\ bitmap' = bitmap /\ fed' = fed
      /\ op' = "idle" /\ ptr' = 0 /\ order' = 0 /\ want' = 0
  BY DEF AllocReturn, Return
<1>2. ptr \in Pages /\ ptr \in Nat /\ order \in Orders /\ 2^order \in Nat
  <2>1. ptr \in Pages /\ order \in Orders
    BY <1>1, AbstractTypes
  <2>. QED  BY <2>1, PowersOfTwo, BitmapAssumption DEF Pages, Orders
<1>3. ASSUME NEW r \in Orders, NEW q \in ListSets[r]
      PROVE  next'[q] = next[q] /\ prev'[q] = prev[q]
  <2>1. q \in Pages /\ q \in Nat
    BY AbstractTypes DEF Pages
  <2>2. ~(ptr <= q /\ q < ptr + 2^order)
    BY <1>1, <2>1, AbstractFlight
  <2>3. q \notin Given
    BY <1>2, <2>1, <2>2
  <2>. QED  BY <1>1, <2>1, <2>3
<1>4. next' \in Frame /\ prev' \in Frame
  BY <1>1 DEF LInv, LinksOK, Frame, Links
<1>5. LinksOK' /\ ListSets' = ListSets
  <2>1. LinksOK /\ free_lists' = free_lists
    BY <1>1 DEF LInv
  <2>. QED  BY <1>3, <1>4, <2>1, KeptStep
<1>6. PairBits' = PairBits /\ bitmap' \in [Pages -> BOOLEAN]
  BY <1>1, BitsKept DEF LInv
<1>7. P!AllocReturn
  BY <1>1, <1>5, <1>6 DEF P!AllocReturn, P!Return
<1>. QED  BY <1>5, <1>6, <1>7 DEF Kept

\* Linking the block in flight, which is on no list.
LEMMA FlightPushed ==
  ASSUME LInv, op = "dealloc", push_free(ptr, order)
  PROVE  LinksOK' /\ ListSets' = P!push_free(ptr, order)
<1>1. ptr \in Pages /\ order \in Orders
  BY AbstractTypes
<1>2. 2^order \in Nat \ {0} /\ ptr \in Nat
  BY <1>1, PowersOfTwo, BitmapAssumption DEF Orders, Pages
<1>3. ptr <= ptr /\ ptr < ptr + 2^order
  BY <1>2
<1>4. \A r \in Orders : ptr \notin ListSets[r]
  BY <1>1, <1>3, AbstractFlight
<1>5. LinksOK /\ SetsApart
  BY AbstractApart DEF LInv
<1>6. LinksOK' /\ ListSets' = [ListSets EXCEPT ![order] = @ \union {ptr}]
  BY <1>1, <1>4, <1>5, PushStep
<1>. QED  BY <1>6 DEF P!push_free

LEMMA DeallocTopStep ==
  ASSUME LInv, DeallocTop
  PROVE  Kept /\ P!DeallocKeep
<1>1. /\ op = "dealloc" /\ InRange(ptr) /\ order >= MAX_ORDER - 1 /\ push_free(ptr, order)
      /\ bitmap' = bitmap /\ used' = used /\ fed' = fed
      /\ op' = "idle" /\ ptr' = 0 /\ order' = 0 /\ want' = 0
  BY DEF DeallocTop, Return
<1>2. LinksOK' /\ ListSets' = P!push_free(ptr, order)
  BY <1>1, FlightPushed
<1>3. PairBits' = PairBits /\ bitmap' \in [Pages -> BOOLEAN]
  BY <1>1, BitsKept DEF LInv
<1>4. order \in Int /\ MAX_ORDER \in Int
  BY AbstractTypes, BitmapAssumption
<1>5. PairBits' = P!toggle_bit(ptr, order)
  BY <1>1, <1>3, <1>4 DEF P!toggle_bit
<1>6. P!DeallocKeep
  BY <1>1, <1>2, <1>5 DEF P!DeallocKeep, P!Return, P!InRange, InRange
<1>. QED  BY <1>2, <1>3, <1>6 DEF Kept

LEMMA DeallocKeepStep ==
  ASSUME LInv, DeallocKeep
  PROVE  Kept /\ P!DeallocKeep
<1>1. /\ op = "dealloc" /\ InRange(ptr) /\ order < MAX_ORDER - 1
      /\ toggles_to(ptr, order) /\ bitmap' = toggled(ptr, order) /\ push_free(ptr, order)
      /\ used' = used /\ fed' = fed
      /\ op' = "idle" /\ ptr' = 0 /\ order' = 0 /\ want' = 0
  BY DEF DeallocKeep, Return
<1>2. LinksOK' /\ ListSets' = P!push_free(ptr, order)
  BY <1>1, FlightPushed
<1>3. ptr \in Pages /\ order \in 0 .. MAX_ORDER - 2
  BY <1>1, AbstractTypes, BitmapAssumption
<1>4. /\ P!Bit(ptr, order) = bitmap[get_bit_index(ptr, order)]
      /\ PairBits' = P!toggle_bit(ptr, order) /\ bitmap' \in [Pages -> BOOLEAN]
  BY <1>1, <1>3, AbstractBits
<1>5. ~P!Bit(ptr, order)
  BY <1>1, <1>4 DEF toggles_to
<1>6. P!DeallocKeep
  BY <1>1, <1>2, <1>4, <1>5 DEF P!DeallocKeep, P!Return, P!InRange, InRange
<1>. QED  BY <1>2, <1>4, <1>6 DEF Kept

\* The bit of the pair says that the buddy is on the list.
LEMMA DeallocMergeStep ==
  ASSUME LInv, DeallocMerge
  PROVE  Kept /\ P!DeallocMerge
<1>. DEFINE buddy == calculate_buddy_address(ptr, order)
<1>1. /\ op = "dealloc" /\ InRange(ptr) /\ order < MAX_ORDER - 1
      /\ ~toggles_to(ptr, order) /\ bitmap' = toggled(ptr, order) /\ remove_frame(buddy, order)
      /\ used' = used /\ fed' = fed
      /\ op' = "dealloc" /\ ptr' = (IF ptr < buddy THEN ptr ELSE buddy)
      /\ order' = order + 1 /\ want' = 0
  BY DEF DeallocMerge, Call
<1>2. ptr \in Pages /\ order \in 0 .. MAX_ORDER - 2 /\ order \in Orders
  BY <1>1, AbstractTypes, BitmapAssumption
<1>3. P!calculate_buddy_address(ptr, order) = buddy
  BY DEF P!calculate_buddy_address, calculate_buddy_address
<1>. HIDE DEF buddy
<1>4. /\ P!Bit(ptr, order) = bitmap[get_bit_index(ptr, order)]
      /\ bitmap[get_bit_index(ptr, order)] \in BOOLEAN
      /\ PairBits' = P!toggle_bit(ptr, order) /\ bitmap' \in [Pages -> BOOLEAN]
  BY <1>1, <1>2, AbstractBits
<1>5. P!Bit(ptr, order)
  BY <1>1, <1>4 DEF toggles_to
<1>6. buddy \in ListSets[order]
  <2>1. P!IInv
    BY DEF LInv
  <2>2. P!MergeFindsBuddy
    BY <2>1, AbstractAssumptions, P!MergeFindsBuddyFromInvariant
  <2>. QED  BY <1>1, <1>3, <1>5, <2>2 DEF P!MergeFindsBuddy
<1>7. LinksOK' /\ ListSets' = [ListSets EXCEPT ![order] = @ \ {buddy}]
  <2>1. LinksOK /\ SetsApart
    BY AbstractApart DEF LInv
  <2>. QED  BY <1>1, <1>2, <1>6, <2>1, RemoveStep
<1>8. ListSets' = P!remove_frame(buddy, order)
  BY <1>7 DEF P!remove_frame
<1>9. P!DeallocMerge
  BY <1>1, <1>3, <1>4, <1>5, <1>8 DEF P!DeallocMerge, P!Call, P!InRange, InRange
<1>. QED  BY <1>4, <1>7, <1>9 DEF Kept

LEMMA StepRefines ==
  ASSUME LInv, [Next]_vars
  PROVE  Kept /\ [P!Next]_P!vars
<1>1. ASSUME NEW f \in Frames, AddFrame(f) PROVE Kept /\ P!Next
  BY <1>1, AddFrameStep DEF P!Next
<1>2. ASSUME NEW o \in 0 .. MAX_ORDER, Alloc(o) PROVE Kept /\ P!Next
  BY <1>2, AllocStep DEF P!Next
<1>3. ASSUME NEW p \in Pages, NEW o \in Orders, Dealloc(p, o) PROVE Kept /\ P!Next
  BY <1>3, DeallocStep DEF P!Next, P!Pages, Pages, P!Orders, Orders
<1>4. ASSUME Step PROVE Kept /\ P!Next
  <2>1. CASE AllocNone
    BY <2>1, AllocNoneStep DEF P!Next, P!Step
  <2>2. CASE AllocSearch
    BY <2>2, AllocSearchStep DEF P!Next, P!Step
  <2>3. CASE AllocTake
    BY <2>3, AllocTakeStep DEF P!Next, P!Step
  <2>4. CASE AllocSplit
    BY <2>4, AllocSplitStep DEF P!Next, P!Step
  <2>5. CASE AllocReturn
    BY <2>5, AllocReturnStep DEF P!Next, P!Step
  <2>6. CASE DeallocTop
    BY <2>6, DeallocTopStep DEF P!Next, P!Step
  <2>7. CASE DeallocKeep
    BY <2>7, DeallocKeepStep DEF P!Next, P!Step
  <2>8. CASE DeallocMerge
    BY <2>8, DeallocMergeStep DEF P!Next, P!Step
  <2>. QED  BY <1>4, <2>1, <2>2, <2>3, <2>4, <2>5, <2>6, <2>7, <2>8 DEF Step
<1>5. CASE UNCHANGED vars
  <2>1. UNCHANGED <<lists, bitmap>>
    BY <1>5 DEF vars, lists
  <2>2. Kept /\ ListSets' = ListSets /\ PairBits' = PairBits
    BY <2>1, StillLists
  <2>. QED  BY <1>5, <2>2 DEF vars, P!vars
<1>. QED  BY <1>1, <1>2, <1>3, <1>4, <1>5 DEF Next

LEMMA StepKeeps == LInv /\ [Next]_vars => LInv'
<1>. SUFFICES ASSUME LInv, [Next]_vars PROVE LInv'
  OBVIOUS
<1>1. Kept /\ [P!Next]_P!vars
  BY StepRefines
<1>2. P!IInv
  BY DEF LInv
<1>3. P!IInv'
  BY <1>1, <1>2, AbstractAssumptions, P!NextInvariant
<1>. QED  BY <1>1, <1>3 DEF LInv, Kept

LEMMA InitRefines == Init => LInv /\ P!Init
<1>. SUFFICES ASSUME Init PROVE LInv /\ P!Init
  OBVIOUS
<1>1. next \in Frame /\ prev \in Frame /\ free_lists \in [Orders -> Pages \union {None}]
      /\ \A o \in Orders : free_lists[o] = None
  BY DEF Init, Frame, Links
<1>2. \A o \in Orders : Chain(<<>>, 0, free_lists[o], next, prev)
  BY <1>1 DEF Chain
<1>3. LinksOK
  BY <1>1, <1>2 DEF LinksOK
<1>4. SetsOK
  BY <1>1, SetsFromChains DEF NextOK
<1>5. \A o \in Orders : ListSets[o] = {}
  <2>1. On(<<>>, 0) = {}
    BY DEF On
  <2>. QED  BY <1>2, <1>4, <2>1 DEF SetsOK
<1>6. ListSets = [o \in Orders |-> {}]
  BY <1>4, <1>5 DEF SetsOK
<1>7. PairBits = [o \in Orders |-> [i \in Pages |-> FALSE]]
  <2>1. ASSUME NEW o \in Orders, NEW i \in Pages
        PROVE  ~(o < MAX_ORDER - 1 /\ i < Pairs(o) /\ bitmap[order_offset[o] + i])
    <3>. SUFFICES ASSUME o < MAX_ORDER - 1, i < Pairs(o) PROVE ~bitmap[order_offset[o] + i]
      OBVIOUS
    <3>1. o \in 0 .. MAX_ORDER - 2
      BY BitmapAssumption DEF Orders
    <3>2. order_offset[o] \in Nat /\ Pairs(o) \in Nat /\ order_offset[o] + Pairs(o) <= MAX_PAGES
      BY <3>1, OffsetFacts
    <3>3. order_offset[o] + i \in Pages
      BY <3>2, BitmapAssumption DEF Pages
    <3>. QED  BY <3>3 DEF Init
  <2>. QED  BY <2>1 DEF PairBits, Pairs
<1>8. P!Init
  BY <1>6, <1>7 DEF Init, P!Init, P!Orders, P!Pages, Orders, Pages
<1>9. P!IInv
  BY <1>8, AbstractAssumptions, P!InitInvariant
<1>. QED  BY <1>3, <1>8, <1>9 DEF LInv, Init

LEMMA ListInvariant == Spec => []LInv
<1>1. Init => LInv
  BY InitRefines
<1>. QED  BY <1>1, StepKeeps, PTL DEF Spec

\* Every block on a list is linked to both its neighbours, the last to None,
\* and is on that list alone, whatever callers write into the blocks they
\* hold (push_free, remove_frame).
THEOREM ListsDoublyLinked == Spec => []DoublyLinked
<1>1. LInv => DoublyLinked
  <2>. SUFFICES ASSUME LInv, NEW o \in Orders
                PROVE  /\ Junk \notin Listed(o) /\ None \in Listed(o)
                       /\ \A p \in Listed(o) \ {None} :
                            /\ p = free_lists[o] <=> prev[p] = None
                            /\ next[p] # None => prev[next[p]] = p
                       /\ \A r \in Orders \ {o} : Listed(o) \intersect Listed(r) = {None}
    BY DEF DoublyLinked
  <2>1. ASSUME NEW r \in Orders
        PROVE  \E L, n : /\ Chain(L, n, free_lists[r], next, prev)
                         /\ Listed(r) = On(L, n) \union {None} /\ ListSets[r] = On(L, n)
    <3>1. PICK L, n : Chain(L, n, free_lists[r], next, prev)
      BY DEF LInv, LinksOK
    <3>2. next \in Frame /\ SetsOK
      BY SetsFromChains DEF LInv, LinksOK, NextOK
    <3>3. Listed(r) = On(L, n) \union {None}
      BY <3>1, <3>2, ChainListed DEF Listed
    <3>. QED  BY <3>1, <3>2, <3>3 DEF SetsOK
  <2>2. PICK L, n : /\ Chain(L, n, free_lists[o], next, prev)
                    /\ Listed(o) = On(L, n) \union {None} /\ ListSets[o] = On(L, n)
    BY <2>1
  <2>3. /\ n \in Nat /\ L \in [1 .. n -> Pages]
        /\ free_lists[o] = IF n = 0 THEN None ELSE L[1]
    BY <2>2 DEF Chain
  <2>4. None # Junk /\ None \notin Pages /\ Junk \notin Pages
    BY PointerAssumption DEF Pages
  <2>5. Junk \notin Listed(o) /\ None \in Listed(o)
    BY <2>2, <2>3, <2>4 DEF On
  <2>6. ASSUME NEW p \in Listed(o) \ {None}
        PROVE  (p = free_lists[o] <=> prev[p] = None) /\ (next[p] # None => prev[next[p]] = p)
    <3>1. PICK i \in 1 .. n : p = L[i]
      BY <2>2 DEF On
    <3>2. /\ next[L[i]] = IF i = n THEN None ELSE L[i + 1]
          /\ prev[L[i]] = IF i = 1 THEN None ELSE L[i - 1]
          /\ i + 1 \in 1 .. n => prev[L[i + 1]] = IF i + 1 = 1 THEN None ELSE L[(i + 1) - 1]
          /\ 1 \in 1 .. n /\ (L[i] = L[1] => i = 1)
      BY <2>2, <2>3 DEF Chain
    <3>3. p = free_lists[o] <=> prev[p] = None
      <4>1. CASE i = 1
        BY <2>3, <3>1, <3>2, <4>1
      <4>2. CASE i # 1
        <5>1. i - 1 \in 1 .. n
          BY <2>3, <4>2
        <5>2. L[i - 1] # None
          BY <2>3, <2>4, <5>1
        <5>. QED  BY <2>3, <3>1, <3>2, <4>2, <5>2
      <4>. QED  BY <4>1, <4>2
    <3>4. ASSUME next[p] # None PROVE prev[next[p]] = p
      <4>1. i # n
        BY <3>1, <3>2, <3>4
      <4>2. i + 1 \in 1 .. n /\ i + 1 # 1 /\ (i + 1) - 1 = i
        BY <2>3, <4>1
      <4>. QED  BY <3>1, <3>2, <4>1, <4>2
    <3>. QED  BY <3>3, <3>4
  <2>7. ASSUME NEW r \in Orders \ {o}
        PROVE  Listed(o) \intersect Listed(r) = {None}
    <3>1. Listed(r) = ListSets[r] \union {None} /\ Listed(o) = ListSets[o] \union {None}
      BY <2>1, <2>2
    <3>2. ListSets[o] \intersect ListSets[r] = {}
      BY AbstractApart DEF SetsApart
    <3>. QED  BY <3>1, <3>2
  <2>. QED  BY <2>5, <2>6, <2>7
<1>. QED  BY <1>1, ListInvariant, PTL

\* The linked lists and the shared bitmap take only steps of the allocator of
\* module Buddy: each activation of alloc, dealloc and add_frame is that
\* activation on the sets of listed blocks and the bits order by order. (That
\* calls return, the rest of Refinement, is left to TLC.)
THEOREM ListsImplementBuddy == Spec => Abstract!Spec
<1>1. Init => Abstract!Init
  <2>1. P!Init => Abstract!Init
    BY DEF P!Init, Abstract!Init, P!Orders, P!Pages, Abstract!Orders, Abstract!Pages
  <2>. QED  BY <2>1, InitRefines
<1>2. LInv /\ [Next]_vars => [Abstract!Next]_Abstract!vars
  <2>1. P!vars = Abstract!vars /\ (UNCHANGED P!vars => UNCHANGED Abstract!vars)
    BY DEF P!vars, Abstract!vars
  <2>2. P!Next => Abstract!Next
    <3>1. ASSUME NEW f \in Frames, P!AddFrame(f) PROVE Abstract!AddFrame(f)
      BY <3>1 DEF P!AddFrame, Abstract!AddFrame, P!Call, Abstract!Call, P!InRange, Abstract!InRange
    <3>2. ASSUME NEW o \in 0 .. MAX_ORDER, P!Alloc(o) PROVE Abstract!Alloc(o)
      BY <3>2 DEF P!Alloc, Abstract!Alloc, P!Call, Abstract!Call
    <3>3. ASSUME NEW p \in P!Pages, NEW o \in P!Orders, P!Dealloc(p, o) PROVE Abstract!Dealloc(p, o)
      BY <3>3 DEF P!Dealloc, Abstract!Dealloc, P!Call, Abstract!Call
    <3>4. P!AllocNone => Abstract!AllocNone
      BY DEF P!AllocNone, Abstract!AllocNone, P!Return, Abstract!Return
    <3>5. P!AllocSearch => Abstract!AllocSearch
      BY DEF P!AllocSearch, Abstract!AllocSearch, P!Call, Abstract!Call
    <3>6. P!AllocTake => Abstract!AllocTake
      BY DEF P!AllocTake, Abstract!AllocTake, P!Call, Abstract!Call, P!remove_frame,
             Abstract!remove_frame, P!toggle_bit, Abstract!toggle_bit, P!pair_index,
             Abstract!pair_index
    <3>7. P!AllocSplit => Abstract!AllocSplit
      BY DEF P!AllocSplit, Abstract!AllocSplit, P!Call, Abstract!Call, P!push_free,
             Abstract!push_free, P!toggle_bit, Abstract!toggle_bit, P!pair_index,
             Abstract!pair_index, P!calculate_buddy_address, Abstract!calculate_buddy_address
    <3>8. P!AllocReturn => Abstract!AllocReturn
      BY DEF P!AllocReturn, Abstract!AllocReturn, P!Return, Abstract!Return
    <3>9. P!DeallocKeep => Abstract!DeallocKeep
      BY DEF P!DeallocKeep, Abstract!DeallocKeep, P!Return, Abstract!Return, P!InRange,
             Abstract!InRange, P!Bit, Abstract!Bit, P!push_free, Abstract!push_free,
             P!toggle_bit, Abstract!toggle_bit, P!pair_index, Abstract!pair_index
    <3>10. P!DeallocMerge => Abstract!DeallocMerge
      BY DEF P!DeallocMerge, Abstract!DeallocMerge, P!Call, Abstract!Call, P!InRange,
             Abstract!InRange, P!Bit, Abstract!Bit, P!remove_frame, Abstract!remove_frame,
             P!toggle_bit, Abstract!toggle_bit, P!pair_index, Abstract!pair_index,
             P!calculate_buddy_address, Abstract!calculate_buddy_address
    <3>11. P!Pages = Abstract!Pages /\ P!Orders = Abstract!Orders
      BY DEF P!Pages, Abstract!Pages, P!Orders, Abstract!Orders
    <3>. QED  BY <3>1, <3>2, <3>3, <3>4, <3>5, <3>6, <3>7, <3>8, <3>9, <3>10, <3>11
              DEF P!Next, Abstract!Next, P!Step, Abstract!Step
  <2>3. ASSUME LInv, [Next]_vars PROVE [Abstract!Next]_Abstract!vars
    BY <2>1, <2>2, <2>3, StepRefines
  <2>. QED  BY <2>3
<1>. QED  BY <1>1, <1>2, ListInvariant, PTL DEF Spec, Abstract!Spec
=============================================================================
