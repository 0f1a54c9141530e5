--------------------------- MODULE PickingProofs ---------------------------
(***************************************************************************)
(* What the proofs about several components rest on: induction over the    *)
(* natural numbers, recursion over a sequence, and what Picked picks.      *)
(***************************************************************************)
EXTENDS Picking, SequenceTheorems, FiniteSetTheorems, WellFoundedInduction, TLAPS

-----------------------------------------------------------------------------
(* Induction over the natural numbers, for a set instead of a predicate. *)

\* A set of naturals has a least element.
LEMMA LeastNatural ==
    ASSUME NEW S \in SUBSET Nat, S # {}
    PROVE  \E m \in S : \A k \in S : m <= k
<1> DEFINE R == OpToRel(<, Nat)
<1>1. IsWellFoundedOn(R, Nat)
  BY NatLessThanWellFounded
<1>2. \E x \in S : \A y \in S : ~(<<y, x>> \in R)
  <2> HIDE DEF R
  <2> QED
    BY <1>1, WFMin, Zenon
<1>3. \A x, y \in S : ~(<<y, x>> \in R) => x <= y
  BY DEF OpToRel
<1> QED
  BY <1>2, <1>3

\* A set that holds 0, and n + 1 with n, holds every natural number.
LEMMA NatInduct ==
    ASSUME NEW S \in SUBSET Nat, 0 \in S, \A n \in S : n + 1 \in S
    PROVE  S = Nat
<1> SUFFICES ASSUME S # Nat
             PROVE  FALSE
  OBVIOUS
<1>1. PICK m \in Nat \ S : \A k \in Nat \ S : m <= k
  BY LeastNatural
<1> QED
  BY <1>1

\* A set of positions has a greatest element.
LEMMA GreatestPosition ==
    ASSUME NEW n \in Nat, NEW S \in SUBSET (1 .. n), S # {}
    PROVE  \E m \in S : \A k \in S : k <= m
<1> DEFINE T == {n - k : k \in S}
<1>1. T \in SUBSET Nat /\ T # {}
  <2>1. \A k \in S : n - k \in Nat
    OBVIOUS
  <2>2. PICK k \in S : TRUE
    OBVIOUS
  <2>3. n - k \in T
    OBVIOUS
  <2> QED
    BY <2>1, <2>3
<1>2. PICK t \in T : \A u \in T : t <= u
  BY <1>1, LeastNatural
<1>3. PICK m \in S : t = n - m
  OBVIOUS
<1>4. \A k \in S : n - m <= n - k
  BY <1>2, <1>3
<1> QED
  BY <1>4

-----------------------------------------------------------------------------
(* Recursion over positions. *)

\* What holds at first and is kept by each round holds after all of them.
LEMMA RoundsKeep ==
    ASSUME NEW n \in Nat, NEW f, NEW T, f[0] \in T,
           \A k \in 1 .. n : f[k - 1] \in T => f[k] \in T
    PROVE  \A k \in 0 .. n : f[k] \in T
<1> DEFINE S == {k \in Nat : k <= n => f[k] \in T}
<1>1. 0 \in S
  OBVIOUS
<1>2. ASSUME NEW i \in S
      PROVE  i + 1 \in S
  <2> SUFFICES ASSUME i + 1 <= n
               PROVE  f[i + 1] \in T
    OBVIOUS
  <2>1. i + 1 \in 1 .. n /\ (i + 1) - 1 = i /\ f[i] \in T
    OBVIOUS
  <2> QED
    BY <2>1
<1>3. S = Nat
  <2>1. S \in SUBSET Nat
    OBVIOUS
  <2> HIDE DEF S
  <2> QED
    BY <1>1, <1>2, <2>1, NatInduct
<1> QED
  BY <1>3

\* G says what each of n rounds makes of an element of A.
Round(A, n, G) == G \in [A \X (1 .. n) -> A]

\* f has what they make of a, one after the other.
Rounds(A, a, n, G, f) ==
    /\ f \in [0 .. n -> A]
    /\ f[0] = a
    /\ \A k \in 1 .. n : f[k] = G[<<f[k - 1], k>>]

\* Rounds that stay within a set can be made one after the other.
LEMMA RoundsExist ==
    ASSUME NEW A, NEW a \in A, NEW n \in Nat, NEW G, Round(A, n, G)
    PROVE  \E f : Rounds(A, a, n, G, f)
<1> DEFINE Good(m, f) == /\ f[0] = a
                         /\ \A k \in 1 .. m : f[k] = G[<<f[k - 1], k>>]
           S == {m \in Nat : m <= n => \E f \in [0 .. m -> A] : Good(m, f)}
<1>1. 0 \in S
  <2> DEFINE f == [k \in 0 .. 0 |-> a]
  <2>1. f \in [0 .. 0 -> A] /\ f[0] = a /\ 1 .. 0 = {}
    OBVIOUS
  <2> HIDE DEF f
  <2> QED
    BY <2>1
<1>2. ASSUME NEW i \in S
      PROVE  i + 1 \in S
  <2> SUFFICES ASSUME i + 1 <= n
               PROVE  \E f \in [0 .. i + 1 -> A] : Good(i + 1, f)
    OBVIOUS
  <2>1. PICK f \in [0 .. i -> A] : Good(i, f)
    OBVIOUS
  <2> DEFINE next == G[<<f[i], i + 1>>]
             g == [k \in 0 .. i + 1 |-> IF k = i + 1 THEN next ELSE f[k]]
  <2>2. /\ i + 1 \in 1 .. n /\ i \in 0 .. i /\ 0 \in 0 .. i + 1 /\ i + 1 # 0
        /\ i + 1 \in 0 .. i + 1
    OBVIOUS
  <2>3. f[i] \in A
    BY <2>1, <2>2
  <2>4. next \in A
    BY <2>2, <2>3 DEF Round
  <2> HIDE DEF next
  <2>5. \A k \in 0 .. i + 1 : k # i + 1 => k \in 0 .. i
    OBVIOUS
  <2>6. g \in [0 .. i + 1 -> A]
    BY <2>1, <2>4, <2>5
  <2>7. /\ \A k \in 0 .. i : g[k] = f[k]
        /\ g[i + 1] = next
    OBVIOUS
  <2> HIDE DEF g
  <2>8. \A k \in 1 .. i + 1 : g[k] = G[<<g[k - 1], k>>]
    <3> TAKE k \in 1 .. i + 1
    <3>1. CASE k = i + 1
      <4>1. k - 1 = i
        BY <3>1
      <4> QED
        BY <2>2, <2>7, <3>1, <4>1 DEF next
    <3>2. CASE k # i + 1
      <4>1. k \in 1 .. i /\ k \in 0 .. i /\ k - 1 \in 0 .. i
        BY <3>2
      <4> QED
        BY <2>1, <2>7, <4>1
    <3> QED
      BY <3>1, <3>2
  <2>9. g[0] = a
    BY <2>1, <2>7
  <2> QED
    BY <2>6, <2>8, <2>9
<1>3. S = Nat
  <2>1. S \in SUBSET Nat
    OBVIOUS
  <2> HIDE DEF S
  <2> QED
    BY <1>1, <1>2, <2>1, NatInduct
<1> QED
  <2>1. n \in S /\ n <= n
    <3> HIDE DEF S
    <3> QED
      BY <1>3
  <2>2. n \in {m \in Nat : m <= n => \E f \in [0 .. m -> A] : Good(m, f)}
    BY <2>1
  <2> HIDE DEF S
  <2>3. PICK f \in [0 .. n -> A] : Good(n, f)
    BY <2>1, <2>2, Zenon
  <2>4. Rounds(A, a, n, G, f)
    BY <2>3, Zenon DEF Rounds
  <2> QED
    BY <2>4, Zenon

-----------------------------------------------------------------------------
(* Picking elements of a sequence. *)

\* What Picked has taken of the first n elements of s.
Taking(s, kept, n, f) ==
    f = [k \in 0 .. n |-> IF k = 0 THEN <<>>
                          ELSE IF k \in kept THEN Append(f[k - 1], s[k])
                          ELSE f[k - 1]]

\* The recursion of Picked has a solution.
LEMMA TakingExists ==
    ASSUME NEW s, NEW kept, NEW n \in Nat
    PROVE  \E f : Taking(s, kept, n, f)
<1> DEFINE S == {i \in Nat : \E f : Taking(s, kept, i, f)}
<1>1. 0 \in S
  <2> DEFINE f == [k \in 0 .. 0 |-> <<>>]
  <2>1. \A k \in 0 .. 0 : k = 0
    OBVIOUS
  <2>2. f = [k \in 0 .. 0 |-> IF k = 0 THEN <<>>
                              ELSE IF k \in kept THEN Append(f[k - 1], s[k])
                              ELSE f[k - 1]]
    BY <2>1
  <2> QED
    BY <2>2 DEF Taking
<1>2. ASSUME NEW i \in S
      PROVE  i + 1 \in S
  <2>1. PICK f : Taking(s, kept, i, f)
    OBVIOUS
  <2> DEFINE next == IF i + 1 \in kept THEN Append(f[i], s[i + 1]) ELSE f[i]
             g == [k \in 0 .. i + 1 |-> IF k = i + 1 THEN next ELSE f[k]]
             h == [k \in 0 .. i + 1 |->
                      IF k = 0 THEN <<>>
                      ELSE IF k \in kept THEN Append(g[k - 1], s[k])
                      ELSE g[k - 1]]
  <2>2. \A k \in 0 .. i : f[k] = IF k = 0 THEN <<>>
                                 ELSE IF k \in kept THEN Append(f[k - 1], s[k])
                                 ELSE f[k - 1]
    BY <2>1, Zenon DEF Taking
  <2>3. \A k \in 0 .. i : g[k] = f[k]
    OBVIOUS
  <2>4. \A k \in 0 .. i + 1 : g[k] = h[k]
    <3> TAKE k \in 0 .. i + 1
    <3>1. CASE k = i + 1
      <4>1. k - 1 = i /\ k # 0 /\ i \in 0 .. i
        BY <3>1
      <4>2. g[i] = f[i] /\ g[k] = next
        BY <2>3, <3>1, <4>1
      <4>3. h[k] = IF k \in kept THEN Append(g[k - 1], s[k]) ELSE g[k - 1]
        BY <4>1
      <4> HIDE DEF g, h
      <4> QED
        BY <3>1, <4>1, <4>2, <4>3
    <3>2. CASE k # i + 1
      <4>1. k \in 0 .. i /\ (k # 0 => k - 1 \in 0 .. i)
        BY <3>2
      <4>2. h[k] = IF k = 0 THEN <<>>
                   ELSE IF k \in kept THEN Append(g[k - 1], s[k])
                   ELSE g[k - 1]
        OBVIOUS
      <4>3. g[k] = f[k] /\ (k # 0 => g[k - 1] = f[k - 1])
        BY <2>3, <4>1
      <4> HIDE DEF g, h
      <4> QED
        BY <2>2, <4>1, <4>2, <4>3
    <3> QED
      BY <3>1, <3>2
  <2>5. g = h
    BY <2>4
  <2>6. Taking(s, kept, i + 1, g)
    <3> HIDE DEF g
    <3> QED
      BY <2>5 DEF Taking
  <2>7. \E e : Taking(s, kept, i + 1, e)
    BY <2>6
  <2> QED
    BY <2>7
<1>3. S = Nat
  <2>1. S \in SUBSET Nat
    OBVIOUS
  <2> HIDE DEF S
  <2> QED
    BY <1>1, <1>2, <2>1, NatInduct
<1> QED
  BY <1>3

\* How the recursion goes on.
LEMMA TakingStep ==
    ASSUME NEW s, NEW kept, NEW n \in Nat, NEW f, Taking(s, kept, n, f)
    PROVE  /\ f[0] = <<>>
           /\ \A k \in 1 .. n :
                f[k] = IF k \in kept THEN Append(f[k - 1], s[k]) ELSE f[k - 1]
<1>1. \A k \in 0 .. n : f[k] = IF k = 0 THEN <<>>
                               ELSE IF k \in kept THEN Append(f[k - 1], s[k])
                               ELSE f[k - 1]
  BY Zenon DEF Taking
<1> QED
  BY <1>1

\* r holds the elements of s at those of the positions 1 .. n that are kept, in
\* their order.
OneByOne(s, kept, n, r) ==
    /\ \A j \in DOMAIN r : \E p \in kept : p <= n /\ r[j] = s[p]
    /\ \A p \in kept : p <= n => \E j \in DOMAIN r : r[j] = s[p]
    /\ \A p, q \in kept : p <= q /\ q <= n =>
         \E j, k \in DOMAIN r : j <= k /\ r[j] = s[p] /\ r[k] = s[q]
    /\ \A j, k \in DOMAIN r : j < k =>
         \E p, q \in kept : p < q /\ q <= n /\ r[j] = s[p] /\ r[k] = s[q]

\* The sequence that Picked makes.
LEMMA PickedInOrder ==
    ASSUME NEW S, NEW s \in Seq(S), NEW kept \in SUBSET DOMAIN s
    PROVE  Picked(s, kept) \in Seq(S) /\ OneByOne(s, kept, Len(s), Picked(s, kept))
<1> DEFINE n == Len(s)
           f == CHOOSE f : Taking(s, kept, n, f)
           Good(k) == f[k] \in Seq(S) /\ OneByOne(s, kept, k, f[k])
           T == {k \in Nat : k <= n => Good(k)}
<1>1. n \in Nat /\ DOMAIN s = 1 .. n
  BY LenProperties
<1>2. Taking(s, kept, n, f)
  <2> HIDE DEF n
  <2> QED
    BY <1>1, TakingExists
<1>3. Picked(s, kept) = f[n]
  BY DEF Picked, Taking
<1> HIDE DEF n, f
<1>4. /\ f[0] = <<>>
      /\ \A k \in 1 .. n :
           f[k] = IF k \in kept THEN Append(f[k - 1], s[k]) ELSE f[k - 1]
  BY <1>1, <1>2, TakingStep
<1>5. 0 \in T
  <2>1. \A p \in kept : ~(p <= 0)
    BY <1>1
  <2>2. f[0] \in Seq(S) /\ DOMAIN f[0] = {}
    BY <1>4
  <2> QED
    BY <2>1, <2>2 DEF OneByOne
<1>6. ASSUME NEW i \in T
      PROVE  i + 1 \in T
  <2> SUFFICES ASSUME i + 1 <= n
               PROVE  Good(i + 1)
    OBVIOUS
  <2> DEFINE a == f[i]
             b == f[i + 1]
  <2>1. /\ i + 1 \in 1 .. n /\ (i + 1) - 1 = i
        /\ a \in Seq(S) /\ OneByOne(s, kept, i, a)
    BY <1>1
  <2>2. b = IF i + 1 \in kept THEN Append(a, s[i + 1]) ELSE a
    BY <1>4, <2>1
  <2>3. \A p \in kept : p <= i + 1 <=> p <= i \/ p = i + 1
    BY <1>1
  <2>4. s[i + 1] \in S
    BY <1>1, <2>1
  <2> HIDE DEF a, b
  <2>5. CASE i + 1 \notin kept
    <3>1. b = a
      BY <2>2, <2>5
    <3>2. OneByOne(s, kept, i + 1, a)
      <4>1. \A p \in kept : p <= i + 1 <=> p <= i
        BY <2>3, <2>5
      <4> QED
        BY <2>1, <4>1 DEF OneByOne
    <3> QED
      BY <2>1, <3>1, <3>2 DEF b
  <2>6. CASE i + 1 \in kept
    <3> DEFINE m == Len(a)
    <3>1. b = Append(a, s[i + 1])
      BY <2>2, <2>6
    <3>2. /\ m \in Nat /\ DOMAIN a = 1 .. m
          /\ b \in Seq(S) /\ DOMAIN b = 1 .. m + 1
          /\ b[m + 1] = s[i + 1]
          /\ \A j \in 1 .. m : b[j] = a[j]
      BY <2>1, <2>4, <3>1, AppendProperties, LenProperties
    <3> HIDE DEF m
    <3>3. ASSUME NEW j \in DOMAIN b
          PROVE  \E p \in kept : p <= i + 1 /\ b[j] = s[p]
      <4>1. CASE j = m + 1
        BY <2>3, <2>6, <3>2, <4>1
      <4>2. CASE j # m + 1
        <5>1. j \in DOMAIN a /\ b[j] = a[j]
          BY <3>2, <4>2
        <5> QED
          BY <2>1, <2>3, <5>1 DEF OneByOne
      <4> QED
        BY <4>1, <4>2
    <3>4. ASSUME NEW p \in kept, p <= i + 1
          PROVE  \E j \in DOMAIN b : b[j] = s[p]
      <4>1. CASE p = i + 1
        BY <3>2, <4>1
      <4>2. CASE p # i + 1
        <5>1. PICK j \in DOMAIN a : a[j] = s[p]
          BY <2>1, <2>3, <3>4, <4>2 DEF OneByOne
        <5> QED
          BY <3>2, <5>1
      <4> QED
        BY <4>1, <4>2
    <3>5. ASSUME NEW p \in kept, NEW q \in kept, p <= q, q <= i + 1
          PROVE  \E j, k \in DOMAIN b : j <= k /\ b[j] = s[p] /\ b[k] = s[q]
      <4>1. CASE q = i + 1
        <5>1. PICK j \in DOMAIN b : b[j] = s[p]
          BY <1>1, <3>4, <3>5, <4>1
        <5>2. j <= m + 1 /\ m + 1 \in DOMAIN b
          BY <3>2
        <5> QED
          BY <3>2, <4>1, <5>1, <5>2
      <4>2. CASE q # i + 1
        <5>1. PICK j \in DOMAIN a, k \in DOMAIN a :
                j <= k /\ a[j] = s[p] /\ a[k] = s[q]
          BY <2>1, <2>3, <3>5, <4>2 DEF OneByOne
        <5>2. j \in DOMAIN b /\ k \in DOMAIN b /\ b[j] = a[j] /\ b[k] = a[k]
          BY <3>2
        <5> QED
          BY <5>1, <5>2
      <4> QED
        BY <4>1, <4>2
    <3>6. ASSUME NEW j \in DOMAIN b, NEW k \in DOMAIN b, j < k
          PROVE  \E p, q \in kept :
                   p < q /\ q <= i + 1 /\ b[j] = s[p] /\ b[k] = s[q]
      <4>1. j \in DOMAIN a /\ b[j] = a[j]
        BY <3>2, <3>6
      <4>2. CASE k = m + 1
        <5>1. PICK p \in kept : p <= i /\ a[j] = s[p]
          BY <2>1, <4>1 DEF OneByOne
        <5>2. p < i + 1 /\ i + 1 <= i + 1
          BY <1>1, <5>1
        <5> QED
          BY <2>6, <3>2, <4>1, <4>2, <5>1, <5>2
      <4>3. CASE k # m + 1
        <5>1. k \in DOMAIN a /\ b[k] = a[k]
          BY <3>2, <4>3
        <5>2. PICK p \in kept, q \in kept :
                p < q /\ q <= i /\ a[j] = s[p] /\ a[k] = s[q]
          BY <2>1, <3>6, <4>1, <5>1 DEF OneByOne
        <5>3. q <= i + 1
          BY <2>3, <5>2
        <5> QED
          BY <4>1, <5>1, <5>2, <5>3
      <4> QED
        BY <4>2, <4>3
    <3> QED
      BY <3>2, <3>3, <3>4, <3>5, <3>6 DEF OneByOne, b
  <2> QED
    BY <2>5, <2>6
<1>7. T = Nat
  <2>1. T \in SUBSET Nat
    OBVIOUS
  <2> HIDE DEF T
  <2> QED
    BY <1>5, <1>6, <2>1, NatInduct
<1>8. Good(n)
  BY <1>1, <1>7
<1> QED
  BY <1>3, <1>8 DEF n

\* Picked reads the elements it picks, and no other.
LEMMA PickedSame ==
    ASSUME NEW S, NEW s \in Seq(S), NEW t \in Seq(S), Len(s) = Len(t),
           NEW kept, \A p \in kept \cap DOMAIN s : s[p] = t[p]
    PROVE  Picked(s, kept) = Picked(t, kept)
<1> DEFINE n == Len(s)
           f == CHOOSE f : Taking(s, kept, n, f)
           g == CHOOSE g : Taking(t, kept, n, g)
           T == {k \in Nat : k <= n => f[k] = g[k]}
<1>1. n \in Nat /\ DOMAIN s = 1 .. n
  BY LenProperties
<1>2. Taking(s, kept, n, f) /\ Taking(t, kept, n, g)
  <2> HIDE DEF n
  <2> QED
    BY <1>1, TakingExists
<1>3. Picked(s, kept) = f[n] /\ Picked(t, kept) = g[n]
  BY DEF Picked, Taking
<1> HIDE DEF n, f, g
<1>4. /\ f[0] = <<>> /\ g[0] = <<>>
      /\ \A k \in 1 .. n :
           f[k] = IF k \in kept THEN Append(f[k - 1], s[k]) ELSE f[k - 1]
      /\ \A k \in 1 .. n :
           g[k] = IF k \in kept THEN Append(g[k - 1], t[k]) ELSE g[k - 1]
  BY <1>1, <1>2, TakingStep
<1>5. 0 \in T
  BY <1>4
<1>6. ASSUME NEW i \in T
      PROVE  i + 1 \in T
  <2> SUFFICES ASSUME i + 1 <= n
               PROVE  f[i + 1] = g[i + 1]
    OBVIOUS
  <2>1. i + 1 \in 1 .. n /\ (i + 1) - 1 = i /\ f[i] = g[i]
    BY <1>1
  <2>2. i + 1 \in kept => s[i + 1] = t[i + 1]
    BY <1>1, <2>1
  <2> QED
    BY <1>4, <2>1, <2>2
<1>7. T = Nat
  <2>1. T \in SUBSET Nat
    OBVIOUS
  <2> HIDE DEF T
  <2> QED
    BY <1>5, <1>6, <2>1, NatInduct
<1> QED
  BY <1>1, <1>3, <1>7


\* f takes the elements at the positions kept one by one.
PicksUp(S, s, kept, f) ==
    /\ f[0] = <<>>
    /\ \A k \in 1 .. Len(s) :
         f[k] = IF k \in kept THEN Append(f[k - 1], s[k]) ELSE f[k - 1]
    /\ \A k \in 0 .. Len(s) : f[k] \in Seq(S)
    /\ Picked(s, kept) = f[Len(s)]

\* That is how Picked makes its sequence.
LEMMA PickedSteps ==
    ASSUME NEW S, NEW s \in Seq(S), NEW kept
    PROVE  \E f : PicksUp(S, s, kept, f)
<1> DEFINE n == Len(s)
           f == CHOOSE f : Taking(s, kept, n, f)
<1>1. n \in Nat /\ DOMAIN s = 1 .. n
  BY LenProperties
<1>2. Taking(s, kept, n, f)
  <2> HIDE DEF n
  <2> QED
    BY <1>1, TakingExists
<1>3. Picked(s, kept) = f[n]
  BY DEF Picked, Taking
<1> HIDE DEF f
<1>4. /\ f[0] = <<>>
      /\ \A k \in 1 .. n :
           f[k] = IF k \in kept THEN Append(f[k - 1], s[k]) ELSE f[k - 1]
  <2> HIDE DEF n
  <2> QED
    BY <1>1, <1>2, TakingStep
<1>5. \A k \in 0 .. n : f[k] \in Seq(S)
  <2>1. f[0] \in Seq(S)
    BY <1>4
  <2>2. ASSUME NEW k \in 1 .. n, f[k - 1] \in Seq(S)
        PROVE  f[k] \in Seq(S)
    <3> DEFINE x == f[k - 1]
               e == s[k]
    <3>1. e \in S /\ x \in Seq(S)
      BY <1>1, <2>2
    <3>2. f[k] = IF k \in kept THEN Append(x, e) ELSE x
      BY <1>4
    <3> HIDE DEF x, e
    <3> QED
      BY <3>1, <3>2
  <2> HIDE DEF n
  <2> QED
    BY <1>1, <2>1, <2>2, RoundsKeep
<1> QED
  BY <1>3, <1>4, <1>5 DEF PicksUp

\* Nothing is picked from no positions.
LEMMA PickedNone ==
    ASSUME NEW S, NEW s \in Seq(S)
    PROVE  Picked(s, {}) = <<>>
<1>1. PICK f : PicksUp(S, s, {}, f)
  BY PickedSteps
<1>2. Len(s) \in Nat
  BY LenProperties
<1>3. \A k \in 0 .. Len(s) : f[k] \in {<<>>}
  <2>1. f[0] \in {<<>>}
    BY <1>1 DEF PicksUp
  <2>2. \A k \in 1 .. Len(s) : f[k - 1] \in {<<>>} => f[k] \in {<<>>}
    BY <1>1 DEF PicksUp
  <2> QED
    BY <1>2, <2>1, <2>2, RoundsKeep
<1> QED
  BY <1>1, <1>2, <1>3 DEF PicksUp

\* All of a sequence is the sequence.
LEMMA PickedAll ==
    ASSUME NEW S, NEW s \in Seq(S)
    PROVE  Picked(s, DOMAIN s) = s
<1> DEFINE n == Len(s)
<1>1. PICK f : PicksUp(S, s, DOMAIN s, f)
  BY PickedSteps
<1>2. n \in Nat /\ DOMAIN s = 1 .. n
  BY LenProperties
<1> DEFINE U == {k \in Nat : k <= n => f[k] = SubSeq(s, 1, k)}
<1>3. 0 \in U
  BY <1>1 DEF PicksUp
<1>4. ASSUME NEW i \in U
      PROVE  i + 1 \in U
  <2> SUFFICES ASSUME i + 1 <= n
               PROVE  f[i + 1] = SubSeq(s, 1, i + 1)
    OBVIOUS
  <2>1. i + 1 \in 1 .. n /\ (i + 1) - 1 = i /\ f[i] = SubSeq(s, 1, i)
    BY <1>2
  <2>2. f[i + 1] = Append(SubSeq(s, 1, i), s[i + 1])
    BY <1>1, <1>2, <2>1 DEF PicksUp
  <2> QED
    BY <1>2, <2>1, <2>2
<1>5. U = Nat
  <2>1. U \in SUBSET Nat
    OBVIOUS
  <2> HIDE DEF U
  <2> QED
    BY <1>3, <1>4, <2>1, NatInduct
<1>6. f[n] = SubSeq(s, 1, n)
  BY <1>2, <1>5
<1> QED
  BY <1>1, <1>2, <1>6 DEF PicksUp

\* An element behind two sequences in a row is behind the second.
AppendsBehind(S) ==
    \A s, t \in Seq(S), e \in S : Append(s \o t, e) = s \o Append(t, e)

\* That is so for every set.
LEMMA AppendBehind ==
    ASSUME NEW S
    PROVE  AppendsBehind(S)
<1> SUFFICES ASSUME NEW s \in Seq(S), NEW t \in Seq(S), NEW e \in S
             PROVE  Append(s \o t, e) = s \o Append(t, e)
  BY DEF AppendsBehind
<1> QED
  OBVIOUS

\* The positions kept of s \o t are those here of s and those there of t.
Parted(s, t, kept, here, there) ==
    /\ here = kept \cap (1 .. Len(s))
    /\ there = {k \in 1 .. Len(t) : Len(s) + k \in kept}

\* What is picked from two sequences in a row, one position by the other.
LEMMA PickedBoth ==
    ASSUME NEW S, NEW s \in Seq(S), NEW t \in Seq(S), NEW kept, NEW here, NEW there,
           Parted(s, t, kept, here, there)
    PROVE  Picked(s \o t, kept) = Picked(s, here) \o Picked(t, there)
<1> DEFINE m == Len(s)
           n == Len(t)
           u == s \o t
<1>1. /\ m \in Nat /\ n \in Nat /\ u \in Seq(S) /\ Len(u) = m + n
      /\ \A k \in 1 .. m : u[k] = s[k]
      /\ \A k \in 1 .. n : u[m + k] = t[k] /\ t[k] \in S
  BY LenProperties
<1>2. PICK f : PicksUp(S, u, kept, f)
  BY <1>1, PickedSteps
<1>3. PICK g : PicksUp(S, s, here, g)
  BY PickedSteps
<1>4. PICK h : PicksUp(S, t, there, h)
  BY PickedSteps
<1>5. /\ f[0] = <<>> /\ g[0] = <<>> /\ h[0] = <<>>
      /\ \A k \in 1 .. (m + n) :
           f[k] = IF k \in kept THEN Append(f[k - 1], u[k]) ELSE f[k - 1]
      /\ \A k \in 1 .. m :
           g[k] = IF k \in here THEN Append(g[k - 1], s[k]) ELSE g[k - 1]
      /\ \A k \in 1 .. n :
           h[k] = IF k \in there THEN Append(h[k - 1], t[k]) ELSE h[k - 1]
      /\ \A k \in 0 .. m : g[k] \in Seq(S)
      /\ \A k \in 0 .. n : h[k] \in Seq(S)
      /\ Picked(u, kept) = f[m + n]
      /\ Picked(s, here) = g[m]
      /\ Picked(t, there) = h[n]
  BY <1>1, <1>2, <1>3, <1>4 DEF PicksUp
<1>6. /\ \A k \in 1 .. m : k \in here <=> k \in kept
      /\ \A k \in 1 .. n : k \in there <=> m + k \in kept
  BY DEF Parted
<1> DEFINE p == g[m]
           T == {k \in Nat : k <= m => f[k] = g[k]}
           U == {k \in Nat : k <= n => f[m + k] = p \o h[k]}
<1> HIDE DEF m, n, u, p
<1>7. T = Nat
  <2>1. 0 \in T
    BY <1>5
  <2>2. ASSUME NEW i \in T
        PROVE  i + 1 \in T
    <3> SUFFICES ASSUME i + 1 <= m
                 PROVE  f[i + 1] = g[i + 1]
      OBVIOUS
    <3>1. /\ i + 1 \in 1 .. m /\ (i + 1) - 1 = i /\ f[i] = g[i]
          /\ i + 1 \in 1 .. (m + n)
      BY <1>1
    <3>2. s[i + 1] = u[i + 1] /\ (i + 1 \in here <=> i + 1 \in kept)
      BY <1>1, <1>6, <3>1
    <3>3. /\ f[i + 1] = IF i + 1 \in kept THEN Append(f[i], u[i + 1]) ELSE f[i]
          /\ g[i + 1] = IF i + 1 \in here THEN Append(g[i], s[i + 1]) ELSE g[i]
      BY <1>5, <3>1
    <3> QED
      BY <3>1, <3>2, <3>3, Zenon
  <2>3. T \in SUBSET Nat
    OBVIOUS
  <2> HIDE DEF T
  <2> QED
    BY <2>1, <2>2, <2>3, NatInduct
<1>8. f[m] = p /\ p \in Seq(S)
  BY <1>1, <1>5, <1>7 DEF p
<1>9. AppendsBehind(S)
  BY AppendBehind
<1>10. U = Nat
  <2>1. 0 \in U
    <3>1. f[m + 0] = p /\ h[0] = <<>> /\ p \o <<>> = p
      BY <1>1, <1>5, <1>8
    <3> QED
      BY <3>1
  <2>2. ASSUME NEW i \in U
        PROVE  i + 1 \in U
    <3> DEFINE x == h[i]
               e == t[i + 1]
    <3> SUFFICES ASSUME i + 1 <= n
                 PROVE  f[m + (i + 1)] = p \o h[i + 1]
      OBVIOUS
    <3>1. /\ i + 1 \in 1 .. n /\ (i + 1) - 1 = i /\ i \in 0 .. n
          /\ m + (i + 1) \in 1 .. (m + n) /\ (m + (i + 1)) - 1 = m + i
      BY <1>1
    <3>2. x \in Seq(S) /\ e \in S /\ u[m + (i + 1)] = e
      BY <1>1, <1>5, <3>1
    <3>3. f[m + i] = p \o x
      BY <1>1, <3>1, SMTT(30)
    <3>4. m + (i + 1) \in kept <=> i + 1 \in there
      BY <1>6, <3>1
    <3>5. /\ f[m + (i + 1)] = IF m + (i + 1) \in kept THEN Append(f[m + i], e)
                               ELSE f[m + i]
          /\ h[i + 1] = IF i + 1 \in there THEN Append(x, e) ELSE x
      BY <1>5, <3>1, <3>2
    <3> HIDE DEF x, e
    <3>6. Append(p \o x, e) = p \o Append(x, e)
      BY <1>8, <1>9, <3>2, Zenon DEF AppendsBehind
    <3> QED
      BY <3>3, <3>4, <3>5, <3>6, Zenon
  <2>3. U \in SUBSET Nat
    OBVIOUS
  <2> HIDE DEF U
  <2> QED
    BY <2>1, <2>2, <2>3, NatInduct
<1>11. f[m + n] = p \o h[n]
  <2>1. n \in U
    <3> HIDE DEF U
    <3> QED
      BY <1>1, <1>10
  <2>2. n <= n
    BY <1>1
  <2> QED
    BY <2>1, <2>2
<1> QED
  BY <1>5, <1>11 DEF u, p
-----------------------------------------------------------------------------
(* Sums. *)

\* What the recursion of Sums defines.
Totals(amounts, n, f) ==
    f = [k \in 0 .. n |-> IF k = 0 THEN 0 ELSE f[k - 1] + amounts[k]]

\* Each sum is the one before and an amount more.
SumsUp(amounts) ==
    /\ Sums(amounts)[0] = 0
    /\ \A k \in 0 .. Len(amounts) : Sums(amounts)[k] \in Nat
    /\ \A k \in 1 .. Len(amounts) :
         Sums(amounts)[k] = Sums(amounts)[k - 1] + amounts[k]

\* So it is for numbers.
LEMMA SumsStep ==
    ASSUME NEW amounts \in Seq(Nat)
    PROVE  SumsUp(amounts)
<1> DEFINE n == Len(amounts)
           G == [x \in Nat \X (1 .. n) |-> x[1] + amounts[x[2]]]
           f == CHOOSE f : Totals(amounts, n, f)
<1>1. n \in Nat /\ \A k \in 1 .. n : amounts[k] \in Nat
  BY LenProperties
<1> HIDE DEF n
<1>2. Round(Nat, n, G)
  BY <1>1 DEF Round
<1>3. PICK g : Rounds(Nat, 0, n, G, g)
  <2> HIDE DEF G
  <2> QED
    BY <1>1, <1>2, RoundsExist
<1>4. /\ g \in [0 .. n -> Nat] /\ g[0] = 0
      /\ \A k \in 1 .. n : g[k] = g[k - 1] + amounts[k]
  <2>1. g[0] = 0 /\ g \in [0 .. n -> Nat] /\ \A k \in 1 .. n : g[k] = G[<<g[k - 1], k>>]
    BY <1>3 DEF Rounds
  <2>2. \A k \in 1 .. n : g[k - 1] \in Nat
    BY <1>1, <2>1
  <2>3. \A k \in 1 .. n : <<g[k - 1], k>> \in Nat \X (1 .. n)
    BY <2>2
  <2> QED
    BY <2>1, <2>3
<1>5. Totals(amounts, n, g)
  <2>1. \A k \in 0 .. n : g[k] = IF k = 0 THEN 0 ELSE g[k - 1] + amounts[k]
    BY <1>1, <1>4
  <2> QED
    BY <1>4, <2>1 DEF Totals
<1>6. Totals(amounts, n, f)
  BY <1>5, Zenon
<1>7. Sums(amounts) = f
  BY DEF Sums, Totals, n
<1> HIDE DEF f, G
<1>8. \A k \in 0 .. n : f[k] = IF k = 0 THEN 0 ELSE f[k - 1] + amounts[k]
  BY <1>6, Zenon DEF Totals
<1>9. \A k \in 0 .. n : f[k] \in Nat
  <2>1. f[0] \in Nat
    BY <1>1, <1>8
  <2>2. ASSUME NEW k \in 1 .. n, f[k - 1] \in Nat
        PROVE  f[k] \in Nat
    BY <1>1, <1>8, <2>2
  <2> QED
    BY <1>1, <2>1, <2>2, RoundsKeep
<1>10. f[0] = 0 /\ \A k \in 1 .. n : f[k] = f[k - 1] + amounts[k]
  BY <1>1, <1>8
<1> QED
  BY <1>7, <1>9, <1>10 DEF n, SumsUp

\* Amounts have sums.
LEMMA SumsType ==
    ASSUME NEW amounts \in Seq(Nat)
    PROVE  \A k \in 0 .. Len(amounts) : Sums(amounts)[k] \in Nat
BY SumsStep DEF SumsUp

\* Of two rows of amounts, of which one exceeds the other by no more than d, and
\* only at some positions, the sums differ by no more than d for each of these.
Exceeds(a, b, S, d) ==
    \A k \in 1 .. Len(a) : a[k] <= b[k] + (IF k \in S THEN d ELSE 0)

LEMMA SumsCompare ==
    ASSUME NEW a \in Seq(Nat), NEW b \in Seq(Nat), Len(a) = Len(b),
           NEW d \in Nat, NEW S \in SUBSET (1 .. Len(a)), Exceeds(a, b, S, d)
    PROVE  Sums(a)[Len(a)] <= Sums(b)[Len(b)] + d * Cardinality(S)
<1> DEFINE n == Len(a)
           f == Sums(a)
           g == Sums(b)
           C(k) == Cardinality(S \cap (1 .. k))
           More(k) == d * C(k)
           U == {k \in Nat : k <= n => f[k] <= g[k] + More(k)}
<1>1. n \in Nat /\ (\A k \in 1 .. n : a[k] \in Nat /\ b[k] \in Nat)
  BY LenProperties
<1>2. /\ f[0] = 0 /\ g[0] = 0
      /\ \A k \in 0 .. n : f[k] \in Nat /\ g[k] \in Nat
      /\ \A k \in 1 .. n : f[k] = f[k - 1] + a[k] /\ g[k] = g[k - 1] + b[k]
  BY SumsStep DEF SumsUp
<1>3. \A k \in 1 .. n : a[k] <= b[k] + (IF k \in S THEN d ELSE 0)
  BY DEF Exceeds
<1>4. ASSUME NEW k \in Nat
      PROVE  /\ IsFiniteSet(S \cap (1 .. k)) /\ C(k) \in Nat
             /\ C(k + 1) = C(k) + (IF k + 1 \in S THEN 1 ELSE 0)
  <2>1. IsFiniteSet(1 .. k) /\ S \cap (1 .. k) \in SUBSET (1 .. k)
    <3>1. IsFiniteSet(1 .. k)
      BY FS_Interval
    <3> QED
      BY <3>1
  <2>2. IsFiniteSet(S \cap (1 .. k)) /\ C(k) \in Nat
    BY <2>1, FS_Subset, FS_CardinalityType
  <2>3. CASE k + 1 \in S
    <3>1. S \cap (1 .. (k + 1)) = (S \cap (1 .. k)) \cup {k + 1}
      BY <2>3
    <3>2. k + 1 \notin S \cap (1 .. k)
      OBVIOUS
    <3> QED
      BY <2>2, <2>3, <3>1, <3>2, FS_AddElement
  <2>4. CASE k + 1 \notin S
    <3>1. S \cap (1 .. (k + 1)) = S \cap (1 .. k)
      BY <2>4, SMTT(30)
    <3>2. C(k + 1) = C(k)
      BY <3>1
    <3> HIDE DEF C
    <3> QED
      BY <2>2, <2>4, <3>2
  <2> QED
    BY <2>3, <2>4
<1>5. 0 \in U
  <2>1. S \cap (1 .. 0) = {}
    OBVIOUS
  <2>2. C(0) = 0
    BY <2>1, FS_EmptySet
  <2>3. More(0) = 0
    BY <2>2
  <2>4. f[0] <= g[0] + More(0)
    <3> HIDE DEF More, f, g
    <3> QED
      BY <1>2, <2>3
  <2> HIDE DEF More, f, g
  <2> QED
    BY <2>4
<1>6. ASSUME NEW k \in U
      PROVE  k + 1 \in U
  <2> SUFFICES ASSUME k + 1 <= n
               PROVE  f[k + 1] <= g[k + 1] + More(k + 1)
    OBVIOUS
  <2>1. k \in Nat /\ k <= n /\ k + 1 \in 1 .. n /\ k \in 0 .. n /\ (k + 1) - 1 = k
    BY <1>1
  <2>2. f[k] <= g[k] + More(k)
    BY <2>1
  <2> HIDE DEF C, f, g, U
  <2>3. /\ f[k + 1] = f[k] + a[k + 1] /\ g[k + 1] = g[k] + b[k + 1]
        /\ f[k] \in Nat /\ g[k] \in Nat /\ a[k + 1] \in Nat /\ b[k + 1] \in Nat
        /\ a[k + 1] <= b[k + 1] + (IF k + 1 \in S THEN d ELSE 0)
    BY <1>1, <1>2, <1>3, <2>1
  <2>4. C(k) \in Nat /\ C(k + 1) = C(k) + (IF k + 1 \in S THEN 1 ELSE 0)
    BY <1>4, <2>1
  <2>5. More(k) \in Int /\ More(k + 1) = More(k) + (IF k + 1 \in S THEN d ELSE 0)
    <3> DEFINE c == C(k)
    <3>1. c \in Nat /\ d * (c + 1) = d * c + d /\ d * (c + 0) = d * c /\ d * c \in Int
      BY <2>4
    <3> QED
      BY <2>4, <3>1
  <2> HIDE DEF More
  <2>6. CASE k + 1 \in S
    <3>1. a[k + 1] <= b[k + 1] + d
      BY <2>3, <2>6
    <3>2. More(k) \in Int /\ More(k + 1) = More(k) + d
      BY <2>5, <2>6
    <3> DEFINE p == f[k]
               r == g[k]
               u == a[k + 1]
               v == b[k + 1]
               m == More(k)
    <3>3. /\ p \in Int /\ r \in Int /\ u \in Int /\ v \in Int /\ m \in Int
          /\ p <= r + m /\ u <= v + d
          /\ f[k + 1] = p + u /\ g[k + 1] = r + v /\ More(k + 1) = m + d
      BY <2>2, <2>3, <3>1, <3>2
    <3> HIDE DEF p, r, u, v, m
    <3> QED
      BY <3>3
  <2>7. CASE k + 1 \notin S
    BY <2>2, <2>3, <2>5, <2>7, SMTT(30)
  <2> QED
    BY <2>6, <2>7
<1>7. f[n] <= g[n] + More(n)
  <2>1. U = Nat
    <3> HIDE DEF U
    <3> QED
      BY <1>5, <1>6, NatInduct DEF U
  <2>2. n \in U /\ n <= n
    <3> HIDE DEF U
    <3> QED
      BY <1>1, <2>1
  <2> HIDE DEF More, f, g
  <2> QED
    BY <2>2
<1>8. S \cap (1 .. n) = S
  OBVIOUS
<1> QED
  BY <1>7, <1>8

=============================================================================
