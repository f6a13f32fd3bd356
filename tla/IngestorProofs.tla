--------------------------- MODULE IngestorProofs ---------------------------
(***************************************************************************)
(* What holds of the ingestor for any number of sources and lines and any  *)
(* size of a read.                                                         *)
(*                                                                         *)
(* The first part is about strings.Split and the loop that uses it: cut    *)
(* anywhere, the lines of the whole are the lines of the first part        *)
(* followed by those of what was kept and the second part (LinesJoin).     *)
(* Split is made of the places of its separators in ascending order, so    *)
(* the facts that sorting needs come before it; they rest on every set of  *)
(* natural numbers having a smallest element.                              *)
(*                                                                         *)
(* The second part is what a source sends: bytes that are framed in lines  *)
(* (Framed), whose every beginning gives whole lines in ascending order    *)
(* (LinesOfFramed).  The third is the inductive invariant IInv.  Beside    *)
(* the types it says of each connection that what was handed over and kept *)
(* is what the bytes received give (Cut), that its bytes are framed, and   *)
(* that a stored line of the source either was handed over on this         *)
(* connection or is older than all of its bytes (Earlier): that is what    *)
(* orders the lines of two connections, and it needs to be known that no   *)
(* line is stored before it was sent (Known).                              *)
(***************************************************************************)
EXTENDS Ingestor, SequenceTheorems, FiniteSetTheorems, TLAPS

(***************************************************************************)
(* Induction over the natural numbers, for sets instead of operators.      *)
(***************************************************************************)
\* A set of numbers that is not empty has a smallest one.
LEMMA SmallestIn ==
    ASSUME NEW S \in SUBSET Nat, S # {}
    PROVE  \E x \in S : \A y \in S : x <= y
<1> DEFINE Less == OpToRel(<, Nat)
<1>1. \A x, y \in Nat : x < y => <<x, y>> \in Less
  BY DEF OpToRel
<1>2. IsWellFoundedOn(Less, Nat)
  BY NatLessThanWellFounded
<1> HIDE DEF Less
<1>3. PICK x \in S : \A y \in S : ~ (<<y, x>> \in Less)
  BY <1>2, WFMin, Zenon
<1>4. \A y \in S : x <= y
  <2> TAKE y \in S
  <2>1. x \in Nat /\ y \in Nat
    OBVIOUS
  <2>2. ~ (y < x)
    BY <1>1, <1>3, <2>1
  <2> QED BY <2>1, <2>2
<1> QED BY <1>4

\* A set with zero, and with the successor of each of its numbers, has all numbers.
LEMMA AllNumbers ==
    ASSUME NEW S \in SUBSET Nat, 0 \in S, \A n \in S : n + 1 \in S
    PROVE  S = Nat
<1> SUFFICES ASSUME Nat \ S # {} PROVE FALSE
  OBVIOUS
<1>1. PICK n \in Nat \ S : \A m \in Nat \ S : n <= m
  BY SmallestIn
<1>2. n - 1 \in Nat /\ n - 1 \notin Nat \ S
  BY <1>1
<1>3. (n - 1) + 1 \in S
  BY <1>2
<1> QED BY <1>1, <1>3

(***************************************************************************)
(* Ascending.                                                              *)
(***************************************************************************)
Increasing(f) == \A i, j \in DOMAIN f : i < j => f[i] < f[j]

LEMMA PartOfInterval ==
    ASSUME NEW N \in Nat, NEW S \in SUBSET (1 .. N)
    PROVE  IsFiniteSet(S) /\ Cardinality(S) \in Nat
<1>1. 1 \in Int /\ N \in Int
  OBVIOUS
<1>2. IsFiniteSet(1 .. N)
  BY <1>1, FS_Interval
<1>3. IsFiniteSet(S)
  BY <1>2, FS_Subset
<1> QED BY <1>3, FS_CardinalityType

\* The numbers of a set can be put in their order.
LEMMA AscendingExists ==
    ASSUME NEW N \in Nat, NEW S \in SUBSET (1 .. N)
    PROVE  \E f \in [1 .. Cardinality(S) -> S] : Increasing(f)
<1> DEFINE Sortable(T) == \E f \in [1 .. Cardinality(T) -> T] : Increasing(f)
           Bounds == {n \in Nat : \A T \in SUBSET (1 .. n) : Sortable(T)}
<1>1. 0 \in Bounds
  <2> SUFFICES ASSUME NEW T \in SUBSET (1 .. 0) PROVE Sortable(T)
    OBVIOUS
  <2>1. T = {} /\ Cardinality({}) = 0
    BY FS_EmptySet
  <2>2. 1 .. 0 = {}
    OBVIOUS
  <2>3. PICK f : f = [i \in 1 .. 0 |-> i]
    OBVIOUS
  <2>4. f \in [1 .. 0 -> {}] /\ Increasing(f)
    BY <2>2, <2>3 DEF Increasing
  <2> QED BY <2>1, <2>4
<1>2. ASSUME NEW n \in Bounds PROVE n + 1 \in Bounds
  <2> SUFFICES ASSUME NEW T \in SUBSET (1 .. n + 1) PROVE Sortable(T)
    OBVIOUS
  <2>1. CASE n + 1 \notin T
    <3>1. T \subseteq 1 .. n
      BY <2>1
    <3> QED BY <3>1
  <2>2. CASE n + 1 \in T
    <3> DEFINE U == T \ {n + 1}
               c == Cardinality(U)
    <3>1. U \in SUBSET (1 .. n) /\ T = U \cup {n + 1} /\ n + 1 \notin U
      BY <2>2
    <3>2. n \in Nat
      BY DEF Bounds
    <3>3. IsFiniteSet(U) /\ c \in Nat
      BY <3>1, <3>2, PartOfInterval
    <3>4. Cardinality(U \cup {n + 1}) = Cardinality(U) + 1
      BY <3>1, <3>3, FS_AddElement
    <3>5. Cardinality(T) = c + 1
      BY <3>1, <3>4
    <3> HIDE DEF c
    <3>6. PICK f \in [1 .. c -> U] : Increasing(f)
      BY <3>1 DEF c
    <3>7. PICK g : g = [i \in 1 .. c + 1 |-> IF i = c + 1 THEN n + 1 ELSE f[i]]
      OBVIOUS
    <3>8. g \in [1 .. c + 1 -> T]
      BY <3>1, <3>3, <3>6, <3>7
    <3>9. ASSUME NEW i \in 1 .. c + 1, NEW j \in 1 .. c + 1, i < j PROVE g[i] < g[j]
      <4>1. i \in 1 .. c
        BY <3>3, <3>9
      <4>2. f[i] \in 1 .. n
        BY <3>1, <3>6, <4>1
      <4>3. CASE j = c + 1
        BY <3>2, <3>3, <3>7, <4>1, <4>2, <4>3
      <4>4. CASE j # c + 1
        BY <3>3, <3>6, <3>7, <3>9, <4>1, <4>4 DEF Increasing
      <4> QED BY <4>3, <4>4
    <3> QED BY <3>5, <3>8, <3>9 DEF Increasing
  <2> QED BY <2>1, <2>2
<1> HIDE DEF Bounds
<1>3. Bounds = Nat
  <2>1. Bounds \in SUBSET Nat
    BY DEF Bounds
  <2> QED BY <1>1, <1>2, <2>1, AllNumbers
<1> QED BY <1>3 DEF Bounds

\* What is numbered in increasing order is numbered once.
LEMMA IncreasingOnce ==
    ASSUME NEW m \in Nat, NEW S \in SUBSET Nat, NEW f \in [1 .. m -> S], Increasing(f),
           NEW i \in 1 .. m, NEW j \in 1 .. m
    PROVE  /\ f[i] = f[j] => i = j
           /\ f[i] < f[j] => i < j
<1>1. /\ f[i] \in Nat /\ f[j] \in Nat /\ i \in Nat /\ j \in Nat
      /\ DOMAIN f = 1 .. m
  <2>1. f[i] \in S /\ f[j] \in S /\ DOMAIN f = 1 .. m
    OBVIOUS
  <2>2. i \in Nat /\ j \in Nat
    OBVIOUS
  <2> QED BY <2>1, <2>2
<1>2. i < j => f[i] < f[j]
  BY <1>1 DEF Increasing
<1>3. j < i => f[j] < f[i]
  BY <1>1 DEF Increasing
<1> QED BY <1>1, <1>2, <1>3

\* Ascending has every number of the set, in increasing order.
LEMMA AscendingIs ==
    ASSUME NEW N \in Nat, NEW S \in SUBSET (1 .. N)
    PROVE  /\ IsFiniteSet(S) /\ Cardinality(S) \in Nat
           /\ Ascending(S) \in [1 .. Cardinality(S) -> S]
           /\ Increasing(Ascending(S))
           /\ \A x \in S : \E i \in 1 .. Cardinality(S) : Ascending(S)[i] = x
<1> DEFINE c == Cardinality(S)
           f == Ascending(S)
<1>1. IsFiniteSet(S) /\ c \in Nat
  BY PartOfInterval
<1>2. f \in [1 .. c -> S] /\ Increasing(f)
  BY AscendingExists DEF Ascending, Increasing
<1> HIDE DEF c, f
<1>3. \A i, j \in 1 .. c : f[i] = f[j] => i = j
  <2>1. S \in SUBSET Nat
    OBVIOUS
  <2> QED BY <1>1, <1>2, <2>1, IncreasingOnce
<1>4. f \in Injection(1 .. c, S)
  BY <1>2, <1>3 DEF Injection, IsInjective
<1>5. Cardinality(1 .. c) = c
  <2>1. 1 \in Int /\ c \in Int
    BY <1>1
  <2>2. Cardinality(1 .. c) = IF 1 > c THEN 0 ELSE c - 1 + 1
    BY <2>1, FS_Interval
  <2> QED BY <1>1, <2>2
<1>6. f \in Surjection(1 .. c, S)
  BY <1>1, <1>4, <1>5, FS_Injection DEF c
<1> QED BY <1>1, <1>2, <1>6 DEF Surjection, c, f

\* There is one such sequence only.
LEMMA AscendingUnique ==
    ASSUME NEW N \in Nat, NEW S \in SUBSET (1 .. N), NEW m \in Nat,
           NEW g \in [1 .. m -> S], Increasing(g),
           \A x \in S : \E i \in 1 .. m : g[i] = x
    PROVE  Cardinality(S) = m /\ Ascending(S) = g
<1> DEFINE f == Ascending(S)
<1>1. S \in SUBSET Nat
  OBVIOUS
<1> DEFINE Orderly(s) == \A i, j \in 1 .. m : (s[i] = s[j] => i = j) /\ (s[i] < s[j] => i < j)
<1>2. Orderly(g)
  BY <1>1, IncreasingOnce
<1>3. Cardinality(S) = m
  <2>1. g \in Bijection(1 .. m, S)
    BY <1>2 DEF Bijection, Injection, Surjection, IsInjective
  <2> QED BY <2>1, FS_CountingElements DEF ExistsBijection
<1>4. /\ f \in [1 .. m -> S] /\ Increasing(f)
      /\ \A x \in S : \E i \in 1 .. m : f[i] = x
  BY <1>3, AscendingIs
<1> HIDE DEF f
<1>5. Orderly(f)
  <2>1. f \in [1 .. m -> S] /\ Increasing(f)
    BY <1>4
  <2> QED BY <1>1, <2>1, IncreasingOnce
<1> DEFINE Differ == {k \in 1 .. m : f[k] # g[k]}
<1>6. ASSUME Differ # {} PROVE FALSE
  <2>1. Differ \in SUBSET Nat
    OBVIOUS
  <2>2. PICK k \in Differ : \A j \in Differ : k <= j
    BY <1>6, <2>1, SmallestIn
  <2>3. k \in 1 .. m /\ f[k] # g[k] /\ f[k] \in S /\ g[k] \in S
    BY <1>4, <2>2
  <2>4. \A j \in 1 .. m : j < k => f[j] = g[j]
    BY <2>2, <2>3
  <2>5. f[k] \in Nat /\ g[k] \in Nat
    BY <1>1, <2>3
  <2>6. PICK a \in 1 .. m : g[a] = f[k]
    BY <2>3
  <2>7. PICK b \in 1 .. m : f[b] = g[k]
    BY <1>4, <2>3
  <2>8. CASE f[k] < g[k]
    <3>1. a < k
      BY <1>2, <2>3, <2>6, <2>8
    <3>2. f[a] = f[k]
      BY <2>4, <2>6, <3>1
    <3>3. a = k
      BY <1>5, <2>3, <2>6, <3>2
    <3> QED BY <2>3, <2>6, <3>3
  <2>9. CASE g[k] < f[k]
    <3>1. b < k
      BY <1>5, <2>3, <2>7, <2>9
    <3>2. g[b] = g[k]
      BY <2>4, <2>7, <3>1
    <3>3. b = k
      BY <1>2, <2>3, <2>7, <3>2
    <3> QED BY <2>3, <2>7, <3>3
  <2> QED BY <2>3, <2>5, <2>8, <2>9
<1>7. f = g
  BY <1>4, <1>6
<1> QED BY <1>3, <1>7 DEF f

\* Two sets of numbers, and two sequences, the second moved behind the first.
Joined(S, N, T) == S \cup {N + t : t \in T}
Moved(f, N, g) == [k \in 1 .. Len(f) + Len(g) |-> IF k <= Len(f) THEN f[k] ELSE N + g[k - Len(f)]]

\* Numbers up to N come before numbers beyond N.
LEMMA AscendingJoin ==
    ASSUME NEW N \in Nat, NEW S \in SUBSET (1 .. N), NEW M \in Nat, NEW T \in SUBSET (1 .. M)
    PROVE  /\ Cardinality(Joined(S, N, T)) = Cardinality(S) + Cardinality(T)
           /\ Ascending(Joined(S, N, T)) = Moved(Ascending(S), N, Ascending(T))
<1> DEFINE U == Joined(S, N, T)
           f == Ascending(S)
           g == Ascending(T)
           p == Cardinality(S)
           q == Cardinality(T)
           h == [k \in 1 .. p + q |-> IF k <= p THEN f[k] ELSE N + g[k - p]]
<1>1. /\ p \in Nat /\ f \in [1 .. p -> S] /\ Increasing(f)
      /\ \A x \in S : \E i \in 1 .. p : f[i] = x
  BY AscendingIs
<1>2. /\ q \in Nat /\ g \in [1 .. q -> T] /\ Increasing(g)
      /\ \A x \in T : \E i \in 1 .. q : g[i] = x
  BY AscendingIs
<1>3. f \in Seq(S) /\ g \in Seq(T) /\ Len(f) = p /\ Len(g) = q
  BY <1>1, <1>2
<1>. \A x : x \in U <=> x \in S \/ \E t \in T : x = N + t
  BY DEF Joined
<1> HIDE DEF f, g, p, q, U
<1>4. U \in SUBSET (1 .. N + M)
  <2>1. \A t \in T : N + t \in 1 .. N + M
    OBVIOUS
  <2>2. \A x \in S : x \in 1 .. N + M
    OBVIOUS
  <2>3. \A x \in U : x \in 1 .. N + M
    BY ZenonT(60), <2>1, <2>2
  <2> QED BY <2>3
<1>5. h \in [1 .. p + q -> U]
  <2> SUFFICES ASSUME NEW k \in 1 .. p + q PROVE h[k] \in U
    OBVIOUS
  <2>1. CASE k <= p
    BY <1>1, <2>1
  <2>2. CASE ~ (k <= p)
    <3>1. k - p \in 1 .. q
      BY <1>1, <1>2, <2>2
    <3>2. g[k - p] \in T
      BY <1>2, <3>1
    <3> QED BY <2>2, <3>2
  <2> QED BY <2>1, <2>2
<1>6. Increasing(h)
  <2> SUFFICES ASSUME NEW i \in 1 .. p + q, NEW j \in 1 .. p + q, i < j PROVE h[i] < h[j]
    BY DEF Increasing
  <2>1. CASE j <= p
    <3>1. i \in 1 .. p /\ j \in 1 .. p
      BY <1>1, <1>2, <2>1
    <3> QED BY <1>1, <3>1 DEF Increasing
  <2>2. CASE ~ (i <= p)
    <3>1. i - p \in 1 .. q /\ j - p \in 1 .. q /\ i - p < j - p /\ ~ (j <= p)
      BY <1>1, <1>2, <2>2
    <3>2. g[i - p] \in 1 .. M /\ g[j - p] \in 1 .. M
      BY <1>2, <3>1
    <3>3. g[i - p] < g[j - p]
      BY <1>2, <3>1 DEF Increasing
    <3> QED BY <2>2, <3>1, <3>2, <3>3
  <2>3. CASE i <= p /\ ~ (j <= p)
    <3>1. i \in 1 .. p /\ j - p \in 1 .. q
      BY <1>1, <1>2, <2>3
    <3>2. f[i] \in 1 .. N /\ g[j - p] \in 1 .. M
      BY <1>1, <1>2, <3>1
    <3> QED BY <2>3, <3>2
  <2> QED BY <2>1, <2>2, <2>3
<1>7. \A x \in U : \E k \in 1 .. p + q : h[k] = x
  <2> SUFFICES ASSUME NEW x \in U PROVE \E k \in 1 .. p + q : h[k] = x
    OBVIOUS
  <2>1. CASE x \in S
    <3>1. PICK i \in 1 .. p : f[i] = x
      BY <1>1, <2>1
    <3>2. i \in 1 .. p + q /\ i <= p
      BY <1>1, <1>2
    <3> QED BY <3>1, <3>2
  <2>2. ASSUME NEW t \in T, x = N + t PROVE \E k \in 1 .. p + q : h[k] = x
    <3>1. PICK i \in 1 .. q : g[i] = t
      BY <1>2
    <3>2. p + i \in 1 .. p + q /\ ~ (p + i <= p) /\ (p + i) - p = i
      BY <1>1, <1>2
    <3> QED BY <2>2, <3>1, <3>2
  <2> QED BY <2>1, <2>2
<1>8. p + q \in Nat /\ N + M \in Nat
  BY <1>1, <1>2
<1>9. h = Moved(f, N, g)
  BY <1>3 DEF Moved
<1> HIDE DEF h
<1>10. Cardinality(U) = p + q /\ Ascending(U) = h
  BY <1>4, <1>5, <1>6, <1>7, <1>8, AscendingUnique
<1> QED BY <1>9, <1>10 DEF f, g, p, q, U

(***************************************************************************)
(* Split.  Its pieces are Closed, those that a separator ends, and Kept,   *)
(* what follows the last separator.                                        *)
(***************************************************************************)
Ends(data)     == Ascending(Separators(data))
Count(data)    == Len(Ends(data))
Start(data, k) == IF k = 1 THEN 1 ELSE Ends(data)[k - 1] + 2
Closed(data)   == [k \in 1 .. Count(data) |-> SubSeq(data, Start(data, k), Ends(data)[k] - 1)]
Kept(data)     == SubSeq(data, Start(data, Count(data) + 1), Len(data))

LEMMA EndsAre ==
    ASSUME NEW B, NEW d \in Seq(B)
    PROVE  /\ Count(d) \in Nat /\ Count(d) = Cardinality(Separators(d))
           /\ Ends(d) \in [1 .. Count(d) -> Separators(d)]
           /\ Increasing(Ends(d))
           /\ \A x \in Separators(d) : \E i \in 1 .. Count(d) : Ends(d)[i] = x
           /\ Separators(d) \in SUBSET (1 .. Len(d))
<1> DEFINE S == Separators(d)
<1>1. Len(d) \in Nat
  BY LenProperties
<1>2. S \in SUBSET (1 .. Len(d))
  BY <1>1 DEF Separators
<1>3. /\ Cardinality(S) \in Nat
      /\ Ends(d) \in [1 .. Cardinality(S) -> S]
      /\ Increasing(Ends(d))
      /\ \A x \in S : \E i \in 1 .. Cardinality(S) : Ends(d)[i] = x
  BY <1>1, <1>2, AscendingIs DEF Ends
<1> HIDE DEF S
<1>4. Len(Ends(d)) = Cardinality(S)
  BY <1>3
<1> QED BY <1>2, <1>3, <1>4 DEF S, Count

\* Where pieces begin: behind the separator before, and not behind their own.
LEMMA StartsAre ==
    ASSUME NEW B, NEW d \in Seq(B), NEW k \in 1 .. Count(d) + 1
    PROVE  /\ Start(d, k) \in 1 .. Len(d) + 1
           /\ k > 1 => d[Start(d, k) - 1] = LF
           /\ k \in 1 .. Count(d) => Start(d, k) <= Ends(d)[k]
           /\ \A x \in Separators(d) : x >= Start(d, k) => \E i \in k .. Count(d) : Ends(d)[i] = x
<1>1. Len(d) \in Nat /\ Count(d) \in Nat
  BY LenProperties, EndsAre
<1>2. CR # LF
  BY DEF CR, LF
<1>3. ASSUME NEW i \in 1 .. Count(d)
      PROVE  Ends(d)[i] \in 1 .. Len(d) - 1 /\ d[Ends(d)[i]] = CR /\ d[Ends(d)[i] + 1] = LF
  <2>1. Ends(d)[i] \in Separators(d)
    BY EndsAre
  <2> QED BY <2>1 DEF Separators
<1>4. \A i, j \in 1 .. Count(d) : i < j => Ends(d)[i] < Ends(d)[j]
  <2>1. DOMAIN Ends(d) = 1 .. Count(d) /\ Increasing(Ends(d))
    BY EndsAre
  <2> QED BY <2>1 DEF Increasing
<1>5. \A x \in Separators(d) : \E i \in 1 .. Count(d) : Ends(d)[i] = x
  BY EndsAre
<1>6. CASE k = 1
  <2>1. Start(d, k) = 1
    BY <1>6 DEF Start
  <2>2. k \in 1 .. Count(d) => 1 <= Ends(d)[k]
    BY <1>1, <1>3
  <2> QED BY <1>1, <1>5, <1>6, <2>1, <2>2
<1>7. CASE k # 1
  <2> DEFINE e == Ends(d)[k - 1]
  <2>1. k - 1 \in 1 .. Count(d) /\ k > 1
    BY <1>1, <1>7
  <2>2. Start(d, k) = e + 2 /\ e \in 1 .. Len(d) - 1 /\ d[e + 1] = LF
    BY <1>3, <1>7, <2>1 DEF Start
  <2> HIDE DEF e
  <2>3. Start(d, k) \in 1 .. Len(d) + 1 /\ d[Start(d, k) - 1] = LF
    <3>1. Start(d, k) - 1 = e + 1
      BY <2>2
    <3> QED BY <1>1, <2>2, <3>1
  <2>4. k \in 1 .. Count(d) => Start(d, k) <= Ends(d)[k]
    <3> SUFFICES ASSUME k \in 1 .. Count(d) PROVE Start(d, k) <= Ends(d)[k]
      OBVIOUS
    <3>1. e < Ends(d)[k]
      BY <1>4, <2>1 DEF e
    <3>2. Ends(d)[k] \in 1 .. Len(d) - 1 /\ d[Ends(d)[k]] = CR
      BY <1>3
    <3>3. Ends(d)[k] # e + 1
      BY <1>2, <2>2, <3>2
    <3> QED BY <1>1, <2>2, <3>1, <3>2, <3>3
  <2>5. ASSUME NEW x \in Separators(d), x >= Start(d, k)
        PROVE  \E i \in k .. Count(d) : Ends(d)[i] = x
    <3>1. PICK i \in 1 .. Count(d) : Ends(d)[i] = x
      BY <1>5
    <3>2. x \in Nat /\ x > e
      BY <1>3, <2>2, <2>5, <3>1
    <3>3. i # k - 1 /\ ~ (i < k - 1)
      BY <1>4, <2>1, <2>2, <3>1, <3>2 DEF e
    <3> QED BY <1>1, <3>1, <3>3
  <2> QED BY <2>3, <2>4, <2>5
<1> QED BY <1>6, <1>7

\* What Read makes of a split: the pieces but the last, and the last.
LEMMA SplitIs ==
    ASSUME NEW B, NEW d \in Seq(B)
    PROVE  Front(Split(d)) = Closed(d) /\ Last(Split(d)) = Kept(d)
<1> DEFINE c == Count(d)
           until(k) == IF k = c + 1 THEN Len(d) ELSE Ends(d)[k] - 1
           pieces == [k \in 1 .. c + 1 |-> SubSeq(d, Start(d, k), until(k))]
<1>1. Split(d) = pieces
  BY DEF Split, Start, Ends, Count
<1>2. c \in Nat
  BY EndsAre
<1>3. Kept(d) = SubSeq(d, Start(d, c + 1), Len(d)) /\ Closed(d) = [k \in 1 .. c |-> SubSeq(d, Start(d, k), Ends(d)[k] - 1)]
  BY DEF Kept, Closed
<1> HIDE DEF c
<1>4. Len(pieces) = c + 1 /\ c + 1 \in 1 .. c + 1
  BY <1>2
<1>5. Last(pieces) = Kept(d)
  BY <1>2, <1>3, <1>4 DEF Last
<1>6. Front(pieces) = [k \in 1 .. c |-> pieces[k]]
  BY <1>2, <1>4 DEF Front
<1>7. ASSUME NEW k \in 1 .. c PROVE pieces[k] = SubSeq(d, Start(d, k), Ends(d)[k] - 1)
  <2>1. k \in 1 .. c + 1 /\ k # c + 1
    BY <1>2
  <2> QED BY <2>1
<1>8. Front(pieces) = Closed(d)
  BY <1>3, <1>6, <1>7
<1> QED BY <1>1, <1>5, <1>8

LEMMA SamePart ==
    ASSUME NEW B, NEW a \in Seq(B), NEW d \in Seq(B), NEW o \in Nat, NEW x \in Nat \ {0}, NEW y \in Int,
           y <= Len(a), \A i \in x .. y : o + i \in 1 .. Len(d) /\ d[o + i] = a[i]
    PROVE  SubSeq(a, x, y) \in Seq(B) /\ SubSeq(d, o + x, o + y) = SubSeq(a, x, y)
<1>1. Len(a) \in Nat /\ Len(d) \in Nat /\ DOMAIN a = 1 .. Len(a) /\ DOMAIN d = 1 .. Len(d)
  BY LenProperties
<1>2. \A i \in x .. y : a[i] \in B
  BY <1>1, ElementOfSeq
<1>3. /\ SubSeq(a, x, y) \in Seq(B) /\ Len(SubSeq(a, x, y)) = IF x <= y THEN y - x + 1 ELSE 0
      /\ \A i \in 1 .. y - x + 1 : SubSeq(a, x, y)[i] = a[x + i - 1]
  BY <1>2, SubSeqProperties
<1>4. \A i \in o + x .. o + y : d[i] \in B
  <2> SUFFICES ASSUME NEW i \in o + x .. o + y PROVE d[i] \in B
    OBVIOUS
  <2>1. i - o \in x .. y /\ o + (i - o) = i
    OBVIOUS
  <2>2. i \in 1 .. Len(d)
    BY <2>1
  <2> QED BY <2>2, ElementOfSeq
<1>5. o + x \in Int /\ o + y \in Int /\ (o + y) - (o + x) + 1 = y - x + 1 /\ (o + x <= o + y <=> x <= y)
  OBVIOUS
<1>6. /\ SubSeq(d, o + x, o + y) \in Seq(B)
      /\ Len(SubSeq(d, o + x, o + y)) = IF x <= y THEN y - x + 1 ELSE 0
      /\ \A i \in 1 .. y - x + 1 : SubSeq(d, o + x, o + y)[i] = d[o + x + i - 1]
  BY <1>4, <1>5, SubSeqProperties
<1>7. ASSUME NEW i \in 1 .. y - x + 1 PROVE d[o + x + i - 1] = a[x + i - 1]
  <2>1. x + i - 1 \in x .. y /\ o + (x + i - 1) = o + x + i - 1
    OBVIOUS
  <2> QED BY <2>1
<1>8. CASE x <= y
  <2>1. \A i \in 1 .. Len(SubSeq(a, x, y)) : SubSeq(d, o + x, o + y)[i] = SubSeq(a, x, y)[i]
    BY <1>3, <1>6, <1>7, <1>8
  <2> QED BY <1>3, <1>6, <1>8, <2>1, SeqEqual
<1>9. CASE ~ (x <= y)
  <2>1. SubSeq(a, x, y) = <<>> /\ SubSeq(d, o + x, o + y) = <<>>
    BY <1>3, <1>6, <1>9, EmptySeq
  <2> QED BY <1>3, <2>1
<1> QED BY <1>8, <1>9

\* How many bytes the closed pieces and their separators take.
Offset(data) == Start(data, Count(data) + 1) - 1

LEMMA KeptIs ==
    ASSUME NEW B, NEW d \in Seq(B)
    PROVE  /\ Offset(d) \in 0 .. Len(d)
           /\ Kept(d) \in Seq(B) /\ Len(Kept(d)) = Len(d) - Offset(d)
           /\ \A i \in 1 .. Len(Kept(d)) : Kept(d)[i] = d[Offset(d) + i]
           /\ Offset(d) > 0 => d[Offset(d)] = LF
           /\ \A x \in Separators(d) : x < Offset(d)
<1> DEFINE o == Offset(d)
<1>1. Len(d) \in Nat /\ Count(d) \in Nat /\ Count(d) + 1 \in 1 .. Count(d) + 1
  BY LenProperties, EndsAre
<1>2. Start(d, Count(d) + 1) = o + 1 /\ o \in 0 .. Len(d)
  <2>1. Start(d, Count(d) + 1) \in 1 .. Len(d) + 1
    BY <1>1, StartsAre
  <2> QED BY <1>1, <2>1 DEF Offset
<1>3. o > 0 => d[o] = LF
  <2>1. o > 0 => Count(d) + 1 > 1
    BY <1>1, <1>2 DEF Start
  <2>2. Count(d) + 1 > 1 => d[Start(d, Count(d) + 1) - 1] = LF
    BY <1>1, StartsAre
  <2> QED BY <2>1, <2>2 DEF Offset
<1>4. ASSUME NEW x \in Separators(d) PROVE x < o
  <2>1. x \in 1 .. Len(d) - 1 /\ d[x] = CR
    BY DEF Separators
  <2>2. ~ (x >= o + 1)
    <3>1. \A z \in Separators(d) : z >= Start(d, Count(d) + 1) => \E i \in Count(d) + 1 .. Count(d) : Ends(d)[i] = z
      BY <1>1, StartsAre
    <3>2. Count(d) + 1 .. Count(d) = {}
      BY <1>1
    <3> QED BY <1>2, <3>1, <3>2
  <2>3. x # o
    BY <1>3, <2>1 DEF CR, LF
  <2> QED BY <1>2, <2>1, <2>2, <2>3
<1> HIDE DEF o
<1>5. Kept(d) = SubSeq(d, o + 1, Len(d))
  BY <1>2 DEF Kept
<1>6. /\ Kept(d) \in Seq(B) /\ Len(Kept(d)) = IF o + 1 <= Len(d) THEN Len(d) - (o + 1) + 1 ELSE 0
      /\ \A i \in 1 .. Len(d) - (o + 1) + 1 : Kept(d)[i] = d[o + 1 + i - 1]
  <2>1. \A i \in o + 1 .. Len(d) : d[i] \in B
    BY <1>1, <1>2, ElementOfSeq
  <2>2. o + 1 \in Int /\ Len(d) \in Int
    BY <1>1, <1>2
  <2> QED BY <1>5, <2>1, <2>2, SubSeqProperties
<1>7. Len(Kept(d)) = Len(d) - o
  BY <1>1, <1>2, <1>6
<1>8. \A i \in 1 .. Len(Kept(d)) : Kept(d)[i] = d[o + i]
  <2> SUFFICES ASSUME NEW i \in 1 .. Len(Kept(d)) PROVE Kept(d)[i] = d[o + i]
    OBVIOUS
  <2>1. i \in 1 .. Len(d) - (o + 1) + 1 /\ o + 1 + i - 1 = o + i
    BY <1>1, <1>2, <1>7
  <2> QED BY <1>6, <2>1
<1> QED BY <1>2, <1>3, <1>4, <1>6, <1>7, <1>8 DEF o

LEMMA ClosedAre ==
    ASSUME NEW B, NEW d \in Seq(B)
    PROVE  Closed(d) \in Seq(Seq(B)) /\ Len(Closed(d)) = Count(d)
<1>1. Count(d) \in Nat /\ Len(d) \in Nat
  BY EndsAre, LenProperties
<1>2. ASSUME NEW k \in 1 .. Count(d) PROVE SubSeq(d, Start(d, k), Ends(d)[k] - 1) \in Seq(B)
  <2>1. k \in 1 .. Count(d) + 1
    BY <1>1
  <2>2. Start(d, k) \in 1 .. Len(d) + 1
    BY <2>1, StartsAre
  <2>3. Ends(d)[k] \in 1 .. Len(d) - 1
    BY EndsAre DEF Separators
  <2>4. \A i \in Start(d, k) .. Ends(d)[k] - 1 : d[i] \in B
    BY <1>1, <2>2, <2>3, ElementOfSeq
  <2> QED BY <2>2, <2>3, <2>4, SubSeqProperties
<1>3. Closed(d) \in [1 .. Count(d) -> Seq(B)]
  BY <1>2 DEF Closed
<1> QED BY <1>1, <1>3

\* To split what was kept together with what came is to go on with the split of it all.
LEMMA SplitJoin ==
    ASSUME NEW B, NEW a \in Seq(B), NEW g \in Seq(B)
    PROVE  /\ Closed(a \o g) = Closed(a) \o Closed(Kept(a) \o g)
           /\ Kept(a \o g) = Kept(Kept(a) \o g)
<1> DEFINE d == a \o g
           b == Kept(a) \o g
           o == Offset(a)
           p == Count(a)
           q == Count(b)
<1>1. /\ d \in Seq(B) /\ Len(d) = Len(a) + Len(g) /\ Len(a) \in Nat /\ Len(g) \in Nat
      /\ \A i \in 1 .. Len(a) + Len(g) : d[i] = IF i <= Len(a) THEN a[i] ELSE g[i - Len(a)]
  BY ConcatProperties, LenProperties
<1>2. /\ o \in 0 .. Len(a) /\ Kept(a) \in Seq(B) /\ Len(Kept(a)) = Len(a) - o
      /\ \A i \in 1 .. Len(Kept(a)) : Kept(a)[i] = a[o + i]
      /\ o > 0 => a[o] = LF
      /\ \A x \in Separators(a) : x < o
  BY KeptIs
<1>3. /\ b \in Seq(B) /\ Len(b) = Len(Kept(a)) + Len(g)
      /\ \A i \in 1 .. Len(Kept(a)) + Len(g) :
            b[i] = IF i <= Len(Kept(a)) THEN Kept(a)[i] ELSE g[i - Len(Kept(a))]
  BY <1>2, ConcatProperties
<1> HIDE DEF d, b, o
<1>4. Len(b) \in Nat /\ Len(d) = o + Len(b) /\ o \in Nat /\ o <= Len(a) /\ Len(a) <= Len(d)
  BY <1>1, <1>2, <1>3
<1>5. ASSUME NEW i \in 1 .. Len(b) PROVE o + i \in 1 .. Len(d) /\ d[o + i] = b[i]
  <2>1. CASE i <= Len(a) - o
    <3>1. b[i] = a[o + i] /\ d[o + i] = a[o + i]
      BY <1>1, <1>2, <1>3, <1>4, <2>1
    <3> QED BY <1>4, <3>1
  <2>2. CASE ~ (i <= Len(a) - o)
    <3>1. i - Len(Kept(a)) = (o + i) - Len(a) /\ ~ (o + i <= Len(a)) /\ o + i \in 1 .. Len(a) + Len(g)
      BY <1>1, <1>2, <1>4, <2>2
    <3>2. b[i] = g[i - Len(Kept(a))] /\ d[o + i] = g[(o + i) - Len(a)]
      BY <1>1, <1>2, <1>3, <1>4, <2>2, <3>1
    <3> QED BY <1>1, <3>1, <3>2
  <2> QED BY <2>1, <2>2
<1>6. \A i \in 1 .. Len(a) : d[i] = a[i]
  BY <1>1
<1>7. Separators(d) = Joined(Separators(a), o, Separators(b))
  <2>1. ASSUME NEW x \in Separators(a) PROVE x \in Separators(d)
    <3>1. x \in 1 .. Len(a) - 1 /\ a[x] = CR /\ a[x + 1] = LF
      BY DEF Separators
    <3>2. x \in 1 .. Len(d) - 1 /\ x \in 1 .. Len(a) /\ x + 1 \in 1 .. Len(a)
      BY <1>1, <3>1
    <3> QED BY <1>6, <3>1, <3>2 DEF Separators
  <2>2. ASSUME NEW t \in Separators(b) PROVE o + t \in Separators(d)
    <3>1. t \in 1 .. Len(b) - 1 /\ b[t] = CR /\ b[t + 1] = LF
      BY DEF Separators
    <3>2. t \in 1 .. Len(b) /\ t + 1 \in 1 .. Len(b) /\ o + (t + 1) = o + t + 1 /\ o + t \in 1 .. Len(d) - 1
      BY <1>4, <3>1
    <3>3. d[o + t] = b[t] /\ d[o + (t + 1)] = b[t + 1]
      BY <1>5, <3>2
    <3> QED BY <3>1, <3>2, <3>3 DEF Separators
  <2>3. ASSUME NEW x \in Separators(d), x <= o PROVE x \in Separators(a)
    <3>1. x \in 1 .. Len(d) - 1 /\ d[x] = CR /\ d[x + 1] = LF
      BY DEF Separators
    <3>2. x \in 1 .. Len(a)
      BY <1>4, <2>3, <3>1
    <3>3. x # o
      BY <1>2, <1>4, <1>6, <3>1, <3>2 DEF CR, LF
    <3>4. x + 1 \in 1 .. Len(a) /\ x \in 1 .. Len(a) - 1
      BY <1>1, <1>4, <2>3, <3>1, <3>3
    <3> QED BY <1>6, <3>1, <3>2, <3>4 DEF Separators
  <2>4. ASSUME NEW x \in Separators(d), ~ (x <= o) PROVE \E t \in Separators(b) : x = o + t
    <3>1. x \in 1 .. Len(d) - 1 /\ d[x] = CR /\ d[x + 1] = LF
      BY DEF Separators
    <3>2. /\ x - o \in 1 .. Len(b) - 1 /\ x - o \in 1 .. Len(b) /\ x - o + 1 \in 1 .. Len(b)
          /\ o + (x - o) = x /\ o + (x - o + 1) = x + 1
      BY <1>4, <2>4, <3>1
    <3>3. d[o + (x - o)] = b[x - o] /\ d[o + (x - o + 1)] = b[x - o + 1]
      BY <1>5, <3>2
    <3>4. x - o \in Separators(b)
      BY <3>1, <3>2, <3>3 DEF Separators
    <3> QED BY <3>2, <3>4
  <2> QED BY <2>1, <2>2, <2>3, <2>4 DEF Joined
<1>8. /\ p \in Nat /\ q \in Nat
      /\ Ends(a) \in [1 .. p -> Separators(a)] /\ Ends(b) \in [1 .. q -> Separators(b)]
      /\ p = Cardinality(Separators(a)) /\ q = Cardinality(Separators(b))
      /\ Count(d) = Cardinality(Separators(d))
  BY <1>1, <1>3, EndsAre
<1>9. /\ Count(d) = p + q
      /\ Ends(d) = [k \in 1 .. p + q |-> IF k <= p THEN Ends(a)[k] ELSE o + Ends(b)[k - p]]
  <2>1. Separators(a) \in SUBSET (1 .. o)
    <3>1. \A x \in Separators(a) : x \in Nat /\ x >= 1
      BY <1>1 DEF Separators
    <3> QED BY <1>2, <1>4, <3>1
  <2>2. Separators(b) \in SUBSET (1 .. Len(b))
    BY <1>3, EndsAre
  <2>3. /\ Cardinality(Separators(d)) = Cardinality(Separators(a)) + Cardinality(Separators(b))
        /\ Ascending(Separators(d)) = Moved(Ascending(Separators(a)), o, Ascending(Separators(b)))
    BY ZenonT(60), <1>4, <1>7, <2>1, <2>2, AscendingJoin
  <2>4. Len(Ends(a)) = p /\ Len(Ends(b)) = q
    BY DEF Count
  <2> QED BY <1>8, <2>3, <2>4 DEF Ends, Moved
<1> HIDE DEF p, q
<1>10. ASSUME NEW k \in 1 .. p PROVE k \in 1 .. p + q /\ Ends(d)[k] = Ends(a)[k]
  BY <1>8, <1>9
<1>11. ASSUME NEW k \in 1 .. q PROVE p + k \in 1 .. p + q /\ Ends(d)[p + k] = o + Ends(b)[k]
  <2>1. p + k \in 1 .. p + q /\ ~ (p + k <= p) /\ p + k - p = k
    BY <1>8
  <2>2. PICK j : j = p + k
    OBVIOUS
  <2>3. j \in 1 .. p + q /\ ~ (j <= p) /\ j - p = k
    BY <1>8, <2>1, <2>2
  <2>4. Ends(d)[j] = o + Ends(b)[j - p]
    BY <1>9, <2>3
  <2> QED BY <2>1, <2>2, <2>3, <2>4
<1>12. ASSUME NEW k \in 1 .. p + 1 PROVE Start(d, k) = Start(a, k)
  <2>1. CASE k = 1
    BY <2>1 DEF Start
  <2>2. CASE k # 1
    <3>1. k - 1 \in 1 .. p
      BY <1>8, <2>2
    <3> QED BY <1>10, <2>2, <3>1 DEF Start
  <2> QED BY <2>1, <2>2
<1>13. Start(a, p + 1) = o + 1
  <2>1. Start(a, p + 1) \in 1 .. Len(a) + 1
    BY <1>8, StartsAre DEF p
  <2> QED BY <1>1, <2>1 DEF o, p, Offset
<1>14. ASSUME NEW k \in 1 .. q + 1 PROVE Start(d, p + k) = o + Start(b, k)
  <2>1. CASE k = 1
    <3>1. p + 1 \in 1 .. p + 1
      BY <1>8
    <3>2. Start(b, k) = 1
      BY <2>1 DEF Start
    <3> QED BY <1>12, <1>13, <2>1, <3>1, <3>2
  <2>2. CASE k # 1
    <3>1. k - 1 \in 1 .. q /\ p + k # 1 /\ p + k - 1 = p + (k - 1)
      BY <1>8, <2>2
    <3>2. Ends(d)[p + k - 1] = o + Ends(b)[k - 1]
      BY <1>11, <3>1
    <3>3. Ends(b)[k - 1] \in Separators(b)
      BY <1>8, <3>1
    <3>4. Ends(b)[k - 1] \in Nat
      BY <1>4, <3>3 DEF Separators
    <3>5. Start(b, k) = Ends(b)[k - 1] + 2
      BY <2>2 DEF Start
    <3>6. Start(d, p + k) = Ends(d)[p + k - 1] + 2
      BY <1>8, <3>1 DEF Start
    <3> QED BY <1>4, <3>2, <3>4, <3>5, <3>6
  <2> QED BY <2>1, <2>2
<1>15. ASSUME NEW k \in 1 .. p PROVE Closed(d)[k] = Closed(a)[k]
  <2>1. k \in 1 .. p + 1 /\ k \in 1 .. p + q
    BY <1>8
  <2>2. Start(d, k) = Start(a, k) /\ Ends(d)[k] = Ends(a)[k]
    BY <1>10, <1>12, <2>1
  <2>3. Start(a, k) \in 1 .. Len(a) + 1
    BY <2>1, StartsAre DEF p
  <2>4. Ends(a)[k] \in 1 .. Len(a) - 1
    BY <1>8 DEF Separators
  <2> DEFINE x == Start(a, k)
             y == Ends(a)[k] - 1
  <2>5. x \in Nat \ {0} /\ y \in Int /\ y <= Len(a) /\ 0 + x = x /\ 0 + y = y
    BY <1>1, <2>3, <2>4
  <2> HIDE DEF x, y
  <2>6. \A i \in x .. y : 0 + i \in 1 .. Len(d) /\ d[0 + i] = a[i]
    BY <1>1, <1>6, <2>5
  <2>7. SubSeq(d, 0 + x, 0 + y) = SubSeq(a, x, y)
    <3>1. 0 \in Nat
      OBVIOUS
    <3> QED BY <1>1, <2>5, <2>6, <3>1, SamePart
  <2>8. SubSeq(d, x, y) = SubSeq(a, x, y)
    BY <2>5, <2>7
  <2> QED BY <1>9, <2>1, <2>2, <2>8 DEF Closed, p, x, y
<1>16. ASSUME NEW k \in 1 .. q PROVE Closed(d)[p + k] = Closed(b)[k]
  <2>1. k \in 1 .. q + 1 /\ p + k \in 1 .. p + q
    BY <1>8
  <2>2. Start(d, p + k) = o + Start(b, k) /\ Ends(d)[p + k] = o + Ends(b)[k]
    BY <1>11, <1>14, <2>1
  <2>3. Start(b, k) \in 1 .. Len(b) + 1
    BY <1>3, <2>1, StartsAre DEF q
  <2>4. Ends(b)[k] \in 1 .. Len(b) - 1
    BY <1>3, <1>8 DEF Separators
  <2> DEFINE x == Start(b, k)
             y == Ends(b)[k] - 1
  <2>5. x \in Nat \ {0} /\ y \in Int /\ y <= Len(b) /\ Ends(d)[p + k] - 1 = o + y
    BY SMTT(30), <1>4, <2>2, <2>3, <2>4
  <2>6. Closed(d)[p + k] = SubSeq(d, Start(d, p + k), Ends(d)[p + k] - 1)
    BY <1>9, <2>1 DEF Closed
  <2>7. Closed(b)[k] = SubSeq(b, x, y)
    BY DEF Closed, q
  <2>8. Start(d, p + k) = o + x
    BY <2>2
  <2> HIDE DEF x, y
  <2>9. \A i \in x .. y : o + i \in 1 .. Len(d) /\ d[o + i] = b[i]
    BY SMTT(30), <1>4, <1>5, <2>5
  <2>10. SubSeq(d, o + x, o + y) = SubSeq(b, x, y)
    BY <1>1, <1>3, <1>4, <2>5, <2>9, SamePart
  <2> QED BY <2>5, <2>6, <2>7, <2>8, <2>10
<1>17. /\ Closed(a) \in Seq(Seq(B)) /\ Len(Closed(a)) = p
       /\ Closed(b) \in Seq(Seq(B)) /\ Len(Closed(b)) = q
       /\ Closed(d) \in Seq(Seq(B)) /\ Len(Closed(d)) = p + q
  BY <1>1, <1>3, <1>9, ClosedAre DEF p, q
<1>18. Closed(d) = Closed(a) \o Closed(b)
  <2>1. /\ Closed(a) \o Closed(b) \in Seq(Seq(B)) /\ Len(Closed(a) \o Closed(b)) = p + q
        /\ \A i \in 1 .. p + q : (Closed(a) \o Closed(b))[i] =
                IF i <= p THEN Closed(a)[i] ELSE Closed(b)[i - p]
    BY <1>17, ConcatProperties
  <2>2. ASSUME NEW i \in 1 .. p + q PROVE Closed(d)[i] = (Closed(a) \o Closed(b))[i]
    <3>1. CASE i <= p
      <4>1. i \in 1 .. p
        BY <1>8, <3>1
      <4> QED BY <1>15, <2>1, <3>1, <4>1
    <3>2. CASE ~ (i <= p)
      <4>1. i - p \in 1 .. q /\ p + (i - p) = i
        BY <1>8, <3>2
      <4>2. Closed(d)[p + (i - p)] = Closed(b)[i - p]
        BY <1>16, <4>1
      <4> QED BY <2>1, <3>2, <4>1, <4>2
    <3> QED BY <3>1, <3>2
  <2> QED BY <1>17, <2>1, <2>2, SeqEqual
<1>19. Kept(d) = Kept(b)
  <2> DEFINE x == Start(b, q + 1)
  <2>1. x \in 1 .. Len(b) + 1 /\ q + 1 \in 1 .. q + 1
    BY <1>3, <1>8, StartsAre DEF q
  <2>2. Start(d, p + (q + 1)) = o + x /\ p + (q + 1) = Count(d) + 1
    BY <1>8, <1>9, <1>14, <2>1
  <2>3. Kept(d) = SubSeq(d, o + x, o + Len(b)) /\ Kept(b) = SubSeq(b, x, Len(b))
    BY <1>4, <2>2 DEF Kept, q
  <2> HIDE DEF x
  <2> DEFINE y == Len(b)
  <2> HIDE DEF y
  <2>4. /\ x \in Nat \ {0} /\ y \in Int /\ y <= Len(b)
        /\ \A i \in x .. y : o + i \in 1 .. Len(d) /\ d[o + i] = b[i]
    BY <1>4, <1>5, <2>1 DEF y
  <2>5. SubSeq(d, o + x, o + y) = SubSeq(b, x, y)
    <3>1. b \in Seq(B) /\ d \in Seq(B) /\ o \in Nat
      BY <1>1, <1>3, <1>4
    <3>2. x \in Nat \ {0} /\ y \in Int /\ y <= Len(b)
      BY <2>4
    <3>3. \A i \in x .. y : o + i \in 1 .. Len(d) /\ d[o + i] = b[i]
      BY <2>4
    <3> QED BY <3>1, <3>2, <3>3, SamePart
  <2> QED BY <2>3, <2>5 DEF y
<1> QED BY <1>18, <1>19 DEF d, b

(***************************************************************************)
(* Lines.                                                                  *)
(***************************************************************************)
Full(s) == {k \in DOMAIN s : s[k] # <<>>}

LEMMA FullIs ==
    ASSUME NEW V, NEW s \in Seq(V)
    PROVE  /\ Full(s) \in SUBSET (1 .. Len(s))
           /\ WithoutEmpty(s) \in Seq(V) /\ Len(WithoutEmpty(s)) = Cardinality(Full(s))
           /\ Cardinality(Full(s)) \in Nat
           /\ Ascending(Full(s)) \in [1 .. Cardinality(Full(s)) -> Full(s)]
           /\ Increasing(Ascending(Full(s)))
           /\ \A i \in 1 .. Cardinality(Full(s)) : WithoutEmpty(s)[i] = s[Ascending(Full(s))[i]]
<1> DEFINE n == Cardinality(Full(s))
           f == Ascending(Full(s))
<1>1. Len(s) \in Nat /\ DOMAIN s = 1 .. Len(s)
  BY LenProperties
<1>2. Full(s) \in SUBSET (1 .. Len(s))
  BY <1>1 DEF Full
<1>3. n \in Nat /\ f \in [1 .. n -> Full(s)] /\ Increasing(f)
  BY <1>1, <1>2, AscendingIs
<1>4. WithoutEmpty(s) = [k \in DOMAIN f |-> s[f[k]]]
  BY DEF WithoutEmpty, Full
<1> HIDE DEF n, f
<1>5. \A k \in 1 .. n : s[f[k]] \in V
  BY <1>2, <1>3, ElementOfSeq
<1>6. WithoutEmpty(s) \in [1 .. n -> V] /\ \A i \in 1 .. n : WithoutEmpty(s)[i] = s[f[i]]
  BY <1>3, <1>4, <1>5
<1>7. WithoutEmpty(s) \in Seq(V) /\ Len(WithoutEmpty(s)) = n
  BY <1>3, <1>6
<1> QED BY <1>2, <1>3, <1>6, <1>7 DEF n, f

LEMMA WithoutEmptyJoin ==
    ASSUME NEW V, NEW s \in Seq(V), NEW t \in Seq(V)
    PROVE  WithoutEmpty(s \o t) = WithoutEmpty(s) \o WithoutEmpty(t)
<1> DEFINE u == s \o t
           m == Cardinality(Full(s))
           n == Cardinality(Full(t))
           f == Ascending(Full(s))
           g == Ascending(Full(t))
           h == Ascending(Full(u))
<1>1. /\ u \in Seq(V) /\ Len(u) = Len(s) + Len(t) /\ Len(s) \in Nat /\ Len(t) \in Nat
      /\ \A i \in 1 .. Len(s) + Len(t) : u[i] = IF i <= Len(s) THEN s[i] ELSE t[i - Len(s)]
      /\ DOMAIN s = 1 .. Len(s) /\ DOMAIN t = 1 .. Len(t) /\ DOMAIN u = 1 .. Len(s) + Len(t)
  BY ConcatProperties, LenProperties
<1> HIDE DEF u
<1>2. ASSUME NEW i \in 1 .. Len(s) PROVE i \in 1 .. Len(s) + Len(t) /\ u[i] = s[i]
  BY <1>1
<1>3. ASSUME NEW i \in 1 .. Len(t) PROVE Len(s) + i \in 1 .. Len(s) + Len(t) /\ u[Len(s) + i] = t[i]
  <2>1. Len(s) + i \in 1 .. Len(s) + Len(t) /\ ~ (Len(s) + i <= Len(s)) /\ Len(s) + i - Len(s) = i
    BY <1>1
  <2>2. u[Len(s) + i] = t[Len(s) + i - Len(s)]
    BY <1>1, <2>1
  <2> QED BY <2>1, <2>2
<1>4. Full(u) = Joined(Full(s), Len(s), Full(t))
  <2>1. ASSUME NEW x \in 1 .. Len(s) + Len(t), ~ (x <= Len(s))
        PROVE  x - Len(s) \in 1 .. Len(t) /\ x = Len(s) + (x - Len(s))
    BY <1>1, <2>1
  <2>2. \A x \in Full(u) : x \in Full(s) \/ \E k \in Full(t) : x = Len(s) + k
    <3> SUFFICES ASSUME NEW x \in Full(u), ~ (x <= Len(s)) PROVE \E k \in Full(t) : x = Len(s) + k
      BY <1>1, <1>2 DEF Full
    <3>1. x \in 1 .. Len(s) + Len(t) /\ u[x] # <<>>
      BY <1>1 DEF Full
    <3>2. x - Len(s) \in 1 .. Len(t) /\ x = Len(s) + (x - Len(s))
      BY <2>1, <3>1
    <3>3. t[x - Len(s)] # <<>>
      BY <1>3, <3>1, <3>2
    <3> QED BY <1>1, <3>2, <3>3 DEF Full
  <2>3. \A k \in Full(t) : Len(s) + k \in Full(u)
    BY <1>1, <1>3 DEF Full
  <2>4. \A k \in Full(s) : k \in Full(u)
    BY <1>1, <1>2 DEF Full
  <2> QED BY <2>2, <2>3, <2>4 DEF Joined
<1>5. /\ m \in Nat /\ f \in [1 .. m -> Full(s)] /\ Full(s) \in SUBSET (1 .. Len(s))
      /\ WithoutEmpty(s) \in Seq(V) /\ Len(WithoutEmpty(s)) = m
      /\ \A i \in 1 .. m : WithoutEmpty(s)[i] = s[f[i]]
  BY FullIs
<1>6. /\ n \in Nat /\ g \in [1 .. n -> Full(t)] /\ Full(t) \in SUBSET (1 .. Len(t))
      /\ WithoutEmpty(t) \in Seq(V) /\ Len(WithoutEmpty(t)) = n
      /\ \A i \in 1 .. n : WithoutEmpty(t)[i] = t[g[i]]
  BY FullIs
<1>7. /\ Cardinality(Full(u)) = m + n
      /\ h = Moved(f, Len(s), g)
  <2>1. Full(s) \in SUBSET (1 .. Len(s)) /\ Full(t) \in SUBSET (1 .. Len(t)) /\ Len(s) \in Nat /\ Len(t) \in Nat
    BY <1>1, <1>5, <1>6
  <2>2. /\ Cardinality(Joined(Full(s), Len(s), Full(t))) = Cardinality(Full(s)) + Cardinality(Full(t))
        /\ Ascending(Joined(Full(s), Len(s), Full(t))) = Moved(Ascending(Full(s)), Len(s), Ascending(Full(t)))
    BY <2>1, AscendingJoin
  <2> QED BY <1>4, <2>2
<1>8. /\ WithoutEmpty(u) \in Seq(V) /\ Len(WithoutEmpty(u)) = m + n
      /\ \A i \in 1 .. m + n : WithoutEmpty(u)[i] = u[h[i]]
  BY <1>1, <1>7, FullIs
<1> HIDE DEF m, n, f, g, h
<1>9. Len(f) = m /\ Len(g) = n
  BY <1>5, <1>6
<1>10. \A i \in 1 .. m + n : h[i] = IF i <= m THEN f[i] ELSE Len(s) + g[i - m]
  BY <1>7, <1>9 DEF Moved
<1>11. /\ WithoutEmpty(s) \o WithoutEmpty(t) \in Seq(V) /\ Len(WithoutEmpty(s) \o WithoutEmpty(t)) = m + n
       /\ \A i \in 1 .. m + n : (WithoutEmpty(s) \o WithoutEmpty(t))[i] =
               IF i <= m THEN WithoutEmpty(s)[i] ELSE WithoutEmpty(t)[i - m]
  BY ZenonT(60), <1>5, <1>6, ConcatProperties
<1>12. ASSUME NEW i \in 1 .. m + n PROVE WithoutEmpty(u)[i] = (WithoutEmpty(s) \o WithoutEmpty(t))[i]
  <2>1. CASE i <= m
    <3>1. i \in 1 .. m
      BY <1>5, <2>1
    <3>2. h[i] = f[i] /\ f[i] \in 1 .. Len(s)
      BY <1>5, <1>10, <2>1, <3>1
    <3>3. u[h[i]] = s[f[i]]
      BY <1>2, <3>2
    <3> QED BY <1>5, <1>8, <1>11, <2>1, <3>1, <3>3
  <2>2. CASE ~ (i <= m)
    <3>1. PICK j : j = i - m
      OBVIOUS
    <3>2. j \in 1 .. n
      BY <1>5, <1>6, <2>2, <3>1
    <3>3. h[i] = Len(s) + g[j] /\ g[j] \in 1 .. Len(t)
      BY <1>6, <1>10, <2>2, <3>1, <3>2
    <3>4. u[h[i]] = t[g[j]]
      BY <1>3, <3>3
    <3>5. (WithoutEmpty(s) \o WithoutEmpty(t))[i] = t[g[j]]
      BY <1>6, <1>11, <2>2, <3>1, <3>2
    <3> QED BY <1>8, <3>4, <3>5
  <2> QED BY <2>1, <2>2
<1>13. WithoutEmpty(u) = WithoutEmpty(s) \o WithoutEmpty(t)
  BY <1>8, <1>11, <1>12, SeqEqual
<1> QED BY <1>13 DEF u

\* What pieces of such bytes can look like without white space around them.
Trims(B) == {TrimSpace(x) : x \in Seq(B)}

LEMMA TrimmedJoin ==
    ASSUME NEW B, NEW s \in Seq(Seq(B)), NEW t \in Seq(Seq(B))
    PROVE  /\ Trimmed(s) \in Seq(Trims(B)) /\ Trimmed(t) \in Seq(Trims(B))
           /\ Trimmed(s \o t) = Trimmed(s) \o Trimmed(t)
<1>1. ASSUME NEW p \in Seq(Seq(B))
      PROVE  /\ Trimmed(p) \in Seq(Trims(B)) /\ Len(Trimmed(p)) = Len(p)
             /\ \A k \in 1 .. Len(p) : Trimmed(p)[k] = TrimSpace(p[k])
  <2>1. Len(p) \in Nat /\ DOMAIN p = 1 .. Len(p)
    BY LenProperties
  <2>2. \A k \in 1 .. Len(p) : TrimSpace(p[k]) \in Trims(B)
    BY <2>1, ElementOfSeq DEF Trims
  <2>3. Trimmed(p) \in [1 .. Len(p) -> Trims(B)] /\ \A k \in 1 .. Len(p) : Trimmed(p)[k] = TrimSpace(p[k])
    BY <2>1, <2>2 DEF Trimmed
  <2>4. Trimmed(p) \in Seq(Trims(B)) /\ DOMAIN Trimmed(p) = 1 .. Len(p)
    <3> DEFINE n == Len(p)
               q == Trimmed(p)
    <3>1. n \in Nat /\ q \in [1 .. n -> Trims(B)]
      BY <2>1, <2>3
    <3> HIDE DEF n, q
    <3>2. q \in Seq(Trims(B)) /\ DOMAIN q = 1 .. n
      BY <3>1
    <3> QED BY <3>2 DEF n, q
  <2>5. Len(Trimmed(p)) = Len(p)
    BY <2>1, <2>4
  <2> QED BY <2>3, <2>4, <2>5
<1>2. /\ s \o t \in Seq(Seq(B)) /\ Len(s \o t) = Len(s) + Len(t) /\ Len(s) \in Nat /\ Len(t) \in Nat
      /\ \A i \in 1 .. Len(s) + Len(t) : (s \o t)[i] = IF i <= Len(s) THEN s[i] ELSE t[i - Len(s)]
  BY ConcatProperties, LenProperties
<1>3. /\ Trimmed(s) \o Trimmed(t) \in Seq(Trims(B)) /\ Len(Trimmed(s) \o Trimmed(t)) = Len(s) + Len(t)
      /\ \A i \in 1 .. Len(s) + Len(t) : (Trimmed(s) \o Trimmed(t))[i] =
             IF i <= Len(s) THEN Trimmed(s)[i] ELSE Trimmed(t)[i - Len(s)]
  <2>1. /\ Trimmed(s) \in Seq(Trims(B)) /\ Trimmed(t) \in Seq(Trims(B))
        /\ Len(Trimmed(s)) = Len(s) /\ Len(Trimmed(t)) = Len(t)
    BY <1>1
  <2> DEFINE x == Trimmed(s)
             y == Trimmed(t)
  <2> HIDE DEF x, y
  <2>2. /\ x \o y \in Seq(Trims(B)) /\ Len(x \o y) = Len(x) + Len(y)
        /\ \A i \in 1 .. Len(x) + Len(y) : (x \o y)[i] = IF i <= Len(x) THEN x[i] ELSE y[i - Len(x)]
    BY <2>1, ConcatProperties DEF x, y
  <2> QED BY <2>1, <2>2 DEF x, y
<1>4. ASSUME NEW i \in 1 .. Len(s) + Len(t) PROVE Trimmed(s \o t)[i] = (Trimmed(s) \o Trimmed(t))[i]
  <2>1. Trimmed(s \o t)[i] = TrimSpace((s \o t)[i])
    BY <1>1, <1>2
  <2>2. CASE i <= Len(s)
    BY <1>1, <1>2, <1>3, <2>1, <2>2
  <2>3. CASE ~ (i <= Len(s))
    <3>1. i - Len(s) \in 1 .. Len(t)
      BY <1>2, <2>3
    <3> QED BY <1>1, <1>2, <1>3, <2>1, <2>3, <3>1
  <2> QED BY <2>2, <2>3
<1>5. Trimmed(s \o t) \in Seq(Trims(B)) /\ Len(Trimmed(s \o t)) = Len(s) + Len(t)
  BY <1>1, <1>2
<1> QED BY <1>1, <1>3, <1>4, <1>5, SeqEqual

LEMMA LinesAre ==
    ASSUME NEW B, NEW d \in Seq(B)
    PROVE  Lines(d) = WithoutEmpty(Trimmed(Closed(d))) /\ Lines(d) \in Seq(Trims(B))
<1>1. Lines(d) = WithoutEmpty(Trimmed(Closed(d)))
  BY SplitIs DEF Lines
<1>2. Trimmed(Closed(d)) \in Seq(Trims(B))
  BY ClosedAre, TrimmedJoin
<1> QED BY <1>1, <1>2, FullIs

\* The lines of what was kept and what came are the lines that come next.
LEMMA LinesJoin ==
    ASSUME NEW B, NEW a \in Seq(B), NEW g \in Seq(B)
    PROVE  /\ Lines(a \o g) = Lines(a) \o Lines(Last(Split(a)) \o g)
           /\ Last(Split(a \o g)) = Last(Split(Last(Split(a)) \o g))
<1> DEFINE b == Kept(a) \o g
<1>1. a \o g \in Seq(B) /\ Kept(a) \in Seq(B) /\ b \in Seq(B)
  BY KeptIs, ConcatProperties
<1>2. Last(Split(a)) = Kept(a) /\ Last(Split(a \o g)) = Kept(a \o g) /\ Last(Split(b)) = Kept(b)
  BY <1>1, SplitIs
<1>3. Closed(a \o g) = Closed(a) \o Closed(b) /\ Kept(a \o g) = Kept(b)
  BY SplitJoin
<1>4. Closed(a) \in Seq(Seq(B)) /\ Closed(b) \in Seq(Seq(B))
  BY <1>1, ClosedAre
<1>5. /\ Trimmed(Closed(a)) \in Seq(Trims(B)) /\ Trimmed(Closed(b)) \in Seq(Trims(B))
      /\ Trimmed(Closed(a \o g)) = Trimmed(Closed(a)) \o Trimmed(Closed(b))
  BY <1>3, <1>4, TrimmedJoin
<1>6. WithoutEmpty(Trimmed(Closed(a \o g))) = WithoutEmpty(Trimmed(Closed(a))) \o WithoutEmpty(Trimmed(Closed(b)))
  BY <1>5, WithoutEmptyJoin
<1>7. /\ Lines(a \o g) = WithoutEmpty(Trimmed(Closed(a \o g)))
      /\ Lines(a) = WithoutEmpty(Trimmed(Closed(a))) /\ Lines(b) = WithoutEmpty(Trimmed(Closed(b)))
  BY <1>1, LinesAre
<1> QED BY <1>2, <1>3, <1>6, <1>7

(***************************************************************************)
(* What a source sends.                                                    *)
(***************************************************************************)
Numbers   == 1 .. MaxLines
First(n)  == <<"head", n>>
Second(n) == <<"tail", n>>
Byte      == {CR, LF} \cup {First(n) : n \in Numbers} \cup {Second(n) : n \in Numbers}

LEMMA BytesDiffer ==
    /\ CR # LF
    /\ \A n \in Numbers : /\ First(n) # CR /\ First(n) # LF /\ Second(n) # CR /\ Second(n) # LF
                          /\ Body(n) = <<First(n), Second(n)>> /\ First(n)[2] = n
    /\ \A m, n \in Numbers : First(m) # Second(n) /\ (First(m) = First(n) => m = n)
BY DEF CR, LF, First, Second, Body

\* Whole lines with the numbers up to last, in order, after an empty line or none.
Framed(d, last) ==
    /\ d \in Seq(Byte)
    /\ Len(d) > 0 => d[Len(d)] = LF
    /\ \A i \in 1 .. Len(d) :
         /\ i = 1 \/ d[i - 1] = LF => d[i] = CR \/ \E n \in Numbers : d[i] = First(n)
         /\ d[i] = CR => i + 1 <= Len(d) /\ d[i + 1] = LF
         /\ \A n \in Numbers : d[i] = First(n) =>
              /\ n <= last /\ i + 3 <= Len(d)
              /\ d[i + 1] = Second(n) /\ d[i + 2] = CR /\ d[i + 3] = LF
    /\ \A i, j \in 1 .. Len(d) : \A m, n \in Numbers :
         i < j /\ d[i] = First(m) /\ d[j] = First(n) => m < n

Beginning(r, d) == r \in Seq(Byte) /\ Len(r) <= Len(d) /\ \A i \in 1 .. Len(r) : r[i] = d[i]

LEMMA TrimBody ==
    /\ TrimSpace(<<>>) = <<>>
    /\ \A n \in Numbers : TrimSpace(Body(n)) = Body(n) /\ Body(n) # <<>>
<1>1. TrimSpace(<<>>) = <<>>
  BY DEF TrimSpace
<1>2. ASSUME NEW n \in Numbers PROVE TrimSpace(Body(n)) = Body(n) /\ Body(n) # <<>>
  <2> DEFINE s == Body(n)
             ink == {i \in DOMAIN s : ~Blank(s[i])}
  <2>1. s = <<First(n), Second(n)>>
    BY BytesDiffer
  <2>2. DOMAIN s = 1 .. 2 /\ s[1] = First(n) /\ s[2] = Second(n) /\ Len(s) = 2
    BY <2>1
  <2>3. ~ Blank(s[1]) /\ ~ Blank(s[2])
    BY <2>2, BytesDiffer DEF Blank
  <2>4. ink = 1 .. 2
    BY <2>2, <2>3
  <2> HIDE DEF ink
  <2>5. Min(1 .. 2) = 1 /\ Max(1 .. 2) = 2
    BY DEF Min, Max
  <2>6. SubSeq(<<First(n), Second(n)>>, 1, 2) = <<First(n), Second(n)>>
    <3>1. <<First(n), Second(n)>> \in Seq({First(n), Second(n)}) /\ Len(<<First(n), Second(n)>>) = 2
      OBVIOUS
    <3> QED BY <3>1, SubSeqFull
  <2>7. TrimSpace(s) = IF ink = {} THEN <<>> ELSE SubSeq(s, Min(ink), Max(ink))
    BY DEF TrimSpace, ink
  <2> QED BY <2>1, <2>2, <2>4, <2>5, <2>6, <2>7
<1> QED BY <1>1, <1>2

\* A closed piece of what has been read so far is empty or a whole line.
LEMMA PieceOfFramed ==
    ASSUME NEW last, NEW d, Framed(d, last), NEW r, Beginning(r, d), NEW k \in 1 .. Count(r)
    PROVE  \/ Closed(r)[k] = <<>>
           \/ \E n \in Numbers : Closed(r)[k] = Body(n) /\ r[Start(r, k)] = First(n)
<1> DEFINE x == Start(r, k)
           e == Ends(r)[k]
<1>1. r \in Seq(Byte) /\ Len(r) \in Nat /\ Len(d) \in Nat /\ Len(r) <= Len(d) /\ Count(r) \in Nat
  BY LenProperties, EndsAre DEF Framed, Beginning
<1>2. /\ x \in 1 .. Len(r) + 1 /\ x <= e
      /\ k > 1 => r[x - 1] = LF
      /\ \A y \in Separators(r) : y >= x => \E i \in k .. Count(r) : Ends(r)[i] = y
  <2>1. k \in 1 .. Count(r) + 1
    BY <1>1
  <2> QED BY <1>1, <2>1, StartsAre
<1>3. e \in 1 .. Len(r) - 1 /\ r[e] = CR /\ r[e + 1] = LF
  <2>1. e \in Separators(r)
    BY <1>1, EndsAre
  <2> HIDE DEF e
  <2> QED BY <2>1 DEF Separators
<1>4. Closed(r)[k] = SubSeq(r, x, e - 1)
  BY DEF Closed
<1>5. \A i \in 1 .. Count(r) : k <= i => e <= Ends(r)[i]
  <2> SUFFICES ASSUME NEW i \in 1 .. Count(r), k < i PROVE e <= Ends(r)[i]
    BY <1>1, <1>3
  <2>1. DOMAIN Ends(r) = 1 .. Count(r) /\ Increasing(Ends(r))
    BY <1>1, EndsAre
  <2>2. Ends(r)[i] \in Nat
    <3>1. Ends(r)[i] \in Separators(r) /\ Separators(r) \in SUBSET (1 .. Len(r))
      BY <1>1, EndsAre
    <3> QED BY <1>1, <3>1
  <2>3. e < Ends(r)[i]
    BY <2>1 DEF Increasing
  <2> QED BY <1>3, <2>2, <2>3
<1>6. k = 1 => x = 1
  BY DEF Start
<1> HIDE DEF x, e
\* The first separator that is not before the piece is its own.
<1>7. ASSUME NEW y \in Separators(r), y >= x PROVE e <= y
  <2>1. PICK i \in k .. Count(r) : Ends(r)[i] = y
    BY <1>2, <1>7
  <2>2. i \in 1 .. Count(r) /\ k <= i
    BY <1>1
  <2> QED BY <1>5, <2>1, <2>2
<1>8. x \in 1 .. Len(r) /\ x \in 1 .. Len(d) /\ r[x] = d[x]
  BY <1>1, <1>2, <1>3 DEF Beginning
<1>9. d[x] = CR \/ \E n \in Numbers : d[x] = First(n)
  <2>1. x = 1 \/ d[x - 1] = LF
    <3>1. CASE k = 1
      BY <1>6, <3>1
    <3>2. CASE k # 1
      <4>1. r[x - 1] = LF
        BY <1>1, <1>2, <3>2
      <4>2. x - 1 \in 1 .. Len(r) \/ x = 1
        BY <1>1, <1>8
      <4> QED BY <4>1, <4>2 DEF Beginning
    <3> QED BY <3>1, <3>2
  <2> QED BY <1>8, <2>1 DEF Framed
<1>10. CASE d[x] = CR
  <2>1. d[x + 1] = LF
    BY <1>8, <1>10 DEF Framed
  <2>2. x \in 1 .. Len(r) - 1 /\ x + 1 \in 1 .. Len(r)
    BY <1>1, <1>2, <1>3, <1>8
  <2>3. x \in Separators(r)
    BY <1>8, <1>10, <2>1, <2>2 DEF Separators, Beginning
  <2>4. e = x
    BY <1>1, <1>2, <1>3, <1>7, <1>8, <2>3
  <2>5. Closed(r)[k] = <<>>
    <3>1. x \in Int /\ e - 1 \in Int /\ e - 1 < x
      BY <1>3, <1>8, <2>4
    <3> QED BY <1>4, <3>1, SubSeqEmpty
  <2> QED BY <2>5
<1>11. ASSUME NEW n \in Numbers, d[x] = First(n) PROVE Closed(r)[k] = Body(n) /\ r[x] = First(n)
  <2>1. x + 3 <= Len(d) /\ d[x + 1] = Second(n) /\ d[x + 2] = CR /\ d[x + 3] = LF
    BY <1>8, <1>11 DEF Framed
  <2>2. r[x] = First(n) /\ x # e
    BY <1>3, <1>8, <1>11, BytesDiffer
  <2>3. x + 1 \in 1 .. Len(r)
    BY <1>1, <1>2, <1>3, <1>8, <2>2
  <2>4. r[x + 1] = Second(n) /\ x + 1 # e
    BY <1>3, <2>1, <2>3, BytesDiffer DEF Beginning
  <2>5. e >= x + 2 /\ x + 2 \in 1 .. Len(r) - 1 /\ x + 2 \in 1 .. Len(r) /\ x + 3 \in 1 .. Len(r)
    BY <1>1, <1>2, <1>3, <1>8, <2>2, <2>4
  <2>6. r[x + 2] = CR /\ r[x + 3] = LF /\ x + 2 + 1 = x + 3
    BY SMTT(30), <1>8, <2>1, <2>5 DEF Beginning
  <2>7. x + 2 \in Separators(r) /\ x + 2 >= x
    BY <1>8, <2>5, <2>6 DEF Separators
  <2>8. e = x + 2 /\ e - 1 = x + 1
    BY <1>3, <1>7, <1>8, <2>5, <2>7
  <2>9. SubSeq(r, x, x + 1) = <<First(n), Second(n)>>
    <3>1. x \in Int /\ x + 1 \in Int /\ \A i \in x .. x + 1 : r[i] \in Byte
      BY <1>1, <1>8, <2>3, ElementOfSeq
    <3>2. /\ SubSeq(r, x, x + 1) \in Seq(Byte)
          /\ Len(SubSeq(r, x, x + 1)) = IF x <= x + 1 THEN x + 1 - x + 1 ELSE 0
          /\ \A i \in 1 .. x + 1 - x + 1 : SubSeq(r, x, x + 1)[i] = r[x + i - 1]
      BY <3>1, SubSeqProperties
    <3> DEFINE q == SubSeq(r, x, x + 1)
    <3>3. /\ q \in Seq(Byte) /\ Len(q) = 2 /\ q[1] = r[x] /\ q[2] = r[x + 1]
      BY <1>8, <3>2
    <3> HIDE DEF q
    <3>4. q = <<First(n), Second(n)>>
      BY <2>2, <2>4, <3>3
    <3> QED BY <3>4 DEF q
  <2> QED BY <1>4, <2>2, <2>8, <2>9, BytesDiffer
<1> QED BY <1>9, <1>10, <1>11 DEF x

\* So the lines of what has been read so far are lines of the source, in its order.
LEMMA LinesOfFramed ==
    ASSUME NEW last, NEW d, Framed(d, last), NEW r, Beginning(r, d)
    PROVE  /\ Lines(r) \in Seq(Bodies)
           /\ \A k \in 1 .. Len(Lines(r)) : \E n \in Numbers, i \in 1 .. Len(d) :
                  Lines(r)[k] = Body(n) /\ d[i] = First(n)
           /\ \A k, l \in 1 .. Len(Lines(r)) : k < l => Lines(r)[k][1][2] < Lines(r)[l][1][2]
<1> DEFINE p == Trimmed(Closed(r))
           w == WithoutEmpty(p)
           c == Count(r)
           m == Cardinality(Full(p))
           f == Ascending(Full(p))
           Whole(j, n) == p[j] = Body(n) /\ Start(r, j) \in 1 .. Len(d) /\ d[Start(r, j)] = First(n)
<1>1. r \in Seq(Byte) /\ Len(r) \in Nat /\ Len(d) \in Nat /\ Len(r) <= Len(d)
  BY LenProperties DEF Framed, Beginning
<1>2. c \in Nat /\ Closed(r) \in Seq(Seq(Byte)) /\ Len(Closed(r)) = c /\ DOMAIN Closed(r) = 1 .. c
  <2>1. Closed(r) \in Seq(Seq(Byte)) /\ Len(Closed(r)) = c
    BY <1>1, ClosedAre
  <2> QED BY <1>1, <2>1, EndsAre, LenProperties
<1>3. Lines(r) = w /\ p \in Seq(Trims(Byte))
  <2>1. Lines(r) = w
    BY <1>1, LinesAre
  <2>2. Trimmed(Closed(r)) \in Seq(Trims(Byte))
    BY <1>2, TrimmedJoin
  <2> QED BY <2>1, <2>2
<1>4. DOMAIN p = 1 .. c /\ \A j \in 1 .. c : p[j] = TrimSpace(Closed(r)[j])
  BY <1>2 DEF Trimmed
<1>5. /\ w \in Seq(Trims(Byte)) /\ Len(w) = m /\ m \in Nat
      /\ f \in [1 .. m -> Full(p)] /\ Increasing(f)
      /\ \A i \in 1 .. m : w[i] = p[f[i]]
  BY <1>3, FullIs
<1>6. Full(p) \in SUBSET (1 .. c) /\ \A j \in Full(p) : p[j] # <<>>
  BY <1>4 DEF Full
<1> HIDE DEF p, w, c, m, f
<1>7. ASSUME NEW j \in Full(p) PROVE \E n \in Numbers : Whole(j, n)
  <2>1. j \in 1 .. Count(r) /\ j \in 1 .. c
    BY <1>6 DEF c
  <2>2. Closed(r)[j] # <<>>
    BY <1>4, <1>6, <2>1, TrimBody
  <2>3. PICK n \in Numbers : Closed(r)[j] = Body(n) /\ r[Start(r, j)] = First(n)
    BY <2>1, <2>2, PieceOfFramed
  <2>4. p[j] = Body(n)
    BY <1>4, <2>1, <2>3, TrimBody
  <2>5. Start(r, j) \in 1 .. Len(r)
    <3>1. Start(r, j) \in 1 .. Len(r) + 1 /\ Start(r, j) <= Ends(r)[j]
      <4>1. j \in 1 .. Count(r) + 1
        BY <1>2, <2>1 DEF c
      <4> QED BY <1>1, <2>1, <4>1, StartsAre
    <3>2. Ends(r)[j] \in 1 .. Len(r)
      BY <1>1, <2>1, EndsAre
    <3> QED BY <1>1, <3>1, <3>2
  <2>6. Start(r, j) \in 1 .. Len(d) /\ d[Start(r, j)] = First(n)
    BY <1>1, <2>3, <2>5 DEF Beginning
  <2> QED BY <2>4, <2>6
<1>8. ASSUME NEW i \in Full(p), NEW j \in Full(p), i < j PROVE Start(r, i) < Start(r, j)
  <2>1. i \in 1 .. Count(r) /\ j \in 1 .. Count(r) /\ j - 1 \in 1 .. Count(r) /\ i <= j - 1 /\ j # 1
    BY <1>2, <1>6, <1>8 DEF c
  <2>2. Start(r, i) \in 1 .. Len(r) + 1 /\ Start(r, i) <= Ends(r)[i]
    <3>1. i \in 1 .. Count(r) + 1
      BY <1>2, <2>1 DEF c
    <3> QED BY <1>1, <2>1, <3>1, StartsAre
  <2>3. Start(r, j) = Ends(r)[j - 1] + 2
    BY <2>1 DEF Start
  <2>4. Ends(r)[i] \in Nat /\ Ends(r)[j - 1] \in Nat
    <3>1. Ends(r)[i] \in Separators(r) /\ Ends(r)[j - 1] \in Separators(r) /\ Separators(r) \in SUBSET (1 .. Len(r))
      BY <1>1, <2>1, EndsAre
    <3> QED BY <1>1, <3>1
  <2>5. Ends(r)[i] <= Ends(r)[j - 1]
    <3>1. DOMAIN Ends(r) = 1 .. Count(r) /\ Increasing(Ends(r))
      BY <1>1, EndsAre
    <3>2. i = j - 1 \/ i < j - 1
      BY <2>1
    <3>3. i < j - 1 => Ends(r)[i] < Ends(r)[j - 1]
      BY <2>1, <3>1 DEF Increasing
    <3> QED BY <2>4, <3>2, <3>3
  <2> QED BY <1>1, <2>2, <2>3, <2>4, <2>5
<1>9. ASSUME NEW k \in 1 .. m
      PROVE  \E n \in Numbers : w[k] = Body(n) /\ Whole(f[k], n)
  <2>1. f[k] \in Full(p) /\ w[k] = p[f[k]]
    BY <1>5
  <2> QED BY <1>7, <2>1
<1>10. ASSUME NEW k \in 1 .. m, NEW l \in 1 .. m, k < l PROVE w[k][1][2] < w[l][1][2]
  <2>1. PICK n1 \in Numbers : w[k] = Body(n1) /\ Whole(f[k], n1)
    BY <1>9
  <2>2. PICK n2 \in Numbers : w[l] = Body(n2) /\ Whole(f[l], n2)
    BY <1>9
  <2>3. f[k] \in Full(p) /\ f[l] \in Full(p) /\ f[k] < f[l]
    BY <1>5, <1>10 DEF Increasing
  <2>4. Start(r, f[k]) < Start(r, f[l])
    BY <1>8, <2>3
  <2>5. n1 < n2
    BY <2>1, <2>2, <2>4 DEF Framed
  <2>6. w[k][1][2] = n1 /\ w[l][1][2] = n2
    BY <2>1, <2>2 DEF Body
  <2> QED BY <2>5, <2>6
<1>11. w \in Seq(Bodies)
  <2>1. \A k \in 1 .. m : w[k] \in Bodies
    BY <1>9 DEF Bodies, Numbers
  <2>2. w \in [1 .. m -> Bodies]
    BY <1>5, <2>1
  <2> QED BY <1>5, <2>2
<1> QED BY <1>3, <1>5, <1>9, <1>10, <1>11

\* Nothing read, nothing cut.
LEMMA NothingYet ==
    Lines(<<>>) = <<>> /\ Last(Split(<<>>)) = <<>> /\ \A last : Framed(<<>>, last)
<1> DEFINE d == <<>>
<1>1. d \in Seq(Byte) /\ Len(d) = 0
  OBVIOUS
<1>2. Kept(d) = <<>>
  <2>1. Offset(d) \in 0 .. Len(d) /\ Kept(d) \in Seq(Byte) /\ Len(Kept(d)) = Len(d) - Offset(d)
    BY <1>1, KeptIs
  <2>2. Len(Kept(d)) = 0
    BY <1>1, <2>1
  <2> QED BY <2>1, <2>2, EmptySeq
<1>3. Closed(d) = <<>>
  <2>1. Separators(d) = {}
    BY <1>1 DEF Separators
  <2>2. Count(d) = 0
    BY <1>1, <2>1, EndsAre, FS_EmptySet
  <2>3. Closed(d) \in Seq(Seq(Byte)) /\ Len(Closed(d)) = 0
    BY <1>1, <2>2, ClosedAre
  <2> QED BY <2>3, EmptySeq
<1>4. Trimmed(<<>>) = <<>>
  BY DEF Trimmed
<1>5. WithoutEmpty(<<>>) = <<>>
  <2>1. <<>> \in Seq(Byte) /\ Full(<<>>) = {}
    BY DEF Full
  <2>2. WithoutEmpty(<<>>) \in Seq(Byte) /\ Len(WithoutEmpty(<<>>)) = 0
    BY <2>1, FullIs, FS_EmptySet
  <2> QED BY <2>2, EmptySeq
<1>6. \A last : Framed(d, last)
  BY <1>1 DEF Framed
<1> HIDE DEF d
<1>7. Lines(d) = WithoutEmpty(Trimmed(Closed(d)))
  BY <1>1, LinesAre
<1>8. Last(Split(d)) = Kept(d)
  BY <1>1, SplitIs
<1> QED BY <1>2, <1>3, <1>4, <1>5, <1>6, <1>7, <1>8 DEF d

\* An empty line first, and a line at the end, keep it so.
LEMMA FramedBegins == \A last \in Nat : Framed(EndOfLine, last)
<1> SUFFICES ASSUME NEW last \in Nat PROVE Framed(EndOfLine, last)
  OBVIOUS
<1>1. EndOfLine = <<CR, LF>> /\ EndOfLine \in Seq(Byte) /\ Len(EndOfLine) = 2
  BY DEF EndOfLine, Byte
<1>2. EndOfLine[1] = CR /\ EndOfLine[2] = LF /\ 1 .. 2 = {1, 2}
  BY <1>1
<1> QED BY <1>1, <1>2, BytesDiffer DEF Framed

\* The bytes of a line.
LEMMA LineIs ==
    ASSUME NEW n \in Numbers
    PROVE  LET line == Body(n) \o EndOfLine IN
           /\ line \in Seq(Byte) /\ Len(line) = 4
           /\ line[1] = First(n) /\ line[2] = Second(n) /\ line[3] = CR /\ line[4] = LF
<1> DEFINE line == Body(n) \o EndOfLine
<1>1. Body(n) = <<First(n), Second(n)>> /\ EndOfLine = <<CR, LF>>
  BY DEF Body, First, Second, EndOfLine
<1>2. First(n) \in Byte /\ Second(n) \in Byte /\ CR \in Byte /\ LF \in Byte
  BY DEF Byte
<1>3. /\ Body(n) \in Seq(Byte) /\ Len(Body(n)) = 2
      /\ Body(n)[1] = First(n) /\ Body(n)[2] = Second(n)
  BY <1>1, <1>2
<1>4. /\ EndOfLine \in Seq(Byte) /\ Len(EndOfLine) = 2
      /\ EndOfLine[1] = CR /\ EndOfLine[2] = LF
  BY <1>1, <1>2
<1>5. /\ line \in Seq(Byte) /\ Len(line) = 2 + 2
      /\ \A i \in 1 .. 2 + 2 : line[i] = IF i <= 2 THEN Body(n)[i] ELSE EndOfLine[i - 2]
  BY <1>3, <1>4, ConcatProperties
<1> HIDE DEF line
<1> QED BY <1>3, <1>4, <1>5 DEF line

LEMMA FramedGrows ==
    ASSUME NEW last \in Nat, NEW d, Framed(d, last), last + 1 \in Numbers
    PROVE  LET u == d \o (Body(last + 1) \o EndOfLine) IN
           /\ Framed(u, last + 1)
           /\ \A i \in 1 .. Len(u) : \A m \in Numbers : u[i] = First(m) =>
                  (\E j \in 1 .. Len(d) : d[j] = First(m)) \/ m = last + 1
<1> DEFINE n == last + 1
           line == Body(n) \o EndOfLine
           u == d \o line
           h == Len(d)
<1>1. n \in Numbers
  OBVIOUS
<1> HIDE DEF n
<1>2. /\ line \in Seq(Byte) /\ Len(line) = 4
      /\ line[1] = First(n) /\ line[2] = Second(n) /\ line[3] = CR /\ line[4] = LF
  BY <1>1, LineIs
<1> USE DEF n
<1> HIDE DEF line
<1>3. /\ u \in Seq(Byte) /\ Len(u) = h + 4 /\ h \in Nat
      /\ \A i \in 1 .. h + 4 : u[i] = IF i <= h THEN d[i] ELSE line[i - h]
  <2>1. d \in Seq(Byte) /\ h \in Nat
    BY LenProperties DEF Framed
  <2> HIDE DEF h
  <2>2. /\ u \in Seq(Byte) /\ Len(u) = Len(d) + 4
        /\ \A i \in 1 .. Len(d) + 4 : u[i] = IF i <= Len(d) THEN d[i] ELSE line[i - Len(d)]
    <3>1. line \in Seq(Byte) /\ Len(line) = 4
      BY <1>2
    <3>2. /\ u \in Seq(Byte) /\ Len(u) = Len(d) + Len(line)
          /\ \A i \in 1 .. Len(d) + Len(line) : u[i] = IF i <= Len(d) THEN d[i] ELSE line[i - Len(d)]
      BY <2>1, <3>1, ConcatProperties
    <3> QED BY <3>1, <3>2
  <2> QED BY <2>1, <2>2 DEF h
<1> HIDE DEF u, h
<1>4. \A i \in 1 .. h : i \in 1 .. h + 4 /\ u[i] = d[i]
  BY <1>3
<1>5. u[h + 1] = First(n) /\ u[h + 2] = Second(n) /\ u[h + 3] = CR /\ u[h + 4] = LF
  <2>1. ASSUME NEW k \in 1 .. 4 PROVE u[h + k] = line[k]
    <3>1. h + k \in 1 .. h + 4 /\ ~ (h + k <= h) /\ h + k - h = k
      BY <1>3
    <3> QED BY <1>3, <3>1
  <2> QED BY <1>2, <2>1
<1>6. \A i \in 1 .. h + 4 : i \in 1 .. h \/ i = h + 1 \/ i = h + 2 \/ i = h + 3 \/ i = h + 4
  BY <1>3
<1>7. h > 0 => d[h] = LF
  BY DEF Framed, h
<1>8. ASSUME NEW i \in 1 .. h + 4, i = 1 \/ u[i - 1] = LF
      PROVE  u[i] = CR \/ \E m \in Numbers : u[i] = First(m)
  <2>1. CASE i \in 1 .. h
    <3>1. i = 1 \/ d[i - 1] = LF
      <4>1. i # 1 => i - 1 \in 1 .. h
        BY <1>3, <2>1
      <4> QED BY <1>4, <1>8, <4>1
    <3>2. d[i] = CR \/ \E m \in Numbers : d[i] = First(m)
      BY <2>1, <3>1 DEF Framed, h
    <3> QED BY <1>4, <2>1, <3>2
  <2>2. CASE i = h + 1
    BY <1>5, <2>2
  <2>3. CASE i = h + 2
    <3>1. i # 1 /\ i - 1 = h + 1
      BY <1>3, <2>3
    <3> QED BY <1>5, <1>8, <3>1, BytesDiffer
  <2>4. CASE i = h + 3
    BY <1>5, <2>4
  <2>5. CASE i = h + 4
    <3>1. i # 1 /\ i - 1 = h + 3
      BY <1>3, <2>5
    <3> QED BY <1>5, <1>8, <3>1, BytesDiffer
  <2> QED BY <1>6, <2>1, <2>2, <2>3, <2>4, <2>5
<1>9. ASSUME NEW i \in 1 .. h + 4, u[i] = CR
      PROVE  i + 1 <= h + 4 /\ u[i + 1] = LF
  <2>1. CASE i \in 1 .. h
    <3>1. i + 1 <= h /\ d[i + 1] = LF
      BY <1>4, <1>9, <2>1 DEF Framed, h
    <3>2. i + 1 \in 1 .. h
      BY <1>3, <2>1, <3>1
    <3> QED BY <1>3, <1>4, <3>1, <3>2
  <2>2. CASE i = h + 3
    <3>1. i + 1 = h + 4
      BY <1>3, <2>2
    <3> QED BY <1>3, <1>5, <3>1
  <2> QED BY <1>5, <1>6, <1>9, <2>1, <2>2, BytesDiffer
<1>10. ASSUME NEW i \in 1 .. h + 4, NEW m \in Numbers, u[i] = First(m)
       PROVE  \/ i \in 1 .. h /\ d[i] = First(m)
              \/ i = h + 1 /\ m = n
  BY <1>4, <1>5, <1>6, <1>10, BytesDiffer
<1>11. ASSUME NEW i \in 1 .. h + 4, NEW m \in Numbers, u[i] = First(m)
       PROVE  /\ m <= n /\ i + 3 <= h + 4
              /\ u[i + 1] = Second(m) /\ u[i + 2] = CR /\ u[i + 3] = LF
  <2>1. CASE i \in 1 .. h /\ d[i] = First(m)
    <3>1. m <= last /\ i + 3 <= h /\ d[i + 1] = Second(m) /\ d[i + 2] = CR /\ d[i + 3] = LF
      BY <2>1 DEF Framed, h
    <3>2. i + 1 \in 1 .. h /\ i + 2 \in 1 .. h /\ i + 3 \in 1 .. h
      BY <1>3, <2>1, <3>1
    <3>3. m \in Nat
      BY DEF Numbers
    <3> QED BY SMTT(30), <1>3, <1>4, <3>1, <3>2, <3>3
  <2>2. CASE i = h + 1 /\ m = n
    <3>1. i + 1 = h + 2 /\ i + 2 = h + 3 /\ i + 3 = h + 4
      BY <1>3, <2>2
    <3> QED BY <1>3, <1>5, <2>2, <3>1
  <2> QED BY <1>10, <1>11, <2>1, <2>2
<1>12. ASSUME NEW i \in 1 .. h + 4, NEW j \in 1 .. h + 4, NEW k \in Numbers, NEW m \in Numbers,
              i < j, u[i] = First(k), u[j] = First(m)
       PROVE  k < m
  <2>1. i \in 1 .. h /\ d[i] = First(k)
    BY <1>3, <1>10, <1>12
  <2>2. CASE j \in 1 .. h /\ d[j] = First(m)
    BY <1>12, <2>1, <2>2 DEF Framed, h
  <2>3. CASE j = h + 1 /\ m = n
    <3>1. k <= last /\ k \in Nat
      BY <2>1 DEF Framed, h, Numbers
    <3> QED BY <2>3, <3>1
  <2> QED BY <1>10, <1>12, <2>2, <2>3
<1>13. u[Len(u)] = LF
  BY <1>3, <1>5
<1>14. Framed(u, n)
  BY <1>3, <1>8, <1>9, <1>11, <1>12, <1>13 DEF Framed
<1>15. \A i \in 1 .. Len(u) : \A m \in Numbers : u[i] = First(m) =>
           (\E j \in 1 .. Len(d) : d[j] = First(m)) \/ m = n
  BY <1>3, <1>10 DEF h
<1> QED BY <1>14, <1>15 DEF u, line

\* Bytes that have been sent stay numbered below what the source sends later.
LEMMA FramedLater ==
    ASSUME NEW last \in Nat, NEW d, Framed(d, last)
    PROVE  Framed(d, last + 1)
BY DEF Framed, Numbers

(***************************************************************************)
(* The inductive invariant.                                                *)
(***************************************************************************)
Attached(s) == conn[s] \in {"select", "read", "publish"}

\* What the source has sent on this connection.
Feed(s) == received[s] \o wire[s]

\* The conjunct of CutAsIfReadAtOnce for one connection.
Cut(s) == handed[s] \o batch[s] = Lines(received[s]) /\ buffer[s] = Last(Split(received[s]))

\* A stored line of this source was handed over on this connection, or has a
\* smaller number than every line of this connection.
Earlier(s) ==
    \A i \in DOMAIN stream : stream[i].source = s =>
        \/ \E k \in DOMAIN handed[s] : stream[i].raw = handed[s][k]
        \/ \A j \in 1 .. Len(Feed(s)) : \A n \in Numbers :
               Feed(s)[j] = First(n) => stream[i].raw[1][2] < n

Connection(s) == Attached(s) => Cut(s) /\ Framed(Feed(s), sent[s]) /\ Earlier(s)

\* No line is stored that its source has not sent.
Known == \A i \in DOMAIN stream : stream[i].raw[1][2] <= sent[stream[i].source]

Shapes ==
    /\ wire \in [Sources -> Seq(Byte)]
    /\ buffer \in [Sources -> Seq(Byte)]
    /\ received \in [Sources -> Seq(Byte)]
    /\ batch \in [Sources -> Seq(Bodies)]
    /\ handed \in [Sources -> Seq(Bodies)]
    /\ stream \in Seq([source : Sources, raw : Bodies])

IInv ==
    /\ TypeOK
    /\ Shapes
    /\ \A s \in Sources : Connection(s)
    /\ Known
    /\ InOrderAtMostOnce

\* What a line is.
LEMMA BodiesAre ==
    \A x \in Bodies : \E n \in Numbers : x = Body(n) /\ x[1][2] = n
BY BytesDiffer DEF Bodies, Numbers, Body, First

LEMMA StreamIs ==
    ASSUME Shapes
    PROVE  \A i \in DOMAIN stream :
               stream[i].source \in Sources /\ stream[i].raw \in Bodies /\ stream[i].raw[1][2] \in Nat
<1> SUFFICES ASSUME NEW i \in DOMAIN stream
             PROVE  stream[i].source \in Sources /\ stream[i].raw \in Bodies /\ stream[i].raw[1][2] \in Nat
  OBVIOUS
<1>1. stream[i] \in [source : Sources, raw : Bodies]
  <2> DEFINE S == [source : Sources, raw : Bodies]
  <2> HIDE DEF S
  <2>1. stream \in Seq(S)
    BY DEF Shapes, S
  <2>2. stream[i] \in S
    BY <2>1, ElementOfSeq, LenProperties
  <2> QED BY <2>2 DEF S
<1> QED BY <1>1, BodiesAre DEF Numbers

\* A connection is left as it was by a step that neither reads nor writes on it and
\* stores no line of its source.
LEMMA Undisturbed ==
    ASSUME NEW r \in Sources, Shapes, Connection(r),
           Attached(r)' => /\ Attached(r)
                           /\ UNCHANGED <<wire[r], received[r], handed[r], buffer[r], batch[r], sent[r]>>,
           stream' = stream \/ \E e : stream' = Append(stream, e) /\ e.source # r
    PROVE  Connection(r)'
<1> SUFFICES ASSUME Attached(r)'
             PROVE  Cut(r)' /\ Framed(Feed(r), sent[r])' /\ Earlier(r)'
  BY DEF Connection
<1>1. /\ wire'[r] = wire[r] /\ received'[r] = received[r] /\ handed'[r] = handed[r]
      /\ buffer'[r] = buffer[r] /\ batch'[r] = batch[r] /\ sent'[r] = sent[r]
  OBVIOUS
<1>2. Cut(r) /\ Framed(Feed(r), sent[r]) /\ Earlier(r)
  BY DEF Connection
<1>3. Feed(r)' = Feed(r)
  BY <1>1 DEF Feed
<1>4. Cut(r)'
  BY <1>1, <1>2 DEF Cut
<1>5. Framed(Feed(r), sent[r])'
  <2>1. Framed(Feed(r)', sent'[r])
    BY <1>1, <1>2, <1>3
  <2> QED BY <2>1 DEF Framed
<1>6. Earlier(r)'
  <2>1. ASSUME NEW i \in DOMAIN stream', stream'[i].source = r
        PROVE  i \in DOMAIN stream /\ stream'[i] = stream[i]
    <3>1. stream \in Seq([source : Sources, raw : Bodies])
      BY DEF Shapes
    <3>2. CASE stream' = stream
      BY <2>1, <3>2
    <3>3. CASE \E e : stream' = Append(stream, e) /\ e.source # r
      <4>1. PICK e : stream' = Append(stream, e) /\ e.source # r
        BY <3>3
      <4> QED BY <2>1, <3>1, <4>1
    <3> QED BY <3>2, <3>3
  <2> QED BY SMTT(30), <1>1, <1>2, <1>3, <2>1 DEF Earlier
<1> QED BY <1>4, <1>5, <1>6

\* What the order of the stream comes to when it stays as it is.
LEMMA SameStream ==
    ASSUME stream' = stream, sent' = sent, Known, InOrderAtMostOnce
    PROVE  Known' /\ InOrderAtMostOnce'
BY DEF Known, InOrderAtMostOnce

LEMMA Starts == ASSUME Init PROVE IInv
<1>1. TypeOK
  BY IngestorAssumption DEF Init, TypeOK
<1>2. Shapes
  BY DEF Init, Shapes
<1>3. \A s \in Sources : Connection(s)
  BY DEF Init, Connection, Attached
<1>4. Known /\ InOrderAtMostOnce
  BY DEF Init, Known, InOrderAtMostOnce
<1> QED BY <1>1, <1>2, <1>3, <1>4 DEF IInv

LEMMA ConnectKeeps == ASSUME IInv, NEW s \in Sources, Connect(s) PROVE IInv'
<1>1. TypeOK'
  BY DEF IInv, TypeOK, Connect
<1>2. Shapes'
  BY DEF IInv, Shapes, Connect
<1>3. ASSUME NEW r \in Sources PROVE Connection(r)'
  <2>1. CASE r # s
    BY <2>1, Undisturbed DEF IInv, Connect, Shapes, TypeOK, Attached
  <2>2. CASE r = s
    <3>1. /\ received'[s] = <<>> /\ wire'[s] = <<>> /\ handed'[s] = <<>> /\ buffer'[s] = <<>>
          /\ batch'[s] = <<>> /\ stream' = stream
      BY DEF IInv, Connect, Shapes, TypeOK
    <3>2. Feed(s)' = <<>>
      BY <3>1 DEF Feed
    <3>3. Cut(s)'
      BY <3>1, NothingYet DEF Cut
    <3>4. Framed(Feed(s), sent[s])'
      <4>1. Framed(<<>>, sent'[s])
        BY NothingYet
      <4> QED BY <3>2, <4>1 DEF Framed
    <3>5. Earlier(s)'
      BY <3>2 DEF Earlier
    <3> QED BY <2>2, <3>3, <3>4, <3>5 DEF Connection
  <2> QED BY <2>1, <2>2
<1>4. Known' /\ InOrderAtMostOnce'
  BY SameStream DEF IInv, Connect
<1> QED BY <1>1, <1>2, <1>3, <1>4 DEF IInv

\* The steps that leave every connection as it is, or end it.
LEMMA QuietKeeps ==
    ASSUME IInv,
           \/ \E s \in Sources : ResolveFails(s) \/ Select(s) \/ ReadFails(s) \/ Resume(s) \/ PeerVanishes(s)
           \/ Cancel
           \/ Restart
           \/ UNCHANGED vars
    PROVE  IInv'
<1>1. TypeOK'
  <2> USE DEF IInv, TypeOK
  <2>1. ASSUME NEW s \in Sources, ResolveFails(s) PROVE TypeOK'
    BY <2>1, IngestorAssumption DEF ResolveFails, Fault
  <2>2. ASSUME NEW s \in Sources, Select(s) PROVE TypeOK'
    BY <2>2 DEF Select
  <2>3. ASSUME NEW s \in Sources, ReadFails(s) PROVE TypeOK'
    BY <2>3, IngestorAssumption DEF ReadFails, Fault
  <2>4. ASSUME NEW s \in Sources, Resume(s) PROVE TypeOK'
    BY <2>4 DEF Resume
  <2>5. ASSUME NEW s \in Sources, PeerVanishes(s) PROVE TypeOK'
    BY <2>5, IngestorAssumption DEF PeerVanishes, Fault
  <2>6. CASE Cancel
    BY <2>6 DEF Cancel
  <2>7. CASE Restart
    BY <2>7, IngestorAssumption DEF Restart, Fault
  <2>8. CASE UNCHANGED vars
    BY <2>8 DEF vars
  <2> QED BY <2>1, <2>2, <2>3, <2>4, <2>5, <2>6, <2>7, <2>8
<1>2. Shapes'
  <2> USE DEF IInv, Shapes
  <2>1. CASE \E s \in Sources : ResolveFails(s) \/ Select(s) \/ ReadFails(s) \/ Resume(s) \/ PeerVanishes(s)
    <3>1. UNCHANGED <<buffer, batch, received, handed, stream>>
      BY <2>1 DEF ResolveFails, Select, ReadFails, Resume, PeerVanishes
    <3>2. wire' = wire \/ \E s \in Sources : wire' = [wire EXCEPT ![s] = <<>>]
      BY <2>1 DEF ResolveFails, Select, ReadFails, Resume, PeerVanishes
    <3>3. wire' \in [Sources -> Seq(Byte)]
      <4>1. <<>> \in Seq(Byte)
        OBVIOUS
      <4> QED BY <3>2, <4>1
    <3> QED BY <3>1, <3>3
  <2>2. CASE Cancel \/ UNCHANGED vars
    BY <2>2 DEF Cancel, vars
  <2>3. CASE Restart
    BY <2>3 DEF Restart
  <2> QED BY <2>1, <2>2, <2>3
<1>3. ASSUME NEW r \in Sources PROVE Connection(r)'
  <2>1. Attached(r)' => /\ Attached(r)
                        /\ UNCHANGED <<wire[r], received[r], handed[r], buffer[r], batch[r], sent[r]>>
    BY DEF IInv, TypeOK, Shapes, Attached, ResolveFails, Select, ReadFails, Resume, PeerVanishes,
           Cancel, Restart, vars
  <2>2. stream' = stream
    BY DEF ResolveFails, Select, ReadFails, Resume, PeerVanishes, Cancel, Restart, vars
  <2> QED BY <2>1, <2>2, Undisturbed DEF IInv
<1>4. Known' /\ InOrderAtMostOnce'
  BY SameStream DEF IInv, ResolveFails, Select, ReadFails, Resume, PeerVanishes, Cancel, Restart, vars
<1> QED BY <1>1, <1>2, <1>3, <1>4 DEF IInv

\* The head of the second of two sequences, moved to the end of the first.
LEMMA HeadMoves ==
    ASSUME NEW S, NEW h \in Seq(S), NEW b \in Seq(S), b # <<>>
    PROVE  /\ Head(b) \in S /\ Tail(b) \in Seq(S) /\ (Len(b) = 1 <=> Tail(b) = <<>>)
           /\ Append(h, Head(b)) \in Seq(S)
           /\ Append(h, Head(b)) \o Tail(b) = h \o b
           /\ Len(h) \in Nat /\ Len(h) + 1 \in 1 .. Len(h \o b)
           /\ (h \o b)[Len(h) + 1] = Head(b)
           /\ \A k \in 1 .. Len(h) : k \in 1 .. Len(h \o b) /\ (h \o b)[k] = h[k]
<1>1. /\ Len(b) \in Nat /\ Len(b) > 0 /\ Len(h) \in Nat
      /\ Head(b) = b[1] /\ Head(b) \in S /\ Tail(b) \in Seq(S) /\ Len(Tail(b)) = Len(b) - 1
      /\ \A i \in 1 .. Len(b) - 1 : Tail(b)[i] = b[i + 1]
  BY HeadTailProperties, LenProperties, EmptySeq
<1>2. /\ Append(h, Head(b)) \in Seq(S) /\ Len(Append(h, Head(b))) = Len(h) + 1
      /\ \A i \in 1 .. Len(h) : Append(h, Head(b))[i] = h[i]
      /\ Append(h, Head(b))[Len(h) + 1] = Head(b)
  BY <1>1, AppendProperties
<1>3. /\ h \o b \in Seq(S) /\ Len(h \o b) = Len(h) + Len(b)
      /\ \A i \in 1 .. Len(h) + Len(b) : (h \o b)[i] = IF i <= Len(h) THEN h[i] ELSE b[i - Len(h)]
  BY ConcatProperties
<1> DEFINE u == Append(h, Head(b))
           v == Tail(b)
<1>4. /\ u \o v \in Seq(S) /\ Len(u \o v) = Len(u) + Len(v)
      /\ \A i \in 1 .. Len(u) + Len(v) : (u \o v)[i] = IF i <= Len(u) THEN u[i] ELSE v[i - Len(u)]
  BY <1>1, <1>2, ConcatProperties
<1>5. Len(u \o v) = Len(h \o b)
  BY <1>1, <1>2, <1>3, <1>4
<1>6. ASSUME NEW i \in 1 .. Len(h) + Len(b) PROVE (u \o v)[i] = (h \o b)[i]
  <2> HIDE DEF u, v
  <2>1. CASE i <= Len(h)
    BY <1>1, <1>2, <1>3, <1>4, <1>5, <2>1 DEF u
  <2>2. CASE i = Len(h) + 1
    <3>1. i - Len(h) = 1 /\ ~ (i <= Len(h)) /\ i <= Len(h) + 1
      BY <1>1, <2>2
    <3> QED BY <1>1, <1>2, <1>3, <1>4, <1>5, <2>2, <3>1 DEF u
  <2>3. CASE i > Len(h) + 1
    <3>1. /\ i - (Len(h) + 1) \in 1 .. Len(b) - 1 /\ i - (Len(h) + 1) + 1 = i - Len(h)
          /\ ~ (i <= Len(h)) /\ ~ (i <= Len(h) + 1)
      BY <1>1, <2>3
    <3>2. (u \o v)[i] = v[i - (Len(h) + 1)]
      BY <1>2, <1>3, <1>4, <1>5, <3>1 DEF u
    <3>3. v[i - (Len(h) + 1)] = b[i - Len(h)]
      BY <1>1, <3>1 DEF v
    <3> QED BY <1>3, <3>1, <3>2, <3>3
  <2>4. i <= Len(h) \/ i = Len(h) + 1 \/ i > Len(h) + 1
    BY <1>1
  <2> QED BY <2>1, <2>2, <2>3, <2>4
<1>7. u \o v = h \o b
  <2> HIDE DEF u, v
  <2> QED BY <1>3, <1>4, <1>5, <1>6, SeqEqual
<1>8. Len(b) = 1 <=> Tail(b) = <<>>
  <2>1. Len(Tail(b)) = 0 <=> Tail(b) = <<>>
    BY <1>1, EmptySeq
  <2> QED BY <1>1, <2>1
<1>9. Len(h) + 1 \in 1 .. Len(h) + Len(b) /\ Len(h) + 1 - Len(h) = 1 /\ ~ (Len(h) + 1 <= Len(h))
  BY <1>1
<1>10. (h \o b)[Len(h) + 1] = Head(b)
  BY <1>1, <1>3, <1>9
<1>11. \A k \in 1 .. Len(h) : k \in 1 .. Len(h \o b) /\ (h \o b)[k] = h[k]
  BY <1>1, <1>3
<1> QED BY <1>1, <1>2, <1>3, <1>7, <1>8, <1>9, <1>10, <1>11

LEMMA BeginningOf ==
    ASSUME NEW a \in Seq(Byte), NEW b \in Seq(Byte)
    PROVE  Beginning(a, a \o b)
<1>1. /\ Len(a \o b) = Len(a) + Len(b)
      /\ \A i \in 1 .. Len(a) + Len(b) : (a \o b)[i] = IF i <= Len(a) THEN a[i] ELSE b[i - Len(a)]
  BY ConcatProperties
<1> QED BY <1>1, LenProperties DEF Beginning

\* What NextLine does to a connection: the line at the head of the batch has been
\* handed over, and it comes after all that its source has in the stream.
LEMMA NextLineIs ==
    ASSUME IInv, NEW s \in Sources, conn[s] = "publish", NextLine(s)
    PROVE  LET x == Head(batch[s]) IN
           /\ x \in Bodies /\ batch[s] # <<>> /\ x[1][2] <= sent[s]
           /\ conn' = [conn EXCEPT ![s] = IF Tail(batch[s]) = <<>> THEN "select" ELSE "publish"]
           /\ batch' = [batch EXCEPT ![s] = Tail(@)] /\ batch' \in [Sources -> Seq(Bodies)]
           /\ handed' = [handed EXCEPT ![s] = Append(@, x)] /\ handed' \in [Sources -> Seq(Bodies)]
           /\ handed'[s] \o batch'[s] = handed[s] \o batch[s]
           /\ \A i \in DOMAIN stream : stream[i].source = s => stream[i].raw[1][2] < x[1][2]
<1> DEFINE x == Head(batch[s])
           h == handed[s]
           b == batch[s]
           r == received[s]
           q == Lines(r)
<1>1. b \in Seq(Bodies) /\ h \in Seq(Bodies) /\ r \in Seq(Byte) /\ wire[s] \in Seq(Byte)
  BY DEF IInv, Shapes
<1>2. b # <<>> /\ Attached(s) /\ x = Head(b)
  BY DEF IInv, TypeOK, Attached
<1>3. Cut(s) /\ Framed(Feed(s), sent[s]) /\ Earlier(s)
  BY <1>2 DEF IInv, Connection
<1>4. /\ x \in Bodies /\ Tail(b) \in Seq(Bodies) /\ (Len(b) = 1 <=> Tail(b) = <<>>)
      /\ Append(h, x) \in Seq(Bodies) /\ Append(h, x) \o Tail(b) = h \o b
      /\ Len(h) \in Nat /\ Len(h) + 1 \in 1 .. Len(h \o b) /\ (h \o b)[Len(h) + 1] = x
      /\ \A k \in 1 .. Len(h) : k \in 1 .. Len(h \o b) /\ (h \o b)[k] = h[k]
  <2> HIDE DEF h, b, x
  <2>1. b \in Seq(Bodies) /\ h \in Seq(Bodies) /\ b # <<>> /\ x = Head(b)
    BY <1>1, <1>2
  <2>2. x \in Bodies /\ Tail(b) \in Seq(Bodies) /\ (Len(b) = 1 <=> Tail(b) = <<>>)
    BY <2>1, HeadMoves
  <2>3. Append(h, x) \in Seq(Bodies) /\ Append(h, x) \o Tail(b) = h \o b
    BY <2>1, HeadMoves
  <2>4. Len(h) \in Nat /\ Len(h) + 1 \in 1 .. Len(h \o b) /\ (h \o b)[Len(h) + 1] = x
    BY <2>1, HeadMoves
  <2>5. \A k \in 1 .. Len(h) : k \in 1 .. Len(h \o b) /\ (h \o b)[k] = h[k]
    BY <2>1, HeadMoves
  <2> QED BY <2>2, <2>3, <2>4, <2>5
<1>5. batch' = [batch EXCEPT ![s] = Tail(@)] /\ batch' \in [Sources -> Seq(Bodies)]
  BY <1>4 DEF IInv, Shapes, NextLine
<1>6. handed' = [handed EXCEPT ![s] = Append(@, x)] /\ handed' \in [Sources -> Seq(Bodies)]
  BY <1>1, <1>4 DEF IInv, Shapes, NextLine
<1>7. handed'[s] \o batch'[s] = h \o b
  <2>1. handed'[s] = Append(h, x) /\ batch'[s] = Tail(b)
    BY <1>5, <1>6 DEF IInv, Shapes
  <2> QED BY <1>4, <2>1
<1>8. q = h \o b
  BY <1>3 DEF Cut
<1>9. Beginning(r, Feed(s))
  <2> HIDE DEF r
  <2>1. Beginning(r, r \o wire[s])
    BY <1>1, BeginningOf
  <2> QED BY <2>1 DEF Feed, r
<1>10. /\ Len(h) \in Nat /\ Len(h) + 1 \in 1 .. Len(q) /\ q[Len(h) + 1] = x
       /\ \A k \in 1 .. Len(h) : k \in 1 .. Len(q) /\ q[k] = h[k]
  BY <1>4, <1>8
<1>11. PICK n \in Numbers, j \in 1 .. Len(Feed(s)) : x = Body(n) /\ Feed(s)[j] = First(n)
  BY <1>3, <1>9, <1>10, LinesOfFramed
<1>12. x[1][2] = n
  BY <1>11 DEF Body
<1>13. n <= sent[s]
  BY <1>3, <1>11 DEF Framed
<1>14. ASSUME NEW i \in DOMAIN stream, stream[i].source = s
       PROVE  stream[i].raw[1][2] < x[1][2]
  <2>1. CASE \E k \in DOMAIN h : stream[i].raw = h[k]
    <3>1. PICK k \in DOMAIN h : stream[i].raw = h[k]
      BY <2>1
    <3>2. k \in 1 .. Len(h) /\ k < Len(h) + 1
      BY <1>1, <3>1
    <3>3. q[k][1][2] < q[Len(h) + 1][1][2]
      BY <1>3, <1>9, <1>10, <3>2, LinesOfFramed
    <3> QED BY <1>10, <3>1, <3>2, <3>3
  <2>2. CASE \A j_1 \in 1 .. Len(Feed(s)) : \A m \in Numbers :
                Feed(s)[j_1] = First(m) => stream[i].raw[1][2] < m
    BY <1>11, <1>12, <2>2
  <2> QED BY <1>3, <1>14, <2>1, <2>2 DEF Earlier
<1>15. conn' = [conn EXCEPT ![s] = IF Tail(b) = <<>> THEN "select" ELSE "publish"]
  BY <1>4 DEF NextLine
<1> QED BY <1>2, <1>4, <1>5, <1>6, <1>7, <1>12, <1>13, <1>14, <1>15

\* What one more element changes.
LEMMA AppendedIs ==
    ASSUME NEW S, NEW q \in Seq(S), NEW e \in S, NEW t, t = q \/ t = Append(q, e)
    PROVE  /\ t \in Seq(S)
           /\ \A i \in DOMAIN t :
                 \/ i \in DOMAIN q /\ t[i] = q[i]
                 \/ t[i] = e /\ i = Len(q) + 1 /\ t = Append(q, e)
           /\ \A i \in DOMAIN q : i \in Nat /\ i < Len(q) + 1
<1>1. DOMAIN q = 1 .. Len(q) /\ Len(q) \in Nat
  BY LenProperties
<1>2. CASE t = q
  <2>1. \A i \in DOMAIN t : i \in DOMAIN q /\ t[i] = q[i]
    BY <1>2
  <2>2. \A i \in DOMAIN q : i \in Nat /\ i < Len(q) + 1
    BY <1>1
  <2> QED BY <1>2, <2>1, <2>2
<1>3. CASE t = Append(q, e)
  <2>1. /\ t \in Seq(S) /\ DOMAIN t = 1 .. Len(q) + 1
        /\ \A i \in 1 .. Len(q) : t[i] = q[i]
        /\ t[Len(q) + 1] = e
    BY <1>3, AppendProperties, LenProperties
  <2> QED BY <1>1, <1>3, <2>1
<1> QED BY <1>2, <1>3

\* A line goes to the stream, or is given up.
LEMMA PublishKeeps ==
    ASSUME IInv, NEW s \in Sources, Publish(s) \/ PublishFails(s)
    PROVE  IInv'
<1> DEFINE x == Head(batch[s])
           e == [source |-> s, raw |-> x]
<1>1. /\ conn[s] = "publish" /\ NextLine(s)
      /\ UNCHANGED <<ctx, wire, alive, sent, buffer, received>>
      /\ stream' = stream \/ stream' = Append(stream, e)
      /\ faults' = faults \/ (faults < MaxFaults /\ faults' = faults + 1)
  BY DEF Publish, PublishFails, Stored, Fault
<1>2. /\ x \in Bodies /\ batch[s] # <<>> /\ x[1][2] <= sent[s]
      /\ conn' = [conn EXCEPT ![s] = IF Tail(batch[s]) = <<>> THEN "select" ELSE "publish"]
      /\ batch' = [batch EXCEPT ![s] = Tail(@)] /\ batch' \in [Sources -> Seq(Bodies)]
      /\ handed' = [handed EXCEPT ![s] = Append(@, x)] /\ handed' \in [Sources -> Seq(Bodies)]
      /\ handed'[s] \o batch'[s] = handed[s] \o batch[s]
      /\ \A i \in DOMAIN stream : stream[i].source = s => stream[i].raw[1][2] < x[1][2]
  BY <1>1, NextLineIs
<1>3. stream \in Seq([source : Sources, raw : Bodies]) /\ e \in [source : Sources, raw : Bodies]
  BY <1>2 DEF IInv, Shapes
<1> HIDE DEF x, e
<1>4. e.source = s /\ e.raw = x
  BY DEF e
<1>5. /\ stream' \in Seq([source : Sources, raw : Bodies])
      /\ \A i \in DOMAIN stream' :
            \/ i \in DOMAIN stream /\ stream'[i] = stream[i]
            \/ stream'[i] = e /\ i = Len(stream) + 1 /\ stream' = Append(stream, e)
      /\ \A i \in DOMAIN stream : i \in Nat /\ i < Len(stream) + 1
  <2> DEFINE S == [source : Sources, raw : Bodies]
             t == stream'
  <2> HIDE DEF S, t
  <2>1. stream \in Seq(S) /\ e \in S /\ (t = stream \/ t = Append(stream, e))
    BY <1>1, <1>3 DEF S, t
  <2>2. /\ t \in Seq(S)
        /\ \A i \in DOMAIN t :
              \/ i \in DOMAIN stream /\ t[i] = stream[i]
              \/ t[i] = e /\ i = Len(stream) + 1 /\ t = Append(stream, e)
        /\ \A i \in DOMAIN stream : i \in Nat /\ i < Len(stream) + 1
    BY <2>1, AppendedIs
  <2> QED BY <2>2 DEF S, t
<1>6. TypeOK'
  <2>1. faults' \in 0 .. MaxFaults
    BY <1>1, IngestorAssumption DEF IInv, TypeOK
  <2>2. conn' \in [Sources -> {"dial", "select", "read", "publish", "pause", "stopped"}]
    BY <1>2 DEF IInv, TypeOK
  <2>3. \A r \in Sources : conn'[r] = "publish" <=> batch'[r] # <<>>
    BY <1>2 DEF IInv, TypeOK, Shapes
  <2> QED BY <1>1, <2>1, <2>2, <2>3 DEF IInv, TypeOK
<1>7. Shapes'
  BY <1>1, <1>2, <1>5 DEF IInv, Shapes
<1>8. ASSUME NEW r \in Sources PROVE Connection(r)'
  <2>1. CASE r # s
    <3>1. Attached(r)' => /\ Attached(r)
                          /\ UNCHANGED <<wire[r], received[r], handed[r], buffer[r], batch[r], sent[r]>>
      BY <1>1, <1>2, <2>1 DEF IInv, TypeOK, Shapes, Attached
    <3>2. stream' = stream \/ \E e_1 : stream' = Append(stream, e_1) /\ e_1.source # r
      BY <1>1, <1>4, <2>1
    <3> QED BY <3>1, <3>2, Undisturbed DEF IInv
  <2>2. CASE r = s
    <3>1. Cut(s) /\ Framed(Feed(s), sent[s]) /\ Earlier(s)
      BY <1>1 DEF IInv, Connection, Attached
    <3>2. Feed(s)' = Feed(s)
      BY <1>1 DEF Feed
    <3>3. Cut(s)'
      BY <1>1, <1>2, <3>1 DEF Cut
    <3>4. Framed(Feed(s), sent[s])'
      <4>1. Framed(Feed(s)', sent'[s])
        BY <1>1, <3>1, <3>2
      <4> QED BY <4>1 DEF Framed
    <3>5. /\ \A k \in DOMAIN handed[s] : k \in DOMAIN handed'[s] /\ handed'[s][k] = handed[s][k]
          /\ \E k \in DOMAIN handed'[s] : handed'[s][k] = x
      <4>1. handed'[s] = Append(handed[s], x) /\ handed[s] \in Seq(Bodies) /\ handed'[s] \in Seq(Bodies)
        BY <1>2 DEF IInv, Shapes
      <4>2. /\ Len(handed'[s]) = Len(handed[s]) + 1 /\ Len(handed[s]) \in Nat
            /\ \A k \in 1 .. Len(handed[s]) : handed'[s][k] = handed[s][k]
            /\ handed'[s][Len(handed[s]) + 1] = x
        BY <1>2, <4>1, AppendProperties, LenProperties
      <4>3. DOMAIN handed[s] = 1 .. Len(handed[s]) /\ DOMAIN handed'[s] = 1 .. Len(handed[s]) + 1
        BY <4>1, <4>2
      <4> QED BY <4>2, <4>3
    <3>6. ASSUME NEW i \in DOMAIN stream', stream'[i].source = s
          PROVE  \/ \E k \in DOMAIN handed'[s] : stream'[i].raw = handed'[s][k]
                 \/ \A j \in 1 .. Len(Feed(s)') : \A n \in Numbers :
                        Feed(s)'[j] = First(n) => stream'[i].raw[1][2] < n
      <4>1. CASE i \in DOMAIN stream /\ stream'[i] = stream[i]
        BY <3>1, <3>2, <3>5, <3>6, <4>1 DEF Earlier
      <4>2. CASE stream'[i] = e
        BY <1>4, <3>5, <4>2
      <4> QED BY <1>5, <4>1, <4>2
    <3>7. Earlier(s)'
      BY <3>6 DEF Earlier
    <3> QED BY <2>2, <3>3, <3>4, <3>7 DEF Connection
  <2> QED BY <2>1, <2>2
<1>9. Known'
  <2>1. ASSUME NEW i \in DOMAIN stream' PROVE stream'[i].raw[1][2] <= sent'[stream'[i].source]
    BY <1>1, <1>2, <1>4, <1>5 DEF IInv, Known
  <2> QED BY <2>1 DEF Known
<1>10. InOrderAtMostOnce'
  <2>1. ASSUME NEW i \in DOMAIN stream', NEW j \in DOMAIN stream', i < j,
               stream'[i].source = stream'[j].source
        PROVE  stream'[i].raw[1][2] < stream'[j].raw[1][2]
    <3>1. CASE j \in DOMAIN stream /\ stream'[j] = stream[j]
      <4>1. i \in DOMAIN stream /\ stream'[i] = stream[i]
        BY <1>5, <2>1, <3>1
      <4> QED BY <2>1, <3>1, <4>1 DEF IInv, InOrderAtMostOnce
    <3>2. CASE stream'[j] = e /\ j = Len(stream) + 1
      <4>1. i \in DOMAIN stream /\ stream'[i] = stream[i]
        BY <1>5, <2>1, <3>2
      <4> QED BY <1>2, <1>4, <2>1, <3>2, <4>1
    <3> QED BY <1>5, <3>1, <3>2
  <2> QED BY <2>1 DEF InOrderAtMostOnce
<1> QED BY <1>6, <1>7, <1>8, <1>9, <1>10 DEF IInv

\* A sequence is its first k elements and the others.
LEMMA CutAt ==
    ASSUME NEW S, NEW q \in Seq(S), NEW k \in 1 .. Len(q)
    PROVE  /\ SubSeq(q, 1, k) \in Seq(S) /\ SubSeq(q, k + 1, Len(q)) \in Seq(S)
           /\ SubSeq(q, 1, k) \o SubSeq(q, k + 1, Len(q)) = q
<1> DEFINE a == SubSeq(q, 1, k)
           b == SubSeq(q, k + 1, Len(q))
           n == Len(q)
<1>1. n \in Nat /\ k \in Nat /\ k <= n
  BY LenProperties
<1>2. /\ a \in Seq(S) /\ Len(a) = k /\ \A i \in 1 .. k : a[i] = q[i]
  <2>1. 1 \in 1 .. Len(q) + 1 /\ k \in 0 .. Len(q) /\ \A i \in 1 .. k : q[i] \in S
    BY <1>1, ElementOfSeq
  <2> QED BY <1>1, <2>1, SubSeqProperties
<1>3. /\ b \in Seq(S) /\ Len(b) = n - k /\ \A i \in 1 .. n - k : b[i] = q[k + i]
  BY <1>1, SubSeqProperties
<1> HIDE DEF a, b, n
<1>4. /\ a \o b \in Seq(S) /\ Len(a \o b) = Len(a) + Len(b)
      /\ \A i \in 1 .. Len(a) + Len(b) : (a \o b)[i] = IF i <= Len(a) THEN a[i] ELSE b[i - Len(a)]
  BY <1>2, <1>3, ConcatProperties
<1>5. ASSUME NEW i \in 1 .. n PROVE (a \o b)[i] = q[i]
  <2>1. CASE i <= k
    BY <1>1, <1>2, <1>3, <1>4, <2>1
  <2>2. CASE i > k
    <3>1. i - k \in 1 .. n - k /\ k + (i - k) = i /\ ~ (i <= k)
      BY <1>1, <2>2
    <3> QED BY SMTT(30), <1>1, <1>2, <1>3, <1>4, <3>1
  <2>3. i <= k \/ i > k
    BY <1>1
  <2> QED BY <2>1, <2>2, <2>3
<1>6. Len(a \o b) = n
  BY <1>1, <1>2, <1>3, <1>4
<1>7. a \o b = q
  <2>1. \A i \in 1 .. Len(a \o b) : (a \o b)[i] = q[i]
    BY <1>5, <1>6
  <2>2. Len(a \o b) = Len(q)
    BY <1>6 DEF n
  <2> QED BY <1>4, <2>1, <2>2, SeqEqual
<1> QED BY <1>2, <1>3, <1>7 DEF a, b, n

\* What follows in a sequence has elements of the sequence.
LEMMA RestTyped ==
    ASSUME NEW S, NEW T, NEW a \in Seq(T), NEW b \in Seq(T), a \o b \in Seq(S)
    PROVE  b \in Seq(S)
<1>1. /\ Len(a) \in Nat /\ Len(b) \in Nat /\ Len(a \o b) = Len(a) + Len(b)
      /\ \A i \in 1 .. Len(a) + Len(b) : (a \o b)[i] = IF i <= Len(a) THEN a[i] ELSE b[i - Len(a)]
  BY ConcatProperties, LenProperties
<1>2. ASSUME NEW i \in 1 .. Len(b) PROVE b[i] \in S
  <2>1. PICK j \in 1 .. Len(a) + Len(b) : j = Len(a) + i
    BY <1>1
  <2>2. ~ (j <= Len(a)) /\ j - Len(a) = i
    BY <1>1, <2>1
  <2>3. (a \o b)[j] = b[i]
    BY <1>1, <2>2
  <2>4. (a \o b)[j] \in S
    BY <1>1, ElementOfSeq
  <2> QED BY <2>3, <2>4
<1>3. b \in [1 .. Len(b) -> S]
  BY <1>2, LenProperties
<1> QED BY <1>1, <1>3, SeqDef

LEMMA ReadKeeps == ASSUME IInv, NEW s \in Sources, Read(s) PROVE IInv'
<1> DEFINE w == wire[s]
           r == received[s]
<1>1. /\ w \in Seq(Byte) /\ r \in Seq(Byte) /\ buffer[s] \in Seq(Byte)
      /\ handed[s] \in Seq(Bodies) /\ batch[s] = <<>> /\ Attached(s)
      /\ Cut(s) /\ Framed(Feed(s), sent[s]) /\ Earlier(s)
  BY DEF IInv, TypeOK, Shapes, Read, Connection, Attached
<1>2. PICK k \in 1 .. Min({BufferSize, Len(w)}) :
        LET g == SubSeq(w, 1, k)
            d == buffer[s] \o g IN
        /\ wire' = [wire EXCEPT ![s] = SubSeq(@, k + 1, Len(@))]
        /\ buffer' = [buffer EXCEPT ![s] = Last(Split(d))]
        /\ batch' = [batch EXCEPT ![s] = Lines(d)]
        /\ conn' = [conn EXCEPT ![s] = IF batch'[s] = <<>> THEN "select" ELSE "publish"]
        /\ received' = [received EXCEPT ![s] = @ \o g]
  BY DEF Read
<1> DEFINE got  == SubSeq(w, 1, k)
           rest == SubSeq(w, k + 1, Len(w))
           data == buffer[s] \o got
<1>3. /\ wire' = [wire EXCEPT ![s] = rest] /\ buffer' = [buffer EXCEPT ![s] = Last(Split(data))]
      /\ batch' = [batch EXCEPT ![s] = Lines(data)] /\ received' = [received EXCEPT ![s] = r \o got]
      /\ conn' = [conn EXCEPT ![s] = IF Lines(data) = <<>> THEN "select" ELSE "publish"]
      /\ UNCHANGED <<ctx, alive, sent, stream, faults, handed>>
  <2>1. /\ wire' = [wire EXCEPT ![s] = rest] /\ buffer' = [buffer EXCEPT ![s] = Last(Split(data))]
        /\ batch' = [batch EXCEPT ![s] = Lines(data)] /\ received' = [received EXCEPT ![s] = r \o got]
        /\ conn' = [conn EXCEPT ![s] = IF batch'[s] = <<>> THEN "select" ELSE "publish"]
    BY <1>2
  <2>2. batch'[s] = Lines(data)
    <3>1. DOMAIN batch = Sources
      BY DEF IInv, Shapes
    <3> HIDE DEF data
    <3> QED BY <2>1, <3>1
  <2>3. UNCHANGED <<ctx, alive, sent, stream, faults, handed>>
    BY DEF Read
  <2> HIDE DEF data, rest, got
  <2> QED BY <2>1, <2>2, <2>3
<1>4. k \in 1 .. Len(w)
  <2>1. Len(w) \in Nat /\ BufferSize \in Nat
    BY <1>1, LenProperties, IngestorAssumption
  <2>2. Min({BufferSize, Len(w)}) \in {BufferSize, Len(w)} /\ Min({BufferSize, Len(w)}) <= Len(w)
    <3>1. \E x \in {BufferSize, Len(w)} : \A y \in {BufferSize, Len(w)} : x <= y
      BY <2>1
    <3> QED BY <3>1 DEF Min
  <2> QED BY <2>1, <2>2
<1> HIDE DEF w, r
<1>5. got \in Seq(Byte) /\ rest \in Seq(Byte) /\ got \o rest = w
  BY <1>1, <1>4, CutAt
<1> HIDE DEF got, rest
<1>6. data \in Seq(Byte) /\ r \o got \in Seq(Byte)
  BY <1>1, <1>5, ConcatProperties
<1>7. (r \o got) \o rest = r \o w
  <2>1. (r \o got) \o rest = r \o (got \o rest)
    <3>1. r \in Seq(Byte) /\ got \in Seq(Byte) /\ rest \in Seq(Byte)
      BY <1>1, <1>5
    <3> QED BY SMTT(30), <3>1, ConcatAssociative
  <2> QED BY <1>5, <2>1
<1>8. Feed(s) = r \o w /\ Feed(s)' = r \o w
  <2>1. received'[s] = r \o got /\ wire'[s] = rest
    BY <1>3 DEF IInv, Shapes
  <2> QED BY <1>7, <2>1 DEF Feed, r, w
<1>9. /\ Lines(r \o got) = Lines(r) \o Lines(data)
      /\ Last(Split(r \o got)) = Last(Split(data))
  <2>1. buffer[s] = Last(Split(r))
    BY <1>1 DEF Cut, r
  <2>2. /\ Lines(r \o got) = Lines(r) \o Lines(Last(Split(r)) \o got)
        /\ Last(Split(r \o got)) = Last(Split(Last(Split(r)) \o got))
    BY <1>1, <1>5, LinesJoin
  <2> QED BY <2>1, <2>2
<1> HIDE DEF data
<1>10. Lines(data) \in Seq(Bodies)
  <2>1. Beginning(r \o got, Feed(s))
    BY <1>5, <1>6, <1>7, <1>8, BeginningOf
  <2>2. Lines(r \o got) \in Seq(Bodies)
    BY <1>1, <2>1, LinesOfFramed
  <2>3. Lines(r) \in Seq(Trims(Byte)) /\ Lines(data) \in Seq(Trims(Byte))
    BY <1>1, <1>6, LinesAre
  <2> QED BY <1>9, <2>2, <2>3, RestTyped
<1>11. Last(Split(data)) \in Seq(Byte)
  BY <1>6, SplitIs, KeptIs
<1>12. TypeOK'
  <2>1. conn' \in [Sources -> {"dial", "select", "read", "publish", "pause", "stopped"}]
    BY <1>3 DEF IInv, TypeOK
  <2>2. \A x \in Sources : conn'[x] = "publish" <=> batch'[x] # <<>>
    BY <1>3 DEF IInv, TypeOK, Shapes
  <2> QED BY <1>3, <2>1, <2>2 DEF IInv, TypeOK
<1>13. Shapes'
  BY <1>3, <1>5, <1>6, <1>10, <1>11 DEF IInv, Shapes
<1>14. ASSUME NEW x \in Sources PROVE Connection(x)'
  <2>1. CASE x # s
    <3>1. Attached(x)' => /\ Attached(x)
                          /\ UNCHANGED <<wire[x], received[x], handed[x], buffer[x], batch[x], sent[x]>>
      BY <1>3, <2>1 DEF IInv, TypeOK, Shapes, Attached
    <3> QED BY <1>3, <3>1, Undisturbed DEF IInv
  <2>2. CASE x = s
    <3>1. Cut(s)'
      <4>1. /\ received'[s] = r \o got /\ batch'[s] = Lines(data) /\ handed'[s] = handed[s]
            /\ buffer'[s] = Last(Split(data))
        BY <1>3 DEF IInv, Shapes
      <4>2. handed[s] = Lines(r)
        <5>1. handed[s] \o <<>> = handed[s]
          BY <1>1, ConcatEmptySeq
        <5>2. handed[s] \o batch[s] = Lines(r)
          BY <1>1 DEF Cut, r
        <5> QED BY <1>1, <5>1, <5>2
      <4> QED BY <1>9, <4>1, <4>2 DEF Cut
    <3>2. Framed(Feed(s), sent[s])'
      <4>1. Framed(Feed(s)', sent'[s])
        BY <1>1, <1>3, <1>8
      <4> QED BY <4>1 DEF Framed
    <3>3. Earlier(s)'
      BY ZenonT(60), <1>1, <1>3, <1>8 DEF Earlier
    <3> QED BY <2>2, <3>1, <3>2, <3>3 DEF Connection
  <2> QED BY <2>1, <2>2
<1>15. Known' /\ InOrderAtMostOnce'
  BY <1>3, SameStream DEF IInv
<1> QED BY <1>12, <1>13, <1>14, <1>15 DEF IInv

\* The source has sent a line, to the connection or to nobody.
LEMMA SendLineKeeps == ASSUME IInv, NEW s \in Sources, SendLine(s) PROVE IInv'
<1> DEFINE w == wire[s]
           r == received[s]
           n == sent[s] + 1
           line == Body(n) \o EndOfLine
<1>1. /\ w \in Seq(Byte) /\ r \in Seq(Byte) /\ sent[s] \in Nat /\ n \in Numbers
      /\ sent' = [sent EXCEPT ![s] = n] /\ sent'[s] = n
      /\ UNCHANGED <<ctx, conn, alive, buffer, batch, stream, faults, received, handed>>
  BY SMTT(30), IngestorAssumption DEF IInv, TypeOK, Shapes, SendLine, Numbers
<1>2. /\ line \in Seq(Byte) /\ Body(n) \in Seq(Byte) /\ EndOfLine \in Seq(Byte)
  <2>1. /\ First(n) \in Byte /\ Second(n) \in Byte /\ CR \in Byte /\ LF \in Byte
        /\ Body(n) = <<First(n), Second(n)>>
    BY <1>1, BytesDiffer DEF Byte
  <2>2. EndOfLine = <<CR, LF>>
    BY DEF EndOfLine
  <2> QED BY <1>1, <2>1, <2>2, LineIs
<1>3. \/ wire' = [wire EXCEPT ![s] = w \o line] /\ wire'[s] = w \o line
      \/ ~ (Attached(s) /\ alive[s]) /\ wire' = wire
  <2>1. CASE Connected(s)
    <3>1. wire' = [wire EXCEPT ![s] = (w \o Body(n)) \o EndOfLine]
      BY <1>1, <2>1 DEF SendLine
    <3>2. (w \o Body(n)) \o EndOfLine = w \o line
      <4>1. w \in Seq(Byte) /\ Body(n) \in Seq(Byte) /\ EndOfLine \in Seq(Byte)
        BY <1>1, <1>2
      <4> DEFINE b == Body(n)
                 o == EndOfLine
      <4>2. b \in Seq(Byte) /\ o \in Seq(Byte) /\ line = b \o o
        BY <4>1 DEF line
      <4> HIDE DEF w, b, o, line
      <4>3. (w \o b) \o o = w \o (b \o o)
        BY SMTT(30), <4>1, <4>2, ConcatAssociative
      <4> QED BY <4>2, <4>3 DEF b, o
    <3> QED BY <3>1, <3>2 DEF IInv, Shapes
  <2>2. CASE ~ Connected(s)
    BY <2>2 DEF SendLine, Connected, Attached
  <2> QED BY <2>1, <2>2
<1>4. TypeOK'
  BY <1>1, IngestorAssumption DEF IInv, TypeOK, Numbers
<1> HIDE DEF line
<1>5. Shapes'
  <2>1. w \o line \in Seq(Byte)
    BY <1>1, <1>2, ConcatProperties
  <2>2. wire' \in [Sources -> Seq(Byte)]
    BY <1>3, <2>1 DEF IInv, Shapes
  <2> QED BY <1>1, <2>2 DEF IInv, Shapes
<1>6. ASSUME NEW x \in Sources PROVE Connection(x)'
  <2>1. CASE x # s
    <3>1. Attached(x)' => /\ Attached(x)
                          /\ UNCHANGED <<wire[x], received[x], handed[x], buffer[x], batch[x], sent[x]>>
      BY <1>1, <1>3, <2>1 DEF IInv, TypeOK, Shapes, Attached
    <3> QED BY <1>1, <3>1, Undisturbed DEF IInv
  <2>2. CASE x = s /\ ~ Attached(s)
    BY <1>1, <2>2 DEF Connection, Attached
  <2>3. CASE x = s /\ Attached(s)
    <3>1. Cut(s) /\ Framed(Feed(s), sent[s]) /\ Earlier(s)
      BY <2>3 DEF IInv, Connection
    <3>2. Cut(s)'
      BY <1>1, <3>1 DEF Cut
    <3>3. CASE wire' = wire
      <4>1. Feed(s)' = Feed(s)
        BY <1>1, <3>3 DEF Feed
      <4>2. Framed(Feed(s)', sent'[s])
        BY <1>1, <3>1, <4>1, FramedLater
      <4>3. Framed(Feed(s), sent[s])'
        BY <4>2 DEF Framed
      <4>4. Earlier(s)'
        BY <1>1, <3>1, <4>1 DEF Earlier
      <4> QED BY <2>3, <3>2, <4>3, <4>4 DEF Connection
    <3>4. CASE wire'[s] = w \o line
      <4>1. Feed(s)' = Feed(s) \o line
        <5>1. Feed(s)' = r \o (w \o line)
          BY <1>1, <3>4 DEF Feed
        <5>2. (r \o w) \o line = r \o (w \o line)
          <6>1. r \in Seq(Byte) /\ w \in Seq(Byte) /\ line \in Seq(Byte)
            BY <1>1, <1>2
          <6> HIDE DEF r, w, line
          <6> QED BY <6>1, ConcatAssociative
        <5> QED BY <5>1, <5>2 DEF Feed
      <4>2. /\ Framed(Feed(s) \o line, n)
            /\ \A i \in 1 .. Len(Feed(s) \o line) : \A m \in Numbers : (Feed(s) \o line)[i] = First(m) =>
                  (\E j \in 1 .. Len(Feed(s)) : Feed(s)[j] = First(m)) \/ m = n
        BY <1>1, <3>1, FramedGrows DEF line
      <4>3. Framed(Feed(s), sent[s])'
        <5>1. Framed(Feed(s)', sent'[s])
          BY <1>1, <4>1, <4>2
        <5> QED BY <5>1 DEF Framed
      <4>4. ASSUME NEW i \in DOMAIN stream, stream[i].source = s,
                   ~ \E k \in DOMAIN handed[s] : stream[i].raw = handed[s][k],
                   NEW j \in 1 .. Len(Feed(s) \o line), NEW m \in Numbers,
                   (Feed(s) \o line)[j] = First(m)
            PROVE  stream[i].raw[1][2] < m
        <5>1. CASE \E j_1 \in 1 .. Len(Feed(s)) : Feed(s)[j_1] = First(m)
          BY <3>1, <4>4, <5>1 DEF Earlier
        <5>2. CASE m = n
          <6>1. stream[i].raw[1][2] <= sent[s]
            BY <4>4 DEF IInv, Known
          <6>2. stream[i].raw[1][2] \in Nat
            BY <4>4, StreamIs DEF IInv
          <6> QED BY <1>1, <5>2, <6>1, <6>2
        <5> QED BY <4>2, <4>4, <5>1, <5>2
      <4>5. Earlier(s)'
        BY <1>1, <4>1, <4>4 DEF Earlier
      <4> QED BY <2>3, <3>2, <4>3, <4>5 DEF Connection
    <3> QED BY <1>3, <3>3, <3>4
  <2> QED BY <2>1, <2>2, <2>3
<1>7. Known'
  <2>1. ASSUME NEW i \in DOMAIN stream PROVE stream[i].raw[1][2] <= sent'[stream[i].source]
    <3>1. stream[i].raw[1][2] <= sent[stream[i].source]
      BY DEF IInv, Known
    <3>2. stream[i].raw[1][2] \in Nat /\ stream[i].source \in Sources
      BY StreamIs DEF IInv
    <3>3. sent[stream[i].source] <= sent'[stream[i].source] /\ sent[stream[i].source] \in Nat
          /\ sent'[stream[i].source] \in Nat
      BY <1>1, <3>2, IngestorAssumption DEF IInv, TypeOK
    <3> QED BY <3>1, <3>2, <3>3
  <2> QED BY <1>1, <2>1 DEF Known
<1>8. InOrderAtMostOnce'
  BY <1>1 DEF IInv, InOrderAtMostOnce
<1> QED BY <1>4, <1>5, <1>6, <1>7, <1>8 DEF IInv

\* An empty line before the first one.
LEMMA HeartbeatKeeps == ASSUME IInv, NEW s \in Sources, Heartbeat(s) PROVE IInv'
<1>1. /\ Attached(s) /\ received[s] = <<>> /\ wire' = [wire EXCEPT ![s] = EndOfLine]
      /\ UNCHANGED <<ctx, conn, alive, sent, buffer, batch, stream, faults, received, handed>>
  <2>1. received[s] \in Seq(Byte)
    BY DEF IInv, Shapes
  <2> QED BY <2>1, EmptySeq DEF Heartbeat, Connected, Attached
<1>2. EndOfLine \in Seq(Byte) /\ sent[s] \in Nat
  BY IngestorAssumption DEF EndOfLine, Byte, IInv, TypeOK
<1>3. TypeOK'
  BY <1>1 DEF IInv, TypeOK
<1>4. Shapes'
  BY <1>1, <1>2 DEF IInv, Shapes
<1>5. ASSUME NEW r \in Sources PROVE Connection(r)'
  <2>1. CASE r # s
    <3>1. Attached(r)' => /\ Attached(r)
                          /\ UNCHANGED <<wire[r], received[r], handed[r], buffer[r], batch[r], sent[r]>>
      BY <1>1, <2>1 DEF IInv, TypeOK, Shapes, Attached
    <3> QED BY <1>1, <3>1, Undisturbed DEF IInv
  <2>2. CASE r = s
    <3>1. Feed(s)' = EndOfLine
      <4>1. Feed(s)' = <<>> \o EndOfLine
        BY <1>1 DEF Feed, IInv, Shapes
      <4> QED BY <1>2, <4>1, ConcatEmptySeq
    <3>2. Cut(s)'
      BY <1>1 DEF IInv, Connection, Cut
    <3>3. Framed(Feed(s), sent[s])'
      <4>1. Framed(EndOfLine, sent[s])
        BY <1>2, FramedBegins
      <4>2. Framed(Feed(s)', sent'[s])
        BY <1>1, <3>1, <4>1
      <4> QED BY <4>2 DEF Framed
    <3>4. Earlier(s)'
      <4>1. \A j \in 1 .. Len(EndOfLine) : EndOfLine[j] \in {CR, LF}
        BY DEF EndOfLine
      <4> QED BY <3>1, <4>1, BytesDiffer DEF Earlier
    <3> QED BY <2>2, <3>2, <3>3, <3>4 DEF Connection
  <2> QED BY <2>1, <2>2
<1>6. Known' /\ InOrderAtMostOnce'
  BY <1>1, SameStream DEF IInv
<1> QED BY <1>3, <1>4, <1>5, <1>6 DEF IInv

\* The steps of the ingestor and of its surroundings preserve the invariant.
LEMMA Step == ASSUME IInv, [Next]_vars PROVE IInv'
<1>1. ASSUME NEW s \in Sources, Ingesting(s) PROVE IInv'
  BY <1>1, ConnectKeeps, QuietKeeps, ReadKeeps, PublishKeeps DEF Ingesting
<1>2. ASSUME NEW s \in Sources, SendLine(s) \/ Heartbeat(s) \/ PeerVanishes(s) PROVE IInv'
  BY <1>2, SendLineKeeps, HeartbeatKeeps, QuietKeeps
<1>3. CASE Cancel \/ Restart \/ UNCHANGED vars
  BY <1>3, QuietKeeps
<1> QED BY <1>1, <1>2, <1>3 DEF Next

(***************************************************************************)
(* What holds of every behaviour.                                          *)
(***************************************************************************)
\* Each reachable state of the ingestor, with any number of sources, lines, faults
\* and any size of a read, satisfies the inductive invariant.
THEOREM Invariance == Spec => []IInv
<1>1. Init => IInv
  BY Starts
<1>2. IInv /\ [Next]_vars => IInv'
  BY Step
<1> QED BY <1>1, <1>2, PTL DEF Spec

\* The variables have their types; a goroutine is publishing exactly while lines of
\* its last read are left (main.go 114-145).
THEOREM TypeCorrect == Spec => []TypeOK
<1>1. IInv => TypeOK
  BY DEF IInv
<1> QED BY <1>1, Invariance, PTL

\* Wherever the boundaries of the reads fall, what is handed over and what is kept
\* are what one read of all the bytes would give (main.go 114-145).
THEOREM CutAsRead == Spec => []CutAsIfReadAtOnce
<1>1. IInv => CutAsIfReadAtOnce
  BY DEF IInv, Connection, Attached, Cut, CutAsIfReadAtOnce
<1> QED BY <1>1, Invariance, PTL

\* No torn line and no glued one is stored (main.go 114-160).
THEOREM WholeLines == Spec => []OnlyWholeLines
<1>1. IInv => OnlyWholeLines
  BY StreamIs DEF IInv, OnlyWholeLines
<1> QED BY <1>1, Invariance, PTL

\* The stream keeps the order of each source and has no line of it twice, whatever
\* publishes fail, connections break or processes end (main.go 83-160).
THEOREM InOrder == Spec => []InOrderAtMostOnce
<1>1. IInv => InOrderAtMostOnce
  BY DEF IInv
<1> QED BY <1>1, Invariance, PTL

=============================================================================
