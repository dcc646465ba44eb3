----------------------------- MODULE OrdersProofs -----------------------------
(***************************************************************************)
(* Proofs about Orders, for any set and any total order of it.             *)
(*                                                                         *)
(* The number of elements that are not after an element is its place: it   *)
(* grows strictly along the order, so it is injective, and an injection of *)
(* a finite set into as many places reaches every place.                   *)
(*                                                                         *)
(* The order of Measures is the lexicographic order of as many counts.     *)
(***************************************************************************)
EXTENDS Orders, Measures, FunctionTheorems, FiniteSetTheorems, WellFoundedInduction, TLAPS

TotalOrder(S, R) ==
    /\ \A s \in S : <<s, s>> \in R
    /\ \A r, s \in S : <<r, s>> \in R \/ <<s, r>> \in R
    /\ \A r, s \in S : <<r, s>> \in R /\ <<s, r>> \in R => r = s
    /\ \A r, s, t \in S : <<r, s>> \in R /\ <<s, t>> \in R => <<r, t>> \in R

NotAfter(S, R, s) == {r \in S : <<r, s>> \in R}

Places(S, R) == [s \in S |-> Cardinality(NotAfter(S, R, s))]

\* Every element has its place, no two have the same, and no place is empty.
LEMMA PlacesBijection ==
    ASSUME NEW S, IsFiniteSet(S), NEW R, TotalOrder(S, R)
    PROVE  /\ Places(S, R) \in Bijection(S, 1..Cardinality(S))
           /\ \A r, s \in S : Places(S, R)[r] < Places(S, R)[s] <=> <<r, s>> \in R /\ r # s
<1> DEFINE n == Cardinality(S)
           f == Places(S, R)
<1>1. n \in Nat /\ IsFiniteSet(1..n) /\ Cardinality(1..n) = n
  <2>1. n \in Nat
      BY FS_CardinalityType
  <2> HIDE DEF n
  <2> QED
      BY <2>1, FS_Interval
<1>2. ASSUME NEW s \in S
      PROVE  IsFiniteSet(NotAfter(S, R, s)) /\ f[s] = Cardinality(NotAfter(S, R, s)) /\ f[s] \in 1..n
  <2>1. NotAfter(S, R, s) \in SUBSET S /\ s \in NotAfter(S, R, s)
      BY DEF NotAfter, TotalOrder
  <2>2. IsFiniteSet(NotAfter(S, R, s)) /\ Cardinality(NotAfter(S, R, s)) <= n
      BY <2>1, FS_Subset
  <2>3. Cardinality(NotAfter(S, R, s)) \in Nat /\ Cardinality(NotAfter(S, R, s)) # 0
      BY <2>1, <2>2, FS_CardinalityType, FS_EmptySet
  <2>4. f[s] = Cardinality(NotAfter(S, R, s))
      BY DEF Places
  <2> QED
      BY <1>1, <2>2, <2>3, <2>4
<1>3. ASSUME NEW r \in S, NEW s \in S, <<r, s>> \in R, r # s PROVE f[r] < f[s]
  <2>1. NotAfter(S, R, r) \in SUBSET NotAfter(S, R, s)
      BY <1>3 DEF NotAfter, TotalOrder
  <2>2. s \in NotAfter(S, R, s) /\ s \notin NotAfter(S, R, r)
      BY <1>3 DEF NotAfter, TotalOrder
  <2>3. /\ Cardinality(NotAfter(S, R, r)) <= Cardinality(NotAfter(S, R, s))
        /\ Cardinality(NotAfter(S, R, r)) # Cardinality(NotAfter(S, R, s))
      BY <1>2, <2>1, <2>2, FS_Subset
  <2> HIDE DEF f, n
  <2> QED
      BY <1>1, <1>2, <2>3
<1>4. f \in [S -> 1..n] /\ \A s \in S : f[s] \in Int
  <2>1. f = [s \in S |-> f[s]]
      BY DEF Places
  <2> HIDE DEF f, n
  <2> QED
      BY <1>1, <1>2, <2>1
<1> HIDE DEF f
<1>5. \A r, s \in S : f[r] < f[s] <=> <<r, s>> \in R /\ r # s
  <2> SUFFICES ASSUME NEW r \in S, NEW s \in S
               PROVE  f[r] < f[s] <=> <<r, s>> \in R /\ r # s
      OBVIOUS
  <2>1. r = s \/ (<<r, s>> \in R /\ f[r] < f[s]) \/ (<<s, r>> \in R /\ f[s] < f[r])
      BY <1>3 DEF TotalOrder
  <2>2. r # s => ~(<<r, s>> \in R /\ <<s, r>> \in R)
      BY DEF TotalOrder
  <2> QED
      BY <1>4, <2>1, <2>2
<1>6. f \in Injection(S, 1..n)
  <2>1. \A r, s \in S : f[r] = f[s] => r = s
    <3> SUFFICES ASSUME NEW r \in S, NEW s \in S, f[r] = f[s], r # s PROVE FALSE
        OBVIOUS
    <3>1. ~(f[r] < f[s]) /\ ~(f[s] < f[r])
        BY <1>4
    <3> QED
        BY <1>5, <3>1 DEF TotalOrder
  <2> QED
      BY <1>4, <2>1 DEF Injection, IsInjective
<1>7. f \in Surjection(S, 1..n)
    BY <1>1, <1>6, FS_Injection
<1> QED
    BY <1>5, <1>6, <1>7 DEF Bijection, f

\* InOrder lists a finite set once, each element where the order has it.
THEOREM InOrderLists ==
    ASSUME NEW S, IsFiniteSet(S), NEW R, TotalOrder(S, R)
    PROVE  LET q == InOrder(S, R) IN
           /\ q \in Seq(S) /\ Len(q) = Cardinality(S) /\ Cardinality(S) \in Nat
           /\ \A s \in S : \E k \in 1..Len(q) : q[k] = s
           /\ \A j, k \in 1..Len(q) : j < k <=> <<q[j], q[k]>> \in R /\ q[j] # q[k]
<1> DEFINE n == Cardinality(S)
           f == Places(S, R)
           q == InOrder(S, R)
<1>1. n \in Nat
    BY FS_CardinalityType
<1>2. /\ f \in [S -> 1..n]
      /\ \A r, s \in S : f[r] = f[s] => r = s
      /\ \A k \in 1..n : \E s \in S : f[s] = k
      /\ \A r, s \in S : f[r] < f[s] <=> <<r, s>> \in R /\ r # s
  <2>1. /\ f \in Bijection(S, 1..n)
        /\ \A r, s \in S : f[r] < f[s] <=> <<r, s>> \in R /\ r # s
      BY PlacesBijection
  <2> HIDE DEF f, n
  <2> QED
      BY <2>1 DEF Bijection, Injection, Surjection, IsInjective
<1>3. ASSUME NEW k \in 1..n PROVE q[k] \in S /\ f[q[k]] = k
  <2>1. q[k] = CHOOSE s \in S : Cardinality(NotAfter(S, R, s)) = k
      BY DEF InOrder, NotAfter
  <2>2. \E s \in S : Cardinality(NotAfter(S, R, s)) = k
      BY <1>2 DEF Places
  <2>3. q[k] \in S /\ Cardinality(NotAfter(S, R, q[k])) = k
      BY <2>1, <2>2
  <2> QED
      BY <2>3 DEF Places
<1>4. q \in Seq(S) /\ Len(q) = n
  <2>1. q = [k \in 1..n |-> q[k]]
    <3> DEFINE at(k) == CHOOSE s \in S : Cardinality({r \in S : <<r, s>> \in R}) = k
    <3>1. q = [k \in 1..n |-> at(k)]
        BY DEF InOrder
    <3> HIDE DEF q, n, at
    <3> QED
        BY <3>1
  <2> HIDE DEF q, n
  <2>2. q \in [1..n -> S]
      BY <1>3, <2>1
  <2> QED
      BY <1>1, <2>2
<1> HIDE DEF f, q, n
<1>5. ASSUME NEW s \in S PROVE \E k \in 1..n : q[k] = s
  <2>1. f[s] \in 1..n /\ f[q[f[s]]] = f[s] /\ q[f[s]] \in S
      BY <1>2, <1>3
  <2> QED
      BY <1>2, <2>1
<1>6. ASSUME NEW j \in 1..n, NEW k \in 1..n PROVE j < k <=> <<q[j], q[k]>> \in R /\ q[j] # q[k]
    BY <1>2, <1>3
<1>7. /\ q \in Seq(S) /\ Len(q) = n /\ n \in Nat
      /\ \A s \in S : \E k \in 1..Len(q) : q[k] = s
      /\ \A j, k \in 1..Len(q) : j < k <=> <<q[j], q[k]>> \in R /\ q[j] # q[k]
    BY <1>1, <1>4, <1>5, <1>6
<1> QED
    BY <1>7 DEF q, n

\* A list of all elements that follows the order is the one InOrder gives.
THEOREM InOrderUnique ==
    ASSUME NEW S, NEW R, TotalOrder(S, R), NEW q \in Seq(S),
           \A s \in S : \E k \in 1..Len(q) : q[k] = s,
           \A j, k \in 1..Len(q) : j < k => <<q[j], q[k]>> \in R /\ q[j] # q[k]
    PROVE  IsFiniteSet(S) /\ Cardinality(S) = Len(q) /\ InOrder(S, R) = q
<1>1. Len(q) \in Nat /\ \A k \in 1..Len(q) : q[k] \in S
    OBVIOUS
<1>2. \A j, k \in 1..Len(q) : q[j] = q[k] => j = k
  <2>1. \A j, k \in 1..Len(q) : j = k \/ j < k \/ k < j
      BY <1>1
  <2> QED
      BY <2>1
<1>3. ASSUME NEW i \in 0..Len(q), NEW T, T = {q[j] : j \in 1..i}
      PROVE  IsFiniteSet(T) /\ Cardinality(T) = i
  <2> DEFINE g == [j \in 1..i |-> q[j]]
  <2>1. IsFiniteSet(1..i) /\ Cardinality(1..i) = i
      BY <1>1, FS_Interval
  <2>2. \A j \in 1..i : j \in 1..Len(q)
      BY <1>1
  <2>3. g \in [1..i -> T] /\ \A x \in T : \E j \in 1..i : g[j] = x
      BY <1>3
  <2>4. \A j, k \in 1..i : g[j] = g[k] => j = k
      BY <1>2, <2>2
  <2> HIDE DEF g
  <2>5. g \in Bijection(1..i, T)
      BY <2>3, <2>4 DEF Bijection, Injection, Surjection, IsInjective
  <2> QED
      BY <2>1, <2>5, FS_Bijection DEF ExistsBijection
<1>4. IsFiniteSet(S) /\ Cardinality(S) = Len(q)
  <2>1. S = {q[j] : j \in 1..Len(q)}
      BY <1>1
  <2>2. Len(q) \in 0..Len(q)
      BY <1>1
  <2> QED
      BY <1>3, <2>1, <2>2
<1>5. ASSUME NEW k \in 1..Len(q) PROVE Cardinality(NotAfter(S, R, q[k])) = k
  <2>1. NotAfter(S, R, q[k]) = {q[j] : j \in 1..k}
    <3>1. ASSUME NEW r \in S, <<r, q[k]>> \in R PROVE \E j \in 1..k : r = q[j]
      <4>1. PICK j \in 1..Len(q) : q[j] = r
          OBVIOUS
      <4>2. ~(k < j)
          BY <1>1, <3>1, <4>1 DEF TotalOrder
      <4>3. j \in 1..k
          BY <1>1, <4>2
      <4> QED
          BY <4>1, <4>3
    <3>2. ASSUME NEW j \in 1..k PROVE q[j] \in S /\ <<q[j], q[k]>> \in R
      <4>1. j \in 1..Len(q) /\ (j < k \/ j = k)
          BY <1>1
      <4> QED
          BY <1>1, <4>1 DEF TotalOrder
    <3> QED
        BY <3>1, <3>2 DEF NotAfter
  <2>2. k \in 0..Len(q)
      BY <1>1
  <2> QED
      BY <1>3, <2>1, <2>2
<1>6. ASSUME NEW k \in 1..Len(q), NEW s \in S, Cardinality(NotAfter(S, R, s)) = k
      PROVE  s = q[k]
  <2>1. Places(S, R)[s] = k /\ Places(S, R)[q[k]] = k
      BY <1>1, <1>5, <1>6 DEF Places
  <2> DEFINE f == Places(S, R)
  <2>2. f \in Bijection(S, 1..Cardinality(S))
      BY <1>4, PlacesBijection
  <2>3. f[s] = f[q[k]]
      BY <2>1
  <2> HIDE DEF f
  <2>4. \A x, y \in S : f[x] = f[y] => x = y
      BY <2>2 DEF Bijection, Injection, IsInjective
  <2> QED
      BY <1>1, <2>3, <2>4
<1>7. \A k \in 1..Len(q) : (CHOOSE s \in S : Cardinality(NotAfter(S, R, s)) = k) = q[k]
    BY <1>1, <1>5, <1>6
<1>8. InOrder(S, R) = [k \in 1..Len(q) |-> CHOOSE s \in S : Cardinality(NotAfter(S, R, s)) = k]
    BY <1>4 DEF InOrder, NotAfter
<1>9. InOrder(S, R) = [k \in 1..Len(q) |-> q[k]]
    BY <1>7, <1>8
<1> QED
    BY <1>4, <1>9

-------------------------------------------------------------------------------
\* Lists without some of their lines

LEMMA UpToOrder ==
    ASSUME NEW S, S \subseteq Int
    PROVE  TotalOrder(S, UpTo(S))
<1>1. \A r, s \in S : <<r, s>> \in UpTo(S) <=> r <= s
    BY DEF UpTo
<1> HIDE DEF UpTo
<1> QED
    BY <1>1 DEF TotalOrder

\* The lines that stay keep their order; p says where each was.
THEOREM WithoutLists ==
    ASSUME NEW T, NEW s \in Seq(T), NEW X
    PROVE  LET w == Without(s, X) IN
           /\ w \in Seq(T) /\ Len(w) \in Nat
           /\ \A k \in 1..Len(w) : w[k] \notin X
           /\ \E p \in [1..Len(w) -> 1..Len(s)] :
                /\ \A k \in 1..Len(w) : w[k] = s[p[k]]
                /\ \A j, k \in 1..Len(w) : j < k <=> p[j] < p[k]
                /\ \A i \in 1..Len(s) : s[i] \notin X => \E k \in 1..Len(w) : p[k] = i
<1> DEFINE kept == {i \in 1..Len(s) : s[i] \notin X}
           p == InOrder(kept, UpTo(kept))
           w == Without(s, X)
           n == Cardinality(kept)
<1>1. IsFiniteSet(kept) /\ TotalOrder(kept, UpTo(kept))
  <2>1. IsFiniteSet(1..Len(s))
      BY FS_Interval
  <2>2. kept \in SUBSET (1..Len(s))
      OBVIOUS
  <2> QED
      BY <2>1, <2>2, FS_Subset, UpToOrder
<1>2. \A i \in kept : i \in 1..Len(s) /\ s[i] \notin X /\ s[i] \in T
    OBVIOUS
<1>3. \A i \in 1..Len(s) : s[i] \notin X => i \in kept
    OBVIOUS
<1>4. w = [k \in 1..n |-> s[p[k]]]
    BY DEF Without
<1>5. \A i, j \in kept : <<i, j>> \in UpTo(kept) /\ i # j <=> i < j
    BY DEF UpTo
<1> HIDE DEF kept, w
<1>6. /\ p \in Seq(kept) /\ Len(p) = n /\ n \in Nat
      /\ \A i \in kept : \E k \in 1..Len(p) : p[k] = i
      /\ \A j, k \in 1..Len(p) : j < k <=> <<p[j], p[k]>> \in UpTo(kept) /\ p[j] # p[k]
    BY <1>1, InOrderLists
<1> HIDE DEF p, n
<1>7. \A k \in 1..n : p[k] \in kept
    BY <1>6
<1>8. \A j, k \in 1..n : j < k <=> p[j] < p[k]
    BY <1>5, <1>6, <1>7
<1>9. w \in Seq(T) /\ Len(w) = n
    BY <1>2, <1>4, <1>6, <1>7
<1>10. p \in [1..Len(w) -> 1..Len(s)]
    BY <1>2, <1>6, <1>7, <1>9
<1>11. \A k \in 1..Len(w) : w[k] = s[p[k]] /\ w[k] \notin X
    BY <1>2, <1>4, <1>7, <1>9
<1>12. \A i \in 1..Len(s) : s[i] \notin X => \E k \in 1..Len(w) : p[k] = i
    BY <1>3, <1>6, <1>9
<1>13. \E pp \in [1..Len(w) -> 1..Len(s)] :
         /\ \A k \in 1..Len(w) : w[k] = s[pp[k]]
         /\ \A j, k \in 1..Len(w) : j < k <=> pp[j] < pp[k]
         /\ \A i \in 1..Len(s) : s[i] \notin X => \E k \in 1..Len(w) : pp[k] = i
  <2> WITNESS p \in [1..Len(w) -> 1..Len(s)]
  <2> QED
      BY <1>8, <1>9, <1>11, <1>12
<1> QED
    BY <1>6, <1>9, <1>11, <1>13 DEF w

LEMMA WithoutElements ==
    ASSUME NEW T, NEW s \in Seq(T), NEW X
    PROVE  Elements(Without(s, X)) = Elements(s) \ X
<1> DEFINE w == Without(s, X)
<1>1. /\ Len(w) \in Nat
      /\ \A k \in 1..Len(w) : w[k] \notin X
      /\ \E p \in [1..Len(w) -> 1..Len(s)] :
           /\ \A k \in 1..Len(w) : w[k] = s[p[k]]
           /\ \A i \in 1..Len(s) : s[i] \notin X => \E k \in 1..Len(w) : p[k] = i
    BY WithoutLists
<1> HIDE DEF w
<1>2. Elements(w) = Elements(s) \ X
  <2>1. PICK p \in [1..Len(w) -> 1..Len(s)] :
           /\ \A k \in 1..Len(w) : w[k] = s[p[k]]
           /\ \A i \in 1..Len(s) : s[i] \notin X => \E k \in 1..Len(w) : p[k] = i
      BY <1>1
  <2>2. ASSUME NEW k \in 1..Len(w) PROVE w[k] \in Elements(s) \ X
      BY <1>1, <2>1 DEF Elements
  <2>3. ASSUME NEW i \in 1..Len(s), s[i] \notin X PROVE s[i] \in Elements(w)
    <3>1. PICK k \in 1..Len(w) : p[k] = i
        BY <2>1, <2>3
    <3> QED
        BY <2>1, <3>1 DEF Elements
  <2> QED
      BY <2>2, <2>3 DEF Elements
<1> QED
    BY <1>2 DEF w

\* Taking out what is in front leaves the rest.
LEMMA WithoutFront ==
    ASSUME NEW T, NEW s \in Seq(T), NEW X, NEW m \in 0..Len(s),
           \A i \in 1..Len(s) : s[i] \in X <=> i <= m
    PROVE  Without(s, X) = [k \in 1..(Len(s) - m) |-> s[k + m]]
<1> DEFINE rest == (m + 1)..Len(s)
           q == [k \in 1..(Len(s) - m) |-> k + m]
<1>0. Len(s) \in Nat /\ m \in Nat /\ m <= Len(s)
    OBVIOUS
<1>1. {i \in 1..Len(s) : s[i] \notin X} = rest
  <2>1. \A i \in 1..Len(s) : s[i] \notin X <=> i \in rest
      BY <1>0
  <2>2. rest \subseteq 1..Len(s)
      BY <1>0
  <2> QED
      BY <2>1, <2>2
<1>2. q \in Seq(rest) /\ Len(q) = Len(s) - m
    BY <1>0
<1>3. TotalOrder(rest, UpTo(rest))
    BY <1>0, UpToOrder
<1>4. \A j, k \in 1..Len(q) : j < k => <<q[j], q[k]>> \in UpTo(rest) /\ q[j] # q[k]
  <2>1. \A k \in 1..Len(q) : q[k] = k + m /\ q[k] \in rest
      BY <1>0, <1>2
  <2> QED
      BY <1>0, <1>2, <2>1 DEF UpTo
<1>5. InOrder(rest, UpTo(rest)) = q /\ Cardinality(rest) = Len(s) - m
  <2>1. ASSUME NEW i \in rest PROVE \E k \in 1..Len(q) : q[k] = i
    <3>1. i - m \in 1..Len(q) /\ q[i - m] = i
        BY <1>0, <1>2
    <3> QED
        BY <3>1
  <2> HIDE DEF rest, q
  <2> QED
      BY <1>2, <1>3, <1>4, <2>1, InOrderUnique
<1>6. Without(s, X) = [k \in 1..(Len(s) - m) |-> s[q[k]]]
    BY <1>1, <1>5 DEF Without
<1> QED
    BY <1>6

LEMMA WithoutNothing ==
    ASSUME NEW T, NEW s \in Seq(T), NEW X, Elements(s) \cap X = {}
    PROVE  Without(s, X) = s
<1>1. \A i \in 1..Len(s) : s[i] \in X <=> i <= 0
    BY DEF Elements
<1>2. 0 \in 0..Len(s) /\ Len(s) \in Nat
    OBVIOUS
<1>3. Without(s, X) = [k \in 1..(Len(s) - 0) |-> s[k + 0]]
    BY <1>1, <1>2, WithoutFront
<1> QED
    BY <1>2, <1>3

-------------------------------------------------------------------------------
\* A reason to stop at the first of several places

NatLess == {ss \in Nat \X Nat : ss[1] < ss[2]}

\* Every set of places has a first one.
LEMMA FirstPlace ==
    ASSUME NEW P, P \subseteq Nat, P # {}
    PROVE  \E m \in P : \A n \in P : m <= n
<1>1. IsWellFoundedOn(NatLess, Nat)
    BY NatLessThanWellFounded DEF OpToRel, NatLess
<1>2. PICK m \in P : \A n \in P : <<n, m>> \notin NatLess
    BY <1>1, WFMin
<1>3. ASSUME NEW n \in P PROVE m <= n
  <2>1. m \in Nat /\ n \in Nat /\ ~(n < m)
      BY <1>2 DEF NatLess
  <2> QED
      BY <2>1
<1> QED
    BY <1>3

-------------------------------------------------------------------------------
\* Measures

\* No measure of four counts goes down for ever, whatever the counts are of.  The
\* loop of select-custom-packages.sh has one.
THEOREM BelowWellFounded ==
    IsWellFoundedOn({p \in Counts \X Counts : Below(p[1], p[2])}, Counts)
<1> DEFINE Lex == LexProductOrdering(NatLess, Nat, 4)
<1>1. IsWellFoundedOn(NatLess, Nat)
    BY NatLessThanWellFounded DEF OpToRel, NatLess
<1>2. IsWellFoundedOn(Lex, Counts)
    BY <1>1, WFLexProductOrdering DEF Counts
<1>3. ASSUME NEW p \in Counts \X Counts, Below(p[1], p[2]) PROVE p \in Lex
  <2>1. p[1] \in [1..4 -> Nat] /\ p[2] \in [1..4 -> Nat]
      BY DEF Counts
  <2>2. PICK j \in 1..4 : p[1][j] < p[2][j] /\ \A i \in 1..(j - 1) : p[1][i] = p[2][i]
    <3>1. CASE p[1][1] < p[2][1]
        BY <3>1
    <3>2. CASE p[1][1] = p[2][1] /\ p[1][2] < p[2][2]
      <4>1. \A i \in 1..(2 - 1) : p[1][i] = p[2][i]
          BY <3>2
      <4> QED
          BY <3>2, <4>1
    <3>3. CASE p[1][1] = p[2][1] /\ p[1][2] = p[2][2] /\ p[1][3] < p[2][3]
      <4>1. \A i \in 1..(3 - 1) : p[1][i] = p[2][i]
          BY <3>3
      <4> QED
          BY <3>3, <4>1
    <3>4. CASE /\ p[1][1] = p[2][1] /\ p[1][2] = p[2][2] /\ p[1][3] = p[2][3]
               /\ p[1][4] < p[2][4]
      <4>1. \A i \in 1..(4 - 1) : p[1][i] = p[2][i]
          BY <3>4
      <4> QED
          BY <3>4, <4>1
    <3> QED
        BY <1>3, <3>1, <3>2, <3>3, <3>4 DEF Below
  <2>3. p[1][j] \in Nat /\ p[2][j] \in Nat
      BY <2>1
  <2>4. <<p[1][j], p[2][j]>> \in NatLess
      BY <2>2, <2>3 DEF NatLess
  <2> QED
      BY <2>1, <2>2, <2>4 DEF LexProductOrdering, Counts
<1> QED
    BY <1>2, <1>3, IsWellFoundedOnSubrelation
===============================================================================
