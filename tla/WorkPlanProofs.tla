---------------------------- MODULE WorkPlanProofs ----------------------------
(***************************************************************************)
(* Proofs about WorkPlan, for any trees, lists and alphabet and any number *)
(* of set-ups and kills.                                                   *)
(*                                                                         *)
(* ls puts the scripts in a total order, so Sorted lists each once, and    *)
(* the makefile has a rule for each.  While the numbers of the scripts     *)
(* grow in the order they are copied in, Sorted gives that order back, the *)
(* targets that exist are the first scripts, and make comes to the next.   *)
(***************************************************************************)
EXTENDS WorkPlan, OrdersProofs

-------------------------------------------------------------------------------
\* Numbers

Orders34 == {q \in Seq(Nat) : Len(q) \in {3, 4}}
Script == [order : Orders34, name : Names]

LEMMA NumeralType ==
    ASSUME NEW n \in Nat
    PROVE  Numeral(n) \in Orders34 /\ (n < 1000 <=> Len(Numeral(n)) = 3)
<1>1. /\ n \div 1000 \in Nat /\ n \div 100 \in Nat
      /\ (n \div 100) % 10 \in Nat /\ (n \div 10) % 10 \in Nat /\ n % 10 \in Nat
    OBVIOUS
<1>2. CASE n < 1000
    BY <1>1, <1>2 DEF Numeral, Orders34
<1>3. CASE ~(n < 1000)
    BY <1>1, <1>3 DEF Numeral, Orders34
<1> QED
    BY <1>2, <1>3

LEMMA ValueType ==
    ASSUME NEW q \in Seq(Nat)
    PROVE  Value(q) \in Nat
<1> DEFINE missing == 4 - Len(q)
           digit(i) == IF i <= missing THEN 0 ELSE q[i - missing]
           w == digit(1)
           x == digit(2)
           y == digit(3)
           z == digit(4)
<1>1. w \in Nat /\ x \in Nat /\ y \in Nat /\ z \in Nat
  <2>1. missing \in Int /\ Len(q) \in Nat /\ \A j \in 1..Len(q) : q[j] \in Nat
      OBVIOUS
  <2> HIDE DEF missing
  <2>2. ASSUME NEW i \in 1..4, missing = 4 - Len(q) PROVE digit(i) \in Nat
    <3>1. CASE i <= missing
        BY <3>1
    <3>2. CASE ~(i <= missing)
      <4>1. i - missing \in 1..Len(q)
          BY <2>1, <2>2, <3>2
      <4> QED
          BY <2>1, <3>2, <4>1
    <3> QED
        BY <3>1, <3>2
  <2> HIDE DEF digit
  <2> QED
      BY <2>2 DEF missing
<1>2. Value(q) = 1000 * w + 100 * x + 10 * y + z
    BY DEF Value
<1> HIDE DEF w, x, y, z
<1> QED
    BY <1>1, <1>2

-------------------------------------------------------------------------------
\* The order of ls

LEMMA TextAt ==
    ASSUME NEW a, NEW b, NEW i \in 1..Len(b), i <= Len(a) + 1,
           \A j \in 1..(i - 1) : a[j] = b[j],
           i <= Len(a) => a[i] < b[i]
    PROVE  TextBefore(a, b)
BY DEF TextBefore

LEMMA TextTotal ==
    ASSUME NEW a \in Seq(Nat), NEW b \in Seq(Nat), a # b
    PROVE  TextBefore(a, b) \/ TextBefore(b, a)
<1> DEFINE P == {i \in Nat : i >= 1 /\ (i > Len(a) \/ i > Len(b) \/ a[i] # b[i])}
<1>1. Len(a) \in Nat /\ Len(b) \in Nat
    OBVIOUS
<1>2. PICK m \in P : \A n \in P : m <= n
  <2>1. Len(a) + 1 \in P /\ P \subseteq Nat
      BY <1>1
  <2> QED
      BY <2>1, FirstPlace
<1>3. /\ m \in Nat /\ m >= 1 /\ m <= Len(a) + 1 /\ m <= Len(b) + 1
      /\ \A j \in 1..(m - 1) : a[j] = b[j]
      /\ m > Len(a) \/ m > Len(b) \/ a[m] # b[m]
  <2>1. Len(a) + 1 \in P /\ Len(b) + 1 \in P
      BY <1>1
  <2>2. m \in Nat /\ m >= 1 /\ (m > Len(a) \/ m > Len(b) \/ a[m] # b[m])
      BY <1>2
  <2>3. m <= Len(a) + 1 /\ m <= Len(b) + 1
      BY <1>2, <2>1
  <2>4. ASSUME NEW j \in 1..(m - 1) PROVE a[j] = b[j]
    <3>1. j \in Nat /\ j >= 1 /\ ~(m <= j)
        BY <2>2
    <3>2. j \notin P
        BY <1>2, <3>1
    <3> QED
        BY <3>1, <3>2
  <2> QED
      BY <2>2, <2>3, <2>4
<1> HIDE DEF P
<1>4. CASE m > Len(a) /\ m > Len(b)
  <2>1. Len(a) = m - 1 /\ Len(b) = m - 1
      BY <1>1, <1>3, <1>4
  <2> QED
      BY <1>3, <2>1
<1>5. CASE m > Len(a) /\ m <= Len(b)
    BY <1>1, <1>3, <1>5 DEF TextBefore
<1>6. CASE m <= Len(a) /\ m > Len(b)
    BY <1>1, <1>3, <1>6 DEF TextBefore
<1>7. CASE m <= Len(a) /\ m <= Len(b)
  <2>1. a[m] \in Nat /\ b[m] \in Nat /\ a[m] # b[m] /\ m \in 1..Len(a) /\ m \in 1..Len(b)
      BY <1>1, <1>3, <1>7
  <2>2. CASE a[m] < b[m]
      BY <1>1, <1>3, <2>1, <2>2 DEF TextBefore
  <2>3. CASE b[m] < a[m]
      BY <1>1, <1>3, <2>1, <2>3 DEF TextBefore
  <2> QED
      BY <2>1, <2>2, <2>3
<1> QED
    BY <1>1, <1>3, <1>4, <1>5, <1>6, <1>7

LEMMA TextIrreflexive ==
    ASSUME NEW a \in Seq(Nat)
    PROVE  ~TextBefore(a, a)
BY DEF TextBefore

LEMMA TextOverTwo ==
    ASSUME NEW a, NEW b, NEW c, Len(a) \in Nat, Len(b) \in Nat, Len(c) \in Nat,
           \A k \in 1..Len(a) : a[k] \in Nat,
           \A k \in 1..Len(b) : b[k] \in Nat,
           \A k \in 1..Len(c) : c[k] \in Nat,
           TextBefore(a, b), TextBefore(b, c)
    PROVE  TextBefore(a, c)
<1>1. PICK i \in 1..Len(b) :
        /\ i <= Len(a) + 1
        /\ \A k \in 1..(i - 1) : a[k] = b[k]
        /\ i <= Len(a) => a[i] < b[i]
    BY DEF TextBefore
<1>2. PICK j \in 1..Len(c) :
        /\ j <= Len(b) + 1
        /\ \A k \in 1..(j - 1) : b[k] = c[k]
        /\ j <= Len(b) => b[j] < c[j]
    BY DEF TextBefore
<1>0. Len(a) \in Nat /\ Len(b) \in Nat /\ Len(c) \in Nat
    OBVIOUS
<1>6. /\ i \in Nat /\ 1 <= i /\ i <= Len(b) /\ i <= Len(a) + 1
      /\ j \in Nat /\ 1 <= j /\ j <= Len(c) /\ j <= Len(b) + 1
    BY <1>0, <1>1, <1>2
<1>3. CASE i < j
  <2>1. i \in 1..Len(c) /\ b[i] = c[i]
      BY <1>0, <1>2, <1>3
  <2>2. \A k \in 1..(i - 1) : a[k] = c[k]
      BY <1>0, <1>1, <1>2, <1>3
  <2> QED
      BY <1>1, <2>1, <2>2 DEF TextBefore
<1>4. CASE j < i
  <2>0. j \in 1..(i - 1) /\ j \in 1..Len(b) /\ j \in 1..Len(a)
      BY <1>0, <1>4, <1>6
  <2>1. j \in 1..Len(b) /\ j \in 1..Len(a) /\ a[j] = b[j] /\ b[j] < c[j]
      BY <1>1, <1>2, <2>0
  <2>2. \A k \in 1..(j - 1) : a[k] = c[k]
      BY <1>0, <1>1, <1>2, <1>4
  <2>3. j \in 1..Len(c) /\ j <= Len(a) + 1 /\ (j <= Len(a) => a[j] < c[j])
      BY <1>0, <1>2, <2>1
  <2> QED
      BY <2>2, <2>3, TextAt
<1>5. CASE i = j
  <2>1. \A k \in 1..(i - 1) : a[k] = c[k]
      BY <1>0, <1>1, <1>2, <1>5
  <2>2. i <= Len(a) => a[i] < c[i]
    <3> SUFFICES ASSUME i <= Len(a) PROVE a[i] < c[i]
        OBVIOUS
    <3>1. i \in 1..Len(a) /\ i \in 1..Len(b) /\ i \in 1..Len(c) /\ i <= Len(b)
        BY <1>0, <1>5, <1>6
    <3>2. a[i] \in Nat /\ b[i] \in Nat /\ c[i] \in Nat
        BY <3>1
    <3>3. a[i] < b[i] /\ b[i] < c[i]
        BY <1>1, <1>2, <1>5, <3>1
    <3> QED
        BY <3>2, <3>3
  <2> QED
      BY <1>1, <1>5, <2>1, <2>2 DEF TextBefore
<1> QED
    BY <1>0, <1>3, <1>4, <1>5

LEMMA TextTransitive ==
    ASSUME NEW a \in Seq(Nat), NEW b \in Seq(Nat), NEW c \in Seq(Nat),
           TextBefore(a, b), TextBefore(b, c)
    PROVE  TextBefore(a, c)
<1>1. ASSUME NEW q \in Seq(Nat) PROVE Len(q) \in Nat /\ \A k \in 1..Len(q) : q[k] \in Nat
    OBVIOUS
<1> QED
    BY <1>1, TextOverTwo

LEMMA RankPlace ==
    ASSUME NEW x \in Names
    PROVE  Rank(x) \in 1..Len(Alphabet) /\ Alphabet[Rank(x)] = x
BY WorkPlanAssumption DEF Rank

ListOrder(S) == {p \in S \X S : Listed(p[1], p[2])}

\* No two scripts are at the same place in a listing.
LEMMA ListedOrder ==
    ASSUME NEW S, S \subseteq Script
    PROVE  TotalOrder(S, ListOrder(S))
<1>1. \A r, s \in S : <<r, s>> \in ListOrder(S) <=> Listed(r, s)
    BY DEF ListOrder
<1>2. \A s \in S : /\ s.order \in Seq(Nat) /\ Rank(s.name) \in Int
                   /\ Alphabet[Rank(s.name)] = s.name
                   /\ s = [order |-> s.order, name |-> s.name]
  <2>1. \A s \in S : s.order \in Seq(Nat) /\ s.name \in Names /\ s = [order |-> s.order, name |-> s.name]
      BY DEF Script, Orders34
  <2>2. \A x \in Names : Rank(x) \in 1..Len(Alphabet) /\ Alphabet[Rank(x)] = x
      BY RankPlace
  <2> QED
      BY <2>1, <2>2
<1>3. \A s \in S : Listed(s, s)
    BY <1>2 DEF Listed
<1>4. \A r, s \in S : Listed(r, s) \/ Listed(s, r)
    BY <1>2, TextTotal DEF Listed
<1>5. ASSUME NEW r \in S, NEW s \in S, Listed(r, s), Listed(s, r) PROVE r = s
  <2>1. ~(TextBefore(r.order, s.order) /\ TextBefore(s.order, r.order))
      BY <1>2, TextTransitive, TextIrreflexive
  <2>2. r.order = s.order
      BY <1>2, <1>5, <2>1, TextIrreflexive DEF Listed
  <2>3. Rank(r.name) = Rank(s.name)
      BY <1>2, <1>5, <2>2, TextIrreflexive DEF Listed
  <2> QED
      BY <1>2, <2>2, <2>3
<1>6. ASSUME NEW r \in S, NEW s \in S, NEW t \in S, Listed(r, s), Listed(s, t)
      PROVE  Listed(r, t)
  <2>1. CASE TextBefore(r.order, s.order) /\ TextBefore(s.order, t.order)
      BY <1>2, <2>1, TextTransitive DEF Listed
  <2>2. CASE ~(TextBefore(r.order, s.order) /\ TextBefore(s.order, t.order))
      BY <1>2, <1>6, <2>2 DEF Listed
  <2> QED
      BY <2>1, <2>2
<1> QED
    BY <1>1, <1>3, <1>4, <1>5, <1>6 DEF TotalOrder

\* Sorted lists every script once, whatever numbers they have.
LEMMA SortedLists ==
    ASSUME NEW S, S \subseteq Script, IsFiniteSet(S)
    PROVE  /\ Sorted(S) \in Seq(S) /\ Len(Sorted(S)) \in Nat
           /\ Elements(Sorted(S)) = S
<1>1. Sorted(S) = InOrder(S, ListOrder(S))
    BY DEF Sorted, ListOrder
<1>2. TotalOrder(S, ListOrder(S))
    BY ListedOrder
<1> DEFINE q == InOrder(S, ListOrder(S))
<1>3. q \in Seq(S) /\ Len(q) = Cardinality(S) /\ Cardinality(S) \in Nat
      /\ \A s \in S : \E k \in 1..Len(q) : q[k] = s
    BY <1>2, InOrderLists
<1> HIDE DEF q
<1>4. Elements(q) = S
    BY <1>3 DEF Elements
<1> QED
    BY <1>1, <1>3, <1>4 DEF q

\* Scripts whose numbers grow are listed as they were copied.
Growing(q) == \A j, k \in 1..Len(q) : j < k => TextBefore(q[j].order, q[k].order)

LEMMA SortedGrowing ==
    ASSUME NEW q \in Seq(Script), Growing(q)
    PROVE  Sorted(Elements(q)) = q
<1> DEFINE S == Elements(q)
<1>1. S \subseteq Script /\ q \in Seq(S) /\ \A s \in S : \E k \in 1..Len(q) : q[k] = s
    BY DEF Elements
<1>2. Sorted(S) = InOrder(S, ListOrder(S)) /\ TotalOrder(S, ListOrder(S))
    BY <1>1, ListedOrder DEF Sorted, ListOrder
<1> HIDE DEF S
<1>3. ASSUME NEW j \in 1..Len(q), NEW k \in 1..Len(q), j < k
      PROVE  <<q[j], q[k]>> \in ListOrder(S) /\ q[j] # q[k]
  <2>0. q[j] \in S /\ q[k] \in S
      BY <1>1
  <2>1. TextBefore(q[j].order, q[k].order) /\ q[j] \in S /\ q[k] \in S
      BY <1>3, <2>0 DEF Growing
  <2>2. q[j].order \in Seq(Nat)
      BY <1>1, <2>1 DEF Script, Orders34
  <2>3. q[j] # q[k]
      BY <2>1, <2>2, TextIrreflexive
  <2> QED
      BY <2>1, <2>3 DEF ListOrder, Listed
<1> QED
    BY <1>1, <1>2, <1>3, InOrderUnique DEF S

-------------------------------------------------------------------------------
\* Trees

\* What can be read of a tree is all of it or what is in front of a package
\* without a version.
LEMMA ReadableLists ==
    ASSUME NEW tree \in Seq(Packages)
    PROVE  \E n \in 0..Len(tree) : Readable(tree) = SubSeq(tree, 1, n)
<1> DEFINE P == {i \in 1..Len(tree) : tree[i] \in Versionless}
           Good(u) == /\ Elements(u) \cap Versionless = {}
                      /\ Len(u) < Len(tree) => tree[Len(u) + 1] \in Versionless
<1>1. Len(tree) \in Nat
    OBVIOUS
<1>2. \E n \in 0..Len(tree) : Good(SubSeq(tree, 1, n))
  <2>1. CASE P = {}
    <3>1. SubSeq(tree, 1, Len(tree)) = tree /\ Elements(tree) \cap Versionless = {}
        BY <2>1 DEF Elements
    <3>2. Good(tree) /\ Len(tree) \in 0..Len(tree)
        BY <1>1, <3>1
    <3> HIDE DEF Good
    <3> QED
        BY <3>1, <3>2
  <2>2. CASE P # {}
    <3>1. PICK m \in P : \A i \in P : m <= i
      <4>1. P \subseteq Nat
          OBVIOUS
      <4> HIDE DEF P
      <4> QED
          BY <2>2, <4>1, FirstPlace
    <3>2. m \in 1..Len(tree) /\ tree[m] \in Versionless /\ m - 1 \in 0..Len(tree)
        BY <1>1, <3>1
    <3>3. SubSeq(tree, 1, m - 1) \in Seq(Packages) /\ Len(SubSeq(tree, 1, m - 1)) = m - 1
        BY <1>1, <3>2
    <3>4. \A i \in 1..(m - 1) : SubSeq(tree, 1, m - 1)[i] = tree[i] /\ i \notin P
        BY <1>1, <3>1, <3>2
    <3>5. \A i \in 1..(m - 1) : SubSeq(tree, 1, m - 1)[i] \notin Versionless
        BY <1>1, <3>2, <3>4
    <3>6. Elements(SubSeq(tree, 1, m - 1)) \cap Versionless = {}
        BY <3>3, <3>5 DEF Elements
    <3>7. tree[Len(SubSeq(tree, 1, m - 1)) + 1] \in Versionless
      <4>1. Len(SubSeq(tree, 1, m - 1)) + 1 = m
          BY <3>2, <3>3
      <4> QED
          BY <3>2, <4>1
    <3>8. Good(SubSeq(tree, 1, m - 1))
        BY <3>6, <3>7
    <3> HIDE DEF Good
    <3> QED
        BY <3>2, <3>8
  <2> QED
      BY <2>1, <2>2
<1>3. Readable(tree) = CHOOSE u \in {SubSeq(tree, 1, n) : n \in 0..Len(tree)} : Good(u)
    BY DEF Readable
<1> HIDE DEF Good
<1>4. Readable(tree) \in {SubSeq(tree, 1, n) : n \in 0..Len(tree)}
    BY <1>2, <1>3
<1> QED
    BY <1>4

TreeOf(p) == IF p \in DOMAIN trees THEN trees[p] ELSE <<>>

LEMMA TreeType ==
    ASSUME NEW p, trees \in Trees
    PROVE  TreeOf(p) \in Seq(Packages) /\ Readable(TreeOf(p)) \in Seq(Packages)
<1>1. TreeOf(p) \in Seq(Packages)
    BY WorkPlanAssumption DEF TreeOf
<1>2. PICK n \in 0..Len(TreeOf(p)) : Readable(TreeOf(p)) = SubSeq(TreeOf(p), 1, n)
    BY <1>1, ReadableLists
<1> HIDE DEF TreeOf
<1> QED
    BY <1>1, <1>2

-------------------------------------------------------------------------------
\* Types

Commands == {"idle", "deps", "patch", "scripts", "makefile", "rules", "logs", "list",
             "builds", "make", "touch"}

TypeCommand ==
    /\ trees \in Trees
    /\ action \in Actions
    /\ pc \in Commands
    /\ todo \in Seq(Names) /\ workTree \in Seq(Names)
    /\ cnt \in Nat
    /\ result \in {"none", "planned", "built", "failed"}
    /\ planned \in BOOLEAN /\ cleared \in BOOLEAN
    /\ setups \in 0..MaxSetups /\ kills \in 0..MaxKills

\* Every file in the directory was copied there, and the makefile names some of
\* them.
TypeFiles ==
    /\ copied \in Seq(Script) /\ scripts = Elements(copied) /\ exec \subseteq scripts
    /\ makefile \in [chain : Seq(Script), rules : Nat]
    /\ makefile.rules <= Len(makefile.chain)
    /\ Elements(makefile.chain) \subseteq scripts

\* make is at a rule while it runs.
TypeMake ==
    /\ touched \in Seq(Script)
    /\ at \in Nat /\ at <= makefile.rules
    /\ pc \in {"make", "touch"} <=> at # 0
    /\ logs \subseteq Names /\ done \subseteq scripts

TypeOK == TypeCommand /\ TypeFiles /\ TypeMake

LEMMA ElementsAppend ==
    ASSUME NEW T, NEW q \in Seq(T), NEW x \in T
    PROVE  /\ Append(q, x) \in Seq(T)
           /\ Elements(Append(q, x)) = Elements(q) \cup {x}
<1>1. Len(Append(q, x)) = Len(q) + 1 /\ Len(q) \in Nat
    OBVIOUS
<1>2. \A i \in 1..Len(q) : Append(q, x)[i] = q[i]
    OBVIOUS
<1>3. Append(q, x)[Len(q) + 1] = x
    OBVIOUS
<1>4. \A i : i \in 1..(Len(q) + 1) <=> i \in 1..Len(q) \/ i = Len(q) + 1
    BY <1>1
<1> QED
    BY <1>1, <1>2, <1>3, <1>4 DEF Elements

LEMMA ElementsType ==
    ASSUME NEW T, NEW q \in Seq(T)
    PROVE  Elements(q) \subseteq T /\ IsFiniteSet(Elements(q))
<1>1. Elements(q) \subseteq T
    BY DEF Elements
<1>2. IsFiniteSet(1..Len(q))
    BY FS_Interval
<1>3. [i \in 1..Len(q) |-> q[i]] \in Surjection(1..Len(q), Elements(q))
    BY DEF Surjection, Elements
<1> QED
    BY <1>1, <1>2, <1>3, FS_Surjection

LEMMA InitType == Init => TypeOK
<1> SUFFICES ASSUME Init PROVE TypeOK
    OBVIOUS
<1>1. Elements(<<>>) = {}
    BY DEF Elements
<1>2. TypeCommand
  <2>1. MaxSetups \in Nat /\ MaxKills \in Nat
      BY WorkPlanAssumption
  <2>2. trees \in Trees /\ action \in Actions /\ pc \in Commands
      BY DEF Init, Commands
  <2>3. todo \in Seq(Names) /\ workTree \in Seq(Names) /\ cnt \in Nat
      BY DEF Init
  <2>4. result = "none" /\ planned \in BOOLEAN /\ cleared \in BOOLEAN
      BY DEF Init
  <2>5. setups \in 0..MaxSetups /\ kills \in 0..MaxKills
      BY <2>1 DEF Init
  <2> QED
      BY <2>2, <2>3, <2>4, <2>5 DEF TypeCommand
<1>3. TypeFiles
    BY <1>1 DEF Init, TypeFiles, NoMakefile
<1>4. TypeMake
    BY DEF Init, TypeMake, NoMakefile
<1> QED
    BY <1>2, <1>3, <1>4 DEF TypeOK

\* Copying a script under a number adds it and changes no other.
LEMMA PutScriptFacts ==
    ASSUME TypeOK, NEW name \in Names, NEW canRun, PutScript(name, canRun)
    PROVE  LET s == [order |-> Numeral(cnt), name |-> name] IN
           /\ s \in Script
           /\ scripts' = scripts \cup {s} /\ copied' = Append(copied, s)
           /\ copied' \in Seq(Script) /\ scripts' = Elements(copied')
           /\ exec' \subseteq scripts' /\ cnt' = cnt + 1
<1> DEFINE s == [order |-> Numeral(cnt), name |-> name]
<1>1. s \in Script
    BY NumeralType DEF Script, TypeOK, TypeCommand
<1>2. /\ scripts' = scripts \cup {s} /\ copied' = Append(copied, s) /\ cnt' = cnt + 1
      /\ exec' = IF canRun THEN exec \cup {s} ELSE exec
    BY DEF PutScript
<1> HIDE DEF s
<1>3. copied' \in Seq(Script) /\ Elements(copied') = Elements(copied) \cup {s}
    BY <1>1, <1>2, ElementsAppend DEF TypeOK, TypeFiles
<1>4. exec' \subseteq scripts' /\ scripts' = Elements(copied')
    BY <1>2, <1>3 DEF TypeOK, TypeFiles
<1> QED
    BY <1>1, <1>2, <1>3, <1>4 DEF s

LEMMA StartSetupType ==
    ASSUME TypeOK, NEW a \in Actions, NEW r \in Requests, StartSetup(a, r)
    PROVE  TypeOK'
<1>1. copied' = <<>> /\ scripts' = {} /\ exec' = {} /\ makefile' = NoMakefile /\ touched' = <<>>
      /\ done' = {} /\ workTree' = <<>> /\ cnt' = 1 /\ at' = at /\ logs' = logs
    BY DEF StartSetup, EmptyWork
<1>2. /\ trees' = trees /\ action' = a /\ pc' \in {"patch", "deps"} /\ todo' = r
      /\ result' = "none" /\ planned' = FALSE /\ cleared' = FALSE
      /\ pc = "idle" /\ setups < MaxSetups /\ setups' = setups + 1 /\ kills' = kills
    BY DEF StartSetup
<1>3. TypeCommand'
  <2>1. r \in Seq(Names)
      BY WorkPlanAssumption DEF Names
  <2>2. setups' \in 0..MaxSetups
      BY <1>2, WorkPlanAssumption DEF TypeOK, TypeCommand
  <2>3. workTree' \in Seq(Names) /\ cnt' \in Nat
      BY <1>1
  <2> QED
      BY <1>2, <2>1, <2>2, <2>3 DEF TypeOK, TypeCommand, Commands
<1>4. TypeFiles'
  <2>1. Elements(<<>>) = {}
      BY DEF Elements
  <2> QED
      BY <1>1, <2>1 DEF TypeFiles, NoMakefile
<1>5. TypeMake'
    BY <1>1, <1>2 DEF TypeOK, TypeMake, NoMakefile
<1> QED
    BY <1>3, <1>4, <1>5 DEF TypeOK

LEMMA TailType ==
    ASSUME NEW T, NEW q \in Seq(T), q # <<>>
    PROVE  /\ Head(q) \in T /\ Tail(q) \in Seq(T) /\ Len(q) \in Nat \ {0}
           /\ Len(Tail(q)) = Len(q) - 1
           /\ \A i \in 1..Len(Tail(q)) : Tail(q)[i] = q[i + 1]
OBVIOUS

LEMMA MergeTreeType == ASSUME TypeOK, MergeTree PROVE TypeOK'
<1> DEFINE w == Without(Readable(TreeOf(Head(todo))), UpToDate \cup Elements(workTree))
<1>1. workTree' = workTree \o w
    BY DEF MergeTree, Merged, TreeOf
<1>2. w \in Seq(Packages)
    BY TreeType, WithoutLists DEF TypeOK, TypeCommand
<1> HIDE DEF w
<1>3. workTree' \in Seq(Names)
    BY <1>1, <1>2 DEF TypeOK, TypeCommand, Names
<1>4. \/ todo' = Tail(todo) /\ pc' = "deps" /\ result' = result
      \/ pc' = "idle" /\ result' = "failed" /\ todo' = <<>>
    BY DEF MergeTree, Fail
<1>5. UNCHANGED <<others, cnt, scripts, exec, copied, makefile, buildVars>> /\ pc = "deps"
    BY DEF MergeTree
<1>6. todo' \in Seq(Names)
  <2>1. Tail(todo) \in Seq(Names) /\ <<>> \in Seq(Names)
      BY TailType DEF TypeOK, TypeCommand, MergeTree
  <2> QED
      BY <1>4, <2>1, Zenon
<1>7. TypeCommand'
    BY <1>3, <1>4, <1>5, <1>6 DEF TypeOK, TypeCommand, others, Commands
<1>8. TypeFiles' /\ TypeMake'
    BY <1>4, <1>5 DEF TypeOK, TypeFiles, TypeMake, buildVars
<1> QED
    BY <1>7, <1>8 DEF TypeOK

\* Steps of a set-up that touch neither the scripts nor what was built
LEMMA SetUpType ==
    ASSUME TypeOK,
           UNCHANGED <<trees, action, copied, scripts, makefile, touched, at, done, kills>>,
           exec' \subseteq scripts, logs' \subseteq logs,
           pc # "make", pc # "touch", pc' \in Commands \ {"make", "touch"},
           todo' \in Seq(Names), workTree' \in Seq(Names), cnt' \in Nat,
           result' \in {result, "none", "planned", "failed"},
           planned' \in BOOLEAN, cleared' \in BOOLEAN,
           setups' \in 0..MaxSetups
    PROVE  TypeOK'
<1>1. TypeCommand'
    BY DEF TypeOK, TypeCommand
<1>2. TypeFiles'
    BY DEF TypeOK, TypeFiles
<1>3. TypeMake'
    BY DEF TypeOK, TypeMake
<1> QED
    BY <1>1, <1>2, <1>3 DEF TypeOK

LEMMA AddPatchType == ASSUME TypeOK, AddPatch PROVE TypeOK'
<1>1. /\ todo' = Tail(todo) /\ todo # <<>> /\ workTree' = Append(workTree, Head(todo))
      /\ pc = "patch" /\ pc' = "patch"
    BY DEF AddPatch
<1>2. todo' \in Seq(Names) /\ Head(todo) \in Names
    BY <1>1, TailType DEF TypeOK, TypeCommand
<1>3. workTree' \in Seq(Names)
    BY <1>1, <1>2, ElementsAppend DEF TypeOK, TypeCommand
<1>4. UNCHANGED <<others, cnt, scripts, exec, copied, makefile, buildVars, result>>
    BY DEF AddPatch
<1> QED
    BY <1>1, <1>2, <1>3, <1>4, SetUpType
    DEF TypeOK, TypeCommand, TypeFiles, others, buildVars, Commands

LEMMA StartScriptsType == ASSUME TypeOK, StartScripts PROVE TypeOK'
<1>1. todo' = workTree /\ pc \in {"deps", "patch"} /\ pc' = "scripts" /\ cnt' = 1
    BY DEF StartScripts
<1>2. UNCHANGED <<others, workTree, scripts, exec, copied, makefile, buildVars, result>>
    BY DEF StartScripts
<1> QED
    BY <1>1, <1>2, SetUpType DEF TypeOK, TypeCommand, TypeFiles, others, buildVars, Commands

\* Steps that copy the script of the first line or leave it out
LEMMA CopyType ==
    ASSUME TypeOK, todo # <<>>, todo' = Tail(todo),
           pc \in {"scripts", "builds"}, pc' = pc,
           UNCHANGED <<others, workTree, makefile, buildVars, result>>,
           \/ UNCHANGED <<scripts, exec, copied, cnt>>
           \/ PutScript(Head(todo), Head(todo) \in Executable)
           \/ PutScript(Head(todo), FALSE)
    PROVE  TypeOK'
<1>1. Head(todo) \in Names /\ todo' \in Seq(Names)
    BY TailType DEF TypeOK, TypeCommand
<1>2. /\ copied' \in Seq(Script) /\ scripts' = Elements(copied') /\ exec' \subseteq scripts'
      /\ scripts \subseteq scripts' /\ cnt' \in Nat
  <2>1. CASE UNCHANGED <<scripts, exec, copied, cnt>>
      BY <2>1 DEF TypeOK, TypeFiles, TypeCommand
  <2>2. CASE ~UNCHANGED <<scripts, exec, copied, cnt>>
    <3>1. PICK c : PutScript(Head(todo), c)
        BY <2>2
    <3>2. copied' \in Seq(Script) /\ scripts' = Elements(copied') /\ exec' \subseteq scripts'
        BY <1>1, <3>1, PutScriptFacts
    <3>3. scripts \subseteq scripts' /\ cnt' = cnt + 1
        BY <3>1 DEF PutScript
    <3> QED
        BY <3>2, <3>3 DEF TypeOK, TypeCommand
  <2> QED
      BY <2>1, <2>2
<1>3. TypeCommand'
    BY <1>1, <1>2 DEF TypeOK, TypeCommand, others
<1>4. TypeFiles'
    BY <1>2 DEF TypeOK, TypeFiles
<1>5. TypeMake'
    BY <1>2 DEF TypeOK, TypeMake, buildVars
<1> QED
    BY <1>3, <1>4, <1>5 DEF TypeOK

LEMMA CopyScriptType == ASSUME TypeOK, CopyScript PROVE TypeOK'
BY CopyType DEF CopyScript

LEMMA CopyBuildType == ASSUME TypeOK, CopyBuild PROVE TypeOK'
BY CopyType DEF CopyBuild

LEMMA CopyBuildFailsType == ASSUME TypeOK, CopyBuildFails PROVE TypeOK'
<1>1. /\ UNCHANGED <<others, setupVars, buildVars>>
      /\ pc = "builds" /\ pc' = "idle" /\ result' = "failed" /\ todo' = <<>>
    BY DEF CopyBuildFails, Fail, others, setupVars, buildVars
<1>2. TypeCommand'
  <2>1. <<>> \in Seq(Names) /\ "idle" \in Commands
      BY DEF Commands
  <2>2. UNCHANGED <<trees, action, workTree, cnt, planned, cleared, setups, kills>>
      BY <1>1 DEF others, setupVars
  <2> QED
      BY <1>1, <2>1, <2>2 DEF TypeOK, TypeCommand
<1>3. TypeFiles'
    BY <1>1 DEF TypeOK, TypeFiles, setupVars
<1>4. TypeMake'
    BY <1>1 DEF TypeOK, TypeMake, setupVars, buildVars
<1> QED
    BY <1>2, <1>3, <1>4 DEF TypeOK

LEMMA FinishScriptsType == ASSUME TypeOK, FinishScripts PROVE TypeOK'
<1>1. pc = "scripts" /\ pc' \in {"logs", "idle", "makefile"} /\ exec' \in {exec, scripts}
      /\ todo' \in {todo, <<>>} /\ result' \in {result, "failed"}
    BY DEF FinishScripts, Fail
<1>2. UNCHANGED <<others, workTree, cnt, scripts, copied, makefile, buildVars>>
    BY DEF FinishScripts
<1>3. exec' \subseteq scripts /\ todo' \in Seq(Names)
  <2>1. <<>> \in Seq(Names) /\ todo \in Seq(Names) /\ exec \subseteq scripts
      BY DEF TypeOK, TypeFiles, TypeCommand
  <2> QED
      BY <1>1, <2>1, Zenon
<1> QED
    BY <1>1, <1>2, <1>3, SetUpType DEF TypeOK, TypeCommand, others, buildVars, Commands

LEMMA ClearLogsType == ASSUME TypeOK, ClearLogs PROVE TypeOK'
<1>1. /\ pc = "logs" /\ pc' \in {"list", "idle"} /\ logs' = {} /\ cleared' = TRUE
      /\ result' \in {result, "planned"} /\ planned' \in {planned, TRUE}
    BY DEF ClearLogs
<1>2. UNCHANGED <<trees, action, todo, setupVars, touched, at, done, setups, kills>>
    BY DEF ClearLogs
<1> QED
    BY <1>1, <1>2, SetUpType DEF TypeOK, TypeCommand, TypeFiles, setupVars, Commands

LEMMA StartCustomAloneType == ASSUME TypeOK, StartCustomAlone PROVE TypeOK'
<1>1. /\ pc = "idle" /\ pc' = "list" /\ result' = "none" /\ planned' = FALSE
      /\ setups < MaxSetups /\ setups' = setups + 1
    BY DEF StartCustomAlone
<1>2. UNCHANGED <<trees, action, cleared, todo, setupVars, buildVars, kills>>
    BY DEF StartCustomAlone
<1>3. setups' \in 0..MaxSetups
    BY <1>1, WorkPlanAssumption DEF TypeOK, TypeCommand
<1> QED
    BY <1>1, <1>2, <1>3, SetUpType
    DEF TypeOK, TypeCommand, TypeFiles, setupVars, buildVars, Commands

LEMMA FinishBuildsType == ASSUME TypeOK, FinishBuilds PROVE TypeOK'
<1>1. pc = "builds" /\ pc' = "makefile"
    BY DEF FinishBuilds
<1>2. UNCHANGED <<others, todo, setupVars, buildVars, result>>
    BY DEF FinishBuilds
<1> QED
    BY <1>1, <1>2, SetUpType DEF TypeOK, TypeCommand, TypeFiles, others, setupVars, buildVars, Commands

\* The makefile lists every script once, the last first.
LEMMA ChainFacts ==
    ASSUME TypeOK
    PROVE  /\ Sorted(scripts) \in Seq(Script) /\ Chain \in Seq(Script)
           /\ Len(Chain) = Len(Sorted(scripts)) /\ Len(Chain) \in Nat
           /\ \A k \in 1..Len(Chain) : Chain[k] = Sorted(scripts)[Len(Chain) + 1 - k]
           /\ Elements(Chain) = scripts /\ Elements(Sorted(scripts)) = scripts
<1> DEFINE q == Sorted(scripts)
<1>1. scripts \subseteq Script /\ IsFiniteSet(scripts)
    BY ElementsType DEF TypeOK, TypeFiles
<1>2. q \in Seq(scripts) /\ Len(q) \in Nat /\ Elements(q) = scripts
    BY <1>1, SortedLists
<1>3. Chain = [i \in 1..Len(q) |-> q[(Len(q) - i) + 1]]
    BY DEF Chain, Reverse
<1> HIDE DEF q
<1>4. q \in Seq(Script)
    BY <1>1, <1>2
<1>5. \A k \in 1..Len(q) : Len(q) + 1 - k \in 1..Len(q) /\ (Len(q) - k) + 1 = Len(q) + 1 - k
    BY <1>2
<1>6. Chain \in Seq(Script) /\ Len(Chain) = Len(q)
      /\ \A k \in 1..Len(q) : Chain[k] = q[Len(q) + 1 - k]
    BY <1>2, <1>3, <1>4, <1>5
<1>7. Elements(Chain) = Elements(q)
  <2>1. \A k \in 1..Len(q) : Chain[k] \in Elements(q)
      BY <1>5, <1>6 DEF Elements
  <2>2. ASSUME NEW k \in 1..Len(q) PROVE q[k] \in Elements(Chain)
    <3>1. q[k] = Chain[Len(q) + 1 - k]
        BY <1>2, <1>5, <1>6
    <3> QED
        BY <1>5, <1>6, <3>1 DEF Elements
  <2> QED
      BY <1>6, <2>1, <2>2 DEF Elements
<1> QED
    BY <1>2, <1>4, <1>6, <1>7 DEF q

\* Steps that write the makefile
LEMMA MakefileType ==
    ASSUME TypeOK, makefile' \in [chain : Seq(Script), rules : Nat],
           makefile'.rules <= Len(makefile'.chain), Elements(makefile'.chain) \subseteq scripts,
           UNCHANGED <<others, workTree, cnt, scripts, exec, copied, buildVars>>,
           pc \notin {"make", "touch"}, pc' \in {"idle", "rules"},
           todo' \in Seq(Names), result' \in {result, "failed"}
    PROVE  TypeOK'
<1>1. at = 0 /\ makefile'.rules \in Nat
    BY DEF TypeOK, TypeMake
<1>2. TypeCommand'
    BY DEF TypeOK, TypeCommand, others, Commands
<1>3. TypeFiles'
    BY DEF TypeOK, TypeFiles
<1>4. TypeMake'
    BY <1>1 DEF TypeOK, TypeMake, buildVars
<1> QED
    BY <1>2, <1>3, <1>4 DEF TypeOK

LEMMA StartMakefileType == ASSUME TypeOK, StartMakefile PROVE TypeOK'
<1>1. UNCHANGED <<others, workTree, cnt, scripts, exec, copied, buildVars>>
    BY DEF StartMakefile
<1>2. pc = "makefile" /\ makefile' = IF scripts = {} THEN NoMakefile ELSE [chain |-> Chain, rules |-> 0]
    BY DEF StartMakefile
<1>3. /\ pc' \in {"idle", "rules"} /\ todo' \in {todo, <<>>} /\ result' \in {result, "failed"}
    BY DEF StartMakefile, Fail
<1>4. todo' \in Seq(Names)
  <2>1. <<>> \in Seq(Names) /\ todo \in Seq(Names)
      BY DEF TypeOK, TypeCommand
  <2> QED
      BY <1>3, <2>1, Zenon
<1>5. /\ makefile' \in [chain : Seq(Script), rules : Nat]
      /\ makefile'.rules <= Len(makefile'.chain) /\ Elements(makefile'.chain) \subseteq scripts
  <2>1. CASE scripts = {}
      BY <1>2, <2>1 DEF NoMakefile, Elements
  <2>2. CASE scripts # {}
    <3>1. Chain \in Seq(Script) /\ Elements(Chain) = scripts /\ Len(Chain) \in Nat
        BY ChainFacts
    <3> QED
        BY <1>2, <2>2, <3>1
  <2> QED
      BY <2>1, <2>2
<1> QED
    BY <1>1, <1>2, <1>3, <1>4, <1>5, MakefileType

LEMMA WriteRuleType == ASSUME TypeOK, WriteRule PROVE TypeOK'
<1>1. UNCHANGED <<others, pc, todo, workTree, cnt, scripts, exec, copied, buildVars, result>>
    BY DEF WriteRule
<1>2. pc = "rules" /\ makefile.rules < Len(makefile.chain)
      /\ makefile' = [makefile EXCEPT !.rules = @ + 1]
    BY DEF WriteRule
<1>3. /\ makefile' \in [chain : Seq(Script), rules : Nat]
      /\ makefile'.rules <= Len(makefile'.chain) /\ Elements(makefile'.chain) \subseteq scripts
    BY <1>2 DEF TypeOK, TypeFiles
<1> QED
    BY <1>1, <1>2, <1>3, MakefileType DEF TypeOK, TypeCommand

LEMMA FinishMakefileType == ASSUME TypeOK, FinishMakefile PROVE TypeOK'
<1>1. /\ pc = "rules" /\ pc' \in {"idle", "logs"}
      /\ result' \in {result, "planned"} /\ planned' \in {planned, TRUE}
    BY DEF FinishMakefile
<1>2. UNCHANGED <<trees, action, cleared, todo, setupVars, buildVars, setups, kills>>
    BY DEF FinishMakefile
<1> QED
    BY <1>1, <1>2, SetUpType DEF TypeOK, TypeCommand, TypeFiles, setupVars, buildVars, Commands

LEMMA ReadBuildsType == ASSUME TypeOK, NEW l \in BuildLists, ReadBuilds(l) PROVE TypeOK'
<1>1. pc = "list" /\ pc' = "builds" /\ todo' = l /\ cnt' = StartingCount(scripts)
    BY DEF ReadBuilds
<1>2. UNCHANGED <<others, workTree, scripts, exec, copied, makefile, buildVars, result>>
    BY DEF ReadBuilds
<1>3. l \in Seq(Names)
    BY WorkPlanAssumption DEF Names
<1>4. StartingCount(scripts) \in Nat
  <2> DEFINE q == Sorted(scripts)
  <2>1. q \in Seq(Script) /\ Elements(q) = scripts
      BY ChainFacts
  <2>2. CASE scripts = {}
      BY <2>2 DEF StartingCount
  <2>3. CASE scripts # {}
    <3> HIDE DEF q
    <3>1. Last(q).order \in Seq(Nat)
      <4>1. Len(q) \in 1..Len(q) /\ Last(q) = q[Len(q)]
          BY <2>1, <2>3 DEF Elements, Last
      <4>2. q[Len(q)] \in Script
          BY <2>1, <4>1
      <4> QED
          BY <4>1, <4>2 DEF Script, Orders34
    <3> DEFINE w == Without(Last(q).order, {0})
    <3>2. w \in Seq(Nat)
        BY <3>1, WithoutLists
    <3>3. Value(w) \in Nat
        BY <3>2, ValueType
    <3>4. StartingCount(scripts) = Value(w) + 1
        BY <2>3 DEF StartingCount, q
    <3> HIDE DEF w
    <3> QED
        BY <3>3, <3>4
  <2> QED
      BY <2>2, <2>3
<1> QED
    BY <1>1, <1>2, <1>3, <1>4, SetUpType
    DEF TypeOK, TypeCommand, TypeFiles, others, buildVars, Commands

\* Steps of make, and those that end a command
LEMMA MakeStepType ==
    ASSUME TypeOK, UNCHANGED <<trees, action, planned, cleared, setups, setupVars>>,
           pc' \in Commands, todo' \in Seq(Names),
           result' \in {"none", "planned", "built", "failed"}, kills' \in 0..MaxKills,
           touched' \in Seq(Script), at' \in Nat, at' <= makefile.rules,
           pc' \in {"make", "touch"} <=> at' # 0,
           logs' \subseteq Names, done' \subseteq scripts
    PROVE  TypeOK'
<1>1. TypeCommand'
    BY DEF TypeOK, TypeCommand, setupVars
<1>2. TypeFiles'
    BY DEF TypeOK, TypeFiles, setupVars
<1>3. TypeMake'
    BY DEF TypeOK, TypeMake, setupVars
<1> QED
    BY <1>1, <1>2, <1>3 DEF TypeOK

LEMMA StartMakeType == ASSUME TypeOK, StartMake PROVE TypeOK'
<1>1. UNCHANGED <<others, todo, setupVars, touched, logs, done>> /\ pc = "idle"
    BY DEF StartMake
<1>2. \/ pc' = "make" /\ at' = makefile.rules /\ result' = "none" /\ makefile.rules > 0
      \/ pc' = pc /\ at' = at /\ result' = "failed"
    BY DEF StartMake, Complete
<1>3. makefile.rules \in Nat /\ at \in Nat /\ at = 0
    BY <1>1 DEF TypeOK, TypeFiles, TypeMake
<1>4. at' \in Nat /\ at' <= makefile.rules /\ (pc' \in {"make", "touch"} <=> at' # 0)
    BY <1>1, <1>2, <1>3
<1> QED
    BY <1>1, <1>2, <1>4, MakeStepType
    DEF TypeOK, TypeCommand, TypeFiles, TypeMake, others, Commands

\* The script make is at
LEMMA AtScript ==
    ASSUME TypeOK, pc \in {"make", "touch"}
    PROVE  /\ at \in 1..makefile.rules /\ makefile.rules \in Nat /\ at \in 1..Len(makefile.chain)
           /\ Len(makefile.chain) \in Nat
           /\ makefile.chain[at] \in scripts /\ makefile.chain[at] \in Script
           /\ makefile.chain[at].name \in Names
<1>1. /\ at \in Nat /\ at # 0 /\ at <= makefile.rules /\ makefile.rules \in Nat
      /\ makefile.rules <= Len(makefile.chain)
    BY DEF TypeOK, TypeFiles, TypeMake
<1>2. makefile.chain \in Seq(Script) /\ Elements(makefile.chain) \subseteq scripts
    BY DEF TypeOK, TypeFiles
<1>3. at \in 1..Len(makefile.chain) /\ Len(makefile.chain) \in Nat
    BY <1>1, <1>2
<1>4. makefile.chain[at] \in scripts /\ makefile.chain[at] \in Script
    BY <1>2, <1>3 DEF Elements
<1> QED
    BY <1>1, <1>3, <1>4 DEF Script

LEMMA NextRuleType ==
    ASSUME TypeOK, pc \in {"make", "touch"}, NextRule
    PROVE  /\ at' \in Nat /\ at' <= makefile.rules /\ (pc' \in {"make", "touch"} <=> at' # 0)
           /\ pc' \in Commands /\ result' \in {result, "built"}
BY AtScript DEF NextRule, Commands

LEMMA SkipTargetType == ASSUME TypeOK, SkipTarget PROVE TypeOK'
<1>1. UNCHANGED <<others, todo, setupVars, touched, logs, done>> /\ pc = "make" /\ NextRule
    BY DEF SkipTarget
<1> QED
    BY <1>1, NextRuleType, MakeStepType DEF TypeOK, TypeCommand, TypeMake, others

LEMMA RunScriptType == ASSUME TypeOK, RunScript PROVE TypeOK'
<1>1. /\ UNCHANGED <<others, todo, setupVars, touched, at, result>> /\ pc = "make" /\ pc' = "touch"
      /\ done' = done \cup {makefile.chain[at]} /\ logs' = logs \cup {makefile.chain[at].name}
    BY DEF RunScript
<1>2. logs' \subseteq Names /\ done' \subseteq scripts
    BY <1>1, AtScript DEF TypeOK, TypeMake
<1> QED
    BY <1>1, <1>2, MakeStepType DEF TypeOK, TypeCommand, TypeMake, others, Commands

LEMMA ScriptFailsType == ASSUME TypeOK, ScriptFails PROVE TypeOK'
<1>1. /\ UNCHANGED <<others, setupVars, touched, done>> /\ pc = "make" /\ at' = 0
      /\ pc' = "idle" /\ result' = "failed" /\ todo' = <<>>
      /\ logs' = logs \/ logs' = logs \cup {makefile.chain[at].name}
    BY DEF ScriptFails, Fail
<1>2. logs' \subseteq Names
    BY <1>1, AtScript DEF TypeOK, TypeMake
<1>3. at' \in Nat /\ at' <= makefile.rules /\ todo' \in Seq(Names)
    BY <1>1 DEF TypeOK, TypeFiles
<1> QED
    BY <1>1, <1>2, <1>3, MakeStepType DEF TypeOK, TypeCommand, TypeMake, others, Commands

LEMMA TouchedFacts ==
    ASSUME TypeOK, pc = "touch",
           touched' = Append(Without(touched, {makefile.chain[at]}), makefile.chain[at])
    PROVE  touched' \in Seq(Script) /\ Elements(touched') = Elements(touched) \cup {makefile.chain[at]}
<1> DEFINE w == Without(touched, {makefile.chain[at]})
<1>1. w \in Seq(Script) /\ Elements(w) = Elements(touched) \ {makefile.chain[at]}
    BY WithoutLists, WithoutElements DEF TypeOK, TypeMake
<1> HIDE DEF w
<1>2. makefile.chain[at] \in Script
    BY AtScript
<1>3. touched' = Append(w, makefile.chain[at])
    BY DEF w
<1>4. Append(w, makefile.chain[at]) \in Seq(Script)
      /\ Elements(Append(w, makefile.chain[at])) = Elements(w) \cup {makefile.chain[at]}
    BY <1>1, <1>2, ElementsAppend
<1>5. Elements(touched') = (Elements(touched) \ {makefile.chain[at]}) \cup {makefile.chain[at]}
    BY <1>1, <1>3, <1>4
<1> QED
    BY <1>3, <1>4, <1>5

LEMMA TouchType == ASSUME TypeOK, Touch PROVE TypeOK'
<1>1. /\ UNCHANGED <<others, todo, setupVars, logs, done>> /\ pc = "touch" /\ NextRule
      /\ touched' = Append(Without(touched, {makefile.chain[at]}), makefile.chain[at])
    BY DEF Touch
<1>2. touched' \in Seq(Script)
    BY <1>1, TouchedFacts
<1> QED
    BY <1>1, <1>2, NextRuleType, MakeStepType DEF TypeOK, TypeCommand, TypeMake, others

LEMMA KillType == ASSUME TypeOK, Kill PROVE TypeOK'
<1>1. /\ UNCHANGED <<trees, action, setupVars, touched, logs, done, planned, cleared, setups>>
      /\ kills < MaxKills /\ kills' = kills + 1 /\ at' = 0
      /\ pc' = "idle" /\ result' = "failed" /\ todo' = <<>>
    BY DEF Kill, Fail
<1>2. kills' \in 0..MaxKills /\ at' \in Nat /\ at' <= makefile.rules /\ todo' \in Seq(Names)
    BY <1>1, WorkPlanAssumption DEF TypeOK, TypeCommand, TypeFiles
<1> QED
    BY <1>1, <1>2, MakeStepType DEF TypeOK, TypeCommand, TypeMake, Commands

LEMMA TypeStep == TypeOK /\ [Next]_vars => TypeOK'
<1> SUFFICES ASSUME TypeOK, [Next]_vars PROVE TypeOK'
    OBVIOUS
<1>1. CASE UNCHANGED vars
    BY <1>1 DEF vars, others, setupVars, buildVars, TypeOK, TypeCommand, TypeFiles, TypeMake
<1>2. CASE Next
    BY <1>2, StartSetupType, MergeTreeType, AddPatchType, StartScriptsType, CopyScriptType,
       FinishScriptsType, StartMakefileType, WriteRuleType, FinishMakefileType, ClearLogsType,
       StartCustomAloneType, CopyBuildType, CopyBuildFailsType, FinishBuildsType, ReadBuildsType,
       StartMakeType, SkipTargetType, RunScriptType, ScriptFailsType, TouchType, KillType DEF Next
<1> QED
    BY <1>1, <1>2

\* The types of the variables: the files of the work directory were all copied
\* there, the makefile names no other, and make is at one of its rules.
THEOREM TypeOKHolds == Spec => []TypeOK
<1>1. Init => TypeOK
    BY InitType
<1>2. TypeOK /\ [Next]_vars => TypeOK'
    BY TypeStep
<1> QED
    BY <1>1, <1>2, PTL DEF Spec

-------------------------------------------------------------------------------
\* What was built

Whole == makefile.rules = Len(makefile.chain) /\ Elements(makefile.chain) = scripts

NamesOf(S) == {s.name : s \in S}

\* A target exists only when its script ran to its end, and make has made the
\* targets of the rules it is past.
TargetsMade ==
    /\ Elements(touched) \subseteq done
    /\ pc \in {"make", "touch"} =>
        \A k \in 1..makefile.rules : k > at => Exists(makefile.chain[k])
    /\ pc = "touch" => makefile.chain[at] \in done
    /\ result = "built" => pc = "idle" /\ \A k \in 1..makefile.rules : Exists(makefile.chain[k])

\* A set-up that came to its end left a makefile for all scripts, and nothing
\* but make has run since.
PlanWhole ==
    /\ planned => pc \in {"idle", "make", "touch"} /\ Whole
    /\ pc = "rules" => Elements(makefile.chain) = scripts
    /\ pc = "logs" /\ action # "BUILDCUSTOM" => Whole

\* Nothing has run when a set-up that emptied the directory comes to clear-logs.
NothingRan ==
    /\ pc \in {"deps", "patch", "scripts", "logs"} => done = {}
    /\ pc \in {"makefile", "rules"} /\ action # "BUILDCUSTOM" => done = {}
    /\ pc \in {"list", "builds"} => action = "BUILDCUSTOM"

\* Once they were removed, the difflogs are those of scripts that are there.
LogsOfScripts == cleared => NamesOf(done) \subseteq logs /\ logs \subseteq NamesOf(scripts)

LEMMA NextRuleMade ==
    ASSUME TypeOK, pc \in {"make", "touch"}, NextRule, UNCHANGED makefile,
           Elements(touched') \subseteq done', Elements(touched) \subseteq Elements(touched'),
           makefile.chain[at] \in Elements(touched'), TargetsMade
    PROVE  TargetsMade'
<1>1. at \in 1..makefile.rules /\ makefile.rules \in Nat
    BY AtScript
<1>2. ASSUME NEW k \in 1..makefile.rules, k >= at
      PROVE  makefile.chain[k] \in Elements(touched')
  <2>1. CASE k = at
      BY <2>1
  <2>2. CASE k > at
      BY <2>2 DEF TargetsMade, Exists
  <2> QED
      BY <1>1, <1>2, <2>1, <2>2
<1>3. CASE at = 1
  <2>1. pc' = "idle" /\ \A k \in 1..makefile.rules : makefile.chain[k] \in Elements(touched')
      BY <1>1, <1>2, <1>3 DEF NextRule
  <2> QED
      BY <2>1 DEF TargetsMade, Exists
<1>4. CASE at # 1
  <2>1. pc' = "make" /\ at' = at - 1 /\ result' = result
      BY <1>4 DEF NextRule
  <2>2. \A k \in 1..makefile.rules : k > at' => makefile.chain[k] \in Elements(touched')
      BY <1>1, <1>2, <2>1
  <2>3. result # "built"
      BY DEF TargetsMade
  <2> QED
      BY <2>1, <2>2, <2>3 DEF TargetsMade, Exists
<1> QED
    BY <1>3, <1>4

LEMMA TargetsMadeStep == TypeOK /\ TargetsMade /\ [Next]_vars => TargetsMade'
<1> SUFFICES ASSUME TypeOK, TargetsMade, [Next]_vars PROVE TargetsMade'
    OBVIOUS
<1>0. Elements(<<>>) = {}
    BY DEF Elements
<1>1. CASE \E a \in Actions, r \in Requests : StartSetup(a, r)
  <2>1. touched' = <<>> /\ pc' \in {"deps", "patch"} /\ result' = "none"
      BY <1>1 DEF StartSetup, EmptyWork
  <2> QED
      BY <1>0, <2>1 DEF TargetsMade
<1>2. CASE StartMake
  <2>1. touched' = touched /\ done' = done /\ makefile' = makefile
      BY <1>2 DEF StartMake, setupVars
  <2>2. \/ pc' = "make" /\ at' = makefile.rules /\ result' = "none"
        \/ pc' = "idle" /\ result' = "failed"
      BY <1>2 DEF StartMake
  <2>3. \A k \in 1..makefile.rules : ~(k > makefile.rules)
      BY DEF TypeOK, TypeFiles
  <2> QED
      BY <2>1, <2>2, <2>3 DEF TargetsMade, Exists
<1>3. CASE SkipTarget
  <2>1. pc = "make" /\ NextRule /\ touched' = touched /\ done' = done /\ makefile' = makefile
      BY <1>3 DEF SkipTarget, setupVars
  <2>2. makefile.chain[at] \in Elements(touched)
      BY <1>3 DEF SkipTarget, OutOfDate, Exists
  <2> QED
      BY <2>1, <2>2, NextRuleMade DEF TargetsMade
<1>4. CASE RunScript
  <2>1. /\ touched' = touched /\ makefile' = makefile /\ at' = at /\ result' = result
        /\ pc = "make" /\ pc' = "touch" /\ done' = done \cup {makefile.chain[at]}
      BY <1>4 DEF RunScript, setupVars
  <2> QED
      BY <2>1 DEF TargetsMade, Exists
<1>5. CASE Touch
  <2>1. /\ pc = "touch" /\ NextRule /\ done' = done /\ makefile' = makefile
        /\ touched' = Append(Without(touched, {makefile.chain[at]}), makefile.chain[at])
      BY <1>5 DEF Touch, setupVars
  <2>2. Elements(touched') = Elements(touched) \cup {makefile.chain[at]}
      BY <2>1, TouchedFacts
  <2> QED
      BY <2>1, <2>2, NextRuleMade DEF TargetsMade
<1>6. CASE ScriptFails \/ Kill \/ CopyBuildFails
  <2>1. touched' = touched /\ done' = done /\ pc' = "idle" /\ result' = "failed"
      BY <1>6 DEF ScriptFails, Kill, CopyBuildFails, Fail, buildVars
  <2> QED
      BY <2>1 DEF TargetsMade
\* The steps of a set-up
<1> DEFINE SetUpStep == /\ UNCHANGED <<touched, done>> /\ pc' \notin {"make", "touch"}
                        /\ result' # "built" \/ (result' = result /\ pc # "idle")
<1>7. CASE SetUpStep
  <2>1. result' # "built"
      BY <1>7 DEF TargetsMade
  <2> QED
      BY <1>7, <2>1 DEF TargetsMade
<1>8. MergeTree \/ AddPatch \/ StartScripts \/ CopyScript => SetUpStep
    BY DEF MergeTree, AddPatch, StartScripts, CopyScript, Fail, buildVars
<1>9. FinishScripts \/ StartMakefile \/ WriteRule \/ FinishMakefile => SetUpStep
    BY DEF FinishScripts, StartMakefile, WriteRule, FinishMakefile, Fail, buildVars
<1>10. StartCustomAlone => SetUpStep
    BY DEF StartCustomAlone, buildVars
<1>14. CopyBuild => SetUpStep
    BY DEF CopyBuild, buildVars
<1>15. FinishBuilds => SetUpStep
    BY DEF FinishBuilds, buildVars
<1>13. ClearLogs => SetUpStep
    BY DEF ClearLogs
<1>11. (\E l \in BuildLists : ReadBuilds(l)) => SetUpStep
    BY DEF ReadBuilds, buildVars
<1>12. CASE UNCHANGED vars
    BY <1>12 DEF vars, setupVars, buildVars, TargetsMade, Exists
<1> QED
    BY <1>1, <1>2, <1>3, <1>4, <1>5, <1>6, <1>7, <1>8, <1>9, <1>10, <1>11, <1>12, <1>13,
       <1>14, <1>15 DEF Next

LEMMA PlanWholeStep == TypeOK /\ PlanWhole /\ [Next]_vars => PlanWhole'
<1> SUFFICES ASSUME TypeOK, PlanWhole, [Next]_vars PROVE PlanWhole'
    OBVIOUS
<1>1. CASE UNCHANGED <<planned, action, makefile, scripts, pc>>
    BY <1>1 DEF PlanWhole, Whole
\* Neither planned nor about to be
<1>2. CASE planned' = FALSE /\ pc' \notin {"rules", "logs"}
    BY <1>2 DEF PlanWhole
<1>3. CASE /\ planned' = planned /\ pc \notin {"idle", "make", "touch"}
           /\ pc' \notin {"rules", "logs"}
    BY <1>3 DEF PlanWhole, TypeOK, TypeCommand
<1>4. CASE /\ pc' \in {"idle", "make", "touch"}
           /\ UNCHANGED <<planned, makefile, scripts>>
    BY <1>4 DEF PlanWhole, Whole
<1>5. (\E a \in Actions, r \in Requests : StartSetup(a, r)) \/ StartCustomAlone
        => planned' = FALSE /\ pc' \notin {"rules", "logs"}
    BY DEF StartSetup, StartCustomAlone
<1>6. MergeTree \/ AddPatch \/ StartScripts \/ CopyScript
        => /\ planned' = planned /\ pc \notin {"idle", "make", "touch"}
           /\ pc' \notin {"rules", "logs"}
    BY DEF MergeTree, AddPatch, StartScripts, CopyScript, Fail, others
<1>7. (\E l \in BuildLists : ReadBuilds(l)) \/ CopyBuild \/ FinishBuilds
        => /\ planned' = planned /\ pc \notin {"idle", "make", "touch"}
           /\ pc' \notin {"rules", "logs"}
    BY DEF ReadBuilds, CopyBuild, FinishBuilds, others
<1>8. StartMake \/ SkipTarget \/ RunScript \/ ScriptFails \/ Touch
        => pc' \in {"idle", "make", "touch"} /\ UNCHANGED <<planned, makefile, scripts>>
    BY DEF StartMake, SkipTarget, RunScript, ScriptFails, Touch, NextRule, Fail, others, setupVars
<1>9. Kill \/ CopyBuildFails
        => pc' \in {"idle", "make", "touch"} /\ UNCHANGED <<planned, makefile, scripts>>
    BY DEF Kill, CopyBuildFails, Fail, others, setupVars
<1>10. CASE FinishScripts
  <2>1. planned' = planned /\ action' = action /\ pc = "scripts"
        /\ (pc' = "logs" => action = "BUILDCUSTOM") /\ pc' # "rules"
      BY <1>10 DEF FinishScripts, Fail, others
  <2> QED
      BY <2>1 DEF PlanWhole
<1>11. CASE StartMakefile
  <2>1. planned' = planned /\ pc = "makefile" /\ pc' # "logs" /\ scripts' = scripts
        /\ (pc' = "rules" => makefile' = [chain |-> Chain, rules |-> 0])
      BY <1>11 DEF StartMakefile, Fail, others
  <2>2. Elements(Chain) = scripts
      BY ChainFacts
  <2> QED
      BY <2>1, <2>2 DEF PlanWhole
<1>12. CASE WriteRule
  <2>1. planned' = planned /\ pc = "rules" /\ pc' = "rules" /\ scripts' = scripts
        /\ makefile' = [makefile EXCEPT !.rules = @ + 1]
      BY <1>12 DEF WriteRule, others
  <2>2. makefile'.chain = makefile.chain
      BY <2>1 DEF TypeOK, TypeFiles
  <2> QED
      BY <2>1, <2>2 DEF PlanWhole
<1>13. CASE FinishMakefile
  <2>1. /\ pc = "rules" /\ makefile.rules = Len(makefile.chain) /\ action' = action
        /\ \/ pc' = "idle" /\ planned' = TRUE
           \/ pc' = "logs" /\ planned' = planned
        /\ makefile' = makefile /\ scripts' = scripts
      BY <1>13 DEF FinishMakefile, setupVars
  <2>2. ~planned /\ Whole
      BY <2>1 DEF PlanWhole, Whole
  <2> QED
      BY <2>1, <2>2 DEF PlanWhole, Whole
<1>14. CASE ClearLogs
  <2>1. /\ pc = "logs" /\ makefile' = makefile /\ scripts' = scripts
        /\ \/ action = "BUILDCUSTOM" /\ pc' = "list" /\ planned' = planned
           \/ action # "BUILDCUSTOM" /\ pc' = "idle"
      BY <1>14 DEF ClearLogs, setupVars
  <2> QED
      BY <2>1 DEF PlanWhole, Whole
<1>15. UNCHANGED vars => UNCHANGED <<planned, action, makefile, scripts, pc>>
    BY DEF vars, others, setupVars
<1> QED
    BY <1>1, <1>2, <1>3, <1>4, <1>5, <1>6, <1>7, <1>8, <1>9, <1>10, <1>11, <1>12, <1>13, <1>14,
       <1>15 DEF Next

LEMMA NothingRanStep == TypeOK /\ NothingRan /\ [Next]_vars => NothingRan'
<1> SUFFICES ASSUME TypeOK, NothingRan, [Next]_vars PROVE NothingRan'
    OBVIOUS
<1>1. CASE pc' \in {"idle", "make", "touch"}
    BY <1>1 DEF NothingRan
<1>2. CASE UNCHANGED <<action, done, pc>>
    BY <1>2 DEF NothingRan
<1>3. (\E a \in Actions, r \in Requests : StartSetup(a, r))
        => done' = {} /\ pc' \in {"deps", "patch"}
    BY DEF StartSetup, EmptyWork
<1>4. MergeTree \/ AddPatch \/ CopyScript \/ WriteRule \/ CopyBuild
        => UNCHANGED <<action, done, pc>> \/ pc' = "idle"
    BY DEF MergeTree, AddPatch, CopyScript, WriteRule, CopyBuild, Fail, others, buildVars
<1>5. StartMake \/ SkipTarget \/ RunScript \/ ScriptFails \/ Touch \/ Kill \/ CopyBuildFails
        => pc' \in {"idle", "make", "touch"}
    BY DEF StartMake, SkipTarget, RunScript, ScriptFails, Touch, NextRule, Fail, Kill, CopyBuildFails
<1>6. StartScripts => pc \in {"deps", "patch"} /\ pc' = "scripts" /\ done' = done
    BY DEF StartScripts, buildVars
<1>7. FinishScripts => /\ pc = "scripts" /\ done' = done
                       /\ pc' = "makefile" \/ pc' = "logs" \/ pc' = "idle"
    BY DEF FinishScripts, Fail, buildVars
<1>8. StartMakefile => /\ pc = "makefile" /\ done' = done /\ action' = action
                       /\ pc' = "rules" \/ pc' = "idle"
    BY DEF StartMakefile, Fail, buildVars, others
<1>9. FinishMakefile => /\ pc = "rules" /\ done' = done /\ pc' \in {"idle", "logs"}
                        /\ pc' = "logs" => action # "BUILDCUSTOM"
    BY DEF FinishMakefile, buildVars
<1>10. ClearLogs => /\ action' = action /\ pc' \in {"idle", "list"}
                    /\ pc' = "list" => action = "BUILDCUSTOM"
    BY DEF ClearLogs
<1>11. StartCustomAlone => action = "BUILDCUSTOM" /\ action' = action /\ pc' = "list"
    BY DEF StartCustomAlone
<1>12. (\E l \in BuildLists : ReadBuilds(l)) => pc = "list" /\ pc' = "builds" /\ action' = action
    BY DEF ReadBuilds, others
<1>13. FinishBuilds => pc = "builds" /\ pc' = "makefile" /\ action' = action
    BY DEF FinishBuilds, others
<1>14. UNCHANGED vars => UNCHANGED <<action, done, pc>>
    BY DEF vars, others, buildVars
<1>15. CASE MergeTree \/ AddPatch \/ CopyScript \/ WriteRule \/ CopyBuild
    BY <1>1, <1>2, <1>4, <1>15
<1>16. CASE StartScripts \/ FinishScripts
    BY <1>6, <1>7, <1>16 DEF NothingRan
<1>17. CASE StartMakefile \/ FinishMakefile
    BY <1>8, <1>9, <1>17 DEF NothingRan
<1>18. CASE ClearLogs \/ StartCustomAlone \/ FinishBuilds \/ \E l \in BuildLists : ReadBuilds(l)
    BY <1>10, <1>11, <1>12, <1>13, <1>18 DEF NothingRan
<1>19. CASE \E a \in Actions, r \in Requests : StartSetup(a, r)
    BY <1>3, <1>19 DEF NothingRan
<1>20. CASE UNCHANGED vars
    BY <1>2, <1>14, <1>20
<1> QED
    BY <1>1, <1>5, <1>15, <1>16, <1>17, <1>18, <1>19, <1>20 DEF Next

LEMMA LogsOfScriptsStep == TypeOK /\ NothingRan /\ LogsOfScripts /\ [Next]_vars => LogsOfScripts'
<1> SUFFICES ASSUME TypeOK, NothingRan, LogsOfScripts, [Next]_vars PROVE LogsOfScripts'
    OBVIOUS
<1>1. CASE UNCHANGED <<cleared, done, logs>> /\ scripts \subseteq scripts'
  <2>1. NamesOf(scripts) \subseteq NamesOf(scripts)'
      BY <1>1 DEF NamesOf
  <2>2. NamesOf(done)' = NamesOf(done)
      BY <1>1 DEF NamesOf
  <2> QED
      BY <1>1, <2>1, <2>2 DEF LogsOfScripts
<1>2. (\E a \in Actions, r \in Requests : StartSetup(a, r)) => cleared' = FALSE
    BY DEF StartSetup
<1>3. CASE ClearLogs
  <2>1. done' = {} /\ logs' = {}
      BY <1>3 DEF ClearLogs, NothingRan
  <2> QED
      BY <2>1 DEF LogsOfScripts, NamesOf
<1>4. CASE RunScript
  <2>1. /\ done' = done \cup {makefile.chain[at]} /\ logs' = logs \cup {makefile.chain[at].name}
        /\ cleared' = cleared /\ scripts' = scripts /\ makefile.chain[at] \in scripts
      BY <1>4, AtScript DEF RunScript, others, setupVars
  <2> QED
      BY <2>1 DEF LogsOfScripts, NamesOf
<1>5. CASE ScriptFails
  <2>1. /\ done' = done /\ cleared' = cleared /\ scripts' = scripts
        /\ makefile.chain[at] \in scripts
        /\ logs' = logs \/ logs' = logs \cup {makefile.chain[at].name}
      BY <1>5, AtScript DEF ScriptFails, others, setupVars
  <2> QED
      BY <2>1 DEF LogsOfScripts, NamesOf
<1>6. MergeTree \/ AddPatch \/ StartScripts \/ FinishScripts
        => UNCHANGED <<cleared, done, logs, scripts>>
    BY DEF MergeTree, AddPatch, StartScripts, FinishScripts, others, buildVars
<1>7. CopyScript \/ CopyBuild => UNCHANGED <<cleared, done, logs>> /\ scripts \subseteq scripts'
    BY DEF CopyScript, CopyBuild, PutScript, others, buildVars
<1>8. StartMakefile \/ WriteRule \/ FinishMakefile \/ StartCustomAlone
        => UNCHANGED <<cleared, done, logs, scripts>>
    BY DEF StartMakefile, WriteRule, FinishMakefile, StartCustomAlone, others, buildVars, setupVars
<1>9. (\E l \in BuildLists : ReadBuilds(l)) \/ FinishBuilds \/ StartMake \/ SkipTarget \/ Touch
      \/ Kill \/ CopyBuildFails
        => UNCHANGED <<cleared, done, logs, scripts>>
    BY DEF ReadBuilds, FinishBuilds, StartMake, SkipTarget, Touch, Kill, CopyBuildFails,
       others, buildVars, setupVars
<1>10. UNCHANGED vars => UNCHANGED <<cleared, done, logs, scripts>>
    BY DEF vars, others, buildVars, setupVars
<1>11. cleared' = FALSE => LogsOfScripts'
    BY DEF LogsOfScripts
<1> QED
    BY <1>1, <1>2, <1>3, <1>4, <1>5, <1>6, <1>7, <1>8, <1>9, <1>10, <1>11 DEF Next

LEMMA BuiltImplied ==
    TypeOK /\ TargetsMade /\ PlanWhole /\ LogsOfScripts => SuccessMeansBuilt
<1> SUFFICES ASSUME TypeOK, TargetsMade, PlanWhole, LogsOfScripts, result = "built", planned
             PROVE  scripts = done /\ (cleared => logs = {s.name : s \in scripts})
    BY DEF SuccessMeansBuilt
<1>1. scripts \subseteq done
  <2>1. Whole /\ \A k \in 1..makefile.rules : makefile.chain[k] \in Elements(touched)
      BY DEF PlanWhole, TargetsMade, Exists
  <2>2. ASSUME NEW s \in scripts PROVE s \in done
    <3>1. PICK k \in 1..makefile.rules : s = makefile.chain[k]
        BY <2>1 DEF Whole, Elements
    <3> QED
        BY <2>1, <3>1 DEF TargetsMade
  <2> QED
      BY <2>2
<1>2. done \subseteq scripts
    BY DEF TypeOK, TypeMake
<1> QED
    BY <1>1, <1>2 DEF LogsOfScripts, NamesOf

\* make ended well after a whole set-up: every script ran to its end, and the
\* difflogs are those of the scripts, however often make failed before.
THEOREM SuccessMeansBuiltHolds == Spec => []SuccessMeansBuilt
<1> DEFINE IInv == TypeOK /\ TargetsMade /\ PlanWhole /\ NothingRan /\ LogsOfScripts
<1>1. Init => IInv
  <2> SUFFICES ASSUME Init PROVE IInv
      OBVIOUS
  <2>1. TypeOK
      BY InitType
  <2>2. TargetsMade /\ PlanWhole /\ NothingRan /\ LogsOfScripts
      BY DEF Init, TargetsMade, PlanWhole, NothingRan, LogsOfScripts, Elements
  <2> QED
      BY <2>1, <2>2
<1>2. IInv /\ [Next]_vars => IInv'
    BY TypeStep, TargetsMadeStep, PlanWholeStep, NothingRanStep, LogsOfScriptsStep
<1>3. IInv => SuccessMeansBuilt
    BY BuiltImplied
<1> QED
    BY <1>1, <1>2, <1>3, PTL DEF Spec

-------------------------------------------------------------------------------
\* Numbers of three digits

\* Fewer than 1000 scripts were put there: a fourth digit would be read first.
ThreeDigits == \A i \in 1..Len(copied) : Len(copied[i].order) = 3

Hundreds(n) == n \div 100
Tens(n) == (n \div 10) % 10
Ones(n) == n % 10

LEMMA Digits ==
    ASSUME NEW n \in Nat, n < 1000
    PROVE  /\ Hundreds(n) \in 0..9 /\ Tens(n) \in 0..9 /\ Ones(n) \in 0..9
           /\ Numeral(n) = <<Hundreds(n), Tens(n), Ones(n)>>
           /\ n = 100 * Hundreds(n) + 10 * Tens(n) + Ones(n)
<1>1. /\ n \div 100 \in 0..9 /\ (n \div 10) % 10 \in 0..9 /\ n % 10 \in 0..9
      /\ n = 100 * (n \div 100) + 10 * ((n \div 10) % 10) + (n % 10)
  <2>1. n \div 10 \in Nat /\ n % 10 \in 0..9 /\ n = 10 * (n \div 10) + (n % 10)
      OBVIOUS
  <2>2. ASSUME NEW k \in Nat PROVE k % 10 \in 0..9 /\ k = 10 * (k \div 10) + (k % 10) /\ k \div 10 \in Nat
      OBVIOUS
  <2>3. (n \div 10) \div 10 = n \div 100 /\ n \div 100 \in 0..9
      OBVIOUS
  <2> QED
      BY <2>1, <2>2, <2>3
<1>2. Numeral(n) = <<n \div 100, (n \div 10) % 10, n % 10>>
    BY DEF Numeral
<1> QED
    BY <1>1, <1>2 DEF Hundreds, Tens, Ones

\* The digits x, y, z are the number after that of the digits a, b, c.
NextDigits(a, b, c, x, y, z) == (100 * a + 10 * b + c) + 1 = 100 * x + 10 * y + z

LEMMA DigitsGrow ==
    ASSUME NEW a \in 0..9, NEW b \in 0..9, NEW c \in 0..9,
           NEW x \in 0..9, NEW y \in 0..9, NEW z \in 0..9,
           NEW p, NEW q, p = <<a, b, c>>, q = <<x, y, z>>,
           NextDigits(a, b, c, x, y, z)
    PROVE  TextBefore(p, q)
<1>3. /\ Len(p) = 3 /\ p[1] = a /\ p[2] = b /\ p[3] = c
      /\ Len(q) = 3 /\ q[1] = x /\ q[2] = y /\ q[3] = z
    OBVIOUS
<1>4. \/ a < x
      \/ a = x /\ b < y
      \/ a = x /\ b = y /\ c < z
    BY DEF NextDigits
<1>5. ASSUME NEW i \in 1..3, \A j \in 1..(i - 1) : p[j] = q[j], p[i] < q[i]
      PROVE  TextBefore(p, q)
  <2>1. i \in 1..Len(q) /\ i <= Len(p) + 1 /\ (i <= Len(p) => p[i] < q[i])
      BY <1>3, <1>5
  <2> QED
      BY <1>5, <2>1 DEF TextBefore
<1>6. \E i \in 1..3 : (\A j \in 1..(i - 1) : p[j] = q[j]) /\ p[i] < q[i]
  <2>1. a < x => (\A j \in 1..(1 - 1) : p[j] = q[j]) /\ p[1] < q[1]
      BY <1>3
  <2>2. a = x /\ b < y => (\A j \in 1..(2 - 1) : p[j] = q[j]) /\ p[2] < q[2]
      BY <1>3
  <2>3. a = x /\ b = y /\ c < z => (\A j \in 1..(3 - 1) : p[j] = q[j]) /\ p[3] < q[3]
      BY <1>3
  <2>4. 1 \in 1..3 /\ 2 \in 1..3 /\ 3 \in 1..3
      OBVIOUS
  <2> QED
      BY <1>4, <2>1, <2>2, <2>3, <2>4, Zenon
<1> QED
    BY <1>5, <1>6, Zenon

\* ls puts a number before the next one.
LEMMA NumeralGrows ==
    ASSUME NEW n \in Nat, n + 1 < 1000
    PROVE  TextBefore(Numeral(n), Numeral(n + 1))
<1>2. n + 1 \in Nat /\ n < 1000
    OBVIOUS
<1>3. ASSUME NEW m \in Nat, m = n + 1 PROVE TextBefore(Numeral(n), Numeral(m))
  <2>1. m < 1000
      BY <1>3
  <2> DEFINE a == Hundreds(n)
             b == Tens(n)
             c == Ones(n)
             x == Hundreds(m)
             y == Tens(m)
             z == Ones(m)
  <2>2. /\ Numeral(n) = <<a, b, c>> /\ Numeral(m) = <<x, y, z>>
        /\ n = 100 * a + 10 * b + c /\ m = 100 * x + 10 * y + z
      BY <1>2, <2>1, Digits
  <2>3. /\ a \in 0..9 /\ b \in 0..9 /\ c \in 0..9
        /\ x \in 0..9 /\ y \in 0..9 /\ z \in 0..9
      BY <1>2, <2>1, Digits
  <2> HIDE DEF a, b, c, x, y, z
  <2>4. NextDigits(a, b, c, x, y, z)
    <3>1. n = 100 * a + 10 * b + c /\ m = 100 * x + 10 * y + z
        BY <2>2
    <3> QED
        BY <1>3, <3>1 DEF NextDigits
  <2>5. TextBefore(<<a, b, c>>, <<x, y, z>>)
    <3> SUFFICES ASSUME NEW p, NEW q, p = <<a, b, c>>, q = <<x, y, z>>
                 PROVE  TextBefore(p, q)
        BY Zenon
    <3> QED
        BY <2>3, <2>4, DigitsGrow
  <2> QED
      BY <2>2, <2>3, <2>5
<1> QED
    BY <1>2, <1>3

\* A number is read back, when only its leading digits are zeros.
LEMMA NumeralRead ==
    ASSUME NEW n \in Nat, n < 1000, ~ZeroInside(Numeral(n))
    PROVE  Value(Without(Numeral(n), {0})) = n
<1> DEFINE a == Hundreds(n)
           b == Tens(n)
           c == Ones(n)
<1>1. /\ a \in 0..9 /\ b \in 0..9 /\ c \in 0..9
      /\ Numeral(n) = <<a, b, c>> /\ n = 100 * a + 10 * b + c
    BY Digits
<1> HIDE DEF a, b, c
<1> DEFINE p == <<a, b, c>>
           Zero == {0}
<1>2. p \in Seq(Nat) /\ Len(p) = 3 /\ p[1] = a /\ p[2] = b /\ p[3] = c
    BY <1>1
<1>3. (a # 0 => b # 0 /\ c # 0) /\ (b # 0 => c # 0)
    BY <1>1, <1>2 DEF ZeroInside
<1>8. ASSUME NEW m \in 0..3, \A i \in 1..3 : p[i] = 0 <=> i <= m
      PROVE  Without(p, Zero) = [k \in 1..(3 - m) |-> p[k + m]]
  <2>1. m \in 0..Len(p) /\ \A i \in 1..Len(p) : p[i] \in Zero <=> i <= m
      BY <1>2, <1>8
  <2>3. p \in Seq(Nat)
      BY <1>2
  <2> HIDE DEF Zero, p
  <2>2. Without(p, Zero) = [k \in 1..(Len(p) - m) |-> p[k + m]]
      BY <2>1, <2>3, WithoutFront
  <2> QED
      BY <1>2, <2>2
<1> HIDE DEF p, Zero
<1>4. CASE a # 0
  <2>1. \A i \in 1..3 : p[i] = 0 <=> i <= 0
      BY <1>2, <1>3, <1>4
  <2>2. Without(p, Zero) = [k \in 1..(3 - 0) |-> p[k + 0]]
      BY <1>8, <2>1
  <2>3. Without(p, Zero) = <<a, b, c>>
      BY <1>2, <2>2
  <2>4. Value(<<a, b, c>>) = 1000 * 0 + 100 * a + 10 * b + c
      BY DEF Value
  <2> QED
      BY <1>1, <2>3, <2>4 DEF p, Zero
<1>5. CASE a = 0 /\ b # 0
  <2>1. \A i \in 1..3 : p[i] = 0 <=> i <= 1
      BY <1>2, <1>3, <1>5
  <2>2. Without(p, Zero) = [k \in 1..(3 - 1) |-> p[k + 1]]
      BY <1>8, <2>1
  <2>3. Without(p, Zero) = <<b, c>>
      BY <1>2, <2>2
  <2>4. Value(<<b, c>>) = 1000 * 0 + 100 * 0 + 10 * b + c
      BY DEF Value
  <2> QED
      BY <1>1, <1>5, <2>3, <2>4 DEF p, Zero
<1>6. CASE a = 0 /\ b = 0 /\ c # 0
  <2>1. \A i \in 1..3 : p[i] = 0 <=> i <= 2
      BY <1>2, <1>6
  <2>2. Without(p, Zero) = [k \in 1..(3 - 2) |-> p[k + 2]]
      BY <1>8, <2>1
  <2>3. Without(p, Zero) = <<c>>
      BY <1>2, <2>2
  <2>4. Value(<<c>>) = 1000 * 0 + 100 * 0 + 10 * 0 + c
      BY DEF Value
  <2> QED
      BY <1>1, <1>6, <2>3, <2>4 DEF p, Zero
<1>7. CASE a = 0 /\ b = 0 /\ c = 0
  <2>1. \A i \in 1..3 : p[i] = 0 <=> i <= 3
      BY <1>2, <1>7
  <2>2. Without(p, Zero) = [k \in 1..(3 - 3) |-> p[k + 3]]
      BY <1>8, <2>1
  <2>3. Without(p, Zero) = <<>>
      BY <1>2, <2>2
  <2>4. Value(<<>>) = 0
      BY DEF Value
  <2> QED
      BY <1>1, <1>7, <2>3, <2>4 DEF p, Zero
<1> QED
    BY <1>4, <1>5, <1>6, <1>7, <1>1

LEMMA GrowingDistinct ==
    ASSUME NEW q \in Seq(Script), Growing(q), NEW j \in 1..Len(q), NEW k \in 1..Len(q), q[j] = q[k]
    PROVE  j = k
<1>1. q[j].order \in Seq(Nat) /\ Len(q) \in Nat
  <2>1. q[j] \in Script
      OBVIOUS
  <2> QED
      BY <2>1 DEF Script, Orders34
<1>2. ~TextBefore(q[j].order, q[k].order) /\ ~TextBefore(q[k].order, q[j].order)
    BY <1>1, TextIrreflexive
<1> QED
    BY <1>1, <1>2 DEF Growing

LEMMA GrowingAppend ==
    ASSUME NEW q \in Seq(Script), Growing(q), NEW s \in Script,
           q # <<>> => TextBefore(q[Len(q)].order, s.order)
    PROVE  Growing(Append(q, s))
<1> DEFINE w == Append(q, s)
<1>1. Len(q) \in Nat /\ Len(w) = Len(q) + 1 /\ w[Len(q) + 1] = s
      /\ \A i \in 1..Len(q) : w[i] = q[i]
    OBVIOUS
<1> HIDE DEF w
<1>2. \A r \in Script : r.order \in Seq(Nat)
    BY DEF Script, Orders34
<1>3. ASSUME NEW j \in 1..Len(q) PROVE TextBefore(q[j].order, s.order)
  <2>1. Len(q) \in 1..Len(q) /\ q # <<>>
      BY <1>1
  <2>2. TextBefore(q[Len(q)].order, s.order)
      BY <2>1
  <2>3. j # Len(q) => TextBefore(q[j].order, q[Len(q)].order)
      BY <1>1, <2>1 DEF Growing
  <2>4. q[j].order \in Seq(Nat) /\ q[Len(q)].order \in Seq(Nat) /\ s.order \in Seq(Nat)
    <3>1. q[j] \in Script /\ q[Len(q)] \in Script
        BY <2>1
    <3> QED
        BY <1>2, <3>1
  <2> QED
      BY <2>2, <2>3, <2>4, TextTransitive
<1>4. ASSUME NEW j \in 1..Len(w), NEW k \in 1..Len(w), j < k
      PROVE  TextBefore(w[j].order, w[k].order)
  <2>1. j \in 1..Len(q) /\ w[j] = q[j]
      BY <1>1, <1>4
  <2>2. CASE k = Len(q) + 1
      BY <1>1, <1>3, <2>1, <2>2
  <2>3. CASE k # Len(q) + 1
    <3>1. k \in 1..Len(q) /\ w[k] = q[k]
        BY <1>1, <2>3
    <3> QED
        BY <1>4, <2>1, <3>1 DEF Growing
  <2> QED
      BY <2>2, <2>3
<1> QED
    BY <1>4 DEF w, Growing

-------------------------------------------------------------------------------
\* The order of the builds

Good == ThreeDigits /\ ~Misnumbered

\* Every number was written by a set-up, and a set-up of packages starts with
\* an empty directory.
Numbered ==
    /\ \A i \in 1..Len(copied) : \E n \in Nat : copied[i].order = Numeral(n)
    /\ pc \in {"deps", "patch"} => copied = <<>>
    /\ pc = "builds" => todo \in Seq(Builds)

\* The next number is one more than that of the last script, but for a last
\* number that is not read back.
Counted ==
    pc \in {"scripts", "builds"} /\ copied # <<>> =>
        \/ cnt >= 1 /\ copied[Len(copied)].order = Numeral(cnt - 1)
        \/ pc = "builds" /\ ZeroInside(copied[Len(copied)].order)

\* The makefile has the scripts that were there when it was written, the last
\* first.
ChainOfCopied ==
    /\ Len(makefile.chain) <= Len(copied)
    /\ \A k \in 1..Len(makefile.chain) :
           makefile.chain[k] = copied[Len(makefile.chain) + 1 - k]

\* The targets are those of the first scripts.
TargetsOfCopied ==
    /\ Len(touched) <= Len(copied)
    /\ \A k \in 1..Len(touched) : touched[k] = copied[k]

\* make is at a script with its target, or at the first without.
MakeInStep ==
    /\ pc = "make" => Len(makefile.chain) <= at + Len(touched)
    /\ pc = "touch" => Len(makefile.chain) = at + Len(touched)

InStep == Good => Growing(copied) /\ Counted /\ ChainOfCopied /\ TargetsOfCopied /\ MakeInStep

LEMMA NumberedStep == TypeOK /\ Numbered /\ [Next]_vars => Numbered'
<1> SUFFICES ASSUME TypeOK, Numbered, [Next]_vars PROVE Numbered'
    OBVIOUS
<1> DEFINE Elsewhere == /\ copied' = copied /\ pc' # "builds"
                        /\ pc' \in {"deps", "patch"} => pc' = pc
<1>1. CASE Elsewhere
    BY <1>1 DEF Numbered
<1>2. CASE UNCHANGED <<copied, pc, todo>>
    BY <1>2 DEF Numbered
<1>3. CASE \E a \in Actions, r \in Requests : StartSetup(a, r)
  <2>1. copied' = <<>> /\ pc' # "builds"
      BY <1>3 DEF StartSetup, EmptyWork
  <2> QED
      BY <2>1 DEF Numbered
<1>4. CASE CopyScript \/ CopyBuild
  <2>1. pc' = pc /\ pc \in {"scripts", "builds"} /\ todo # <<>> /\ todo' = Tail(todo)
      BY <1>4 DEF CopyScript, CopyBuild
  <2>2. pc' = "builds" => todo' \in Seq(Builds)
      BY <2>1, TailType DEF Numbered
  <2>3. \A i \in 1..Len(copied') : \E n \in Nat : copied'[i].order = Numeral(n)
    <3>1. CASE copied' = copied
        BY <3>1 DEF Numbered
    <3>2. CASE copied' # copied
      <4>1. copied' = Append(copied, [order |-> Numeral(cnt), name |-> Head(todo)])
          BY <1>4, <3>2 DEF CopyScript, CopyBuild, PutScript
      <4> DEFINE s == [order |-> Numeral(cnt), name |-> Head(todo)]
      <4>2. s.order = Numeral(cnt) /\ cnt \in Nat
          BY DEF TypeOK, TypeCommand
      <4> HIDE DEF s
      <4>3. copied \in Seq(Script) /\ copied' = Append(copied, s)
          BY <4>1 DEF TypeOK, TypeFiles, s
      <4>4. ASSUME NEW i \in 1..Len(copied') PROVE copied'[i] = s \/ (i \in 1..Len(copied) /\ copied'[i] = copied[i])
          BY <4>3
      <4> QED
          BY <4>2, <4>4 DEF Numbered
    <3> QED
        BY <3>1, <3>2
  <2> QED
      BY <2>1, <2>2, <2>3 DEF Numbered
<1>5. CASE \E l \in BuildLists : ReadBuilds(l)
  <2>1. pc' = "builds" /\ todo' \in BuildLists /\ copied' = copied
      BY <1>5 DEF ReadBuilds
  <2> QED
      BY <2>1, WorkPlanAssumption DEF Numbered
<1>6. MergeTree \/ AddPatch \/ StartScripts \/ FinishScripts => Elsewhere
    BY DEF MergeTree, AddPatch, StartScripts, FinishScripts, Fail
<1>7. StartMakefile \/ WriteRule \/ FinishMakefile \/ ClearLogs => Elsewhere
    BY DEF StartMakefile, WriteRule, FinishMakefile, ClearLogs, Fail, setupVars
<1>8. StartCustomAlone \/ FinishBuilds \/ StartMake \/ SkipTarget => Elsewhere
    BY DEF StartCustomAlone, FinishBuilds, StartMake, SkipTarget, NextRule, setupVars
<1>9. RunScript \/ ScriptFails \/ Touch \/ Kill \/ CopyBuildFails => Elsewhere
    BY DEF RunScript, ScriptFails, Touch, Kill, CopyBuildFails, NextRule, Fail, setupVars
<1>10. UNCHANGED vars => UNCHANGED <<copied, pc, todo>>
    BY DEF vars, setupVars
<1> QED
    BY <1>1, <1>2, <1>3, <1>4, <1>5, <1>6, <1>7, <1>8, <1>9, <1>10 DEF Next

\* Adding a script mends no wrong number.
LEMMA GoodBefore ==
    ASSUME TypeOK, copied' = copied \/ \E s : copied' = Append(copied, s), Good'
    PROVE  Good
<1>1. copied \in Seq(Script)
    BY DEF TypeOK, TypeFiles
<1>2. Len(copied) \in Nat /\ Len(copied) <= Len(copied') /\ Len(copied') \in Nat
      /\ \A i \in 1..Len(copied) : copied'[i] = copied[i]
    BY <1>1
<1>3. ThreeDigits
    BY <1>2 DEF Good, ThreeDigits
<1>4. ASSUME NEW i \in 1..(Len(copied) - 1),
             copied[i + 1].name \in Builds, ZeroInside(copied[i].order),
             ~TextBefore(copied[i].order, copied[i + 1].order)
      PROVE  FALSE
  <2>1. i \in 1..(Len(copied') - 1) /\ copied'[i] = copied[i] /\ copied'[i + 1] = copied[i + 1]
      BY <1>2
  <2> QED
      BY <1>4, <2>1 DEF Good, Misnumbered
<1> QED
    BY <1>3, <1>4 DEF Good, Misnumbered

LEMMA CopyInStep ==
    ASSUME TypeOK, Numbered, InStep, CopyScript \/ CopyBuild
    PROVE  InStep'
<1> SUFFICES ASSUME Good'
             PROVE  /\ Growing(copied)' /\ Counted' /\ ChainOfCopied' /\ TargetsOfCopied'
                    /\ MakeInStep'
    BY DEF InStep
<1>1. /\ pc' = pc /\ pc \in {"scripts", "builds"} /\ todo # <<>>
      /\ makefile' = makefile /\ touched' = touched /\ at' = at
      /\ \/ copied' = copied /\ cnt' = cnt
         \/ /\ cnt' = cnt + 1
            /\ copied' = Append(copied, [order |-> Numeral(cnt), name |-> Head(todo)])
    BY DEF CopyScript, CopyBuild, PutScript, buildVars
<1>2. Good
    BY <1>1, GoodBefore
<1>3. Growing(copied) /\ Counted /\ ChainOfCopied /\ TargetsOfCopied
    BY <1>2 DEF InStep
<1>4. MakeInStep'
    BY <1>1 DEF MakeInStep
<1>5. CASE copied' = copied /\ cnt' = cnt
    BY <1>1, <1>3, <1>4, <1>5 DEF Counted, ChainOfCopied, TargetsOfCopied
<1>6. CASE copied' # copied
  <2> DEFINE s == [order |-> Numeral(cnt), name |-> Head(todo)]
  <2>1. s.order = Numeral(cnt) /\ cnt \in Nat /\ s.name = Head(todo) /\ s \in Script
      BY <1>1, NumeralType, TailType DEF TypeOK, TypeCommand, Script
  <2>2. copied' = Append(copied, s) /\ cnt' = cnt + 1
      BY <1>1, <1>6
  <2> HIDE DEF s
  <2>3. /\ copied \in Seq(Script) /\ Len(copied) \in Nat
        /\ Len(copied') = Len(copied) + 1 /\ copied'[Len(copied) + 1] = s
        /\ \A i \in 1..Len(copied) : copied'[i] = copied[i]
    <3>1. copied \in Seq(Script)
        BY DEF TypeOK, TypeFiles
    <3> QED
        BY <2>2, <3>1
  <2>4. cnt < 1000
    <3>1. Len(s.order) = 3
        BY <2>3 DEF Good, ThreeDigits
    <3> QED
        BY <2>1, <3>1, NumeralType
  <2>5. ASSUME copied # <<>> PROVE TextBefore(copied[Len(copied)].order, s.order)
    <3>1. CASE cnt >= 1 /\ copied[Len(copied)].order = Numeral(cnt - 1)
      <4>1. cnt - 1 \in Nat /\ (cnt - 1) + 1 = cnt
          BY <2>1, <3>1
      <4>2. TextBefore(Numeral(cnt - 1), Numeral((cnt - 1) + 1))
          BY <2>4, <4>1, NumeralGrows
      <4> QED
          BY <2>1, <3>1, <4>1, <4>2
    <3>2. CASE pc = "builds" /\ ZeroInside(copied[Len(copied)].order)
      <4>1. s.name \in Builds
          BY <1>1, <2>1, <3>2, TailType DEF Numbered
      <4>2. Len(copied) \in 1..(Len(copied') - 1)
          BY <2>3, <2>5
      <4>3. copied'[Len(copied)] = copied[Len(copied)] /\ copied'[Len(copied) + 1] = s
          BY <2>3, <4>2
      <4> QED
          BY <3>2, <4>1, <4>2, <4>3 DEF Good, Misnumbered
    <3> QED
        BY <1>1, <1>3, <2>5, <3>1, <3>2 DEF Counted
  <2>6. Growing(copied')
      BY <1>3, <2>1, <2>2, <2>3, <2>5, GrowingAppend
  <2>7. Counted'
    <3>1. cnt' - 1 = cnt /\ cnt' >= 1
        BY <2>1, <2>2
    <3>2. copied'[Len(copied')].order = Numeral(cnt' - 1)
        BY <2>1, <2>3, <3>1
    <3> QED
        BY <3>1, <3>2 DEF Counted
  <2>8. ChainOfCopied'
    <3>1. makefile.chain \in Seq(Script) /\ Len(makefile.chain) \in Nat
        BY DEF TypeOK, TypeFiles
    <3>2. Len(makefile.chain) <= Len(copied)
        BY <1>3 DEF ChainOfCopied
    <3>3. ASSUME NEW k \in 1..Len(makefile.chain)
          PROVE  makefile.chain[k] = copied'[Len(makefile.chain) + 1 - k]
      <4>1. Len(makefile.chain) + 1 - k \in 1..Len(copied)
          BY <2>3, <3>1, <3>2
      <4>2. makefile.chain[k] = copied[Len(makefile.chain) + 1 - k]
          BY <1>3 DEF ChainOfCopied
      <4> QED
          BY <2>3, <4>1, <4>2
    <3>4. Len(makefile.chain) <= Len(copied')
        BY <2>3, <3>1, <3>2
    <3> QED
        BY <1>1, <3>3, <3>4 DEF ChainOfCopied
  <2>9. TargetsOfCopied'
    <3>1. Len(touched) \in Nat
        BY DEF TypeOK, TypeMake
    <3> QED
        BY <1>1, <1>3, <2>3, <3>1 DEF TargetsOfCopied
  <2> QED
      BY <1>4, <2>6, <2>7, <2>8, <2>9
<1> QED
    BY <1>1, <1>5, <1>6

LEMMA ReadBuildsInStep ==
    ASSUME TypeOK, Numbered, InStep, NEW l \in BuildLists, ReadBuilds(l)
    PROVE  InStep'
<1> SUFFICES ASSUME Good'
             PROVE  /\ Growing(copied)' /\ Counted' /\ ChainOfCopied' /\ TargetsOfCopied'
                    /\ MakeInStep'
    BY DEF InStep
<1>1. /\ pc' = "builds" /\ cnt' = StartingCount(scripts) /\ copied' = copied
      /\ makefile' = makefile /\ touched' = touched /\ at' = at
    BY DEF ReadBuilds, buildVars
<1>2. Good
    BY <1>1, GoodBefore
<1>3. Growing(copied) /\ ChainOfCopied /\ TargetsOfCopied
    BY <1>2 DEF InStep
<1>4. ChainOfCopied' /\ TargetsOfCopied' /\ MakeInStep'
    BY <1>1, <1>3 DEF ChainOfCopied, TargetsOfCopied, MakeInStep
<1>5. copied \in Seq(Script) /\ scripts = Elements(copied) /\ Len(copied) \in Nat
    BY DEF TypeOK, TypeFiles
<1>6. ASSUME copied # <<>>, ~ZeroInside(copied[Len(copied)].order)
      PROVE  StartingCount(scripts) >= 1 /\ copied[Len(copied)].order = Numeral(StartingCount(scripts) - 1)
  <2>1. Len(copied) \in 1..Len(copied)
      BY <1>5, <1>6
  <2>2. PICK n \in Nat : copied[Len(copied)].order = Numeral(n)
      BY <2>1 DEF Numbered
  <2>3. n < 1000
      BY <1>2, <2>1, <2>2, NumeralType DEF Good, ThreeDigits
  <2>4. Value(Without(Numeral(n), {0})) = n
      BY <1>6, <2>2, <2>3, NumeralRead
  <2>5. Sorted(scripts) = copied
      BY <1>3, <1>5, SortedGrowing
  <2>6. scripts # {}
      BY <1>5, <2>1 DEF Elements
  <2>7. Last(copied) = copied[Len(copied)]
      BY DEF Last
  <2>8. StartingCount(scripts) = n + 1
      BY <2>2, <2>4, <2>5, <2>6, <2>7 DEF StartingCount
  <2> QED
      BY <2>2, <2>8
<1>7. Counted'
    BY <1>1, <1>6 DEF Counted
<1> QED
    BY <1>1, <1>3, <1>4, <1>7

\* The rule make is at: its script is the p-th that was copied, and it is out
\* of date exactly when it has no target.
LEMMA AtRule ==
    ASSUME TypeOK, pc \in {"make", "touch"}, Growing(copied), ChainOfCopied, TargetsOfCopied
    PROVE  LET p == Len(makefile.chain) + 1 - at IN
           /\ p \in 1..Len(copied) /\ makefile.chain[at] = copied[p]
           /\ \A i \in 1..Len(copied) : copied[i] = copied[p] => i = p
           /\ Exists(makefile.chain[at]) <=> p <= Len(touched)
           /\ OutOfDate(at) => ~Exists(makefile.chain[at])
<1> DEFINE n == Len(makefile.chain)
           p == n + 1 - at
<1>1. /\ at \in 1..n /\ n \in Nat /\ n <= Len(copied) /\ Len(copied) \in Nat
      /\ copied \in Seq(Script) /\ touched \in Seq(Script) /\ Len(touched) \in Nat
    BY AtScript DEF TypeOK, TypeFiles, TypeMake, ChainOfCopied
<1>2. p \in 1..Len(copied) /\ makefile.chain[at] = copied[p]
    BY <1>1 DEF ChainOfCopied
<1>3. \A i, j \in 1..Len(copied) : copied[i] = copied[j] => i = j
    BY <1>1, GrowingDistinct
<1>4. ASSUME NEW j \in 1..Len(copied)
      PROVE  Exists(copied[j]) <=> j <= Len(touched)
  <2>1. ASSUME j <= Len(touched) PROVE Exists(copied[j])
    <3>1. j \in 1..Len(touched) /\ touched[j] = copied[j]
        BY <1>1, <2>1 DEF TargetsOfCopied
    <3> QED
        BY <3>1 DEF Exists, Elements
  <2>2. ASSUME Exists(copied[j]) PROVE j <= Len(touched)
    <3>1. PICK k \in 1..Len(touched) : touched[k] = copied[j]
        BY <2>2 DEF Exists, Elements
    <3>2. k \in 1..Len(copied) /\ copied[k] = copied[j]
        BY <1>1, <3>1 DEF TargetsOfCopied
    <3>3. k = j
        BY <1>3, <3>2
    <3> QED
        BY <1>1, <3>3
  <2> QED
      BY <2>1, <2>2
<1>5. ASSUME NEW j \in 1..Len(touched) PROVE j \in 1..Len(copied) /\ Position(copied[j]) = j
  <2>1. j \in 1..Len(copied) /\ touched[j] = copied[j]
      BY <1>1 DEF TargetsOfCopied
  <2>2. ASSUME NEW i \in 1..Len(touched), touched[i] = copied[j] PROVE i = j
    <3>1. i \in 1..Len(copied) /\ touched[i] = copied[i]
        BY <1>1 DEF TargetsOfCopied
    <3> QED
        BY <1>3, <2>1, <2>2, <3>1
  <2> QED
      BY <2>1, <2>2 DEF Position
<1>6. ASSUME OutOfDate(at), Exists(makefile.chain[at]) PROVE FALSE
  <2>1. /\ at < n /\ Exists(makefile.chain[at + 1])
        /\ Position(makefile.chain[at + 1]) > Position(makefile.chain[at])
      BY <1>6 DEF OutOfDate
  <2>8. at < n
      BY <2>1
  <2>2. at + 1 \in 1..n /\ n + 1 - (at + 1) = p - 1
    <3>1. at \in Nat /\ n \in Nat /\ at >= 1
        BY <1>1
    <3>2. ASSUME NEW j \in Nat, NEW k \in Nat, j >= 1, j < k
          PROVE  j + 1 \in 1..k /\ k + 1 - (j + 1) = (k + 1 - j) - 1
        BY <3>2
    <3> HIDE DEF n
    <3> QED
        BY <2>8, <3>1, <3>2
  <2>3. makefile.chain[at + 1] = copied[n + 1 - (at + 1)]
      BY <2>2 DEF ChainOfCopied
  <2>9. p <= Len(touched)
      BY <1>2, <1>4, <1>6
  <2>4. p \in Nat /\ p - 1 >= 1
      BY <1>1, <2>8
  <2>5. p \in 1..Len(touched) /\ p - 1 \in 1..Len(touched)
      BY <1>1, <2>4, <2>9
  <2>6. Position(copied[p]) = p /\ Position(copied[p - 1]) = p - 1
      BY <1>5, <2>5
  <2>7. Position(makefile.chain[at + 1]) = p - 1 /\ Position(makefile.chain[at]) = p
      BY <1>2, <2>2, <2>3, <2>6
  <2> HIDE DEF p
  <2> QED
      BY <2>1, <2>4, <2>7
<1>7. Exists(makefile.chain[at]) <=> p <= Len(touched)
    BY <1>2, <1>4
<1>8. \A i \in 1..Len(copied) : copied[i] = copied[p] => i = p
    BY <1>2, <1>3
<1> QED
    BY <1>2, <1>6, <1>7, <1>8

LEMMA MakeStepInStep ==
    ASSUME TypeOK, InStep, StartMake \/ SkipTarget \/ RunScript \/ Touch
    PROVE  InStep'
<1> SUFFICES ASSUME Good'
             PROVE  /\ Growing(copied)' /\ Counted' /\ ChainOfCopied' /\ TargetsOfCopied'
                    /\ MakeInStep'
    BY DEF InStep
<1>1. copied' = copied /\ makefile' = makefile /\ pc' \in {"idle", "make", "touch"}
    BY DEF StartMake, SkipTarget, RunScript, Touch, NextRule, setupVars
<1>2. Good
    BY <1>1, GoodBefore
<1>3. Growing(copied) /\ ChainOfCopied /\ TargetsOfCopied /\ MakeInStep
    BY <1>2 DEF InStep
<1>4. Growing(copied)' /\ Counted' /\ ChainOfCopied'
    BY <1>1, <1>3 DEF Counted, ChainOfCopied
<1>5. /\ Len(makefile.chain) \in Nat /\ Len(touched) \in Nat /\ Len(copied) \in Nat
      /\ at \in Nat /\ makefile.rules \in Nat /\ makefile.rules <= Len(makefile.chain)
      /\ touched \in Seq(Script) /\ copied \in Seq(Script)
    BY DEF TypeOK, TypeFiles, TypeMake
<1> DEFINE p == Len(makefile.chain) + 1 - at
<1>6. CASE StartMake
  <2>1. touched' = touched /\ TargetsOfCopied'
      BY <1>1, <1>3, <1>6 DEF StartMake, TargetsOfCopied
  <2>2. CASE pc' = "make"
    <3>1. at' = makefile.rules /\ Complete
        BY <1>6, <2>2 DEF StartMake
    <3>2. CASE makefile.rules = Len(makefile.chain)
        BY <1>1, <1>4, <1>5, <2>1, <2>2, <3>1, <3>2 DEF MakeInStep
    <3>3. CASE makefile.rules # Len(makefile.chain)
      <4>1. Exists(makefile.chain[makefile.rules + 1])
          BY <3>1, <3>3 DEF Complete
      <4>2. PICK k \in 1..Len(touched) : touched[k] = makefile.chain[makefile.rules + 1]
          BY <4>1 DEF Exists, Elements
      <4>3. makefile.rules + 1 \in 1..Len(makefile.chain)
          BY <1>5, <3>3
      <4> DEFINE j == Len(makefile.chain) + 1 - (makefile.rules + 1)
      <4>4. j \in 1..Len(copied) /\ touched[k] = copied[j]
        <5>1. j \in 1..Len(copied) /\ Len(makefile.chain) + 1 - (makefile.rules + 1) = j
            BY <1>3, <1>5, <4>3 DEF ChainOfCopied
        <5> HIDE DEF j
        <5>2. makefile.chain[makefile.rules + 1] = copied[j]
            BY <1>3, <4>3, <5>1 DEF ChainOfCopied
        <5> QED
            BY <4>2, <5>1, <5>2
      <4>5. k \in 1..Len(copied) /\ touched[k] = copied[k]
          BY <1>3, <1>5 DEF TargetsOfCopied
      <4>6. k = j
          BY <1>3, <1>5, <4>4, <4>5, GrowingDistinct
      <4>7. Len(makefile.chain) <= makefile.rules + Len(touched)
          BY <1>5, <4>6
      <4> QED
          BY <1>1, <1>4, <2>1, <2>2, <3>1, <4>7 DEF MakeInStep
    <3> QED
        BY <3>2, <3>3
  <2>3. CASE pc' # "make"
    <3>1. pc' # "touch"
        BY <1>6 DEF StartMake
    <3> QED
        BY <1>4, <2>1, <2>3, <3>1 DEF MakeInStep
  <2> QED
      BY <1>4, <2>1, <2>2, <2>3
<1>7. CASE SkipTarget
  <2>1. touched' = touched /\ TargetsOfCopied' /\ pc = "make" /\ ~OutOfDate(at) /\ NextRule
      BY <1>1, <1>3, <1>7 DEF SkipTarget, TargetsOfCopied
  <2>2. Exists(makefile.chain[at])
      BY <2>1 DEF OutOfDate
  <2>3. p <= Len(touched)
      BY <1>3, <2>1, <2>2, AtRule
  <2>4. MakeInStep'
      BY <1>1, <1>5, <2>1, <2>3 DEF NextRule, MakeInStep
  <2> QED
      BY <1>4, <2>1, <2>4
<1>8. CASE RunScript
  <2>1. touched' = touched /\ TargetsOfCopied' /\ pc = "make" /\ OutOfDate(at)
        /\ at' = at /\ pc' = "touch"
      BY <1>1, <1>3, <1>8 DEF RunScript, TargetsOfCopied
  <2>2. ~(p <= Len(touched))
      BY <1>3, <2>1, AtRule
  <2>3. Len(makefile.chain) <= at + Len(touched)
      BY <1>3, <2>1 DEF MakeInStep
  <2>4. Len(makefile.chain) = at + Len(touched)
      BY <1>5, <2>2, <2>3
  <2> QED
      BY <1>1, <1>4, <2>1, <2>4 DEF MakeInStep
<1>9. CASE Touch
  <2>1. /\ pc = "touch" /\ NextRule
        /\ touched' = Append(Without(touched, {makefile.chain[at]}), makefile.chain[at])
      BY <1>9 DEF Touch
  <2>2. Len(makefile.chain) = at + Len(touched)
      BY <1>3, <2>1 DEF MakeInStep
  <2>3. p \in 1..Len(copied) /\ makefile.chain[at] = copied[p] /\ ~Exists(makefile.chain[at])
      /\ p = Len(touched) + 1
    <3>1. p = Len(touched) + 1
        BY <1>5, <2>2
    <3>2. /\ p \in 1..Len(copied) /\ makefile.chain[at] = copied[p]
          /\ Exists(makefile.chain[at]) <=> p <= Len(touched)
        BY <1>3, <2>1, AtRule
    <3> QED
        BY <1>5, <3>1, <3>2
  <2>4. Without(touched, {makefile.chain[at]}) = touched
      BY <1>5, <2>3, WithoutNothing DEF Exists
  <2> DEFINE c == makefile.chain[at]
  <2>5. touched' = Append(touched, c) /\ c = copied[Len(touched) + 1]
        /\ Len(touched) + 1 \in 1..Len(copied)
      BY <2>1, <2>3, <2>4
  <2> HIDE DEF p, c
  <2>6. Len(touched') = Len(touched) + 1 /\ touched'[Len(touched) + 1] = c
        /\ \A k \in 1..Len(touched) : touched'[k] = touched[k]
      BY <1>5, <2>5
  <2>7. TargetsOfCopied'
      BY <1>1, <1>3, <1>5, <2>5, <2>6 DEF TargetsOfCopied
  <2>8. MakeInStep'
      BY <1>1, <1>5, <2>1, <2>2, <2>6 DEF NextRule, MakeInStep
  <2> QED
      BY <1>4, <2>7, <2>8
<1> QED
    BY <1>6, <1>7, <1>8, <1>9

\* A step that copies nothing and is not one of make's
LEMMA OtherInStep ==
    ASSUME TypeOK, InStep, UNCHANGED <<copied, touched>>, ChainOfCopied => ChainOfCopied',
           pc' \notin {"make", "touch"},
           \/ pc' \notin {"scripts", "builds"}
           \/ pc' = "scripts" /\ copied = <<>>
    PROVE  InStep'
<1> SUFFICES ASSUME Good'
             PROVE  /\ Growing(copied)' /\ Counted' /\ ChainOfCopied' /\ TargetsOfCopied'
                    /\ MakeInStep'
    BY DEF InStep
<1>1. Good
    BY GoodBefore
<1>2. Growing(copied) /\ ChainOfCopied /\ TargetsOfCopied
    BY <1>1 DEF InStep
<1>3. Growing(copied)' /\ TargetsOfCopied'
    BY <1>2 DEF TargetsOfCopied
<1>4. Counted' /\ MakeInStep'
    BY DEF Counted, MakeInStep
<1> QED
    BY <1>2, <1>3, <1>4

LEMMA StartMakefileInStep == ASSUME TypeOK, InStep, StartMakefile PROVE InStep'
<1>1. /\ UNCHANGED <<copied, touched>> /\ pc' \in {"idle", "rules"}
      /\ makefile' = IF scripts = {} THEN NoMakefile ELSE [chain |-> Chain, rules |-> 0]
    BY DEF StartMakefile, Fail, buildVars
<1>2. copied \in Seq(Script) /\ scripts = Elements(copied) /\ Len(copied) \in Nat
    BY DEF TypeOK, TypeFiles
<1>3. ASSUME Growing(copied) PROVE ChainOfCopied'
  <2>1. CASE scripts = {}
      BY <1>1, <1>2, <2>1 DEF NoMakefile, ChainOfCopied
  <2>2. CASE scripts # {}
    <3>1. Sorted(scripts) = copied
        BY <1>2, <1>3, SortedGrowing
    <3>2. makefile'.chain = Chain
        BY <1>1, <2>2
    <3>3. Len(Chain) = Len(copied) /\ \A k \in 1..Len(Chain) : Chain[k] = copied[Len(Chain) + 1 - k]
        BY <3>1, ChainFacts
    <3> QED
        BY <1>1, <1>2, <3>2, <3>3 DEF ChainOfCopied
  <2> QED
      BY <2>1, <2>2
<1> SUFFICES ASSUME Good'
             PROVE  /\ Growing(copied)' /\ Counted' /\ ChainOfCopied' /\ TargetsOfCopied'
                    /\ MakeInStep'
    BY DEF InStep
<1>4. Good
    BY <1>1, GoodBefore
<1>5. Growing(copied) /\ TargetsOfCopied
    BY <1>4 DEF InStep
<1>6. Growing(copied)' /\ TargetsOfCopied'
    BY <1>1, <1>5 DEF TargetsOfCopied
<1>7. Counted' /\ MakeInStep'
    BY <1>1 DEF Counted, MakeInStep
<1> QED
    BY <1>3, <1>5, <1>6, <1>7

LEMMA InStepStep == TypeOK /\ Numbered /\ InStep /\ [Next]_vars => InStep'
<1> SUFFICES ASSUME TypeOK, Numbered, InStep, [Next]_vars PROVE InStep'
    OBVIOUS
<1> DEFINE Other == /\ UNCHANGED <<copied, touched>> /\ makefile'.chain = makefile.chain
                    /\ pc' \notin {"make", "touch"}
                    /\ \/ pc' \notin {"scripts", "builds"}
                       \/ pc' = "scripts" /\ copied = <<>>
<1>1. CASE Other
  <2>1. ChainOfCopied => ChainOfCopied'
      BY <1>1 DEF ChainOfCopied
  <2> QED
      BY <1>1, <2>1, OtherInStep
<1>2. MergeTree \/ AddPatch => Other
    BY DEF MergeTree, AddPatch, Fail, buildVars
<1>3. StartScripts => Other
    BY DEF StartScripts, Numbered, buildVars
<1>4. FinishScripts \/ FinishMakefile \/ ClearLogs => Other
    BY DEF FinishScripts, FinishMakefile, ClearLogs, Fail, setupVars, buildVars
<1>5. WriteRule => Other
  <2>1. WriteRule => makefile' = [makefile EXCEPT !.rules = @ + 1] /\ pc' = "rules"
                     /\ UNCHANGED <<copied, touched>>
      BY DEF WriteRule, buildVars
  <2> QED
      BY <2>1 DEF TypeOK, TypeFiles
<1>6. StartCustomAlone \/ FinishBuilds \/ ScriptFails \/ Kill \/ CopyBuildFails => Other
    BY DEF StartCustomAlone, FinishBuilds, ScriptFails, Kill, CopyBuildFails, Fail, setupVars, buildVars
<1>7. CASE \E a \in Actions, r \in Requests : StartSetup(a, r)
  <2>1. copied' = <<>> /\ touched' = <<>> /\ makefile' = NoMakefile /\ pc' \in {"deps", "patch"}
      BY <1>7 DEF StartSetup, EmptyWork
  <2> QED
      BY <2>1 DEF InStep, Growing, Counted, ChainOfCopied, TargetsOfCopied, MakeInStep, NoMakefile
<1>8. CASE UNCHANGED vars
  <2>1. UNCHANGED <<copied, touched, makefile, pc, at, cnt>>
      BY <1>8 DEF vars, setupVars, buildVars
  <2>2. Good' = Good
      BY <2>1 DEF Good, ThreeDigits, Misnumbered
  <2> QED
      BY <2>1, <2>2 DEF InStep, Counted, ChainOfCopied, TargetsOfCopied, MakeInStep
<1> QED
    BY <1>1, <1>2, <1>3, <1>4, <1>5, <1>6, <1>7, <1>8, CopyInStep, ReadBuildsInStep,
       StartMakefileInStep, MakeStepInStep DEF Next

OrderInv == TypeOK /\ TargetsMade /\ Numbered /\ InStep

LEMMA OrderInvInit == Init => OrderInv
<1> SUFFICES ASSUME Init PROVE OrderInv
    OBVIOUS
<1>1. TypeOK
    BY InitType
<1>2. /\ copied = <<>> /\ touched = <<>> /\ makefile = NoMakefile /\ pc = "idle" /\ result = "none"
    BY DEF Init
<1>3. TargetsMade /\ Numbered
    BY <1>2 DEF TargetsMade, Numbered, Elements
<1>4. InStep
    BY <1>2 DEF InStep, Growing, Counted, ChainOfCopied, TargetsOfCopied, MakeInStep, NoMakefile
<1> QED
    BY <1>1, <1>3, <1>4 DEF OrderInv

LEMMA OrderInvStep == OrderInv /\ [Next]_vars => OrderInv'
BY TypeStep, TargetsMadeStep, NumberedStep, InStepStep DEF OrderInv

LEMMA OrderImplied == OrderInv /\ ThreeDigits => BuildsInOrder
<1> SUFFICES ASSUME OrderInv, ThreeDigits, pc = "touch", ~Misnumbered,
                    NEW i \in 1..Len(copied), copied[i] = makefile.chain[at],
                    NEW j \in 1..(i - 1)
             PROVE  copied[j] \in done
    BY DEF BuildsInOrder
<1> DEFINE p == Len(makefile.chain) + 1 - at
<1>1. /\ TypeOK /\ Growing(copied) /\ ChainOfCopied /\ TargetsOfCopied /\ MakeInStep
      /\ Elements(touched) \subseteq done
    BY DEF OrderInv, InStep, Good, TargetsMade
<1>2. i = p
  <2>1. /\ makefile.chain[at] = copied[p]
        /\ \A k \in 1..Len(copied) : copied[k] = copied[p] => k = p
      BY <1>1, AtRule
  <2> QED
      BY <2>1
<1>3. Len(makefile.chain) = at + Len(touched)
    BY <1>1 DEF MakeInStep
<1>4. Len(makefile.chain) \in Nat /\ at \in Nat /\ Len(touched) \in Nat
    BY <1>1 DEF TypeOK, TypeFiles, TypeMake
<1>5. j \in 1..Len(touched)
    BY <1>2, <1>3, <1>4
<1>6. touched[j] = copied[j]
    BY <1>1, <1>5 DEF TargetsOfCopied
<1> QED
    BY <1>1, <1>5, <1>6 DEF Elements

\* A script is started only when all that were given a number before it have
\* run to their end, however often make failed or was killed, as long as the
\* numbers have three digits.
THEOREM BuildsInOrderHolds == Spec => [](ThreeDigits => BuildsInOrder)
<1>1. OrderInv => (ThreeDigits => BuildsInOrder)
    BY OrderImplied
<1> QED
    BY <1>1, OrderInvInit, OrderInvStep, PTL DEF Spec

LEMMA RunsNew == OrderInv /\ ThreeDigits /\ RunScript /\ ~Misnumbered => ~Exists(makefile.chain[at])
<1> SUFFICES ASSUME OrderInv, ThreeDigits, RunScript, ~Misnumbered
             PROVE  ~Exists(makefile.chain[at])
    OBVIOUS
<1>1. TypeOK /\ Growing(copied) /\ ChainOfCopied /\ TargetsOfCopied
    BY DEF OrderInv, InStep, Good
<1>2. pc = "make" /\ OutOfDate(at)
    BY DEF RunScript
<1> QED
    BY <1>1, <1>2, AtRule

\* make runs no script again that has its target, when a set-up added builds to
\* a plan that was made in part already as well.
THEOREM BuiltIsKeptHolds == Spec /\ []ThreeDigits => BuiltIsKept
<1>1. OrderInv /\ ThreeDigits /\ [Next]_vars
        => [RunScript /\ ~Misnumbered => ~Exists(makefile.chain[at])]_vars
    BY RunsNew
<1> QED
    BY <1>1, OrderInvInit, OrderInvStep, PTL DEF Spec, BuiltIsKept

-------------------------------------------------------------------------------
\* The order of the packages

\* No tree file has a line twice, as DepTreeProofs shows of those that are made.
TreesOnce ==
    \A t \in Trees : \A p \in DOMAIN t : \A i, j \in 1..Len(t[p]) : t[p][i] = t[p][j] => i = j

PatchOnly ==
    /\ pc = "patch" => action = "BUILDPATCH"
    /\ pc = "deps" => action # "BUILDPATCH"

\* p says where each line of w was in s, and that the lines that are not in X stay.
WereAt(p, w, s, X) ==
    /\ p \in [1..Len(w) -> 1..Len(s)]
    /\ \A k \in 1..Len(w) : w[k] = s[p[k]]
    /\ \A j, k \in 1..Len(w) : j < k <=> p[j] < p[k]
    /\ \A i \in 1..Len(s) : s[i] \notin X => \E k \in 1..Len(w) : p[k] = i

LEMMA WithoutPlaces ==
    ASSUME NEW T, NEW s \in Seq(T), NEW X, NEW w, w = Without(s, X)
    PROVE  \E p : WereAt(p, w, s, X)
BY WithoutLists DEF WereAt

LEMMA Joined ==
    ASSUME NEW T, NEW q \in Seq(T), NEW w \in Seq(T)
    PROVE  /\ q \o w \in Seq(T) /\ Len(q \o w) = Len(q) + Len(w)
           /\ Len(q) \in Nat /\ Len(w) \in Nat
           /\ \A i \in 1..Len(q) : (q \o w)[i] = q[i]
           /\ \A i \in 1..Len(w) : (q \o w)[Len(q) + i] = w[i]
           /\ \A k \in 1..Len(q \o w) : k \in 1..Len(q) \/ \E i \in 1..Len(w) : k = Len(q) + i
<1>1. q \o w \in Seq(T) /\ Len(q \o w) = Len(q) + Len(w) /\ Len(q) \in Nat /\ Len(w) \in Nat
    OBVIOUS
<1>2. \A i \in 1..Len(q) : (q \o w)[i] = q[i]
    OBVIOUS
<1>3. \A i \in 1..Len(w) : (q \o w)[Len(q) + i] = w[i]
    OBVIOUS
<1>4. ASSUME NEW k \in 1..(Len(q) + Len(w)), k \notin 1..Len(q)
      PROVE  \E i \in 1..Len(w) : k = Len(q) + i
  <2>1. k - Len(q) \in 1..Len(w) /\ k = Len(q) + (k - Len(q))
      BY <1>1, <1>4
  <2> QED
      BY <2>1
<1> QED
    BY <1>1, <1>2, <1>3, <1>4

\* Adding to q what tree has that is not in q and not up to date
LEMMA MergeKeepsOrder ==
    ASSUME NEW T, NEW q \in Seq(T), NEW tree \in Seq(T), NEW n \in 0..Len(tree), NEW U,
           \A i, j \in 1..Len(q) : q[i] = q[j] => i = j,
           \A i, j \in 1..Len(tree) : tree[i] = tree[j] => i = j
    PROVE  LET new == q \o Without(SubSeq(tree, 1, n), U \cup Elements(q)) IN
           /\ \A i, j \in 1..Len(new) : new[i] = new[j] => i = j
           /\ \A b \in Elements(new), d \in T \ U :
                 \/ b \in Elements(q) /\ (Before(q, d, b) => Before(new, d, b))
                 \/ b \in Elements(tree) /\ (Before(tree, d, b) => Before(new, d, b))
<1> DEFINE X == U \cup Elements(q)
           s == SubSeq(tree, 1, n)
           w == Without(s, X)
           new == q \o w
<1>1. s \in Seq(T) /\ Len(s) = n /\ n \in Nat /\ Len(tree) \in Nat /\ n <= Len(tree)
      /\ \A i \in 1..n : s[i] = tree[i]
    OBVIOUS
<1> HIDE DEF s
<1> HIDE DEF X
<1>2. /\ w \in Seq(T) /\ Len(w) \in Nat
      /\ \A k \in 1..Len(w) : w[k] \notin X
    BY <1>1, WithoutLists
<1>12. \E p : WereAt(p, w, s, X)
  <2>1. s \in Seq(T)
      BY <1>1
  <2>2. w = Without(s, X)
      OBVIOUS
  <2> HIDE DEF w
  <2> QED
      BY <2>1, <2>2, WithoutPlaces
<1> HIDE DEF w
<1>3. PICK p \in [1..Len(w) -> 1..Len(s)] :
                /\ \A k \in 1..Len(w) : w[k] = s[p[k]]
                /\ \A j, k \in 1..Len(w) : j < k <=> p[j] < p[k]
                /\ \A i \in 1..Len(s) : s[i] \notin X => \E k \in 1..Len(w) : p[k] = i
    BY <1>12 DEF WereAt
<1>4. /\ Len(new) = Len(q) + Len(w) /\ Len(q) \in Nat
      /\ \A i \in 1..Len(q) : new[i] = q[i]
      /\ \A i \in 1..Len(w) : new[Len(q) + i] = w[i]
      /\ \A k \in 1..Len(new) : k \in 1..Len(q) \/ \E i \in 1..Len(w) : k = Len(q) + i
    BY <1>2, Joined
<1> HIDE DEF new
<1>5. \A k \in 1..Len(w) : p[k] \in 1..n /\ w[k] = tree[p[k]] /\ w[k] \notin Elements(q) /\ p[k] \in 1..Len(tree)
    BY <1>1, <1>2, <1>3 DEF X
<1>6. \A j, k \in 1..Len(w) : w[j] = w[k] => j = k
  <2> SUFFICES ASSUME NEW j \in 1..Len(w), NEW k \in 1..Len(w), w[j] = w[k] PROVE j = k
      OBVIOUS
  <2>1. p[j] = p[k] /\ p[j] \in Nat
      BY <1>5
  <2>2. ~(j < k) /\ ~(k < j)
      BY <1>3, <2>1
  <2> QED
      BY <1>2, <2>2
<1>7. \A i \in 1..Len(q) : q[i] \in Elements(q)
    BY DEF Elements
<1>13. \A k \in 1..Len(new) : k \notin 1..Len(q) =>
          \E i \in 1..Len(w) : k = Len(q) + i /\ new[k] = w[i]
  <2> SUFFICES ASSUME NEW k \in 1..Len(new), k \notin 1..Len(q)
               PROVE  \E i \in 1..Len(w) : k = Len(q) + i /\ new[k] = w[i]
      OBVIOUS
  <2>1. PICK i \in 1..Len(w) : k = Len(q) + i
      BY <1>4
  <2>2. new[Len(q) + i] = w[i]
      BY <1>4
  <2> QED
      BY <2>1, <2>2
<1>14. \A k \in 1..Len(new) : k \notin 1..Len(q) => new[k] \notin Elements(q)
    BY <1>5, <1>13
<1>15. \A k \in 1..Len(q) : new[k] \in Elements(q) /\ new[k] = q[k]
    BY <1>4, <1>7
<1>8. ASSUME NEW i \in 1..Len(new), NEW j \in 1..Len(new), new[i] = new[j] PROVE i = j
  <2>1. CASE i \in 1..Len(q) /\ j \in 1..Len(q)
      BY <1>8, <1>15, <2>1
  <2>2. CASE i \in 1..Len(q) /\ j \notin 1..Len(q)
      BY <1>8, <1>14, <1>15, <2>2
  <2>3. CASE i \notin 1..Len(q) /\ j \in 1..Len(q)
      BY <1>8, <1>14, <1>15, <2>3
  <2>4. CASE i \notin 1..Len(q) /\ j \notin 1..Len(q)
    <3>1. PICK k \in 1..Len(w) : i = Len(q) + k
        BY <1>4, <2>4
    <3>2. PICK m \in 1..Len(w) : j = Len(q) + m
        BY <1>4, <2>4
    <3>3. new[i] = w[k] /\ new[j] = w[m]
        BY <1>4, <3>1, <3>2
    <3>4. k = m
        BY <1>6, <1>8, <3>3
    <3> QED
        BY <3>1, <3>2, <3>4
  <2> QED
      BY <2>1, <2>2, <2>3, <2>4
<1>9. ASSUME NEW d, NEW b, Before(q, d, b) PROVE Before(new, d, b)
  <2>1. PICK i, j \in 1..Len(q) : i < j /\ q[i] = d /\ q[j] = b
      BY <1>9 DEF Before
  <2>2. i \in 1..Len(new) /\ j \in 1..Len(new) /\ new[i] = d /\ new[j] = b
      BY <1>2, <1>4, <2>1
  <2> QED
      BY <2>1, <2>2 DEF Before
<1>10. ASSUME NEW k \in 1..Len(w), NEW d \in T \ U, Before(tree, d, w[k])
       PROVE  Before(new, d, w[k])
  <2>1. PICK i, j \in 1..Len(tree) : i < j /\ tree[i] = d /\ tree[j] = w[k]
      BY <1>10 DEF Before
  <2>2. j = p[k] /\ i \in 1..n /\ s[i] = d
    <3>1. p[k] \in 1..n /\ tree[j] = tree[p[k]] /\ p[k] \in 1..Len(tree)
        BY <1>5, <2>1
    <3>2. j = p[k]
        BY <3>1
    <3>3. i \in 1..n
        BY <1>1, <2>1, <3>1, <3>2
    <3> QED
        BY <1>1, <2>1, <3>2, <3>3
  <2>3. Len(q) + k \in 1..Len(new) /\ new[Len(q) + k] = w[k]
      BY <1>2, <1>4
  <2>4. CASE d \in Elements(q)
    <3>1. PICK m \in 1..Len(q) : q[m] = d
        BY <2>4 DEF Elements
    <3>2. m \in 1..Len(new) /\ new[m] = d /\ m < Len(q) + k
        BY <1>2, <1>4, <3>1
    <3> QED
        BY <2>3, <3>2 DEF Before
  <2>5. CASE d \notin Elements(q)
    <3>1. PICK m \in 1..Len(w) : p[m] = i
        BY <1>1, <1>3, <2>2, <2>5 DEF X
    <3>2. m < k
        BY <1>3, <2>1, <2>2, <3>1
    <3>3. w[m] = d
        BY <1>5, <2>1, <3>1
    <3>4. Len(q) + m \in 1..Len(new) /\ Len(q) + m < Len(q) + k
        BY <1>2, <1>4, <3>2
    <3>5. new[Len(q) + m] = d
        BY <1>4, <3>3
    <3> QED
        BY <2>3, <3>4, <3>5 DEF Before
  <2> QED
      BY <2>4, <2>5
<1>11. ASSUME NEW b \in Elements(new), NEW d \in T \ U
       PROVE  \/ b \in Elements(q) /\ (Before(q, d, b) => Before(new, d, b))
              \/ b \in Elements(tree) /\ (Before(tree, d, b) => Before(new, d, b))
  <2>1. PICK k \in 1..Len(new) : b = new[k]
      BY DEF Elements
  <2>2. CASE k \in 1..Len(q)
      BY <1>4, <1>7, <1>9, <2>1, <2>2
  <2>3. CASE k \notin 1..Len(q)
    <3>1. PICK m \in 1..Len(w) : b = w[m]
        BY <1>13, <2>1, <2>3
    <3>2. b \in Elements(tree)
        BY <1>5, <3>1 DEF Elements
    <3> QED
        BY <1>10, <3>1, <3>2
  <2> QED
      BY <2>2, <2>3
<1> QED
    BY <1>8, <1>11 DEF new, w, s, X

LEMMA PatchOnlyStep == TypeOK /\ PatchOnly /\ [Next]_vars => PatchOnly'
<1> SUFFICES ASSUME TypeOK, PatchOnly, [Next]_vars PROVE PatchOnly'
    OBVIOUS
<1>1. CASE pc' \notin {"deps", "patch"}
    BY <1>1 DEF PatchOnly
<1>2. CASE pc' = pc /\ action' = action
    BY <1>2 DEF PatchOnly
<1>3. CASE \E a \in Actions, r \in Requests : StartSetup(a, r)
  <2>1. \/ action' = "BUILDPATCH" /\ pc' = "patch"
        \/ action' # "BUILDPATCH" /\ pc' = "deps"
      BY <1>3 DEF StartSetup
  <2> QED
      BY <2>1 DEF PatchOnly
<1> DEFINE Other == pc' \notin {"deps", "patch"} \/ (pc' = pc /\ action' = action)
<1>4. MergeTree \/ AddPatch \/ StartScripts \/ CopyScript \/ FinishScripts => Other
    BY DEF MergeTree, AddPatch, StartScripts, CopyScript, FinishScripts, Fail, others
<1>5. StartMakefile \/ WriteRule \/ FinishMakefile \/ ClearLogs \/ StartCustomAlone => Other
    BY DEF StartMakefile, WriteRule, FinishMakefile, ClearLogs, StartCustomAlone, Fail, others
<1>6. CopyBuild \/ FinishBuilds \/ (\E l \in BuildLists : ReadBuilds(l)) => Other
    BY DEF CopyBuild, FinishBuilds, ReadBuilds, others
<1>7. StartMake \/ SkipTarget \/ RunScript \/ ScriptFails \/ Touch \/ Kill \/ CopyBuildFails => Other
    BY DEF StartMake, SkipTarget, RunScript, ScriptFails, Touch, Kill, CopyBuildFails, NextRule, Fail, others
<1>8. UNCHANGED vars => Other
    BY DEF vars, others
<1> QED
    BY <1>1, <1>2, <1>3, <1>4, <1>5, <1>6, <1>7, <1>8 DEF Next

\* The order stays when the set-up is over.
Ordered == action # "BUILDPATCH" => InTreeOrder

LEMMA MergeTreeOrder ==
    ASSUME TreesOnce, TypeOK, PatchOnly, Ordered, MergeTree
    PROVE  Ordered'
<1> DEFINE tree == TreeOf(Head(todo))
<1>1. /\ workTree' = workTree \o Without(Readable(tree), UpToDate \cup Elements(workTree))
      /\ pc = "deps" /\ trees' = trees
    BY DEF MergeTree, Merged, TreeOf, others
<1>2. tree \in Seq(Names)
    BY TreeType DEF TypeOK, TypeCommand, Names
<1>3. PICK n \in 0..Len(tree) : Readable(tree) = SubSeq(tree, 1, n)
    BY TreeType, ReadableLists DEF TypeOK, TypeCommand
<1>4. \A i, j \in 1..Len(tree) : tree[i] = tree[j] => i = j
    BY DEF TreesOnce, TreeOf, TypeOK, TypeCommand
<1>5. /\ \A i, j \in 1..Len(workTree) : workTree[i] = workTree[j] => i = j
      /\ \A b \in Elements(workTree), d \in Packages \ UpToDate :
            AlwaysBefore(d, b) => Before(workTree, d, b)
    BY <1>1 DEF Ordered, InTreeOrder, PatchOnly
<1>6. ASSUME NEW d, NEW b \in Elements(tree), AlwaysBefore(d, b) PROVE Before(tree, d, b)
    BY <1>6 DEF AlwaysBefore, TreeOf, Elements
<1> HIDE DEF tree
<1>7. workTree \in Seq(Names)
    BY DEF TypeOK, TypeCommand
<1> DEFINE new == workTree \o Without(SubSeq(tree, 1, n), UpToDate \cup Elements(workTree))
<1>8. /\ \A i, j \in 1..Len(new) : new[i] = new[j] => i = j
      /\ \A b \in Elements(new), d \in Names \ UpToDate :
            \/ b \in Elements(workTree) /\ (Before(workTree, d, b) => Before(new, d, b))
            \/ b \in Elements(tree) /\ (Before(tree, d, b) => Before(new, d, b))
    BY <1>2, <1>4, <1>5, <1>7, MergeKeepsOrder
<1>9. workTree' = new
    BY <1>1, <1>3
<1> HIDE DEF new
<1>10. ASSUME NEW b \in Elements(new), NEW d \in Packages \ UpToDate, AlwaysBefore(d, b)
       PROVE  Before(new, d, b)
    BY <1>5, <1>6, <1>8, <1>10 DEF Names
<1>11. ASSUME NEW d, NEW b, AlwaysBefore(d, b)' PROVE AlwaysBefore(d, b)
    BY <1>1, <1>11 DEF AlwaysBefore
<1>12. \A b \in Elements(workTree'), d \in Packages \ UpToDate :
            AlwaysBefore(d, b)' => Before(workTree', d, b)
    BY <1>9, <1>10, <1>11
<1> QED
    BY <1>8, <1>9, <1>12 DEF Ordered, InTreeOrder

LEMMA OrderedStep ==
    ASSUME TreesOnce
    PROVE  TypeOK /\ PatchOnly /\ Ordered /\ [Next]_vars => Ordered'
<1> SUFFICES ASSUME TypeOK, PatchOnly, Ordered, [Next]_vars PROVE Ordered'
    OBVIOUS
<1> DEFINE Other == action' = "BUILDPATCH" \/ UNCHANGED <<trees, action, workTree>>
<1>1. CASE Other
    BY <1>1 DEF Ordered, InTreeOrder, AlwaysBefore
<1>2. CASE \E a \in Actions, r \in Requests : StartSetup(a, r)
  <2>1. workTree' = <<>>
      BY <1>2 DEF StartSetup, EmptyWork
  <2> QED
      BY <2>1 DEF Ordered, InTreeOrder, Elements
<1>3. CASE MergeTree
    BY <1>3, MergeTreeOrder
<1>4. AddPatch => Other
    BY DEF AddPatch, PatchOnly, others
<1>5. StartScripts \/ CopyScript \/ FinishScripts => Other
    BY DEF StartScripts, CopyScript, FinishScripts, others
<1>6. StartMakefile \/ WriteRule \/ FinishMakefile \/ ClearLogs \/ StartCustomAlone => Other
    BY DEF StartMakefile, WriteRule, FinishMakefile, ClearLogs, StartCustomAlone, setupVars, others
<1>7. CopyBuild \/ FinishBuilds \/ (\E l \in BuildLists : ReadBuilds(l)) => Other
    BY DEF CopyBuild, FinishBuilds, ReadBuilds, setupVars, others
<1>8. StartMake \/ SkipTarget \/ RunScript \/ ScriptFails \/ Touch \/ Kill \/ CopyBuildFails => Other
    BY DEF StartMake, SkipTarget, RunScript, ScriptFails, Touch, Kill, CopyBuildFails, setupVars, others
<1>9. UNCHANGED vars => Other
    BY DEF vars, others, setupVars
<1> QED
    BY <1>1, <1>2, <1>3, <1>4, <1>5, <1>6, <1>7, <1>8, <1>9 DEF Next

TreeInv == TypeOK /\ PatchOnly /\ Ordered

LEMMA TreeInvInit == Init => TreeInv
<1> SUFFICES ASSUME Init PROVE TreeInv
    OBVIOUS
<1>1. PatchOnly /\ Ordered
    BY DEF Init, PatchOnly, Ordered, InTreeOrder, Elements
<1> QED
    BY <1>1, InitType DEF TreeInv

LEMMA TreeInvStep ==
    ASSUME TreesOnce
    PROVE  TreeInv /\ [Next]_vars => TreeInv'
BY TypeStep, PatchOnlyStep, OrderedStep DEF TreeInv

\* setup-deps.func keeps the order of the trees: the packages of all of them are
\* in the work tree once, each after what it needs and is not up to date.
THEOREM MergedInOrderHolds ==
    ASSUME TreesOnce
    PROVE  Spec => []MergedInOrder
<1>1. TreeInv => MergedInOrder
    BY DEF TreeInv, Ordered, MergedInOrder
<1> QED
    BY <1>1, TreeInvInit, TreeInvStep, PTL DEF Spec

-------------------------------------------------------------------------------
\* What a package needs is built before it

\* The names of the scripts are in the order of the work tree, and when scripts
\* are copied, all before the rest of the loop have theirs.
NamesFollow ==
    \A i \in 1..Len(copied) : copied[i].name \in Packages =>
        /\ copied[i].name \in Elements(workTree)
        /\ \A d \in Packages \ NoScript : Before(workTree, d, copied[i].name)
              => \E j \in 1..(i - 1) : copied[j].name = d

CopiedUpTo(k) ==
    /\ Len(todo) = Len(workTree) - k
    /\ \A m \in 1..Len(todo) : todo[m] = workTree[k + m]
    /\ \A m \in 1..k : workTree[m] \notin NoScript
          => \E j \in 1..Len(copied) : copied[j].name = workTree[m]

Following ==
    action # "BUILDPATCH" =>
        /\ NamesFollow
        /\ pc = "scripts" => \E k \in 0..Len(workTree) : CopiedUpTo(k)

\* A script more: what its name comes after was there before.
LEMMA OneMoreFollows ==
    ASSUME TypeOK, NamesFollow, NEW s \in Script, copied' = Append(copied, s), workTree' = workTree,
           s.name \in Packages =>
               /\ s.name \in Elements(workTree)
               /\ \A d \in Packages \ NoScript : Before(workTree, d, s.name)
                     => \E j \in 1..Len(copied) : copied[j].name = d
    PROVE  NamesFollow'
<1>1. copied \in Seq(Script)
    BY DEF TypeOK, TypeFiles
<1>2. /\ Len(copied') = Len(copied) + 1 /\ Len(copied) \in Nat
      /\ copied'[Len(copied) + 1] = s
      /\ \A i \in 1..Len(copied) : copied'[i] = copied[i]
    BY <1>1
<1> SUFFICES ASSUME NEW i \in 1..Len(copied'), copied'[i].name \in Packages
             PROVE  /\ copied'[i].name \in Elements(workTree)
                    /\ \A d \in Packages \ NoScript : Before(workTree, d, copied'[i].name)
                          => \E j \in 1..(i - 1) : copied'[j].name = d
    BY DEF NamesFollow
<1>3. CASE i \in 1..Len(copied)
  <2>1. copied'[i] = copied[i] /\ \A j \in 1..(i - 1) : copied'[j] = copied[j]
      BY <1>2, <1>3
  <2> QED
      BY <1>3, <2>1 DEF NamesFollow
<1>4. CASE i = Len(copied) + 1
  <2>1. copied'[i] = s /\ i - 1 = Len(copied)
      BY <1>2, <1>4
  <2> QED
      BY <1>2, <2>1
<1> QED
    BY <1>2, <1>3, <1>4

LEMMA StartScriptsFollow ==
    ASSUME TypeOK, PatchOnly, Numbered, StartScripts
    PROVE  Following'
<1>1. /\ copied' = <<>> /\ workTree' = workTree /\ todo' = workTree
    BY DEF StartScripts, Numbered
<1>2. workTree \in Seq(Names) /\ Len(workTree) \in Nat
    BY DEF TypeOK, TypeCommand
<1>3. NamesFollow'
    BY <1>1 DEF NamesFollow
<1>4. CopiedUpTo(0)'
    BY <1>1, <1>2 DEF CopiedUpTo
<1> QED
    BY <1>1, <1>2, <1>3, <1>4 DEF Following

LEMMA CopyScriptFollows ==
    ASSUME TypeOK, Ordered, Following, CopyScript
    PROVE  Following'
<1> SUFFICES ASSUME action # "BUILDPATCH"
             PROVE  NamesFollow' /\ \E k \in 0..Len(workTree') : CopiedUpTo(k)'
    BY DEF Following, CopyScript, others
<1>1. /\ workTree' = workTree /\ todo' = Tail(todo) /\ todo # <<>> /\ pc = "scripts"
      /\ \/ Head(todo) \in NoScript /\ copied' = copied
         \/ copied' = Append(copied, [order |-> Numeral(cnt), name |-> Head(todo)])
    BY DEF CopyScript, PutScript
<1>2. /\ copied \in Seq(Script) /\ workTree \in Seq(Names) /\ todo \in Seq(Names) /\ cnt \in Nat
    BY DEF TypeOK, TypeCommand, TypeFiles
<1>3. NamesFollow /\ \E k \in 0..Len(workTree) : CopiedUpTo(k)
    BY <1>1 DEF Following
<1>4. PICK k \in 0..Len(workTree) : CopiedUpTo(k)
    BY <1>3
<1> DEFINE p == Head(todo)
<1>5. /\ Len(todo) \in Nat /\ Len(todo) > 0 /\ p = todo[1] /\ p \in Names
      /\ Len(Tail(todo)) = Len(todo) - 1
      /\ \A m \in 1..(Len(todo) - 1) : Tail(todo)[m] = todo[m + 1]
    BY <1>1, <1>2
<1>6. /\ k \in Nat /\ Len(workTree) \in Nat /\ Len(copied) \in Nat
      /\ k + 1 \in 1..Len(workTree) /\ p = workTree[k + 1]
    BY <1>2, <1>4, <1>5 DEF CopiedUpTo
<1> HIDE DEF p
<1>7. /\ Len(todo') = Len(workTree') - (k + 1)
      /\ \A m \in 1..Len(todo') : todo'[m] = workTree'[(k + 1) + m]
  <2>1. Len(todo') = Len(workTree') - (k + 1)
      BY <1>1, <1>4, <1>5, <1>6 DEF CopiedUpTo
  <2>2. ASSUME NEW m \in 1..Len(todo') PROVE todo'[m] = workTree'[(k + 1) + m]
    <3>1. m \in 1..(Len(todo) - 1) /\ m + 1 \in 1..Len(todo)
        BY <1>1, <1>5
    <3>2. todo'[m] = todo[m + 1]
        BY <1>1, <1>5, <3>1
    <3>3. todo[m + 1] = workTree[k + (m + 1)]
        BY <1>4, <3>1 DEF CopiedUpTo
    <3>4. k + (m + 1) = (k + 1) + m
        BY <1>6, <3>1
    <3> QED
        BY <1>1, <3>2, <3>3, <3>4
  <2> QED
      BY <2>1, <2>2
<1>8. CASE p \in NoScript /\ copied' = copied
  <2>1. NamesFollow'
      BY <1>1, <1>3, <1>8 DEF NamesFollow
  <2>2. ASSUME NEW m \in 1..(k + 1), workTree[m] \notin NoScript
        PROVE  \E j \in 1..Len(copied) : copied[j].name = workTree[m]
    <3>1. m \in 1..k
        BY <1>6, <1>8, <2>2
    <3> QED
        BY <1>4, <2>2, <3>1 DEF CopiedUpTo
  <2>3. CopiedUpTo(k + 1)'
      BY <1>1, <1>7, <1>8, <2>2 DEF CopiedUpTo
  <2> QED
      BY <1>1, <1>6, <2>1, <2>3
<1>9. CASE copied' = Append(copied, [order |-> Numeral(cnt), name |-> p])
  <2> DEFINE s == [order |-> Numeral(cnt), name |-> p]
  <2>1. s \in Script /\ s.name = p
      BY <1>2, <1>5, NumeralType DEF Script
  <2> HIDE DEF s
  <2>2. p \in Elements(workTree)
      BY <1>6 DEF Elements
  <2>3. ASSUME NEW d \in Packages \ NoScript, Before(workTree, d, p)
        PROVE  \E j \in 1..Len(copied) : copied[j].name = d
    <3>1. PICK i, j \in 1..Len(workTree) : i < j /\ workTree[i] = d /\ workTree[j] = p
        BY <2>3 DEF Before
    <3>2. j = k + 1
        BY <1>6, <3>1 DEF Ordered, InTreeOrder
    <3>3. i \in 1..k
        BY <1>6, <3>1, <3>2
    <3> QED
        BY <1>4, <3>1, <3>3 DEF CopiedUpTo
  <2>4. NamesFollow'
      BY <1>1, <1>3, <1>9, <2>1, <2>2, <2>3, OneMoreFollows DEF s
  <2>5. /\ Len(copied') = Len(copied) + 1 /\ copied'[Len(copied) + 1] = s
        /\ \A i \in 1..Len(copied) : copied'[i] = copied[i]
      BY <1>2, <1>9, <2>1 DEF s
  <2>6. ASSUME NEW m \in 1..(k + 1), workTree[m] \notin NoScript
        PROVE  \E j \in 1..Len(copied') : copied'[j].name = workTree[m]
    <3>1. CASE m \in 1..k
      <4>1. PICK j \in 1..Len(copied) : copied[j].name = workTree[m]
          BY <1>4, <2>6, <3>1 DEF CopiedUpTo
      <4>2. j \in 1..Len(copied') /\ copied'[j] = copied[j]
          BY <1>6, <2>5
      <4> QED
          BY <4>1, <4>2
    <3>2. CASE m = k + 1
      <4>1. Len(copied) + 1 \in 1..Len(copied')
          BY <1>6, <2>5
      <4> QED
          BY <1>6, <2>1, <2>5, <3>2, <4>1
    <3> QED
        BY <1>6, <3>1, <3>2
  <2>7. CopiedUpTo(k + 1)'
      BY <1>1, <1>7, <2>6 DEF CopiedUpTo
  <2> QED
      BY <1>1, <1>6, <2>4, <2>7
<1> QED
    BY <1>1, <1>8, <1>9 DEF p

\* A custom build has no package's name.
LEMMA CopyBuildFollows ==
    ASSUME TypeOK, Numbered, Following, CopyBuild
    PROVE  Following'
<1> SUFFICES ASSUME action # "BUILDPATCH" PROVE NamesFollow'
    BY DEF Following, CopyBuild, others
<1>1. /\ workTree' = workTree /\ todo # <<>> /\ todo \in Seq(Builds)
      /\ \/ copied' = copied
         \/ copied' = Append(copied, [order |-> Numeral(cnt), name |-> Head(todo)])
    BY DEF CopyBuild, PutScript, Numbered
<1>2. NamesFollow /\ cnt \in Nat
    BY DEF Following, TypeOK, TypeCommand, TypeFiles
<1>3. CASE copied' = copied
    BY <1>1, <1>2, <1>3 DEF NamesFollow
<1>4. CASE copied' = Append(copied, [order |-> Numeral(cnt), name |-> Head(todo)])
  <2> DEFINE s == [order |-> Numeral(cnt), name |-> Head(todo)]
  <2>1. Head(todo) \in Builds
      BY <1>1
  <2>2. s \in Script /\ s.name \notin Packages
      BY <1>2, <2>1, NumeralType, WorkPlanAssumption DEF Script, Names
  <2> HIDE DEF s
  <2> QED
      BY <1>1, <1>2, <1>4, <2>2, OneMoreFollows DEF s
<1> QED
    BY <1>1, <1>3, <1>4

LEMMA FollowingStep ==
    TypeOK /\ PatchOnly /\ Numbered /\ Ordered /\ Following /\ [Next]_vars => Following'
<1> SUFFICES ASSUME TypeOK, PatchOnly, Numbered, Ordered, Following, [Next]_vars PROVE Following'
    OBVIOUS
<1> DEFINE Other == \/ action' = "BUILDPATCH"
                    \/ UNCHANGED <<action, workTree, copied>> /\ pc' # "scripts"
<1>1. CASE Other
    BY <1>1 DEF Following, NamesFollow
<1>2. CASE \E a \in Actions, r \in Requests : StartSetup(a, r)
  <2>1. copied' = <<>> /\ pc' # "scripts"
      BY <1>2 DEF StartSetup, EmptyWork
  <2> QED
      BY <2>1 DEF Following, NamesFollow
<1>3. CASE MergeTree
  <2>1. copied' = <<>> /\ pc' # "scripts"
      BY <1>3 DEF MergeTree, Fail, Numbered
  <2> QED
      BY <2>1 DEF Following, NamesFollow
<1>4. AddPatch => Other
    BY DEF AddPatch, PatchOnly, others
<1>5. StartScripts \/ CopyScript \/ CopyBuild => Following'
    BY StartScriptsFollow, CopyScriptFollows, CopyBuildFollows
<1>6. StartMakefile \/ WriteRule \/ FinishMakefile \/ ClearLogs \/ StartCustomAlone => Other
    BY DEF StartMakefile, WriteRule, FinishMakefile, ClearLogs, StartCustomAlone, Fail, setupVars, others
<1>7. FinishScripts \/ FinishBuilds \/ (\E l \in BuildLists : ReadBuilds(l)) => Other
    BY DEF FinishScripts, FinishBuilds, ReadBuilds, Fail, setupVars, others
<1>8. StartMake \/ SkipTarget \/ RunScript \/ ScriptFails \/ Touch \/ Kill \/ CopyBuildFails => Other
    BY DEF StartMake, SkipTarget, RunScript, ScriptFails, Touch, Kill, CopyBuildFails,
       NextRule, Fail, setupVars, others
<1>9. CASE UNCHANGED vars
  <2>1. UNCHANGED <<action, workTree, copied, pc, todo>>
      BY <1>9 DEF vars, others, setupVars
  <2>2. NamesFollow' <=> NamesFollow
      BY <2>1 DEF NamesFollow
  <2>3. \A k : CopiedUpTo(k)' <=> CopiedUpTo(k)
      BY <2>1 DEF CopiedUpTo
  <2> QED
      BY <2>1, <2>2, <2>3 DEF Following
<1> QED
    BY <1>1, <1>2, <1>3, <1>4, <1>5, <1>6, <1>7, <1>8, <1>9 DEF Next

\* The place of the script in the order of copying: its needs come before it.
LEMMA NeedsImplied ==
    OrderInv /\ TreeInv /\ Following /\ ThreeDigits => NeedsBuilt
<1> DEFINE b == makefile.chain[at].name
<1> SUFFICES ASSUME OrderInv, TreeInv, Following, ThreeDigits,
                    pc = "touch", action # "BUILDPATCH", ~Misnumbered,
                    NEW d \in Packages \ (UpToDate \cup NoScript),
                    b \in Packages, AlwaysBefore(d, b)
             PROVE  \E s \in done : s.name = d
    BY DEF NeedsBuilt
<1>1. /\ TypeOK /\ Growing(copied) /\ ChainOfCopied /\ TargetsOfCopied
      /\ NamesFollow /\ InTreeOrder /\ BuildsInOrder
    BY OrderImplied DEF OrderInv, InStep, Good, Following, TreeInv, Ordered
<1>2. PICK i \in 1..Len(copied) : copied[i] = makefile.chain[at]
    BY <1>1, AtRule
<1>3. b \in Elements(workTree)
    BY <1>1, <1>2 DEF NamesFollow
<1>4. Before(workTree, d, b)
    BY <1>1, <1>3 DEF InTreeOrder
<1>5. PICK j \in 1..(i - 1) : copied[j].name = d
    BY <1>1, <1>2, <1>4 DEF NamesFollow
<1>6. copied[j] \in done
    BY <1>1, <1>2 DEF BuildsInOrder
<1> QED
    BY <1>5, <1>6

\* From the trees to the builds: when the script of a package has been run, so
\* have those of all that it needs, whatever failed or was killed before, as
\* long as the trees list no package twice and the numbers have three digits.
THEOREM NeedsBuiltHolds ==
    ASSUME TreesOnce
    PROVE  Spec => [](ThreeDigits => NeedsBuilt)
<1> DEFINE IInv == OrderInv /\ TreeInv /\ Following
<1>1. Init => IInv
  <2>1. Init => Following
      BY DEF Init, Following, NamesFollow
  <2> QED
      BY <2>1, OrderInvInit, TreeInvInit
<1>2. IInv /\ [Next]_vars => IInv'
    BY OrderInvStep, TreeInvStep, FollowingStep DEF OrderInv, TreeInv
<1>3. IInv => (ThreeDigits => NeedsBuilt)
    BY NeedsImplied
<1> QED
    BY <1>1, <1>2, <1>3, PTL DEF Spec
===============================================================================
