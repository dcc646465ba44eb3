----------------------------- MODULE DepTreeProofs -----------------------------
(***************************************************************************)
(* Proofs about DepTree, for any packages, .deps files, names, requests    *)
(* and interruptions: the types, that no tree lists a package twice, the   *)
(* build order, and that a tree whose walk ended is complete.              *)
(*                                                                         *)
(* BuildOrder rests on Walk.  When a package is written, all it needs to   *)
(* be built is in PROCD.  What is in PROCD is never walked into again, so  *)
(* a need that is written later must be waiting on the stack by then, and  *)
(* everything on the stack reaches the package on top of it.               *)
(*                                                                         *)
(* TreesComplete rests on Covered: what is in PROCD has been read to the   *)
(* end or is on the stack, and a need of what was read is in PROCD.        *)
(*                                                                         *)
(* RunsShrink is why a run ends: the turns it may still take, one for each *)
(* line that can still be read and one for the end of each file, are       *)
(* finitely many, and each step takes one of them and adds none.           *)
(***************************************************************************)
EXTENDS DepTree, SequenceTheorems, FunctionTheorems, FiniteSetTheorems, TLAPS

USE DepTreeAssumption DEF files, walk, history

-------------------------------------------------------------------------------
\* Reachability

LEMMA ReachesSelf == ASSUME NEW p PROVE Reaches(p, p)
BY DEF Reaches

LEMMA ReachesNeed ==
    ASSUME NEW p, NEW q, NEW r, Reaches(p, q), r \in Needs(q)
    PROVE  Reaches(p, r)
BY DEF Reaches, Closed

-------------------------------------------------------------------------------
\* The stack

Frame == [file : deps.present, line : Nat \ {0}]

LEMMA TopType ==
    ASSUME stack \in Seq(Frame), stack # <<>>
    PROVE  /\ Len(stack) \in Nat \ {0}
           /\ Top = stack[Len(stack)]
           /\ Top \in Frame
           /\ Top.file \in deps.present
           /\ Top.line \in Nat \ {0}
<1>1. Len(stack) \in Nat \ {0}
    OBVIOUS
<1>2. Top \in Frame
    BY <1>1 DEF Top
<1> QED
    BY <1>1, <1>2 DEF Top, Frame

LEMMA FrameType ==
    ASSUME stack \in Seq(Frame)
    PROVE  \A i \in 1..Len(stack) : stack[i].file \in deps.present /\ stack[i].line \in Nat \ {0}
<1>1. \A i \in 1..Len(stack) : stack[i] \in Frame
    OBVIOUS
<1> QED
    BY <1>1 DEF Frame

LEMMA NextLineType ==
    ASSUME stack \in Seq(Frame), stack # <<>>
    PROVE  /\ NextLine \in Seq(Frame)
           /\ Len(NextLine) = Len(stack)
           /\ \A i \in 1..Len(stack) : NextLine[i].file = stack[i].file
           /\ \A i \in 1..Len(stack) : NextLine[i].line =
                 IF i = Len(stack) THEN stack[i].line + 1 ELSE stack[i].line
<1>1. Top.line + 1 \in Nat \ {0}
    BY TopType
<1>2. \A i \in 1..Len(stack) : NextLine[i] =
          IF i = Len(stack) THEN [stack[i] EXCEPT !.line = @ + 1] ELSE stack[i]
    BY DEF NextLine
<1>3. Len(NextLine) = Len(stack) /\ NextLine \in Seq(Frame)
    BY <1>1, TopType DEF NextLine, Frame
<1> QED
    BY <1>2, <1>3, TopType DEF Frame

LEMMA PushType ==
    ASSUME stack \in Seq(Frame), stack # <<>>, NEW q \in deps.present
    PROVE  LET new == Append(NextLine, [file |-> q, line |-> 1])
           IN  /\ new \in Seq(Frame)
               /\ Len(new) = Len(stack) + 1
               /\ \A i \in 1..Len(stack) : new[i] = NextLine[i]
               /\ new[Len(stack) + 1] = [file |-> q, line |-> 1]
<1>1. [file |-> q, line |-> 1] \in Frame
    BY DEF Frame
<1> QED
    BY <1>1, NextLineType

LEMMA PopType ==
    ASSUME stack \in Seq(Frame), stack # <<>>
    PROVE  LET new == SubSeq(stack, 1, Len(stack) - 1)
           IN  /\ new \in Seq(Frame)
               /\ Len(new) = Len(stack) - 1
               /\ \A i \in 1..(Len(stack) - 1) : new[i] = stack[i]
<1>1. Len(stack) \in Nat \ {0} /\ \A i \in 1..Len(stack) : stack[i] \in Frame
    OBVIOUS
<1>2. DEFINE n == Len(stack) - 1
<1>3. n \in Nat /\ n <= Len(stack)
    BY <1>1
<1>4. \A i \in 1..n : stack[i] \in Frame
    BY <1>1, <1>3
<1>5. SubSeq(stack, 1, n) = [i \in 1..n |-> stack[i]]
    BY <1>1, <1>3, Z3
<1> HIDE DEF n
<1>6. [i \in 1..n |-> stack[i]] \in Seq(Frame) /\ Len([i \in 1..n |-> stack[i]]) = n
    BY <1>3, <1>4
<1> QED
    BY <1>5, <1>6 DEF n

-------------------------------------------------------------------------------
\* Types

LEMMA InitTypeOK == Init => TypeOK
<1> SUFFICES ASSUME Init PROVE TypeOK
    OBVIOUS
<1>1. deps \in DepFileType
    BY DEF Init
<1>2. stack \in Seq(Frame) /\ todo \in Seq(Packages) /\ request \in Seq(Packages)
    BY DEF Init
<1>3. trees \in [Packages -> SUBSET [name : Packages, at : Nat]]
    BY DEF Init
<1> QED
    BY <1>1, <1>2, <1>3 DEF Init, TypeOK, Frame

LEMMA StartTypeOK ==
    ASSUME TypeOK, NEW q \in Requests, Start(q)
    PROVE  TypeOK'
<1>1. todo' \in Seq(Packages) /\ request' \in Seq(Packages)
    BY DEF Start
<1>2. stack' = <<>> /\ root' = NoRoot
    BY DEF Start, TypeOK
<1> QED
    BY <1>1, <1>2 DEF Start, TypeOK

LEMMA SkipRootTypeOK == ASSUME TypeOK, SkipRoot PROVE TypeOK'
<1>1. todo' \in Seq(Packages)
    BY DEF SkipRoot, NextRoot, TypeOK
<1> QED
    BY <1>1 DEF SkipRoot, TypeOK

LEMMA BeginRootTypeOK == ASSUME TypeOK, BeginRoot PROVE TypeOK'
<1>1. Head(todo) \in Packages
    BY DEF BeginRoot, TypeOK
<1>2. CASE Head(todo) \in deps.present
  <2>1. [file |-> Head(todo), line |-> 1] \in Frame
      BY <1>2 DEF Frame
  <2>2. stack' = <<[file |-> Head(todo), line |-> 1]>>
      BY <1>2 DEF BeginRoot
  <2>3. stack' \in Seq(Frame) /\ stack' # <<>>
      BY <2>1, <2>2
  <2> QED
      BY <1>1, <1>2, <2>3 DEF BeginRoot, ResetProcd, TypeOK, Frame
<1>3. CASE Head(todo) \notin deps.present
    BY <1>1, <1>3 DEF BeginRoot, ResetProcd, TypeOK
<1> QED
    BY <1>2, <1>3

LEMMA WalkIntoTypeOK == ASSUME TypeOK, WalkInto PROVE TypeOK'
<1> DEFINE q == DepAt(Top.file, Top.line)
<1>1. stack \in Seq(Frame) /\ stack # <<>>
    BY DEF WalkInto, AtDep, TypeOK, Frame
<1>2. q \in deps.present
    BY DEF WalkInto
<1>3. stack' \in Seq(Frame) /\ stack' # <<>>
    BY <1>1, <1>2, PushType DEF WalkInto
<1> QED
    BY <1>2, <1>3 DEF WalkInto, AtDep, NoteDep, TypeOK, Frame

LEMMA SkipDepTypeOK == ASSUME TypeOK, SkipDep PROVE TypeOK'
<1>1. stack \in Seq(Frame) /\ stack # <<>>
    BY DEF SkipDep, AtDep, TypeOK, Frame
<1>2. stack' \in Seq(Frame) /\ stack' # <<>>
    BY <1>1, NextLineType DEF SkipDep
<1> QED
    BY <1>2 DEF SkipDep, AtDep, TypeOK, Frame

LEMMA WriteSelfTypeOK == ASSUME TypeOK, WriteSelf PROVE TypeOK'
<1>1. stack \in Seq(Frame) /\ stack # <<>>
    BY DEF WriteSelf, TypeOK, Frame
<1>2. stack' \in Seq(Frame) /\ stack' # <<>>
    BY <1>1, NextLineType DEF WriteSelf
<1>3. Top.file \in Packages /\ root \in Packages
    BY <1>1, TopType DEF WriteSelf, TypeOK, DepFileType
<1>4. [name |-> Top.file, at |-> written + 1] \in [name : Packages, at : Nat]
    BY <1>3 DEF TypeOK
<1>5. /\ trees' \in [Packages -> SUBSET [name : Packages, at : Nat]]
      /\ written' \in Nat
  <2>1. CASE Wanted(Top.file)
    <3> DEFINE new == (trees[root] \ Dropped(Top.file))
                        \cup {[name |-> Top.file, at |-> written + 1]}
    <3>1. new \in SUBSET [name : Packages, at : Nat]
        BY <1>3, <1>4 DEF TypeOK
    <3>2. trees' = [trees EXCEPT ![root] = new] /\ written' = written + 1
        BY <2>1 DEF WriteSelf
    <3> HIDE DEF new
    <3> QED
        BY <1>3, <3>1, <3>2 DEF TypeOK
  <2>2. CASE ~Wanted(Top.file)
      BY <2>2 DEF WriteSelf, TypeOK
  <2> QED
      BY <2>1, <2>2
<1> QED
    BY <1>2, <1>5 DEF WriteSelf, TypeOK, Frame

LEMMA ReturnTypeOK == ASSUME TypeOK, Return PROVE TypeOK'
<1>1. stack \in Seq(Frame) /\ stack # <<>>
    BY DEF Return, TypeOK, Frame
<1>2. stack' \in Seq(Frame) /\ Len(stack') = Len(stack) - 1
    BY <1>1, PopType DEF Return
<1>3. CASE Len(stack) > 1
  <2>1. stack' # <<>>
      BY <1>1, <1>2, <1>3
  <2> QED
      BY <1>2, <1>3, <2>1 DEF Return, EndOfTree, TypeOK, Frame
<1>4. CASE ~(Len(stack) > 1)
  <2>1. stack' = <<>>
      BY <1>1, <1>2, <1>4
  <2>2. todo \in Seq(Packages) /\ todo # <<>>
      BY DEF Return, TypeOK
  <2>3. todo' \in Seq(Packages)
      BY <1>4, <2>2, HeadTailProperties DEF Return, EndOfTree, NextRoot
  <2> QED
      BY <1>4, <2>1, <2>3 DEF Return, EndOfTree, TypeOK, Frame
<1> QED
    BY <1>3, <1>4

LEMMA FinishTypeOK == ASSUME TypeOK, Finish PROVE TypeOK'
BY DEF Finish, TypeOK

LEMMA CrashTypeOK == ASSUME TypeOK, Crash PROVE TypeOK'
<1>1. torn' \subseteq made
    BY DEF Crash, TypeOK
<1> QED
    BY <1>1 DEF Crash, TypeOK

LEMMA NextTypeOK == TypeOK /\ [Next]_vars => TypeOK'
<1> SUFFICES ASSUME TypeOK, [Next]_vars PROVE TypeOK'
    OBVIOUS
<1>1. CASE UNCHANGED vars
    BY <1>1 DEF vars, TypeOK
<1> QED
    BY <1>1, StartTypeOK, SkipRootTypeOK, BeginRootTypeOK, FinishTypeOK, SkipDepTypeOK,
       WalkIntoTypeOK, WriteSelfTypeOK, ReturnTypeOK, CrashTypeOK DEF Next, Step

\* The script's files and variables have their types, for every instance.
THEOREM TypeOKHolds == Spec => []TypeOK
BY InitTypeOK, NextTypeOK, PTL DEF Spec

-------------------------------------------------------------------------------
\* Duplicates

LEMMA WriteSelfNoDuplicates ==
    ASSUME TypeOK, NoDuplicates, WriteSelf
    PROVE  NoDuplicates'
<1> DEFINE n == Top.file
           line == [name |-> n, at |-> written + 1]
           kept == trees[root] \ Dropped(n)
<1>1. n \in Packages /\ root \in Packages
  <2>1. stack \in Seq(Frame) /\ stack # <<>>
      BY DEF WriteSelf, TypeOK, Frame
  <2> QED
      BY <2>1, TopType DEF WriteSelf, TypeOK, DepFileType
<1>2. CASE ~Wanted(n)
    BY <1>2 DEF WriteSelf, NoDuplicates
<1>3. CASE Wanted(n)
  <2>1. trees' = [trees EXCEPT ![root] = kept \cup {line}]
      BY <1>3 DEF WriteSelf
  <2>2. \A l \in kept : l.name # n
      BY <1>1, <1>3 DEF Wanted, Names, Dropped
  <2>3. \A p \in Packages : trees'[p] = IF p = root THEN kept \cup {line} ELSE trees[p]
      BY <1>1, <2>1 DEF TypeOK
  <2>4. kept \subseteq trees[root] /\ line.name = n
      OBVIOUS
  <2> HIDE DEF kept, line, n
  <2>5. \A l, m \in kept \cup {line} : l.name = m.name => l = m
      BY <1>1, <2>2, <2>4 DEF NoDuplicates
  <2> QED
      BY <2>3, <2>5 DEF NoDuplicates
<1> QED
    BY <1>2, <1>3

LEMMA NextNoDuplicates == TypeOK /\ NoDuplicates /\ [Next]_vars => NoDuplicates'
<1> SUFFICES ASSUME TypeOK, NoDuplicates, [Next]_vars PROVE NoDuplicates'
    OBVIOUS
<1>1. CASE WriteSelf
    BY <1>1, WriteSelfNoDuplicates
<1>2. CASE ~WriteSelf
  <2>1. trees' = trees
      BY <1>2 DEF Next, Step, vars, Start, SkipRoot, BeginRoot, Finish, SkipDep, WalkInto,
                  Return, Crash
  <2> QED
      BY <2>1 DEF NoDuplicates
<1> QED
    BY <1>1, <1>2

\* No tree lists a package twice, for every instance: the check before the
\* write keeps out what is there, and at the root's own line the substitution
\* takes out what is there before the root is appended.
THEOREM NoDuplicatesHolds == Spec => []NoDuplicates
<1>1. Init => NoDuplicates
    BY DEF Init, NoDuplicates
<1> QED
    BY <1>1, NextNoDuplicates, TypeOKHolds, PTL DEF Spec

-------------------------------------------------------------------------------
\* The build order

\* A tree not yet begun is empty.
Fresh == \A p \in Packages \ made : trees[p] = {}

\* Each line has the moment of its writing.
Stamped == \A l \in trees[root] : l.at <= written

\* A file on the stack reaches the files above it.
Chained ==
    \A i, j \in 1..Len(stack) : i <= j => Reaches(stack[i].file, stack[j].file)

\* The dependencies read so far are in PROCD.
Met ==
    \A i \in 1..Len(stack) : \A k \in 1..(stack[i].line - 1) :
        LET p == stack[i].file
        IN  /\ k <= LineCount(p)
            /\ k # SelfLine(p)
            /\ DepAt(p, k) \in deps.present
            => DepAt(p, k) \in procd

\* What a package in the tree needs to be built has been walked into; if it is
\* still to be written, it reaches that package.
Waiting ==
    \A l \in trees[root] : \A q \in Elements(deps.build[l.name]) \cap deps.present :
        /\ q \in procd
        /\ \A i \in 1..Len(stack) :
              stack[i].file = q /\ stack[i].line <= SelfLine(q) => Reaches(q, l.name)

Walk ==
    /\ Fresh
    /\ phase = "tree" => Stamped /\ Chained /\ Met /\ Waiting

LEMMA LineType ==
    ASSUME TypeOK, NEW p \in Packages
    PROVE  SelfLine(p) \in Nat /\ LineCount(p) \in Nat
<1>1. deps.build[p] \in Seq(Packages) /\ deps.runtime[p] \in Seq(Packages)
    BY DEF TypeOK, DepFileType
<1> DEFINE b == Len(deps.build[p])
           r == Len(deps.runtime[p])
<1>2. b \in Nat /\ r \in Nat
    BY <1>1, LenProperties
<1>3. SelfLine(p) = b + 1 /\ LineCount(p) = b + 1 + r
    BY DEF SelfLine, LineCount
<1> HIDE DEF b, r
<1> QED
    BY <1>2, <1>3

LEMMA SameDeps ==
    ASSUME deps' = deps
    PROVE  /\ \A x, y : Reaches(x, y)' <=> Reaches(x, y)
           /\ \A x : LineCount(x)' = LineCount(x)
           /\ \A x : SelfLine(x)' = SelfLine(x)
           /\ \A x, k : DepAt(x, k)' = DepAt(x, k)
<1>1. \A x : Needs(x)' = Needs(x)
    BY DEF Needs
<1>2. \A S : Closed(S)' <=> Closed(S)
    BY <1>1 DEF Closed
<1>3. \A x, y : Reaches(x, y)' <=> Reaches(x, y)
    BY <1>2 DEF Reaches
<1> QED
    BY <1>3 DEF LineCount, SelfLine, DepAt

LEMMA InitWalk == Init => Walk /\ BuildOrder
BY DEF Init, Walk, Fresh, BuildOrder

LEMMA IdleWalk ==
    ASSUME TypeOK, Walk,
           NEW q \in Requests, Start(q) \/ SkipRoot \/ Finish \/ Crash
    PROVE  Walk'
<1>1. phase' # "tree" /\ made' = made /\ trees' = trees
    BY DEF Start, SkipRoot, Finish, Crash
<1> QED
    BY <1>1 DEF Walk, Fresh

LEMMA BeginRootWalk == ASSUME TypeOK, Walk, BeginRoot PROVE Walk'
<1>1. Fresh'
    BY DEF BeginRoot, Walk, Fresh
<1>2. CASE phase' = "tree"
  <2> DEFINE r == Head(todo)
  <2>1. stack' = <<[file |-> r, line |-> 1]>> /\ root' = r /\ deps' = deps /\ trees' = trees
      BY <1>2 DEF BeginRoot
  <2>2. r \in Packages
      BY DEF BeginRoot, TypeOK
  <2>3. trees'[root'] = {}
      BY <2>1, <2>2 DEF Walk, Fresh, BeginRoot
  <2>4. Len(stack') = 1 /\ stack'[1].file = r /\ stack'[1].line = 1
      BY <2>1
  <2>5. Chained'
      BY <2>1, <2>4, ReachesSelf, SameDeps DEF Chained
  <2>6. Met'
      BY <2>4 DEF Met
  <2> QED
      BY <1>1, <2>3, <2>5, <2>6 DEF Walk, Stamped, Waiting
<1> QED
    BY <1>1, <1>2 DEF Walk

\* Lines only go on: a frame that is before its own line was before it.
LEMMA NextLineWaiting ==
    ASSUME TypeOK, stack \in Seq(Frame), stack # <<>>
    PROVE  /\ Len(NextLine) = Len(stack)
           /\ \A i \in 1..Len(stack), q \in deps.present :
                 NextLine[i].file = q /\ NextLine[i].line <= SelfLine(q)
                 => stack[i].file = q /\ stack[i].line <= SelfLine(q)
<1> SUFFICES ASSUME NEW i \in 1..Len(stack), NEW q \in deps.present,
                    NextLine[i].file = q, NextLine[i].line <= SelfLine(q)
             PROVE  stack[i].file = q /\ stack[i].line <= SelfLine(q)
    BY NextLineType
<1>1. SelfLine(q) \in Nat
    BY LineType DEF TypeOK, DepFileType
<1>2. stack[i].line \in Nat
    BY FrameType
<1>3. NextLine[i].line \in {stack[i].line, stack[i].line + 1} /\ NextLine[i].file = stack[i].file
    BY NextLineType
<1> QED
    BY <1>1, <1>2, <1>3

LEMMA SkipDepWalk == ASSUME TypeOK, Walk, SkipDep PROVE Walk'
<1>1. stack \in Seq(Frame) /\ stack # <<>>
    BY DEF SkipDep, AtDep, TypeOK, Frame
<1>2. /\ deps' = deps /\ made' = made /\ trees' = trees /\ root' = root
      /\ written' = written /\ procd' = procd /\ stack' = NextLine
    BY DEF SkipDep
<1>3. Stamped /\ Chained /\ Met /\ Waiting /\ Fresh
    BY DEF SkipDep, AtDep, Walk
<1>4. Fresh' /\ Stamped'
    BY <1>2, <1>3 DEF Fresh, Stamped
<1>5. Chained'
    BY <1>1, <1>2, <1>3, NextLineType, SameDeps DEF Chained
<1>6. Met'
  <2> SUFFICES ASSUME NEW i \in 1..Len(stack), NEW k \in 1..(stack'[i].line - 1),
                      k <= LineCount(stack[i].file), k # SelfLine(stack[i].file),
                      DepAt(stack[i].file, k) \in deps.present
               PROVE  DepAt(stack[i].file, k) \in procd
      BY <1>1, <1>2, NextLineType, SameDeps DEF Met
  <2>1. CASE k \in 1..(stack[i].line - 1)
      BY <1>3, <2>1 DEF Met
  <2>2. CASE k \notin 1..(stack[i].line - 1)
    <3>1. i = Len(stack) /\ k = stack[i].line
        BY <1>1, <1>2, <2>2, NextLineType, FrameType
    <3> QED
        BY <1>1, <3>1, TopType DEF SkipDep
  <2> QED
      BY <2>1, <2>2
<1>7. Waiting'
    BY <1>1, <1>2, <1>3, NextLineWaiting, SameDeps DEF Waiting
<1> QED
    BY <1>4, <1>5, <1>6, <1>7 DEF Walk

LEMMA DepIsNeed ==
    ASSUME TypeOK, NEW p \in Packages, NEW k \in Nat \ {0},
           k <= LineCount(p), k # SelfLine(p), DepAt(p, k) \in deps.present
    PROVE  DepAt(p, k) \in Needs(p)
<1> DEFINE b == deps.build[p]
           r == deps.runtime[p]
           q == DepAt(p, k)
<1>1. b \in Seq(Packages) /\ r \in Seq(Packages) /\ Len(b) \in Nat /\ Len(r) \in Nat
  <2>1. b \in Seq(Packages) /\ r \in Seq(Packages)
      BY DEF TypeOK, DepFileType
  <2> HIDE DEF b, r
  <2> QED
      BY <2>1, LenProperties
<1>2. q = IF k < Len(b) + 1 THEN b[k] ELSE r[k - (Len(b) + 1)]
    BY DEF DepAt, SelfLine
<1>3. k <= Len(b) + 1 + Len(r) /\ k # Len(b) + 1
    BY DEF LineCount, SelfLine
<1>4. Needs(p) = (Elements(b) \cup Elements(r)) \cap deps.present
    BY DEF Needs
<1> HIDE DEF b, r, q
<1>5. q \in Elements(b) \cup Elements(r)
  <2>1. CASE k < Len(b) + 1
      BY <1>1, <1>2, <2>1 DEF Elements
  <2>2. CASE ~(k < Len(b) + 1)
    <3>1. k - (Len(b) + 1) \in 1..Len(r)
        BY <1>1, <1>3, <2>2
    <3> QED
        BY <1>2, <2>2, <3>1 DEF Elements
  <2> QED
      BY <2>1, <2>2
<1> QED
    BY <1>4, <1>5 DEF q

LEMMA BuildNeedMet ==
    ASSUME TypeOK, NEW p \in Packages, NEW q \in Elements(deps.build[p])
    PROVE  \E k \in 1..(SelfLine(p) - 1) :
              k <= LineCount(p) /\ k # SelfLine(p) /\ DepAt(p, k) = q
<1> DEFINE b == deps.build[p]
           r == deps.runtime[p]
<1>1. Len(b) \in Nat /\ Len(r) \in Nat
    BY DEF TypeOK, DepFileType
<1>2. PICK k \in 1..Len(b) : q = b[k]
    BY DEF Elements
<1>3. SelfLine(p) = Len(b) + 1 /\ LineCount(p) = Len(b) + 1 + Len(r)
    BY DEF SelfLine, LineCount
<1>4. k < SelfLine(p) => DepAt(p, k) = b[k]
    BY DEF DepAt
<1> HIDE DEF b, r
<1>5. k < SelfLine(p) /\ k \in 1..(SelfLine(p) - 1) /\ k <= LineCount(p) /\ k # SelfLine(p)
    BY <1>1, <1>2, <1>3
<1> QED
    BY <1>2, <1>4, <1>5

LEMMA WalkIntoWalk == ASSUME TypeOK, Walk, WalkInto PROVE Walk'
<1> DEFINE q == DepAt(Top.file, Top.line)
           top == Len(stack)
<1>1. stack \in Seq(Frame) /\ stack # <<>>
    BY DEF WalkInto, AtDep, TypeOK, Frame
<1>2. /\ deps' = deps /\ made' = made /\ trees' = trees /\ root' = root
      /\ written' = written /\ procd' = procd \cup {q}
      /\ q \in deps.present /\ q \notin procd
      /\ stack' = Append(NextLine, [file |-> q, line |-> 1])
    BY DEF WalkInto, NoteDep
<1>3. Stamped /\ Chained /\ Met /\ Waiting /\ Fresh
    BY DEF WalkInto, AtDep, Walk
<1>4. /\ top \in Nat \ {0} /\ Len(stack') = top + 1
      /\ \A i \in 1..top : stack'[i].file = stack[i].file
      /\ \A i \in 1..top : stack'[i].line =
            IF i = top THEN stack[i].line + 1 ELSE stack[i].line
      /\ stack'[top + 1].file = q /\ stack'[top + 1].line = 1
    BY <1>1, <1>2, PushType, NextLineType
<1>5. q \in Needs(stack[top].file)
  <2>1. /\ Top.file \in Packages /\ Top.line \in Nat \ {0}
        /\ Top.line <= LineCount(Top.file) /\ Top.line # SelfLine(Top.file)
      BY <1>1, TopType DEF WalkInto, AtDep, TypeOK, DepFileType
  <2> QED
      BY <1>1, <1>2, <2>1, DepIsNeed, TopType
<1>6. Fresh' /\ Stamped'
    BY <1>2, <1>3 DEF Fresh, Stamped
<1>7. Chained'
  <2> SUFFICES ASSUME NEW i \in 1..(top + 1), NEW j \in 1..(top + 1), i <= j
               PROVE  Reaches(stack'[i].file, stack'[j].file)
      BY <1>2, <1>4, SameDeps DEF Chained
  <2>1. CASE j <= top
      BY <1>3, <1>4, <2>1 DEF Chained
  <2>2. CASE i <= top /\ j = top + 1
    <3>1. Reaches(stack[i].file, stack[top].file)
        BY <1>3, <1>4, <2>2 DEF Chained
    <3> QED
        BY <1>4, <1>5, <2>2, <3>1, ReachesNeed
  <2>3. CASE i = top + 1 /\ j = top + 1
      BY <2>3, ReachesSelf
  <2> QED
      BY <1>4, <2>1, <2>2, <2>3
<1>8. Met'
  <2> SUFFICES ASSUME NEW i \in 1..(top + 1), NEW k \in 1..(stack'[i].line - 1),
                      k <= LineCount(stack'[i].file), k # SelfLine(stack'[i].file),
                      DepAt(stack'[i].file, k) \in deps.present
               PROVE  DepAt(stack'[i].file, k) \in procd \cup {q}
      BY <1>2, <1>4, SameDeps DEF Met
  <2>1. i # top + 1
      BY <1>4
  <2>2. i \in 1..top
      BY <1>4, <2>1
  <2>3. CASE k \in 1..(stack[i].line - 1)
      BY <1>3, <1>4, <2>2, <2>3 DEF Met
  <2>4. CASE k \notin 1..(stack[i].line - 1)
    <3>1. i = top /\ k = stack[i].line
        BY <1>1, <1>4, <2>2, <2>4, FrameType
    <3> QED
        BY <1>1, <1>4, <3>1, TopType
  <2> QED
      BY <2>3, <2>4
<1>9. Waiting'
  <2> SUFFICES ASSUME NEW l \in trees[root], NEW n \in Elements(deps.build[l.name]) \cap deps.present
               PROVE  /\ n \in procd \cup {q}
                      /\ \A i \in 1..(top + 1) :
                            stack'[i].file = n /\ stack'[i].line <= SelfLine(n)
                            => Reaches(n, l.name)
      BY <1>2, <1>4, SameDeps DEF Waiting
  <2>1. n \in procd /\ n # q
      BY <1>2, <1>3 DEF Waiting
  <2>2. ASSUME NEW i \in 1..(top + 1), stack'[i].file = n, stack'[i].line <= SelfLine(n)
        PROVE  Reaches(n, l.name)
    <3>1. i \in 1..top
        BY <1>4, <2>1, <2>2
    <3>2. stack'[i] = NextLine[i] /\ Len(NextLine) = top
        BY <1>1, <1>2, <3>1, PushType, NextLineType
    <3>3. stack[i].file = n /\ stack[i].line <= SelfLine(n)
        BY <1>1, <2>2, <3>1, <3>2, NextLineWaiting
    <3> QED
        BY <1>3, <3>1, <3>3 DEF Waiting
  <2> QED
      BY <2>1, <2>2
<1> QED
    BY <1>6, <1>7, <1>8, <1>9 DEF Walk

\* Met, with the parts of it that no step changes unprimed
LEMMA MetNext ==
    ASSUME deps' = deps, procd' = procd,
           \A i \in 1..Len(stack') : \A k \in 1..(stack'[i].line - 1) :
              LET p == stack'[i].file
              IN  k <= LineCount(p) /\ k # SelfLine(p) /\ DepAt(p, k) \in deps.present
                  => DepAt(p, k) \in procd
    PROVE  Met'
BY DEF Met, LineCount, SelfLine, DepAt

LEMMA ReturnWalk == ASSUME TypeOK, Walk, Return PROVE Walk'
<1>1. stack \in Seq(Frame) /\ stack # <<>>
    BY DEF Return, TypeOK, Frame
<1>2. /\ deps' = deps /\ made' = made /\ trees' = trees /\ written' = written
      /\ procd' = procd /\ stack' = SubSeq(stack, 1, Len(stack) - 1)
    BY DEF Return
<1>3. Stamped /\ Chained /\ Met /\ Waiting /\ Fresh
    BY DEF Return, Walk
<1>4. Fresh'
    BY <1>2, <1>3 DEF Fresh
<1>5. CASE phase' = "tree"
  <2>1. root' = root
      BY <1>5 DEF Return, EndOfTree
  <2>2. /\ Len(stack) \in Nat \ {0} /\ Len(stack') = Len(stack) - 1
        /\ \A i \in 1..Len(stack') : i \in 1..Len(stack) /\ stack'[i] = stack[i]
      BY <1>1, <1>2, PopType
  <2>3. Chained'
      BY <1>2, <1>3, <2>2, SameDeps DEF Chained
  <2>4. Met'
    <3>1. ASSUME NEW i \in 1..Len(stack'), NEW k \in 1..(stack'[i].line - 1),
                 k <= LineCount(stack'[i].file), k # SelfLine(stack'[i].file),
                 DepAt(stack'[i].file, k) \in deps.present
          PROVE  DepAt(stack'[i].file, k) \in procd
        BY <1>3, <2>2, <3>1 DEF Met
    <3> QED
        BY <1>2, <3>1, MetNext
  <2>5. Waiting'
      BY <1>2, <1>3, <2>1, <2>2, SameDeps DEF Waiting
  <2> QED
      BY <1>2, <1>3, <1>4, <2>1, <2>3, <2>4, <2>5 DEF Walk, Stamped
<1> QED
    BY <1>4, <1>5 DEF Walk

LEMMA WriteSelfWalk ==
    ASSUME TypeOK, Walk, BuildOrder, WriteSelf
    PROVE  Walk' /\ BuildOrder'
<1> DEFINE n == Top.file
           new == [name |-> n, at |-> written + 1]
<1>1. stack \in Seq(Frame) /\ stack # <<>>
    BY DEF WriteSelf, TypeOK, Frame
<1>2. /\ deps' = deps /\ made' = made /\ root' = root /\ procd' = procd
      /\ stack' = NextLine
      /\ Top.line = SelfLine(n)
    BY DEF WriteSelf
<1>3. Stamped /\ Chained /\ Met /\ Waiting /\ Fresh
    BY DEF WriteSelf, Walk
<1>4. n \in deps.present /\ n \in Packages /\ root \in Packages /\ root \in made
    BY <1>1, TopType DEF WriteSelf, TypeOK, DepFileType
<1>5. /\ trees'[root] \subseteq trees[root] \cup {new}
      /\ \A p \in Packages : p # root => trees'[p] = trees[p]
      /\ written' = IF Wanted(n) THEN written + 1 ELSE written
      /\ written' = written => trees' = trees
  <2>1. CASE Wanted(n)
    <3>1. /\ trees' = [trees EXCEPT ![root] = (trees[root] \ Dropped(n)) \cup {new}]
          /\ written' = written + 1
        BY <2>1 DEF WriteSelf
    <3> HIDE DEF new
    <3>2. written \in Nat
        BY DEF TypeOK
    <3> QED
        BY <1>4, <2>1, <3>1, <3>2 DEF TypeOK
  <2>2. CASE ~Wanted(n)
      BY <2>2 DEF WriteSelf
  <2> QED
      BY <2>1, <2>2
<1>6. Fresh'
    BY <1>2, <1>3, <1>4, <1>5 DEF Fresh
<1>7. Stamped'
  <2>1. written \in Nat /\ \A l \in trees[root] : l.at \in Nat
      BY <1>4 DEF TypeOK
  <2>2. CASE written' = written
      BY <1>2, <1>3, <1>5, <2>2 DEF Stamped
  <2>3. CASE written' = written + 1
      BY <1>2, <1>3, <1>5, <2>1, <2>3 DEF Stamped
  <2> QED
      BY <1>5, <2>2, <2>3
<1>8. Chained'
    BY <1>1, <1>2, <1>3, NextLineType, SameDeps DEF Chained
<1>9. Met'
  <2> SUFFICES ASSUME NEW i \in 1..Len(stack), NEW k \in 1..(stack'[i].line - 1),
                      k <= LineCount(stack[i].file), k # SelfLine(stack[i].file),
                      DepAt(stack[i].file, k) \in deps.present
               PROVE  DepAt(stack[i].file, k) \in procd
      BY <1>1, <1>2, NextLineType, SameDeps DEF Met
  <2>1. CASE k \in 1..(stack[i].line - 1)
      BY <1>3, <2>1 DEF Met
  <2>2. CASE k \notin 1..(stack[i].line - 1)
    <3>1. i = Len(stack) /\ k = stack[i].line
        BY <1>1, <1>2, <2>2, NextLineType, FrameType
    <3> QED
        BY <1>1, <1>2, <3>1, TopType
  <2> QED
      BY <2>1, <2>2
<1>10. Waiting'
  <2> SUFFICES ASSUME NEW l \in trees'[root], NEW q \in Elements(deps.build[l.name]) \cap deps.present
               PROVE  /\ q \in procd
                      /\ \A i \in 1..Len(stack) :
                            NextLine[i].file = q /\ NextLine[i].line <= SelfLine(q)
                            => Reaches(q, l.name)
      BY <1>1, <1>2, NextLineType, SameDeps DEF Waiting
  <2>1. CASE l \in trees[root]
      BY <1>1, <1>3, <2>1, NextLineWaiting DEF Waiting
  <2>2. CASE l = new
    <3>1. l.name = n
        BY <2>2
    <3>2. PICK k \in 1..(SelfLine(n) - 1) :
              k <= LineCount(n) /\ k # SelfLine(n) /\ DepAt(n, k) = q
        BY <1>4, <3>1, BuildNeedMet
    <3>3. q \in procd
        BY <1>1, <1>2, <1>3, <3>2, TopType DEF Met
    <3>4. \A i \in 1..Len(stack) : stack[i].file = q => Reaches(q, n)
        BY <1>1, <1>3, TopType DEF Chained
    <3> QED
        BY <1>1, <3>1, <3>3, <3>4, NextLineWaiting
  <2> QED
      BY <1>5, <2>1, <2>2
<1>11. Walk'
    BY <1>6, <1>7, <1>8, <1>9, <1>10 DEF Walk
<1>12. BuildOrder'
  <2> SUFFICES ASSUME NEW p \in Packages, NEW l \in trees'[p], NEW m \in trees'[p],
                      m.name \in Elements(deps.build[l.name]), l.at < m.at
               PROVE  Reaches(m.name, l.name)
      BY <1>2, SameDeps DEF BuildOrder
  <2>1. CASE p # root \/ (l \in trees[p] /\ m \in trees[p])
      BY <1>5, <2>1 DEF BuildOrder
  <2>2. CASE p = root /\ l = new
    <3>1. m.at <= written + 1 /\ m.at \in Nat /\ l.at = written + 1 /\ written \in Nat
      <4>1. written \in Nat /\ \A x \in trees[root] : x.at \in Nat
          BY <1>4 DEF TypeOK
      <4> QED
          BY <1>3, <1>5, <2>2, <4>1 DEF Stamped
    <3> QED
        BY <3>1
  <2>3. CASE p = root /\ l \in trees[root] /\ m = new
    <3>1. m.name = n /\ n \in Elements(deps.build[l.name]) \cap deps.present
        BY <1>4, <2>3
    <3>2. Len(stack) \in 1..Len(stack) /\ stack[Len(stack)].file = n
          /\ stack[Len(stack)].line <= SelfLine(n)
      <4>1. SelfLine(n) \in Nat
          BY <1>4, LineType
      <4> QED
          BY <1>1, <1>2, <4>1, TopType
    <3> QED
        BY <1>3, <2>3, <3>1, <3>2 DEF Waiting
  <2> QED
      BY <1>5, <2>1, <2>2, <2>3
<1> QED
    BY <1>11, <1>12

LEMMA NextWalk == TypeOK /\ Walk /\ BuildOrder /\ [Next]_vars => Walk' /\ BuildOrder'
<1> SUFFICES ASSUME TypeOK, Walk, BuildOrder, [Next]_vars PROVE Walk' /\ BuildOrder'
    OBVIOUS
<1>1. CASE WriteSelf
    BY <1>1, WriteSelfWalk
<1>2. CASE UNCHANGED vars
  <2>1. Walk'
      BY <1>2, SameDeps DEF vars, Walk, Fresh, Stamped, Chained, Met, Waiting
  <2> QED
      BY <1>2, <2>1, SameDeps DEF vars, BuildOrder
<1>3. CASE Next /\ ~WriteSelf
  <2>1. trees' = trees /\ deps' = deps
      BY <1>3 DEF Next, Step, Start, SkipRoot, BeginRoot, Finish, SkipDep, WalkInto,
                  Return, Crash
  <2>2. BuildOrder'
      BY <2>1, SameDeps DEF BuildOrder
  <2>3. CASE \E q \in Requests : Start(q)
      BY <2>2, <2>3, IdleWalk
  <2>4. CASE SkipRoot \/ Finish \/ Crash
    <3>1. phase' # "tree" /\ made' = made /\ trees' = trees
        BY <2>4 DEF SkipRoot, Finish, Crash
    <3> QED
        BY <2>2, <3>1 DEF Walk, Fresh
  <2> QED
      BY <1>3, <2>2, <2>3, <2>4, BeginRootWalk, SkipDepWalk, WalkIntoWalk, ReturnWalk
      DEF Next, Step
<1> QED
    BY <1>1, <1>2, <1>3

\* Every tree is in build order at every moment, for every instance, whatever
\* the cycles and whenever the script is interrupted.
THEOREM BuildOrderHolds == Spec => []BuildOrder
<1>1. Init => Walk /\ BuildOrder
    BY InitWalk
<1>2. TypeOK /\ (Walk /\ BuildOrder) /\ [Next]_vars => (Walk /\ BuildOrder)'
    BY NextWalk
<1> QED
    BY <1>1, <1>2, TypeOKHolds, PTL DEF Spec

-------------------------------------------------------------------------------
\* Completeness

Open(q) == \E i \in 1..Len(stack) : stack[i].file = q
Pending(q) == \E i \in 1..Len(stack) : stack[i].file = q /\ stack[i].line <= SelfLine(q)

\* The walk starts at the root and meets only what it reaches.
Rooted ==
    /\ stack[1].file = root
    /\ \A q \in procd \cup Names(root) : Reaches(root, q)

\* What was walked into is on the stack, or all it needs was walked into.
Read == \A q \in procd : Open(q) \/ Needs(q) \subseteq procd

\* What was walked into is still to be written, or in the tree, or may have been
\* taken out with the line of the root, ...
Listed == \A q \in procd : Pending(q) \/ q \in Names(root) \/ q \in NameInside[root]

\* ... which is in the tree once its endpoint line was read.
SelfListed == stack[1].line > SelfLine(root) => root \in Names(root)

Covered == phase = "tree" => Rooted /\ Read /\ Listed /\ SelfListed

LEMMA SelfLinePositive ==
    ASSUME TypeOK, NEW p \in Packages
    PROVE  SelfLine(p) \in Nat /\ 1 <= SelfLine(p)
<1> DEFINE b == deps.build[p]
<1>1. b \in Seq(Packages)
    BY DEF TypeOK, DepFileType
<1>2. SelfLine(p) = Len(b) + 1
    BY DEF SelfLine
<1> HIDE DEF b
<1>3. Len(b) \in Nat
    BY <1>1, LenProperties
<1> QED
    BY <1>2, <1>3

LEMMA SameNeeds ==
    ASSUME deps' = deps
    PROVE  \A x : Needs(x)' = Needs(x)
BY DEF Needs

\* When a line is passed that is not its own, what was pending still is.
LEMMA NextLinePending ==
    ASSUME TypeOK, stack \in Seq(Frame), stack # <<>>, NEW q \in deps.present, Pending(q),
           q # Top.file \/ Top.line # SelfLine(Top.file)
    PROVE  \E i \in 1..Len(stack) : NextLine[i].file = q /\ NextLine[i].line <= SelfLine(q)
<1>1. PICK i \in 1..Len(stack) : stack[i].file = q /\ stack[i].line <= SelfLine(q)
    BY DEF Pending
<1>2. SelfLine(q) \in Nat /\ stack[i].line \in Nat
    BY FrameType, LineType DEF TypeOK, DepFileType
<1>3. /\ NextLine[i].file = q
      /\ NextLine[i].line = IF i = Len(stack) THEN stack[i].line + 1 ELSE stack[i].line
    BY <1>1, NextLineType
<1>4. CASE i # Len(stack)
    BY <1>1, <1>3, <1>4
<1>5. CASE i = Len(stack)
  <2>1. stack[i].line # SelfLine(q)
      BY <1>1, <1>5 DEF Top
  <2>2. stack[i].line + 1 <= SelfLine(q)
      BY <1>1, <1>2, <2>1
  <2> QED
      BY <1>3, <1>5, <2>2
<1> QED
    BY <1>4, <1>5

LEMMA BeginRootCovered == ASSUME TypeOK, Walk, BeginRoot PROVE Covered'
<1> SUFFICES ASSUME phase' = "tree" PROVE (Rooted /\ Read /\ Listed /\ SelfListed)'
    BY DEF Covered
<1> DEFINE r == Head(todo)
<1>1. /\ stack' = <<[file |-> r, line |-> 1]>> /\ root' = r /\ deps' = deps /\ trees' = trees
      /\ procd' = {} /\ r \notin made
    BY DEF BeginRoot, ResetProcd
<1>2. r \in Packages
    BY DEF BeginRoot, TypeOK
<1>3. trees'[root'] = {}
    BY <1>1, <1>2 DEF Walk, Fresh
<1>4. Names(root)' = {}
    BY <1>3 DEF Names
<1>5. stack'[1].file = r /\ stack'[1].line = 1
    BY <1>1
<1>6. SelfLine(r) \in Nat /\ SelfLine(r) >= 1
    BY <1>2, SelfLinePositive
<1>7. Rooted' /\ Read' /\ Listed'
    BY <1>1, <1>4, <1>5 DEF Rooted, Read, Listed
<1>8. SelfListed'
  <2>1. SelfLine(root)' = SelfLine(r)
      BY <1>1 DEF SelfLine
  <2> QED
      BY <1>1, <1>5, <1>6, <2>1 DEF SelfListed
<1> QED
    BY <1>7, <1>8

\* The lines of the outermost file
LEMMA FirstLine ==
    ASSUME TypeOK, stack \in Seq(Frame), stack # <<>>, Rooted,
           NextLine[1].line > SelfLine(root)
    PROVE  stack[1].line > SelfLine(root) \/ (Len(stack) = 1 /\ Top.line = SelfLine(Top.file) /\ Top.file = root)
<1>1. Len(stack) \in Nat \ {0} /\ 1 \in 1..Len(stack)
    BY TopType
<1>2. stack[1].line \in Nat /\ stack[1].file = root /\ stack[1].file \in deps.present
    BY <1>1, FrameType DEF Rooted
<1>3. SelfLine(root) \in Nat
    BY <1>2, LineType DEF TypeOK, DepFileType
<1>4. NextLine[1].line = IF 1 = Len(stack) THEN stack[1].line + 1 ELSE stack[1].line
    BY <1>1, NextLineType
<1>5. Len(stack) = 1 => Top = stack[1]
    BY DEF Top
<1> QED
    BY <1>1, <1>2, <1>3, <1>4, <1>5

LEMMA SkipDepCovered == ASSUME TypeOK, Walk, Covered, SkipDep PROVE Covered'
<1>1. stack \in Seq(Frame) /\ stack # <<>>
    BY DEF SkipDep, AtDep, TypeOK, Frame
<1>2. /\ deps' = deps /\ trees' = trees /\ root' = root /\ procd' = procd /\ stack' = NextLine
      /\ Top.line # SelfLine(Top.file)
    BY DEF SkipDep, AtDep
<1>3. Rooted /\ Read /\ Listed /\ SelfListed
    BY DEF SkipDep, AtDep, Covered
<1>4. procd \subseteq deps.present
    BY DEF TypeOK
<1>5. Names(root)' = Names(root) /\ SelfLine(root)' = SelfLine(root)
    BY <1>2 DEF Names, SelfLine
<1>6. Rooted'
  <2>1. NextLine[1].file = stack[1].file
      BY <1>1, TopType, NextLineType
  <2> QED
      BY <1>2, <1>3, <1>5, <2>1, SameDeps DEF Rooted
<1>7. Read'
  <2>1. \A q : Open(q) => Open(q)'
      BY <1>1, <1>2, NextLineType DEF Open
  <2> QED
      BY <1>2, <1>3, <2>1, SameNeeds DEF Read
<1>8. Listed'
  <2>1. ASSUME NEW q \in procd, Pending(q) PROVE Pending(q)'
    <3>1. \E i \in 1..Len(stack) : NextLine[i].file = q /\ NextLine[i].line <= SelfLine(q)
        BY <1>1, <1>2, <1>4, <2>1, NextLinePending
    <3> QED
        BY <1>1, <1>2, <3>1, NextLineType, SameDeps DEF Pending
  <2> QED
      BY <1>2, <1>3, <1>5, <2>1 DEF Listed
<1>9. SelfListed'
    BY <1>1, <1>2, <1>3, <1>5, FirstLine DEF SelfListed
<1> QED
    BY <1>6, <1>7, <1>8, <1>9 DEF Covered

LEMMA WalkIntoCovered == ASSUME TypeOK, Walk, Covered, WalkInto PROVE Covered'
<1> DEFINE top == Len(stack)
<1>0. PICK q : q = DepAt(Top.file, Top.line)
    OBVIOUS
<1>1. stack \in Seq(Frame) /\ stack # <<>>
    BY DEF WalkInto, AtDep, TypeOK, Frame
<1>2. /\ deps' = deps /\ trees' = trees /\ root' = root
      /\ procd' = procd \cup {q} /\ q \in deps.present
      /\ stack' = Append(NextLine, [file |-> q, line |-> 1])
      /\ Top.line # SelfLine(Top.file) /\ Top.line <= LineCount(Top.file)
    BY <1>0 DEF WalkInto, NoteDep, AtDep
<1>3. Rooted /\ Read /\ Listed /\ SelfListed /\ Chained
    BY DEF WalkInto, AtDep, Covered, Walk
<1>4. procd \subseteq deps.present /\ deps.present \subseteq Packages
    BY DEF TypeOK, DepFileType
<1>5. Names(root)' = Names(root) /\ SelfLine(root)' = SelfLine(root)
    BY <1>2 DEF Names, SelfLine
<1>6. /\ top \in Nat \ {0} /\ Len(stack') = top + 1 /\ Len(NextLine) = top
      /\ \A i \in 1..top : stack'[i] = NextLine[i] /\ stack'[i].file = stack[i].file
      /\ stack'[top + 1].file = q /\ stack'[top + 1].line = 1
    BY <1>1, <1>2, PushType, NextLineType
<1>7. q \in Needs(Top.file) /\ Top.file = stack[top].file
  <2>1. Top.file \in Packages /\ Top.line \in Nat \ {0}
      BY <1>1, <1>4, TopType
  <2> QED
      BY <1>0, <1>1, <1>2, <2>1, DepIsNeed, TopType
<1>8. Rooted'
  <2>1. Reaches(stack[1].file, stack[top].file)
      BY <1>3, <1>6 DEF Chained
  <2>2. Reaches(root, q)
      BY <1>3, <1>7, <2>1, ReachesNeed DEF Rooted
  <2> QED
      BY <1>2, <1>3, <1>5, <1>6, <2>2, SameDeps DEF Rooted
<1>9. Read'
  <2>1. \A p : Open(p) => Open(p)'
      BY <1>6 DEF Open
  <2>2. Open(q)'
      BY <1>6 DEF Open
  <2> QED
      BY <1>2, <1>3, <2>1, <2>2, SameNeeds DEF Read
<1>10. Listed'
  <2>1. ASSUME NEW p \in procd, Pending(p) PROVE Pending(p)'
    <3>1. \E i \in 1..top : NextLine[i].file = p /\ NextLine[i].line <= SelfLine(p)
        BY <1>1, <1>2, <1>4, <2>1, NextLinePending
    <3>2. \E i \in 1..(top + 1) : stack'[i].file = p /\ stack'[i].line <= SelfLine(p)
        BY <1>6, <3>1
    <3> QED
        BY <1>2, <1>6, <3>2, SameDeps DEF Pending
  <2>2. Pending(q)'
    <3>1. 1 <= SelfLine(q)
        BY <1>2, <1>4, SelfLinePositive
    <3> QED
        BY <1>2, <1>6, <3>1, SameDeps DEF Pending
  <2> QED
      BY <1>2, <1>3, <1>5, <2>1, <2>2 DEF Listed
<1>11. SelfListed'
  <2>1. stack'[1] = NextLine[1]
      BY <1>6
  <2> QED
      BY <1>1, <1>2, <1>3, <1>5, <2>1, FirstLine DEF SelfListed
<1> QED
    BY <1>8, <1>9, <1>10, <1>11 DEF Covered

\* What a tree names after a line was written
LEMMA WriteSelfNames ==
    ASSUME TypeOK, WriteSelf, NEW n, n = Top.file
    PROVE  /\ n \in Names(root)' /\ Names(root)' \subseteq Names(root) \cup {n}
           /\ \A q \in Names(root) : q \in Names(root)' \/ (Len(stack) = 1 /\ q \in NameInside[n])
           /\ \A p \in Packages : p # root => trees'[p] = trees[p]
<1>1. root' = root /\ root \in Packages /\ trees \in [Packages -> SUBSET [name : Packages, at : Nat]]
    BY DEF WriteSelf, TypeOK
<1>2. CASE ~Wanted(n)
  <2>1. trees' = trees /\ n \in Names(root)
      BY <1>2 DEF WriteSelf, Wanted
  <2> QED
      BY <1>1, <2>1 DEF Names
<1>3. CASE Wanted(n)
  <2> DEFINE new == [name |-> n, at |-> written + 1]
  <2>1. trees' = [trees EXCEPT ![root] = (trees[root] \ Dropped(n)) \cup {new}]
      BY <1>3 DEF WriteSelf
  <2>2. new.name = n
      OBVIOUS
  <2>3. \A l \in Dropped(n) : Len(stack) = 1 /\ l.name \in NameInside[n]
      BY DEF Dropped
  <2> HIDE DEF new
  <2>4. trees'[root] = (trees[root] \ Dropped(n)) \cup {new}
      BY <1>1, <2>1
  <2>5. \A p \in Packages : p # root => trees'[p] = trees[p]
      BY <1>1, <2>1
  <2>6. Names(root)' = {l.name : l \in trees'[root]}
      BY <1>1 DEF Names
  <2>7. n \in Names(root)' /\ Names(root)' \subseteq Names(root) \cup {n}
      BY <2>2, <2>4, <2>6 DEF Names
  <2>8. \A q \in Names(root) : q \in Names(root)' \/ (Len(stack) = 1 /\ q \in NameInside[n])
    <3> SUFFICES ASSUME NEW l \in trees[root]
                 PROVE  l.name \in Names(root)' \/ (Len(stack) = 1 /\ l.name \in NameInside[n])
        BY DEF Names
    <3>1. CASE l \in Dropped(n)
        BY <2>3, <3>1
    <3>2. CASE l \in trees'[root]
        BY <2>6, <3>2
    <3> QED
        BY <2>4, <3>1, <3>2
  <2> QED
      BY <2>5, <2>7, <2>8
<1> QED
    BY <1>2, <1>3

LEMMA WriteSelfCovered == ASSUME TypeOK, Walk, Covered, WriteSelf PROVE Covered'
<1>0. PICK n : n = Top.file
    OBVIOUS
<1>1. stack \in Seq(Frame) /\ stack # <<>>
    BY DEF WriteSelf, TypeOK, Frame
<1>2. /\ deps' = deps /\ root' = root /\ procd' = procd /\ stack' = NextLine
      /\ Top.line = SelfLine(n)
    BY <1>0 DEF WriteSelf
<1>3. Rooted /\ Read /\ Listed /\ SelfListed /\ Chained
    BY DEF WriteSelf, Covered, Walk
<1>4. procd \subseteq deps.present /\ Len(stack) \in Nat \ {0} /\ n = stack[Len(stack)].file
    BY <1>0, <1>1, TopType DEF TypeOK
<1>5. /\ n \in Names(root)' /\ Names(root)' \subseteq Names(root) \cup {n}
      /\ \A q \in Names(root) : q \in Names(root)' \/ (Len(stack) = 1 /\ q \in NameInside[n])
    BY <1>0, WriteSelfNames
<1>6. Len(stack) = 1 => n = root
    BY <1>3, <1>4 DEF Rooted
<1>7. Rooted'
  <2>1. NextLine[1].file = stack[1].file
      BY <1>1, <1>4, NextLineType
  <2>2. Reaches(root, n)
      BY <1>3, <1>4 DEF Chained, Rooted
  <2>3. ASSUME NEW q \in procd \cup Names(root)' PROVE Reaches(root, q)
      BY <1>3, <1>5, <2>2 DEF Rooted
  <2> QED
      BY <1>2, <1>3, <2>1, <2>3, SameDeps DEF Rooted
<1>8. Read'
  <2>1. \A q : Open(q) => Open(q)'
      BY <1>1, <1>2, NextLineType DEF Open
  <2> QED
      BY <1>2, <1>3, <2>1, SameNeeds DEF Read
<1>9. Listed'
  <2>1. ASSUME NEW q \in procd, q # n, Pending(q) PROVE Pending(q)'
    <3>1. \E i \in 1..Len(stack) : NextLine[i].file = q /\ NextLine[i].line <= SelfLine(q)
        BY <1>0, <1>1, <1>2, <1>4, <2>1, NextLinePending
    <3> QED
        BY <1>1, <1>2, <3>1, NextLineType, SameDeps DEF Pending
  <2>2. ASSUME NEW q \in procd PROVE Pending(q)' \/ q \in Names(root)' \/ q \in NameInside[root]
    <3>1. CASE q = n
        BY <1>5, <3>1
    <3>2. CASE q # n
      <4>1. Pending(q) \/ q \in Names(root) \/ q \in NameInside[root]
          BY <1>3 DEF Listed
      <4> QED
          BY <1>5, <1>6, <2>1, <3>2, <4>1
    <3> QED
        BY <3>1, <3>2
  <2> QED
      BY <1>2, <2>2 DEF Listed
<1>10. SelfListed'
  <2>1. SelfLine(root)' = SelfLine(root)
      BY <1>2 DEF SelfLine
  <2>2. ASSUME NextLine[1].line > SelfLine(root) PROVE root \in Names(root)'
    <3>1. CASE Len(stack) = 1
        BY <1>5, <1>6, <3>1
    <3>2. CASE Len(stack) # 1
        BY <1>1, <1>3, <1>5, <2>2, <3>2, FirstLine DEF SelfListed
    <3> QED
        BY <3>1, <3>2
  <2> QED
      BY <1>2, <2>1, <2>2 DEF SelfListed
<1> QED
    BY <1>7, <1>8, <1>9, <1>10 DEF Covered

\* At its end a file has been read past all it needs.
LEMMA ReadToEnd ==
    ASSUME TypeOK, stack \in Seq(Frame), stack # <<>>, Met, Top.line > LineCount(Top.file)
    PROVE  Needs(Top.file) \subseteq procd /\ Top.line > SelfLine(Top.file)
<1> DEFINE p == Top.file
           b == deps.build[p]
           r == deps.runtime[p]
<1>1. /\ Len(stack) \in Nat \ {0} /\ Top = stack[Len(stack)]
      /\ p \in deps.present /\ p \in Packages /\ Top.line \in Nat
    BY TopType DEF TypeOK, DepFileType
<1>2. b \in Seq(Packages) /\ r \in Seq(Packages) /\ Len(b) \in Nat /\ Len(r) \in Nat
  <2>1. b \in Seq(Packages) /\ r \in Seq(Packages)
      BY <1>1 DEF TypeOK, DepFileType
  <2> HIDE DEF b, r
  <2> QED
      BY <2>1, LenProperties
<1>3. SelfLine(p) = Len(b) + 1 /\ LineCount(p) = Len(b) + 1 + Len(r)
    BY DEF SelfLine, LineCount
<1>4. \A k \in 1..(Top.line - 1) :
         k <= LineCount(p) /\ k # SelfLine(p) /\ DepAt(p, k) \in deps.present => DepAt(p, k) \in procd
    BY <1>1 DEF Met
<1>5. \A k : DepAt(p, k) = IF k < SelfLine(p) THEN b[k] ELSE r[k - SelfLine(p)]
    BY DEF DepAt
<1>6. Needs(p) = (Elements(b) \cup Elements(r)) \cap deps.present
    BY DEF Needs
<1>7. Top.line > LineCount(p)
    OBVIOUS
<1> HIDE DEF p, b, r
<1>8. ASSUME NEW i \in 1..Len(b), b[i] \in deps.present PROVE b[i] \in procd
  <2>1. i \in 1..(Top.line - 1) /\ i <= LineCount(p) /\ i # SelfLine(p) /\ i < SelfLine(p)
      BY <1>1, <1>2, <1>3, <1>7
  <2> QED
      BY <1>4, <1>5, <1>8, <2>1
<1>9. ASSUME NEW i \in 1..Len(r), r[i] \in deps.present PROVE r[i] \in procd
  <2> DEFINE k == i + SelfLine(p)
  <2>1. /\ k \in 1..(Top.line - 1) /\ k <= LineCount(p) /\ k # SelfLine(p) /\ ~(k < SelfLine(p))
        /\ k - SelfLine(p) = i
      BY <1>1, <1>2, <1>3, <1>7
  <2> HIDE DEF k
  <2>2. DepAt(p, k) = r[i]
      BY <1>5, <2>1
  <2> QED
      BY <1>4, <1>9, <2>1, <2>2
<1>10. Needs(p) \subseteq procd
    BY <1>6, <1>8, <1>9 DEF Elements
<1>11. Top.line > SelfLine(p)
    BY <1>1, <1>2, <1>3, <1>7
<1> QED
    BY <1>10, <1>11 DEF p

LEMMA ReturnCovered == ASSUME TypeOK, Walk, Covered, Return PROVE Covered'
<1>1. stack \in Seq(Frame) /\ stack # <<>>
    BY DEF Return, TypeOK, Frame
<1>2. /\ deps' = deps /\ trees' = trees /\ procd' = procd
      /\ stack' = SubSeq(stack, 1, Len(stack) - 1) /\ Top.line > LineCount(Top.file)
    BY DEF Return
<1>3. Rooted /\ Read /\ Listed /\ SelfListed /\ Met
    BY DEF Return, Covered, Walk
<1> SUFFICES ASSUME phase' = "tree" PROVE (Rooted /\ Read /\ Listed /\ SelfListed)'
    BY DEF Covered
<1>4. root' = root /\ Len(stack) > 1
    BY DEF Return, EndOfTree
<1>5. /\ Len(stack) \in Nat \ {0} /\ Len(stack') = Len(stack) - 1
      /\ \A i \in 1..Len(stack') : i \in 1..Len(stack) /\ stack'[i] = stack[i]
    BY <1>1, <1>2, PopType
<1>6. stack'[1] = stack[1]
    BY <1>4, <1>5
<1>7. Names(root)' = Names(root) /\ SelfLine(root)' = SelfLine(root)
    BY <1>2, <1>4 DEF Names, SelfLine
<1>8. Needs(Top.file) \subseteq procd /\ Top.line > SelfLine(Top.file)
    BY <1>1, <1>2, <1>3, ReadToEnd
<1>9. Top = stack[Len(stack)] /\ Top.line \in Nat /\ Top.file \in Packages
    BY <1>1, TopType DEF TypeOK, DepFileType
<1>10. Rooted' /\ SelfListed'
    BY <1>2, <1>3, <1>4, <1>6, <1>7, SameDeps DEF Rooted, SelfListed
<1>11. Read'
  <2>1. ASSUME NEW q, Open(q), q # Top.file PROVE Open(q)'
    <3>1. PICK i \in 1..Len(stack) : stack[i].file = q
        BY <2>1 DEF Open
    <3>2. i \in 1..Len(stack')
        BY <1>5, <1>9, <2>1, <3>1
    <3> QED
        BY <1>5, <3>1, <3>2 DEF Open
  <2> QED
      BY <1>2, <1>3, <1>8, <2>1, SameNeeds DEF Read
<1>12. Listed'
  <2>1. ASSUME NEW q \in procd, Pending(q) PROVE Pending(q)'
    <3>1. PICK i \in 1..Len(stack) : stack[i].file = q /\ stack[i].line <= SelfLine(q)
        BY <2>1 DEF Pending
    <3>2. i # Len(stack)
      <4>1. SelfLine(Top.file) \in Nat
          BY <1>9, SelfLinePositive
      <4> QED
          BY <1>8, <1>9, <3>1, <4>1
    <3>3. i \in 1..Len(stack')
        BY <1>5, <3>2
    <3> QED
        BY <1>2, <1>5, <3>1, <3>3, SameDeps DEF Pending
  <2> QED
      BY <1>2, <1>3, <1>4, <1>7, <2>1 DEF Listed
<1> QED
    BY <1>10, <1>11, <1>12

\* The tree whose walk ends is complete.
Complete(p) ==
    /\ p \in Names(p)
    /\ \A q \in Names(p) : Reaches(p, q)
    /\ \A q \in deps.present \ NameInside[p] : Reaches(p, q) => q \in Names(p)

LEMMA ReturnComplete ==
    ASSUME TypeOK, Walk, Covered, Return, Len(stack) = 1
    PROVE  Complete(root)
<1>1. stack \in Seq(Frame) /\ stack # <<>>
    BY DEF Return, TypeOK, Frame
<1>2. Top.line > LineCount(Top.file)
    BY DEF Return
<1>3. Rooted /\ Read /\ Listed /\ SelfListed /\ Met
    BY DEF Return, Covered, Walk
<1>4. Top = stack[1] /\ Top.file = root /\ root \in deps.present
    BY <1>1, <1>3, TopType DEF Rooted
<1>5. Needs(root) \subseteq procd /\ stack[1].line > SelfLine(root)
    BY <1>1, <1>2, <1>3, <1>4, ReadToEnd
<1>6. root \in Names(root)
    BY <1>3, <1>5 DEF SelfListed
<1> DEFINE S == procd \cup {root}
<1>7. ASSUME NEW p \in S PROVE Needs(p) \subseteq S
    BY <1>3, <1>4, <1>5, <1>7 DEF Read, Open
<1>8. S \in SUBSET deps.present
    BY <1>4 DEF TypeOK
<1>9. ASSUME NEW q, Reaches(root, q) PROVE q \in S
    BY <1>7, <1>8, <1>9 DEF Reaches, Closed
<1>10. ASSUME NEW q \in procd PROVE q \in Names(root) \/ q \in NameInside[root]
  <2>1. CASE Pending(q)
    <3>1. q = root
        BY <1>4, <2>1 DEF Pending
    <3> QED
        BY <1>6, <3>1
  <2> QED
      BY <1>3, <2>1 DEF Listed
<1> QED
    BY <1>3, <1>6, <1>9, <1>10 DEF Complete, Rooted

LEMMA NextCovered == TypeOK /\ Walk /\ Covered /\ [Next]_vars => Covered'
<1> SUFFICES ASSUME TypeOK, Walk, Covered, [Next]_vars PROVE Covered'
    OBVIOUS
<1>1. CASE UNCHANGED vars
  <2>1. UNCHANGED <<deps, trees, procd, stack, root, phase>>
      BY <1>1 DEF vars
  <2>2. Names(root)' = Names(root)
      BY <2>1 DEF Names
  <2>3. \A q : Open(q)' = Open(q) /\ Pending(q)' = Pending(q)
      BY <2>1, SameDeps DEF Open, Pending
  <2> QED
      BY <2>1, <2>2, <2>3, SameDeps, SameNeeds DEF Covered, Rooted, Read, Listed, SelfListed
<1>2. CASE SkipRoot \/ Finish \/ Crash \/ \E q \in Requests : Start(q)
  <2>1. phase' # "tree"
      BY <1>2 DEF SkipRoot, Finish, Crash, Start
  <2> QED
      BY <2>1 DEF Covered
<1> QED
    BY <1>1, <1>2, BeginRootCovered, SkipDepCovered, WalkIntoCovered, WriteSelfCovered, ReturnCovered
    DEF Next, Step

LEMMA NextComplete == TypeOK /\ Walk /\ Covered /\ TreesComplete /\ [Next]_vars => TreesComplete'
<1> SUFFICES ASSUME TypeOK, Walk, Covered, TreesComplete, [Next]_vars, NEW p \in Finished'
             PROVE  Complete(p)'
    BY DEF TreesComplete, Complete
<1>1. deps' = deps
    BY DEF Next, Step, Start, SkipRoot, BeginRoot, Finish, SkipDep, WalkInto, WriteSelf, Return, Crash, vars
<1>2. ASSUME Complete(p), trees'[p] = trees[p] PROVE Complete(p)'
    BY <1>1, <1>2, SameDeps DEF Complete, Names
<1>3. p \in Finished => Complete(p)
    BY DEF TreesComplete, Complete
<1>4. CASE WriteSelf
  <2>1. p \in Finished /\ p # root /\ p \in Packages
      BY <1>4 DEF Finished, WriteSelf, TypeOK
  <2>2. trees'[p] = trees[p]
      BY <1>4, <2>1, WriteSelfNames
  <2> QED
      BY <1>2, <1>3, <2>1, <2>2
<1>5. CASE Return /\ Len(stack) = 1
  <2>1. trees' = trees /\ made' = made /\ torn' = torn
      BY <1>5 DEF Return
  <2>2. p = root \/ p \in Finished
      BY <2>1 DEF Finished
  <2> QED
      BY <1>2, <1>3, <1>5, <2>1, <2>2, ReturnComplete
<1>6. CASE Next /\ ~WriteSelf /\ ~(Return /\ Len(stack) = 1)
  <2>1. trees' = trees
      BY <1>6 DEF Next, Step, Start, SkipRoot, BeginRoot, Finish, SkipDep, WalkInto, Return, Crash
  <2>2. p \in Finished
    <3>1. CASE BeginRoot
      <4>1. made' = made \cup {Head(todo)} /\ Head(todo) \in torn' \cup {root'}
            /\ torn \subseteq torn'
          BY <3>1 DEF BeginRoot
      <4>2. root \notin made
          BY <3>1 DEF BeginRoot, TypeOK
      <4> QED
          BY <4>1, <4>2 DEF Finished
    <3>2. CASE Crash
      <4>1. made' = made /\ torn \subseteq torn' /\ (phase = "tree" => root \in torn')
          BY <3>2 DEF Crash
      <4>2. phase # "tree" => root \notin made
          BY DEF TypeOK
      <4> QED
          BY <4>1, <4>2 DEF Finished
    <3>3. CASE Return
      <4>1. made' = made /\ torn' = torn /\ root' = root
        <5>1. Len(stack) # 1 /\ stack \in Seq(Frame) /\ stack # <<>>
            BY <1>6, <3>3 DEF Return, TypeOK, Frame
        <5>2. Len(stack) \in Nat \ {0}
            BY <5>1, TopType
        <5>3. Len(stack) > 1
          <6>1. \A n \in Nat \ {0} : n # 1 => n > 1
              OBVIOUS
          <6> QED
              BY <5>1, <5>2, <6>1, Zenon
        <5> QED
            BY <3>3, <5>3 DEF Return, EndOfTree
      <4> QED
          BY <4>1 DEF Finished
    <3>4. CASE SkipRoot \/ Finish \/ SkipDep \/ WalkInto \/ \E q \in Requests : Start(q)
      <4>1. made' = made /\ torn' = torn /\ root' = root
          BY <3>4 DEF SkipRoot, Finish, SkipDep, WalkInto, Start
      <4> QED
          BY <4>1 DEF Finished
    <3> QED
        BY <1>6, <3>1, <3>2, <3>3, <3>4 DEF Next, Step
  <2> QED
      BY <1>2, <1>3, <2>1, <2>2
<1>7. CASE UNCHANGED vars
  <2>1. p \in Finished /\ trees' = trees
      BY <1>7 DEF vars, Finished
  <2> QED
      BY <1>2, <1>3, <2>1
<1> QED
    BY <1>4, <1>5, <1>6, <1>7

LEMMA InitCovered == Init => Covered /\ TreesComplete
BY DEF Init, Covered, TreesComplete, Finished

\* book-blfs-trees.sh: the tree of a walk that was not interrupted has its root
\* and what the root reaches, for any .deps files, cycles, names and requests,
\* but for what the substitution at level 2 takes out with the root's line.
THEOREM TreesCompleteHolds == Spec => []TreesComplete
<1>1. Init => Covered /\ TreesComplete
    BY InitCovered
<1>2. TypeOK /\ Walk /\ (Covered /\ TreesComplete) /\ [Next]_vars => (Covered /\ TreesComplete)'
    BY NextCovered, NextComplete
<1>3. Init => Walk /\ BuildOrder
    BY InitWalk
<1>4. TypeOK /\ (Walk /\ BuildOrder) /\ [Next]_vars => (Walk /\ BuildOrder)'
    BY NextWalk
<1> QED
    BY <1>1, <1>2, <1>3, <1>4, TypeOKHolds, PTL DEF Spec
-------------------------------------------------------------------------------
\* The recursion comes back

\* The turns of the loop over a .deps file: one per line, and the return
Lines(p) == 0..(LineCount(p) + 1)
AllLines == UNION {Lines(p) : p \in deps.present}

\* A walk reads every file at most once, but for the root's: where a cycle leads
\* back to it, it is read a second time.  NoRoot stands for its first reading.
Turns ==
    {t \in (deps.present \cup {NoRoot}) \X (AllLines \cup {0}) :
        t[1] # NoRoot => t[2] \in Lines(t[1])}

\* The turns that a walk still has, at most
TurnsOfWalk ==
    {t \in Turns :
        \/ t[1] = NoRoot /\ t[2] >= stack[1].line
        \/ t[1] \in deps.present \ procd
        \/ \E j \in 2..Len(stack) : t[1] = stack[j].file /\ t[2] >= stack[j].line}

\* The turns that a run still has, at most: those of the walk at hand, and all
\* of n walks to come.
TurnsWith(n, walkTurns) == ((0..(n - 1)) \X Turns) \cup ({n} \X walkTurns)

TurnsLeft ==
    IF phase = "idle" THEN {}
    ELSE TurnsWith(Len(todo), IF phase = "roots" THEN Turns ELSE TurnsOfWalk)

Fewer(S, T) == S \subseteq T /\ S # T

\* No file but the root's is on the stack twice, and none was read too far.
Tidy ==
    phase = "tree" =>
        /\ stack[1].file = root
        /\ \A j \in 2..Len(stack) : stack[j].file \in procd
        /\ \A j, k \in 2..Len(stack) : stack[j].file = stack[k].file => j = k
        /\ \A j \in 1..Len(stack) : stack[j].line <= LineCount(stack[j].file) + 1

LEMMA LineCountType == ASSUME TypeOK PROVE \A p \in deps.present : LineCount(p) \in Nat
<1> SUFFICES ASSUME NEW p \in deps.present PROVE LineCount(p) \in Nat
    OBVIOUS
<1>1. deps.build[p] \in Seq(Packages) /\ deps.runtime[p] \in Seq(Packages)
    BY DEF TypeOK, DepFileType
<1>2. Len(deps.build[p]) \in Nat /\ Len(deps.runtime[p]) \in Nat
    BY <1>1
<1>3. \A m, n \in Nat : m + 1 + n \in Nat
    OBVIOUS
<1> QED
    BY <1>2, <1>3, Zenon DEF LineCount

\* What a turn of the walk does to the stack: it goes on in the file at the top,
\* and may put on a file that PROCD did not have.
Turned ==
    /\ Len(stack') \in {Len(stack), Len(stack) + 1}
    /\ \A j \in 1..Len(stack) : stack'[j].file = stack[j].file
    /\ \A j \in 1..Len(stack) :
           stack'[j].line = IF j = Len(stack) THEN stack[j].line + 1 ELSE stack[j].line
    /\ procd \subseteq procd'
    /\ Len(stack') = Len(stack) + 1 =>
           /\ stack'[Len(stack) + 1].file \in (deps.present \cap procd') \ procd
           /\ stack'[Len(stack) + 1].line = 1

LEMMA SkipDepTurned == ASSUME TypeOK, SkipDep \/ WriteSelf PROVE Turned
<1>1. stack \in Seq(Frame) /\ stack # <<>> /\ stack' = NextLine /\ procd' = procd
    BY DEF SkipDep, WriteSelf, AtDep, TypeOK, Frame
<1> QED
    BY <1>1, NextLineType, TopType DEF Turned

LEMMA WalkIntoTurned == ASSUME TypeOK, WalkInto PROVE Turned
<1> DEFINE q == DepAt(Top.file, Top.line)
<1>1. stack \in Seq(Frame) /\ stack # <<>>
    BY DEF WalkInto, AtDep, TypeOK, Frame
<1>2. /\ stack' = Append(NextLine, [file |-> q, line |-> 1]) /\ q \in deps.present \ procd
      /\ procd' = procd \cup {q}
    BY DEF WalkInto, NoteDep
<1> HIDE DEF q
<1>3. /\ Len(stack') = Len(stack) + 1
      /\ \A i \in 1..Len(stack) : stack'[i] = NextLine[i]
      /\ stack'[Len(stack) + 1] = [file |-> q, line |-> 1]
    BY <1>1, <1>2, PushType
<1> QED
    BY <1>1, <1>2, <1>3, NextLineType, TopType DEF Turned

\* A turn is there to be taken: the file at the top was not read too far.
LEMMA TurnTidy ==
    ASSUME TypeOK, Tidy, phase = "tree", Turned, Top.line <= LineCount(Top.file),
           deps' = deps, root' = root
    PROVE  Tidy'
<1> DEFINE n == Len(stack)
<1>1. stack \in Seq(Frame) /\ stack # <<>> /\ n \in Nat \ {0} /\ Top = stack[n]
    BY TopType DEF TypeOK, Frame
<1>2. \A j \in 1..n : stack[j].file \in deps.present /\ stack[j].line \in Nat \ {0}
    BY <1>1, FrameType
<1>4. \A p \in deps.present : LineCount(p) \in Nat
    BY LineCountType
<1> HIDE DEF n
<1>5. stack'[1].file = root'
    BY <1>1 DEF Tidy, Turned, n
<1>6. ASSUME NEW j \in 2..Len(stack') PROVE stack'[j].file \in procd'
    BY <1>1 DEF Tidy, Turned, n
<1>7. ASSUME NEW j \in 2..Len(stack'), NEW k \in 2..Len(stack'), stack'[j].file = stack'[k].file
      PROVE  j = k
  <2>1. ASSUME NEW i \in 2..Len(stack')
        PROVE  \/ i \in 2..n /\ stack'[i].file = stack[i].file /\ stack[i].file \in procd
               \/ i = n + 1 /\ stack'[i].file \notin procd
      BY <1>1 DEF Tidy, Turned, n
  <2> QED
      BY <1>1, <1>7, <2>1 DEF Tidy, n
<1>8. ASSUME NEW j \in 1..Len(stack') PROVE stack'[j].line <= LineCount(stack'[j].file) + 1
  <2>1. CASE j \in 1..n
    <3>1. stack'[j].file = stack[j].file
        BY <2>1 DEF Turned, n
    <3>2. stack[j].line <= LineCount(stack[j].file) + 1 /\ LineCount(stack[j].file) \in Nat
        BY <1>2, <1>4, <2>1 DEF Tidy, n
    <3>3. CASE j = n
      <4>1. stack'[j].line = stack[j].line + 1
          BY <2>1, <3>3 DEF Turned, n
      <4> QED
          BY <1>1, <1>2, <2>1, <3>1, <3>2, <3>3, <4>1
    <3>4. CASE j # n
      <4>1. stack'[j].line = stack[j].line
          BY <2>1, <3>4 DEF Turned, n
      <4> QED
          BY <3>1, <3>2, <4>1
    <3> QED
        BY <3>3, <3>4
  <2>2. CASE j = n + 1
    <3>1. stack'[j].line = 1 /\ stack'[j].file \in deps.present
        BY <1>1, <2>2 DEF Turned, n
    <3>2. LineCount(stack'[j].file) \in Nat
        BY <1>4, <3>1
    <3> QED
        BY <3>1, <3>2
  <2> QED
      BY <1>1, <2>1, <2>2 DEF Turned, n
<1>9. \A j \in 1..Len(stack') : stack'[j].line <= Len(deps'.build[stack'[j].file]) + 1
                                       + Len(deps'.runtime[stack'[j].file]) + 1
    BY <1>8 DEF LineCount
<1> QED
    BY <1>5, <1>6, <1>7, <1>9 DEF Tidy, LineCount

\* The turn that is taken: the next of the file at the top.
ThisTurn == <<IF Len(stack) = 1 THEN NoRoot ELSE Top.file, Top.line>>

LEMMA ThisTurnLeft == ASSUME TypeOK, Tidy, phase = "tree" PROVE ThisTurn \in TurnsOfWalk
<1> DEFINE n == Len(stack)
<1>1. stack \in Seq(Frame) /\ stack # <<>> /\ n \in Nat \ {0} /\ Top = stack[n]
      /\ Top.file \in deps.present /\ Top.line \in Nat \ {0}
    BY TopType DEF TypeOK, Frame
<1> HIDE DEF n
<1>2. Top.line \in Lines(Top.file)
    BY <1>1, LineCountType DEF Tidy, Lines, n
<1>3. Top.line \in AllLines
    BY <1>1, <1>2 DEF AllLines
<1>4. CASE n = 1
  <2>1. ThisTurn = <<NoRoot, Top.line>> /\ stack[1].line = Top.line /\ Top.line >= Top.line
      BY <1>1, <1>4 DEF ThisTurn, n
  <2>2. <<NoRoot, Top.line>> \in Turns
      BY <1>3 DEF Turns
  <2> QED
      BY <2>1, <2>2 DEF TurnsOfWalk
<1>5. CASE n # 1
  <2>1. n \in 2..n
      BY <1>1, <1>5
  <2>2. ThisTurn = <<Top.file, Top.line>>
      BY <1>5 DEF ThisTurn, n
  <2>3. <<Top.file, Top.line>> \in Turns
      BY <1>1, <1>2, <1>3 DEF Turns
  <2>4. Top.line >= Top.line
      BY <1>1
  <2> QED
      BY <1>1, <2>1, <2>2, <2>3, <2>4 DEF TurnsOfWalk, n
<1> QED
    BY <1>4, <1>5

LEMMA TurnsSame == ASSUME deps' = deps PROVE Turns' = Turns /\ AllLines' = AllLines
<1>1. \A p : Lines(p)' = Lines(p)
    BY DEF Lines, LineCount
<1>2. AllLines' = AllLines
    BY <1>1 DEF AllLines
<1> QED
    BY <1>1, <1>2 DEF Turns

LEMMA TurnTypes ==
    ASSUME TypeOK
    PROVE  \A t \in Turns : /\ t[1] \in deps.present \cup {NoRoot} /\ t[2] \in Nat
                            /\ t[1] = NoRoot \/ t[1] \in Packages
<1>1. AllLines \subseteq Nat
  <2>1. \A p \in deps.present : Lines(p) \subseteq Nat
      BY LineCountType DEF Lines
  <2> QED
      BY <2>1 DEF AllLines
<1>2. deps.present \subseteq Packages
    BY DEF TypeOK, DepFileType
<1> SUFFICES ASSUME NEW t \in Turns
             PROVE  /\ t[1] \in deps.present \cup {NoRoot} /\ t[2] \in Nat
                    /\ t[1] = NoRoot \/ t[1] \in Packages
    OBVIOUS
<1>3. PICK p \in deps.present \cup {NoRoot}, i \in AllLines \cup {0} : t = <<p, i>>
    BY DEF Turns
<1>4. t[1] = p /\ t[2] = i
    BY <1>3
<1> QED
    BY <1>1, <1>2, <1>3, <1>4

LEMMA TurnShrinks ==
    ASSUME TypeOK, Tidy, phase = "tree", Turned, deps' = deps
    PROVE  Fewer(TurnsOfWalk', TurnsOfWalk)
<1> DEFINE n == Len(stack)
<1>1. stack \in Seq(Frame) /\ stack # <<>> /\ n \in Nat \ {0} /\ Top = stack[n]
      /\ Top.file \in deps.present /\ Top.line \in Nat \ {0}
    BY TopType DEF TypeOK, Frame
<1>8. /\ Len(stack') \in {n, n + 1} /\ procd \subseteq procd'
      /\ \A j \in 1..n : stack'[j].file = stack[j].file
      /\ \A j \in 1..n : stack'[j].line = IF j = n THEN stack[j].line + 1 ELSE stack[j].line
      /\ Len(stack') = n + 1 => /\ stack'[n + 1].file \in (deps.present \cap procd') \ procd
                                /\ stack'[n + 1].line = 1
    BY DEF Turned
<1>9. /\ \A j \in 2..n : stack[j].file \in procd
      /\ \A j, k \in 2..n : stack[j].file = stack[k].file => j = k
    BY DEF Tidy
<1>2. \A j \in 1..n : stack[j].line \in Nat \ {0}
    BY <1>1, FrameType
<1> HIDE DEF n
<1>10. Len(stack') = n \/ Len(stack') = n + 1
    BY <1>8
<1>3. Turns' = Turns
    BY TurnsSame
<1>4. \A j \in 1..n : stack'[j].file = stack[j].file /\ stack'[j].line \in Nat
                      /\ stack'[j].line >= stack[j].line
  <2> SUFFICES ASSUME NEW j \in 1..n
               PROVE  /\ stack'[j].file = stack[j].file
                      /\ stack'[j].line \in Nat
                      /\ stack'[j].line >= stack[j].line
      OBVIOUS
  <2>1. stack[j].line \in Nat
      BY <1>2
  <2>2. /\ stack'[j].file = stack[j].file
        /\ stack'[j].line = stack[j].line \/ stack'[j].line = stack[j].line + 1
      BY <1>8
  <2> QED
      BY <2>1, <2>2
<1>5. ASSUME NEW t \in TurnsOfWalk' PROVE t \in TurnsOfWalk
  <2>1. t \in Turns /\ t[2] \in Nat
      BY <1>3, TurnTypes DEF TurnsOfWalk
  <2>2. CASE t[1] = NoRoot /\ t[2] >= stack'[1].line
    <3>1. t[2] >= stack[1].line
        BY <1>1, <1>2, <1>4, <2>1, <2>2
    <3> QED
        BY <2>1, <2>2, <3>1 DEF TurnsOfWalk
  <2>3. CASE t[1] \in deps.present \ procd'
      BY <1>8, <2>1, <2>3 DEF TurnsOfWalk
  <2>4. CASE \E j \in 2..Len(stack') : t[1] = stack'[j].file /\ t[2] >= stack'[j].line
    <3>1. PICK j \in 2..Len(stack') : t[1] = stack'[j].file /\ t[2] >= stack'[j].line
        BY <2>4
    <3>2. CASE j \in 2..n
      <4>1. t[1] = stack[j].file /\ t[2] >= stack[j].line
          BY <1>2, <1>4, <2>1, <3>1, <3>2
      <4> QED
          BY <2>1, <3>2, <4>1 DEF TurnsOfWalk, n
    <3>3. CASE j = n + 1
      <4>1. t[1] \in deps.present \ procd
          BY <1>1, <1>8, <3>1, <3>3
      <4> QED
          BY <2>1, <4>1 DEF TurnsOfWalk
    <3> QED
        BY <1>1, <1>8, <3>1, <3>2, <3>3
  <2> QED
      BY <1>5, <2>2, <2>3, <2>4 DEF TurnsOfWalk
<1>6. ThisTurn \in TurnsOfWalk
    BY ThisTurnLeft
<1>7. ThisTurn \notin TurnsOfWalk'
  <2>1. CASE n = 1
    <3>1. ThisTurn = <<NoRoot, Top.line>> /\ stack'[1].line = Top.line + 1
        BY <1>1, <1>8, <2>1 DEF ThisTurn, n
    <3>2. NoRoot \notin deps'.present
        BY DEF TypeOK, DepFileType
    <3>3. ~(Top.line >= Top.line + 1)
        BY <1>1
    <3>4. \A j \in 2..Len(stack') : stack'[j].file # NoRoot
      <4>1. ASSUME NEW j \in 2..Len(stack') PROVE j = n + 1
        <5>2. PICK m \in Nat : m = Len(stack') /\ (m = n \/ m = n + 1)
            BY <1>1, <1>10
        <5>1. j \in Nat /\ 2 <= j /\ j <= n + 1
            BY <1>1, <2>1, <5>2
        <5> QED
            BY <2>1, <5>1
      <4> QED
          BY <1>1, <1>8, <3>2, <4>1
    <3> QED
        BY <3>1, <3>2, <3>3, <3>4 DEF TurnsOfWalk
  <2>2. CASE n # 1
    <3>5. ThisTurn = <<Top.file, Top.line>>
        BY <2>2 DEF ThisTurn, n
    <3>1. ThisTurn = <<Top.file, Top.line>> /\ n \in 2..n /\ stack'[n].line = Top.line + 1
        BY <1>1, <1>8, <2>2, <3>5
    <3>2. Top.file \in procd /\ Top.file # NoRoot
        BY <1>1, <1>9, <3>1 DEF TypeOK, DepFileType
    <3>3. Top.file \in procd'
        BY <1>8, <3>2
    <3>4. ASSUME NEW j \in 2..Len(stack'), stack'[j].file = Top.file
          PROVE  ~(Top.line >= stack'[j].line)
      <4>1. j # n + 1
          BY <1>8, <3>2, <3>4
      <4>2. j \in 2..n
          BY <1>1, <1>8, <4>1
      <4>3. j = n
          BY <1>1, <1>4, <1>9, <3>1, <3>4, <4>2
      <4> QED
          BY <1>1, <3>1, <4>3
    <3> QED
        BY <3>1, <3>2, <3>3, <3>4 DEF TurnsOfWalk
  <2> QED
      BY <2>1, <2>2
<1> QED
    BY <1>5, <1>6, <1>7 DEF Fewer

\* The file at the top was read to its end: its last turn is not to come.
LEMMA PopShrinks ==
    ASSUME TypeOK, Tidy, phase = "tree", deps' = deps, procd' = procd, Len(stack) > 1,
           stack' = SubSeq(stack, 1, Len(stack) - 1)
    PROVE  Fewer(TurnsOfWalk', TurnsOfWalk)
<1> DEFINE n == Len(stack)
<1>1. stack \in Seq(Frame) /\ stack # <<>> /\ n \in Nat \ {0} /\ Top = stack[n]
      /\ Top.file \in deps.present /\ Top.line \in Nat \ {0}
    BY TopType DEF TypeOK, Frame
<1>2. n > 1 /\ Len(stack') = n - 1 /\ \A i \in 1..(n - 1) : stack'[i] = stack[i]
    BY <1>1, PopType
<1>3. /\ \A j \in 2..n : stack[j].file \in procd
      /\ \A j, k \in 2..n : stack[j].file = stack[k].file => j = k
    BY DEF Tidy
<1> HIDE DEF n
<1>4. \A j \in 1..(n - 1) : j \in 1..n
    BY <1>1
<1>5. \A j \in 2..(n - 1) : j \in 1..(n - 1) /\ j \in 2..n /\ j # n
    BY <1>1
<1>6. 1 \in 1..(n - 1) /\ n \in 2..n
    BY <1>1, <1>2
<1>7. TurnsOfWalk' \subseteq TurnsOfWalk
    BY <1>2, <1>5, <1>6, TurnsSame DEF TurnsOfWalk, n
<1>8. ThisTurn \in TurnsOfWalk
    BY ThisTurnLeft
<1>9. ThisTurn \notin TurnsOfWalk'
  <2>1. ThisTurn = <<Top.file, Top.line>> /\ Top.file \in procd
      BY <1>1, <1>2, <1>3, <1>6 DEF ThisTurn, n
  <2>2. Top.file # NoRoot
      BY <1>1 DEF TypeOK, DepFileType
  <2>3. \A j \in 2..(n - 1) : stack'[j].file # Top.file
      BY <1>1, <1>2, <1>3, <1>5, <1>6
  <2> QED
      BY <1>2, <2>1, <2>2, <2>3 DEF TurnsOfWalk
<1> QED
    BY <1>7, <1>8, <1>9 DEF Fewer

LEMMA ReturnTidy == ASSUME TypeOK, Tidy, Return PROVE Tidy'
<1> SUFFICES ASSUME phase' = "tree" PROVE Tidy'
    BY DEF Tidy
<1>1. stack \in Seq(Frame) /\ stack # <<>> /\ deps' = deps /\ procd' = procd /\ phase = "tree"
    BY DEF Return, TypeOK, Frame
<1>2. root' = root /\ Len(stack) > 1
    BY DEF Return, EndOfTree
<1>3. /\ Len(stack') = Len(stack) - 1 /\ Len(stack) \in Nat
      /\ \A i \in 1..(Len(stack) - 1) : stack'[i] = stack[i]
    BY <1>1, PopType DEF Return
<1>4. 1 \in 1..(Len(stack) - 1)
    BY <1>2, <1>3
<1>5. \A i \in 2..(Len(stack) - 1) : i \in 1..(Len(stack) - 1) /\ i \in 2..Len(stack)
    BY <1>3
<1>6. \A i \in 1..(Len(stack) - 1) : i \in 1..Len(stack)
    BY <1>3
<1>7. \A i \in 1..Len(stack') :
          stack'[i].line <= Len(deps.build[stack'[i].file]) + 1 + Len(deps.runtime[stack'[i].file]) + 1
    BY <1>1, <1>3, <1>6 DEF Tidy, LineCount
<1> QED
    BY <1>1, <1>2, <1>3, <1>4, <1>5, <1>7 DEF Tidy, LineCount

LEMMA BeginRootTidy == ASSUME TypeOK, BeginRoot PROVE Tidy'
<1> SUFFICES ASSUME phase' = "tree" PROVE Tidy'
    BY DEF Tidy
<1> DEFINE r == Head(todo)
<1>1. /\ stack' = <<[file |-> r, line |-> 1]>> /\ root' = r /\ r \in deps.present /\ deps' = deps
    BY DEF BeginRoot
<1> HIDE DEF r
<1>2. Len(stack') = 1 /\ stack'[1].file = r /\ stack'[1].line = 1
    BY <1>1
<1>3. 1 <= Len(deps.build[r]) + 1 + Len(deps.runtime[r]) + 1
  <2>1. LineCount(r) \in Nat
      BY <1>1, LineCountType
  <2>2. \A m \in Nat : 1 <= m + 1
      OBVIOUS
  <2>3. 1 <= LineCount(r) + 1
      BY <2>1, <2>2
  <2> QED
      BY <2>3 DEF LineCount
<1>4. ASSUME NEW j \in 1..Len(stack')
      PROVE  stack'[j].line <=
                 Len(deps'.build[stack'[j].file]) + 1 + Len(deps'.runtime[stack'[j].file]) + 1
  <2>1. j = 1
      BY <1>2
  <2>2. stack'[j].line = 1 /\ stack'[j].file = r
      BY <1>2, <2>1
  <2> QED
      BY <1>1, <1>3, <2>2
<1>5. \A j \in 2..Len(stack') : FALSE
    BY <1>2
<1> QED
    BY <1>1, <1>2, <1>4, <1>5 DEF Tidy, LineCount

\* SkipDep, WriteSelf and WalkInto take a line that is there.
LEMMA LineIsThere ==
    ASSUME TypeOK, SkipDep \/ WriteSelf \/ WalkInto
    PROVE  /\ Turned /\ phase = "tree" /\ phase' = "tree" /\ Top.line <= LineCount(Top.file)
           /\ deps' = deps /\ root' = root /\ todo' = todo
<1>1. CASE SkipDep \/ WalkInto
    BY <1>1, SkipDepTurned, WalkIntoTurned DEF SkipDep, WalkInto, AtDep
<1>2. CASE WriteSelf
  <2>1. phase = "tree" /\ Top.file \in deps.present
      BY <1>2, TopType DEF WriteSelf, TypeOK, Frame
  <2>2. deps.build[Top.file] \in Seq(Packages) /\ deps.runtime[Top.file] \in Seq(Packages)
      BY <2>1 DEF TypeOK, DepFileType
  <2>3. Len(deps.build[Top.file]) \in Nat /\ Len(deps.runtime[Top.file]) \in Nat
      BY <2>2
  <2>4. \A m, n \in Nat : m + 1 <= m + 1 + n
      OBVIOUS
  <2>5. SelfLine(Top.file) <= LineCount(Top.file)
      BY <2>3, <2>4, Zenon DEF SelfLine, LineCount
  <2> QED
      BY <1>2, <2>1, <2>5, SkipDepTurned DEF WriteSelf
<1> QED
    BY <1>1, <1>2

LEMMA TidyStep == TypeOK /\ Tidy /\ [Next]_vars => Tidy'
<1> SUFFICES ASSUME TypeOK, Tidy, [Next]_vars PROVE Tidy'
    OBVIOUS
<1>1. CASE UNCHANGED vars
  <2>1. UNCHANGED <<deps, procd, stack, root, phase>>
      BY <1>1 DEF vars
  <2> QED
      BY <2>1 DEF Tidy, LineCount
<1>2. CASE SkipRoot \/ Finish \/ Crash \/ \E q \in Requests : Start(q)
  <2>1. phase' # "tree"
      BY <1>2 DEF SkipRoot, Finish, Crash, Start
  <2> QED
      BY <2>1 DEF Tidy
<1>3. CASE SkipDep \/ WriteSelf \/ WalkInto
    BY <1>3, LineIsThere, TurnTidy
<1> QED
    BY <1>1, <1>2, <1>3, BeginRootTidy, ReturnTidy DEF Next, Step

-------------------------------------------------------------------------------
\* Every step of a run takes a turn

LEMMA FewerInWalk ==
    ASSUME NEW n \in Nat, NEW V, NEW W, Fewer(V, W)
    PROVE  Fewer(TurnsWith(n, V), TurnsWith(n, W))
<1>1. PICK t \in W : t \notin V
    BY DEF Fewer
<1>2. <<n, t>> \in TurnsWith(n, W)
    BY DEF TurnsWith
<1>3. <<n, t>> \notin TurnsWith(n, V)
  <2>1. n \notin 0..(n - 1)
      OBVIOUS
  <2> QED
      BY <1>1, <2>1 DEF TurnsWith
<1>4. TurnsWith(n, V) \subseteq TurnsWith(n, W)
    BY DEF Fewer, TurnsWith
<1> QED
    BY <1>2, <1>3, <1>4 DEF Fewer

LEMMA FewerWalks ==
    ASSUME NEW n \in Nat \ {0}, NEW W, W # {}
    PROVE  Fewer(TurnsWith(n - 1, Turns), TurnsWith(n, W))
<1>1. PICK t \in W : TRUE
    OBVIOUS
<1>2. <<n, t>> \in TurnsWith(n, W)
    BY DEF TurnsWith
<1>3. <<n, t>> \notin TurnsWith(n - 1, Turns)
  <2>1. n \notin 0..((n - 1) - 1) /\ n # n - 1
      OBVIOUS
  <2> QED
      BY <2>1 DEF TurnsWith
<1>4. TurnsWith(n - 1, Turns) \subseteq TurnsWith(n, W)
  <2>1. 0..((n - 1) - 1) \subseteq 0..(n - 1) /\ n - 1 \in 0..(n - 1)
      OBVIOUS
  <2> QED
      BY <2>1 DEF TurnsWith
<1> QED
    BY <1>2, <1>3, <1>4 DEF Fewer

LEMMA FirstTurn == <<NoRoot, 0>> \in Turns
BY DEF Turns

LEMMA StepShrinks == ASSUME TypeOK, Tidy, Step PROVE Fewer(TurnsLeft', TurnsLeft)
<1> DEFINE n == Len(todo)
<1>1. todo \in Seq(Packages) /\ n \in Nat
    BY DEF TypeOK
<1>2. deps' = deps
    BY DEF Step, SkipRoot, BeginRoot, Finish, SkipDep, WalkInto, WriteSelf, Return
<1>3. Turns' = Turns /\ Turns # {}
    BY <1>2, TurnsSame, FirstTurn
<1>4. todo # <<>> => n \in Nat \ {0} /\ Len(Tail(todo)) = n - 1
    BY <1>1
<1>5. \A m, W : TurnsWith(m, W)' = TurnsWith(m, W)
    BY <1>3 DEF TurnsWith
<1> HIDE DEF n
<1>6. CASE SkipRoot
  <2>1. TurnsLeft = TurnsWith(n, Turns) /\ TurnsLeft' = TurnsWith(n - 1, Turns)
      BY <1>3, <1>4, <1>6 DEF SkipRoot, NextRoot, TurnsLeft, TurnsWith, n
  <2> QED
      BY <1>3, <1>4, <1>6, <2>1, FewerWalks DEF SkipRoot
<1>7. CASE BeginRoot
  <2>1. TurnsLeft = TurnsWith(n, Turns)
      BY <1>7 DEF BeginRoot, TurnsLeft, n
  <2>2. CASE phase' = "idle"
    <3>1. TurnsLeft' = {}
        BY <2>2 DEF TurnsLeft
    <3>2. <<n, <<NoRoot, 0>>>> \in TurnsLeft
        BY <2>1, FirstTurn DEF TurnsWith
    <3> QED
        BY <3>1, <3>2 DEF Fewer
  <2>3. CASE phase' = "tree"
    <3>1. TurnsLeft' = TurnsWith(n, TurnsOfWalk')
        BY <1>3, <1>7, <2>3 DEF BeginRoot, TurnsLeft, TurnsWith, n
    <3>2. stack' = <<[file |-> Head(todo), line |-> 1]>>
        BY <1>7, <2>3 DEF BeginRoot
    <3>3. Len(stack') = 1 /\ stack'[1].line = 1
        BY <3>2
    <3>4. <<NoRoot, 0>> \notin TurnsOfWalk'
      <4>1. NoRoot \notin deps'.present
          BY <1>2 DEF TypeOK, DepFileType
      <4> QED
          BY <3>3, <4>1 DEF TurnsOfWalk
    <3>5. Fewer(TurnsOfWalk', Turns)
        BY <1>3, <3>4, FirstTurn DEF Fewer, TurnsOfWalk
    <3> QED
        BY <1>1, <2>1, <3>1, <3>5, FewerInWalk DEF n
  <2> QED
      BY <1>7, <2>2, <2>3 DEF BeginRoot
<1>8. CASE Finish
  <2>1. TurnsLeft' = {} /\ TurnsLeft = TurnsWith(n, Turns)
      BY <1>8 DEF Finish, TurnsLeft, n
  <2>2. <<n, <<NoRoot, 0>>>> \in TurnsLeft
      BY <2>1, FirstTurn DEF TurnsWith
  <2> QED
      BY <2>1, <2>2 DEF Fewer
<1>9. CASE SkipDep \/ WriteSelf \/ WalkInto
  <2>1. Fewer(TurnsOfWalk', TurnsOfWalk) /\ phase = "tree" /\ phase' = "tree" /\ todo' = todo
      BY <1>2, <1>9, LineIsThere, TurnShrinks
  <2>2. TurnsLeft = TurnsWith(n, TurnsOfWalk) /\ TurnsLeft' = TurnsWith(n, TurnsOfWalk')
      BY <1>3, <2>1 DEF TurnsLeft, TurnsWith, n
  <2> QED
      BY <1>1, <2>1, <2>2, FewerInWalk DEF n
<1>10. CASE Return
  <2>1. stack \in Seq(Frame) /\ stack # <<>> /\ Len(stack) \in Nat \ {0} /\ phase = "tree"
      BY <1>10, TopType DEF Return, TypeOK, Frame
  <2>2. TurnsLeft = TurnsWith(n, TurnsOfWalk)
      BY <2>1 DEF TurnsLeft, n
  <2>3. CASE Len(stack) > 1
    <3>1. phase' = phase /\ todo' = todo /\ procd' = procd
          /\ stack' = SubSeq(stack, 1, Len(stack) - 1)
        BY <1>10, <2>3 DEF Return, EndOfTree
    <3>2. Fewer(TurnsOfWalk', TurnsOfWalk)
        BY <1>2, <2>1, <2>3, <3>1, PopShrinks
    <3>3. TurnsLeft' = TurnsWith(n, TurnsOfWalk')
        BY <1>3, <2>1, <3>1 DEF TurnsLeft, TurnsWith, n
    <3> QED
        BY <1>1, <2>2, <3>2, <3>3, FewerInWalk DEF n
  <2>4. CASE ~(Len(stack) > 1)
    <3>1. phase' = "roots" /\ todo' = Tail(todo)
        BY <1>10, <2>4 DEF Return, EndOfTree, NextRoot
    <3>2. todo # <<>>
        BY <2>1 DEF TypeOK
    <3>3. TurnsLeft' = TurnsWith(n - 1, Turns)
        BY <1>3, <1>4, <3>1, <3>2 DEF TurnsLeft, TurnsWith
    <3>4. TurnsOfWalk # {}
        BY <2>1, ThisTurnLeft
    <3> QED
        BY <1>4, <2>2, <3>2, <3>3, <3>4, FewerWalks
  <2> QED
      BY <2>3, <2>4
<1> QED
    BY <1>6, <1>7, <1>8, <1>9, <1>10 DEF Step

\* The turns are finitely many.
LEMMA TurnsFinite ==
    ASSUME TypeOK, IsFiniteSet(Packages)
    PROVE  IsFiniteSet(TurnsLeft)
<1> DEFINE P == deps.present
           f == [p \in P |-> Lines(p)]
           Images == {f[p] : p \in P}
<1>1. IsFiniteSet(P)
    BY FS_Subset DEF TypeOK, DepFileType
<1>2. IsFiniteSet(Images)
  <2>1. f \in Surjection(P, Images)
      BY DEF Surjection
  <2> QED
      BY <1>1, <2>1, FS_Surjection
<1>3. \A p \in P : IsFiniteSet(Lines(p))
    BY LineCountType, FS_Interval DEF Lines
<1>4. IsFiniteSet(AllLines)
  <2>1. AllLines = UNION Images
      BY DEF AllLines
  <2>2. \A T \in Images : IsFiniteSet(T)
      BY <1>3
  <2> QED
      BY <1>2, <2>1, <2>2, FS_UNION
<1>5. IsFiniteSet(P \cup {NoRoot}) /\ IsFiniteSet(AllLines \cup {0})
    BY <1>1, <1>4, FS_Singleton, FS_Union
<1>6. IsFiniteSet((P \cup {NoRoot}) \X (AllLines \cup {0}))
    BY <1>5, FS_Product
<1>7. IsFiniteSet(Turns)
    BY <1>6, FS_Subset DEF Turns
<1> DEFINE n == Len(todo)
<1>8. n \in Nat
    BY DEF TypeOK
<1>11. IsFiniteSet(0..n)
    BY <1>8, FS_Interval
<1>9. IsFiniteSet((0..n) \X Turns)
    BY <1>7, <1>11, FS_Product
<1>10. TurnsLeft \subseteq (0..n) \X Turns
  <2>1. n \in 0..n /\ 0..(n - 1) \subseteq 0..n
      BY <1>8
  <2> QED
      BY <2>1 DEF TurnsLeft, TurnsWith, TurnsOfWalk
<1> QED
    BY <1>9, <1>10, FS_Subset

\* book-blfs-trees.sh comes back from every cycle of the dependencies: each step
\* of a run, and each turn of its recursion, takes one out of finitely many turns
\* and adds none.
THEOREM RunsShrink ==
    ASSUME IsFiniteSet(Packages)
    PROVE  Spec => [](IsFiniteSet(TurnsLeft)) /\ [][Step => Fewer(TurnsLeft', TurnsLeft)]_vars
<1>1. Init => Tidy
    BY DEF Init, Tidy
<1>2. TypeOK /\ Tidy /\ [Next]_vars => Tidy'
    BY TidyStep
<1>3. TypeOK => IsFiniteSet(TurnsLeft)
    BY TurnsFinite
<1>4. TypeOK /\ Tidy => [Step => Fewer(TurnsLeft', TurnsLeft)]_vars
    BY StepShrinks
<1> QED
    BY <1>1, <1>2, <1>3, <1>4, TypeOKHolds, PTL DEF Spec
=============================================================================
