--------------------------- MODULE PackagingProofs ----------------------------
(***************************************************************************)
(* Proofs about Packaging, for any scripts and files, any plan and any     *)
(* number of kills, failures and starts.                                   *)
(*                                                                         *)
(* While a script runs, what is newer than its timestamp and what was not  *)
(* there before is its own; when it ended, its second log has all it       *)
(* installed and left.  The package logs are made of these two, and what   *)
(* is to do while the archives are made are the logs without an archive.   *)
(***************************************************************************)
EXTENDS Packaging, OrdersProofs

PlanType == plan \in Plans /\ at \in 1..(Len(plan) + 1)

ClockType ==
    /\ time \in [Files -> Nat] /\ clock \in Nat /\ timestamp \in Nat
    /\ \A f \in Files : time[f] < clock
    /\ timestamp < clock /\ Old < clock

LogType ==
    /\ difflog1 \in [DOMAIN difflog1 -> SUBSET Files]
    /\ DOMAIN difflog1 \subseteq Elements(plan)
    /\ difflog2 \in [DOMAIN difflog2 -> [files : SUBSET Files, newer : SUBSET Files]]
    /\ DOMAIN difflog2 \subseteq DOMAIN difflog1
    /\ pc \in {"script", "touch"} => plan[at] \in DOMAIN difflog1

ScriptType ==
    /\ pc \in {"make", "script", "touch", "combine", "archive"}
    /\ left \subseteq Files
    /\ pc \in {"script", "touch"} => at <= Len(plan)
    /\ pc # "make" => result = "none"

ArchiveType ==
    /\ pkglog \in [DOMAIN pkglog -> SUBSET Files] /\ DOMAIN pkglog \subseteq Scripts
    /\ archives \in [DOMAIN archives -> [files : SUBSET Files, book : {"lfs", "blfs"}]]
    /\ DOMAIN archives \subseteq Scripts
    /\ todo \in Seq(Scripts)
    /\ lfsList \in BOOLEAN /\ errexit \in BOOLEAN /\ tarFailed \in BOOLEAN
    /\ lfsBld \in {"lfs", "blfs"} /\ result \in {"none", "success", "failed"}

TypeOK == PlanType /\ ClockType /\ LogType /\ ScriptType /\ ArchiveType

-------------------------------------------------------------------------------
\* Operators

LEMMA WithType ==
    ASSUME NEW T, NEW logs, logs \in [DOMAIN logs -> T], NEW s, NEW log \in T
    PROVE  With(logs, s, log) \in [DOMAIN With(logs, s, log) -> T]
BY DEF With

\* The script make is at
LEMMA AtPlan ==
    ASSUME PlanType, at <= Len(plan)
    PROVE  /\ plan \in Seq(Scripts) /\ at \in 1..Len(plan) /\ Len(plan) \in Nat
           /\ plan[at] \in Scripts /\ plan[at] \in Elements(plan)
           /\ Installs[plan[at]] \subseteq Files /\ Removes[plan[at]] \subseteq Files
<1>1. plan \in Seq(Scripts) /\ at \in Nat /\ at >= 1 /\ Len(plan) \in Nat
    BY PackagingAssumption DEF PlanType
<1>2. at \in 1..Len(plan)
    BY <1>1
<1>3. plan[at] \in Scripts /\ plan[at] \in Elements(plan)
    BY <1>1, <1>2 DEF Elements
<1> QED
    BY <1>1, <1>2, <1>3, PackagingAssumption

LEMMA LogOfType ==
    ASSUME LogType, NEW s
    PROVE  LogOf(s) \subseteq Files
BY DEF LogOf, Existing

LEMMA CombinedFacts ==
    ASSUME ArchiveType
    PROVE  /\ Combined \in [DOMAIN Combined -> SUBSET Files] /\ DOMAIN Combined \subseteq Scripts
           /\ \A t \in DOMAIN pkglog : WholeOf[t] \in DOMAIN Combined
                                       /\ pkglog[t] \subseteq Combined[WholeOf[t]]
           /\ \A s \in DOMAIN Combined : \A f \in Combined[s] :
                 \E t \in DOMAIN pkglog : WholeOf[t] = s /\ f \in pkglog[t]
           /\ \A s \in DOMAIN Combined : \E t \in DOMAIN pkglog : WholeOf[t] = s
<1>1. DOMAIN pkglog \subseteq Scripts /\ \A t \in DOMAIN pkglog : pkglog[t] \subseteq Files
    BY DEF ArchiveType
<1>2. DOMAIN Combined = {WholeOf[t] : t \in DOMAIN pkglog}
    BY DEF Combined
<1>3. \A s \in DOMAIN Combined :
          Combined[s] = UNION {pkglog[t] : t \in {u \in DOMAIN pkglog : WholeOf[u] = s}}
    BY DEF Combined
<1>4. DOMAIN Combined \subseteq Scripts
    BY <1>1, <1>2, PackagingAssumption
<1>5. Combined = [s \in DOMAIN Combined |-> Combined[s]]
    BY DEF Combined
<1>6. \A s \in DOMAIN Combined : Combined[s] \subseteq Files
    BY <1>1, <1>3
<1> QED
    BY <1>2, <1>3, <1>4, <1>5, <1>6

\* What is left to archive: the packages with a log, each after those ls names
\* before it.
InNameOrder(q) == \A j, k \in 1..Len(q) : j < k => Precedes(q[j], q[k])

LEMMA TodoFacts ==
    ASSUME NEW D, D \subseteq Scripts
    PROVE  LET q == Without(Alphabet, Scripts \ D) IN
           q \in Seq(Scripts) /\ Elements(q) = D /\ InNameOrder(q)
<1> DEFINE X == Scripts \ D
           q == Without(Alphabet, X)
<1>1. Alphabet \in Seq(Scripts) /\ Elements(Alphabet) = Scripts
    BY PackagingAssumption
<1>6. Scripts \ X = D
    OBVIOUS
<1> HIDE DEF X
<1>2. Elements(q) = D
  <2>1. Elements(q) = Elements(Alphabet) \ X
      BY <1>1, WithoutElements
  <2> QED
      BY <1>1, <1>6, <2>1
<1>3. q \in Seq(Scripts)
    BY <1>1, WithoutLists
<1>4. \E p \in [1..Len(q) -> 1..Len(Alphabet)] :
        /\ \A k \in 1..Len(q) : q[k] = Alphabet[p[k]]
        /\ \A j, k \in 1..Len(q) : j < k <=> p[j] < p[k]
    BY <1>1, WithoutLists
<1> HIDE DEF q
<1>5. InNameOrder(q)
  <2>1. PICK p \in [1..Len(q) -> 1..Len(Alphabet)] :
        /\ \A k \in 1..Len(q) : q[k] = Alphabet[p[k]]
        /\ \A j, k \in 1..Len(q) : j < k <=> p[j] < p[k]
      BY <1>4
  <2> QED
      BY <2>1 DEF InNameOrder, Precedes
<1> QED
    BY <1>2, <1>3, <1>5 DEF q, X

LEMMA TailFacts ==
    ASSUME NEW q \in Seq(Scripts), q # <<>>, NEW s, s = Head(q)
    PROVE  /\ Tail(q) \in Seq(Scripts) /\ s \in Scripts /\ Elements(q) = Elements(Tail(q)) \cup {s}
           /\ InNameOrder(q) => InNameOrder(Tail(q)) /\ \A t \in Elements(Tail(q)) : Precedes(s, t)
<1>1. /\ Tail(q) \in Seq(Scripts) /\ Len(q) \in Nat /\ Len(Tail(q)) = Len(q) - 1 /\ Len(q) >= 1
      /\ s = q[1] /\ s \in Scripts
      /\ \A i \in 1..Len(Tail(q)) : Tail(q)[i] = q[i + 1] /\ i + 1 \in 1..Len(q)
    OBVIOUS
<1> DEFINE w == Tail(q)
<1> HIDE DEF w
<1>2. ASSUME NEW i \in 1..Len(q) PROVE q[i] = s \/ \E k \in 1..Len(w) : q[i] = w[k]
  <2>1. i = 1 \/ (i - 1 \in 1..Len(w) /\ i = (i - 1) + 1)
      BY <1>1 DEF w
  <2> QED
      BY <1>1, <2>1 DEF w
<1>3. Elements(q) = Elements(w) \cup {s}
  <2>1. \A k \in 1..Len(w) : \E i \in 1..Len(q) : w[k] = q[i]
      BY <1>1 DEF w
  <2>2. s \in Elements(q)
      BY <1>1 DEF Elements
  <2>3. Elements(w) \subseteq Elements(q)
      BY <2>1 DEF Elements
  <2>4. Elements(q) \subseteq Elements(w) \cup {s}
      BY <1>2 DEF Elements
  <2> QED
      BY <2>2, <2>3, <2>4
<1>4. ASSUME InNameOrder(q) PROVE InNameOrder(w) /\ \A t \in Elements(w) : Precedes(s, t)
  <2>1. ASSUME NEW j \in 1..Len(w), NEW k \in 1..Len(w), j < k PROVE Precedes(w[j], w[k])
    <3>1. j + 1 \in 1..Len(q) /\ k + 1 \in 1..Len(q) /\ j + 1 < k + 1
        BY <1>1, <2>1 DEF w
    <3> QED
        BY <1>1, <1>4, <3>1 DEF InNameOrder, w
  <2>2. ASSUME NEW k \in 1..Len(w) PROVE Precedes(s, w[k])
    <3>1. 1 \in 1..Len(q) /\ k + 1 \in 1..Len(q) /\ 1 < k + 1
        BY <1>1 DEF w
    <3> QED
        BY <1>1, <1>4, <3>1 DEF InNameOrder, w
  <2> QED
      BY <2>1, <2>2 DEF InNameOrder, Elements
<1> QED
    BY <1>1, <1>3, <1>4 DEF w

-------------------------------------------------------------------------------
\* Types

LEMMA InitType == Init => TypeOK
<1> SUFFICES ASSUME Init PROVE TypeOK
    OBVIOUS
<1>1. PlanType
  <2>1. plan \in Plans /\ at = 1 /\ Len(plan) \in Nat
      BY PackagingAssumption DEF Init
  <2> QED
      BY <2>1 DEF PlanType
<1>2. ClockType
    BY DEF Init, ClockType, Absent, Old
<1>3. LogType
    BY DEF Init, LogType, NoLogs
<1>4. ScriptType
    BY DEF Init, ScriptType
<1>5. ArchiveType
  <2>1. NoLogs \in [DOMAIN NoLogs -> SUBSET Files] /\ DOMAIN NoLogs \subseteq Scripts
      BY DEF NoLogs
  <2>2. NoLogs \in [DOMAIN NoLogs -> [files : SUBSET Files, book : {"lfs", "blfs"}]]
      BY DEF NoLogs
  <2>3. lfsList \in BOOLEAN
      BY PackagingAssumption DEF Init
  <2>4. pkglog = NoLogs /\ archives = NoLogs
      BY DEF Init
  <2>8. todo = <<>> /\ errexit = TRUE /\ tarFailed = FALSE /\ lfsBld = "blfs" /\ result = "none"
      BY DEF Init
  <2>9. <<>> \in Seq(Scripts)
      OBVIOUS
  <2>5. todo \in Seq(Scripts) /\ errexit \in BOOLEAN /\ tarFailed \in BOOLEAN
        /\ lfsBld \in {"lfs", "blfs"} /\ result \in {"none", "success", "failed"}
      BY <2>8, <2>9, Zenon
  <2>6. pkglog \in [DOMAIN pkglog -> SUBSET Files] /\ DOMAIN pkglog \subseteq Scripts
      BY <2>1, <2>4
  <2>7. /\ archives \in [DOMAIN archives -> [files : SUBSET Files, book : {"lfs", "blfs"}]]
        /\ DOMAIN archives \subseteq Scripts
      BY <2>1, <2>2, <2>4
  <2> QED
      BY <2>3, <2>5, <2>6, <2>7, Zenon DEF ArchiveType
<1> QED
    BY <1>1, <1>2, <1>3, <1>4, <1>5 DEF TypeOK

\* Steps of a build leave the archives alone, steps of the archiving the build.
LEMMA BuildFrame ==
    ASSUME UNCHANGED archiveVars
    PROVE  UNCHANGED <<pkglog, errexit, lfsBld, todo, archives, tarFailed>>
BY DEF archiveVars

LEMMA ArchiveFrame ==
    ASSUME UNCHANGED buildVars
    PROVE  UNCHANGED <<time, clock, at, left, timestamp, difflog1, difflog2>>
BY DEF buildVars

LEMMA StartScriptType == ASSUME TypeOK, StartScript PROVE TypeOK'
<1>1. /\ pc = "make" /\ at <= Len(plan) /\ timestamp' = clock /\ clock' = clock + 1
      /\ difflog1' = With(difflog1, plan[at], Existing) /\ left' = Installs[plan[at]]
      /\ pc' = "script" /\ result' = "none"
      /\ plan' = plan /\ lfsList' = lfsList /\ time' = time /\ at' = at /\ difflog2' = difflog2
    BY DEF StartScript
<1>2. UNCHANGED <<pkglog, errexit, lfsBld, todo, archives, tarFailed>>
    BY BuildFrame DEF StartScript
<1>3. plan[at] \in Elements(plan) /\ left' \subseteq Files
    BY <1>1, AtPlan DEF TypeOK
<1>4. PlanType' /\ ScriptType' /\ ArchiveType'
    BY <1>1, <1>2, <1>3 DEF TypeOK, PlanType, ScriptType, ArchiveType
<1>5. ClockType'
    BY <1>1 DEF TypeOK, ClockType, Old
<1>6. LogType'
  <2>1. Existing \in SUBSET Files
      BY DEF Existing
  <2>2. difflog1 \in [DOMAIN difflog1 -> SUBSET Files]
      BY DEF TypeOK, LogType
  <2>3. difflog1' \in [DOMAIN difflog1' -> SUBSET Files]
      BY <1>1, <2>1, <2>2, WithType
  <2>4. DOMAIN difflog1' = DOMAIN difflog1 \cup {plan[at]}
      BY <1>1 DEF With
  <2> QED
      BY <1>1, <1>3, <2>3, <2>4 DEF TypeOK, LogType
<1> QED
    BY <1>4, <1>5, <1>6 DEF TypeOK

LEMMA InstallFileType == ASSUME TypeOK, NEW f \in Files, InstallFile(f) PROVE TypeOK'
<1>1. /\ pc = "script" /\ f \in left /\ left' = left \ {f} /\ clock' = clock + 1
      /\ time' = [time EXCEPT ![f] = IF f \in KeepsTime THEN Old ELSE clock]
      /\ plan' = plan /\ lfsList' = lfsList /\ pc' = pc /\ at' = at /\ timestamp' = timestamp
      /\ difflog1' = difflog1 /\ difflog2' = difflog2 /\ result' = result
    BY DEF InstallFile
<1>2. UNCHANGED <<pkglog, errexit, lfsBld, todo, archives, tarFailed>>
    BY BuildFrame DEF InstallFile
<1>3. PlanType' /\ ScriptType' /\ ArchiveType' /\ LogType'
    BY <1>1, <1>2 DEF TypeOK, PlanType, ScriptType, ArchiveType, LogType
<1>4. ClockType'
  <2>1. /\ time \in [Files -> Nat] /\ clock \in Nat /\ timestamp \in Nat
        /\ \A g \in Files : time[g] < clock
        /\ timestamp < clock /\ Old < clock
      BY DEF TypeOK, ClockType
  <2>2. Old \in Nat /\ Old <= clock
      BY <2>1 DEF Old
  <2> DEFINE new == IF f \in KeepsTime THEN Old ELSE clock
  <2>3. new \in Nat /\ new < clock + 1
      BY <2>1, <2>2
  <2>4. time' = [time EXCEPT ![f] = new]
      BY <1>1
  <2> HIDE DEF new
  <2> QED
      BY <1>1, <2>1, <2>3, <2>4 DEF ClockType, Old
<1> QED
    BY <1>3, <1>4 DEF TypeOK

LEMMA EndScriptFacts ==
    ASSUME TypeOK, EndScript
    PROVE  /\ pc = "script" /\ left = {} /\ pc' = "touch" /\ at <= Len(plan)
           /\ time' = [f \in Files |-> IF f \in Removes[plan[at]] THEN Absent ELSE time[f]]
           /\ DOMAIN difflog2' = DOMAIN difflog2 \cup {plan[at]}
           /\ difflog2'[plan[at]] = [files |-> Existing', newer |-> Newer(time')]
           /\ \A t \in DOMAIN difflog2 : t # plan[at] => difflog2'[t] = difflog2[t]
           /\ UNCHANGED <<plan, lfsList, clock, at, left, timestamp, difflog1, result>>
           /\ UNCHANGED <<pkglog, errexit, lfsBld, todo, archives, tarFailed>>
<1> DEFINE new == [files |-> Existing', newer |-> Newer(time')]
<1>1. /\ pc = "script" /\ left = {} /\ pc' = "touch"
      /\ time' = [f \in Files |-> IF f \in Removes[plan[at]] THEN Absent ELSE time[f]]
      /\ difflog2' = With(difflog2, plan[at], new)
      /\ UNCHANGED <<plan, lfsList, clock, at, left, timestamp, difflog1, result>>
    BY DEF EndScript, Existing
<1>2. UNCHANGED <<pkglog, errexit, lfsBld, todo, archives, tarFailed>>
    BY BuildFrame DEF EndScript
<1>3. at <= Len(plan)
    BY <1>1 DEF TypeOK, ScriptType
<1> HIDE DEF new
<1>4. /\ DOMAIN difflog2' = DOMAIN difflog2 \cup {plan[at]} /\ difflog2'[plan[at]] = new
      /\ \A t \in DOMAIN difflog2 : t # plan[at] => difflog2'[t] = difflog2[t]
  <2>1. difflog2' = With(difflog2, plan[at], new)
      BY <1>1
  <2> QED
      BY <2>1 DEF With
<1>5. difflog2'[plan[at]] = [files |-> Existing', newer |-> Newer(time')]
    BY <1>4 DEF new
<1> QED
    BY <1>1, <1>2, <1>3, <1>4, <1>5, Zenon

LEMMA EndScriptType == ASSUME TypeOK, EndScript PROVE TypeOK'
<1>1. /\ pc = "script" /\ left = {} /\ pc' = "touch" /\ at <= Len(plan)
      /\ time' = [f \in Files |-> IF f \in Removes[plan[at]] THEN Absent ELSE time[f]]
      /\ UNCHANGED <<plan, lfsList, clock, at, left, timestamp, difflog1, result>>
      /\ UNCHANGED <<pkglog, errexit, lfsBld, todo, archives, tarFailed>>
    BY EndScriptFacts
<1>2. PlanType' /\ ScriptType' /\ ArchiveType'
    BY <1>1 DEF TypeOK, PlanType, ScriptType, ArchiveType
<1>3. ClockType'
    BY <1>1 DEF TypeOK, ClockType, Absent
<1>4. LogType'
  <2> DEFINE T == [files : SUBSET Files, newer : SUBSET Files]
             new == [files |-> Existing', newer |-> Newer(time')]
  <2>1. new \in T
      BY DEF Existing, Newer
  <2>2. difflog2 \in [DOMAIN difflog2 -> T] /\ DOMAIN difflog2 \subseteq DOMAIN difflog1
      BY DEF TypeOK, LogType
  <2>3. difflog2' = With(difflog2, plan[at], new)
      BY DEF EndScript, Existing
  <2> HIDE DEF T, new
  <2>4. difflog2' \in [DOMAIN difflog2' -> T] /\ DOMAIN difflog2' = DOMAIN difflog2 \cup {plan[at]}
      BY <2>1, <2>2, <2>3, WithType DEF With
  <2>5. plan[at] \in DOMAIN difflog1
      BY <1>1 DEF TypeOK, LogType
  <2> QED
      BY <1>1, <2>2, <2>4, <2>5 DEF TypeOK, LogType, T
<1> QED
    BY <1>2, <1>3, <1>4 DEF TypeOK

LEMMA TouchTargetType == ASSUME TypeOK, TouchTarget PROVE TypeOK'
<1>1. /\ pc = "touch" /\ at' = at + 1 /\ pc' = "make"
      /\ UNCHANGED <<plan, lfsList, time, clock, left, timestamp, difflog1, difflog2, result>>
    BY DEF TouchTarget
<1>2. UNCHANGED <<pkglog, errexit, lfsBld, todo, archives, tarFailed>>
    BY BuildFrame DEF TouchTarget
<1>3. at' \in 1..(Len(plan) + 1)
    BY <1>1, AtPlan DEF TypeOK, ScriptType
<1>4. PlanType' /\ ScriptType'
    BY <1>1, <1>3 DEF TypeOK, PlanType, ScriptType
<1>5. ClockType' /\ LogType'
    BY <1>1 DEF TypeOK, ClockType, LogType
<1>6. ArchiveType'
    BY <1>1, <1>2 DEF TypeOK, ArchiveType
<1> QED
    BY <1>4, <1>5, <1>6 DEF TypeOK

LEMMA KillType == ASSUME TypeOK, Kill PROVE TypeOK'
<1>1. /\ pc' = "make" /\ left' = {} /\ todo' = <<>>
      /\ result' \in {result, "failed"}
      /\ UNCHANGED <<plan, lfsList, time, clock, at, timestamp, difflog1, difflog2>>
      /\ UNCHANGED <<pkglog, errexit, lfsBld, archives, tarFailed>>
    BY DEF Kill
<1>2. PlanType' /\ ScriptType'
    BY <1>1 DEF TypeOK, PlanType, ScriptType
<1>3. ClockType' /\ LogType'
    BY <1>1 DEF TypeOK, ClockType, LogType
<1>4. ArchiveType'
  <2>1. <<>> \in Seq(Scripts)
      OBVIOUS
  <2> QED
      BY <1>1, <2>1 DEF TypeOK, ArchiveType
<1> QED
    BY <1>2, <1>3, <1>4 DEF TypeOK

\* Steps that leave what was built alone
LEMMA ArchivingType ==
    ASSUME TypeOK, UNCHANGED <<plan, lfsList, buildVars>>, ArchiveType',
           pc \notin {"script", "touch"}, pc' \in {"make", "combine", "archive"},
           pc' # "make" => result' = "none"
    PROVE  TypeOK'
<1>1. UNCHANGED <<plan, time, clock, at, left, timestamp, difflog1, difflog2>>
    BY DEF buildVars
<1>2. PlanType' /\ ScriptType'
    BY <1>1 DEF TypeOK, PlanType, ScriptType
<1>3. ClockType' /\ LogType'
    BY <1>1 DEF TypeOK, ClockType, LogType
<1> QED
    BY <1>2, <1>3 DEF TypeOK

Logged == {s \in DOMAIN difflog1 : LogOf(s) # {}}

LEMMA MakePkglogsFacts ==
    ASSUME TypeOK, NEW custom, MakePkglogs(custom)
    PROVE  /\ pc = "make" /\ pc' \in {"make", "combine"} /\ UNCHANGED <<plan, lfsList, buildVars>>
           /\ UNCHANGED <<todo, archives>>
           /\ errexit' = TRUE /\ lfsBld' = "blfs" /\ tarFailed' = FALSE
           /\ pkglog' = [s \in Logged |-> LogOf(s)]
           /\ result' \in {"none", "success", "failed"} /\ (pc' = "combine" => result' = "none")
           /\ result' = "success" => Logged = {}
BY DEF MakePkglogs, Logged, NothingDone

LEMMA MakePkglogsType == ASSUME TypeOK, NEW custom, MakePkglogs(custom) PROVE TypeOK'
<1>1. /\ pkglog' = [s \in Logged |-> LogOf(s)] /\ errexit' = TRUE /\ lfsBld' = "blfs"
      /\ tarFailed' = FALSE /\ result' \in {"none", "success", "failed"}
      /\ lfsList' = lfsList /\ todo' = todo /\ archives' = archives
    BY MakePkglogsFacts
<1>2. pkglog' \in [DOMAIN pkglog' -> SUBSET Files] /\ DOMAIN pkglog' \subseteq Scripts
  <2>1. Logged \subseteq Scripts
    <3>0. plan \in Seq(Scripts)
        BY PackagingAssumption DEF TypeOK, PlanType
    <3>1. DOMAIN difflog1 \subseteq Elements(plan) /\ Elements(plan) \subseteq Scripts
        BY <3>0 DEF TypeOK, LogType, Elements
    <3> QED
        BY <3>1 DEF Logged
  <2>2. \A s : LogOf(s) \in SUBSET Files
      BY LogOfType DEF TypeOK
  <2> QED
      BY <1>1, <2>1, <2>2
<1>3. ArchiveType'
    BY <1>1, <1>2, Zenon DEF TypeOK, ArchiveType
<1> QED
    BY <1>3, MakePkglogsFacts, ArchivingType

LEMMA CombinePassesType == ASSUME TypeOK, CombinePasses PROVE TypeOK'
<1>1. /\ pc = "combine" /\ pkglog' = Combined /\ todo' = Without(Alphabet, Scripts \ DOMAIN Combined)
      /\ pc' = "archive" /\ result' = result
      /\ UNCHANGED <<plan, lfsList, buildVars>> /\ UNCHANGED <<errexit, lfsBld, archives, tarFailed>>
    BY DEF CombinePasses
<1>2. Combined \in [DOMAIN Combined -> SUBSET Files] /\ DOMAIN Combined \subseteq Scripts
    BY CombinedFacts DEF TypeOK
<1>3. todo' \in Seq(Scripts)
    BY <1>1, <1>2, TodoFacts
<1>4. result' \in {"none", "success", "failed"} /\ result = "none"
    BY <1>1 DEF TypeOK, ArchiveType, ScriptType
<1>5. ArchiveType'
    BY <1>1, <1>2, <1>3, <1>4 DEF TypeOK, ArchiveType
<1> QED
    BY <1>1, <1>4, <1>5, ArchivingType

LEMMA ArchiveFacts ==
    ASSUME TypeOK, NEW s \in DOMAIN pkglog, NEW content, content \subseteq pkglog[s], Archive(s, content)
    PROVE  /\ pc = "archive" /\ todo # <<>> /\ s = Head(todo) /\ s \in Scripts
           /\ errexit' = ErrexitAfter(s) /\ errexit' \in BOOLEAN
           /\ lfsBld' = BookAfter(s) /\ BookAfter(s) \in {"lfs", "blfs"}
           /\ DOMAIN archives' = DOMAIN archives \cup {s}
           /\ archives'[s] = [files |-> content, book |-> BookAfter(s)]
           /\ \A t \in DOMAIN archives : t # s => archives'[t] = archives[t]
           /\ archives' \in [DOMAIN archives' -> [files : SUBSET Files, book : {"lfs", "blfs"}]]
           /\ UNCHANGED <<plan, lfsList, buildVars>> /\ UNCHANGED pkglog
<1> DEFINE new == [files |-> content, book |-> BookAfter(s)]
           T == [files : SUBSET Files, book : {"lfs", "blfs"}]
<1>1. /\ pc = "archive" /\ todo # <<>> /\ s = Head(todo)
      /\ errexit' = ErrexitAfter(s) /\ lfsBld' = BookAfter(s)
      /\ archives' = With(archives, s, new)
      /\ UNCHANGED <<plan, lfsList, buildVars>> /\ UNCHANGED pkglog
    BY DEF Archive
<1>2. BookAfter(s) \in {"lfs", "blfs"} /\ s \in Scripts
    BY DEF BookAfter, TypeOK, ArchiveType
<1>3. ErrexitAfter(s) \in BOOLEAN
    BY DEF ErrexitAfter, Found, TypeOK, ArchiveType
<1>4. new \in T
  <2>1. content \in SUBSET Files
      BY DEF TypeOK, ArchiveType
  <2> QED
      BY <1>2, <2>1
<1>5. new.files = content /\ archives \in [DOMAIN archives -> T]
    BY DEF TypeOK, ArchiveType
<1>6. new = [files |-> content, book |-> BookAfter(s)]
    OBVIOUS
<1>7. T = [files : SUBSET Files, book : {"lfs", "blfs"}]
    OBVIOUS
<1> HIDE DEF new, T
<1>8. /\ DOMAIN archives' = DOMAIN archives \cup {s} /\ archives'[s] = new
      /\ \A t \in DOMAIN archives : t # s => archives'[t] = archives[t]
  <2>1. archives' = With(archives, s, new)
      BY <1>1
  <2> QED
      BY <2>1 DEF With
<1>9. archives' \in [DOMAIN archives' -> T]
    BY <1>1, <1>4, <1>5, WithType
<1> QED
    BY <1>1, <1>2, <1>3, <1>6, <1>7, <1>8, <1>9, Zenon

LEMMA ArchivePackageType == ASSUME TypeOK, NEW s \in DOMAIN pkglog, ArchivePackage(s) PROVE TypeOK'
<1>1. Archive(s, pkglog[s]) /\ todo' = Tail(todo) /\ pc' = pc /\ tarFailed' = tarFailed /\ result' = result
    BY DEF ArchivePackage
<1>2. /\ pc = "archive" /\ todo # <<>> /\ s \in Scripts /\ errexit' \in BOOLEAN /\ lfsBld' \in {"lfs", "blfs"}
      /\ DOMAIN archives' = DOMAIN archives \cup {s} /\ pkglog' = pkglog
      /\ archives' \in [DOMAIN archives' -> [files : SUBSET Files, book : {"lfs", "blfs"}]]
      /\ UNCHANGED <<plan, lfsList, buildVars>>
    BY <1>1, ArchiveFacts
<1>3. todo' \in Seq(Scripts)
    BY <1>1, <1>2, TailFacts DEF TypeOK, ArchiveType
<1>4. ArchiveType'
    BY <1>1, <1>2, <1>3 DEF TypeOK, ArchiveType
<1> QED
    BY <1>1, <1>2, <1>4, ArchivingType DEF TypeOK, ScriptType

LEMMA TarFailsType ==
    ASSUME TypeOK, NEW s \in DOMAIN pkglog, NEW w \in SUBSET pkglog[s], TarFails(s, w)
    PROVE  TypeOK'
<1>1. /\ Archive(s, w) /\ tarFailed' = TRUE
      /\ \/ errexit' /\ pc' = "make" /\ result' = "failed" /\ todo' = <<>>
         \/ ~errexit' /\ pc' = pc /\ result' = result /\ todo' = Tail(todo)
    BY DEF TarFails
<1>2. /\ pc = "archive" /\ todo # <<>> /\ s \in Scripts /\ errexit' \in BOOLEAN /\ lfsBld' \in {"lfs", "blfs"}
      /\ DOMAIN archives' = DOMAIN archives \cup {s} /\ pkglog' = pkglog
      /\ archives' \in [DOMAIN archives' -> [files : SUBSET Files, book : {"lfs", "blfs"}]]
      /\ UNCHANGED <<plan, lfsList, buildVars>>
    BY <1>1, ArchiveFacts
<1>3. todo' \in Seq(Scripts) /\ result' \in {"none", "success", "failed"}
  <2>1. Tail(todo) \in Seq(Scripts) /\ <<>> \in Seq(Scripts)
      BY <1>2, TailFacts DEF TypeOK, ArchiveType
  <2>2. todo' = Tail(todo) \/ todo' = <<>>
      BY <1>1
  <2>3. result' = result \/ result' = "failed"
      BY <1>1
  <2> QED
      BY <2>1, <2>2, <2>3, Zenon DEF TypeOK, ArchiveType
<1>4. ArchiveType'
    BY <1>1, <1>2, <1>3 DEF TypeOK, ArchiveType
<1> QED
    BY <1>1, <1>2, <1>4, ArchivingType DEF TypeOK, ScriptType

LEMMA FinishArchivesType == ASSUME TypeOK, FinishArchives PROVE TypeOK'
<1>1. /\ pc = "archive" /\ pc' = "make" /\ pkglog' = NoLogs /\ result' = "success"
      /\ UNCHANGED <<plan, lfsList, buildVars>> /\ UNCHANGED <<errexit, lfsBld, todo, archives, tarFailed>>
    BY DEF FinishArchives
<1>2. NoLogs \in [DOMAIN NoLogs -> SUBSET Files] /\ DOMAIN NoLogs \subseteq Scripts
    BY DEF NoLogs
<1>3. ArchiveType'
    BY <1>1, <1>2 DEF TypeOK, ArchiveType
<1> QED
    BY <1>1, <1>3, ArchivingType

LEMMA TypeStep == TypeOK /\ [Next]_vars => TypeOK'
<1> SUFFICES ASSUME TypeOK, [Next]_vars PROVE TypeOK'
    OBVIOUS
<1>1. CASE UNCHANGED vars
  <2>1. UNCHANGED <<plan, lfsList, pc, result>> /\ UNCHANGED buildVars /\ UNCHANGED archiveVars
      BY <1>1 DEF vars
  <2>2. UNCHANGED <<time, clock, at, left, timestamp, difflog1, difflog2>>
        /\ UNCHANGED <<pkglog, errexit, lfsBld, todo, archives, tarFailed>>
      BY <2>1, BuildFrame, ArchiveFrame
  <2>3. PlanType' /\ ScriptType'
      BY <2>1, <2>2 DEF TypeOK, PlanType, ScriptType
  <2>4. ClockType' /\ LogType'
      BY <2>1, <2>2 DEF TypeOK, ClockType, LogType
  <2>5. ArchiveType'
      BY <2>1, <2>2 DEF TypeOK, ArchiveType
  <2> QED
      BY <2>3, <2>4, <2>5 DEF TypeOK
<1>2. CASE Next
    BY <1>2, StartScriptType, EndScriptType, TouchTargetType, KillType, InstallFileType,
       MakePkglogsType, CombinePassesType, FinishArchivesType, ArchivePackageType, TarFailsType DEF Next
<1> QED
    BY <1>1, <1>2

\* The types of the variables: no file is newer than the clock, and only scripts
\* of the plan have logs.
THEOREM TypeOKHolds == Spec => []TypeOK
BY InitType, TypeStep, PTL DEF Spec

-------------------------------------------------------------------------------
\* What the scripts log

\* The scripts that have logs are those make has come to.
Past == \A s \in DOMAIN difflog1 : \E i \in 1..Len(plan) : i <= at /\ s = plan[i]

\* While a script runs, what was not there before and what is newer than its
\* timestamp is its own, and all it has installed is there and can be told.
Running ==
    pc = "script" =>
        /\ left \subseteq Installs[plan[at]]
        /\ Existing \subseteq difflog1[plan[at]] \cup Installs[plan[at]]
        /\ \A f \in Files : time[f] > timestamp => f \in Installs[plan[at]]
        /\ \A f \in Installs[plan[at]] \ left :
              time[f] # Absent /\ (f \in KeepsTime \/ time[f] > timestamp)

\* A script that was killed after its second log has lost no file since.
Again ==
    at <= Len(plan) /\ plan[at] \in DOMAIN difflog2 => difflog2[plan[at]].files \subseteq Existing

\* The two logs of a script differ by files of its own.
OwnLogs ==
    \A s \in DOMAIN difflog2 : Added(s) \subseteq Installs[s]

\* The logs of a script that ended have all it installed and left.
Told(s) ==
    /\ s \in DOMAIN difflog2
    /\ Installs[s] \ Removes[s] \subseteq difflog2[s].files
    /\ Installs[s] \ (Removes[s] \cup KeepsTime) \subseteq difflog2[s].newer

AllTold ==
    /\ \A i \in 1..Len(plan) : i < at => Told(plan[i])
    /\ pc = "touch" => Told(plan[at])

BuildInv == Past /\ Running /\ Again /\ OwnLogs /\ AllTold

LEMMA PlanOnce ==
    ASSUME PlanType
    PROVE  /\ plan \in Seq(Scripts) /\ Len(plan) \in Nat /\ at \in Nat /\ at >= 1
           /\ \A i, j \in 1..Len(plan) : plan[i] = plan[j] => i = j
BY PackagingAssumption DEF PlanType

LEMMA StartScriptBuild == ASSUME TypeOK, BuildInv, StartScript PROVE BuildInv'
<1>1. /\ pc = "make" /\ at <= Len(plan) /\ timestamp' = clock /\ left' = Installs[plan[at]]
      /\ difflog1' = With(difflog1, plan[at], Existing)
      /\ pc' = "script" /\ UNCHANGED <<plan, time, at, difflog2>>
    BY DEF StartScript
<1> DEFINE s == plan[at]
<1>2. at \in 1..Len(plan) /\ s \in Scripts /\ Installs[s] \subseteq Files
    BY <1>1, AtPlan DEF TypeOK
<1>3. Existing' = Existing
    BY <1>1 DEF Existing
<1>4. /\ DOMAIN difflog1' = DOMAIN difflog1 \cup {s} /\ difflog1'[s] = Existing
      /\ \A t \in DOMAIN difflog1 : t # s => difflog1'[t] = difflog1[t]
    BY <1>1 DEF With
<1>5. Past'
    BY <1>1, <1>2, <1>4, PlanOnce DEF BuildInv, Past, TypeOK
<1>6. Running'
  <2>1. \A f \in Files : ~(time[f] > clock)
      BY DEF TypeOK, ClockType
  <2> QED
      BY <1>1, <1>3, <1>4, <2>1 DEF Running
<1>7. Again'
    BY <1>1, <1>3 DEF BuildInv, Again
<1>8. OwnLogs'
  <2>1. ASSUME NEW t \in DOMAIN difflog2
        PROVE  (difflog2[t].files \ difflog1'[t]) \cup difflog2[t].newer \subseteq Installs[t]
    <3>1. (difflog2[t].files \ difflog1[t]) \cup difflog2[t].newer \subseteq Installs[t]
        BY DEF BuildInv, OwnLogs, Added
    <3>2. CASE t = s
        BY <1>1, <1>4, <3>1, <3>2 DEF BuildInv, Again
    <3>3. CASE t # s
        BY <1>4, <3>1, <3>3 DEF TypeOK, LogType
    <3> QED
        BY <3>2, <3>3
  <2> QED
      BY <1>1, <2>1 DEF OwnLogs, Added
<1>9. AllTold'
    BY <1>1 DEF BuildInv, AllTold, Told
<1> QED
    BY <1>5, <1>6, <1>7, <1>8, <1>9 DEF BuildInv

LEMMA InstallFileBuild == ASSUME TypeOK, BuildInv, NEW f \in Files, InstallFile(f) PROVE BuildInv'
<1> DEFINE new == IF f \in KeepsTime THEN Old ELSE clock
<1>1. /\ pc = "script" /\ f \in left /\ left' = left \ {f} /\ time' = [time EXCEPT ![f] = new]
      /\ UNCHANGED <<plan, pc, at, timestamp, difflog1, difflog2>>
    BY DEF InstallFile
<1>2. /\ new \in Nat /\ new # Absent /\ (f \in KeepsTime \/ new > timestamp)
      /\ time \in [Files -> Nat]
    BY DEF TypeOK, ClockType, Old, Absent
<1> HIDE DEF new
<1>3. time'[f] = new /\ \A g \in Files : g # f => time'[g] = time[g]
    BY <1>1, <1>2
<1>4. Existing' = Existing \cup {f}
    BY <1>2, <1>3 DEF Existing
<1>5. Past' /\ OwnLogs' /\ AllTold'
    BY <1>1 DEF BuildInv, Past, OwnLogs, Added, AllTold, Told
<1>6. Again'
    BY <1>1, <1>4 DEF BuildInv, Again
<1>7. Running'
  <2>1. f \in Installs[plan[at]]
      BY <1>1 DEF BuildInv, Running
  <2>2. /\ left' \subseteq Installs[plan[at]]
        /\ Existing' \subseteq difflog1[plan[at]] \cup Installs[plan[at]]
      BY <1>1, <1>4, <2>1 DEF BuildInv, Running
  <2>3. \A g \in Files : time'[g] > timestamp => g \in Installs[plan[at]]
      BY <1>1, <1>3, <2>1 DEF BuildInv, Running
  <2>4. ASSUME NEW g \in Installs[plan[at]] \ left'
        PROVE  time'[g] # Absent /\ (g \in KeepsTime \/ time'[g] > timestamp)
    <3>1. CASE g = f
        BY <1>2, <1>3, <3>1
    <3>2. CASE g # f
      <4>1. g \in Installs[plan[at]] \ left /\ g \in Files
        <5>1. at <= Len(plan)
            BY <1>1 DEF TypeOK, ScriptType
        <5>2. Installs[plan[at]] \subseteq Files
            BY <5>1, AtPlan DEF TypeOK
        <5> QED
            BY <1>1, <3>2, <5>2
      <4> QED
          BY <1>1, <1>3, <3>2, <4>1 DEF BuildInv, Running
    <3> QED
        BY <3>1, <3>2
  <2> QED
      BY <1>1, <2>2, <2>3, <2>4 DEF Running
<1> QED
    BY <1>5, <1>6, <1>7 DEF BuildInv

LEMMA EndScriptBuild == ASSUME TypeOK, BuildInv, EndScript PROVE BuildInv'
<1> DEFINE s == plan[at]
<1>1. /\ pc = "script" /\ left = {} /\ pc' = "touch" /\ at <= Len(plan)
      /\ time' = [f \in Files |-> IF f \in Removes[s] THEN Absent ELSE time[f]]
      /\ DOMAIN difflog2' = DOMAIN difflog2 \cup {s}
      /\ difflog2'[s] = [files |-> Existing', newer |-> Newer(time')]
      /\ \A t \in DOMAIN difflog2 : t # s => difflog2'[t] = difflog2[t]
      /\ UNCHANGED <<plan, at, left, timestamp, difflog1>>
    BY EndScriptFacts
<1>2. at \in 1..Len(plan) /\ Installs[s] \subseteq Files /\ Removes[s] \subseteq Files
    BY <1>1, AtPlan DEF TypeOK
<1>3. /\ Existing \subseteq difflog1[s] \cup Installs[s]
      /\ \A f \in Files : time[f] > timestamp => f \in Installs[s]
      /\ \A f \in Installs[s] : time[f] # Absent /\ (f \in KeepsTime \/ time[f] > timestamp)
    BY <1>1 DEF BuildInv, Running
<1>4. Existing' = Existing \ Removes[s]
    BY <1>1 DEF Existing
<1>5. /\ difflog2'[s].files = Existing' /\ difflog2'[s].newer = Newer(time')
    BY <1>1
<1>6. Newer(time') \subseteq Installs[s]
  <2>1. ASSUME NEW f \in Files, time'[f] > timestamp PROVE time[f] > timestamp
    <3>1. time'[f] = time[f] \/ time'[f] = Absent
        BY <1>1
    <3>2. ~(Absent > timestamp)
        BY DEF Absent, TypeOK, ClockType
    <3> QED
        BY <2>1, <3>1, <3>2
  <2> QED
      BY <1>3, <2>1 DEF Newer
<1>7. Past' /\ Running'
    BY <1>1 DEF BuildInv, Past, Running
<1>8. Again'
    BY <1>1, <1>5 DEF Again
<1>9. OwnLogs'
  <2>1. ASSUME NEW t \in DOMAIN difflog2', t # s
        PROVE  (difflog2'[t].files \ difflog1[t]) \cup difflog2'[t].newer \subseteq Installs[t]
    <3>1. t \in DOMAIN difflog2 /\ difflog2'[t] = difflog2[t]
        BY <1>1, <2>1
    <3> QED
        BY <3>1 DEF BuildInv, OwnLogs, Added
  <2>2. (difflog2'[s].files \ difflog1[s]) \cup difflog2'[s].newer \subseteq Installs[s]
      BY <1>3, <1>4, <1>5, <1>6
  <2> QED
      BY <1>1, <2>1, <2>2 DEF OwnLogs, Added
<1>10. AllTold'
  <2>1. ASSUME NEW i \in 1..Len(plan), i < at PROVE Told(plan[i])'
    <3>1. plan[i] # s
        BY <1>2, <2>1, PlanOnce DEF TypeOK
    <3>2. Told(plan[i])
        BY <2>1 DEF BuildInv, AllTold
    <3> QED
        BY <1>1, <3>1, <3>2 DEF Told
  <2>2. Told(s)'
    <3>1. ASSUME NEW f \in Installs[s] \ Removes[s]
          PROVE  f \in Existing' /\ (f \in KeepsTime \/ f \in Newer(time'))
      <4>1. f \in Files /\ time'[f] = time[f]
          BY <1>1, <1>2
      <4> QED
          BY <1>3, <4>1 DEF Existing, Newer
    <3>2. s \in DOMAIN difflog2'
        BY <1>1
    <3> QED
        BY <1>1, <1>5, <3>1, <3>2 DEF Told
  <2> QED
      BY <1>1, <2>1, <2>2 DEF AllTold
<1> QED
    BY <1>7, <1>8, <1>9, <1>10 DEF BuildInv

LEMMA TouchTargetBuild == ASSUME TypeOK, BuildInv, TouchTarget PROVE BuildInv'
<1>1. /\ pc = "touch" /\ at' = at + 1 /\ pc' = "make"
      /\ UNCHANGED <<plan, time, left, timestamp, difflog1, difflog2>>
    BY DEF TouchTarget
<1>2. /\ Len(plan) \in Nat /\ at \in Nat
      /\ \A i, j \in 1..Len(plan) : plan[i] = plan[j] => i = j
    BY PlanOnce DEF TypeOK
<1>3. Past'
    BY <1>1, <1>2 DEF BuildInv, Past
<1>4. Running' /\ OwnLogs'
    BY <1>1 DEF BuildInv, Running, OwnLogs, Added
<1>5. ASSUME at + 1 <= Len(plan) PROVE plan[at + 1] \notin DOMAIN difflog2
  <2>1. at + 1 \in 1..Len(plan)
      BY <1>2, <1>5
  <2>2. \A i \in 1..Len(plan) : i <= at => plan[at + 1] # plan[i]
      BY <1>2, <2>1
  <2>3. DOMAIN difflog2 \subseteq DOMAIN difflog1
      BY DEF TypeOK, LogType
  <2> QED
      BY <2>2, <2>3 DEF BuildInv, Past
<1>6. Again'
    BY <1>1, <1>5 DEF Again
<1>7. AllTold'
  <2>1. ASSUME NEW i \in 1..Len(plan), i < at + 1 PROVE Told(plan[i])
      BY <1>1, <1>2, <2>1 DEF BuildInv, AllTold
  <2> QED
      BY <1>1, <2>1 DEF AllTold, Told
<1> QED
    BY <1>3, <1>4, <1>6, <1>7 DEF BuildInv

\* Steps that leave the files, the logs and the plan alone
LEMMA OtherBuild ==
    ASSUME BuildInv, UNCHANGED <<plan, at, time, timestamp, difflog1, difflog2>>,
           pc' \notin {"script", "touch"} \/ (pc' = pc /\ left' = left)
    PROVE  BuildInv'
<1>1. Existing' = Existing
    BY DEF Existing
<1>2. Past' /\ Again' /\ OwnLogs'
    BY <1>1 DEF BuildInv, Past, Again, OwnLogs, Added
<1>3. AllTold'
    BY DEF BuildInv, AllTold, Told
<1>4. Running'
    BY <1>1 DEF BuildInv, Running
<1> QED
    BY <1>2, <1>3, <1>4 DEF BuildInv

LEMMA BuildStep == TypeOK /\ BuildInv /\ [Next]_vars => BuildInv'
<1> SUFFICES ASSUME TypeOK, BuildInv, [Next]_vars PROVE BuildInv'
    OBVIOUS
<1> DEFINE Other == /\ UNCHANGED <<plan, at, time, timestamp, difflog1, difflog2>>
                    /\ pc' \notin {"script", "touch"} \/ (pc' = pc /\ left' = left)
<1>1. Kill => Other
    BY DEF Kill
<1>2. ASSUME NEW custom, MakePkglogs(custom) PROVE Other
    BY <1>2, MakePkglogsFacts, ArchiveFrame
<1>3. CombinePasses \/ FinishArchives => Other
  <2>1. CombinePasses \/ FinishArchives => plan' = plan /\ UNCHANGED buildVars /\ pc' \in {"make", "archive"}
      BY DEF CombinePasses, FinishArchives
  <2> QED
      BY <2>1, ArchiveFrame
<1>4. ASSUME NEW s \in DOMAIN pkglog, ArchivePackage(s) \/ \E w \in SUBSET pkglog[s] : TarFails(s, w)
      PROVE  Other
  <2>1. PICK w \in SUBSET pkglog[s] : Archive(s, w) /\ (pc' = pc \/ pc' = "make")
      BY <1>4 DEF ArchivePackage, TarFails
  <2>2. pc = "archive" /\ plan' = plan /\ UNCHANGED buildVars
      BY <2>1, ArchiveFacts
  <2> QED
      BY <2>1, <2>2, ArchiveFrame
<1>5. UNCHANGED vars => Other
  <2>1. UNCHANGED vars => plan' = plan /\ pc' = pc /\ UNCHANGED buildVars
      BY DEF vars
  <2> QED
      BY <2>1, ArchiveFrame
<1>6. CASE Other
    BY <1>6, OtherBuild
<1> QED
    BY <1>1, <1>2, <1>3, <1>4, <1>5, <1>6, StartScriptBuild, EndScriptBuild, TouchTargetBuild,
       InstallFileBuild DEF Next

LEMMA BuildInit == Init => BuildInv
<1> SUFFICES ASSUME Init PROVE BuildInv
    OBVIOUS
<1>1. difflog1 = NoLogs /\ difflog2 = NoLogs /\ pc = "make" /\ at = 1
    BY DEF Init
<1>2. Past /\ Running /\ Again /\ OwnLogs
    BY <1>1 DEF Past, Running, Again, OwnLogs, NoLogs
<1>3. AllTold
    BY <1>1 DEF AllTold
<1> QED
    BY <1>2, <1>3 DEF BuildInv

-------------------------------------------------------------------------------
\* What the archives have

\* The package logs of the passes have files of these scripts only, the joined
\* logs files of the scripts joined.
PkgOwn ==
    /\ pc = "combine" => \A s \in DOMAIN pkglog : s \in Elements(plan) /\ pkglog[s] \subseteq Installs[s]
    /\ pc = "archive" =>
          \A s \in DOMAIN pkglog : pkglog[s] \subseteq UNION {Installs[t] : t \in PassesOf(s)}

\* When all is built, they have all there is to archive.
PkgAll ==
    Built => \A s \in Elements(plan) : \A f \in Wanted(s) :
                /\ pc = "combine" => s \in DOMAIN pkglog /\ f \in pkglog[s]
                /\ pc = "archive" => WholeOf[s] \in DOMAIN pkglog /\ f \in pkglog[WholeOf[s]]

\* A log that is not left to do has its archive, but for failures of tar that
\* are not noticed; without the list of the LFS book none is.
LeftToDo ==
    /\ ~lfsList => errexit
    /\ pc = "archive" =>
          Unnoticed \/ \A s \in DOMAIN pkglog :
                          \/ s \in Elements(todo)
                          \/ s \in DOMAIN archives /\ pkglog[s] \subseteq archives[s].files

\* $LFS_BLD is that of the LFS book only after a package of it.
Book ==
    /\ pc = "combine" => lfsBld = "blfs"
    /\ pc = "archive" =>
          /\ InNameOrder(todo)
          /\ lfsBld = "lfs" => \E t \in Scripts : Found(t) /\ \A u \in Elements(todo) : Precedes(t, u)

ArchInv == PkgOwn /\ PkgAll /\ LeftToDo /\ Book /\ Complete /\ Own /\ NamedAfterBook

LEMMA OwnLogOf ==
    ASSUME BuildInv, NEW s
    PROVE  LogOf(s) \subseteq Installs[s]
BY DEF BuildInv, OwnLogs, LogOf

LEMMA WantedLogged ==
    ASSUME TypeOK, BuildInv, Built, NEW s \in Elements(plan), NEW f \in Wanted(s)
    PROVE  s \in DOMAIN difflog1 /\ f \in LogOf(s)
<1>1. PICK i \in 1..Len(plan) : s = plan[i]
    BY DEF Elements
<1>2. i < at
    BY PlanOnce DEF Built, TypeOK
<1>3. Told(s)
    BY <1>1, <1>2 DEF BuildInv, AllTold
<1>4. f \in Installs[s] /\ f \notin Removes[s] /\ f \notin Filtered /\ f \notin Dangling
      /\ f \in Existing /\ (f \in KeepsTime => f \notin difflog1[s])
    BY DEF Wanted, Hidden
<1>5. s \in DOMAIN difflog2 /\ f \in difflog2[s].files /\ (f \in KeepsTime \/ f \in difflog2[s].newer)
    BY <1>3, <1>4 DEF Told
<1>6. f \in Added(s)
    BY <1>4, <1>5 DEF Added
<1>7. s \in DOMAIN difflog1
    BY <1>5 DEF TypeOK, LogType
<1> QED
    BY <1>4, <1>5, <1>6, <1>7 DEF LogOf

\* Steps that make no archive and end without success
LEMMA NoArchive ==
    ASSUME ArchInv, UNCHANGED <<plan, lfsList, archives>>, result' # "success"
    PROVE  Complete' /\ Own' /\ NamedAfterBook'
<1>1. Complete'
    BY DEF Complete
<1>2. Own'
    BY DEF ArchInv, Own, PassesOf
<1>3. NamedAfterBook'
    BY DEF ArchInv, NamedAfterBook, Found
<1> QED
    BY <1>1, <1>2, <1>3

\* Steps that are not of the archiving, or end it
LEMMA BuildingArch ==
    ASSUME ArchInv, UNCHANGED <<plan, lfsList, errexit, archives>>, result' # "success",
           pc' \notin {"combine", "archive"}
    PROVE  ArchInv'
<1>1. PkgOwn' /\ PkgAll' /\ Book'
    BY DEF PkgOwn, PkgAll, Book
<1>2. LeftToDo'
    BY DEF ArchInv, LeftToDo
<1> QED
    BY <1>1, <1>2, NoArchive DEF ArchInv

LEMMA MakePkglogsArch ==
    ASSUME TypeOK, BuildInv, ArchInv, NEW custom, MakePkglogs(custom) PROVE ArchInv'
<1>1. /\ pc' \in {"make", "combine"} /\ UNCHANGED <<plan, lfsList, buildVars, archives>>
      /\ errexit' = TRUE /\ lfsBld' = "blfs" /\ pkglog' = [s \in Logged |-> LogOf(s)]
      /\ result' = "success" => Logged = {}
    BY MakePkglogsFacts
<1>2. UNCHANGED <<time, at, difflog1>>
    BY <1>1, ArchiveFrame
<1>3. PkgOwn'
  <2>1. ASSUME NEW s \in Logged PROVE s \in Elements(plan) /\ LogOf(s) \subseteq Installs[s]
      BY OwnLogOf DEF Logged, TypeOK, LogType
  <2> QED
      BY <1>1, <2>1 DEF PkgOwn
<1>4. ASSUME Built, NEW s \in Elements(plan), NEW f \in Wanted(s)
      PROVE  s \in Logged /\ f \in LogOf(s)
    BY <1>4, WantedLogged DEF Logged
<1>5. Built' = Built /\ \A s : Wanted(s)' = Wanted(s)
    BY <1>1, <1>2 DEF Built, Wanted, Hidden, Existing
<1>6. PkgAll'
    BY <1>1, <1>4, <1>5 DEF PkgAll
<1>7. LeftToDo' /\ Book'
    BY <1>1 DEF LeftToDo, Book
<1>8. CASE result' # "success"
    BY <1>1, <1>3, <1>6, <1>7, <1>8, NoArchive DEF ArchInv
\* There is nothing to log, and nothing is wanted.
<1>9. CASE result' = "success"
  <2>1. Complete'
      BY <1>1, <1>4, <1>5, <1>9 DEF Complete
  <2>2. Own'
      BY <1>1 DEF ArchInv, Own, PassesOf
  <2>3. NamedAfterBook'
      BY <1>1 DEF ArchInv, NamedAfterBook, Found
  <2> QED
      BY <1>3, <1>6, <1>7, <2>1, <2>2, <2>3 DEF ArchInv
<1> QED
    BY <1>8, <1>9

LEMMA CombinePassesArch == ASSUME TypeOK, BuildInv, ArchInv, CombinePasses PROVE ArchInv'
<1>1. /\ pc = "combine" /\ pc' = "archive" /\ UNCHANGED <<plan, lfsList, buildVars>>
      /\ UNCHANGED <<errexit, lfsBld, archives, tarFailed>>
      /\ pkglog' = Combined /\ todo' = Without(Alphabet, Scripts \ DOMAIN Combined)
      /\ result' = result
    BY DEF CombinePasses
<1>2. result' # "success"
    BY <1>1 DEF TypeOK, ScriptType
<1>3. UNCHANGED <<time, at, difflog1>>
    BY <1>1, ArchiveFrame
<1>4. /\ DOMAIN Combined \subseteq Scripts
      /\ \A t \in DOMAIN pkglog : WholeOf[t] \in DOMAIN Combined /\ pkglog[t] \subseteq Combined[WholeOf[t]]
      /\ \A s \in DOMAIN Combined : \A f \in Combined[s] :
            \E t \in DOMAIN pkglog : WholeOf[t] = s /\ f \in pkglog[t]
    BY CombinedFacts DEF TypeOK
<1>5. todo' \in Seq(Scripts) /\ Elements(todo') = DOMAIN Combined /\ InNameOrder(todo')
    BY <1>1, <1>4, TodoFacts
<1>6. PkgOwn'
  <2>1. ASSUME NEW s \in DOMAIN Combined, NEW f \in Combined[s]
        PROVE  f \in UNION {Installs[t] : t \in PassesOf(s)}
    <3>1. PICK t \in DOMAIN pkglog : WholeOf[t] = s /\ f \in pkglog[t]
        BY <1>4
    <3>2. t \in Elements(plan) /\ f \in Installs[t]
        BY <1>1, <3>1 DEF ArchInv, PkgOwn
    <3> QED
        BY <3>1, <3>2 DEF PassesOf
  <2>2. \A s : PassesOf(s)' = PassesOf(s)
      BY <1>1 DEF PassesOf
  <2> QED
      BY <1>1, <2>1, <2>2 DEF PkgOwn
<1>7. PkgAll'
  <2>1. ASSUME Built, NEW s \in Elements(plan), NEW f \in Wanted(s)
        PROVE  WholeOf[s] \in DOMAIN Combined /\ f \in Combined[WholeOf[s]]
    <3>1. s \in DOMAIN pkglog /\ f \in pkglog[s]
        BY <1>1, <2>1 DEF ArchInv, PkgAll
    <3> QED
        BY <1>4, <3>1
  <2>2. Built' = Built /\ \A s : Wanted(s)' = Wanted(s)
      BY <1>1, <1>3 DEF Built, Wanted, Hidden, Existing
  <2> QED
      BY <1>1, <2>1, <2>2 DEF PkgAll
<1>8. LeftToDo'
    BY <1>1, <1>5 DEF ArchInv, LeftToDo
<1>9. Book'
    BY <1>1, <1>5 DEF ArchInv, Book
<1> QED
    BY <1>1, <1>2, <1>6, <1>7, <1>8, <1>9, NoArchive DEF ArchInv

\* One archive is made, of all files of the log or of a part of them.
LEMMA ArchiveArch ==
    ASSUME TypeOK, BuildInv, ArchInv, NEW s \in DOMAIN pkglog, NEW content, content \subseteq pkglog[s],
           Archive(s, content),
           \/ pc' = "make" /\ result' = "failed"
           \/ /\ pc' = pc /\ result' = result /\ todo' = Tail(todo)
              /\ \/ content = pkglog[s] /\ tarFailed' = tarFailed
                 \/ ~errexit' /\ tarFailed' = TRUE
    PROVE  ArchInv'
<1>1. /\ pc = "archive" /\ todo # <<>> /\ s = Head(todo) /\ s \in Scripts
      /\ errexit' = ErrexitAfter(s) /\ lfsBld' = BookAfter(s)
      /\ DOMAIN archives' = DOMAIN archives \cup {s}
      /\ archives'[s] = [files |-> content, book |-> BookAfter(s)]
      /\ \A t \in DOMAIN archives : t # s => archives'[t] = archives[t]
      /\ UNCHANGED <<plan, lfsList, buildVars>> /\ UNCHANGED pkglog
    BY ArchiveFacts
<1>2. archives'[s].files = content /\ archives'[s].book = BookAfter(s)
    BY <1>1
<1>3. UNCHANGED <<time, at, difflog1>>
    BY <1>1, ArchiveFrame
<1>4. result' # "success" /\ pc' \in {"make", "archive"}
    BY <1>1 DEF TypeOK, ScriptType
<1>5. todo \in Seq(Scripts)
    BY DEF TypeOK, ArchiveType
<1>6. /\ Elements(todo) = Elements(Tail(todo)) \cup {s}
      /\ InNameOrder(todo) => InNameOrder(Tail(todo)) /\ \A t \in Elements(Tail(todo)) : Precedes(s, t)
    BY <1>1, <1>5, TailFacts
<1>7. \A t : PassesOf(t)' = PassesOf(t) /\ Found(t)' = Found(t) /\ Wanted(t)' = Wanted(t)
    BY <1>1, <1>3 DEF PassesOf, Found, Wanted, Hidden, Existing
<1>8. PkgOwn'
    BY <1>1, <1>4, <1>7 DEF ArchInv, PkgOwn
<1>9. PkgAll'
    BY <1>1, <1>3, <1>4, <1>7 DEF ArchInv, PkgAll, Built
<1>10. LeftToDo'
  <2>1. ~lfsList => errexit'
      BY <1>1 DEF ErrexitAfter, ArchInv, LeftToDo
  <2>2. ASSUME pc' = "archive", ~Unnoticed', NEW t \in DOMAIN pkglog
        PROVE  t \in Elements(todo') \/ (t \in DOMAIN archives' /\ pkglog[t] \subseteq archives'[t].files)
    <3>1. content = pkglog[s] /\ tarFailed' = tarFailed /\ todo' = Tail(todo)
        BY <1>1, <2>1, <2>2 DEF Unnoticed
    <3>2. ~Unnoticed
        BY <1>1, <2>2, <3>1 DEF Unnoticed
    <3>3. t \in Elements(todo) \/ (t \in DOMAIN archives /\ pkglog[t] \subseteq archives[t].files)
        BY <1>1, <3>2 DEF ArchInv, LeftToDo
    <3>4. CASE t = s
        BY <1>1, <1>2, <3>1, <3>4
    <3>5. CASE t # s
        BY <1>1, <1>6, <3>1, <3>3, <3>5
    <3> QED
        BY <3>4, <3>5
  <2> QED
      BY <1>1, <2>1, <2>2 DEF LeftToDo
<1>11. ASSUME BookAfter(s) = "lfs", ~Found(s)
       PROVE  \E t \in Scripts : Found(t) /\ \A u \in Elements(todo) : Precedes(t, u)
    BY <1>1, <1>11 DEF BookAfter, ArchInv, Book
<1>12. Book'
  <2>1. ASSUME pc' = "archive" PROVE InNameOrder(todo')
      BY <1>1, <1>6, <2>1 DEF ArchInv, Book
  <2>2. ASSUME pc' = "archive", BookAfter(s) = "lfs"
        PROVE  \E t \in Scripts : Found(t) /\ \A u \in Elements(todo') : Precedes(t, u)
    <3>1. todo' = Tail(todo) /\ InNameOrder(todo)
        BY <1>1, <2>2 DEF ArchInv, Book
    <3>2. CASE Found(s)
        BY <1>1, <1>6, <3>1, <3>2
    <3>3. CASE ~Found(s)
        BY <1>6, <1>11, <2>2, <3>1, <3>3
    <3> QED
        BY <3>2, <3>3
  <2> QED
      BY <1>1, <1>4, <1>7, <2>1, <2>2 DEF Book
<1>13. Complete'
    BY <1>4 DEF Complete
<1>14. Own'
  <2>1. content \subseteq UNION {Installs[t] : t \in PassesOf(s)}
      BY <1>1 DEF ArchInv, PkgOwn
  <2>2. ASSUME NEW t \in DOMAIN archives'
        PROVE  archives'[t].files \subseteq UNION {Installs[u] : u \in PassesOf(t)}
    <3>1. CASE t = s
        BY <1>2, <2>1, <3>1
    <3>2. CASE t # s
        BY <1>1, <3>2 DEF ArchInv, Own
    <3> QED
        BY <3>1, <3>2
  <2> QED
      BY <1>7, <2>2 DEF Own
<1>15. NamedAfterBook'
  <2>1. ASSUME NEW t \in DOMAIN archives'
        PROVE  IF Found(t) THEN archives'[t].book = "lfs"
               ELSE archives'[t].book = "lfs" => \E u \in Scripts : Found(u) /\ Precedes(u, t)
    <3>1. CASE t = s
      <4>1. CASE Found(s)
          BY <1>2, <3>1, <4>1 DEF BookAfter
      <4>2. CASE ~Found(s)
          BY <1>2, <1>6, <1>11, <3>1, <4>2
      <4> QED
          BY <4>1, <4>2
    <3>2. CASE t # s
        BY <1>1, <3>2 DEF ArchInv, NamedAfterBook
    <3> QED
        BY <3>1, <3>2
  <2> QED
      BY <1>7, <2>1 DEF NamedAfterBook
<1> QED
    BY <1>8, <1>9, <1>10, <1>12, <1>13, <1>14, <1>15 DEF ArchInv

LEMMA ArchivePackageArch ==
    ASSUME TypeOK, BuildInv, ArchInv, NEW s \in DOMAIN pkglog, ArchivePackage(s) PROVE ArchInv'
BY ArchiveArch DEF ArchivePackage

LEMMA TarFailsArch ==
    ASSUME TypeOK, BuildInv, ArchInv, NEW s \in DOMAIN pkglog, NEW w \in SUBSET pkglog[s], TarFails(s, w)
    PROVE  ArchInv'
<1>1. /\ Archive(s, w) /\ tarFailed' = TRUE
      /\ \/ errexit' /\ pc' = "make" /\ result' = "failed"
         \/ ~errexit' /\ pc' = pc /\ result' = result /\ todo' = Tail(todo)
    BY DEF TarFails
<1> QED
    BY <1>1, ArchiveArch

LEMMA FinishArchivesArch == ASSUME TypeOK, BuildInv, ArchInv, FinishArchives PROVE ArchInv'
<1>1. /\ pc = "archive" /\ todo = <<>> /\ pc' = "make" /\ UNCHANGED <<plan, lfsList, buildVars>>
      /\ UNCHANGED <<errexit, archives, tarFailed>>
    BY DEF FinishArchives
<1>2. UNCHANGED <<time, at, difflog1>>
    BY <1>1, ArchiveFrame
<1>3. PkgOwn' /\ PkgAll' /\ Book'
    BY <1>1 DEF PkgOwn, PkgAll, Book
<1>4. LeftToDo'
    BY <1>1 DEF ArchInv, LeftToDo
<1>5. Complete'
  <2>1. \A t : t \notin Elements(todo)
      BY <1>1 DEF Elements
  <2>2. ASSUME ~Unnoticed, Built, NEW s \in Elements(plan), NEW f \in Wanted(s)
        PROVE  WholeOf[s] \in DOMAIN archives /\ f \in archives[WholeOf[s]].files
    <3>1. WholeOf[s] \in DOMAIN pkglog /\ f \in pkglog[WholeOf[s]]
        BY <1>1, <2>2 DEF ArchInv, PkgAll
    <3>2. WholeOf[s] \in DOMAIN archives /\ pkglog[WholeOf[s]] \subseteq archives[WholeOf[s]].files
        BY <1>1, <2>1, <2>2, <3>1 DEF ArchInv, LeftToDo
    <3> QED
        BY <3>1, <3>2
  <2>3. Built' = Built /\ Unnoticed' = Unnoticed /\ \A s : Wanted(s)' = Wanted(s)
      BY <1>1, <1>2 DEF Built, Unnoticed, Wanted, Hidden, Existing
  <2> QED
      BY <1>1, <2>2, <2>3 DEF Complete
<1>6. Own'
    BY <1>1 DEF ArchInv, Own, PassesOf
<1>7. NamedAfterBook'
    BY <1>1 DEF ArchInv, NamedAfterBook, Found
<1> QED
    BY <1>3, <1>4, <1>5, <1>6, <1>7 DEF ArchInv

LEMMA StutterArch == ASSUME ArchInv, UNCHANGED vars PROVE ArchInv'
<1>1. UNCHANGED <<plan, lfsList, pc, result>> /\ UNCHANGED buildVars /\ UNCHANGED archiveVars
    BY DEF vars
<1>2. UNCHANGED <<time, at, difflog1>> /\ UNCHANGED <<pkglog, errexit, lfsBld, todo, archives, tarFailed>>
    BY <1>1, BuildFrame, ArchiveFrame
<1>3. \A t : /\ PassesOf(t)' = PassesOf(t) /\ Found(t)' = Found(t) /\ Wanted(t)' = Wanted(t)
    BY <1>1, <1>2 DEF PassesOf, Found, Wanted, Hidden, Existing
<1>4. Built' = Built /\ Unnoticed' = Unnoticed
    BY <1>1, <1>2 DEF Built, Unnoticed
<1>5. PkgOwn' /\ PkgAll' /\ LeftToDo' /\ Book'
    BY <1>1, <1>2, <1>3, <1>4 DEF ArchInv, PkgOwn, PkgAll, LeftToDo, Book
<1>6. Complete' /\ Own' /\ NamedAfterBook'
    BY <1>1, <1>2, <1>3, <1>4 DEF ArchInv, Complete, Own, NamedAfterBook
<1> QED
    BY <1>5, <1>6 DEF ArchInv

LEMMA ArchStep == TypeOK /\ BuildInv /\ ArchInv /\ [Next]_vars => ArchInv'
<1> SUFFICES ASSUME TypeOK, BuildInv, ArchInv, [Next]_vars PROVE ArchInv'
    OBVIOUS
<1>1. CASE StartScript \/ EndScript \/ TouchTarget \/ Kill \/ \E f \in Files : InstallFile(f)
  <2>1. result' # "success" /\ pc' \notin {"combine", "archive"}
      BY <1>1 DEF StartScript, EndScript, TouchTarget, Kill, InstallFile, TypeOK, ScriptType
  <2>2. CASE ~Kill
    <3>1. UNCHANGED <<plan, lfsList, archiveVars>>
        BY <1>1, <2>2 DEF StartScript, EndScript, TouchTarget, InstallFile
    <3> QED
        BY <2>1, <3>1, BuildFrame, BuildingArch
  <2>3. CASE Kill
      BY <2>1, <2>3, BuildingArch DEF Kill
  <2> QED
      BY <2>2, <2>3
<1>2. CASE UNCHANGED vars
    BY <1>2, StutterArch
<1> QED
    BY <1>1, <1>2, MakePkglogsArch, CombinePassesArch, ArchivePackageArch, TarFailsArch, FinishArchivesArch DEF Next

LEMMA ArchInit == Init => ArchInv
<1> SUFFICES ASSUME Init PROVE ArchInv
    OBVIOUS
<1>1. pc = "make" /\ archives = NoLogs /\ result = "none" /\ errexit = TRUE
    BY DEF Init
<1>2. PkgOwn /\ PkgAll /\ LeftToDo /\ Book
    BY <1>1 DEF PkgOwn, PkgAll, LeftToDo, Book
<1>3. Complete /\ Own /\ NamedAfterBook
    BY <1>1 DEF Complete, Own, NamedAfterBook, NoLogs
<1> QED
    BY <1>2, <1>3 DEF ArchInv

-------------------------------------------------------------------------------
\* Theorems

LEMMA Invariants == Spec => [](TypeOK /\ BuildInv /\ ArchInv)
<1>1. Init => TypeOK /\ BuildInv /\ ArchInv
    BY InitType, BuildInit, ArchInit
<1>2. (TypeOK /\ BuildInv /\ ArchInv) /\ [Next]_vars => (TypeOK /\ BuildInv /\ ArchInv)'
    BY TypeStep, BuildStep, ArchStep
<1> QED
    BY <1>1, <1>2, PTL DEF Spec

\* script-commands.xsl, build-pkglogs.sh, build-archives.sh: after a build and
\* an archiving that ended well, the archive of a package has all its scripts
\* installed and left but for hidden files, dangling links and failures of tar
\* that set +e hides; and at no time does an archive have a file of another package.
THEOREM ArchivesExactHolds == Spec => []ArchivesExact
<1>1. TypeOK /\ BuildInv /\ ArchInv => ArchivesExact
    BY DEF ArchInv, ArchivesExact
<1> QED
    BY <1>1, Invariants, PTL

\* build-archives.sh, "CHECK BOOK": every archive of a package of the LFS book is
\* named for it, and another archive only after one of these.
THEOREM NamedAfterBookHolds == Spec => []NamedAfterBook
<1>1. TypeOK /\ BuildInv /\ ArchInv => NamedAfterBook
    BY DEF ArchInv
<1> QED
    BY <1>1, Invariants, PTL
===============================================================================
