------------------------------ MODULE Packaging -------------------------------
(***************************************************************************)
(* From the scripts of a build to package archives.                        *)
(*                                                                         *)
(* A build script (script-commands.xsl) lists all files before it installs *)
(* and after; files that were there before are found by their time, newer  *)
(* than that of a timestamp file.  build-pkglogs.sh makes package logs of  *)
(* the differences, build-blfs-archives.sh joins the first pass of a       *)
(* package to the second, and build-archives.sh makes archives of the      *)
(* files in the logs.  Scripts are run one after another and may be killed *)
(* and run again.                                                          *)
(***************************************************************************)
EXTENDS Orders

CONSTANTS
    Scripts, Files,
    Plans,      \* orders the scripts may be run in: a set of sequences
    Installs,   \* [Scripts -> SUBSET Files]
    Removes,    \* [Scripts -> SUBSET Files], at the end of the script
    KeepsTime,  \* files installed with a time of before the build
    Present,    \* sets of files that may be there before the build
    Filtered,   \* files that are left out of package logs
    Dangling,   \* symbolic links that lead to no file
    Mangled,    \* files with a name that the unquoted $line does not keep
    WholeOf,    \* [Scripts -> Scripts]: the package without "-pass1"
    InLfsBook,  \* packages the list of the LFS book names
    LfsLists,   \* whether there is a list of the LFS book: a set of BOOLEAN
    Alphabet,   \* the scripts in the order ls sorts them
    MaxKills, MaxFaults, MaxStarts

ASSUME PackagingAssumption ==
    /\ Plans \subseteq Seq(Scripts)
    /\ \A s \in Plans : \A i, j \in 1..Len(s) : s[i] = s[j] => i = j
    /\ Installs \in [Scripts -> SUBSET Files] /\ Removes \in [Scripts -> SUBSET Files]
    /\ KeepsTime \cup Filtered \cup Dangling \cup Mangled \subseteq Files
    /\ Present \subseteq SUBSET Files
    /\ WholeOf \in [Scripts -> Scripts] /\ \A s \in Scripts : WholeOf[WholeOf[s]] = WholeOf[s]
    /\ InLfsBook \subseteq Scripts
    /\ LfsLists \subseteq BOOLEAN
    /\ Alphabet \in Seq(Scripts) /\ Elements(Alphabet) = Scripts
    /\ {MaxKills, MaxFaults, MaxStarts} \subseteq Nat

VARIABLES
    time,      \* [Files -> Nat]: the time of every file, Absent or Old or of the build
    clock,
    plan, at,  \* the scripts make runs, and the one it has come to
    pc,
    left,      \* the files the script has left to install
    timestamp, \* the time of $TIMESTAMP
    difflog1,  \* the files before, of every script that has a log
    difflog2,  \* the files after, and those newer than the timestamp
    pkglog,    \* the package logs
    lfsList,   \* whether $LFS_PKGLIST_XML is there
    errexit,   \* whether set -e is on
    lfsBld,    \* $LFS_BLD
    todo,      \* the package logs the loop has left
    archives,  \* $LPM_ARCHIVE
    tarFailed, \* whether tar has failed since the archives were started
    result,    \* "none", "success" or "failed"
    starts, kills, faults

buildVars == <<time, clock, at, left, timestamp, difflog1, difflog2>>
archiveVars == <<pkglog, errexit, lfsBld, todo, archives, tarFailed, starts, faults>>
vars == <<plan, lfsList, pc, buildVars, archiveVars, result, kills>>

Absent == 0
Old == 1
Existing == {f \in Files : time[f] # Absent}
NoLogs == [s \in {} |-> {}]

\* The file of s is written; those of others stay.
With(logs, s, log) == [t \in DOMAIN logs \cup {s} |-> IF t = s THEN log ELSE logs[t]]

Init ==
    /\ \E there \in Present : time = [f \in Files |-> IF f \in there THEN Old ELSE Absent]
    /\ clock = Old + 1
    /\ plan \in Plans /\ at = 1
    /\ pc = "make"
    /\ left = {} /\ timestamp = Absent
    /\ difflog1 = NoLogs /\ difflog2 = NoLogs /\ pkglog = NoLogs
    /\ lfsList \in LfsLists
    /\ errexit = TRUE /\ lfsBld = "blfs" /\ todo = <<>>
    /\ archives = NoLogs
    /\ tarFailed = FALSE
    /\ result = "none"
    /\ starts = 0 /\ kills = 0 /\ faults = 0

-------------------------------------------------------------------------------
\* A build script

StartScript ==
    /\ pc = "make" /\ at <= Len(plan)
    /\ timestamp' = clock
    /\ clock' = clock + 1
    /\ difflog1' = With(difflog1, plan[at], Existing)
    /\ left' = Installs[plan[at]]
    /\ pc' = "script"
    /\ result' = "none"
    /\ UNCHANGED <<plan, lfsList, time, at, difflog2, archiveVars, kills>>

InstallFile(f) ==
    /\ pc = "script"
    /\ f \in left
    /\ left' = left \ {f}
    /\ time' = [time EXCEPT ![f] = IF f \in KeepsTime THEN Old ELSE clock]
    /\ clock' = clock + 1
    /\ UNCHANGED <<plan, lfsList, pc, at, timestamp, difflog1, difflog2, archiveVars, result,
                   kills>>

Newer(t) == {f \in Files : t[f] > timestamp}

\* Mutant: no find -newer
EndScriptPlain ==
    /\ pc = "script" /\ left = {}
    /\ time' = [f \in Files |-> IF f \in Removes[plan[at]] THEN Absent ELSE time[f]]
    /\ LET there == {f \in Files : time'[f] # Absent} IN
       difflog2' = With(difflog2, plan[at], [files |-> there, newer |-> {}])
    /\ pc' = "touch"
    /\ UNCHANGED <<plan, lfsList, clock, at, left, timestamp, difflog1, archiveVars, result, kills>>

EndScript ==
    /\ pc = "script" /\ left = {}
    /\ time' = [f \in Files |-> IF f \in Removes[plan[at]] THEN Absent ELSE time[f]]
    /\ LET there == {f \in Files : time'[f] # Absent} IN
       difflog2' = With(difflog2, plan[at], [files |-> there, newer |-> Newer(time')])
    /\ pc' = "touch"
    /\ UNCHANGED <<plan, lfsList, clock, at, left, timestamp, difflog1, archiveVars, result, kills>>

\* make touches the target of the script.
TouchTarget ==
    /\ pc = "touch"
    /\ at' = at + 1
    /\ pc' = "make"
    /\ UNCHANGED <<plan, lfsList, time, clock, left, timestamp, difflog1, difflog2, archiveVars,
                   result, kills>>

\* The build or the archiving is killed; the script is run again by the next
\* make, the archives are started over.
Kill ==
    /\ pc \in {"script", "touch", "combine", "archive"}
    /\ kills < MaxKills
    /\ kills' = kills + 1
    /\ pc' = "make"
    /\ left' = {} /\ todo' = <<>>
    /\ result' = IF pc \in {"combine", "archive"} THEN "failed" ELSE result
    /\ UNCHANGED <<plan, lfsList, time, clock, at, timestamp, difflog1, difflog2,
                   pkglog, errexit, lfsBld, archives, tarFailed, starts, faults>>

-------------------------------------------------------------------------------
\* build-pkglogs.sh, build-blfs-archives.sh

\* What diff shows as added: new files, and the lines find -newer wrote.
Added(s) ==
    (difflog2[s].files \ difflog1[s]) \cup difflog2[s].newer

\* The log of s: added files that still exist; without any there is no log.
\* [[ -e ]] follows links and finds no file behind a dangling one.
LogOf(s) ==
    IF s \in DOMAIN difflog2 THEN ((Added(s) \ Filtered) \cap Existing) \ Dangling ELSE {}

\* Without a log there is nothing to be done, which $ACTION makes a success or
\* a failure of both scripts.
NothingDone(custom) == IF custom THEN "success" ELSE "failed"

\* After the build, or as a target of its own at any time, when $ACTION is
\* BUILDCUSTOM or another.
MakePkglogs(custom) ==
    /\ pc = "make"
    /\ starts < MaxStarts
    /\ starts' = starts + 1
    /\ errexit' = TRUE /\ lfsBld' = "blfs" /\ tarFailed' = FALSE
    /\ LET logged == {s \in DOMAIN difflog1 : LogOf(s) # {}} IN
       /\ pkglog' = [s \in logged |-> LogOf(s)]
       /\ IF logged = {}
          THEN result' = NothingDone(custom) /\ UNCHANGED pc
          ELSE result' = "none" /\ pc' = "combine"
    /\ UNCHANGED <<plan, lfsList, buildVars, todo, archives, faults, kills>>

\* cat goes on when one of its files is missing, and sort ends well.
Combined ==
    [s \in {WholeOf[t] : t \in DOMAIN pkglog} |->
        UNION {pkglog[t] : t \in {u \in DOMAIN pkglog : WholeOf[u] = s}}]

CombinePasses ==
    /\ pc = "combine"
    /\ pkglog' = Combined
    /\ todo' = Without(Alphabet, Scripts \ DOMAIN Combined)
    /\ pc' = "archive"
    /\ UNCHANGED <<plan, lfsList, buildVars, errexit, lfsBld, archives, tarFailed, starts, faults,
                   result, kills>>

-------------------------------------------------------------------------------
\* build-archives.sh

\* grep has found the package in the list of the LFS book.
Found(s) == lfsList /\ s \in InLfsBook

\* set +e comes before grep, set -e after it when it found something.
ErrexitAfter(s) == IF lfsList THEN Found(s) ELSE errexit

\* Mutant: packages of the LFS book are taken for others
BookAlways(s) == "blfs"

\* LFS_BLD is never set back.
BookAfter(s) == IF Found(s) THEN "lfs" ELSE lfsBld

Archive(s, content) ==
    /\ pc = "archive" /\ todo # <<>> /\ s = Head(todo)
    /\ errexit' = ErrexitAfter(s)
    /\ lfsBld' = BookAfter(s)
    /\ archives' = With(archives, s, [files |-> content, book |-> BookAfter(s)])
    /\ UNCHANGED <<plan, lfsList, buildVars, pkglog, starts, kills>>

ArchivePackage(s) ==
    /\ pkglog[s] \cap Mangled = {}
    /\ Archive(s, pkglog[s])
    /\ todo' = Tail(todo)
    /\ UNCHANGED <<pc, tarFailed, result, faults>>

\* tar writes a part of the files, for it fails or is given the name of no file,
\* and the script ends if set -e is on.
TarFails(s, written) ==
    /\ \/ /\ pkglog[s] \cap Mangled # {} /\ written = pkglog[s] \ Mangled
          /\ UNCHANGED faults
       \/ /\ written # pkglog[s] /\ written \cap Mangled = {}
          /\ faults < MaxFaults /\ faults' = faults + 1
    /\ Archive(s, written)
    /\ tarFailed' = TRUE
    /\ IF errexit'
       THEN pc' = "make" /\ result' = "failed" /\ todo' = <<>>
       ELSE todo' = Tail(todo) /\ UNCHANGED <<pc, result>>

\* The package logs are removed.
FinishArchives ==
    /\ pc = "archive" /\ todo = <<>>
    /\ pkglog' = NoLogs
    /\ pc' = "make"
    /\ result' = "success"
    /\ UNCHANGED <<plan, lfsList, buildVars, errexit, lfsBld, todo, archives, tarFailed, starts,
                   faults, kills>>

Next ==
    \/ StartScript \/ EndScript \/ TouchTarget \/ Kill
    \/ \E f \in Files : InstallFile(f)
    \/ \E custom \in BOOLEAN : MakePkglogs(custom)
    \/ CombinePasses \/ FinishArchives
    \/ \E s \in DOMAIN pkglog : ArchivePackage(s) \/ \E w \in SUBSET pkglog[s] : TarFails(s, w)

Spec == Init /\ [][Next]_vars

-------------------------------------------------------------------------------
\* Properties

Built == at > Len(plan)

PassesOf(s) == {t \in Elements(plan) : WholeOf[t] = s}

\* A file that was there when the script was last started and that the script
\* installs with a time of before is not in what the script logs.
Hidden(s) == KeepsTime \cap difflog1[s]

Wanted(s) == (Installs[s] \ (Removes[s] \cup Filtered \cup Dangling \cup Hidden(s))) \cap Existing

\* Without set -e, after a package the LFS list does not have, the script goes
\* on when tar fails.
Unnoticed == tarFailed /\ lfsList

\* When all is built and archived, the archive of a package has every file its
\* scripts installed and left and that is still there, but for hidden files,
\* dangling links and failures that are not noticed.
Complete ==
    (result = "success" /\ ~Unnoticed /\ Built) =>
        \A s \in Elements(plan) : \A f \in Wanted(s) :
            WholeOf[s] \in DOMAIN archives /\ f \in archives[WholeOf[s]].files

\* An archive has no file that the scripts of its package did not install.
Own ==
    \A s \in DOMAIN archives : archives[s].files \subseteq UNION {Installs[t] : t \in PassesOf(s)}

\* script-commands.xsl, build-pkglogs.sh, build-archives.sh: an archive has what
\* its scripts installed, all of it but for dangling links and hidden files, and
\* nothing else, however often scripts and archives were killed, whatever was
\* there before and whatever failed noticeably.
ArchivesExact == Complete /\ Own

Precedes(s, t) == \E i, j \in 1..Len(Alphabet) : i < j /\ Alphabet[i] = s /\ Alphabet[j] = t

\* build-archives.sh, "CHECK BOOK": an archive is named for the book of its
\* package, unless a package of the LFS book comes before it, for the name of
\* that book is never set back.
NamedAfterBook ==
    \A s \in DOMAIN archives :
        IF Found(s) THEN archives[s].book = "lfs"
        ELSE archives[s].book = "lfs" => \E t \in Scripts : Found(t) /\ Precedes(t, s)
===============================================================================
