# Verification of lfs-pkmg

lfs-pkmg builds Linux From Scratch / Beyond LFS systems: it reads the book's XML,
works out what to build and in which order, builds it, turns what was built into
package archives, and installs, removes and upgrades these archives with a small
package manager. It is a set of shell scripts that talk to one another through
files. Nothing is locked and nothing is written atomically, and nearly every decision
is "does this file exist": the hard behaviour is in what survives a failure and in
what is shared. What to do is chosen in menus, with a copy of kconfiglib and its
menuconfig in the repository: two Python files, whose hard behaviour is in the values
they cache and in the state of a display that must follow them.

Paths below are relative to the repository (`src/scripts/...`, `kconfiglib/...`).

## The system

Component | State it keeps | Operations | Talks to
--- | --- | --- | ---
Package database: `package/package-{install,remove,upgrade}.sh`, `funcs/{inst,remv,upgr}-pkg.sh` | the root file system; `$LPM_INSTALLED`, one installed file list per package | install, remove, upgrade a list of packages | called by the list commands; reads archives of the repository
Package lists: `list/list-{install,remove,upgrade}.sh`, `funcs/get-list-pkgs.func`, `funcs/install-list-files.func` | `$LPM_LISTS`, one file per installed list | install, remove, upgrade lists | runs the package commands; looks at `$LPM_INSTALLED`
Dependency trees: `book/book-blfs-trees.sh`, `.deps` files of `xsl/blfs-deps.xsl` | tree files, PROCD | make the tree of every package of a list | reads `.deps` files, its trees feed the work plan and the list creation
Custom selection: `select/select-custom-packages.sh` | the selected words, the lists of packages and of custom builds | expand metas, write the lists | reads what menuconfig wrote; feeds the work plan
Work plan: `funcs/setup-{deps,scripts,makefile}.func`, `setup/*.sh`, `build/build-blfs-work.sh` | the work directory: numbered scripts, makefile, targets | merge trees, number, generate, build, resume | reads trees and lists; starts the scripts that packaging looks at
Packaging: `xsl/script-commands.xsl`, `funcs/build-{pkglogs,archives}.sh`, `build/build-*-archives.sh` | difflogs, package logs, archives | from what a build changed to archives | produces what the package manager installs
kconfiglib: `kconfiglib/kconfiglib.py` | the menu tree, user values, caches; `.config`, `auto.conf` and the headers of `sync_deps` | finalize, evaluate, assign, load, save, sync | used by menuconfig
menuconfig: `kconfiglib/menuconfig.py` | the globals of the display: menu, list, selection, scroll, rows to go back to, changed flag | keys, dialogs, resizes | reads and sets values of kconfiglib; its `.config` is read by the selection scripts
Build timers: `funcs/timer.sh` | shared files with elapsed times | three processes at once | started by the build scripts
Kernel file systems: `util/util-{mount,umount}-kernfs.sh`, `build/build-bootstrap-work.sh` | mounts in the chroot | mount, build, unmount | wraps the build
Workflow: `Makefile`, `src/make/*.makefile` | stamp files and generated files | the targets | calls everything
List creation: `list/list-create-{deps,dir,cust}.sh` | list files | make a list from trees | feeds the list commands
Audit: `audit/audit-installed-packages.sh` | none | report | reads both databases
Book processing, menus, jhalfs | generated text | conversion | inputs of everything else

What is hard in each of them, and what must hold:

* **Package database.** The existence of a file list means "installed", yet the list
  is created before its lines, and for staged packages before the package's files are
  there. Packages share directories and files. An upgrade is an install and some
  removals, either of which may fail. Must hold: an installed package keeps its files;
  nothing stays behind that no list names; exit status 0 means what was asked; an
  upgrade never removes the old before it has the new; edited configuration and
  kernels survive upgrades.
* **Package lists.** Lists share packages, files of lists are copied and deleted after
  the packages. Must hold: an installed list file means that its packages are
  installed; a removal takes all that nobody else has, and only that.
* **Dependency trees.** Cycles in the dependencies, names inside names (patterns
  without anchors), trees that an interrupted run left. Must hold: build order, no
  package twice, completeness, the recursion ends.
* **Custom selection.** Metas that stand for metas; words taken out of a shell variable
  wherever they occur. Must hold: all that was selected, however deep in metas, is
  written; the loop ends.
* **Work plan.** Trees merged line by line, order by text prefixes, a number parsed out
  of a name, resumption of a half done build by target files. Must hold: a script is
  started after all it needs; a build that ended well is complete; what is built is not
  built again.
* **Packaging.** Files that were there before are told apart by their time only; scripts
  are killed and run again; a flag that is set in one round of a loop and kept; `set +e`
  regions; the logs of two passes merged into one. Must hold: an archive has what its
  scripts installed, all of it and nothing else.
* **kconfiglib.** Values that are cached and depend on each other through choices,
  selects, defaults and ranges; a tree rebuilt while it is walked; files that leave
  lines out. Must hold: a cache never has an old value; evaluation ends on every tree
  that is accepted; what is saved is what is loaded; the next build sees each change,
  whatever was interrupted.
* **menuconfig.** A dozen globals that every key, value, file and resize must keep
  in step. Must hold: the selection exists and is on the screen, the list is current,
  no look-up raises, unsaved changes are known.
* **Build timers.** Three processes that read and truncate the same files.
* **Kernel file systems.** A failing build leaves before the unmount.
* **Workflow.** What a stamp file or an existing file makes `make` believe.

`PROJECT.json` has the same components with their status, and under `hazards` each
hard spot at its line, with the properties that watch it or, where nothing does,
the reason.

## Modules

Module | What it is
--- | ---
`PackageStore` | what the package manager promises, without scripts: installed packages and paths on disk
`PackageDB` | the package commands, path by path and line by line; implements `PackageStore`
`MCPackageDB`, `PackageDBProofs` | its instances for TLC and its theorems
`Lists`, `MCLists`, `ListsProofs` | the list commands, package by package; instance and theorems
`DepTree`, `MCDepTree`, `DepTreeProofs` | the walk over the `.deps` files; instances and theorems
`Orders`, `OrdersProofs` | lists: their elements, a list without some lines, a set listed in an order; theorems of these
`Measures` | how far loops within loops are from their end; `OrdersProofs` has that no such measure goes down for ever
`CustomSelect`, `MCCustomSelect`, `CustomSelectProofs` | the expansion of a custom selection; its instance and theorems
`WorkPlan`, `MCWorkPlan`, `WorkPlanProofs` | from selected packages to a build that is resumed; its instance and theorems
`Packaging`, `MCPackaging`, `PackagingProofs` | from build scripts to archives; its instance and theorems
`KconfigNodes` | the menu nodes of a Kconfig object
`KconfigTree` | parsed Kconfig files and what `_init` makes of them: conditions, menus, choices, dependency loops
`KconfigEval` | the evaluation with its caches, assignment, the lines of files
`ConfigFiles` | what a Kconfig object promises of its files, whatever its symbols are worth
`Kconfig` | a Kconfig object in use, with the files and the build; implements `ConfigFiles`
`KconfigTrees`, `MCKconfig` | how instances write down Kconfig files; the trees of the run
`Scroll` | the arithmetic of a scrolled list and of an edit box
`MenuList` | what the main display promises, whatever is listed
`JumpTo` | what the search dialog promises, whatever matches
`MenuTree` | what the menu shows of a Kconfig object and which values it offers
`Menuconfig`, `MCMenuconfig` | the interface, composed of `MenuList` and `JumpTo`, which it implements; its instance, with the operators of `KconfigEval` and `MenuTree`
`KconfigProofs` | theorems of `ConfigFiles`, `MenuList`, `JumpTo` and `Menuconfig`

`PackageDB` and `Lists` fit together at one variable: `installed` in `Lists` is
`recorded` in `PackageDB`, the packages with a file list. A step of `Lists` on a
package (`InstallNext`, `RemoveNext`, `UpgradeInstalls`, `UpgradeRetires`) is a whole
run of `inst-pkg.sh` or `remv-pkg.sh` there. In the same way `trees` in `DepTree` are the
`Trees` a behaviour of `WorkPlan` starts from, `blds` of `CustomSelect` is a member of its
`BuildLists`, and `logs` of `WorkPlan` are the packages that have a difflog in
`Packaging`, whose `Plans` are orders that `makefile` can have.

### PackageDB

State | Code
--- | ---
`disk` | the paths under `$INSTALLROOT`, with the package whose content each has
`recorded`, `lines` | the files in `$LPM_INSTALLED` and how many of their lines are written
`kind`, `request`, `todo`, `error` | the command running, its package list, what its `while read` has left, package-install's `error`
`phase`, `cur`, `victim`, `idx` | where in which script: `unpack`, `record` and `copy` belong to `inst-pkg.sh` and `upgr-pkg.sh`, `retire` to the latter's loop over old versions, `remove` to `remv-pkg.sh`
`olds` | what the loop over old versions has left of what `find` found when it began (`FindOld`)
`exit` | the last command's exit status
`torn`, `ops`, `faults` | history, not in the code

One action is one write to the disk or one turn of a loop. `UnpackPath` is one path of
`tar -xpf`, `RecordLine` one line of the `tar -tf` into the list, `CopyPath` one path of
the staged copy (with the rename to `.new`), `RemovePath` one line of the `tac` loop
with its test for other lists, `RemoveEnds` the final `rm`. `PackageFails` is what a
non-zero exit of `inst-pkg.sh` does: package-install notes it and goes on, upgr-pkg and
package-upgrade end because of `set -e`.

Two environment actions come between any two of these: `Crash` (the machine stops, the
command is killed; what is on disk stays) and `WriteFails` (a full disk, a bad archive;
the script notices). `FetchFails` is a package the repository does not give.
`EditFile` is the administrator between commands.

Some facts of the code the model rests on:

* A listing has parents first, because `funcs/build-archives.sh:74` ends in
  `tar ... .` of a whole tree: `TreeAssumption`.
* The file list of a package is read with `grep ^path$`. `PatternHits` says which
  recorded lines the pattern of a path selects. Normally it is the line itself (and
  perhaps others, since `.` matches anything).
* `.new` files are in no list, so they stay after a removal; `NoOrphans` excepts them.
* `inst-pkg.sh:88` is a pipeline without `pipefail`, so a `tar -tf` that fails there is not
  noticed: `ListCutShort` lets the script go on with the lines written so far. (The list is cut
  between lines; a line cut in the middle names a path that is not there.)
* `package-install` (unlike `package-upgrade`) unpacks a volatile package straight over
  edited files; this is what the code means and no property speaks against it.

### Lists

`StartFromRepo` and `StartRemove` are the commands up to their question, with
get-list-pkgs and, for a removal, the CHECK USED loop; the following actions are the
package command's loop, the post-install scripts and the loops over list files.
`Used` searches the other lists for the package's name anywhere in a line, as the code's
unanchored `grep` does: `NameInside`. Only list-install has post scripts: list-remove
and list-upgrade look for theirs in `$USER_SCRIPT_DIR` and `$ADMIN_SCRIPT_DIR`, which
nothing defines. `Crash` may fall between any two steps. An
`inst-pkg.sh` that fails may leave its package's list or none (`InstallFails`), and a list file that
is copied over may be cut short by a failing `cp` or `curl` (`CopyFails`). `DirectInstall` and
`DirectRemove` are package commands run outside of any list, between two list commands.

### DepTree

`stack` is the recursion of `recurse`: one frame per file being read, with the line it has come
to; the script's `$level` is one more than its length. `written` numbers the lines written
to a tree, so that the set of lines `trees[p]` keeps their order. `Dropped` is
`sed "/$name/d"` and takes every line with the name inside. `deps` does not change
during a behaviour. `Init` takes any content that `DepFiles` has.

### CustomSelect

`configout` is the shell variable of that name, a sequence of words, and `round` what the
`for` loop over it has left: the loop goes over the words as they were when it began,
while its body changes the variable. `TakenOut` is `${configout//$co/}`, which takes a
word out of every word that has it inside (`WordsWith`); what is left of such a word
matches no case of the script and is dropped. `FileMissing` is `cat` on a file that is
not there, which ends the script.

### WorkPlan

State | Code
--- | ---
`pc`, `todo`, `cnt` | where the command that runs is, the lines its loop has left, and `$cnt`
`workTree` | `$WORK_PKGS_TREE`, the merged trees
`scripts`, `exec` | the numbered files in `$BUILD_WORK/scripts`, and those with an x bit
`makefile` | the scripts in the order of `ls -r`, and how many of their rules are written
`touched` | the targets, in the order of their time
`logs` | the packages with difflogs
`copied`, `done`, `planned`, `cleared` | history: the order the numbers were given in, what ran to its end, whether the last set-up did, whether the difflogs were removed since the directory was emptied

A set-up is `StartSetup` (the directory is emptied), `MergeTree` per tree or `AddPatch`,
`CopyScript` per package, `StartMakefile` and a `WriteRule` per script, `ClearLogs`, and
for custom builds `ReadBuilds` and `CopyBuild`, after which the makefile is written anew.
A build without a file in `$CUSTOM_BUILD` ends the set-up (`CopyBuildFails`); a copy that breaks off
is `CopyBuild` and a `Kill`, as what is in a script is not modelled.
`StartMake` to `Touch` are what `make` does with the makefile that is there, whole or cut
short: it is outside the repository, and modelled from how the rules use it (`OutOfDate`,
`Complete`). `Kill` may fall between any two steps; a script that fails ends `make`.
`Numeral` and `Listed` are the numbers as text and their order in `ls`.

### Packaging

Time is a counter: `StartScript` makes the timestamp file and the first list, every
`InstallFile` gives a file a new time (or an old one, for files installed with their
time), `EndScript` makes the second list and the list of `find -newer`. `TouchTarget` is
make's target; a script killed before it is run again, over what it left. `Added` is
what `diff` shows as added, `LogOf` the package log: filtered, and with what still
exists. `Combined` joins the first pass of a package to the second. `ArchivePackage` and
`TarFails` are one round of `build-archives.sh`, with the set -e that `grep` may leave
off (`ErrexitAfter`) and `$LFS_BLD`, which is never set back (`BookAfter`). Archives may
be made at any time, since they are a target of their own. Without any log, `$ACTION` makes that a
success or a failure (`NothingDone`).

Two kinds of names do not come through `build-pkglogs.sh:91-92`. `[[ -e $line ]]` follows links, so a
link that leads nowhere (`Dangling`) gets no line. `echo $line` is not quoted: a name with one
blank is kept, but of a name with two in a row, or one that is a pattern of other files, the log has
another name (`Mangled`), which `tar` does not find; the archive is without the file and `tar` fails.

### KconfigTree, KconfigEval, Kconfig

A parsed tree is a record of functions over numbered nodes and named items. `Finalize`
is what `_init` does after parsing: conditions go down, implicit menus take siblings, ifs
are flattened away, choices get their symbols and types, and the dependency loops are
searched. Values are numbers: 0 to 2 for n, m, y, others for texts and numbers.

Reading an attribute fills caches, so each evaluating operator of `KconfigEval`
returns `[k |-> state after, v |-> value]`, and `With` chains evaluations in the order
the code has them. The operators are recursive, as the properties of the code are.

In `Kconfig` a call is one action, since all runs in one process: `Read`, `ReadAll`,
`Assign`, `Unassign`, `UnassignAll`, `Load`, `Reload`, `Sync`, `Save`. What an interrupted
call leaves on the disk is an action of its own (`SaveKilled`), or an outcome of `Sync`: it fails at
any touch, or while it writes `auto.conf`, which is then cut after some line (`AutoUpTo`;
`ConfigFiles` allows any content, so a line cut in the middle too). `lost` remembers whose values
such a file does not have. `Build` is the build that looks at what was touched.

The files and the build have their own module, `ConfigFiles`, which knows of each symbol only
what it is in `autoconf.h` (`output`), and nothing of the lines in a file or of the order of
the touches. `Kconfig` shares its variables. `output` is no variable of the code: `Becomes` evaluates
it with each new state of the Kconfig object.

### Scroll, MenuList, JumpTo, MenuTree, Menuconfig

`MenuList` has the variables of the list (`shown`, `sel_node_i`, `menu_scroll`,
`parent_screen_rows`, `menu_height`, `show_help`) and says what may be done to
them, whatever is listed; `JumpTo` does the same for the search dialog and its edit
box. `Menuconfig` adds the Kconfig object and the other globals. One key is one
action: `UI` is the record of the globals, the operators `EnterMenu`, `LeaveMenu`,
`ChangeNode`, `ToggleShowAll`, `JumpToNode`, `LoadInto` give the record after the
function of that name, with `raised` when a look-up fails, and `Become` makes it the
state. A dialog that floats over the display is one action with its answer;
the full-screen dialogs (`info`, `jump`) are the stack `dialogs`, since the menu below does
not follow the terminal while they are open.

What the interface asks the library, and what it works out of the answers without keeping
anything, are operators that `Menuconfig` takes as constants, with the names they have in Python
(`str_value`, `load_config`, `shown_nodes`, `needs_save`, ...). `menuconfig.cfg` gives them
those of `KconfigEval` and `MenuTree`. These are mutually recursive, and
nothing can be proved of a module that reaches a recursive operator; like this the
interface can be reasoned about whatever a value is. What its theorems need to know of the
operators are two formulas, `NodesKnown` (lists, parents and matches are nodes of the tree)
and `FilesKnown` (what is saved can be loaded, and loading replaces all values); together they
are `KconfigKnown`, which the run checks of the real operators in every state.

## What is checked

The runs but `workplan` switch off the deadlock check: the user may stop giving commands,
and the bound on commands makes every behaviour stop (a Kconfig object of which nothing
is asked, an interface that was quit). That commands do not get stuck is checked as
liveness where it is not plain from their loops (`RunEnds`, `ExpansionEnds`).

Run | Question | Bounds
--- | --- | ---
`pkgdb_shared` | Can the database be trusted with shared paths, upgrades and faults anywhere, and do the special packages of upgr-pkg.sh keep their promise? | two versions of one package, another package sharing a file and two directories, 2 faults, a listing that breaks off being one; or staged files with an edited file, a staged-directory package and two kernels, 1 fault; 4 commands
`pkgdb_retry` | Does a successful upgrade mean the new package is there? **No** | 3 commands, 1 fault
`pkgdb_bracket` | Does a removal leave other packages' paths? **No** | 3 commands, no fault
`deptree_graphs` | Are trees complete and in order, and does a run end? | all 729 graphs of build and run-time dependencies between three packages, and three graphs of five packages; 2 runs, 1 interruption
`deptree_substring` | Does a tree have all dependencies? **No** | three packages, 2 runs
`lists` | Do list files tell the truth about what is installed, and does success mean what was asked? | two lists that share a package, one in two versions, a name inside a name, two kernels; any install or copy may fail; 4 commands, 1 kill
`lists_upgrade` | Are upgraded lists installed? **No** | 2 commands
`select` | Is all that was selected written, and does the loop end? | two metas with every content of up to two words, three groups, one of them without a file and one with another's name inside, a build; every selection
`workplan` | Are scripts run in order, and resumed where they stopped? | four sets of trees, eight requests, four lists of custom builds, plans of up to eleven scripts; 2 set-ups, 1 kill, any number of builds and failing scripts
`packaging` | Has an archive what its scripts installed? | five scripts with a first pass and six files that are shared, removed, filtered, there before, installed with their old time, a dangling link, or mangled; 2 kills, 1 failing tar, 2 starts of the archives
`kconfig` | Are values, caches and files right after any calls, and trees after finalizing? | eleven small Kconfig files in use, and two families of some thousand trees that are finalized; 2 items with user values at a time, 1 interrupted save
`menuconfig` | Is the display in step with the values after any keys? | thirteen Kconfig files; menus of one, three and five rows, edit boxes of two to four columns; texts of up to 4 characters; empty lists left by up to 2 rows

Why these bounds. The interesting cases of the package database take an install of each
of two packages, an interruption, and a command that meets what it left: three or
four commands; the second fault is for an interruption of the repair. Paths matter only
as private, shared, directory or renamed, and each kind is there. The shared and the
special packages have no path and no name in common, so `OneFamily` keeps a behaviour
to one of the two. In the trees, three packages already give every kind of cycle
through the root and beside it, and the graphs of five have the diamonds, the missing
files and the names inside names that three cannot show. In the lists, four commands are
two installs, an upgrade and a removal. In the selection, two metas can share, contain
and repeat each other. In the work plan, two set-ups are one whose leftovers meet
another, or custom builds added to a build that has begun; nine, ten and eleven
scripts cross the place where numbers get a second digit and a zero in it; one kill can
fall into either. In packaging, a second kill is one of the repeated
script. In kconfig, the loops and moves need no more than three items in each other;
values interact through conditions, and files of two or three items have each kind of
them. In menuconfig, a menu of one row and one longer than every terminal make all the
edges of the scroll arithmetic.

The properties of the package manager:

* `RecordedIntact`: a package with a complete list, which no step is working on and no
  interrupted step left half done, has all its paths on disk.
* `NoOrphans`: each path on disk is in a list, or in something interrupted, or `.new`.
* `SuccessMeansDone`: exit status 0 means the request is fulfilled, packages excepted that are
  half done (`torn`: a command was interrupted, or a listing broke off) or whose files
  are placed as `.new` (`StagedFiles`). What a later command makes of a half done package is the question of `pkgdb_retry`.
* `UpgradeKeeps`: what a step of an upgrade may never do. No list or file goes before the new
  version is completely installed, no edited file that the new version still has is written
  over or removed, and no kernel goes (`InstallsFirst`, `EditsSurvive`, `KernelsStay`).
* `ImplementsStore`: each step of the scripts is one step of `PackageStore` or a stutter. The
  mapping takes `Installed` and the present paths. So a package becomes installed
  only when all its paths are there, and a path goes only when no installed package
  has it.
* `NoDuplicates`, `BuildOrder`, `TreesComplete`: a tree lists no package twice, lists a package
  after what it needs to be built (cycles excepted), and has the root and all it reaches
  (names that contain the root's name excepted). That the recursion ends is `RunEnds`.
* `ListedInstalled`: the packages of an installed list are installed, except those an upgrade
  or a direct removal took and lists whose own removal was interrupted.
* `RemovalComplete`: a removal that reports success removed its list files and all packages
  no other list has the name of.
* `InstallComplete`: a list-install that reports success installed all packages, and each list's file
  has the lines of one that was asked for, whatever failed on the way.
* `RunEnds`: the recursion over the dependencies comes back.

Of the build:

* `SelectionExpanded`, `ExpansionEnds`: nothing is written that the selection does not stand
  for; when the loop is over, all of it is, words with another inside excepted; the loop
  ends unless a meta stands for itself.
* `MergedInOrder`: the merged tree has each package once, and after all that comes before it
  in every tree, what is up to date excepted.
* `NeedsBuilt`: when a package's script has run, so have those of all that come before the package in
  every tree, through merging, numbering, `ls -r` and make. What is up to date or has no
  script is excepted, and `Misnumbered`.
* `BuildsInOrder`: a script runs to its end only after all with an earlier number; `BuiltIsKept`: no
  script is started whose target exists. Both but for custom builds that follow a number
  with a zero (`Misnumbered`).
* `SuccessMeansBuilt`: a build that ends well has run all scripts of the plan, and the
  difflogs are theirs alone. The second half needs a set-up that came as far as removing
  the difflogs (`cleared`): a set-up for custom builds after one that did not come so far
  keeps the old ones.
* `ArchivesExact`: when all is built and archived, an archive has all that its scripts
  installed and that is still there, filtered files, dangling links, `Hidden` files and
  `Unnoticed` failures excepted (`Complete`, `Wanted`), and nothing else (`Own`).
* `NamedAfterBook`: an archive is named for the book of its package, or of an LFS package
  before it.

Of kconfiglib:

* `CacheCoherent`: whatever is cached is what evaluating it would give now.
* `EvaluationTerminates`: in those trees of the run that passed the search for loops, no attribute
  is evaluated from itself, through choices too. Which attribute asks for which (`Asks`) is written
  by hand, next to the evaluation.
* `NothingLost`: walking the finalized tree (as `node_iter` does) meets each node but the ifs,
  once, in the order of the files. `VisibilityFromParents`: a prompt is as visible as all
  that it was written in allows.
* `ChoiceExclusive`: one symbol of a choice at y in y mode, none in the other modes.
* `AssignableTakesEffect`: a value that is offered is the value after it is assigned,
  and an int symbol has a value in its range, whatever was assigned.
* `RoundTrip`: loading what was saved, whole or minimal, gives the same
  values (one kind of symbol excepted, below). `LoadReplaces`: a file loaded in place of the values
  gives what is assigned, the modes and the picks of choices, and so all values, whatever they
  were; the pick of a choice is excepted that the file gives a mode only.
* `SyncTouches`: after `sync_deps` has returned, whatever the build has seen otherwise is
  touched, earlier calls that failed half way included, except for what an `auto.conf` that was cut
  short has `lost`. `SaveSafe`: a whole `.config` or
  `.config.old` remains when one save was cut short.
* `ImplementsFiles`: every call, with all it does to values and caches, writes the disk as
  `ConfigFiles` says; reading, saving and `sync_deps` change no value on the way.

Of menuconfig:

* `RowOnScreen`, `MatchOnScreen`: the selection exists and is displayed (that the cursor of
  the search dialog is, `CursorInBox`, is proved).
* `ShownIsCurrent`: the list is what the values and the mode say. `NeverRaises`: no look-up
  fails. `UnsavedKnown`: where nothing is marked as changed, saving would change nothing. One
  kind of symbol, one switch of show-all and a minimal configuration saved over the file are
  excepted, below.
* `KconfigKnown`: what the look-ups and the library give the interface are nodes of the tree, and
  files are read back as they were written.
* `ImplementsDisplays`, which is `ListSpec /\ JumpSpec`: every key, with all it does to values,
  menus and dialogs, is a step of `MenuList` and of `JumpTo` or leaves them alone. The two
  are composed with the interface by sharing their variables, so the refinement mapping
  is the identity.

**Fairness.** `FairSpec` of `DepTree` and `CustomSelect` adds weak
fairness of the scripts' own steps taken together (`Step`; in `CustomSelect` all are its own),
and nothing for the user or for faults. Once started, such a script waits
for nothing but the operating system: it is a single process with no lock, no
input and no other process to wait for. The other specifications state none: their
properties are of safety only, and nothing makes a user press a key or start a build.

### Disagreements found

Shown by a run:

1. `funcs/upgr-pkg.sh:20` (`pkgdb_retry`): a file list is taken for an installed package. `remv-pkg.sh`
   deletes the paths first (lines 41-59) and the list last (line 66), so after a removal that was
   killed in between, an upgrade to that package skips it and reports success with files missing. (A
   list that breaks off at `inst-pkg.sh:88` is taken for an installed package in the same way.)
2. `funcs/remv-pkg.sh:54` (`pkgdb_bracket`): paths are used as patterns. `grep` rejects
   `/usr/bin/[`, its error is hidden, and the path is deleted although another list has it.
3. `book/book-blfs-trees.sh:104` (`deptree_substring`): before the root is written to the
   end of its tree, every line with its name inside is deleted, such as
   `freetype2-pass1` from the tree of `freetype2`.
4. `list/list-upgrade.sh:115` (`lists_upgrade`): the list files that were just copied to
   `$LPM_LISTS` are deleted there again.

In the models, and named as exceptions of properties that hold otherwise:

5. `book/book-blfs-trees.sh:147` (`torn` in `TreesComplete`): the tree an interrupted run left is
   taken for finished. `DependenciesResolved` fails for it too, with `MaxCrashes = 1`.
6. `setup/setup-custom-work.sh:39` (`Misnumbered`): all zeros are taken out of the last number, so
   that custom builds after 010 count from 2, run before what they follow, and make
   what is newer than they are be built again.
7. `select/select-custom-packages.sh:134` (`Plain` in `SelectionExpanded`): a group is lost when the
   name of another selected word is inside its own.
8. `xsl/script-commands.xsl:81` (`Hidden`): a file that was there before and is installed with
   its old time is missing in the archive.
9. `funcs/build-archives.sh:48` (`Unnoticed`): `set -e` stays off after a package that `grep` does not
   find, and a failing `tar` is passed over.
10. `funcs/build-archives.sh:49` (`NamedAfterBook`): `LFS_BLD` stays `lfs` after an LFS package.
11. `menuconfig.py:1611` (`LimitedToM`): a tristate symbol with `prompt ... if m` and `default y` has a
    value that is not offered, and Space ends the interface with a ValueError. It is also
    saved as y and loaded as m, so that `RoundTrip` and `UnsavedKnown` except it.
12. `menuconfig.py:1311` (`ListStale`): where a choice is named in two places, and the symbols of the second are
    promptless there, switching show-all on in the choice leaves the list as it was, none of
    whose nodes would now be listed. The next change looks one of them up and raises a ValueError
    (`menuconfig.py:1694`). The comment there expects no common node only when an invisible menu
    is left by switching show-all off.
13. `kconfiglib.py:1366` (`OnlyMode` in `LoadReplaces`): `load_config(replace=True)` keeps what is picked in a
    choice that the file gives a mode and no symbol at y, as it only clears choices that were not
    set. Its documentation (line 1192) says that all user values will be cleared.
14. `kconfiglib.py:2275` (`lost` in `SyncTouches`): `auto.conf` is truncated and then written. When the
    writing is cut short, a symbol without its line is taken to have been n, so that
    setting it to n then touches nothing, though the build has seen y.
15. `menuconfig.py:903` (`OnlyMinSaved` in `UnsavedKnown`): a minimal configuration may be saved over the file
    the interface names. Nothing is marked as changed by that, and quitting says there is nothing to save.
16. `funcs/build-pkglogs.sh:91` (`Dangling`, `Mangled`): dangling links, and names with two blanks in a row or
    that are patterns, are not archived, though the script installed them.

In the models, without a property:

17. `setup/setup-custom-work.sh:77`, `funcs/setup-scripts.func:44`: in a set-up for custom builds
    nothing gives the scripts of the book an x bit, so the build fails at its first one.
18. `build/build-blfs-archives.sh:35`: archives made before a second pass was built take the first
    for the whole package; `ArchivesExact` speaks of what is `Built`.

Seen while modelling kconfiglib and menuconfig, and kept out of the trees of the runs:

* A jump to a comment in a menu whose `visible if` is n, and then leaving that menu, raises
  in `_leave_menu` (`menuconfig.py:1205`).
* `_check_valid` raises when the symbol of a range bound has an empty value.
* A minimal configuration loses the mode of a tristate choice whose default is a bool
  symbol (`kconfiglib.py:1726`).
* `MODULES` that depends on a tristate, and a menu in a choice that the choice's prompt
  depends on, are loops the search does not find.
* `_needs_save` does not see that an "is not set" line of an invisible symbol would go.

## What is proved

Every theorem is about `Spec`, for every value of the constants that the modules'
assumptions allow, so for any number of packages, paths, lists, commands and faults.

Theorem | Argument
--- | ---
`PackageDBProofs!TypeOKHolds` | from `IInv` = `TypeOK` and `Position`
`PackageDBProofs!ImplementsStoreHolds` | under `IInv` each action maps to `Write`, `Commit`, `Retire`, `Erase` or a stutter
`PackageDBProofs!RecordedIntactHolds` | from the same step facts and the guards of `PackageStore`
`PackageDBProofs!UpgradeKeepsHolds` | `KInv` = `IInv`, `Tracked` and `AtHand`, then a case for each part of the property
`PackageDBProofs!SuccessMeansDoneHolds` | `SInv` = `KInv`, `Place` and `Progress`
`PackageDBProofs!NoOrphansHolds` | `KInv` with `Accounts`
`DepTreeProofs!TypeOKHolds` | inductive as it stands, the position of the walk being part of it
`DepTreeProofs!NoDuplicatesHolds` | inductive together with `TypeOK`
`DepTreeProofs!BuildOrderHolds` | with `Walk`
`DepTreeProofs!TreesCompleteHolds` | with `Covered`
`DepTreeProofs!RunsShrink` | with `Tidy`, for the set `TurnsLeft` of what a run may still do
`ListsProofs!TypeOKHolds` | inductive as it stands
`ListsProofs!ListedInstalledHolds`, `RemovalCompleteHolds`, `InstallCompleteHolds` | inductive together with `Progress`
`CustomSelectProofs!SelectionExpandedHolds` | `SelectInv` = `Types`, `Sound` and `Complete`
`CustomSelectProofs!ExpansionNearsEnd` | with `SelectInv`, for its measure `Left` of what is to come
`OrdersProofs!InOrderLists`, `InOrderUnique`, `WithoutLists` | the place of an element is the number of elements that are not after it
`OrdersProofs!BelowWellFounded` | the order of `Below` is lexicographic, on counts
`WorkPlanProofs!TypeOKHolds` | inductive as it stands
`WorkPlanProofs!MergedInOrderHolds` | `TreeInv` = `TypeOK`, `PatchOnly` and `Ordered`
`WorkPlanProofs!SuccessMeansBuiltHolds` | with `TargetsMade`, `PlanWhole`, `NothingRan` and `LogsOfScripts`
`WorkPlanProofs!BuildsInOrderHolds`, `BuiltIsKeptHolds` | `OrderInv` = `TypeOK`, `TargetsMade`, `Numbered` and `InStep`
`WorkPlanProofs!NeedsBuiltHolds` | `OrderInv`, `TreeInv` and `Following`
`PackagingProofs!TypeOKHolds` | inductive as it stands
`PackagingProofs!ArchivesExactHolds`, `NamedAfterBookHolds` | `BuildInv` up to the logs, `ArchInv` from there on
`KconfigProofs!SyncTouchesHolds`, `SaveSafeHolds` | `SyncInv` and `SaveInv` are inductive
`KconfigProofs!SelectedOnScreen` | `ListInv` is inductive
`KconfigProofs!SelectedMatchOnScreen`, `CursorStaysInBox` | `MatchInv` is inductive
`KconfigProofs!ImplementsDisplaysHolds`, `ShownIsCurrentHolds`, `InterfaceOnScreen` | `MenuInv`, which contains `ListInv` and `MatchInv`
`KconfigProofs!UnsavedKnownHolds` | `UnsavedInv`, a case for each key

* **`PackageDB`: the store.** That a package is complete when its last line is recorded is true
  only because all paths were written before; neither `TypeOK` nor `RecordedIntact` remembers
  it. `Position` does: for each phase it says how far the loop has come and which paths are on
  disk by then, that a removal's victim still has its list, and that an upgrade retires
  versions only with `cur` bound. With it each action is a step of `PackageStore`: `RecordEnds`
  (for staged packages `CopyEnds`) is `Commit`, `RetireOld` and
  `BeginRemove` are `Retire`, `RemovePath` is `Erase`. `RecordedIntact` then follows from what
  the store's guards say (`StoreStepIntact`). These two proofs assume `PatternsSelectOwnLine`, that
  the pattern of a path selects that path's own line. `pkgdb_bracket` shows what happens
  without it.
* **`PackageDB`: upgrades.** `Tracked`: a list on disk is complete, or its package is being worked on
  or known to be half done. `AtHand`: whatever removes an old version has the list of
  the new one. A file the administrator edited, which the new version has, is then in a list that
  the removal's `grep` finds, so `PatternsSelectOwnLine` is assumed here too; and so is
  `NewNamesFree`, that no package has a file named like another of its files with
  `.new`: the copy of the one would go over the other.
* **`PackageDB`: exit status 0.** `Place` says where in the request the loop is, `Progress` what is
  true of the part behind it: for an install that every package there has its list or is
  excepted, for a removal that none has, for an upgrade that the last version named has and
  no other version does. The hard case is a request with two versions of one package, where
  the second undoes what was true of the first; `Latest` says which claims stay. It
  assumes nothing of paths or patterns.
* **`PackageDB`: orphans.** `NoOrphans` is not inductive, because `rmdir` and `rm` come one line at a
  time while the list that names the lines is still there. `Accounts` counts of a removal's own
  list only the lines still unread. A directory that the removal leaves, because something is
  in it, is accounted for by what is in it: a listing has each path's parent, and so has
  what accounts for the path inside (`NewTreeClosed` for `.new` files). It
  assumes `PatternsExact`: where the pattern of a path selects the line of another one, the path is kept
  for a package that does not have it.
* **`DepTree`.** `Walk` has five parts. `Fresh`: a tree not yet begun is empty. `Stamped`: no line
  is newer than `written`. `Chained`: a file on the stack reaches those above it. `Met`: the
  dependencies a file has been read past are in PROCD. `Waiting`: what a package in the tree
  needs to be built is in PROCD, and if its own line is still to be written then it reaches
  that package. What is in PROCD is never walked into again, so a need that is written
  after its user was on the stack when the user was written: that chain is the cycle
  that excuses the order.
* **`DepTree`: completeness.** `Covered` has four parts, of the tree being made. `Rooted`: the walk
  starts at the root and meets only what the root reaches. `Read`: what is in PROCD is on the
  stack, or all it needs is in PROCD as well. `Listed`: what is in PROCD is still to be written, is in
  the tree, or has the root's name inside. `SelfListed`: the root is in the tree once its own line was read. When
  the stack is empty, `Read` closes PROCD under needs, so it has all that the root reaches.
* **`DepTree`: the recursion comes back.** Liveness is out of the provers' reach, but the measure it
  rests on is not. `TurnsLeft` is the set of what a run may still do: to begin and end the walk
  of each root that is left, to read each line not yet read of the files on the stack
  and of those not in PROCD, and to come back from each. It is finite when the packages are
  (`TurnsFinite`), and each step of the script takes something out of it and puts nothing in
  (`StepShrinks`), a step down the recursion because the file it opens was not in PROCD before and is now. `Tidy`
  is what that needs of the stack: above the root it holds distinct files of PROCD, none read beyond its
  end. So no run goes on for ever, whatever the cycles; that it also never gets stuck is
  in `RunEnds`, which TLC checks.
* **`Lists`.** `Progress` says at each phase what is done. `Filling` and `Filled`: what an install or
  upgrade has still to do is in `todo`, and nothing is left when the copying starts. `Copying`: a list
  that is named has its file whole, or has a file still to copy. `Sparing`: what a removal has still to take is in no other list. `Emptying` and `Emptied`: what it does
  not take another list has the name of. `Filing`: the list files still to delete are in `files`.
  A kill leaves the invariant true because the lists at risk go to `torn`.
* **`CustomSelect`: the loop ends.** The selection does not get shorter: a meta may bring more words
  than it takes out, also metas that were expanded before. What gets smaller is the set of metas that
  may still come through others (`MetasToCome`). A round takes each of its metas out, and if no meta
  stands for itself, the one that stands for most is brought by none of the others (`TopMeta`), so it never comes
  again. The rounds after the last meta, and the words of a round, are the other numbers of `Left`.
  By `BelowWellFounded` it cannot go down for ever.
* **`CustomSelect`.** `Sound`: each word at hand is one that the selection stands for. That alone is
  not inductive in the set it speaks of; `StandsFor` is the least set that is closed under the
  contents of metas, and closed sets are what the lemmas argue with. `Complete`: there is a set of
  metas, those expanded so far, such that every word the selection or one of them brings is
  written, is one of them, or is still to come, be it later in this round or in the next. A
  round that met no meta has nothing left for a next one.
* **`Orders`.** `InOrder` chooses a list by what it must be, so that there is one has to be proved. The
  number of elements not after an element is strictly monotone along the order, hence injective, and
  an injection of a finite set into as many places reaches each. `WithoutLists` says of the lines
  that stay where each of them was.
* **`WorkPlan`: resuming.** `TargetsMade`: a target is there only for a script that ran to its end, and
  make has them all for the rules it is past. `PlanWhole` and `NothingRan`: what a set-up that
  ended left, and that nothing ran before it removed the difflogs.
* **`WorkPlan`: the order.** The order of the builds is that of `ls -r`, which is of texts, while
  the numbers are given by counting. `InStep` joins them as long as the numbers can be read back
  (not `Misnumbered`): numbers grow as texts in the order the scripts were copied in
  (`NumeralGrows`, `NumeralRead`), so the makefile has the copied scripts from the last to the
  first, the targets are those of the first scripts in the order of their time, and make is
  at a script with its target or at the first without. This is true up to 999 scripts: for
  the 1000th `printf %03d` writes a fourth digit, and `1000` comes before `101`. So the theorems
  are about states with `ThreeDigits`, and for `BuiltIsKept` about behaviours with it. `TreesOnce`, that no
  tree has a line twice, is what `DepTree` promises (`NoDuplicates`).
* **`WorkPlan`: from trees to builds.** `NeedsBuilt` joins what is proved of merging to what is proved of
  numbering. `Ordered`: the work tree has the order of the trees, also after the merging is
  over. `Following`: a script was copied after those of all that come before its package in the
  work tree, and in the middle of the copying there is a place in the work tree with all before it
  copied and the rest still to do. `BuildsInOrder` then says that the scripts copied before it
  ran before it.
* **`Packaging`.** `BuildInv` follows one script: what is newer than its timestamp or was not there
  before is its own (`Running`), a second log that a killed script left lists nothing that is
  gone (`Again`), the difference of the logs is the script's own (`OwnLogs`), and when it ended all it
  installed and left can be told (`AllTold`). `ArchInv` carries that through the package logs
  (`PkgOwn`, `PkgAll`), the joining of passes and the archives, where each log has its archive or
  is still to do (`LeftToDo`), and `$LFS_BLD` is `lfs` only after a package of that book
  (`Book`, with the logs in the order of their names).
* **`ConfigFiles`.** `SyncTouches` speaks of the moment after `sync_deps`; what keeps it is a fact about
  `auto.conf` at all times (`Recorded`): what the build has seen is what `auto.conf` says, or is
  touched, or `lost`, however many calls failed and however often values changed since. It holds because
  `auto.conf` is written last, after all touches. `SaveSafe` rests on `SaveInv`, that no file is cut short before a
  save is killed. With `ImplementsFiles`, both hold of `Kconfig` for whatever it evaluates.
* **`MenuList`.** `ListInv`: the list is a non-empty sequence of nodes, the selected one is on the
  screen, the window has a row, and the remembered rows are numbers. Each key is then
  arithmetic over `Scroll`: its lemmas say of each operator of scrolling that it puts
  what it selects on the screen.
* **`JumpTo`.** `MatchInv`: the place fits the matches (or there are none), the windows have a row
  and a column, and the edit box is one typing can lead to.
* **`Menuconfig`: the displays.** `MenuInv` adds to `ListInv` and `MatchInv` that the menu displayed can be entered, that
  list and matches are nodes of the tree, and that the list is that of the menu and mode, or
  `ListStale`. A key calls several functions that hand the globals on (`ChangeNode` sets a value,
  makes the list again, leaves a menu that became empty, and selects what was selected), so each of
  these has a lemma: from globals whose list is current (`Ready`) it makes globals whose list
  is current, or has raised. Each key is then a step of `MenuList` and of `JumpTo`, and their
  invariants are carried over to the interface (`InterfaceOnScreen`). This holds whatever is listed,
  as long as it is nodes of the tree: `NodesKnown` is the hypothesis, at every moment.
* **`Menuconfig`: unsaved changes.** A key leaves the values and the flag alone, sets the flag, or loads a file
  (`Flagged`). For the first two there is nothing to show, as the files stay; for a load and a
  save it follows from what `FilesKnown` says of the file, unless the file is the minimal one. `UnsavedInv` adds that there are two
  files and one of them is named.

The assumptions on the constants, which TLC evaluates in every run, are those of types and these:
versions of a kernel are all kernels, a listing has parents first (`PackageDB`); a plan lists no
script twice, a second pass belongs to a whole package, and the alphabet has every script (`Packaging`).
`NodesKnown` and `FilesKnown` are hypotheses about the states, not the constants alone: they
speak of what the operators make of the Kconfig object there is. `RunsShrink` assumes
finitely many packages, `ExpansionNearsEnd` finitely many metas.
Each run's instance satisfies the hypotheses of its theorems but `pkgdb_bracket`, which is
there to break one.

The type invariants of `PackageDB`, `DepTree`, `Lists`, `WorkPlan` and `Packaging` are proved and no run
checks them.

Only model-checked:

* The eight invariants of `Kconfig` about values and trees (`CacheCoherent` to `LoadReplaces`) and
  `ImplementsFiles`: evaluation and finalizing are mutually recursive operators, of which the
  provers know nothing, and what a recursive definition computes would take induction over data.
* `NeverRaises` and `KconfigKnown`: whether a node is in the list it is looked up in depends on which nodes
  `shown_nodes` gives before and after a value changes, so on the same operators.
* `RunEnds` and `ExpansionEnds`: liveness under fairness and `ENABLED` are out of the
  reach of the provers used. What is proved of them is that the loops
  do not go on for ever (`RunsShrink`, `ExpansionNearsEnd`); that they are never stuck half way is
  what TLC adds.

## What is left

1. Theorems: the parts of finalizing and of loading that could be written as recursive functions
   (`NothingLost`, `LoadReplaces`).
2. Components: targets and stamps of the workflow, with `.deps` files that change between
   runs of `DepTree`; the audit; the unmounting of kernel file systems.

## Not modelled

* Book processing: stylesheets and `xsltproc` calls, one pass from XML to text.
  Of `xsl/blfs-deps.xsl` only the order of the lines in a `.deps` file is used.
* The text of the menus the scripts generate: a choice made there is an input here.
* The LFS build through jhalfs: an external program is prepared and started.
* List creation: one pass over tree files, nothing else kept. The audit: it only reads.
* Build timers: three processes that sleep; what they do to each other depends on real
  time, and only reported times depend on them.
* Kernel file systems: straight-line mounts. Workflow: `make` decides by its stamps.
* Of the custom selection: names with an underscore, which `sed s/^CONFIG_.*_//` cuts.
* Of the work plan: the timers' files, and how locales sort what `ls` lists, which `Alphabet`
  stands for.
* Of packaging: stripping, pretended builds, the variants for chroots, and the order of
  `find` in the two lists that `diff` compares: a list is a set here.
* Of kconfiglib: the tokenizer, the parser and the preprocessor (macros, `source`), printing
  and warnings, `hex`, `defconfig_list`, environment symbols, and read errors in the middle of a
  file, after which some values are set and others are not. Of an `auto.conf` that was cut in the
  middle of a line, `Kconfig` has that line missing.
* Of menuconfig: drawing, styles and the decoding of keys; the information dialog's own
  scroll; the edit box of floating dialogs; files that cannot be decoded. A save that
  fails half way is in `Kconfig`.
* Of the lists: the error page that `curl` files as a list when the server refuses it.
* Progress output, colours, `ldconfig`, the git checkout of the book.
* The remaining audit targets of the makefiles name scripts that do not exist.
* The content of scripts a user supplies as pre- and post-install hooks: they succeed or
  fail.

## Running

    tlc -config pkgdb_shared.cfg MCPackageDB      (about two minutes)
    tlc -config deptree_graphs.cfg MCDepTree
    tlc -config lists.cfg MCLists
    tlc -config select.cfg MCCustomSelect
    tlc -config workplan.cfg MCWorkPlan
    tlc -config packaging.cfg MCPackaging
    tlc -config kconfig.cfg MCKconfig
    tlc -config menuconfig.cfg MCMenuconfig
    tlapm PackageDBProofs.tla DepTreeProofs.tla ListsProofs.tla CustomSelectProofs.tla
    tlapm OrdersProofs.tla WorkPlanProofs.tla PackagingProofs.tla KconfigProofs.tla
