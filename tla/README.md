# TLA+ models of chash

chash hashes the abstract syntax tree of a C translation unit while it is
compiled, in order to skip the rest of a compilation whose result is already
there, and to tell which definitions of a program a change affects. This
directory holds TLA+ modules that model its parts, TLC configurations that
check them on small instances, and TLAPS proofs for every instance.
`PROJECT.json` lists components, runs, mutants, the definitions with the source
lines they model, findings, hazards and theorems.

    tlc -config MCGlobalHash.cfg MCGlobalHash     # a run: see PROJECT.json
    tlapm GlobalHashProofs.tla                    # the proofs of a module

## 1. The system

| component | state | operations | talks to |
|---|---|---|---|
| object cache of the clang plugin (`clang-plugin/clang-hash.cc`, `clang-hash-stop`) | per process `atexit_mode`, hash, file names; on disk the object file, `.hash`, `.hash.copy` or `$CLANG_HASH_CACHE/xx/...` | lookup after parsing, `exit(0)` on a hit, atexit handler `link_object_file` | clang's driver and back end, the build system (modification times), compilers running in parallel |
| AST hash (`hash-visitor.h`, `*DataCollectors`) | hash stack, `DeclSilo`, `TypeSilo` | traversal of declarations, types, statements | clang's AST; gives the hash of the unit and of each definition |
| command line hash (`clang-hash.cc`) | none | reads the parent's `/proc` command line | part of the unit's hash |
| definition-use lists (`DefinitionUseVisitor`) | `CurrentDefinition`, `DefUseSilo` | `TraverseDecl`, `VisitDeclRefExpr`, `VisitCallExpr` | printed as `element-hashes`, collected into `.info` files |
| collect wrapper, `.info` files (`clang-hash-collect.in`, `chashutil.py`) | one file per object, records appended | append after a compilation, read the last record | many compilers write, `clang-hash-global` and `dependency_analyzer` read |
| global hashes (`clang-hash-global`) | memo table, `currently_processed`, exit status | resolve a name, recursive `get_global_hash`, print | reads `.info` files |
| change impact (`dependency_analyzer`) | call graph, memo table of the fake hashes | changed functions, dependents, dependees, fake global hashes | reads two sets of `.info` files |
| test runner (`test/run-tests`) | threads, one Future per test, `COLOR.has_colours`, counters | run tests in threads or inline, collect, TAP lines, exit status | starts the wrappers and the shell tests |
| gcc plugin (`gcc-plugin/`) | tree dump work list, SHA1 state | hash of gcc's trees at a pass | gcc |
| historical builds (`historical_build.py`, `global_historical_build.py`, `lib.py`, `analyze_results.py`) | list of commits, build directory, `current_revision`, `.info` files, summary | select a commit, build or reuse its parent, build it, gather and compare hashes, count | git, make, the wrappers |
| evaluation of the histories (`global_historical_evaluate_*.py`) | data of the previous commit, statistics | read, reuse, compare commit and parent, sum up | the files of a historical build, `clang-hash-global`, `dependency_analyzer` |
| records of commits (`run_test_project.py`, `add_commit_dates.py`) | `.info` files, file of commit infos | collect a slice of commits, add times | git, make, the collect wrapper |
| their validation (`validate_hashes.py`) | reports, `.csv` files | validate, make graphs | the files of the collection |
| other experiments (`incremental_rebuild.py`, `run_test_with_stopping.py`, `evaluate_data_with_stop.py`, `timing-internal.py`) | none between their steps | build, measure, print | make |

What is hard here:

* **Parallel compilers and a shared directory.** `make -j` runs many compilers.
  The cache works with `unlink`, `link`, `fopen`, `utime` in a row and no lock.
* **Crashes and failures in between.** The atexit handler runs in five system
  calls, each of which may fail, and a killed compiler stops between any two.
  It runs after the back end, whose success it does not know.
* **Hard links.** Copy and object file are one inode: one content and one
  modification time for several names.
* **Memo table and cycles.** Global hashes and fake hashes cut recursion at a
  symbol that is being processed and remember what came out.
* **Order of a tree walk.** The definition-use walk keeps one pointer for
  nested declarations.
* **Unlocked `.info` files.** Wrappers append while readers take the last line,
  a killed wrapper leaves half a line, a compiler that dies before the plugin
  prints a record without elements, and another test case may delete the file.
* **A build directory used again.** The historical builds reuse the directory of
  the previous commit, with its `.info` files, after builds that may have failed
  half way, and take the commits out of order. A symbol that moved has records in
  several files.
* **Data of the previous commit used again.** Three scripts with three conditions
  decide whether what they kept is the parent's.
* **Collections that die.** Records are written as commits are built, commit infos
  at the end, and another script empties the file of infos before it writes it.
* **Threads in the test runner.** Lazy initialisation without a lock, a flag
  read without a lock, an exception that leaves a Future unset.

`PROJECT.json` has each of these, with its line, under `hazards`.

## 2. Modules

| module | models | state ↔ code |
|---|---|---|
| `ObjectCache` | lookup and `link_object_file`, one action per system call; build system, editor, back end, driver and crashes around them | `dir`: directory entries to inodes; `content`, `newer`: what an inode holds and for which sources its time is later; `hashfile`: the `.hash` file; `pc`, `mode`, `ok`: the compiler of an object file, its `atexit_mode`, its exit status |
| `Compiler` | abstract: a compiler without a cache, which replaces the object file or fails and leaves none | refined by `ObjectCache` |
| `GlobalHash` | `get_global_hash` with explicit stack frames, the loops that call it (three options of `clang-hash-global`, and `dependency_analyzer`) with the resolution of names and the exit status, and what `read_info_files` leaves of the use graph | `global_hashes`, `stack`, `currently_processed`, `symbols_to_check`, `status`; a digest is the set of symbols whose local hash went into it |
| `DefUse` | the walk of `DefinitionUseVisitor` over any tree a C program can have | `CurrentDefinition`, `DefUseSilo`; `within`, `outer` are what the program text says |
| `DependencyAnalyzer` | changed functions, dependents, dependees, impacted functions as functions over the call graph, fake global hashes as a search with a stack | `ones`, `zeros`: the memo table |
| `TestRunner` | main loop, thread limit, helper threads, `Future.get` and `Future.set` statement by statement, `COLOR.format`'s lazy initialisation, TAP lines, exit status | `mpc`, `pc`: places of main and helpers; `value`, `set`, `lock`: the Futures |
| `InfoFiles` | wrappers that append records in two pieces, are killed, or whose file is deleted, and both readers of `chashutil.py` | `file`: the pieces in an `.info` file; `reader`, `todo`, `got`, `local_hashes`: `read_info_files` |
| `HistoricalBuild` | the loops of both build scripts and the `rebuild` of `lib.py`, over any history, any contents of several object files and any outcome of a make | `commits`, `current_revision`, `last_failed`, `builds` as in the code; `tree`, `uptodate`, `built`, `info`: the directory |
| `AnalyzeResults` | extends it with what `analyze_results.py` counts | `Stats` |
| `HistoryEvaluation` | the three evaluation scripts, one after the other over one dataset | `prev`: what is kept of the last commit; `stats`, `outcome` of each script |
| `CommitRecords` | collection of slices and commit times, in any order the user runs them, and scripts that die | `commitCounter`, `commitInfo` as in the code; `infoFile`: the file of commit infos; `records`: for which commits and object files a record was appended |
| `MC...` | constants for TLC | |
| `...Proofs` | theorems and proofs | |

Definitions whose comment begins with "Mistake" are used by no specification:
each is a plausible bug of one definition, put in its place to show that the
property it is listed with in `PROJECT.json` notices it.

### Abstractions

* A source is one of a few versions with a hash and an object code. `HashSound`
  is assumed: versions that compile and have the same hash have the same code.
  Whether the AST hash really has this property is the subject of the planned
  `AstHash`.
* At most one compiler per object file runs at a time, and a source is not edited
  while its compiler runs. Both are what make and a careful user do.
* clang writes an object file under a temporary name and renames it; the driver
  removes the object file of a compilation that failed, be it an old one.
  `Backend`, `BackendFails` and `Exit` model this as external code.
* The digest of `get_global_hash` is the set of absorbed symbols. On a cycle of
  two, the digests of both directions cover the same symbols and still are
  different md5 values; the model says nothing about the values.
* Python's order of dicts and sets, and of a list of used definitions, is left
  open: what is checked holds for every order.
* A C reference follows a declaration of what it refers to.
* `InfoFiles`: Python writes a record that exceeds its buffer in pieces, here two.
  A half record cannot be evaluated; make runs one compilation of an object file
  at a time. A compilation with errors leaves a record like any other: the plugin
  prints the elements anyway, and the wrapper stores them whatever was returned.
* `HistoricalBuild`: a `make -k` compiles all object files that are not up to date
  or any of them, or leaves one without its object file; which of these is not a
  property of the revision. A file is out of date if its source differs from what
  was checked out before. `os.walk` may list the `.info` files in any order. As in
  the code, only the number of changed symbols is kept. Numbers of `diffstat` and
  times are left out.
* `HistoryEvaluation`: an element is a pair of kind and name, its digest stands for
  what went into it. The order in which digests of used definitions are added is
  taken to depend on their names. No dataset has a cycle of uses (`NoRecursion`), so
  that the shortcuts of the code for cycles can be left out: with recursion digests
  depend on where a search began, and `GlobalHash` and `DependencyAnalyzer` are
  about that. Totals, averages and degrees are left out.
* `CommitRecords`: what records and infos say is left out. The record of this
  commit's wrapper does not name the commit (`clang-hash-collect.in:85` is a
  comment): for which commit a record was made is known to the model only. `make`
  may stop after any file (`run_test_project.py:126` has no `-k`). `CC` is
  `build/wrappers/clang`, a name that CMake no longer makes; the collect wrapper
  stands for it. The user runs one script at a time.

## 3. Runs

Passing runs:

| run | instance | shows |
|---|---|---|
| `local_build` | 2 objects, 3 versions, two of them with one hash, 2 edits, no faults | `Served`, `UpToDate`, `RebuildSkips`, `Isolation`, and that the cache implements `Compiler` |
| `cachedir_crashes` | 2 objects, shared directory, 1 crash anywhere | `TypeOK`, `CopySound`, `ServedNotWrong` |
| `cachedir_converges` | 2 objects, shared directory, every kind of fault, fairness | after the last edit and fault every object file becomes up to date (`Converges`) |
| `global_hash_all_graphs` | all 512 use graphs over 2 functions and a variable, one of the functions with the variable's name, every set of library symbols, every option, every order, fairness | `DefinitionCovers`, `NoFalseDependence`, `EveryHashCovers` (entries that lead to no cycle), `Answered` (all digests, or an error exactly if a name does not resolve) |
| `def_use` | 4 declarations of any kind, nested as C allows | `OnlyOwnUses`, `PlainUsesRecorded` |
| `impact_all_graphs` | all call graphs and pairs of versions of 3 functions, 2 hashes | `ImpactedExact`, `UnimpactedUnchanged`, `FakeExact` (complete for functions that lead to no recursion) |
| `test_runner` | 3 tests of any kind, 2 threads, exceptions anywhere, fairness | `Delivered`, `Verdict`, `TapAgrees`, `EndsUnlessRaised` |
| `info_files` | 2 object files compiled twice, an inline function in both, compilers that die, 1 wrapper killed, deletions, both readers | `MostRecent`, `NotMixed`, `DeletionHarmless` |
| `historical_builds` | all histories of 3 commits, both scripts, all modes, 2 object files and 3 symbols, one of which moves, builds of any outcome | `ParentBuilt`, `Summarised`, `ReusesAll`, `ChangesCounted`, `CallsCounted` |
| `history_evaluation` | 3 builds with any parents, 7 datasets, two revisions outside of the list | `SameCommits`, `LocalExact`, `GlobalExact`, `CallGraphCovers` |
| `commit_records` | 4 commits, any of them without configure, 2 object files, 2 collections of 6 slices, scripts dying anywhere | `SliceHashed`, `RecordsHaveInfos` |

One run shows a disagreement between the code and what the repository says of it
(`findings` quotes both): in `backend_failure`, a compilation that fails after
hashing stores the previous object file under the new hash, and the next
compilation "succeeds" with it (`Served`).

The same models show further disagreements when a constant or a property is
changed, each with a short trace:

| change | what happens |
|---|---|
| `MCObjectCacheBackend.cfg` with `Faults = {"crash"}` | a compiler killed between `link` and `fopen` leaves the new copy under the old hash; back at the old source, a hit delivers the wrong code (`clang-hash.cc:73`, `:81`) |
| the same with `Versions = {1, 2, 3}`, `FrontErrs = {3}`, `Faults = {}` | a source with an error is cached too; a correct source with the same hash gets the previous object file (`clang-hash.cc:257`, `:399`) |
| `MCObjectCacheDir.cfg` with `Faults = {}`, `MaxFaults = 0` and invariant `Served` | a hit unlinks its object file, then finds the shared copy unlinked by a late miss: exit status 0 and no object file (`clang-hash.cc:67`) |
| the same with invariant `UpToDate` | a hit updates the time of an inode that is also another object file, which then looks newer than its edited source (`clang-hash.cc:87`) |
| the same with `Faults = {"syscall"}`, `MaxFaults = 1` and invariant `ServedNotWrong` | a hit whose `unlink` fails leaves the previous object file with exit status 0 (`clang-hash.cc:62`) |
| `EveryHashCovers` without its condition `CycleFree` | with a cycle, a symbol met below its user keeps an incomplete digest in the memo table, which is what its users and an invocation that asks for it later get (`clang-hash-global:45`, `:42`) |
| `MCGlobalHash.cfg` with a symbol `<<"static function", b>>` in `MCSymbols` and invariant `DefinitionCovers` | the uses of a static definition are dropped on reading, and the hash of its user misses them (`chashutil.py:83`) |
| `MCDefUse.cfg` with invariant `AllUsesRecorded` | a declaration with global storage inside a function ends the recording for the rest of the function (`clang-hash.cc:180`) |
| `MCTestRunner.cfg` with `N = 2`, `Threads = 3`, `CanRaise = FALSE` and property `Ends` | two first calls of `COLOR.format` at once: a thread dies before `Future.set` and main waits for ever (`run-tests:51`) |
| `MCInfoFiles.cfg` with `ReaderSucceeds` | a reader that opens a file while a record is appended ends with an exception: only `IOError` is caught (`chashutil.py:44`) |
| `ChangesCounted` without its exception `Several` | a symbol moved from one file to another, with another hash, back with its first one, is not counted as changed: the stale record of the file it left comes later in the walk (`lib.py:12`, `global_historical_build.py:126`) |
| `MCHistoryEvaluation.cfg` with invariant `LocalWithinGlobal` | after a commit whose parent has no data, the next one is compared with the global hashes of an older commit (`global_historical_evaluate_global.py:200`; `global_historical_build.py:283` says the local change should show) |
| `FakeExact` without its condition `RecursionFree` | with recursion a function keeps the fake hash 0 though it calls an impacted one (`dependency_analyzer:175`, `:192`) |

What the models state as the code's behaviour, and a reader of the scripts would
not expect:

* `clang-hash-global --all`, which the usage text offers (`:25`), looks for every
  symbol with a second prefix before the one it has (`:138`, `:144`) and exits with
  status 1 at the first one, unless there are no symbols at all;
* a removed symbol is not counted as changed: its old record is still in the
  `.info` file (`global_historical_build.py:271`);
* a compilation that left no object file leaves a record without
  `object-file-size`; `read_hash_directory` raises over it (`lib.py:19`) where the
  comment at `global_historical_build.py:199` expects a failed build to be noted,
  and the summary of all builds is lost;
* in the default mode `normal`, `global_historical_build.py` ends with a
  `KeyError` (`:231`): that mode collects no hashes;
* `gather_global_hashes` always returns an empty table;
* in mode `clang-hash` nothing writes hits and misses to the log, and
  `analyze_results.py` counts 0 of both; it also counts builds whose parent was
  not ok;
* the call graph script raises at `:146` on the first commit whose parent is not
  the previous one, and its count of inserted and deleted functions is always 0;
* a slice such as `2 1` collects all commits from the second one on
  (`run_test_project.py:132`);
* after two collections the file of commit infos has two lines, and
  `add_commit_dates.py:29` cannot evaluate it.

### Bounds

`MaxEdits` = 2 allows the sequence old, new, old on which stale copies show.
`MaxFaults` is 1: one fault is enough to separate two files that belong together.
Two objects are enough for two compilers that share a copy; three versions give a
pair that shares a hash and one that does not. There is an inode for each path
that can exist at once and one for the file being written: 3 for one object, 4
to 5 for two. Inodes are interchangeable and treated as symmetric. The run with
fairness has one version and one edit (a touch), since what it is about is
whether compilers come to rest. Three symbols have all shapes of graphs with a
cycle and a user outside of it, and two that share a name but not the prefix. `DefUse` needs a function, something declared
inside of it, something referred to, and one more. Three tests with a limit of
two threads have a helper thread, an inline helper and a test that has to wait.
Two object files and two compilations each are enough for a reader to meet an old
and a new record of a shared definition. Three commits have linear and branched
histories and a commit whose parent is passed over, and are enough for a symbol to
move to another file and to get back its first hash there; three builds have a commit
evaluated, one without data and one that meets what the first two left behind.
Two collections of four commits meet, overlap, leave a gap, or repeat a commit.

### Fairness

`ObjectCache`: weak fairness of a running compiler's steps and of the build
system, which goes on until all is up to date. A compiler is a process that the
kernel runs on, and make does not stop on its own; edits, faults and plain
compilations have no fairness. `GlobalHash`: weak fairness of the search, a
single Python process. `TestRunner`: weak fairness of main and of each helper:
Python switches between threads, and the commands of the tests end.

## 4. Proofs

| theorem | statement | argument |
|---|---|---|
| `TypeCorrect` | `[]TypeOK`, every mode, every fault | `TypeInv`: `TypeOK` and what each place of the handler knows of the existence of its files |
| `DirCopySound`, `DirServedNotWrong` | shared directory; crashes and failing calls, no failing back end or front end | `DirInv`: `Coherent`, every copy named by a hash holds the code of that hash; `Compiled`, an object file at the places after the back end holds the code of its source. `CopySound` alone is not inductive: the content of the next copy comes from an object file another process may be linking |
| `LocalServed`, `LocalUpToDate`, `LocalCopySound`, `LocalRebuildSkips`, `LocalIsolation` | cache next to the object file, no faults | `LocalInv`: `Disjoint`, files of different objects never share an inode; `LocalOK`, per place of the handler, which of object file, copy and hash file belong together |
| `LocalImplementsCompiler` | `ObjectCache` implements `Compiler` there | step simulation from `LocalInv`: every step is a step of `Compiler` or a stutter |
| `GlobalHashNoFalseDependence` | digests absorb nothing but what is used | `WithinInv`: digests, on the stack and stored, are within what is reachable |
| `GlobalHashDefinitionCovers` | the first symbol asked for depends on all that is used, on every graph, if no definition is static | `KnownInv`, `FirstInv`, `CoverInv`: what a finished symbol uses is finished or on the stack, so that the bottom frame has seen all of it when it ends |
| `DefUseOnlyOwn` | nothing foreign is recorded | `CurrentInv`: inside a declaration, `CurrentDefinition` is null or open; its initial value is never used |
| `TestRunnerDelivered` | main never collects None nor another test's verdict | `FreshInv`, `FutureInv`, `CollectInv`: a helper begins once, a set flag has its value behind it for good, main collects from set flags in order |
| `HistoricalBuildParentBuilt` | whatever builds fail, a commit whose parent is ok is built on a complete build of that parent | `BuildInv`: `ParentBuilt` and `Remembered`, `current_revision` names a revision only while the directory holds its build |
| `HistoricalBuildTypeCorrect` | the loop over the commits keeps its types | `TypeInv`: `TypeOK`, and a parent is built from scratch only if there is one; the position taken out of the list is the least of a set of numbers |
| `GlobalHashEveryHashCovers` | every digest of the memo table depends on all that is used, if its symbol reaches no cycle and no definition is static | `EveryInv`: `CycleFreeUses` (what a cycle-free symbol uses is cycle-free), `StackCycle` (a symbol met again while it is on the stack closes a cycle) and `FramesCover`, a call for a cycle-free symbol has absorbed all that is used by what it has absorbed, but for the rest of its own list; so the `currently_processed` shortcut is never taken by such a symbol's call |
| `DefUsePlainUses` | what a definition without an inner one refers to is recorded | `PlainInv`: `OwnInv`, while the walk is in a definition without an inner one, `CurrentDefinition` is that one; `NestInv`, what has a definition open inside of it is known to have an inner one; `SeenInv` and `CompleteInv`, lists are complete at any time and empty before a declaration is met |
| `DependencyAnalyzerFakeExact` | the search with fake hashes reports impacted functions only, and in the end all of them that lead to no recursion | `FakeInv`: `StackInv` (the calls on the stack are a path in the call graph), `OnesInv` (a 1 is impacted), `ZerosInv` (a function that leads to no recursion gets a 0 only after all it calls), `AskedInv`; a 0 that may be wrong comes from a cycle through the stack |
| `TestRunnerVerdict`, `TestRunnerTapAgrees` | the exit status and the TAP lines are those of the tests | `TapInv`: `FuturesInv` numbers the futures by the ids of their tests, `LinesInv` has one line per test that got to report, `ExitInv` has all results counted at the exit. The code compares two counts: the sets are nested, so that equal cardinality makes them equal; the numbers of the lines are a bijection with the tests |
| `HistoricalBuildSummarised` | every commit is in the summary once | `ListInv`: commits done, at hand and to do are apart and together all commits; the list has one entry per commit done |
| `HistoricalBuildChangesCounted` | the number of changed symbols kept for a good commit on a good parent lies between those changed and those changed, added or found in several files, for any number of files | `InfoInv` (the newest record of an object file that is up to date is its own), `Gathered` (the hashes gathered of a good parent are those of its source, but for symbols with records in several files), `CountInv`, on top of `BuildInv`: without it the hashes gathered could be those of another commit's build |
| `HistoricalBuildReusesAll` | without failures no order of the commits builds fewer parents | `HistoryInv`, `OrderInv`, `ReusedInv`, `ServesInv`: a parent with a commit on it serves exactly one child without a build, which gives a bijection between the reuses and such parents |
| `InfoFilesMostRecent`, `InfoFilesNotMixed`, `InfoFilesDeletionHarmless` | what `read_info_files` gets while wrappers write, die and files are deleted | `FileInv` (the records of a file are in order, their halves paired), `CleanInv` (without kills, no torn record is left behind), `KnownInv`, `GotInv` (the age of what was read against the walk's beginning), `TableInv` (`local_hashes` and the records read) |
| `HistoryEvaluationSameCommits`, `HistoryEvaluationLocalExact` | three scripts with three ways to keep the parent's data evaluate the same commits; the local one reports exactly what changed | `TypeInv`, `PrevInv` (the data kept for a revision is what its file holds), `StatsInv` (of the commits reached, those with data and with data of their parent have been evaluated), `OutcomeInv` |
| `DependencyAnalyzerImpactedExact` | `get_dependents` and `get_dependees` find exactly what is reachable, on every finite call graph | `search` is a recursive function over the set `processed`, which shrinks: the least table that fits is shown to solve its recursion. What it finds is within what is reachable; that it finds all of it is shown by a maximal set of processed symbols for which it would not: the call for the next symbol has a larger set |
| `DependencyAnalyzerUnimpacted` | what is not listed is unchanged, and so is all it calls | from `ImpactedExact`'s lemmas: what is listed is closed under callers |
| `HistoricalBuildCallsCounted` | `analyze_results` counts every build and compilation once | `CallsInv`, what a build saved of its compilation says how it ended. The fold over the summary: a table of counts by prefix solves its recursion, and by a minimal counterexample no other does |
| `HistoryEvaluationGlobalExact` | without recursion, the global script reports exactly what changed or uses what changed | `GlobalPrev`: the global hashes kept are a solution of `get_global_hash` for the commit they are kept for, as long as its parent was not noted as without data; `GraphExact`. Uses without cycles have a maximal closed set on which the recursion is solved, which is all of them; a memo table that is right leaves the result as it is (`MemoRight`), and two global hashes are equal exactly if all below them is (`HashesTell`) |
| `HistoryEvaluationCallGraphCovers` | without recursion, a complete diff makes the call graph script cover the global one | from the same invariant: where nothing named is reached, a function reaches the same functions with the same hashes in commit and parent (`SameReach`, `SameBelow`) |

Assumptions are the named `ASSUME`s of the modules: the types of the constants,
that `None` is none of the values it stands in for, that a commit's parent is older
than the commit, `HashSound`, that equal hashes mean equal code, that the call
graphs of `DependencyAnalyzer` have finitely many symbols, and of the datasets of
`HistoryEvaluation` that files are finite sequences of records of the known kinds,
each with finitely many uses and none using itself directly or indirectly, and that
diffs name finitely many functions. The `Dir` and
`Local` theorems state mode and faults in the theorem, `GlobalHashDefinitionCovers` and `GlobalHashEveryHashCovers` that no
definition is static: those lose their uses on reading (`chashutil.py`, line 83).

The auxiliary lemmas count with the cardinalities of nested finite sets and with
bijections. Where a lemma is about a recursive function or a fold, induction over
the data is replaced by an extremal counterexample (lemmas `LeastNat`, `Maximal`,
`Minimal`): a finite set of subsets has a maximal and a minimal element, and a
counterexample there leads to another one beyond it. That the recursion has a
solution at all is shown by giving one.

Only model-checked:

- `Converges`, `Answered`, `EndsUnlessRaised`: liveness under fairness;
- `SliceHashed`, `RecordsHaveInfos` of `CommitRecords`: no proofs of them have been
  written.

## 5. Not modelled, and the plan

Not modelled: the wrappers that only start a program; the data collectors, which
are tables of fields; the arithmetic of the hash functions; vendored gcc headers;
the Arcanist engines; the event log `$CLANG_HASH_LOGFILE`; percentages, histograms
and plots of the experiments; `validate_hashes.py`, which looks up the commit in every
record (`:212`, `:401`) and so ends with a `KeyError` on the records that the wrapper
of this commit writes; the experiments that build, measure and print in
one go (`evaluate_data_with_stop.py` only sums up; it appends its running totals
inside the inner loop, so that its averages per file are of partial sums).

Order of the next modules, by importance:

1. `AstHash`: `CHashVisitor` with hash stack, `DeclSilo` and `TypeSilo` over
   small declaration graphs. The hash of a definition must not depend on the
   order in which functions are referred to and traversed, and must cover the
   parts of the tree code generation reads. This is where `HashSound` comes from.
   It depends on what clang's `getBody`, `setBody` and `isDefined` do with
   several declarations of one function, which is code outside of the repository.
2. `CommandLine`: `hashCommandLineArguments` against a reference definition of
   which arguments matter.
3. `MurMur`: the block buffer, with the mixing functions uninterpreted: the
   digest does not depend on how the input is cut into updates.
4. `ObjectHashTest`: the verdict of `run_testcase_objecthash` over the hashes of
   the variants, composed with `TestRunner`.
5. The work list of the gcc plugin's `dump.cc`.

Theorems left: `SliceHashed` and `RecordsHaveInfos` of `CommitRecords`.
