# Verification of the ICFlow dynamic collection pipeline

The repository collects *dynamic ground truth for indirect control flow*: it
builds Arch Linux packages with a custom clang, runs their test suites under
Intel Pin, and records which (call site, target) and (jump site, target) pairs
are really executed.  This directory holds TLA+ models of the programs that do
that, TLC configurations that check them on small instances, and theorems that
TLAPS proves for every value of the constants.

## 1. Inventory

| Component | State it keeps | Operations | Talks to |
|---|---|---|---|
| `Mypintool/source/tools/MyPinTool/MyPinTool.cpp` | per process: `.text` range, `IndirectJumpEdges`, `IndirectCallEdges`; on disk: `<image>_ijump.json`, `<image>_icall.json` | `ImageLoad`, `Instruction`, `RecordIndirectEdge`, `Fini` = two `LoadEdgesFromJSON`, two `SaveEdgesAsJSON` under a `FileLock` | other runs of the same executable, through the two files and their `flock` |
| `wrap_with_mypintool.sh` | each ELF `b`, its backup `b.orig`, a temporary wrapper | move the ELF away, write a wrapper, move it into place | started from `check()` of a rewritten PKGBUILD, or by `verify_llm_pipeline.sh` |
| `restore_wrapped_elfs.sh` | the same files | remove the wrapper, move the backup back | the same callers, and the traps of the driver |
| `collect_dynamic.sh` | `processed_urls.txt`, `failed_urls.txt`, clones, `wrapped-executions.tsv`, `artifacts/`; `current_source_dir`, `failures` | loop over a URL list: clone, build, test under Pin, collect, restore, record; EXIT, INT and TERM traps | git, makepkg, the two scripts, MyPinTool |
| `buildall_timeout.sh` | `processed_urls.txt`, `build_summary.log`, `elf_map.txt`, `clone_counter.txt`, `clone_timestamp.txt`, package directories | batches of ten: parallel clones with a rate limiter and retries, a barrier, parallel builds, a barrier | git, makepkg |
| `collect_arch_git.sh`, `collect_arch.sh` | the package and URL lists | paged fetch into temporary files, `mv` into place | the two drivers read the lists |
| `llm_test_generation/generate_tests.py` | an output directory | select files, render a prompt, ask a model with retries, validate, materialise | `verify_llm_pipeline.sh` |
| `llm_test_generation/compare_icall_pairs.py` | none | set difference of recorded pairs | reads the files MyPinTool writes |
| `verify_llm_pipeline.sh` | baseline and candidate results | seven steps, with an EXIT trap around wrap and restore | all of the above |
| Pin kit, `json.hpp`, old tools, Dockerfiles, examples | | | vendored, superseded or declarative |

### What is hard

* **Concurrency.**  A test suite runs one executable in many processes; all of
  them merge into the same two files.  `buildall_timeout.sh` runs jobs that share
  a counter file without a lock.  Two collections started on the same directory
  replace the same package lists, which a server changes while they are fetched.
* **Crashes and restarts.**  Every script is long-running and meant to be
  resumed; every file operation is a place where it may be cut.
* **Timeouts.**  `timeout` ends makepkg, and with it tests, wrap and restore
  scripts, at an arbitrary point.
* **Partial failure.**  `flock`, `open`, `write`, `mv`, `cp` can fail, and in many
  places nothing looks at the result.
* **Stale state.**  A kept work directory has logs, JSON files, wrappers and
  backups of an earlier attempt.

### What makes each part correct

* MyPinTool: files contain only executed edges (sound), lose none (complete),
  can always be read back, and `Fini` ends.
* Wrap and restore: no executable is ever lost; no wrapper without a target; no
  wrapper around a wrapper; a completed run did all its work; the executable that
  is collected is the last version of those whose edges are in the JSON beside it.
* `collect_dynamic.sh`: "processed" is recorded only for packages whose tests ran
  under Pin, is final, and covers all results; a session that claims success
  processed everything; no wrapper is left behind; a session ends, or waits for a
  clone or for a test that outlives its timeout.
* `buildall_timeout.sh`: the rate limit, nothing that was cloned is forgotten, no
  directory is left, every URL is recorded, `elf_map.txt` is true and complete, a
  session ends unless a clone or a build never does.
* `collect_arch.sh`, `collect_arch_git.sh`: lists are complete, the
  two lists of a repository belong together, success means that every requested
  set was collected, temporary files go, every session ends.
* `generate_tests.py`: the prompt uses its limits fully and fairly, requests are
  bounded (in the type invariant), nothing is overwritten without `--force`,
  generations do not mix, and the metadata file marks a complete suite.
* `compare_icall_pairs.py`: its counts are those of the two sets and fit together.
* `verify_llm_pipeline.sh`: a pass and the numbers of its summary are exactly what
  the two test runs executed; the demo's executable is restored; the script ends.

`PROJECT.json` lists the hazards line by line with the properties aimed at them.

## 2. Modules

| Module | Models | Proofs | Instances |
|---|---|---|---|
| `GroundTruth` | the abstract promise of the tool: runs observe edges and publish them into a store that only grows | | |
| `MyPinTool` | `MyPinTool.cpp`, several runs of one executable | `MyPinToolProofs` | `MCMyPinTool` |
| `WrapRestore` | both scripts on one build tree, with linking, test runs and collection as environment | `WrapRestoreProofs` | `MCWrapRestore` |
| `CollectDynamic` | `collect_dynamic.sh` and its sessions | `CollectDynamicProofs` | `MCCollectDynamic` |
| `BuildAll` | `buildall_timeout.sh` and its sessions | `BuildAllProofs` | `MCBuildAll` |
| `ArchLists` | `collect_arch.sh` and `collect_arch_git.sh`, several sessions and the server | `ArchListsProofs` | `MCArchLists` |
| `GenerateTests` | `generate_tests.py`, repeated runs on one output directory | `GenerateTestsProofs` | `MCVerifyPipeline` |
| `ComparePairs` | `compare_icall_pairs.py`, as operators | `ComparePairsProofs` | `MCVerifyPipeline` |
| `VerifyPipeline` | `verify_llm_pipeline.sh`: composes `GenerateTests`, `ComparePairs` (extended) and `WrapRestore` (instantiated as `W` for the demo's one executable) | `VerifyPipelineProofs` | `MCVerifyPipeline` |

Definitions keep the source's names; the operators with names such as
`LockFailsUnnoticed`, `FailUnrecorded` or `FreeNameUnchecked` stand directly before the
definition they vary.  They are the code with one plausible mistake in it, and
each property is known to fail for at least one of them.

### MyPinTool

`pc[p]` is the position of process `p`: `idle`, `run`, the steps of `Fini`
(`load`, `open`, `flock`, `trunc`, `dump`, `unlock`), or its end (`done`,
`aborted`, `killed`).  `cur[p]` is the kind that `Fini` is at: it loads ijump then
icall, and saves ijump then icall.  `edges[p]` are the two maps; `file[k]` is the
output file of kind `k` and `holders[k]` the holders of its `flock`.  `taken[p]`
is a history variable: what `p` executed.

| Action | Code |
|---|---|
| `ImageLoad` | `main`, `ImageLoad`: finds `.text` of the main executable |
| `Take` | `Instruction` and `RecordIndirectEdge` for a taken branch; the mutex makes it atomic |
| `Fork` | the child inherits the maps |
| `LoadEdgesFromJSON`, `LoadAborts`, `LoadCannotOpen` | the three ways out of a load |
| `OpenLockFile`, `Lock`, `LockFails` | `FileLock`: `open(O_CREAT)`, then `flock(LOCK_EX)` |
| `Truncate`, `Dump`, `Unlock` and their failures | the body of `SaveEdgesAsJSON` |
| `Kill` | the process dies; the kernel drops its locks |

Abstractions.  A transfer is a record of site, target and instruction class.
A file is `absent`, `torn` (empty or a prefix, which the parser rejects), `null`
(what `dump` makes of a `json` without keys) or an `object` with a set of edges.
Reading a file is one step.  Addresses are absolute, as in the non-PIE executables
the build configuration produces.  The map of multi-image programs is not
modelled: the tool ignores all images but the main executable.

### WrapRestore

A path is `<<b, n>>`, the executable `b` with `n` times `.orig`.  `fs` maps paths
to nothing, an ELF of some version, or a wrapper.  `script`, `step`, `at` and
`todo` are the running script, its position in the loop body, the file it is at
and what its `find` may still report.  `find` runs beside the loop, so it may
report what the loop itself creates; the order is arbitrary.  The environment
(only while no script runs) links executables (`Link`), runs tests (`RunTest`)
and collects results (`Collect`, the pairing rule of `collect_artifacts`: `b.orig`
if it is a file and otherwise `b`).  A copy keeps its name, so `artifact[b]` has a
slot for each of the two, and what an earlier collection has put into the other
one stays there.  `json[b]` is the set of versions that have run under the
wrapper: relinking does not empty it.
`Kill` and `CommandFails` end a script between any two operations.

### CollectDynamic

One session is a sequence of steps `pc`.  The build tree of a package is reduced to
one executable: what is at its path (`exe`) and whether a backup exists (`orig`).  The
two scripts, modelled in full in `WrapRestore`, are one step each here, which
`TestTimeout` and `Crash` may cut between the two renames (`CutShort`).  A failing
command is a `cp`, an append or a `tee`, the restore script, or the truncation of the
log: then `log` keeps its old entries, and `stale` remembers it.  Inside `if !
process_package` errexit is off and the attempt goes on, and a failing last `tee`
makes it return a failure after the URL was recorded; outside, `Errexit` ends the
session.  Which URL's code is in a directory is tracked by `repo`, `json` and `art`,
so that results under a wrong name are visible.  `Interrupt` is INT or TERM (bash runs
the traps after the foreground command, and ^C may have ended that one half way:
`HalfRestored`), `Crash` is everything that runs no trap.  `ran` and `crashed` are
history variables.  A second build that fails, and a PKGBUILD without `check()`, both
take `NoCheck`.

### BuildAll

`pc`, `pos`, `batch`, `k` are the main shell; `job[u]` is the background job of
`u` and its position.  The limiter's files are `counter` and `stale` (is the time
stamp a minute old?); a job keeps what it read in `cnt[u]`, and reads and writes
are separate steps because no lock protects them.  `Tick` is the passage of a
minute.  `started` counts the clones that jobs begin in the running minute and `cut` the
directories a crash has left: both are history variables.  A clone that is
answered with HTTP 429 waits (`RetryAfter`) and is repeated without going through
the limiter.  `git clone` has no timeout, and `timeout` only sends `TERM` to a
build: with `CanHang` either may never end (`CloneHangs`, `BuildHangs`).  `Crash`
stops the shell and its jobs together, as the end of the container or of the
machine does.  A URL stands for its
package directory (the generated lists have no duplicates).

A build that succeeds copies its ELF files one by one (`CopyElf`), `FreeName` being
the loop that looks for `name`, `name_1`, `name_2`, ...  A file name is the
sequence of its parts between underscores, each a number, so that a package that
itself builds a `name_1` makes the same name as the renamed copy, as in the code.
`elf` is `elf_outputs`, `map` is
`elf_map.txt` (emptied at each start), `built` the packages of the running session
and `alone` whether the clones of this minute have not overlapped.  The line of
`build_summary.log` and the line of `processed_urls.txt` are separate steps.  `cp`
is taken to succeed.  Log texts and percentages are left out.

### ArchLists

A session of `collect_arch.sh` checks for missing lists (`Check`), calls
`collect_arch_git.sh` if there are any (`Generate` to `PublishUrls`), and then
collects each requested set (`Collect`, `CollectMissing`, `CollectEnd`); the
collection itself is one step that succeeds or fails.  Packages are numbers in the
order the server lists them, so a page is an interval of ranks (`Results`), and a
package that disappears moves all later ones up, as an offset into a changing
table does.  `totals` tells servers that report `num_pages` from those that do not:
the loop ends differently.  A list is a set of lines (`sort -u`), a URL is named
after the `pkgbase`.  `Interrupt` runs the EXIT trap, `Kill` does not;
`FetchFails` stands for `curl`, `jq`, `sort`, `awk` and `mv` failing.  History:
`must` and `owed` (what a fetch could not miss), `mixed` (a repository of which
two sessions, or one that was cut, left lists of two fetches), `collected`.

### GenerateTests

| Actions | Code |
|---|---|
| `Invoke` | `main`, `iter_candidate_paths` up to the sorted buckets |
| `Rank`, `RankEnd` | the round robin over `category_order` |
| `Select`, `SelectEnd` | the loop over `ranked` in `select_project_files`, `--dry-run` |
| `Answer`, `TransientError`, `FatalError`, `NoKey` | `call_responses_api`, or the response file |
| `Accept`, `Reject` | `validate_generated_suite` and all checks of `materialize_suite` |
| `WriteFile`, `WriteEnd`, `WriteGeneration`, `WriteMetadata` | the writes, each of which may fail before or after it has truncated the file |
| `Interrupt`, `UserWrites` | the program is ended; somebody else puts a file into the directory |

A file of the project is a record of what the selection looks at.  Names of an answer
are mapped to paths by `Target` (two names may be the same path, or leave the
directory): `SafeName` tests the text of a name (`Reserved`) before links are
resolved, as the code does, so that a name in `Linked`, which leads through a symbolic
link, may end at a reserved path.  `Above` are the directories a path needs, `dirs`
those that exist. `disk[p]` says which run wrote a file and whether it is whole.
`writer.before`, a history variable, is what was there when the directory had been
checked.

### VerifyPipeline

`caller` tells the generator used by itself (any mode, `--force`, twice) from the
script.  `vpc` is the script's position under `set -e`: `Then` goes on or leaves, and
from the wrap on `Leave` goes through the EXIT trap.  `Interrupted` also ends the
command that is running, the wrap script at any of its steps included; `Crash` runs no
trap.  `lists` are the two case files, `icall` the document that MyPinTool keeps
beside the executable: `RunCase` merges a case's edges, `CaseDies` leaves them out or
leaves the document torn, and `CaseUnsaved` is a save that fails without a word: the
edges are missing and the case's exit status is its own.  The exit status of `make
check` is that of its loop's last case, as in the demo's Makefile.  `ran` (what each
list has executed and saved) and `blame` (what kept the trap from restoring) are
history variables.  The document's name and the one executable are constants of the script.  The edges of a case have valid addresses
(`CasesAssumption`): MyPinTool writes numbers.

## 3. Runs

Passing runs:

| Run | Question | Instance |
|---|---|---|
| `pintool_faults` | Are files sound, maps complete, writes made by the one holder of the lock, and does `Fini` end, with overlapping `Fini`s, kills and failing calls? | 2 processes, transfers inside, across and just past `.text`, one direct |
| `pintool_serial` | With one `Fini` at a time and no faults: is no edge lost, does nothing abort, are torn files transient, is `GroundTruth` implemented? | 3 processes |
| `wrap_faults` | Do the invariants of the two scripts survive kills, failures and relinking in any order of calls, and is the collected executable the last version that ran? | 2 executables, 2 versions |
| `collect_recovery` | Do sessions account for every URL, collect everything, clean up and end, with interrupts, crashes, restarts and tests that hang? | 2 packages, list `<<u1, u2, u1>>`, 3 sessions |
| `collect_faults` | Is "processed" truthful and final even if copies, appends, truncations, `tee` and restores fail, tests eat standard input or hang? | the same list, one repository without a PKGBUILD, 2 sessions |
| `build_parallel` | Nothing hidden but by a crash, directories removed, everything recorded, the rate limit kept by clones that do not overlap, `elf_map.txt` true and complete, sessions end unless every job that is left hangs | 2 URLs in one batch, 2 jobs, rate limit 1, 2 attempts, 2 sessions; ELF names that collide, one of them with a renamed copy |
| `arch_lists` | Complete, matching lists, no temporary directory, truthful success, sessions end, with two sessions, a changing server, failures, interrupts and kills | 2 sessions (`core`; `core extra`), 3 packages of 2 bases, two packages per page, 1 change |
| `llm_pipeline` | The generator's selection, retries and output directory; the verification script's result, summary and clean-up | projects of 8, 3 and 2 files, one without a usable file, 7 answers, 2 generations, 1 retry, 2 by 2 case lists |

Runs that show a disagreement between the code and what the repository says of it:

| Run | What TLC finds |
|---|---|
| `pintool_lost_update` | `Fini` loads before it takes the lock, so of two overlapping `Fini`s the later save erases what the earlier one wrote (`MyPinTool.cpp:159`; the comment says "merge + save"). |
| `pintool_abort` | A run killed between truncation and write leaves a torn file; every later run aborts in `LoadEdgesFromJSON` and saves neither file (`MyPinTool.cpp:60`). |
| `collect_stdin` | A test that reads its standard input consumes URL_LIST; the rest is never looked at and the session reports success (`collect_dynamic.sh:275`). |
| `build_resume` | A URL is recorded as processed when it is cloned; a session ended before the build hides the package from every later one (`buildall_timeout.sh:146`). |

### Bounds, and why they are enough

* Two processes show every interference between two saves, or between a save and
  a load; a third, in the serial run, shows a chain of merges and a fork of a fork.
  One transfer per output file tells own, merged and lost edges apart; the boundary
  set has a target exactly at the end of `.text`.
* Two executables let a script work on one while the other is in any state; two
  versions are enough for a stale backup beside a newer executable.  A path with
  two `.orig` exists so that double wrapping could be seen.
* A list that names a package twice, and three sessions, allow a crash, a
  recovery, and a session after the recovery.
* Two URLs on two jobs give every interleaving of two clone jobs and two builds, the
  race on the limiter's counter included; after a crash the second session has a
  batch that is not full.  A rate limit of one is reached at once.  The wait for a
  free job slot does not occur with as many jobs as URLs.  `MaxSessions`,
  `MaxVersion` and `MaxRetries` (3 in the code) only bound the length of behaviours.
* Two packages per page and three packages give a full page and a short one; after a
  package has gone, a full page and an empty one: the three ends of the paging loop
  differ.  The last package is the only one of its base, so a page too few is missed
  in both lists, and two packages share a base.  One change (of the server, or a list
  removed) can fall between any two steps of either session.
* The files of the large project are chosen so that one is too large, one category
  has two, two must never be sent, and `MaxFiles` (3) leaves out some that would
  fit; in the project of three files one no longer fits into `MaxContextChars` (7).
  The answers: good, duplicate targets, a file where a directory is needed (within
  the suite, and for `generation.json`), a reserved name, a link to a reserved file,
  a name that escapes, no suite.  Two
  generations are a first and a repeated one, with and without `--force`.
* The case lists differ in whether they reach two new pairs, and one makes no
  indirect call, so that MyPinTool writes `null`.

Model values are permuted (`SYMMETRY`) only in runs without liveness properties.
Deadlock is checked for MyPinTool (which has an explicit `Terminated` step) and
for `WrapRestore`; it is switched off for the programs that stop for good once all
sessions or runs are over, or that wait for a command that never ends
(`CollectDynamic`, `BuildAll`, `ArchLists`, `VerifyPipeline`).

### Fairness

* `MyPinTool!Fairness`: weak fairness of `FiniStep(p)` for each process.  A process
  in `Fini` is scheduled, and a free `flock` is eventually granted.  The program
  under test is under no obligation to run or to exit, and faults are not fair.
  Each process takes each lock once, so weak fairness suffices.
* `CollectDynamic!FairSpec`: weak fairness of `Bounded`: the steps of bash, commands
  that end by themselves, and the timeouts that end a build or a test run.  The end
  of a `git clone`, of a build or of a test is `Unbounded`: nothing promises it.  For
  builds and tests a timeout does, except for a test that outlives `TERM` (`timeout`
  sends no `KILL`).  `SessionEnds` says that such a test and a clone are the only
  places in which a session can wait without end; it is checked with
  `TestsHang = TRUE`.
* `BuildAll!FairSpec`: weak fairness of the shell, of each job, and of time.  A job
  is only taken to go on, not to be done: a clone or a build may hang instead.
  `SessionEnds` says that a session that does not end has, from some time on, no
  running job but such ones.
* `ArchLists!FairSpec`: weak fairness of `Step(s)` for each session: commands end
  (`curl` has a bounded number of retries, and a connection that hangs for ever is
  not modelled: the script sets no `--max-time`).  Failures and ends from
  outside are not fair.  The paging loop ends because the server's changes are
  bounded; a server that grows by a page per request would keep it going.
* `VerifyPipeline!PipelineSpec`: weak fairness of the generator (every request has a
  timeout) and of the script (`make check` of the demo runs a program that ends). What
  has to be shown is that the generator's loops end, the round robin over categories
  that run out one after the other among them.  Interrupts, kills and the user are
  under no obligation.

## 4. Theorems

Proved for all processes, transfers, executables, URLs, lists, packages, page sizes,
projects, answers and session counts, from the named assumptions of the modules
(types of the constants).  Every safety property and every action property that a run checks is the
statement of a theorem, and so are all type invariants (those of `MyPinTool`,
`WrapRestore` and `CollectDynamic` are not repeated in the runs).

Each component has an inductive invariant, the conjunction of the named parts
below.  In each proof of a step lemma there is one step per action.

* `MyPinToolProofs`
  * `TypeCorrect`; `SavesExclude` (no two runs between truncation and unlock of one
    file), `WritesAreLocked`: from `LockInv` (whoever is
    between lock and unlock holds the lock, and it has at most one holder).
  * `FilesAreSound`, `MemoryIsComplete`: with any overlap, kills and failures.  From
    `SoundInv`, which adds that running processes know the real `.text` and that
    maps too hold only real edges; the step that counts is `TakeIsExact`.
  * `NothingIsLost`, `SerialRunsNeverAbort`, `ToolImplementsGroundTruth`: for
    `Serial`, one `Fini` at a time without kills and failures, the condition that
    `pintool_lost_update` and `pintool_abort` show to be needed.  `SerialInv` says
    that a map that is past its load is what is published, plus what the run
    executed; the refinement publishes at the truncation.
  * `TornFilesAreTransient`: without kills and failures, overlapping or not.
* `WrapRestoreProofs`
  * `TypeCorrect`, `ElfNeverLost`, `WrapperAlwaysRuns`, `NeverWrappedTwice`, from one
    invariant `IInv`: the three properties are only inductive together, with the fact
    that an executable in mid-rename is in its backup and its path is empty
    (`StepInv`).
  * `BackupKept`: `FileEffects` says what each step does to the files of an
    executable: the only one that moves something to a backup's path finds it empty.
  * `ScriptsRunToTheEnd`: `DoneInv`, what `find` has reported and the loop has been
    through is wrapped or refused (restored), also after later steps on other files.
  * `ResultsPaired`, for any number of relinks: `VersionInv`, versions on disk and
    in the JSON files were linked; of an executable and a backup beside it the backup
    is the older one; no version in the JSON is newer than the backup, or where
    there is none, than the executable.
* `CollectDynamicProofs`
  * `TypeCorrect`: needs `CountInv`, failures never exceed the consumed lines.
  * `NoWrapperLeft` (commands do not fail): `current` is exactly the package under
    test (`CurrentInv`), and a wrapper is there only with a backup (`WrapInv`).
  * `ProcessedOnlyIfRan` (no two URLs share a directory name): `RunInv`, a log entry
    of the package under test was written in this attempt, or the package is in
    `stale`: its log could not be emptied.
  * `ResultsAreCollected`, `ProcessedStaysFinal`: `FreshInv`, the URL under test is
    not in `processed_urls.txt`; `CollectedInv`.
  * `SuccessIsTrue`, `NoUrlForgotten` (commands do not fail, tests do not read the
    list): `AccountInv`, every consumed line but the current one is accounted for.
* `BuildAllProofs`
  * `TypeCorrect`: needs `RetryInv`, a job that will clone has an attempt left.
  * `DirectoriesAndLog`, `EveryUrlRecorded`: `JobInv` is the two barriers (a job runs
    only in the loop that started it, for a URL the loop has been through), `DirInv`
    says which directories there may be at each point of a batch, `LogInv` that a
    cloned package has a line on its build, a directory or was cut off, and `RecInv`
    where a URL of the list is between list, batch, job and progress file.
  * `RateLimitKept`: `RateInv`, while clones do not overlap the counter in the file,
    or from its reading to its writing (`InGit`, waits and hanging clones included) the
    job's own one, misses no clone.  Without
    `alone` this is false, as section 5 says.
  * `ElfMapCorrect`: `ElfInv`.  The step that counts is that `FreeName` returns a name
    that is not taken (`FreeNameIsFree`): an output directory is finite, and of one
    numbered name more than it has files, one is free.
* `ArchListsProofs`
  * `TypeCorrect`: needs `CountInv`, how far each session is in its two loops.
  * `SessionsEndClean`: `EndInv`, a session without failures has collected the sets it
    has gone through, and only sessions within the fetch, or killed, have a temporary
    directory.
  * `ListsAlwaysMatch`: `MatchInv`, a session between its two renames has what
    `packages.txt` has, and is alone there, unless the repository is marked `mixed`.
  * `ListsComplete`: `FetchInv`, of the packages that a fetch must have, those whose
    rank is on a page already fetched are in the temporary file.  It rests on lemmas
    on the server's numbering: no rank is skipped (`RankOnto`); an added package moves
    ranks up only, and one that disappears leaves the ranks before it (`RankChange`);
    and each of the three ends of the loop comes only when no rank is beyond the
    page (`LastPageEnds`), which is where an early end would be an error.
* `GenerateTestsProofs`
  * `GenTypeCorrect`, with the bound on requests: `RequestInv`, each attempt is one.
  * `OneGeneration`, `FilesKept`: `DiskInv`, before a run has passed all checks no file
    has its number, and without `--force` it then writes into an empty directory.
  * `MetadataLast`: `MetaInv`, the files that are whole at each stage of the writing
    are exactly the targets of the names written, all different, and none of
    them reserved, for a suite without names that lead through a link (`Unlinked`).
  * `SelectionIsFair`: `RankInv` (every candidate is in its bucket or in the ranking),
    `SelectInv` (what was passed over does not fit, and still does not when more has
    been selected) and `TurnInv` (the categories before the turn are one ahead).
* `VerifyPipelineProofs`
  * `PipelineRunsGenerator`: the pipeline is a refinement of the generator's own
    specification (each step is one of the generator or leaves its variables alone),
    from which `PipelineSelectionFair`, `PipelineMetadata`, `PipelineOneGeneration` and
    `PipelineFilesKept` follow.
  * `PipelineTypeCorrect`: with the `IInv` of `WrapRestoreProofs`, instantiated for the
    demo's executable, which every step of the pipeline keeps.
  * `DemoIsRestored`: `DemoInv`, where the executable is at each point of the script,
    the trap included.
  * `VerdictIsExact`: `VerdictInv`, what the documents say at each point, and of which
    run: it needs that a document is merged into only by the list that runs, and that
    the document of the baseline is removed before the second run.
* `ComparePairsProofs`, for finite sets of pairs of any size: `SummaryAddsUp`, the
  counts of `compare_pair_sets` fit together, and `RequiredMeansGrowth`, a comparison
  that satisfies `--require-new n` has seen `n` pairs beyond the baseline.  Both
  rest on `UnionCount`.

The invariants `RetryInv` to `VerdictInv` above were first checked with TLC on the
instances of section 3.

Only model-checked: the liveness properties `FiniEnds`, `SessionEnds` (of three
modules) and `PipelineEnds`.  Liveness under fairness is out of the prover's reach.

## 5. Behaviours seen in the code without a run of their own

* `MyPinTool.cpp` writes `null`, not the `{}` of the repository README, for a kind
  of which nothing was observed; `compare_icall_pairs.py` rejects such a file.
* The same `Fini` creates an empty file before it has the lock (line 34): a second
  run that loads just then aborts, without any kill.  `NoAbort` is checked for serial
  runs, and the trace of `pintool_abort` is that of a kill.
* `restore_wrapped_elfs.sh` does nothing for a backup whose wrapper is missing, so
  an executable that was cut in mid-rename stays in its backup until it is linked
  again (`NoElfLost` holds: nothing is lost).  Once it is linked again, the left-over
  backup makes every later wrap refuse it (`wrap_with_mypintool.sh:58`): it stays
  uninstrumented until somebody removes the backup.
* The JSON of an executable keeps the edges of every version that ran under the
  wrapper (the driver builds twice per attempt, and again when it is repeated), and
  nothing says which are whose: `CollectedElfRan` promises that the collected ELF is
  the newest of them and that the others are gone.  `artifacts/` may hold a copy
  under the other name, `b` or `b.orig`, from an earlier collection.
* `collect_dynamic.sh`: URLs with the same base name share a clone (line 202), hence
  `DistinctNames`; a clone cut by a crash is never repeated, because `.git` exists;
  `cp` failures go unnoticed (errexit is off inside `if ! process_package`), hence
  `~CanFail` in `NothingLeftBehind`; an execution log that cannot be emptied (line
  229) is taken for one of this attempt, hence `stale` in `ProcessedMeansRan`; a
  `tee` that fails at line 255 makes a URL both processed and failed; a ^C that ends
  the restore of line 247 leaves the executable in its backup, which the trap does
  not repair; a clone that hangs, and a test that outlives `TERM`, block the session.
* `buildall_timeout.sh`: parallel clone jobs overwrite each other's counter, and the
  limit is exceeded with `MAX_JOBS > 1`, the default; `elf_map.txt` is emptied at
  every start, so after a resumed session it names only that session's files; the
  status of `cp` is ignored; a retry after HTTP 429 does not count for the limit's
  check; a clone or a build that hangs holds up its batch; the summary does not
  count "CLONE FAILED (Rate limit)".
* `collect_arch_git.sh`: a package that disappears while a repository is paged moves
  the later ones up, and the one at the page boundary is missed (`UrlsComplete`
  promises only what comes before it); two sessions, or one that is ended between
  its two `mv`s, leave lists of two fetches (`mixed` in `ListsMatch`).
* `generate_tests.py`: `--force` leaves files of the earlier generation beside the
  new ones (hence `~writer.force` in `NoMixing`); a file that appears between the
  check and the write is overwritten (`writer.before` in `NothingOverwritten`); a
  suite with both `a` and `a/b` passes all checks and fails half way; with `--force`,
  a name that is a symbolic link to `generation.json` or to the metadata file passes
  the test of reserved names (line 408 looks at the text), and is overwritten later,
  hence `Unlinked` in `MetadataMeansComplete`; a time-out while the body is read is
  not retried.
* `verify_llm_pipeline.sh`: `wrapped=1` comes after the wrap script, so an end in
  between leaves the demo wrapped (`blame` in `DemoRestored`); a failing test case
  that is not the last of its list goes unnoticed by `make check`; so does a save of
  MyPinTool that fails (`MyPinTool.cpp:75`), and pairs that the native tests executed
  without saving them look new: `VerdictExact` is about what was saved.

## 6. Not modelled

* Docker images and makepkg configuration: declarative, no state of their own.
* The Pin kit and `json.hpp`, by far most of the repository's lines: third party;
  modelled by what the code uses of them (parse errors, `null`, callbacks).
* Superseded versions of the tool: not built or called by any script.  The demo
  program and the link test: fixtures, whose behaviour enters as `Edges` and the
  case lists.
* An INT or TERM that reaches only the main shell of `buildall_timeout.sh`: its
  background jobs go on, beside those of a session that is started next.  `Crash` is
  the end of all of them.
* Links that somebody creates between the check of the output directory and a write.
* Within modelled parts: the text of prompts, logs and messages, the extraction of
  an answer from the service's response beyond its three outcomes, `curl`'s own
  retries, and percentages.

## 7. Plan

Done, in this order: `GroundTruth` and `MyPinTool` with proofs; `WrapRestore` with
proofs; `CollectDynamic` with proofs; `BuildAll`; `GenerateTests`, `ComparePairs`
with proofs, `VerifyPipeline`; `ArchLists`; the ELF naming of `BuildAll`; the proofs
of `BuildAll`, `GenerateTests`, `VerifyPipeline` and `ArchLists` and the remaining
ones of `WrapRestore`.

Next:

1. Refinement: `CollectDynamic`'s one-step wrap and restore as an abstraction of
   `WrapRestore` for one executable.
2. What becomes of the properties whose theorem has a condition (`Serial`, `alone`,
   `~CanFail`) when it fails only for a part of the system: bounds on the loss.

New questions take the place of weaker runs rather than lengthen the list.
