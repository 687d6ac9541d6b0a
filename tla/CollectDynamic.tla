--------------------------- MODULE CollectDynamic ---------------------------
(***************************************************************************)
(* collect_dynamic.sh: the driver that reads a list of package URLs and,   *)
(* for each one that is not recorded as processed, clones, builds, tests   *)
(* under Pin, collects and restores.  Its sessions may end, be interrupted *)
(* (the traps run) or crash (they do not), and be started again on the     *)
(* same output and work directories.                                       *)
(*                                                                         *)
(* The build tree of a package is reduced to one executable: what stands   *)
(* at its path, and whether it has an .orig backup.  WrapRestore models    *)
(* the two scripts in full; here each of them is one step, which may also  *)
(* be cut short between its two renames.                                   *)
(***************************************************************************)
EXTENDS Naturals, Sequences, FiniteSets

CONSTANTS
  Url, Pkg,        \* the URLs, and the package names
  Name,            \* Name[u] is basename "$url" .git
  List,            \* the lines of URL_LIST, comments left out
  Packaged,        \* the URLs whose repository has a PKGBUILD
  MaxSessions,     \* bound on how often the script is started
  CanCrash,        \* may the script be killed without its traps running?
  CanFail,         \* may a cp, a redirection, a tee or the restore script fail?
  TestsReadStdin,  \* may a test read its standard input?
  TestsHang        \* may a test outlive the TERM of its timeout?

ASSUME ListAssumption ==
  /\ List \in Seq(Url)
  /\ Name \in [Url -> Pkg]
  /\ Packaged \subseteq Url
ASSUME SessionAssumption == MaxSessions \in Nat
ASSUME FlagAssumption ==
  {CanCrash, CanFail, TestsReadStdin, TestsHang} \subseteq BOOLEAN

VARIABLES
  session,    \* how often the script was started
  pc,         \* what the running session does next; "off" between sessions
  exit,       \* how the last session ended: none (not yet, or crashed),
              \* ok (0), failed (1), interrupted (130, 143)
  pos,        \* how many lines of URL_LIST have been consumed
  cur,        \* the line that is being processed
  failures,   \* failures
  current,    \* current_source_dir: the set of at most one package
  processed,  \* the lines of processed_urls.txt
  failed,     \* the lines of failed_urls.txt
  git,        \* the packages whose work directory has a .git
  repo,       \* repo[p]: the URL whose PKGBUILD is in the work directory of p
  exe,        \* exe[p]: no src directory, or what is at the executable's path
  orig,       \* the packages whose executable has an .orig backup
  log,        \* the packages whose wrapped-executions.tsv is not empty
  stale,      \* history: the packages whose log kept lines of an earlier attempt
  json,       \* json[p]: the URLs whose tests filled the JSON files under src
  art,        \* art[p]: the same for the JSON files under artifacts
  ran,        \* history: the URLs whose wrapped executable ran in this attempt
  crashed     \* history: the packages that were being tested in a crash

place    == <<pos, cur, current, ran>>
checkout == <<git, repo>>
tree     == <<exe, orig>>
results  == <<log, stale, json, art>>
files    == <<processed, failed, checkout, tree, results>>
vars     == <<session, pc, exit, failures, place, files, crashed>>

Exe == {"nodir", "none", "elf", "wrapper"}
\* The steps inside the instrumented makepkg.
Makepkg == {"rebuild", "wrap", "run", "unwrap"}
Step == {"off", "read", "clone", "build", "prepare", "collect", "restore",
         "decide", "fail", "hung"} \cup Makepkg

CurUrl == List[cur]
P      == Name[CurUrl]

Init ==
  /\ session = 0 /\ pc = "off" /\ exit = "none"
  /\ pos = 0 /\ cur = 0 /\ failures = 0 /\ current = {} /\ ran = {}
  /\ processed = {} /\ failed = {} /\ git = {} /\ orig = {}
  /\ log = {} /\ stale = {}
  /\ repo = [p \in Pkg |-> {}]
  /\ exe = [p \in Pkg |-> "nodir"]
  /\ json = [p \in Pkg |-> {}]
  /\ art = [p \in Pkg |-> {}]
  /\ crashed = {}

\* The script is started, for the first time or again.
Start ==
  /\ pc = "off"
  /\ session < MaxSessions
  /\ session' = session + 1
  /\ pc' = "read" /\ exit' = "none"
  /\ pos' = 0 /\ cur' = 0 /\ failures' = 0 /\ current' = {} /\ ran' = {}
  /\ UNCHANGED <<files, crashed>>

-----------------------------------------------------------------------------
(* restore_current_package, and the ways a package can end                  *)

\* restore_wrapped_elfs.sh on the trees of the packages in S.
Restored(S) ==
  LET done == {p \in S : exe[p] = "wrapper" /\ p \in orig}
  IN  /\ exe' = [p \in Pkg |-> IF p \in done THEN "elf" ELSE exe[p]]
      /\ orig' = orig \ done

\* restore_wrapped_elfs.sh "$current_source_dir" || true
RestoreCurrent ==
  /\ Restored(current) \/ (CanFail /\ UNCHANGED tree)
  /\ current' = {}

\* The body of "if ! process_package": recorded is appended to failed_urls.txt
\* and n added to failures.
FailRecording(recorded, n) ==
  /\ pc = "fail" /\ pc' = "read"
  /\ RestoreCurrent
  /\ failed' = failed \cup recorded
  /\ failures' = failures + n
  /\ UNCHANGED <<session, exit, pos, cur, ran, processed, crashed, checkout, results>>

FailUncounted    == FailRecording({CurUrl}, 0)  \* failures stays as it is
FailUnrecorded   == FailRecording({}, 1)        \* counted, but not appended

\* process_package has returned 1: restore, record the URL as failed, go on.
Fail == FailRecording({CurUrl}, 1)

\* In the loop itself errexit is on: an echo or a tee that fails there ends the
\* session with status 1, through the EXIT trap.
Errexit ==
  /\ CanFail
  /\ pc \in {"read", "fail"} /\ pc' = "off"
  /\ exit' = "failed"
  /\ RestoreCurrent
  /\ failed' \in {failed} \cup (IF pc = "fail" THEN {failed \cup {CurUrl}} ELSE {})
  /\ UNCHANGED <<session, failures, pos, cur, ran, processed, crashed, checkout, results>>

\* The session goes from step s to step t.
Go(s, t) ==
  /\ pc = s
  /\ pc' = t
  /\ UNCHANGED <<session, exit, failures, processed, failed, crashed>>

-----------------------------------------------------------------------------
(* The loop over URL_LIST                                                   *)

\* The look-up in processed_urls.txt is missing.
ReadUrlAlways ==
  /\ Go("read", "clone")
  /\ pos < Len(List)
  /\ pos' = pos + 1 /\ cur' = pos + 1
  /\ ran' = {}
  /\ UNCHANGED <<current, checkout, tree, results>>

\* A URL that is not in processed_urls.txt: process_package starts.
ReadUrl ==
  /\ Go("read", "clone")
  /\ pos < Len(List)
  /\ List[pos + 1] \notin processed
  /\ pos' = pos + 1 /\ cur' = pos + 1
  /\ ran' = {}
  /\ UNCHANGED <<current, checkout, tree, results>>

\* "Already processed"
SkipUrl ==
  /\ Go("read", "read")
  /\ pos < Len(List)
  /\ List[pos + 1] \in processed
  /\ pos' = pos + 1
  /\ UNCHANGED <<cur, ran, current, checkout, tree, results>>

\* The list is exhausted: exit 1 if something failed in this session, else 0.
Finish ==
  /\ pc = "read" /\ pos >= Len(List)
  /\ pc' = "off"
  /\ exit' = IF failures > 0 THEN "failed" ELSE "ok"
  /\ UNCHANGED <<session, failures, crashed, place, files>>

-----------------------------------------------------------------------------
(* process_package: clone and first build                                   *)

\* A work directory with a .git is used as it is.
CloneSkip ==
  /\ Go("clone", "build")
  /\ P \in git
  /\ UNCHANGED <<place, checkout, tree, results>>

CloneOk ==
  /\ Go("clone", "build")
  /\ P \notin git
  /\ git' = git \cup {P}
  /\ repo' = [repo EXCEPT ![P] = {CurUrl} \cap Packaged]
  /\ UNCHANGED <<place, tree, results>>

\* git removes what it has created when it fails.
CloneFails ==
  /\ Go("clone", "fail")
  /\ P \notin git
  /\ UNCHANGED <<place, checkout, tree, results>>

NoPkgbuild ==
  /\ Go("build", "fail")
  /\ repo[P] = {}
  /\ UNCHANGED <<place, checkout, tree, results>>

\* makepkg links the executable, or finds it up to date and leaves it alone.
Linked == \E e \in {"elf", exe[P]} : exe' = [exe EXCEPT ![P] = e]

Build ==
  /\ Go("build", "prepare")
  /\ repo[P] # {}
  /\ Linked
  /\ UNCHANGED <<orig, place, checkout, results>>

\* The build fails or reaches BUILD_TIMEOUT.
BuildFails ==
  /\ Go("build", "fail")
  /\ repo[P] # {}
  /\ Linked
  /\ UNCHANGED <<orig, place, checkout, results>>

NoSrcDir ==
  /\ Go("prepare", "fail")
  /\ exe[P] = "nodir"
  /\ UNCHANGED <<place, checkout, tree, results>>

\* The log of an earlier attempt is kept.
PrepareKeepsLog ==
  /\ Go("prepare", "rebuild")
  /\ exe[P] # "nodir"
  /\ current' = {P}
  /\ UNCHANGED <<pos, cur, ran, checkout, tree, results>>

\* : > "$execution_log"; current_source_dir=$source_dir; PKGBUILD.icflow
\* A log that cannot be emptied is used as it is (errexit is off).
Prepare ==
  /\ Go("prepare", "rebuild")
  /\ exe[P] # "nodir"
  /\ \/ log' = log \ {P} /\ stale' = stale \ {P}
     \/ CanFail /\ log' = log /\ stale' = stale \cup (log \cap {P})
  /\ current' = {P}
  /\ UNCHANGED <<pos, cur, ran, json, art, checkout, tree>>

-----------------------------------------------------------------------------
(* The instrumented makepkg, with the check() of PKGBUILD.icflow            *)

Rebuild ==
  /\ Go("rebuild", "wrap")
  /\ Linked
  /\ UNCHANGED <<orig, place, checkout, results>>

\* The second build fails or times out, or the PKGBUILD has no check().
NoCheck ==
  /\ Go("rebuild", "collect")
  /\ Linked
  /\ UNCHANGED <<orig, place, checkout, results>>

Wrappable(p) == exe[p] = "elf" /\ p \notin orig

\* wrap_with_mypintool.sh "$srcdir"
Wrap ==
  /\ Go("wrap", "run")
  /\ IF Wrappable(P)
       THEN exe' = [exe EXCEPT ![P] = "wrapper"] /\ orig' = orig \cup {P}
       ELSE UNCHANGED tree
  /\ UNCHANGED <<place, checkout, results>>

\* icflow_original_check: a wrapper appends to the log and starts Pin, which
\* saves its JSON unless it is killed first.  A test that reads its standard
\* input consumes lines of URL_LIST.
RunTests ==
  /\ Go("run", "unwrap")
  /\ IF exe[P] = "wrapper" /\ P \in orig
       THEN /\ log' = log \cup {P}
            /\ ran' = ran \cup repo[P]
            /\ \E saved \in {{}, repo[P]} :
                 json' = [json EXCEPT ![P] = @ \cup saved]
       ELSE UNCHANGED <<log, ran, json>>
  /\ \E n \in pos .. Len(List) :
       /\ TestsReadStdin \/ n = pos
       /\ pos' = n
  /\ UNCHANGED <<cur, current, stale, art, checkout, tree>>

\* No test runs the executable.
RunOtherTests ==
  /\ Go("run", "unwrap")
  /\ UNCHANGED <<place, checkout, tree, results>>

\* A test outlives TERM: timeout, makepkg and the pipe to tee all wait for it.
TestHangs ==
  /\ Go("run", "hung")
  /\ TestsHang
  /\ UNCHANGED <<place, checkout, tree, results>>

\* restore_wrapped_elfs.sh "$srcdir" || true, at the end of check()
Unwrap ==
  /\ Go("unwrap", "collect")
  /\ Restored({P}) \/ (CanFail /\ UNCHANGED tree)
  /\ UNCHANGED <<place, checkout, results>>

\* A restore of P ends between rm and mv: the executable is only in its backup.
HalfRestored ==
  /\ P \in current /\ exe[P] = "wrapper" /\ P \in orig
  /\ exe' = [exe EXCEPT ![P] = "none"]
  /\ UNCHANGED orig

\* A wrap of P is cut short between its two renames, a restore between rm and
\* mv (that of the EXIT trap included, during "collect"), or P is not being
\* renamed.
CutShort ==
  \/ UNCHANGED tree
  \/ /\ pc = "wrap" /\ Wrappable(P)
     /\ exe' = [exe EXCEPT ![P] = "none"]
     /\ orig' = orig \cup {P}
  \/ pc \in {"unwrap", "collect", "restore"} /\ HalfRestored

\* A failed test run is not collected.
TestTimeoutReturns ==
  /\ pc \in Makepkg \ {"rebuild"}
  /\ pc' = "decide"
  /\ CutShort
  /\ UNCHANGED <<session, exit, failures, processed, failed, crashed, place,
                 checkout, results>>

\* makepkg runs the tests without a timeout: only an error of the two scripts
\* ends it early.
TestTimeoutMissing ==
  /\ pc \in {"wrap", "unwrap"}
  /\ pc' = "collect"
  /\ CutShort
  /\ UNCHANGED <<session, exit, failures, processed, failed, crashed, place,
                 checkout, results>>

\* TEST_TIMEOUT, or an error in check(), ends makepkg where it stands.  The
\* driver reports it and goes on.
TestTimeout ==
  /\ pc \in Makepkg \ {"rebuild"}
  /\ pc' = "collect"
  /\ CutShort
  /\ UNCHANGED <<session, exit, failures, processed, failed, crashed, place,
                 checkout, results>>

-----------------------------------------------------------------------------
(* process_package: the end                                                 *)

\* collect_artifacts.  A cp that fails goes unnoticed: errexit is off inside
\* "if ! process_package".
Collect ==
  /\ Go("collect", "restore")
  /\ \/ art' = [art EXCEPT ![P] = @ \cup json[P]]
     \/ CanFail /\ art' = art
  /\ UNCHANGED <<log, stale, json, place, checkout, tree>>

Restore ==
  /\ Go("restore", "decide")
  /\ RestoreCurrent
  /\ UNCHANGED <<pos, cur, ran, checkout, results>>

\* "No wrapped test executable ran"
NothingRan ==
  /\ Go("decide", "fail")
  /\ P \notin log
  /\ UNCHANGED <<place, checkout, tree, results>>

\* echo "$url" >> "$PROCESSED_FILE", whose failure goes unnoticed.  The last
\* command is the tee of the DONE line: if that fails process_package returns
\* its status, and the URL is recorded as failed too.
MarkProcessed ==
  /\ pc = "decide" /\ P \in log
  /\ pc' = "read" \/ (CanFail /\ pc' = "fail")
  /\ \/ processed' = processed \cup {CurUrl}
     \/ CanFail /\ processed' = processed
  /\ UNCHANGED <<session, exit, failures, failed, crashed, place, checkout,
                 tree, results>>

-----------------------------------------------------------------------------
\* The EXIT trap is missing.
InterruptWithoutTrap ==
  /\ pc \notin {"off", "hung"} \cup Makepkg
  /\ pc' = "off" /\ exit' = "interrupted"
  /\ current' = {}
  /\ UNCHANGED <<session, pos, cur, failures, ran, crashed, files>>

\* INT or TERM: bash runs the trap when its foreground command is over, and
\* the EXIT trap restores the current package.  ^C also ends the restore script
\* that process_package runs; the one of the trap does not repair what it left.
Interrupt ==
  /\ pc \notin {"off", "hung"} \cup Makepkg
  /\ pc' = "off" /\ exit' = "interrupted"
  /\ RestoreCurrent \/ (pc = "restore" /\ HalfRestored /\ current' = {})
  /\ UNCHANGED <<session, pos, cur, failures, ran, crashed, processed, failed,
                 checkout, results>>

\* SIGKILL, a stopped container, a power failure: no trap runs, and a clone, a
\* wrap or a restore is left half done.
Crash ==
  /\ CanCrash
  /\ pc # "off"
  /\ pc' = "off" /\ exit' = "none" /\ current' = {}
  /\ CutShort
  /\ \/ UNCHANGED git
     \/ pc = "clone" /\ git' = git \cup {P}
  /\ crashed' = crashed \cup current
  /\ UNCHANGED <<session, pos, cur, failures, ran, processed, failed, repo, results>>

\* git clone has no timeout, and a makepkg may run until its own ends it: that
\* these get to their end by themselves cannot be relied on.
Unbounded == CloneOk \/ CloneFails \/ Build \/ Rebuild \/ RunTests \/ RunOtherTests

\* The steps of bash, of commands that end, and of the timeouts.
Bounded ==
  \/ ReadUrl \/ SkipUrl \/ Finish \/ CloneSkip \/ NoPkgbuild
  \/ BuildFails \/ NoSrcDir \/ Prepare \/ NoCheck \/ Wrap \/ Unwrap
  \/ TestTimeout \/ Collect \/ Restore \/ NothingRan \/ MarkProcessed \/ Fail

Next == Bounded \/ Unbounded \/ Start \/ TestHangs \/ Errexit \/ Interrupt \/ Crash

Spec == Init /\ [][Next]_vars

\* Bash is scheduled, a makepkg that does not end is ended by its timeout, and
\* bash then goes on.
FairSpec == Spec /\ WF_vars(Bounded)

-----------------------------------------------------------------------------
(* Properties.                                                              *)

\* No two URLs of the list share a work directory.
DistinctNames == \A u, v \in Url : Name[u] = Name[v] => u = v

\* Type invariant of the module.
TypeOK ==
  /\ session \in 0..MaxSessions
  /\ pc \in Step
  /\ exit \in {"none", "ok", "failed", "interrupted"}
  /\ pos \in 0..Len(List) /\ cur \in 0..pos
  /\ pc \notin {"off", "read"} => cur > 0
  /\ failures \in 0..Len(List)
  /\ current \subseteq Pkg /\ crashed \subseteq Pkg
  /\ processed \subseteq Url /\ failed \subseteq Url /\ ran \subseteq Url
  /\ git \subseteq Pkg /\ orig \subseteq Pkg /\ log \subseteq Pkg
  /\ stale \subseteq Pkg
  /\ repo \in [Pkg -> SUBSET Url]
  /\ exe \in [Pkg -> Exe]
  /\ json \in [Pkg -> SUBSET Url]
  /\ art \in [Pkg -> SUBSET Url]

\* Whatever fails, times out or is interrupted, wrappers stand only in the
\* tree of the package the running session will still restore, and in those
\* that were under test in a crash.
OnlyCurrentWrapped ==
  ~CanFail =>
    \A p \in Pkg : exe[p] = "wrapper" => p \in current \cup crashed

\* A URL is recorded as processed only if a wrapped executable of its own
\* repository ran in the same attempt; what an attempt that crashed left in
\* the log or in the tree does not count, unless the log could not be emptied.
ProcessedMeansRan ==
  [][\A u \in processed' \ processed : u \in ran \/ Name[u] \in stale]_vars

\* Everything the tests of a processed package recorded is in its artifacts,
\* also when the tests failed, timed out, or were repeated after a crash.
NothingLeftBehind ==
  ~CanFail /\ DistinctNames =>
    \A u \in processed : json[Name[u]] \subseteq art[Name[u]]

\* A processed package is not touched again: neither its tree nor its results
\* change in any later session, even if the list names it twice.
ProcessedIsFinal ==
  [][DistinctNames =>
       \A u \in processed : LET p == Name[u] IN
         /\ exe'[p] = exe[p]
         /\ log' \cap {p} = log \cap {p}
         /\ json'[p] = json[p]
         /\ art'[p] = art[p]]_vars

\* "Collection finished successfully": a session that exits with status 0 has
\* left every URL of the list processed.
SuccessMeansAll == exit = "ok" => \A i \in 1..Len(List) : List[i] \in processed

\* "Collection finished": a session that reaches its end has recorded every
\* URL of the list as processed or as failed.
EveryUrlRecorded ==
  exit \in {"ok", "failed"} =>
    \A i \in 1..Len(List) : List[i] \in processed \cup failed

\* Every session comes to an end, whatever a build or a test does, fails or
\* leaves behind: the only two things the loop can wait for without end are a
\* git clone, which has no timeout, and a test that outlives the TERM of its own.
SessionEnds ==
  []<>(pc = "off") \/ <>[]((pc = "clone" /\ P \notin git) \/ pc = "hung")
=============================================================================
