------------------------------ MODULE BuildAll ------------------------------
(***************************************************************************)
(* buildall_timeout.sh: clones and builds the packages of a list in        *)
(* batches.  The main shell starts one background job per clone and, after *)
(* a barrier, one per build; the clone jobs share a rate limiter kept in   *)
(* two files, which they read and write without a lock.  The script sets   *)
(* no trap: when the container is stopped or the machine fails, it and its *)
(* jobs end where they stand, and it may be started again on the same      *)
(* directory.                                                              *)
(*                                                                         *)
(* The lists that collect_arch_git.sh writes are sorted and free of        *)
(* duplicates, so a URL stands for its package directory too.              *)
(***************************************************************************)
EXTENDS Integers, Sequences, FiniteSets

CONSTANTS
  Url,           \* the URLs
  List,          \* the lines of the list file, comments left out
  Exe,           \* Exe[u]: the base names of the usable ELF files that the
                 \* package of u builds, in the order find reports them; a
                 \* name is the sequence of its parts between underscores,
                 \* where a number stands for itself, and an integer below 1
                 \* for any other text
  BatchSize,     \* 10 in the code
  MaxJobs,       \* MAX_JOBS
  RateLimit,     \* CLONE_RATE_LIMIT
  MaxRetries,    \* max_retries, 3 in the code
  MaxSessions,   \* bound on how often the script is started
  CanCrash,      \* may the container or the machine be stopped?
  CanLimit,      \* may the server answer HTTP 429?
  CanHang        \* may a git clone, which has no timeout, or a makepkg that
                 \* outlives the TERM of its timeout never end?

ASSUME ListAssumption ==
  /\ List \in Seq(Url)
  /\ \A i, j \in 1..Len(List) : List[i] = List[j] => i = j
  /\ Exe \in [Url -> Seq(Seq(Int))]
ASSUME BoundAssumption ==
  /\ {BatchSize, MaxJobs, RateLimit, MaxRetries} \subseteq Nat \ {0}
  /\ MaxSessions \in Nat
  /\ {CanCrash, CanLimit, CanHang} \subseteq BOOLEAN

VARIABLES
  session,   \* how often the script was started
  pc,        \* the main shell: off, fill (a batch), clone, build
  ended,     \* did the last session reach its summary?
  pos,       \* how many lines of the list it has looked at
  batch,     \* batch_urls
  k,         \* how many URLs of the batch its loop has been through
  job,       \* job[u]: the background job for u, and where it is
  cnt,       \* cnt[u]: the job's own CLONE_COUNTER
  retry,     \* retry[u]: its retry_count
  over,      \* the jobs in sleep "$wait_time" whose time may be over
  counter,   \* clone_counter.txt
  stale,     \* is clone_timestamp.txt at least 60 seconds old?
  started,   \* history: the git clones started since the minute began
  progress,  \* processed_urls.txt
  log,       \* build_summary.log: pairs of a message and a URL
  dir,       \* the package directories that exist
  copied,    \* copied[u]: how many ELF files the build of u has copied
  elf,       \* elf[u]: what each file of elf_outputs/<package> is a copy of
  map,       \* elf_map.txt: a package, an ELF file and the name it got
  built,     \* history: the packages built by this session
  cut,       \* history: the package directories a crash has left
  alone      \* history: since the minute began no clone has overlapped
             \* another, been retried or been cut off by a crash

shell   == <<session, pc, ended, pos, batch, k>>
local   == <<cnt, retry, over, copied>>
limiter == <<counter, stale, started, alone>>
files   == <<progress, log, dir, elf, map, built, cut>>
vars    == <<shell, job, local, limiter, files>>

Cloning  == {"enforce", "reset", "sleep", "git", "git hangs", "wait", "record", "count"}
Building == {"build", "build hangs", "copy"}
Running == {u \in Url : job[u] # "none"}

Init ==
  /\ session = 0 /\ pc = "off" /\ ended = FALSE /\ pos = 0 /\ batch = <<>> /\ k = 0
  /\ job = [u \in Url |-> "none"]
  /\ cnt = [u \in Url |-> 0] /\ retry = [u \in Url |-> 0] /\ over = {}
  /\ counter = 0 /\ stale = FALSE /\ started = 0
  /\ progress = {} /\ log = {} /\ dir = {} /\ map = {} /\ built = {} /\ cut = {}
  /\ copied = [u \in Url |-> 0] /\ elf = [u \in Url |-> [n \in {} |-> 0]]
  /\ alone = TRUE

-----------------------------------------------------------------------------
(* The main shell                                                           *)

\* > "$ELF_MAP"; the other files are kept.
Start ==
  /\ pc = "off" /\ session < MaxSessions
  /\ session' = session + 1
  /\ pc' = "fill" /\ ended' = FALSE /\ pos' = 0 /\ batch' = <<>> /\ k' = 0
  /\ map' = {} /\ built' = {}
  /\ UNCHANGED <<job, local, limiter, progress, log, dir, elf, cut>>

\* A line that is not in processed_urls.txt joins the batch.
AddUrl ==
  /\ pc = "fill" /\ pos < Len(List)
  /\ List[pos + 1] \notin progress
  /\ pos' = pos + 1
  /\ batch' = Append(batch, List[pos + 1])
  /\ pc' = IF Len(batch) + 1 >= BatchSize THEN "clone" ELSE "fill"
  /\ UNCHANGED <<session, ended, k, job, local, limiter, files>>

\* "Already processed"
SkipUrl ==
  /\ pc = "fill" /\ pos < Len(List)
  /\ List[pos + 1] \in progress
  /\ pos' = pos + 1
  /\ UNCHANGED <<session, pc, ended, batch, k, job, local, limiter, files>>

\* The list ends and the remaining URLs are dropped.
LastBatchDropped ==
  /\ pc = "fill" /\ pos = Len(List) /\ batch # <<>>
  /\ batch' = <<>>
  /\ UNCHANGED <<session, pc, ended, pos, k, job, local, limiter, files>>

\* "Process remaining URLs"
LastBatch ==
  /\ pc = "fill" /\ pos = Len(List) /\ batch # <<>>
  /\ pc' = "clone"
  /\ UNCHANGED <<session, ended, pos, batch, k, job, local, limiter, files>>

\* The summary is printed and the script is over.
Finish ==
  /\ pc = "fill" /\ pos = Len(List) /\ batch = <<>>
  /\ pc' = "off" /\ ended' = TRUE
  /\ UNCHANGED <<session, pos, batch, k, job, local, limiter, files>>

\* wait_for_jobs
JobFree == Cardinality(Running) < MaxJobs

\* clone_package "$url" &
SpawnClone ==
  /\ pc = "clone" /\ k < Len(batch)
  /\ JobFree
  /\ job' = [job EXCEPT ![batch[k + 1]] = "enforce"]
  /\ retry' = [retry EXCEPT ![batch[k + 1]] = 0]
  /\ alone' = (alone /\ Running = {})
  /\ k' = k + 1
  /\ UNCHANGED <<session, pc, ended, pos, batch, cnt, over, copied, counter, stale,
                 started, files>>

\* The builds start without waiting for the clones.
CloneBarrierMissing ==
  /\ pc = "clone" /\ k = Len(batch)
  /\ pc' = "build" /\ k' = 0
  /\ UNCHANGED <<session, ended, pos, batch, job, local, limiter, files>>

\* wait
CloneBarrier ==
  /\ pc = "clone" /\ k = Len(batch) /\ Running = {}
  /\ pc' = "build" /\ k' = 0
  /\ UNCHANGED <<session, ended, pos, batch, job, local, limiter, files>>

\* build_package "$pkg_dir" &, if the directory is there.
SpawnBuild ==
  /\ pc = "build" /\ k < Len(batch)
  /\ \/ /\ batch[k + 1] \in dir
        /\ JobFree
        /\ job' = [job EXCEPT ![batch[k + 1]] = "build"]
     \/ batch[k + 1] \notin dir /\ UNCHANGED job
  /\ k' = k + 1
  /\ UNCHANGED <<session, pc, ended, pos, batch, local, limiter, files>>

\* wait; then the next batch
BuildBarrier ==
  /\ pc = "build" /\ k = Len(batch) /\ Running = {}
  /\ pc' = "fill" /\ batch' = <<>> /\ k' = 0
  /\ UNCHANGED <<session, ended, pos, job, local, limiter, files>>

-----------------------------------------------------------------------------
(* clone_package: the rate limiter                                          *)

\* A full window is not waited for.
EnforceNeverSleeps(u) ==
  /\ job[u] = "enforce"
  /\ cnt' = [cnt EXCEPT ![u] = counter]
  /\ job' = [job EXCEPT ![u] = IF stale THEN "reset" ELSE "git"]
  /\ UNCHANGED <<shell, retry, over, copied, limiter, files>>

\* enforce_clone_rate_limit reads the two files and decides on what it read.
Enforce(u) ==
  /\ job[u] = "enforce"
  /\ cnt' = [cnt EXCEPT ![u] = counter]
  /\ job' = [job EXCEPT ![u] = IF stale THEN "reset"
                               ELSE IF counter >= RateLimit THEN "sleep"
                               ELSE "git"]
  /\ UNCHANGED <<shell, retry, over, copied, limiter, files>>

\* It writes 0 and the current time: at once, or after its sleep.  A minute
\* only ends for the history variable if it really is over.
Reset(u) ==
  /\ job[u] = "reset" \/ (job[u] = "sleep" /\ u \in over)
  /\ cnt' = [cnt EXCEPT ![u] = 0]
  /\ counter' = 0 /\ stale' = FALSE
  /\ started' = IF stale THEN 0 ELSE started
  /\ alone' = IF stale THEN Running = {u} ELSE alone
  /\ job' = [job EXCEPT ![u] = "git"]
  /\ over' = {v \in Url : job[v] = "sleep"} \ {u}
  /\ UNCHANGED <<shell, retry, copied, files>>

\* A minute has passed since clone_timestamp.txt was written.
Tick ==
  /\ ~stale
  /\ stale' = TRUE
  /\ over' = {v \in Url : job[v] = "sleep"}
  /\ UNCHANGED <<shell, job, cnt, retry, copied, counter, started, alone, files>>

\* increment_clone_counter: the job's own counter, read before the clone.
Count(u) ==
  /\ job[u] = "count"
  /\ counter' = cnt[u] + 1
  /\ job' = [job EXCEPT ![u] = "none"]
  /\ UNCHANGED <<shell, local, stale, started, alone, files>>

-----------------------------------------------------------------------------
(* clone_package: git clone and its retries                                 *)

\* git clone has ended, and the build log has a line on it.
Logged(u, message) ==
  /\ log' = log \cup {<<message, u>>}
  /\ started' = started + 1
  /\ job' = [job EXCEPT ![u] = "record"]

\* echo "$url" >> "$PROGRESS_LOG"
Record(u) ==
  /\ job[u] = "record"
  /\ progress' = progress \cup {u}
  /\ job' = [job EXCEPT ![u] = "count"]
  /\ UNCHANGED <<shell, local, limiter, log, dir, elf, map, built, cut>>

CloneOk(u) ==
  /\ job[u] = "git" /\ u \notin dir
  /\ dir' = dir \cup {u}
  /\ Logged(u, "clone success")
  /\ UNCHANGED <<shell, local, counter, stale, alone, progress, elf, map, built, cut>>

\* Any failure but 429, an existing directory among them.
CloneFails(u) ==
  /\ job[u] = "git"
  /\ Logged(u, "clone failed")
  /\ UNCHANGED <<shell, local, counter, stale, alone, progress, dir, elf, map, built, cut>>

\* One retry too many.
CloneRetryOffByOne(u) ==
  /\ CanLimit
  /\ job[u] = "git" /\ u \notin dir /\ retry[u] < MaxRetries
  /\ retry' = [retry EXCEPT ![u] = @ + 1]
  /\ job' = [job EXCEPT ![u] = "wait"]
  /\ alone' = FALSE
  /\ UNCHANGED <<shell, cnt, over, copied, counter, stale, started, files>>

\* retry_count is set to 0 in the loop.
CloneRetryUncounted(u) ==
  /\ CanLimit
  /\ job[u] = "git" /\ u \notin dir /\ retry[u] + 1 < MaxRetries
  /\ job' = [job EXCEPT ![u] = "wait"]
  /\ alone' = FALSE
  /\ UNCHANGED <<shell, local, counter, stale, started, files>>

\* HTTP 429: sleep "$retry_after".  The minute is not one of lone clones any more,
\* and `started` counts no further.
CloneRetry(u) ==
  /\ CanLimit
  /\ job[u] = "git" /\ u \notin dir /\ retry[u] + 1 < MaxRetries
  /\ retry' = [retry EXCEPT ![u] = @ + 1]
  /\ job' = [job EXCEPT ![u] = "wait"]
  /\ alone' = FALSE
  /\ UNCHANGED <<shell, cnt, over, copied, counter, stale, started, files>>

\* The sleep is over: git clone again, without a look at the rate limiter.
RetryAfter(u) ==
  /\ job[u] = "wait"
  /\ job' = [job EXCEPT ![u] = "git"]
  /\ UNCHANGED <<shell, local, limiter, files>>

\* HTTP 429 for the last time.
CloneGivesUp(u) ==
  /\ CanLimit
  /\ job[u] = "git" /\ u \notin dir /\ retry[u] + 1 >= MaxRetries
  /\ retry' = [retry EXCEPT ![u] = @ + 1]
  /\ Logged(u, "clone failed (rate limit)")
  /\ UNCHANGED <<shell, cnt, over, copied, counter, stale, alone, progress, dir, elf, map,
                 built, cut>>

\* The server neither answers nor closes the connection.
CloneHangs(u) ==
  /\ CanHang
  /\ job[u] = "git" /\ u \notin dir
  /\ job' = [job EXCEPT ![u] = "git hangs"]
  /\ UNCHANGED <<shell, local, limiter, files>>

-----------------------------------------------------------------------------
(* build_package                                                            *)

\* makepkg succeeds.
BuildOk(u) ==
  /\ job[u] = "build"
  /\ log' = log \cup {<<"build success", u>>}
  /\ copied' = [copied EXCEPT ![u] = 0]
  /\ job' = [job EXCEPT ![u] = "copy"]
  /\ UNCHANGED <<shell, cnt, retry, over, limiter, progress, dir, elf, map, built, cut>>

\* A file that is there is overwritten.
FreeNameUnchecked(u, name) == name

\* The name, or the first of name_1, name_2, ... that is not there.
FreeName(u, name) ==
  LET taken == DOMAIN elf[u]
      Nth(i) == Append(name, i)
  IN  IF name \notin taken THEN name
      ELSE Nth(CHOOSE i \in 1..(Cardinality(taken) + 1) :
                 Nth(i) \notin taken /\ \A j \in 1..(i - 1) : Nth(j) \in taken)

\* One turn of the loop: the name is chosen, cp, and a line for elf_map.txt.
CopyElf(u) ==
  /\ job[u] = "copy" /\ copied[u] < Len(Exe[u])
  /\ LET e    == copied[u] + 1
         dest == FreeName(u, Exe[u][e])
     IN  /\ elf' = [elf EXCEPT ![u] = [n \in DOMAIN @ \cup {dest} |->
                                        IF n = dest THEN e ELSE @[n]]]
         /\ map' = map \cup {[package |-> u, exe |-> e, dest |-> dest]}
         /\ copied' = [copied EXCEPT ![u] = e]
  /\ UNCHANGED <<shell, job, cnt, retry, over, limiter, progress, log, dir, built, cut>>

\* All ELF files are copied: the directory is removed.
CleanUp(u) ==
  /\ job[u] = "copy" /\ copied[u] = Len(Exe[u])
  /\ dir' = dir \ {u} /\ built' = built \cup {u}
  /\ job' = [job EXCEPT ![u] = "none"]
  /\ UNCHANGED <<shell, local, limiter, progress, log, elf, map, cut>>

\* makepkg fails or reaches BUILD_TIMEOUT.
BuildFails(u) ==
  /\ job[u] = "build"
  /\ dir' = dir \ {u}
  /\ log' = log \cup {<<"build failed", u>>}
  /\ job' = [job EXCEPT ![u] = "none"]
  /\ UNCHANGED <<shell, local, limiter, progress, elf, map, built, cut>>

\* makepkg or a program that it runs ignores the TERM of the timeout.
BuildHangs(u) ==
  /\ CanHang
  /\ job[u] = "build"
  /\ job' = [job EXCEPT ![u] = "build hangs"]
  /\ UNCHANGED <<shell, local, limiter, files>>

-----------------------------------------------------------------------------
\* The container or the machine is stopped, and the script and all its jobs with
\* it; a clone may leave part of a directory.  (^C or a TERM that only reaches
\* the main shell leaves the background jobs running: that is not modelled.)
Crash ==
  /\ CanCrash /\ pc # "off"
  /\ pc' = "off"
  /\ job' = [u \in Url |-> "none"] /\ over' = {}
  /\ \E left \in SUBSET {u \in Url : job[u] \in {"git", "git hangs"}} : dir' = dir \cup left
  /\ cut' = cut \cup dir' /\ alone' = FALSE
  /\ UNCHANGED <<session, ended, pos, batch, k, cnt, retry, copied, counter, stale,
                 started, progress, log, elf, map, built>>

Shell == AddUrl \/ SkipUrl \/ LastBatch \/ Finish \/ SpawnClone \/ CloneBarrier
         \/ SpawnBuild \/ BuildBarrier
Job(u) == Enforce(u) \/ Reset(u) \/ CloneOk(u) \/ CloneFails(u) \/ CloneRetry(u)
          \/ RetryAfter(u) \/ CloneGivesUp(u) \/ CloneHangs(u) \/ Record(u) \/ Count(u)
          \/ BuildOk(u) \/ CopyElf(u) \/ CleanUp(u) \/ BuildFails(u) \/ BuildHangs(u)

Next == Start \/ Shell \/ Tick \/ Crash \/ \E u \in Url : Job(u)

Spec == Init /\ [][Next]_vars

\* The shell and every job are scheduled, and time passes.  That a git clone or a
\* build ends is not assumed: it may hang instead.
FairSpec == /\ Spec
            /\ WF_vars(Shell) /\ WF_vars(Tick)
            /\ \A u \in Url : WF_vars(Job(u))

-----------------------------------------------------------------------------
(* Properties.                                                              *)

Said(message) == {u \in Url : <<message, u>> \in log}

\* Type invariant of the module.
TypeOK ==
  /\ session \in 0..MaxSessions
  /\ pc \in {"off", "fill", "clone", "build"}
  /\ ended \in BOOLEAN
  /\ pos \in 0..Len(List)
  /\ batch \in Seq(Url) /\ k \in 0..Len(batch)
  /\ job \in [Url -> Cloning \cup Building \cup {"none"}]
  /\ cnt \in [Url -> Nat] /\ retry \in [Url -> 0..MaxRetries]
  /\ over \subseteq Url /\ copied \in [Url -> Nat]
  /\ counter \in Nat /\ stale \in BOOLEAN /\ started \in Nat /\ alone \in BOOLEAN
  /\ progress \subseteq Url /\ dir \subseteq Url
  /\ built \subseteq Url /\ cut \subseteq Url
  /\ DOMAIN elf = Url
  /\ \A u \in Url : \A n \in DOMAIN elf[u] : elf[u][n] \in 1..Len(Exe[u])
  /\ \A line \in map : line.package \in Url /\ line.exe \in 1..Len(Exe[line.package])
  /\ log \subseteq {"clone success", "clone failed", "clone failed (rate limit)",
                    "build success", "build failed"} \X Url

\* "interrupted collection can be resumed": a session that reaches its end has
\* built, or tried to build, every package that was ever cloned.
ClonedMeansBuilt ==
  ended /\ pc = "off" =>
    Said("clone success") \subseteq Said("build success") \cup Said("build failed")

\* No package directory outlives its batch, but those a crash has left; and the
\* progress file hides no other package that was cloned and not built: the
\* barriers lose none.
OnlyCrashHides ==
  /\ pc \in {"off", "fill"} => dir \subseteq cut
  /\ ended /\ pc = "off" =>
       Said("clone success") \subseteq
         Said("build success") \cup Said("build failed") \cup cut

\* A session that reaches its end has recorded every URL of the list, full
\* batches and the last one.
AllRecorded == ended /\ pc = "off" => \A i \in 1..Len(List) : List[i] \in progress

\* CLONE_RATE_LIMIT: no more clones are started within a minute, as long as
\* they come one after the other: the files' counter then misses none, across
\* batches and sessions.  Jobs that overlap do exceed the limit.
RateKept == alone => started <= RateLimit

\* Every line of elf_map.txt is true: the file it names is a copy of that ELF
\* file, which no later copy of another one with the same name has replaced.
\* And no ELF file is lost: of every package that this session has built, all
\* are in the map when the directory they were built in is removed.
ElfMapExact ==
  /\ \A line \in map :
       /\ line.dest \in DOMAIN elf[line.package]
       /\ elf[line.package][line.dest] = line.exe
  /\ \A u \in built : \A e \in 1..Len(Exe[u]) :
       \E line \in map : line.package = u /\ line.exe = e

\* The jobs that wait for a command that never ends.
Hung == {u \in Url : job[u] \in {"git hangs", "build hangs"}}

\* Every session comes to an end, or is kept from it only by clones and builds
\* that hang: these hold up the loop that has started them, but no job that is
\* under way.  No job sleeps or retries for ever, and no barrier waits for a job that
\* is gone.
SessionEnds ==
  \/ []<>(pc = "off")
  \/ <>[](Running # {} /\ Running \subseteq Hung)
=============================================================================
