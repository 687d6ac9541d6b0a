--------------------------- MODULE BuildAllProofs ---------------------------
(***************************************************************************)
(* Proofs about buildall_timeout.sh, for every list of URLs, every set of  *)
(* ELF files, every batch size, number of jobs, rate limit and number of   *)
(* retries and sessions, with and without crashes, HTTP 429 and hangs.     *)
(***************************************************************************)
EXTENDS BuildAll, FiniteSetTheorems, SequenceTheorems, WellFoundedInduction, TLAPS

\* The lines of the list are URLs, and the bounds are positive.
LEMMA ConstantFacts ==
  /\ Len(List) \in Nat
  /\ \A i \in 1..Len(List) : List[i] \in Url
  /\ \A u \in Url : Len(Exe[u]) \in Nat
  /\ BatchSize \in Nat /\ BatchSize > 0
  /\ RateLimit \in Nat /\ RateLimit > 0
  /\ MaxRetries \in Nat /\ MaxRetries > 0
  /\ MaxSessions \in Nat
BY ListAssumption, BoundAssumption

\* A clone job may still try once more than it has.
RetryInv ==
  \A u \in Url : job[u] \in {"enforce", "reset", "sleep", "git", "git hangs", "wait"} =>
                    retry[u] < MaxRetries

\* The parts of the type invariant.
ShellOK ==
  /\ session \in 0..MaxSessions
  /\ pc \in {"off", "fill", "clone", "build"}
  /\ ended \in BOOLEAN
  /\ pos \in 0..Len(List)
  /\ batch \in Seq(Url) /\ k \in 0..Len(batch)
JobOK ==
  /\ job \in [Url -> Cloning \cup Building \cup {"none"}]
  /\ cnt \in [Url -> Nat] /\ retry \in [Url -> 0..MaxRetries]
  /\ over \subseteq Url /\ copied \in [Url -> Nat]
  /\ counter \in Nat /\ stale \in BOOLEAN /\ started \in Nat /\ alone \in BOOLEAN
FileOK ==
  /\ progress \subseteq Url /\ dir \subseteq Url
  /\ built \subseteq Url /\ cut \subseteq Url
Messages == {"clone success", "clone failed", "clone failed (rate limit)",
             "build success", "build failed"}
LogOK == log \subseteq Messages \X Url
ElfOK ==
  /\ DOMAIN elf = Url
  /\ \A u \in Url : \A n \in DOMAIN elf[u] : elf[u][n] \in 1..Len(Exe[u])
  /\ \A line \in map : line.package \in Url /\ line.exe \in 1..Len(Exe[line.package])
TypeInv == ShellOK /\ JobOK /\ RetryInv /\ FileOK /\ LogOK /\ ElfOK

\* What the line in the build log does to the rest of the state.
LEMMA LoggedFacts ==
  ASSUME NEW u \in Url, NEW message, Logged(u, message)
  PROVE  /\ log' = log \cup {<<message, u>>}
         /\ started' = started + 1
         /\ job' = [job EXCEPT ![u] = "record"]
BY DEF Logged

\* The main shell keeps the types of its variables.
LEMMA ShellStep ==
  ASSUME ShellOK, [Next]_vars
  PROVE  ShellOK'
<1> USE ConstantFacts
<1>1. CASE Start
  <2>1. session' \in 0..MaxSessions BY <1>1 DEF ShellOK, Start
  <2>2. batch' \in Seq(Url) /\ k' \in 0..Len(batch') BY <1>1 DEF Start
  <2>3. pc' \in {"off", "fill", "clone", "build"} /\ ended' \in BOOLEAN
    BY <1>1 DEF Start
  <2>4. pos' \in 0..Len(List) BY <1>1 DEF Start
  <2> QED BY <2>1, <2>2, <2>3, <2>4 DEF ShellOK
<1>2. CASE AddUrl
  BY <1>2 DEF ShellOK, local, limiter, files, AddUrl
<1>3. CASE SkipUrl
  BY <1>3 DEF ShellOK, local, limiter, files, SkipUrl
<1>4. CASE LastBatch
  BY <1>4 DEF ShellOK, local, limiter, files, LastBatch
<1>5. CASE Finish
  BY <1>5 DEF ShellOK, local, limiter, files, Finish
<1>6. CASE SpawnClone
  BY <1>6 DEF ShellOK, files, SpawnClone
<1>7. CASE CloneBarrier
  BY <1>7 DEF ShellOK, local, limiter, files, CloneBarrier
<1>8. CASE SpawnBuild
  BY <1>8 DEF ShellOK, local, limiter, files, SpawnBuild
<1>9. CASE BuildBarrier
  BY <1>9 DEF ShellOK, local, limiter, files, BuildBarrier
<1>10. CASE Tick
  BY <1>10 DEF ShellOK, shell, files, Tick
<1>11. CASE Crash
  BY <1>11 DEF ShellOK, Crash
<1>12. ASSUME NEW u \in Url, Enforce(u) PROVE ShellOK'
  BY <1>12 DEF ShellOK, shell, limiter, files, Enforce
<1>13. ASSUME NEW u \in Url, Reset(u) PROVE ShellOK'
  BY <1>13 DEF ShellOK, shell, files, Reset
<1>14. ASSUME NEW u \in Url, CloneOk(u) PROVE ShellOK'
  BY <1>14 DEF ShellOK, shell, local, CloneOk, Logged
<1>15. ASSUME NEW u \in Url, CloneFails(u) PROVE ShellOK'
  BY <1>15 DEF ShellOK, shell, local, CloneFails, Logged
<1>16. ASSUME NEW u \in Url, CloneRetry(u) PROVE ShellOK'
  BY <1>16 DEF ShellOK, shell, files, CloneRetry
<1>17. ASSUME NEW u \in Url, RetryAfter(u) PROVE ShellOK'
  BY <1>17 DEF ShellOK, shell, local, limiter, files, RetryAfter
<1>18. ASSUME NEW u \in Url, CloneGivesUp(u) PROVE ShellOK'
  BY <1>18 DEF ShellOK, shell, CloneGivesUp, Logged
<1>19. ASSUME NEW u \in Url, CloneHangs(u) PROVE ShellOK'
  BY <1>19 DEF ShellOK, shell, local, limiter, files, CloneHangs
<1>20. ASSUME NEW u \in Url, Record(u) PROVE ShellOK'
  BY <1>20 DEF ShellOK, shell, local, limiter, Record
<1>21. ASSUME NEW u \in Url, Count(u) PROVE ShellOK'
  BY <1>21 DEF ShellOK, shell, local, files, Count
<1>22. ASSUME NEW u \in Url, BuildOk(u) PROVE ShellOK'
  BY <1>22 DEF ShellOK, shell, limiter, BuildOk
<1>23. ASSUME NEW u \in Url, CopyElf(u) PROVE ShellOK'
  BY <1>23 DEF ShellOK, shell, limiter, CopyElf
<1>24. ASSUME NEW u \in Url, CleanUp(u) PROVE ShellOK'
  BY <1>24 DEF ShellOK, shell, local, limiter, CleanUp
<1>25. ASSUME NEW u \in Url, BuildFails(u) PROVE ShellOK'
  BY <1>25 DEF ShellOK, shell, local, limiter, BuildFails
<1>26. ASSUME NEW u \in Url, BuildHangs(u) PROVE ShellOK'
  BY <1>26 DEF ShellOK, shell, local, limiter, files, BuildHangs
<1>27. CASE UNCHANGED vars
  BY <1>27 DEF ShellOK, shell, local, limiter, files, vars
<1> QED
  BY <1>1, <1>2, <1>3, <1>4, <1>5, <1>6, <1>7, <1>8, <1>9, <1>10, <1>11, <1>12, <1>13,
    <1>14, <1>15, <1>16, <1>17, <1>18, <1>19, <1>20, <1>21, <1>22, <1>23, <1>24,
    <1>25, <1>26, <1>27 DEF Next, Shell, Job

\* So do the jobs.
LEMMA JobStep ==
  ASSUME JobOK, ShellOK, RetryInv, [Next]_vars
  PROVE  JobOK'
<1> USE ConstantFacts
<1>1. CASE Start
  BY <1>1 DEF JobOK, ShellOK, RetryInv, Cloning, Building, local, limiter, Start
<1>2. CASE AddUrl
  BY <1>2 DEF JobOK, ShellOK, RetryInv, Cloning, Building, local, limiter, files,
    AddUrl
<1>3. CASE SkipUrl
  BY <1>3 DEF JobOK, ShellOK, RetryInv, Cloning, Building, local, limiter, files,
    SkipUrl
<1>4. CASE LastBatch
  BY <1>4 DEF JobOK, ShellOK, RetryInv, Cloning, Building, local, limiter, files,
    LastBatch
<1>5. CASE Finish
  BY <1>5 DEF JobOK, ShellOK, RetryInv, Cloning, Building, local, limiter, files,
    Finish
<1>6. CASE SpawnClone
  <2>1. batch[k + 1] \in Url BY <1>6 DEF ShellOK, SpawnClone
  <2>2. job' \in [Url -> Cloning \cup Building \cup {"none"}]
    BY <1>6, <2>1 DEF JobOK, SpawnClone, Cloning
  <2>3. retry' \in [Url -> 0..MaxRetries] BY <1>6, <2>1 DEF JobOK, SpawnClone
  <2> QED BY <1>6, <2>2, <2>3 DEF JobOK, SpawnClone, files
<1>7. CASE CloneBarrier
  BY <1>7 DEF JobOK, ShellOK, RetryInv, Cloning, Building, local, limiter, files,
    CloneBarrier
<1>8. CASE SpawnBuild
  BY <1>8 DEF JobOK, ShellOK, RetryInv, Cloning, Building, local, limiter, files,
    SpawnBuild
<1>9. CASE BuildBarrier
  BY <1>9 DEF JobOK, ShellOK, RetryInv, Cloning, Building, local, limiter, files,
    BuildBarrier
<1>10. CASE Tick
  BY <1>10 DEF JobOK, ShellOK, RetryInv, Cloning, Building, shell, files, Tick
<1>11. CASE Crash
  BY <1>11 DEF JobOK, ShellOK, RetryInv, Cloning, Building, Crash
<1>12. ASSUME NEW u \in Url, Enforce(u) PROVE JobOK'
  BY <1>12 DEF JobOK, ShellOK, RetryInv, Cloning, Building, shell, limiter, files,
    Enforce
<1>13. ASSUME NEW u \in Url, Reset(u) PROVE JobOK'
  BY <1>13 DEF JobOK, ShellOK, RetryInv, Cloning, Building, shell, files, Reset
<1>14. ASSUME NEW u \in Url, CloneOk(u) PROVE JobOK'
  <2>1. started' = started + 1 /\ job' = [job EXCEPT ![u] = "record"]
    BY <1>14, LoggedFacts DEF CloneOk
  <2>2. started' \in Nat BY <2>1 DEF JobOK
  <2> QED BY <1>14, <2>1, <2>2 DEF JobOK, CloneOk, shell, local, limiter, files, Cloning
<1>15. ASSUME NEW u \in Url, CloneFails(u) PROVE JobOK'
  <2>1. started' = started + 1 /\ job' = [job EXCEPT ![u] = "record"]
    BY <1>15, LoggedFacts DEF CloneFails
  <2>2. started' \in Nat BY <2>1 DEF JobOK
  <2> QED BY <1>15, <2>1, <2>2 DEF JobOK, CloneFails, shell, local, limiter, files, Cloning
<1>16. ASSUME NEW u \in Url, CloneRetry(u) PROVE JobOK'
  <2>1. /\ retry[u] < MaxRetries /\ retry' = [retry EXCEPT ![u] = retry[u] + 1]
        /\ job' = [job EXCEPT ![u] = "wait"] /\ alone' = FALSE
        /\ UNCHANGED <<cnt, over, copied, counter, stale, started>>
    BY <1>16 DEF RetryInv, CloneRetry
  <2>2. retry' \in [Url -> 0..MaxRetries] BY <2>1 DEF JobOK
  <2>3. "wait" \in Cloning BY DEF Cloning
  <2> QED BY <2>1, <2>2, <2>3 DEF JobOK
<1>17. ASSUME NEW u \in Url, RetryAfter(u) PROVE JobOK'
  BY <1>17 DEF JobOK, ShellOK, RetryInv, Cloning, Building, shell, local, limiter,
    files, RetryAfter
<1>18. ASSUME NEW u \in Url, CloneGivesUp(u) PROVE JobOK'
  <2>1. started' = started + 1 /\ job' = [job EXCEPT ![u] = "record"]
    BY <1>18, LoggedFacts DEF CloneGivesUp
  <2>2. started' \in Nat BY <2>1 DEF JobOK
  <2>3. retry[u] < MaxRetries /\ retry' = [retry EXCEPT ![u] = retry[u] + 1]
    BY <1>18 DEF RetryInv, CloneGivesUp
  <2>4. retry' \in [Url -> 0..MaxRetries] BY <2>3 DEF JobOK
  <2> QED BY <1>18, <2>1, <2>2, <2>4 DEF JobOK, CloneGivesUp, shell, local, limiter, files, Cloning
<1>19. ASSUME NEW u \in Url, CloneHangs(u) PROVE JobOK'
  BY <1>19 DEF JobOK, ShellOK, RetryInv, Cloning, Building, shell, local, limiter,
    files, CloneHangs
<1>20. ASSUME NEW u \in Url, Record(u) PROVE JobOK'
  BY <1>20 DEF JobOK, ShellOK, RetryInv, Cloning, Building, shell, local, limiter,
    Record
<1>21. ASSUME NEW u \in Url, Count(u) PROVE JobOK'
  <2>1. counter' \in Nat BY <1>21 DEF JobOK, Count
  <2>2. job' = [job EXCEPT ![u] = "none"] BY <1>21 DEF Count
  <2>3. UNCHANGED <<local, stale, started, alone>> BY <1>21 DEF Count
  <2> QED BY <2>1, <2>2, <2>3 DEF JobOK, local
<1>22. ASSUME NEW u \in Url, BuildOk(u) PROVE JobOK'
  BY <1>22 DEF JobOK, ShellOK, RetryInv, Cloning, Building, shell, limiter, BuildOk
<1>23. ASSUME NEW u \in Url, CopyElf(u) PROVE JobOK'
  <2>1. copied' = [copied EXCEPT ![u] = copied[u] + 1] BY <1>23 DEF CopyElf
  <2>2. copied' \in [Url -> Nat] BY <2>1 DEF JobOK
  <2>3. UNCHANGED <<job, cnt, retry, over, limiter>> BY <1>23 DEF CopyElf
  <2> QED BY <2>2, <2>3 DEF JobOK, limiter
<1>24. ASSUME NEW u \in Url, CleanUp(u) PROVE JobOK'
  BY <1>24 DEF JobOK, ShellOK, RetryInv, Cloning, Building, shell, local, limiter,
    CleanUp
<1>25. ASSUME NEW u \in Url, BuildFails(u) PROVE JobOK'
  BY <1>25 DEF JobOK, ShellOK, RetryInv, Cloning, Building, shell, local, limiter,
    BuildFails
<1>26. ASSUME NEW u \in Url, BuildHangs(u) PROVE JobOK'
  BY <1>26 DEF JobOK, ShellOK, RetryInv, Cloning, Building, shell, local, limiter,
    files, BuildHangs
<1>27. CASE UNCHANGED vars
  BY <1>27 DEF JobOK, ShellOK, RetryInv, Cloning, Building, shell, local, limiter,
    files, vars
<1> QED
  BY <1>1, <1>2, <1>3, <1>4, <1>5, <1>6, <1>7, <1>8, <1>9, <1>10, <1>11, <1>12, <1>13,
    <1>14, <1>15, <1>16, <1>17, <1>18, <1>19, <1>20, <1>21, <1>22, <1>23, <1>24,
    <1>25, <1>26, <1>27 DEF Next, Shell, Job

\* No clone is tried more than MaxRetries times.
LEMMA RetryStep ==
  ASSUME JobOK, ShellOK, RetryInv, [Next]_vars
  PROVE  RetryInv'
<1> USE ConstantFacts
<1>1. CASE Start
  BY <1>1 DEF JobOK, ShellOK, RetryInv, local, limiter, Start
<1>2. CASE AddUrl
  BY <1>2 DEF JobOK, ShellOK, RetryInv, local, limiter, files, AddUrl
<1>3. CASE SkipUrl
  BY <1>3 DEF JobOK, ShellOK, RetryInv, local, limiter, files, SkipUrl
<1>4. CASE LastBatch
  BY <1>4 DEF JobOK, ShellOK, RetryInv, local, limiter, files, LastBatch
<1>5. CASE Finish
  BY <1>5 DEF JobOK, ShellOK, RetryInv, local, limiter, files, Finish
<1>6. CASE SpawnClone
  BY <1>6 DEF JobOK, ShellOK, RetryInv, files, SpawnClone
<1>7. CASE CloneBarrier
  BY <1>7 DEF JobOK, ShellOK, RetryInv, local, limiter, files, CloneBarrier
<1>8. CASE SpawnBuild
  BY <1>8 DEF JobOK, ShellOK, RetryInv, local, limiter, files, SpawnBuild
<1>9. CASE BuildBarrier
  BY <1>9 DEF JobOK, ShellOK, RetryInv, local, limiter, files, BuildBarrier
<1>10. CASE Tick
  BY <1>10 DEF JobOK, ShellOK, RetryInv, shell, files, Tick
<1>11. CASE Crash
  BY <1>11 DEF JobOK, ShellOK, RetryInv, Crash
<1>12. ASSUME NEW u \in Url, Enforce(u) PROVE RetryInv'
  BY <1>12 DEF JobOK, ShellOK, RetryInv, shell, limiter, files, Enforce
<1>13. ASSUME NEW u \in Url, Reset(u) PROVE RetryInv'
  BY <1>13 DEF JobOK, ShellOK, RetryInv, shell, files, Reset
<1>14. ASSUME NEW u \in Url, CloneOk(u) PROVE RetryInv'
  BY <1>14 DEF JobOK, ShellOK, RetryInv, shell, local, CloneOk, Logged
<1>15. ASSUME NEW u \in Url, CloneFails(u) PROVE RetryInv'
  BY <1>15 DEF JobOK, ShellOK, RetryInv, shell, local, CloneFails, Logged
<1>16. ASSUME NEW u \in Url, CloneRetry(u) PROVE RetryInv'
  BY <1>16 DEF JobOK, ShellOK, RetryInv, shell, files, CloneRetry
<1>17. ASSUME NEW u \in Url, RetryAfter(u) PROVE RetryInv'
  BY <1>17 DEF JobOK, ShellOK, RetryInv, shell, local, limiter, files, RetryAfter
<1>18. ASSUME NEW u \in Url, CloneGivesUp(u) PROVE RetryInv'
  BY <1>18 DEF JobOK, ShellOK, RetryInv, shell, CloneGivesUp, Logged
<1>19. ASSUME NEW u \in Url, CloneHangs(u) PROVE RetryInv'
  BY <1>19 DEF JobOK, ShellOK, RetryInv, shell, local, limiter, files, CloneHangs
<1>20. ASSUME NEW u \in Url, Record(u) PROVE RetryInv'
  BY <1>20 DEF JobOK, ShellOK, RetryInv, shell, local, limiter, Record
<1>21. ASSUME NEW u \in Url, Count(u) PROVE RetryInv'
  BY <1>21 DEF JobOK, ShellOK, RetryInv, shell, local, files, Count
<1>22. ASSUME NEW u \in Url, BuildOk(u) PROVE RetryInv'
  BY <1>22 DEF JobOK, ShellOK, RetryInv, shell, limiter, BuildOk
<1>23. ASSUME NEW u \in Url, CopyElf(u) PROVE RetryInv'
  BY <1>23 DEF JobOK, ShellOK, RetryInv, shell, limiter, CopyElf
<1>24. ASSUME NEW u \in Url, CleanUp(u) PROVE RetryInv'
  BY <1>24 DEF JobOK, ShellOK, RetryInv, shell, local, limiter, CleanUp
<1>25. ASSUME NEW u \in Url, BuildFails(u) PROVE RetryInv'
  BY <1>25 DEF JobOK, ShellOK, RetryInv, shell, local, limiter, BuildFails
<1>26. ASSUME NEW u \in Url, BuildHangs(u) PROVE RetryInv'
  BY <1>26 DEF JobOK, ShellOK, RetryInv, shell, local, limiter, files, BuildHangs
<1>27. CASE UNCHANGED vars
  BY <1>27 DEF JobOK, ShellOK, RetryInv, shell, local, limiter, files, vars
<1> QED
  BY <1>1, <1>2, <1>3, <1>4, <1>5, <1>6, <1>7, <1>8, <1>9, <1>10, <1>11, <1>12, <1>13,
    <1>14, <1>15, <1>16, <1>17, <1>18, <1>19, <1>20, <1>21, <1>22, <1>23, <1>24,
    <1>25, <1>26, <1>27 DEF Next, Shell, Job

\* The files keep their types.
LEMMA FileStep ==
  ASSUME FileOK, ShellOK, [Next]_vars
  PROVE  FileOK'
<1>1. CASE Start
  BY <1>1 DEF FileOK, ShellOK, local, limiter, Start
<1>2. CASE AddUrl
  BY <1>2 DEF FileOK, ShellOK, local, limiter, files, AddUrl
<1>3. CASE SkipUrl
  BY <1>3 DEF FileOK, ShellOK, local, limiter, files, SkipUrl
<1>4. CASE LastBatch
  BY <1>4 DEF FileOK, ShellOK, local, limiter, files, LastBatch
<1>5. CASE Finish
  BY <1>5 DEF FileOK, ShellOK, local, limiter, files, Finish
<1>6. CASE SpawnClone
  BY <1>6 DEF FileOK, ShellOK, files, SpawnClone
<1>7. CASE CloneBarrier
  BY <1>7 DEF FileOK, ShellOK, local, limiter, files, CloneBarrier
<1>8. CASE SpawnBuild
  BY <1>8 DEF FileOK, ShellOK, local, limiter, files, SpawnBuild
<1>9. CASE BuildBarrier
  BY <1>9 DEF FileOK, ShellOK, local, limiter, files, BuildBarrier
<1>10. CASE Tick
  BY <1>10 DEF FileOK, ShellOK, shell, files, Tick
<1>11. CASE Crash
  BY <1>11 DEF FileOK, ShellOK, Crash
<1>12. ASSUME NEW u \in Url, Enforce(u) PROVE FileOK'
  BY <1>12 DEF FileOK, ShellOK, shell, limiter, files, Enforce
<1>13. ASSUME NEW u \in Url, Reset(u) PROVE FileOK'
  BY <1>13 DEF FileOK, ShellOK, shell, files, Reset
<1>14. ASSUME NEW u \in Url, CloneOk(u) PROVE FileOK'
  BY <1>14 DEF FileOK, ShellOK, shell, local, CloneOk, Logged
<1>15. ASSUME NEW u \in Url, CloneFails(u) PROVE FileOK'
  BY <1>15 DEF FileOK, ShellOK, shell, local, CloneFails, Logged
<1>16. ASSUME NEW u \in Url, CloneRetry(u) PROVE FileOK'
  BY <1>16 DEF FileOK, ShellOK, shell, files, CloneRetry
<1>17. ASSUME NEW u \in Url, RetryAfter(u) PROVE FileOK'
  BY <1>17 DEF FileOK, ShellOK, shell, local, limiter, files, RetryAfter
<1>18. ASSUME NEW u \in Url, CloneGivesUp(u) PROVE FileOK'
  BY <1>18 DEF FileOK, ShellOK, shell, CloneGivesUp, Logged
<1>19. ASSUME NEW u \in Url, CloneHangs(u) PROVE FileOK'
  BY <1>19 DEF FileOK, ShellOK, shell, local, limiter, files, CloneHangs
<1>20. ASSUME NEW u \in Url, Record(u) PROVE FileOK'
  BY <1>20 DEF FileOK, ShellOK, shell, local, limiter, Record
<1>21. ASSUME NEW u \in Url, Count(u) PROVE FileOK'
  BY <1>21 DEF FileOK, ShellOK, shell, local, files, Count
<1>22. ASSUME NEW u \in Url, BuildOk(u) PROVE FileOK'
  BY <1>22 DEF FileOK, ShellOK, shell, limiter, BuildOk
<1>23. ASSUME NEW u \in Url, CopyElf(u) PROVE FileOK'
  BY <1>23 DEF FileOK, ShellOK, shell, limiter, CopyElf
<1>24. ASSUME NEW u \in Url, CleanUp(u) PROVE FileOK'
  BY <1>24 DEF FileOK, ShellOK, shell, local, limiter, CleanUp
<1>25. ASSUME NEW u \in Url, BuildFails(u) PROVE FileOK'
  BY <1>25 DEF FileOK, ShellOK, shell, local, limiter, BuildFails
<1>26. ASSUME NEW u \in Url, BuildHangs(u) PROVE FileOK'
  BY <1>26 DEF FileOK, ShellOK, shell, local, limiter, files, BuildHangs
<1>27. CASE UNCHANGED vars
  BY <1>27 DEF FileOK, ShellOK, shell, local, limiter, files, vars
<1> QED
  BY <1>1, <1>2, <1>3, <1>4, <1>5, <1>6, <1>7, <1>8, <1>9, <1>10, <1>11, <1>12, <1>13,
    <1>14, <1>15, <1>16, <1>17, <1>18, <1>19, <1>20, <1>21, <1>22, <1>23, <1>24,
    <1>25, <1>26, <1>27 DEF Next, Shell, Job

LEMMA LogGrows ==
  ASSUME LogOK, NEW u \in Url, NEW m \in Messages, log' = log \cup {<<m, u>>}
  PROVE  LogOK'
<1>1. <<m, u>> \in Messages \X Url OBVIOUS
<1> QED BY <1>1, Zenon DEF LogOK

\* Every line of the log is one of the five messages on a URL.
LEMMA LogStep ==
  ASSUME LogOK, [Next]_vars
  PROVE  LogOK'
<1>1. CASE Start
  BY <1>1 DEF LogOK, local, limiter, Start
<1>2. CASE AddUrl
  BY <1>2 DEF LogOK, local, limiter, files, AddUrl
<1>3. CASE SkipUrl
  BY <1>3 DEF LogOK, local, limiter, files, SkipUrl
<1>4. CASE LastBatch
  BY <1>4 DEF LogOK, local, limiter, files, LastBatch
<1>5. CASE Finish
  BY <1>5 DEF LogOK, local, limiter, files, Finish
<1>6. CASE SpawnClone
  BY <1>6 DEF LogOK, files, SpawnClone
<1>7. CASE CloneBarrier
  BY <1>7 DEF LogOK, local, limiter, files, CloneBarrier
<1>8. CASE SpawnBuild
  BY <1>8 DEF LogOK, local, limiter, files, SpawnBuild
<1>9. CASE BuildBarrier
  BY <1>9 DEF LogOK, local, limiter, files, BuildBarrier
<1>10. CASE Tick
  BY <1>10 DEF LogOK, shell, files, Tick
<1>11. CASE Crash
  BY <1>11 DEF LogOK, Crash
<1>12. ASSUME NEW u \in Url, Enforce(u) PROVE LogOK'
  BY <1>12 DEF LogOK, shell, limiter, files, Enforce
<1>13. ASSUME NEW u \in Url, Reset(u) PROVE LogOK'
  BY <1>13 DEF LogOK, shell, files, Reset
<1>14. ASSUME NEW u \in Url, CloneOk(u) PROVE LogOK'
  BY <1>14, LogGrows, LoggedFacts DEF CloneOk, Messages
<1>15. ASSUME NEW u \in Url, CloneFails(u) PROVE LogOK'
  BY <1>15, LogGrows, LoggedFacts DEF CloneFails, Messages
<1>16. ASSUME NEW u \in Url, CloneRetry(u) PROVE LogOK'
  BY <1>16 DEF LogOK, shell, files, CloneRetry
<1>17. ASSUME NEW u \in Url, RetryAfter(u) PROVE LogOK'
  BY <1>17 DEF LogOK, shell, local, limiter, files, RetryAfter
<1>18. ASSUME NEW u \in Url, CloneGivesUp(u) PROVE LogOK'
  BY <1>18, LogGrows, LoggedFacts DEF CloneGivesUp, Messages
<1>19. ASSUME NEW u \in Url, CloneHangs(u) PROVE LogOK'
  BY <1>19 DEF LogOK, shell, local, limiter, files, CloneHangs
<1>20. ASSUME NEW u \in Url, Record(u) PROVE LogOK'
  BY <1>20 DEF LogOK, shell, local, limiter, Record
<1>21. ASSUME NEW u \in Url, Count(u) PROVE LogOK'
  BY <1>21 DEF LogOK, shell, local, files, Count
<1>22. ASSUME NEW u \in Url, BuildOk(u) PROVE LogOK'
  BY <1>22, LogGrows DEF BuildOk, Messages
<1>23. ASSUME NEW u \in Url, CopyElf(u) PROVE LogOK'
  BY <1>23 DEF LogOK, shell, limiter, CopyElf
<1>24. ASSUME NEW u \in Url, CleanUp(u) PROVE LogOK'
  BY <1>24 DEF LogOK, shell, local, limiter, CleanUp
<1>25. ASSUME NEW u \in Url, BuildFails(u) PROVE LogOK'
  BY <1>25, LogGrows DEF BuildFails, Messages
<1>26. ASSUME NEW u \in Url, BuildHangs(u) PROVE LogOK'
  BY <1>26 DEF LogOK, shell, local, limiter, files, BuildHangs
<1>27. CASE UNCHANGED vars
  BY <1>27 DEF LogOK, shell, local, limiter, files, vars
<1> QED
  BY <1>1, <1>2, <1>3, <1>4, <1>5, <1>6, <1>7, <1>8, <1>9, <1>10, <1>11, <1>12, <1>13,
    <1>14, <1>15, <1>16, <1>17, <1>18, <1>19, <1>20, <1>21, <1>22, <1>23, <1>24,
    <1>25, <1>26, <1>27 DEF Next, Shell, Job

\* The copies are copies of files that the package builds.
LEMMA ElfStep ==
  ASSUME ElfOK, JobOK, [Next]_vars
  PROVE  ElfOK'
<1> USE ConstantFacts
<1>1. CASE Start
  BY <1>1 DEF ElfOK, JobOK, local, limiter, Start
<1>2. CASE AddUrl
  BY <1>2 DEF ElfOK, JobOK, local, limiter, files, AddUrl
<1>3. CASE SkipUrl
  BY <1>3 DEF ElfOK, JobOK, local, limiter, files, SkipUrl
<1>4. CASE LastBatch
  BY <1>4 DEF ElfOK, JobOK, local, limiter, files, LastBatch
<1>5. CASE Finish
  BY <1>5 DEF ElfOK, JobOK, local, limiter, files, Finish
<1>6. CASE SpawnClone
  BY <1>6 DEF ElfOK, JobOK, files, SpawnClone
<1>7. CASE CloneBarrier
  BY <1>7 DEF ElfOK, JobOK, local, limiter, files, CloneBarrier
<1>8. CASE SpawnBuild
  BY <1>8 DEF ElfOK, JobOK, local, limiter, files, SpawnBuild
<1>9. CASE BuildBarrier
  BY <1>9 DEF ElfOK, JobOK, local, limiter, files, BuildBarrier
<1>10. CASE Tick
  BY <1>10 DEF ElfOK, JobOK, shell, files, Tick
<1>11. CASE Crash
  BY <1>11 DEF ElfOK, JobOK, Crash
<1>12. ASSUME NEW u \in Url, Enforce(u) PROVE ElfOK'
  BY <1>12 DEF ElfOK, JobOK, shell, limiter, files, Enforce
<1>13. ASSUME NEW u \in Url, Reset(u) PROVE ElfOK'
  BY <1>13 DEF ElfOK, JobOK, shell, files, Reset
<1>14. ASSUME NEW u \in Url, CloneOk(u) PROVE ElfOK'
  BY <1>14 DEF ElfOK, JobOK, shell, local, CloneOk, Logged
<1>15. ASSUME NEW u \in Url, CloneFails(u) PROVE ElfOK'
  BY <1>15 DEF ElfOK, JobOK, shell, local, CloneFails, Logged
<1>16. ASSUME NEW u \in Url, CloneRetry(u) PROVE ElfOK'
  BY <1>16 DEF ElfOK, JobOK, shell, files, CloneRetry
<1>17. ASSUME NEW u \in Url, RetryAfter(u) PROVE ElfOK'
  BY <1>17 DEF ElfOK, JobOK, shell, local, limiter, files, RetryAfter
<1>18. ASSUME NEW u \in Url, CloneGivesUp(u) PROVE ElfOK'
  BY <1>18 DEF ElfOK, JobOK, shell, CloneGivesUp, Logged
<1>19. ASSUME NEW u \in Url, CloneHangs(u) PROVE ElfOK'
  BY <1>19 DEF ElfOK, JobOK, shell, local, limiter, files, CloneHangs
<1>20. ASSUME NEW u \in Url, Record(u) PROVE ElfOK'
  BY <1>20 DEF ElfOK, JobOK, shell, local, limiter, Record
<1>21. ASSUME NEW u \in Url, Count(u) PROVE ElfOK'
  BY <1>21 DEF ElfOK, JobOK, shell, local, files, Count
<1>22. ASSUME NEW u \in Url, BuildOk(u) PROVE ElfOK'
  BY <1>22 DEF ElfOK, JobOK, shell, limiter, BuildOk
<1>23. ASSUME NEW u \in Url, CopyElf(u) PROVE ElfOK'
  <2> DEFINE e == copied[u] + 1
             dest == FreeName(u, Exe[u][e])
  <2>1. e \in 1..Len(Exe[u]) BY <1>23 DEF CopyElf, JobOK
  <2>2. elf' = [elf EXCEPT ![u] = [n \in DOMAIN elf[u] \cup {dest} |->
                                    IF n = dest THEN e ELSE elf[u][n]]]
    BY <1>23 DEF CopyElf
  <2>3. map' = map \cup {[package |-> u, exe |-> e, dest |-> dest]}
    BY <1>23 DEF CopyElf
  <2> HIDE DEF e, dest
  <2>4. DOMAIN elf' = Url /\ \A v \in Url : \A n \in DOMAIN elf'[v] :
          elf'[v][n] \in 1..Len(Exe[v])
    BY <2>1, <2>2 DEF ElfOK
  <2>5. \A line \in map' : line.package \in Url
                             /\ line.exe \in 1..Len(Exe[line.package])
    BY <2>1, <2>3 DEF ElfOK
  <2> QED BY <2>4, <2>5 DEF ElfOK
<1>24. ASSUME NEW u \in Url, CleanUp(u) PROVE ElfOK'
  BY <1>24 DEF ElfOK, JobOK, shell, local, limiter, CleanUp
<1>25. ASSUME NEW u \in Url, BuildFails(u) PROVE ElfOK'
  BY <1>25 DEF ElfOK, JobOK, shell, local, limiter, BuildFails
<1>26. ASSUME NEW u \in Url, BuildHangs(u) PROVE ElfOK'
  BY <1>26 DEF ElfOK, JobOK, shell, local, limiter, files, BuildHangs
<1>27. CASE UNCHANGED vars
  BY <1>27 DEF ElfOK, JobOK, shell, local, limiter, files, vars
<1> QED
  BY <1>1, <1>2, <1>3, <1>4, <1>5, <1>6, <1>7, <1>8, <1>9, <1>10, <1>11, <1>12, <1>13,
    <1>14, <1>15, <1>16, <1>17, <1>18, <1>19, <1>20, <1>21, <1>22, <1>23, <1>24,
    <1>25, <1>26, <1>27 DEF Next, Shell, Job

LEMMA TypeStep ==
  ASSUME TypeInv, [Next]_vars
  PROVE  TypeInv'
BY ShellStep, JobStep, RetryStep, FileStep, LogStep, ElfStep DEF TypeInv

LEMMA TypeInit ==
  ASSUME Init
  PROVE  TypeInv
<1> USE ConstantFacts DEF Init
<1>a. batch \in Seq(Url) /\ k \in 0..Len(batch) OBVIOUS
<1>b. session \in 0..MaxSessions /\ pos \in 0..Len(List) OBVIOUS
<1>c. pc \in {"off", "fill", "clone", "build"} /\ ended \in BOOLEAN OBVIOUS
<1>1. ShellOK BY <1>a, <1>b, <1>c DEF ShellOK
<1>d. job \in [Url -> Cloning \cup Building \cup {"none"}] OBVIOUS
<1>e. cnt \in [Url -> Nat] /\ copied \in [Url -> Nat] /\ over \subseteq Url OBVIOUS
<1>f. retry \in [Url -> 0..MaxRetries] OBVIOUS
<1>2. JobOK BY <1>d, <1>e, <1>f DEF JobOK
<1>3. RetryInv BY DEF RetryInv
<1>4. FileOK /\ LogOK BY DEF FileOK, LogOK
<1>5. ElfOK BY DEF ElfOK
<1> QED BY <1>1, <1>2, <1>3, <1>4, <1>5 DEF TypeInv

\* Type correctness.
THEOREM TypeCorrect == Spec => []TypeOK
<1>1. Init => TypeInv
  BY TypeInit
<1>2. TypeInv /\ [Next]_vars => TypeInv'
  BY TypeStep
<1>3. TypeInv => TypeOK
  BY DEF TypeInv, ShellOK, JobOK, FileOK, LogOK, Messages, ElfOK, TypeOK
<1> QED BY <1>1, <1>2, <1>3, PTL DEF Spec

-----------------------------------------------------------------------------
\* What a background job may do: it goes through the steps of its own function
\* and leaves the main shell and the other jobs alone.  A clone is over only
\* after the counter was written, and the URL is then in the progress file.  A
\* clone job can make its directory and a build job removes it before it ends.
Move(u) ==
  /\ UNCHANGED <<shell, cut>>
  /\ job' = [job EXCEPT ![u] = job'[u]]
  /\ \/ job[u] \in Cloning /\ job'[u] \in Cloning
     \/ job[u] \in Building /\ job'[u] \in Building \cup {"none"}
     \/ job[u] = "count" /\ job'[u] = "none"
  /\ progress \subseteq progress'
  /\ job'[u] = "count" => u \in progress'
  /\ dir' \subseteq dir \cup {u}
  /\ u \in dir' => u \in dir \/ job[u] = "git"
  /\ job[u] \in Building /\ job'[u] = "none" => u \notin dir'

LEMMA JobMoves ==
  ASSUME JobOK, NEW u \in Url, Job(u)
  PROVE  Move(u)
<1>1. CASE Enforce(u)
  BY <1>1 DEF Enforce, Move, JobOK, Cloning, Building, limiter, files
<1>2. CASE Reset(u)
  BY <1>2 DEF Reset, Move, JobOK, Cloning, Building, files
<1>3. CASE CloneOk(u)
  BY <1>3, LoggedFacts DEF CloneOk, Move, JobOK, Cloning, Building, local
<1>4. CASE CloneFails(u)
  BY <1>4, LoggedFacts DEF CloneFails, Move, JobOK, Cloning, Building, local
<1>5. CASE CloneRetry(u)
  BY <1>5 DEF CloneRetry, Move, JobOK, Cloning, Building, files
<1>6. CASE RetryAfter(u)
  BY <1>6 DEF RetryAfter, Move, JobOK, Cloning, Building, local, limiter, files
<1>7. CASE CloneGivesUp(u)
  BY <1>7, LoggedFacts DEF CloneGivesUp, Move, JobOK, Cloning, Building
<1>8. CASE CloneHangs(u)
  BY <1>8 DEF CloneHangs, Move, JobOK, Cloning, Building, local, limiter, files
<1>9. CASE Record(u)
  BY <1>9 DEF Record, Move, JobOK, Cloning, Building, local, limiter
<1>10. CASE Count(u)
  BY <1>10 DEF Count, Move, JobOK, Cloning, Building, local, files
<1>11. CASE BuildOk(u)
  BY <1>11 DEF BuildOk, Move, JobOK, Cloning, Building, limiter
<1>12. CASE CopyElf(u)
  BY <1>12 DEF CopyElf, Move, JobOK, Cloning, Building, limiter
<1>13. CASE CleanUp(u)
  BY <1>13 DEF CleanUp, Move, JobOK, Cloning, Building, local, limiter
<1>14. CASE BuildFails(u)
  BY <1>14 DEF BuildFails, Move, JobOK, Cloning, Building, local, limiter
<1>15. CASE BuildHangs(u)
  BY <1>15 DEF BuildHangs, Move, JobOK, Cloning, Building, local, limiter, files
<1> QED
  BY <1>1, <1>2, <1>3, <1>4, <1>5, <1>6, <1>7, <1>8, <1>9, <1>10, <1>11, <1>12, <1>13,
    <1>14, <1>15 DEF Job

\* u is one of s[m], ..., s[n].
Among(u, s, m, n) == \E i \in m..n : s[i] = u

\* Among, when the loop over the batch goes on and when the batch grows.
LEMMA AmongNone ==
  ASSUME NEW u, NEW s, NEW m \in Nat, NEW n \in Nat, n < m
  PROVE  ~Among(u, s, m, n)
BY DEF Among

LEMMA AmongLast ==
  ASSUME NEW u, NEW s, NEW m \in Nat, NEW n \in Nat, m <= n + 1
  PROVE  Among(u, s, m, n + 1) <=> Among(u, s, m, n) \/ u = s[n + 1]
<1>1. m..(n + 1) = (m..n) \cup {n + 1} OBVIOUS
<1> QED BY <1>1 DEF Among

LEMMA AmongFirst ==
  ASSUME NEW u, NEW s, NEW m \in Nat, NEW n \in Nat, m <= n
  PROVE  Among(u, s, m, n) <=> Among(u, s, m + 1, n) \/ u = s[m]
<1>1. m..n = ((m + 1)..n) \cup {m} OBVIOUS
<1> QED BY <1>1 DEF Among

LEMMA AmongAppend ==
  ASSUME NEW S, NEW s \in Seq(S), NEW x \in S, NEW u
  PROVE  Among(u, Append(s, x), 1, Len(s) + 1) <=> Among(u, s, 1, Len(s)) \/ u = x
<1>1. 1..(Len(s) + 1) = (1..Len(s)) \cup {Len(s) + 1} OBVIOUS
<1>2. /\ \A i \in 1..Len(s) : Append(s, x)[i] = s[i]
      /\ Append(s, x)[Len(s) + 1] = x
  OBVIOUS
<1> QED BY <1>1, <1>2 DEF Among

\* The barriers: clone jobs run only during the clone loop and build jobs only
\* during the build loop, for URLs that the loop has been through.
JobInv ==
  \A u \in Url : job[u] # "none" =>
    /\ \/ pc = "clone" /\ job[u] \in Cloning
       \/ pc = "build" /\ job[u] \in Building
    /\ Among(u, batch, 1, k)

\* Each barrier waits for the jobs of its loop.
LEMMA JobInvStep ==
  ASSUME TypeInv, JobInv, [Next]_vars
  PROVE  JobInv'
<1>a. ShellOK /\ JobOK /\ FileOK BY DEF TypeInv
<1>1. CASE Start
  BY <1>a, <1>1 DEF ShellOK, JobOK, JobInv, Cloning, Building, Running, local,
    limiter, Start
<1>2. CASE AddUrl
  BY <1>a, <1>2 DEF ShellOK, JobOK, JobInv, Cloning, Building, Running, local,
    limiter, files, AddUrl
<1>3. CASE SkipUrl
  BY <1>a, <1>3 DEF ShellOK, JobOK, JobInv, Cloning, Building, Running, local,
    limiter, files, SkipUrl
<1>4. CASE LastBatch
  BY <1>a, <1>4 DEF ShellOK, JobOK, JobInv, Cloning, Building, Running, local,
    limiter, files, LastBatch
<1>5. CASE Finish
  BY <1>a, <1>5 DEF ShellOK, JobOK, JobInv, Cloning, Building, Running, local,
    limiter, files, Finish
<1>6. CASE SpawnClone
  <2> DEFINE w == batch[k + 1]
  <2>1. w \in Url /\ k \in Nat /\ pc' = "clone" /\ batch' = batch /\ k' = k + 1
        /\ job' = [job EXCEPT ![w] = "enforce"]
    BY <1>a, <1>6 DEF ShellOK, SpawnClone
  <2>2. \A v : Among(v, batch', 1, k') <=> Among(v, batch, 1, k) \/ v = w
    BY <2>1, AmongLast
  <2> HIDE DEF w
  <2> QED BY <1>a, <1>6, <2>1, <2>2 DEF JobOK, JobInv, Cloning, Building, SpawnClone
<1>7. CASE CloneBarrier
  BY <1>a, <1>7 DEF ShellOK, JobOK, JobInv, Cloning, Building, Running, local,
    limiter, files, CloneBarrier
<1>8. CASE SpawnBuild
  <2> DEFINE w == batch[k + 1]
  <2>1. w \in Url /\ k \in Nat /\ pc = "build" /\ pc' = "build" /\ batch' = batch
        /\ k' = k + 1
    BY <1>a, <1>8 DEF ShellOK, SpawnBuild
  <2>2. \A v : Among(v, batch', 1, k') <=> Among(v, batch, 1, k) \/ v = w
    BY <2>1, AmongLast
  <2>3. job' = [job EXCEPT ![w] = "build"] \/ job' = job
    BY <1>8 DEF SpawnBuild
  <2> HIDE DEF w
  <2> QED BY <1>a, <2>1, <2>2, <2>3 DEF JobOK, JobInv, Cloning, Building
<1>9. CASE BuildBarrier
  BY <1>a, <1>9 DEF ShellOK, JobOK, JobInv, Cloning, Building, Running, local,
    limiter, files, BuildBarrier
<1>10. CASE Tick
  BY <1>a, <1>10 DEF ShellOK, JobOK, JobInv, Cloning, Building, Running, shell, files,
    Tick
<1>11. CASE Crash
  BY <1>a, <1>11 DEF ShellOK, JobOK, JobInv, Cloning, Building, Running, Crash
<1>12. ASSUME NEW u \in Url, Job(u) PROVE JobInv'
  <2>1. Move(u) BY <1>a, <1>12, JobMoves
  <2>2. /\ pc' = pc /\ batch' = batch /\ k' = k
        /\ \A v \in Url : v # u => job'[v] = job[v]
    BY <1>a, <2>1 DEF Move, shell, JobOK
  <2>3. job[u] # "none" BY <2>1 DEF Move, Cloning, Building
  <2>4. job'[u] # "none" => \/ job[u] \in Cloning /\ job'[u] \in Cloning
                            \/ job[u] \in Building /\ job'[u] \in Building
    BY <2>1 DEF Move
  <2>5. Cloning \cap Building = {} BY DEF Cloning, Building
  <2> QED BY <2>2, <2>3, <2>4, <2>5 DEF JobInv
<1>13. CASE UNCHANGED vars
  BY <1>a, <1>13 DEF ShellOK, JobOK, JobInv, Cloning, Building, Running, shell, local,
    limiter, files, vars
<1> QED
  BY <1>1, <1>2, <1>3, <1>4, <1>5, <1>6, <1>7, <1>8, <1>9, <1>10, <1>11, <1>12, <1>13
    DEF Next, Shell

\* Which package directories there may be, but those a crash has left.
DirInv ==
  /\ pc \in {"off", "fill"} => dir \subseteq cut
  /\ pc = "clone" => \A u \in dir : u \in cut \/ Among(u, batch, 1, k)
  /\ pc = "build" => \A u \in dir : \/ u \in cut
                                    \/ Among(u, batch, k + 1, Len(batch))
                                    \/ job[u] \in Building

\* No directory gets past the barriers.
LEMMA DirStep ==
  ASSUME TypeInv, JobInv, DirInv, [Next]_vars
  PROVE  DirInv'
<1>a. ShellOK /\ JobOK /\ FileOK BY DEF TypeInv
<1>1. CASE Start
  BY <1>a, <1>1 DEF ShellOK, JobOK, FileOK, JobInv, DirInv, Cloning, Building,
    Running, local, limiter, Start
<1>2. CASE AddUrl
  BY <1>a, <1>2 DEF ShellOK, JobOK, FileOK, JobInv, DirInv, Cloning, Building,
    Running, local, limiter, files, AddUrl
<1>3. CASE SkipUrl
  BY <1>a, <1>3 DEF ShellOK, JobOK, FileOK, JobInv, DirInv, Cloning, Building,
    Running, local, limiter, files, SkipUrl
<1>4. CASE LastBatch
  BY <1>a, <1>4 DEF ShellOK, JobOK, FileOK, JobInv, DirInv, Cloning, Building,
    Running, local, limiter, files, LastBatch
<1>5. CASE Finish
  BY <1>a, <1>5 DEF ShellOK, JobOK, FileOK, JobInv, DirInv, Cloning, Building,
    Running, local, limiter, files, Finish
<1>6. CASE SpawnClone
  <2> DEFINE w == batch[k + 1]
  <2>1. k \in Nat /\ pc = "clone" /\ pc' = "clone" /\ batch' = batch /\ k' = k + 1
        /\ dir' = dir /\ cut' = cut
    BY <1>a, <1>6 DEF ShellOK, SpawnClone, files
  <2>2. \A v : Among(v, batch', 1, k') <=> Among(v, batch, 1, k) \/ v = w
    BY <2>1, AmongLast
  <2> HIDE DEF w
  <2> QED BY <2>1, <2>2 DEF DirInv
<1>7. CASE CloneBarrier
  <2>1. /\ pc = "clone" /\ pc' = "build" /\ k = Len(batch) /\ k' = 0
        /\ UNCHANGED <<batch, dir, cut>>
    BY <1>7 DEF CloneBarrier, files
  <2> QED BY <2>1 DEF DirInv
<1>8. CASE SpawnBuild
  <2> DEFINE w == batch[k + 1]
  <2>1. w \in Url /\ k \in Nat /\ Len(batch) \in Nat /\ k < Len(batch)
    BY <1>a, <1>8 DEF ShellOK, SpawnBuild
  <2>2. pc = "build" /\ pc' = "build" /\ batch' = batch /\ k' = k + 1
        /\ dir' = dir /\ cut' = cut
    BY <1>8 DEF SpawnBuild, files
  <2>a. k + 1 \in Nat /\ k + 1 <= Len(batch) BY <2>1
  <2>b. \A v : Among(v, batch, k + 1, Len(batch)) <=>
                 Among(v, batch, (k + 1) + 1, Len(batch)) \/ v = w
    BY <2>1, <2>a, AmongFirst
  <2>3. \A v : Among(v, batch, k + 1, Len(batch)) <=>
                 Among(v, batch', k' + 1, Len(batch')) \/ v = w
    BY <2>2, <2>b
  <2>4. \/ w \in dir /\ job' = [job EXCEPT ![w] = "build"]
        \/ w \notin dir /\ job' = job
    BY <1>8 DEF SpawnBuild
  <2> HIDE DEF w
  <2>5. \A v \in Url : \/ job'[v] = job[v] \/ v = w
    BY <1>a, <2>1, <2>4 DEF JobOK
  <2>6. w \in dir => job'[w] \in Building
    BY <1>a, <2>1, <2>4 DEF JobOK, Building
  <2> QED BY <1>a, <2>2, <2>3, <2>5, <2>6 DEF DirInv, FileOK
<1>9. CASE BuildBarrier
  <2>1. Len(batch) \in Nat /\ k = Len(batch)
    BY <1>a, <1>9 DEF ShellOK, BuildBarrier
  <2>2. \A v : ~Among(v, batch, k + 1, Len(batch))
    BY <2>1, AmongNone
  <2>3. \A v \in Url : job[v] \notin Building
    BY <1>9 DEF BuildBarrier, Running, Building
  <2> QED BY <1>a, <1>9, <2>2, <2>3 DEF DirInv, FileOK, BuildBarrier, files
<1>10. CASE Tick
  BY <1>a, <1>10 DEF ShellOK, JobOK, FileOK, JobInv, DirInv, Cloning, Building,
    Running, shell, files, Tick
<1>11. CASE Crash
  BY <1>a, <1>11 DEF ShellOK, JobOK, FileOK, JobInv, DirInv, Cloning, Building,
    Running, Crash
<1>12. ASSUME NEW u \in Url, Job(u) PROVE DirInv'
  <2>1. Move(u) BY <1>a, <1>12, JobMoves
  <2>2. /\ pc' = pc /\ batch' = batch /\ k' = k /\ cut' = cut
        /\ \A v \in Url : v # u => job'[v] = job[v]
    BY <1>a, <2>1 DEF Move, shell, JobOK
  <2>3. dir' \subseteq dir \cup {u} /\ (u \in dir' => u \in dir \/ job[u] = "git")
    BY <2>1 DEF Move
  <2>4. CASE pc = "clone"
    <3>1. Among(u, batch, 1, k)
      BY <2>1 DEF JobInv, Move, Cloning, Building
    <3> QED BY <2>2, <2>3, <2>4, <3>1 DEF DirInv
  <2>5. CASE pc = "build"
    <3>1. job[u] \in Building /\ job[u] # "git"
      BY <2>1, <2>5 DEF JobInv, Move, Cloning, Building
    <3>2. u \in dir' => job'[u] \in Building
      BY <2>1, <3>1 DEF Move, Cloning, Building
    <3> QED BY <1>a, <2>2, <2>3, <2>5, <3>1, <3>2 DEF DirInv, FileOK
  <2> QED BY <2>1, <2>4, <2>5 DEF JobInv, Move, Cloning, Building
<1>13. CASE UNCHANGED vars
  BY <1>a, <1>13 DEF ShellOK, JobOK, FileOK, JobInv, DirInv, Cloning, Building,
    Running, shell, local, limiter, files, vars
<1> QED
  BY <1>1, <1>2, <1>3, <1>4, <1>5, <1>6, <1>7, <1>8, <1>9, <1>10, <1>11, <1>12, <1>13
    DEF Next, Shell

\* Every line looked at is in the progress file or in the batch, and every URL
\* of the batch is in the file or has a job that will write it.
RecInv ==
  /\ pc # "off" => ~ended
  /\ pc = "fill" => k = 0
  /\ pc \in {"fill", "clone"} => \A i \in 1..pos :
       List[i] \in progress \/ Among(List[i], batch, 1, Len(batch))
  /\ pc = "clone" => \A u \in Url : Among(u, batch, 1, k) =>
       u \in progress \/ job[u] \notin {"none", "count"}
  /\ pc = "build" => \A i \in 1..pos : List[i] \in progress
  /\ ended /\ pc = "off" => \A i \in 1..Len(List) : List[i] \in progress
  /\ \A u \in Url : job[u] = "count" => u \in progress

\* No URL is lost between the list, the batch, its job and the progress file.
LEMMA RecStep ==
  ASSUME TypeInv, JobInv, RecInv, [Next]_vars
  PROVE  RecInv'
<1> USE ConstantFacts
<1>a. ShellOK /\ JobOK /\ FileOK BY DEF TypeInv
<1>1. CASE Start
  <2>1. pc' = "fill" /\ ~ended' /\ pos' = 0 /\ k' = 0 /\ UNCHANGED <<job, progress>>
    BY <1>1 DEF Start
  <2>2. 1..pos' = {} BY <2>1
  <2> QED BY <2>1, <2>2 DEF RecInv
<1>2. CASE AddUrl
  <2> DEFINE w == List[pos + 1]
  <2>1. w \in Url /\ pos \in Nat /\ batch \in Seq(Url) /\ Len(batch) \in Nat
    BY <1>a, <1>2 DEF ShellOK, AddUrl
  <2>2. /\ pc = "fill" /\ pc' \in {"fill", "clone"} /\ pos' = pos + 1
        /\ batch' = Append(batch, w) /\ k' = k
        /\ UNCHANGED <<ended, progress, job>>
    BY <1>2 DEF AddUrl, files
  <2>3. Len(batch') = Len(batch) + 1 BY <2>1, <2>2
  <2>4. \A v : Among(v, batch', 1, Len(batch')) <=>
                 Among(v, batch, 1, Len(batch)) \/ v = w
    BY <2>1, <2>2, <2>3, AmongAppend
  <2>5. k = 0 /\ ~ended BY <2>2 DEF RecInv
  <2>6. \A v : ~Among(v, batch', 1, k') BY <2>2, <2>5, AmongNone
  <2>7. \A i \in 1..pos' : i \in 1..pos \/ i = pos + 1 BY <2>1, <2>2
  <2>8. \A i \in 1..pos' : \/ List[i] \in progress'
                          \/ Among(List[i], batch', 1, Len(batch'))
    BY <2>2, <2>4, <2>7 DEF RecInv
  <2> QED BY <2>2, <2>5, <2>6, <2>8 DEF RecInv
<1>3. CASE SkipUrl
  <2>1. /\ pc = "fill" /\ pos' = pos + 1 /\ List[pos + 1] \in progress
        /\ UNCHANGED <<pc, ended, batch, k, job, progress>>
    BY <1>3 DEF SkipUrl, files
  <2>2. \A i \in 1..pos' : i \in 1..pos \/ i = pos + 1 BY <1>a, <2>1 DEF ShellOK
  <2> QED BY <2>1, <2>2 DEF RecInv
<1>4. CASE LastBatch
  <2>1. k = 0 BY <1>4 DEF LastBatch, RecInv
  <2>2. \A v : ~Among(v, batch, 1, k) BY <2>1, AmongNone
  <2> QED BY <1>a, <1>4, <2>2 DEF RecInv, LastBatch, files
<1>5. CASE Finish
  <2>1. Len(batch) = 0 BY <1>5 DEF Finish
  <2>2. \A v : ~Among(v, batch, 1, Len(batch)) BY <2>1, AmongNone
  <2> QED BY <1>a, <1>5, <2>2 DEF RecInv, ShellOK, Finish, files
<1>6. CASE SpawnClone
  <2> DEFINE w == batch[k + 1]
  <2>1. w \in Url /\ k \in Nat
    BY <1>a, <1>6 DEF ShellOK, SpawnClone
  <2>2. pc = "clone" /\ UNCHANGED <<pc, ended, pos, batch, progress>> /\ k' = k + 1
        /\ job' = [job EXCEPT ![w] = "enforce"]
    BY <1>6 DEF SpawnClone, files
  <2>3. \A v : Among(v, batch', 1, k') <=> Among(v, batch, 1, k) \/ v = w
    BY <2>1, <2>2, AmongLast
  <2> HIDE DEF w
  <2>4. /\ job'[w] = "enforce"
        /\ \A v \in Url : v # w => job'[v] = job[v]
    BY <1>a, <2>1, <2>2 DEF JobOK
  <2> QED BY <2>2, <2>3, <2>4 DEF RecInv
<1>7. CASE CloneBarrier
  <2>1. k = Len(batch) /\ pc = "clone" /\ pc' = "build" BY <1>7 DEF CloneBarrier
  <2>2. UNCHANGED <<ended, pos, progress, job>> BY <1>7 DEF CloneBarrier, files
  <2>3. \A v \in Url : job[v] = "none" BY <1>7 DEF CloneBarrier, Running
  <2>4. \A i \in 1..pos : List[i] \in progress
    BY <1>a, <2>1, <2>3 DEF RecInv, ShellOK
  <2> QED BY <2>1, <2>2, <2>4 DEF RecInv
<1>8. CASE SpawnBuild
  <2> DEFINE w == batch[k + 1]
  <2>1. w \in Url BY <1>a, <1>8 DEF ShellOK, SpawnBuild
  <2>2. pc = "build" /\ UNCHANGED <<pc, ended, pos, batch, progress>>
    BY <1>8 DEF SpawnBuild, files
  <2>3. job' = [job EXCEPT ![w] = "build"] \/ job' = job BY <1>8 DEF SpawnBuild
  <2> HIDE DEF w
  <2>4. \A v \in Url : job'[v] = job[v] \/ job'[v] = "build"
    BY <1>a, <2>1, <2>3 DEF JobOK
  <2> QED BY <2>2, <2>4 DEF RecInv
<1>9. CASE BuildBarrier
  BY <1>a, <1>9 DEF ShellOK, JobOK, FileOK, JobInv, RecInv, Cloning, Building,
    Running, local, limiter, files, BuildBarrier
<1>10. CASE Tick
  BY <1>a, <1>10 DEF ShellOK, JobOK, FileOK, JobInv, RecInv, Cloning, Building,
    Running, shell, files, Tick
<1>11. CASE Crash
  BY <1>a, <1>11 DEF ShellOK, JobOK, FileOK, JobInv, RecInv, Cloning, Building,
    Running, Crash
<1>12. ASSUME NEW u \in Url, Job(u) PROVE RecInv'
  <2>1. Move(u) BY <1>a, <1>12, JobMoves
  <2>2. /\ UNCHANGED <<pc, ended, pos, batch, k>>
        /\ \A v \in Url : v # u => job'[v] = job[v]
    BY <1>a, <2>1 DEF Move, shell, JobOK
  <2>3. progress \subseteq progress' /\ (job'[u] = "count" => u \in progress')
    BY <2>1 DEF Move
  <2>4. pc = "clone" /\ job'[u] = "none" => u \in progress
    BY <2>1 DEF RecInv, JobInv, Move, Cloning, Building
  <2> QED BY <2>2, <2>3, <2>4 DEF RecInv
<1>13. CASE UNCHANGED vars
  BY <1>a, <1>13 DEF ShellOK, JobOK, FileOK, JobInv, RecInv, Cloning, Building,
    Running, shell, local, limiter, files, vars
<1> QED
  BY <1>1, <1>2, <1>3, <1>4, <1>5, <1>6, <1>7, <1>8, <1>9, <1>10, <1>11, <1>12, <1>13
    DEF Next, Shell

LEMMA SaidGrows ==
  ASSUME NEW u \in Url, NEW m, log' = log \cup {<<m, u>>}, NEW x
  PROVE  Said(x)' = IF x = m THEN Said(x) \cup {u} ELSE Said(x)
<1>1. \A v \in Url : <<x, v>> \in log' <=> <<x, v>> \in log \/ (x = m /\ v = u)
  OBVIOUS
<1> QED BY <1>1 DEF Said

\* A cloned package has a line on its build, a directory, or was cut off.
LogInv ==
  /\ Said("clone success") \subseteq
       Said("build success") \cup Said("build failed") \cup cut \cup dir
  /\ \A u \in Url : job[u] = "copy" => u \in Said("build success")

\* A directory is only removed with a line on its build.
LEMMA LogInvStep ==
  ASSUME TypeInv, LogInv, [Next]_vars
  PROVE  LogInv'
<1>a. ShellOK /\ JobOK /\ FileOK BY DEF TypeInv
<1>1. CASE Start
  BY <1>a, <1>1 DEF ShellOK, JobOK, FileOK, LogInv, Said, local, limiter, Start
<1>2. CASE AddUrl
  BY <1>a, <1>2 DEF ShellOK, JobOK, FileOK, LogInv, Said, local, limiter, files,
    AddUrl
<1>3. CASE SkipUrl
  BY <1>a, <1>3 DEF ShellOK, JobOK, FileOK, LogInv, Said, local, limiter, files,
    SkipUrl
<1>4. CASE LastBatch
  BY <1>a, <1>4 DEF ShellOK, JobOK, FileOK, LogInv, Said, local, limiter, files,
    LastBatch
<1>5. CASE Finish
  BY <1>a, <1>5 DEF ShellOK, JobOK, FileOK, LogInv, Said, local, limiter, files,
    Finish
<1>6. CASE SpawnClone
  BY <1>a, <1>6 DEF ShellOK, JobOK, FileOK, LogInv, Said, files, SpawnClone
<1>7. CASE CloneBarrier
  BY <1>a, <1>7 DEF ShellOK, JobOK, FileOK, LogInv, Said, local, limiter, files,
    CloneBarrier
<1>8. CASE SpawnBuild
  BY <1>a, <1>8 DEF ShellOK, JobOK, FileOK, LogInv, Said, local, limiter, files,
    SpawnBuild
<1>9. CASE BuildBarrier
  BY <1>a, <1>9 DEF ShellOK, JobOK, FileOK, LogInv, Said, local, limiter, files,
    BuildBarrier
<1>10. CASE Tick
  BY <1>a, <1>10 DEF ShellOK, JobOK, FileOK, LogInv, Said, shell, files, Tick
<1>11. CASE Crash
  BY <1>a, <1>11 DEF ShellOK, JobOK, FileOK, LogInv, Said, Crash
<1>12. ASSUME NEW u \in Url, Enforce(u) PROVE LogInv'
  BY <1>a, <1>12 DEF ShellOK, JobOK, FileOK, LogInv, Said, shell, limiter, files,
    Enforce
<1>13. ASSUME NEW u \in Url, Reset(u) PROVE LogInv'
  BY <1>a, <1>13 DEF ShellOK, JobOK, FileOK, LogInv, Said, shell, files, Reset
<1>14. ASSUME NEW u \in Url, CloneOk(u) PROVE LogInv'
  <2>1. log' = log \cup {<<"clone success", u>>} /\ job' = [job EXCEPT ![u] = "record"]
    BY <1>14, LoggedFacts DEF CloneOk
  <2>2. /\ Said("clone success")' = Said("clone success") \cup {u}
        /\ Said("build success")' = Said("build success")
        /\ Said("build failed")' = Said("build failed")
    BY <2>1, SaidGrows
  <2>3. dir' = dir \cup {u} /\ cut' = cut BY <1>14 DEF CloneOk
  <2> QED BY <1>a, <2>1, <2>2, <2>3 DEF LogInv, JobOK
<1>15. ASSUME NEW u \in Url, CloneFails(u) PROVE LogInv'
  <2>1. log' = log \cup {<<"clone failed", u>>} /\ job' = [job EXCEPT ![u] = "record"]
    BY <1>15, LoggedFacts DEF CloneFails
  <2>2. /\ Said("clone success")' = Said("clone success")
        /\ Said("build success")' = Said("build success")
        /\ Said("build failed")' = Said("build failed")
    BY <2>1, SaidGrows
  <2> QED BY <1>a, <1>15, <2>1, <2>2 DEF LogInv, JobOK, CloneFails
<1>16. ASSUME NEW u \in Url, CloneRetry(u) PROVE LogInv'
  BY <1>a, <1>16 DEF ShellOK, JobOK, FileOK, LogInv, Said, shell, files, CloneRetry
<1>17. ASSUME NEW u \in Url, RetryAfter(u) PROVE LogInv'
  BY <1>a, <1>17 DEF ShellOK, JobOK, FileOK, LogInv, Said, shell, local, limiter,
    files, RetryAfter
<1>18. ASSUME NEW u \in Url, CloneGivesUp(u) PROVE LogInv'
  <2>1. /\ log' = log \cup {<<"clone failed (rate limit)", u>>}
        /\ job' = [job EXCEPT ![u] = "record"]
    BY <1>18, LoggedFacts DEF CloneGivesUp
  <2>2. /\ Said("clone success")' = Said("clone success")
        /\ Said("build success")' = Said("build success")
        /\ Said("build failed")' = Said("build failed")
    BY <2>1, SaidGrows
  <2>3. dir' = dir /\ cut' = cut BY <1>18 DEF CloneGivesUp
  <2> QED BY <1>a, <2>1, <2>2, <2>3 DEF LogInv, JobOK
<1>19. ASSUME NEW u \in Url, CloneHangs(u) PROVE LogInv'
  BY <1>a, <1>19 DEF ShellOK, JobOK, FileOK, LogInv, Said, shell, local, limiter,
    files, CloneHangs
<1>20. ASSUME NEW u \in Url, Record(u) PROVE LogInv'
  BY <1>a, <1>20 DEF ShellOK, JobOK, FileOK, LogInv, Said, shell, local, limiter,
    Record
<1>21. ASSUME NEW u \in Url, Count(u) PROVE LogInv'
  BY <1>a, <1>21 DEF ShellOK, JobOK, FileOK, LogInv, Said, shell, local, files, Count
<1>22. ASSUME NEW u \in Url, BuildOk(u) PROVE LogInv'
  <2>1. log' = log \cup {<<"build success", u>>} /\ job' = [job EXCEPT ![u] = "copy"]
    BY <1>22 DEF BuildOk
  <2>2. /\ Said("clone success")' = Said("clone success")
        /\ Said("build success")' = Said("build success") \cup {u}
        /\ Said("build failed")' = Said("build failed")
    BY <2>1, SaidGrows
  <2>3. dir' = dir /\ cut' = cut BY <1>22 DEF BuildOk
  <2> QED BY <1>a, <2>1, <2>2, <2>3 DEF LogInv, JobOK
<1>23. ASSUME NEW u \in Url, CopyElf(u) PROVE LogInv'
  BY <1>a, <1>23 DEF ShellOK, JobOK, FileOK, LogInv, Said, shell, limiter, CopyElf
<1>24. ASSUME NEW u \in Url, CleanUp(u) PROVE LogInv'
  BY <1>a, <1>24 DEF ShellOK, JobOK, FileOK, LogInv, Said, shell, local, limiter,
    CleanUp
<1>25. ASSUME NEW u \in Url, BuildFails(u) PROVE LogInv'
  <2>1. log' = log \cup {<<"build failed", u>>} /\ job' = [job EXCEPT ![u] = "none"]
    BY <1>25 DEF BuildFails
  <2>2. /\ Said("clone success")' = Said("clone success")
        /\ Said("build success")' = Said("build success")
        /\ Said("build failed")' = Said("build failed") \cup {u}
    BY <2>1, SaidGrows
  <2>3. dir' = dir \ {u} /\ cut' = cut BY <1>25 DEF BuildFails
  <2> QED BY <1>a, <2>1, <2>2, <2>3 DEF LogInv, JobOK
<1>26. ASSUME NEW u \in Url, BuildHangs(u) PROVE LogInv'
  BY <1>a, <1>26 DEF ShellOK, JobOK, FileOK, LogInv, Said, shell, local, limiter,
    files, BuildHangs
<1>27. CASE UNCHANGED vars
  BY <1>a, <1>27 DEF ShellOK, JobOK, FileOK, LogInv, Said, shell, local, limiter,
    files, vars
<1> QED
  BY <1>1, <1>2, <1>3, <1>4, <1>5, <1>6, <1>7, <1>8, <1>9, <1>10, <1>11, <1>12, <1>13,
    <1>14, <1>15, <1>16, <1>17, <1>18, <1>19, <1>20, <1>21, <1>22, <1>23, <1>24,
    <1>25, <1>26, <1>27 DEF Next, Shell, Job

Inv == TypeInv /\ JobInv /\ DirInv /\ LogInv /\ RecInv

LEMMA InvCorrect == Spec => []Inv
<1>1. Init => Inv
  <2> SUFFICES ASSUME Init PROVE Inv
    OBVIOUS
  <2>1. TypeInv BY TypeInit
  <2>2. JobInv BY DEF Init, JobInv
  <2>3. DirInv BY DEF Init, DirInv
  <2>4. LogInv BY DEF Init, LogInv, Said
  <2>5. RecInv BY DEF Init, RecInv
  <2> QED BY <2>1, <2>2, <2>3, <2>4, <2>5 DEF Inv
<1>2. Inv /\ [Next]_vars => Inv'
  BY TypeStep, JobInvStep, DirStep, LogInvStep, RecStep DEF Inv
<1> QED BY <1>1, <1>2, PTL DEF Spec

\* The barriers lose no package: only a crash leaves a directory behind, and only
\* a package whose directory a crash has left can be cloned and never built.
THEOREM DirectoriesAndLog == Spec => []OnlyCrashHides
<1>1. Inv => OnlyCrashHides
  BY DEF Inv, DirInv, LogInv, OnlyCrashHides
<1> QED BY <1>1, InvCorrect, PTL

\* A session that reaches its summary has recorded every URL of its list.
THEOREM EveryUrlRecorded == Spec => []AllRecorded
<1>1. Inv => AllRecorded
  BY DEF Inv, RecInv, AllRecorded
<1> QED BY <1>1, InvCorrect, PTL

-----------------------------------------------------------------------------
\* The states of a clone job that has read the counter and not logged its clone.
InGit == {"git", "git hangs", "wait"}

\* As long as the clones come one after the other, the counter in the file or,
\* from the reading of the file to the write, the job's own one misses none.
RateInv == alone =>
  /\ \A u, v \in Url : job[u] \in Cloning /\ job[v] \in Cloning => u = v
  /\ \A u \in Url : u \in over \/ job[u] = "reset" => stale
  /\ \A u \in Url : job[u] \in InGit => started <= cnt[u] /\ cnt[u] < RateLimit
  /\ \A u \in Url : job[u] \in {"record", "count"} =>
       started <= cnt[u] + 1 /\ cnt[u] < RateLimit
  /\ (\A u \in Url : job[u] \notin InGit \cup {"record", "count"}) =>
       started <= counter /\ counter <= RateLimit

LEMMA NotCloning == {"none", "build", "build hangs", "copy"} \cap Cloning = {}
BY DEF Cloning

\* Steps of build jobs and of the main shell.
LEMMA RateFrame ==
  ASSUME RateInv, UNCHANGED <<cnt, over, counter, stale, started, alone>>,
         \A v \in Url : \/ job'[v] = job[v]
                        \/ job[v] \notin Cloning /\ job'[v] \notin Cloning
  PROVE  RateInv'
<1>1. InGit \cup {"reset", "record", "count"} \subseteq Cloning BY DEF InGit, Cloning
<1>2. \A v \in Url : job[v] \in Cloning \/ job'[v] \in Cloning => job'[v] = job[v]
  OBVIOUS
<1>3. \A v \in Url : /\ job'[v] \in InGit <=> job[v] \in InGit
                     /\ job'[v] \in {"record", "count"} <=> job[v] \in {"record", "count"}
                     /\ job'[v] = "reset" <=> job[v] = "reset"
                     /\ job'[v] \in Cloning <=> job[v] \in Cloning
  BY <1>1, <1>2
<1> QED BY <1>3 DEF RateInv

\* The other jobs, while there is one lone clone job.
LEMMA RateOthers ==
  ASSUME JobOK, RateInv, alone, NEW u \in Url, job[u] \in Cloning, NEW x,
         job' = [job EXCEPT ![u] = x]
  PROVE  /\ job'[u] = x
         /\ \A v \in Url : v # u => job'[v] \notin Cloning
BY DEF JobOK, RateInv

\* What a step of a lone clone job has to ensure.
LEMMA RateLone ==
  ASSUME NEW u \in Url,
         \A v \in Url : v # u => job'[v] \notin Cloning,
         job'[u] = "reset" => stale',
         \A v \in Url : v \in over' => stale',
         job'[u] \in InGit => started' <= cnt'[u] /\ cnt'[u] < RateLimit,
         job'[u] \in {"record", "count"} =>
           started' <= cnt'[u] + 1 /\ cnt'[u] < RateLimit,
         job'[u] \notin InGit \cup {"record", "count"} =>
           started' <= counter' /\ counter' <= RateLimit
  PROVE  RateInv'
<1>1. InGit \cup {"reset", "record", "count"} \subseteq Cloning BY DEF InGit, Cloning
<1>2. \A v \in Url : v # u => job'[v] \notin InGit \cup {"reset", "record", "count"}
  BY <1>1
<1>3. \A v, w \in Url : job'[v] \in Cloning /\ job'[w] \in Cloning => v = w
  OBVIOUS
<1> QED BY <1>2, <1>3 DEF RateInv

\* A lone clone leaves a counter that misses none.
LEMMA RateStep ==
  ASSUME TypeInv, JobInv, RateInv, [Next]_vars
  PROVE  RateInv'
<1> USE ConstantFacts
<1>a. ShellOK /\ JobOK /\ FileOK BY DEF TypeInv
<1>1. CASE Start
  BY <1>a, <1>1 DEF JobOK, RateInv, InGit, Cloning, Building, local, limiter, Start
<1>2. CASE AddUrl
  BY <1>a, <1>2 DEF JobOK, RateInv, InGit, Cloning, Building, local, limiter, files,
    AddUrl
<1>3. CASE SkipUrl
  BY <1>a, <1>3 DEF JobOK, RateInv, InGit, Cloning, Building, local, limiter, files,
    SkipUrl
<1>4. CASE LastBatch
  BY <1>a, <1>4 DEF JobOK, RateInv, InGit, Cloning, Building, local, limiter, files,
    LastBatch
<1>5. CASE Finish
  BY <1>a, <1>5 DEF JobOK, RateInv, InGit, Cloning, Building, local, limiter, files,
    Finish
<1>6. CASE SpawnClone
  <2> SUFFICES ASSUME alone' PROVE RateInv'
    BY DEF RateInv
  <2> DEFINE b == batch[k + 1]
  <2>a. b \in Url BY <1>a, <1>6 DEF SpawnClone, ShellOK
  <2>b. alone /\ \A v \in Url : job[v] = "none" BY <1>6 DEF SpawnClone, Running
  <2>1. alone /\ b \in Url /\ \A v \in Url : job[v] = "none" BY <2>a, <2>b
  <2>2. job' = [job EXCEPT ![b] = "enforce"]
        /\ UNCHANGED <<cnt, over, counter, stale, started>>
    BY <1>6 DEF SpawnClone
  <2> HIDE DEF b
  <2>3. job'[b] = "enforce" /\ \A v \in Url : v # b => job'[v] \notin Cloning
    BY <1>a, <2>1, <2>2, NotCloning DEF JobOK
  <2>4. /\ started <= counter /\ counter <= RateLimit
        /\ \A v \in Url : v \in over => stale
    BY <2>1 DEF RateInv, InGit
  <2>5. job'[b] \notin InGit /\ job'[b] # "reset" BY <2>3 DEF InGit
  <2> QED BY <2>1, <2>2, <2>3, <2>4, <2>5, RateLone
<1>7. CASE CloneBarrier
  BY <1>a, <1>7 DEF JobOK, RateInv, InGit, Cloning, Building, local, limiter, files,
    CloneBarrier
<1>8. CASE SpawnBuild
  <2>1. UNCHANGED limiter /\ UNCHANGED local BY <1>8 DEF SpawnBuild
  <2>2. \A v \in Url : job'[v] = job[v] \/ (job[v] \notin Cloning /\ job'[v] = "build")
    <3>1. batch[k + 1] \in Url BY <1>a, <1>8 DEF ShellOK, SpawnBuild
    <3>2. pc = "build" BY <1>8 DEF SpawnBuild
    <3>3. \A v \in Url : job[v] \notin Cloning
      BY <3>2, NotCloning DEF JobInv, Building
    <3> QED BY <1>a, <1>8, <3>1, <3>3 DEF JobOK, SpawnBuild
  <2>3. \A v \in Url : \/ job'[v] = job[v]
                       \/ job[v] \notin Cloning /\ job'[v] \notin Cloning
    BY <2>2, NotCloning
  <2> QED BY <2>1, <2>3, RateFrame DEF limiter, local
<1>9. CASE BuildBarrier
  BY <1>a, <1>9 DEF JobOK, RateInv, InGit, Cloning, Building, local, limiter, files,
    BuildBarrier
<1>10. CASE Tick
  BY <1>a, <1>10 DEF JobOK, RateInv, InGit, Cloning, Building, shell, files, Tick
<1>11. CASE Crash
  BY <1>11 DEF Crash, RateInv
<1>12. ASSUME NEW u \in Url, Enforce(u) PROVE RateInv'
  <2> SUFFICES ASSUME alone' PROVE RateInv'
    BY DEF RateInv
  <2>1. /\ job[u] = "enforce" /\ cnt' = [cnt EXCEPT ![u] = counter]
        /\ UNCHANGED <<over, counter, stale, started, alone>>
    BY <1>12 DEF Enforce, limiter
  <2>2. PICK x \in {"reset", "sleep", "git"} :
          /\ job' = [job EXCEPT ![u] = x]
          /\ x = "reset" => stale
          /\ x = "git" => ~(counter >= RateLimit)
    BY <1>12 DEF Enforce
  <2>3. alone /\ job[u] \in Cloning BY <2>1 DEF Cloning
  <2>4. job'[u] = x /\ \A v \in Url : v # u => job'[v] \notin Cloning
    BY <1>a, <2>2, <2>3, RateOthers
  <2>5. \A v \in Url : job[v] \notin InGit \cup {"record", "count"}
    BY <2>1, <2>3 DEF RateInv, InGit, Cloning
  <2>6. started <= counter /\ counter <= RateLimit /\ counter \in Nat
    BY <1>a, <2>3, <2>5 DEF RateInv, JobOK
  <2>7. cnt'[u] = counter BY <1>a, <2>1 DEF JobOK
  <2>8. \A v \in Url : v \in over => stale BY <2>3 DEF RateInv
  <2>9. job'[u] \in InGit => job'[u] = "git" BY <2>4 DEF InGit
  <2> QED BY <2>1, <2>2, <2>4, <2>6, <2>7, <2>8, <2>9, RateLone
<1>13. ASSUME NEW u \in Url, Reset(u) PROVE RateInv'
  <2> SUFFICES ASSUME alone' PROVE RateInv'
    BY DEF RateInv
  <2>1. stale /\ Running = {u}
    BY <1>13 DEF Reset, RateInv
  <2>2. /\ cnt' = [cnt EXCEPT ![u] = 0] /\ job' = [job EXCEPT ![u] = "git"]
        /\ over' = {v \in Url : job[v] = "sleep"} \ {u}
        /\ started' = 0
    BY <1>13, <2>1 DEF Reset
  <2>3. \A v \in Url : v # u => job'[v] = "none"
    BY <1>a, <2>1, <2>2 DEF Running, JobOK
  <2>4. over' = {} BY <2>1, <2>2 DEF Running
  <2>5. job'[u] = "git" /\ cnt'[u] = 0 /\ started' = 0
    BY <1>a, <2>2 DEF JobOK
  <2>6. \A v \in Url : v # u => job'[v] \notin Cloning BY <2>3, NotCloning
  <2>7. job'[u] \in InGit BY <2>5 DEF InGit
  <2>8. started' <= cnt'[u] /\ cnt'[u] < RateLimit BY <2>5
  <2>9. \A v \in Url : v \in over' => stale' BY <2>4
  <2> QED BY <2>5, <2>6, <2>7, <2>8, <2>9, RateLone
<1>14. ASSUME NEW u \in Url, CloneOk(u) PROVE RateInv'
  <2> SUFFICES ASSUME alone' PROVE RateInv'
    BY DEF RateInv
  <2>1. /\ job[u] = "git" /\ job' = [job EXCEPT ![u] = "record"]
        /\ UNCHANGED <<cnt, over, counter, stale, alone>> /\ started' = started + 1
    BY <1>14, LoggedFacts DEF CloneOk, local, limiter
  <2>2. alone /\ job[u] \in Cloning BY <2>1 DEF Cloning
  <2>3. job'[u] = "record" /\ \A v \in Url : v # u => job'[v] \notin Cloning
    BY <1>a, <2>1, <2>2, RateOthers
  <2>4. started <= cnt[u] /\ cnt[u] < RateLimit /\ cnt[u] \in Nat /\ started \in Nat
    BY <1>a, <2>1, <2>2 DEF RateInv, InGit, JobOK
  <2>5. \A v \in Url : v \in over => stale BY <2>2 DEF RateInv
  <2>6. job'[u] \notin InGit /\ job'[u] # "reset" BY <2>3 DEF InGit
  <2> QED BY <2>1, <2>3, <2>4, <2>5, <2>6, RateLone
<1>15. ASSUME NEW u \in Url, CloneFails(u) PROVE RateInv'
  <2> SUFFICES ASSUME alone' PROVE RateInv'
    BY DEF RateInv
  <2>1. /\ job[u] = "git" /\ job' = [job EXCEPT ![u] = "record"]
        /\ UNCHANGED <<cnt, over, counter, stale, alone>> /\ started' = started + 1
    BY <1>15, LoggedFacts DEF CloneFails, local, limiter
  <2>2. alone /\ job[u] \in Cloning BY <2>1 DEF Cloning
  <2>3. job'[u] = "record" /\ \A v \in Url : v # u => job'[v] \notin Cloning
    BY <1>a, <2>1, <2>2, RateOthers
  <2>4. started <= cnt[u] /\ cnt[u] < RateLimit /\ cnt[u] \in Nat /\ started \in Nat
    BY <1>a, <2>1, <2>2 DEF RateInv, InGit, JobOK
  <2>5. \A v \in Url : v \in over => stale BY <2>2 DEF RateInv
  <2>6. job'[u] \notin InGit /\ job'[u] # "reset" BY <2>3 DEF InGit
  <2> QED BY <2>1, <2>3, <2>4, <2>5, <2>6, RateLone
<1>16. ASSUME NEW u \in Url, CloneRetry(u) PROVE RateInv'
  BY <1>16 DEF CloneRetry, RateInv
<1>17. ASSUME NEW u \in Url, RetryAfter(u) PROVE RateInv'
  <2> SUFFICES ASSUME alone' PROVE RateInv'
    BY DEF RateInv
  <2>1. /\ job[u] = "wait" /\ job' = [job EXCEPT ![u] = "git"]
        /\ UNCHANGED <<cnt, over, counter, stale, alone>> /\ started' = started
    BY <1>17 DEF RetryAfter, local, limiter
  <2>2. alone /\ job[u] \in Cloning BY <2>1 DEF Cloning
  <2>3. job'[u] = "git" /\ \A v \in Url : v # u => job'[v] \notin Cloning
    BY <1>a, <2>1, <2>2, RateOthers
  <2>4. started <= cnt[u] /\ cnt[u] < RateLimit /\ cnt[u] \in Nat /\ started \in Nat
    BY <1>a, <2>1, <2>2 DEF RateInv, InGit, JobOK
  <2>5. \A v \in Url : v \in over => stale BY <2>2 DEF RateInv
  <2>6. job'[u] \in InGit BY <2>3 DEF InGit
  <2> QED BY <2>1, <2>3, <2>4, <2>5, <2>6, RateLone
<1>18. ASSUME NEW u \in Url, CloneGivesUp(u) PROVE RateInv'
  <2> SUFFICES ASSUME alone' PROVE RateInv'
    BY DEF RateInv
  <2>1. /\ job[u] = "git" /\ job' = [job EXCEPT ![u] = "record"]
        /\ UNCHANGED <<cnt, over, counter, stale, alone>> /\ started' = started + 1
    BY <1>18, LoggedFacts DEF CloneGivesUp, local, limiter
  <2>2. alone /\ job[u] \in Cloning BY <2>1 DEF Cloning
  <2>3. job'[u] = "record" /\ \A v \in Url : v # u => job'[v] \notin Cloning
    BY <1>a, <2>1, <2>2, RateOthers
  <2>4. started <= cnt[u] /\ cnt[u] < RateLimit /\ cnt[u] \in Nat /\ started \in Nat
    BY <1>a, <2>1, <2>2 DEF RateInv, InGit, JobOK
  <2>5. \A v \in Url : v \in over => stale BY <2>2 DEF RateInv
  <2>6. job'[u] \notin InGit /\ job'[u] # "reset" BY <2>3 DEF InGit
  <2> QED BY <2>1, <2>3, <2>4, <2>5, <2>6, RateLone
<1>19. ASSUME NEW u \in Url, CloneHangs(u) PROVE RateInv'
  <2> SUFFICES ASSUME alone' PROVE RateInv'
    BY DEF RateInv
  <2>1. /\ job[u] = "git" /\ job' = [job EXCEPT ![u] = "git hangs"]
        /\ UNCHANGED <<cnt, over, counter, stale, alone>> /\ started' = started
    BY <1>19 DEF CloneHangs, local, limiter
  <2>2. alone /\ job[u] \in Cloning BY <2>1 DEF Cloning
  <2>3. job'[u] = "git hangs" /\ \A v \in Url : v # u => job'[v] \notin Cloning
    BY <1>a, <2>1, <2>2, RateOthers
  <2>4. started <= cnt[u] /\ cnt[u] < RateLimit /\ cnt[u] \in Nat /\ started \in Nat
    BY <1>a, <2>1, <2>2 DEF RateInv, InGit, JobOK
  <2>5. \A v \in Url : v \in over => stale BY <2>2 DEF RateInv
  <2>6. job'[u] \in InGit BY <2>3 DEF InGit
  <2> QED BY <2>1, <2>3, <2>4, <2>5, <2>6, RateLone
<1>20. ASSUME NEW u \in Url, Record(u) PROVE RateInv'
  <2> SUFFICES ASSUME alone' PROVE RateInv'
    BY DEF RateInv
  <2>1. /\ job[u] = "record" /\ job' = [job EXCEPT ![u] = "count"]
        /\ UNCHANGED <<cnt, over, counter, stale, alone>> /\ started' = started
    BY <1>20 DEF Record, local, limiter
  <2>2. alone /\ job[u] \in Cloning BY <2>1 DEF Cloning
  <2>3. job'[u] = "count" /\ \A v \in Url : v # u => job'[v] \notin Cloning
    BY <1>a, <2>1, <2>2, RateOthers
  <2>4. started <= cnt[u] + 1 /\ cnt[u] < RateLimit
    BY <1>a, <2>1, <2>2 DEF RateInv, InGit, JobOK
  <2>5. \A v \in Url : v \in over => stale BY <2>2 DEF RateInv
  <2>6. job'[u] \notin InGit /\ job'[u] # "reset" BY <2>3 DEF InGit
  <2> QED BY <2>1, <2>3, <2>4, <2>5, <2>6, RateLone
<1>21. ASSUME NEW u \in Url, Count(u) PROVE RateInv'
  <2> SUFFICES ASSUME alone' PROVE RateInv'
    BY DEF RateInv
  <2>1. /\ job[u] = "count" /\ job' = [job EXCEPT ![u] = "none"]
        /\ counter' = cnt[u] + 1 /\ UNCHANGED <<cnt, over, stale, started, alone>>
    BY <1>21 DEF Count, local
  <2>2. alone /\ job[u] \in Cloning BY <2>1 DEF Cloning
  <2>3. job'[u] = "none" /\ \A v \in Url : v # u => job'[v] \notin Cloning
    BY <1>a, <2>1, <2>2, RateOthers
  <2>4. started <= cnt[u] + 1 /\ cnt[u] < RateLimit /\ cnt[u] \in Nat
    BY <1>a, <2>1, <2>2 DEF RateInv, JobOK
  <2>5. \A v \in Url : v \in over => stale BY <2>2 DEF RateInv
  <2>6. cnt[u] + 1 <= RateLimit BY <2>4
  <2>7. job'[u] \notin InGit /\ job'[u] # "reset" BY <2>3 DEF InGit
  <2>8. stale' = stale /\ over' = over /\ counter' = cnt[u] + 1 /\ started' = started
    BY <2>1
  <2>9. started' <= counter' /\ counter' <= RateLimit BY <2>4, <2>6, <2>8
  <2> QED BY <2>3, <2>5, <2>7, <2>8, <2>9, RateLone
<1>22. ASSUME NEW u \in Url, BuildOk(u) PROVE RateInv'
  <2>1. UNCHANGED <<cnt, over, counter, stale, started, alone>>
    BY <1>22 DEF BuildOk, local, limiter
  <2>2. \A v \in Url : job'[v] = job[v] \/ (job[v] = "build" /\ job'[v] = "copy")
    BY <1>a, <1>22 DEF BuildOk, JobOK
  <2>3. \A v \in Url : \/ job'[v] = job[v]
                       \/ job[v] \notin Cloning /\ job'[v] \notin Cloning
    BY <2>2, NotCloning
  <2> QED BY <2>1, <2>3, RateFrame
<1>23. ASSUME NEW u \in Url, CopyElf(u) PROVE RateInv'
  BY <1>a, <1>23 DEF JobOK, RateInv, InGit, Cloning, Building, shell, limiter, CopyElf
<1>24. ASSUME NEW u \in Url, CleanUp(u) PROVE RateInv'
  <2>1. UNCHANGED <<cnt, over, counter, stale, started, alone>>
    BY <1>24 DEF CleanUp, local, limiter
  <2>2. \A v \in Url : job'[v] = job[v] \/ (job[v] = "copy" /\ job'[v] = "none")
    BY <1>a, <1>24 DEF CleanUp, JobOK
  <2>3. \A v \in Url : \/ job'[v] = job[v]
                       \/ job[v] \notin Cloning /\ job'[v] \notin Cloning
    BY <2>2, NotCloning
  <2> QED BY <2>1, <2>3, RateFrame
<1>25. ASSUME NEW u \in Url, BuildFails(u) PROVE RateInv'
  <2>1. UNCHANGED <<cnt, over, counter, stale, started, alone>>
    BY <1>25 DEF BuildFails, local, limiter
  <2>2. \A v \in Url : job'[v] = job[v] \/ (job[v] = "build" /\ job'[v] = "none")
    BY <1>a, <1>25 DEF BuildFails, JobOK
  <2>3. \A v \in Url : \/ job'[v] = job[v]
                       \/ job[v] \notin Cloning /\ job'[v] \notin Cloning
    BY <2>2, NotCloning
  <2> QED BY <2>1, <2>3, RateFrame
<1>26. ASSUME NEW u \in Url, BuildHangs(u) PROVE RateInv'
  <2>1. UNCHANGED <<cnt, over, counter, stale, started, alone>>
    BY <1>26 DEF BuildHangs, local, limiter
  <2>2. \A v \in Url : job'[v] = job[v] \/ (job[v] = "build" /\ job'[v] = "build hangs")
    BY <1>a, <1>26 DEF BuildHangs, JobOK
  <2>3. \A v \in Url : \/ job'[v] = job[v]
                       \/ job[v] \notin Cloning /\ job'[v] \notin Cloning
    BY <2>2, NotCloning
  <2> QED BY <2>1, <2>3, RateFrame
<1>27. CASE UNCHANGED vars
  BY <1>a, <1>27 DEF JobOK, RateInv, InGit, Cloning, Building, shell, local, limiter,
    files, vars
<1> QED
  BY <1>1, <1>2, <1>3, <1>4, <1>5, <1>6, <1>7, <1>8, <1>9, <1>10, <1>11, <1>12, <1>13,
    <1>14, <1>15, <1>16, <1>17, <1>18, <1>19, <1>20, <1>21, <1>22, <1>23, <1>24,
    <1>25, <1>26, <1>27 DEF Next, Shell, Job

\* CLONE_RATE_LIMIT holds as long as the clones come one after the other.
THEOREM RateLimitKept == Spec => []RateKept
<1>1. Init => RateInv
  BY ConstantFacts DEF Init, RateInv, InGit, Cloning
<1>2. Inv /\ RateInv /\ [Next]_vars => RateInv'
  BY RateStep DEF Inv
<1>3. Inv /\ RateInv => RateKept
  <2> SUFFICES ASSUME Inv, RateInv, alone PROVE started <= RateLimit
    BY DEF RateKept
  <2>1. JobOK BY DEF Inv, TypeInv
  <2>2. CASE \E u \in Url : job[u] \in InGit \cup {"record", "count"}
    BY <2>1, <2>2, ConstantFacts DEF RateInv, JobOK
  <2>3. CASE \A u \in Url : job[u] \notin InGit \cup {"record", "count"}
    BY <2>1, <2>3, ConstantFacts DEF RateInv, JobOK
  <2> QED BY <2>2, <2>3
<1> QED BY <1>1, <1>2, <1>3, InvCorrect, PTL DEF Spec

-----------------------------------------------------------------------------
\* A set of natural numbers that is not empty has a least element.
LEMMA LeastNat ==
  ASSUME NEW T \in SUBSET Nat, T # {}
  PROVE  \E i \in T : \A j \in T : i <= j
<1>1. PICK i \in T : \A j \in T : <<j, i>> \notin OpToRel(<, Nat)
  BY NatLessThanWellFounded, WFMin
<1>2. i \in T /\ \A j \in T : ~(j < i)
  BY <1>1 DEF OpToRel
<1> QED BY <1>2

\* The loop that looks for a free name finds one: of the names with the suffixes
\* 1 to n + 1 one is not taken when n names are.
LEMMA FreeNameIsFree ==
  ASSUME NEW u \in Url, NEW name \in Seq(Int), IsFiniteSet(DOMAIN elf[u])
  PROVE  FreeName(u, name) \notin DOMAIN elf[u]
<1> DEFINE taken == DOMAIN elf[u]
           n == Cardinality(taken)
           Good(i) == /\ Append(name, i) \notin taken
                      /\ \A j \in 1..(i - 1) : Append(name, j) \in taken
<1>1. n \in Nat BY FS_CardinalityType
<1>2. \E i \in 1..(n + 1) : Append(name, i) \notin taken
  <2> SUFFICES ASSUME \A i \in 1..(n + 1) : Append(name, i) \in taken PROVE FALSE
    OBVIOUS
  <2> DEFINE f == [i \in 1..(n + 1) |-> Append(name, i)]
  <2>1. f \in Injection(1..(n + 1), taken)
    <3>1. f \in [1..(n + 1) -> taken] OBVIOUS
    <3>2. ASSUME NEW i \in 1..(n + 1), NEW j \in 1..(n + 1), f[i] = f[j] PROVE i = j
      <4>1. i \in Int /\ j \in Int /\ Append(name, i) = Append(name, j)
        BY <1>1, <3>2
      <4> QED BY <4>1, AppendInjective
    <3> QED BY <3>1, <3>2 DEF Injection, IsInjective
  <2>2. IsFiniteSet(1..(n + 1)) /\ Cardinality(1..(n + 1)) = n + 1
    <3>1. \A q \in Nat : IsFiniteSet(1..(q + 1)) /\ Cardinality(1..(q + 1)) = q + 1
      BY FS_Interval
    <3> QED BY <1>1, <3>1
  <2>3. n + 1 <= n
    BY <2>1, <2>2, FS_Injection
  <2> QED BY <1>1, <2>3
<1>3. \E i \in 1..(n + 1) : Good(i)
  <2> DEFINE T == {i \in 1..(n + 1) : Append(name, i) \notin taken}
  <2>1. PICK i \in T : \A j \in T : i <= j
    <3>1. T \in SUBSET Nat /\ T # {} BY <1>1, <1>2
    <3> QED BY <3>1, LeastNat
  <2>2. \A j \in 1..(i - 1) : Append(name, j) \in taken
    BY <1>1, <2>1
  <2> QED BY <2>1, <2>2
<1>4. name \in taken =>
        FreeName(u, name) = Append(name, CHOOSE i \in 1..(n + 1) : Good(i))
  BY DEF FreeName
<1>5. name \notin taken => FreeName(u, name) = name
  BY DEF FreeName
<1>6. Good(CHOOSE i \in 1..(n + 1) : Good(i))
  BY <1>3
<1> QED BY <1>4, <1>5, <1>6

\* The output directories are finite, and what is copied is in the map.
ElfInv ==
  /\ \A u \in Url : IsFiniteSet(DOMAIN elf[u])
  /\ \A u \in Url : job[u] = "copy" =>
       \A e \in 1..copied[u] : \E line \in map : line.package = u /\ line.exe = e
  /\ ElfMapExact

\* The steps that leave the outputs and the map alone.
LEMMA ElfFrame ==
  ASSUME ElfInv, UNCHANGED <<elf, map, built, copied>>,
         \A v \in Url : job'[v] = "copy" => job[v] = "copy"
  PROVE  ElfInv'
BY DEF ElfInv, ElfMapExact

\* No copy replaces another one, and every copy is in the map.
LEMMA ElfInvStep ==
  ASSUME TypeInv, JobInv, ElfInv, [Next]_vars
  PROVE  ElfInv'
<1> USE ConstantFacts
<1>a. ShellOK /\ JobOK /\ FileOK /\ ElfOK BY DEF TypeInv
<1>1. CASE Start
  BY <1>a, <1>1 DEF ShellOK, JobOK, FileOK, ElfOK, JobInv, ElfInv, ElfMapExact, local,
    limiter, Start
<1>2. CASE AddUrl
  <2>1. \A v \in Url : job'[v] = "copy" => job[v] = "copy"
    BY <1>a, <1>2 DEF JobOK, AddUrl
  <2> QED BY <1>2, <2>1, ElfFrame DEF AddUrl, local, files
<1>3. CASE SkipUrl
  <2>1. \A v \in Url : job'[v] = "copy" => job[v] = "copy"
    BY <1>a, <1>3 DEF JobOK, SkipUrl
  <2> QED BY <1>3, <2>1, ElfFrame DEF SkipUrl, local, files
<1>4. CASE LastBatch
  <2>1. \A v \in Url : job'[v] = "copy" => job[v] = "copy"
    BY <1>a, <1>4 DEF JobOK, LastBatch
  <2> QED BY <1>4, <2>1, ElfFrame DEF LastBatch, local, files
<1>5. CASE Finish
  <2>1. \A v \in Url : job'[v] = "copy" => job[v] = "copy"
    BY <1>a, <1>5 DEF JobOK, Finish
  <2> QED BY <1>5, <2>1, ElfFrame DEF Finish, local, files
<1>6. CASE SpawnClone
  <2>1. \A v \in Url : job'[v] = "copy" => job[v] = "copy"
    BY <1>a, <1>6 DEF JobOK, ShellOK, SpawnClone
  <2> QED BY <1>6, <2>1, ElfFrame DEF SpawnClone, files
<1>7. CASE CloneBarrier
  <2>1. \A v \in Url : job'[v] = "copy" => job[v] = "copy"
    BY <1>a, <1>7 DEF JobOK, CloneBarrier
  <2> QED BY <1>7, <2>1, ElfFrame DEF CloneBarrier, local, files
<1>8. CASE SpawnBuild
  <2>1. \A v \in Url : job'[v] = "copy" => job[v] = "copy"
    BY <1>a, <1>8 DEF JobOK, ShellOK, SpawnBuild
  <2> QED BY <1>8, <2>1, ElfFrame DEF SpawnBuild, local, files
<1>9. CASE BuildBarrier
  <2>1. \A v \in Url : job'[v] = "copy" => job[v] = "copy"
    BY <1>a, <1>9 DEF JobOK, BuildBarrier
  <2> QED BY <1>9, <2>1, ElfFrame DEF BuildBarrier, local, files
<1>10. CASE Tick
  <2>1. \A v \in Url : job'[v] = "copy" => job[v] = "copy"
    BY <1>a, <1>10 DEF JobOK, Tick
  <2> QED BY <1>10, <2>1, ElfFrame DEF Tick, files
<1>11. CASE Crash
  <2>1. \A v \in Url : job'[v] = "copy" => job[v] = "copy"
    BY <1>a, <1>11 DEF JobOK, Crash
  <2> QED BY <1>11, <2>1, ElfFrame DEF Crash
<1>12. ASSUME NEW u \in Url, Enforce(u) PROVE ElfInv'
  <2>1. \A v \in Url : job'[v] = "copy" => job[v] = "copy"
    BY <1>a, <1>12 DEF JobOK, Enforce
  <2> QED BY <1>12, <2>1, ElfFrame DEF Enforce, files
<1>13. ASSUME NEW u \in Url, Reset(u) PROVE ElfInv'
  <2>1. \A v \in Url : job'[v] = "copy" => job[v] = "copy"
    BY <1>a, <1>13 DEF JobOK, Reset
  <2> QED BY <1>13, <2>1, ElfFrame DEF Reset, files
<1>14. ASSUME NEW u \in Url, CloneOk(u) PROVE ElfInv'
  <2>1. job' = [job EXCEPT ![u] = "record"] BY <1>14, LoggedFacts DEF CloneOk
  <2>2. \A v \in Url : job'[v] = "copy" => job[v] = "copy" BY <1>a, <2>1 DEF JobOK
  <2> QED BY <1>14, <2>2, ElfFrame DEF CloneOk, local
<1>15. ASSUME NEW u \in Url, CloneFails(u) PROVE ElfInv'
  <2>1. job' = [job EXCEPT ![u] = "record"] BY <1>15, LoggedFacts DEF CloneFails
  <2>2. \A v \in Url : job'[v] = "copy" => job[v] = "copy" BY <1>a, <2>1 DEF JobOK
  <2> QED BY <1>15, <2>2, ElfFrame DEF CloneFails, local
<1>16. ASSUME NEW u \in Url, CloneRetry(u) PROVE ElfInv'
  <2>1. \A v \in Url : job'[v] = "copy" => job[v] = "copy"
    BY <1>a, <1>16 DEF JobOK, CloneRetry
  <2> QED BY <1>16, <2>1, ElfFrame DEF CloneRetry, files
<1>17. ASSUME NEW u \in Url, RetryAfter(u) PROVE ElfInv'
  <2>1. \A v \in Url : job'[v] = "copy" => job[v] = "copy"
    BY <1>a, <1>17 DEF JobOK, RetryAfter
  <2> QED BY <1>17, <2>1, ElfFrame DEF RetryAfter, local, files
<1>18. ASSUME NEW u \in Url, CloneGivesUp(u) PROVE ElfInv'
  <2>1. job' = [job EXCEPT ![u] = "record"] BY <1>18, LoggedFacts DEF CloneGivesUp
  <2>2. \A v \in Url : job'[v] = "copy" => job[v] = "copy" BY <1>a, <2>1 DEF JobOK
  <2> QED BY <1>18, <2>2, ElfFrame DEF CloneGivesUp, local
<1>19. ASSUME NEW u \in Url, CloneHangs(u) PROVE ElfInv'
  <2>1. \A v \in Url : job'[v] = "copy" => job[v] = "copy"
    BY <1>a, <1>19 DEF JobOK, CloneHangs
  <2> QED BY <1>19, <2>1, ElfFrame DEF CloneHangs, local, files
<1>20. ASSUME NEW u \in Url, Record(u) PROVE ElfInv'
  <2>1. \A v \in Url : job'[v] = "copy" => job[v] = "copy"
    BY <1>a, <1>20 DEF JobOK, Record
  <2> QED BY <1>20, <2>1, ElfFrame DEF Record, local
<1>21. ASSUME NEW u \in Url, Count(u) PROVE ElfInv'
  <2>1. \A v \in Url : job'[v] = "copy" => job[v] = "copy"
    BY <1>a, <1>21 DEF JobOK, Count
  <2> QED BY <1>21, <2>1, ElfFrame DEF Count, local, files
<1>22. ASSUME NEW u \in Url, BuildOk(u) PROVE ElfInv'
  <2>1. copied' = [copied EXCEPT ![u] = 0] /\ job' = [job EXCEPT ![u] = "copy"]
    BY <1>22 DEF BuildOk
  <2>2. UNCHANGED <<elf, map, built>> BY <1>22 DEF BuildOk
  <2>3. ElfMapExact' BY <2>2 DEF ElfInv, ElfMapExact
  <2>4. 1..copied'[u] = {} BY <1>a, <2>1 DEF JobOK
  <2>5. \A v \in Url : v # u => copied'[v] = copied[v] /\ job'[v] = job[v]
    BY <1>a, <2>1 DEF JobOK
  <2>6. ASSUME NEW v \in Url, job'[v] = "copy", NEW e \in 1..copied'[v]
        PROVE  \E line \in map' : line.package = v /\ line.exe = e
    BY <2>2, <2>4, <2>5, <2>6 DEF ElfInv
  <2> QED BY <2>2, <2>3, <2>6 DEF ElfInv
<1>23. ASSUME NEW u \in Url, CopyElf(u) PROVE ElfInv'
  <2> DEFINE e == copied[u] + 1
             dest == FreeName(u, Exe[u][e])
             new == [package |-> u, exe |-> e, dest |-> dest]
  <2>1. e \in 1..Len(Exe[u]) BY <1>a, <1>23 DEF CopyElf, JobOK
  <2>2. elf' = [elf EXCEPT ![u] = [n \in DOMAIN elf[u] \cup {dest} |->
                                    IF n = dest THEN e ELSE elf[u][n]]]
    BY <1>23 DEF CopyElf
  <2>3. /\ map' = map \cup {new} /\ copied' = [copied EXCEPT ![u] = e]
        /\ UNCHANGED <<job, built>>
    BY <1>23 DEF CopyElf
  <2>4. dest \notin DOMAIN elf[u]
    <3>1. Exe[u][e] \in Seq(Int) BY <2>1, ListAssumption
    <3> QED BY <3>1, FreeNameIsFree DEF ElfInv
  <2>5. new.package = u /\ new.exe = e /\ new.dest = dest OBVIOUS
  <2> HIDE DEF e, dest, new
  <2>6. /\ DOMAIN elf'[u] = DOMAIN elf[u] \cup {dest}
        /\ elf'[u][dest] = e
        /\ \A n \in DOMAIN elf[u] : elf'[u][n] = elf[u][n]
        /\ \A v \in Url : v # u => elf'[v] = elf[v]
    BY <1>a, <2>2, <2>4 DEF ElfOK
  <2>7. \A v \in Url : IsFiniteSet(DOMAIN elf'[v])
    BY <2>6, FS_AddElement DEF ElfInv
  <2>8. ASSUME NEW line \in map'
        PROVE  /\ line.dest \in DOMAIN elf'[line.package]
               /\ elf'[line.package][line.dest] = line.exe
    <3>1. CASE line = new
      BY <2>5, <2>6, <3>1
    <3>2. CASE line \in map
      <4>1. /\ line.package \in Url /\ line.dest \in DOMAIN elf[line.package]
            /\ elf[line.package][line.dest] = line.exe
        BY <1>a, <3>2 DEF ElfInv, ElfMapExact, ElfOK
      <4> QED BY <2>6, <4>1
    <3> QED BY <2>3, <3>1, <3>2
  <2>9. \A v \in Url : \A d : (\E line \in map : line.package = v /\ line.exe = d) =>
                          \E line \in map' : line.package = v /\ line.exe = d
    BY <2>3
  <2>10. \E line \in map' : line.package = u /\ line.exe = e
    BY <2>3, <2>5
  <2>11. ASSUME NEW v \in Url, job'[v] = "copy", NEW d \in 1..copied'[v]
         PROVE  \E line \in map' : line.package = v /\ line.exe = d
    <3>1. CASE v = u /\ d = e
      BY <2>10, <3>1
    <3>2. CASE v # u \/ d # e
      <4>1. d \in 1..copied[v] BY <1>a, <2>1, <2>3, <2>11, <3>2 DEF JobOK, e
      <4> QED BY <2>3, <2>9, <2>11, <4>1 DEF ElfInv
    <3> QED BY <3>1, <3>2
  <2>12. \A v \in built' : \A d \in 1..Len(Exe[v]) :
           \E line \in map' : line.package = v /\ line.exe = d
    BY <1>a, <2>3, <2>9 DEF ElfInv, ElfMapExact, FileOK
  <2> QED BY <2>7, <2>8, <2>11, <2>12 DEF ElfInv, ElfMapExact
<1>24. ASSUME NEW u \in Url, CleanUp(u) PROVE ElfInv'
  <2>1. /\ job[u] = "copy" /\ copied[u] = Len(Exe[u])
        /\ built' = built \cup {u} /\ UNCHANGED <<elf, map, copied>>
        /\ job' = [job EXCEPT ![u] = "none"]
    BY <1>24 DEF CleanUp, local
  <2>2. \A v \in Url : job'[v] = "copy" => job[v] = "copy" BY <1>a, <2>1 DEF JobOK
  <2>3. \A e \in 1..Len(Exe[u]) : \E line \in map : line.package = u /\ line.exe = e
    BY <2>1 DEF ElfInv
  <2>4. ElfMapExact' BY <2>1, <2>3 DEF ElfInv, ElfMapExact
  <2> QED BY <2>1, <2>2, <2>4 DEF ElfInv
<1>25. ASSUME NEW u \in Url, BuildFails(u) PROVE ElfInv'
  <2>1. \A v \in Url : job'[v] = "copy" => job[v] = "copy"
    BY <1>a, <1>25 DEF JobOK, BuildFails
  <2> QED BY <1>25, <2>1, ElfFrame DEF BuildFails, local
<1>26. ASSUME NEW u \in Url, BuildHangs(u) PROVE ElfInv'
  <2>1. \A v \in Url : job'[v] = "copy" => job[v] = "copy"
    BY <1>a, <1>26 DEF JobOK, BuildHangs
  <2> QED BY <1>26, <2>1, ElfFrame DEF BuildHangs, local, files
<1>27. CASE UNCHANGED vars
  <2>1. UNCHANGED <<job, copied, elf, map, built>> BY <1>27 DEF vars, local, files
  <2> QED BY <2>1, ElfFrame
<1> QED
  BY <1>1, <1>2, <1>3, <1>4, <1>5, <1>6, <1>7, <1>8, <1>9, <1>10, <1>11, <1>12, <1>13,
    <1>14, <1>15, <1>16, <1>17, <1>18, <1>19, <1>20, <1>21, <1>22, <1>23, <1>24,
    <1>25, <1>26, <1>27 DEF Next, Shell, Job

\* elf_map.txt is exact: no line of it is made false by a later copy, and no
\* ELF file of a package that was built is missing.
THEOREM ElfMapCorrect == Spec => []ElfMapExact
<1>1. Init => ElfInv
  BY FS_EmptySet DEF Init, ElfInv, ElfMapExact
<1>2. Inv /\ ElfInv /\ [Next]_vars => ElfInv'
  BY ElfInvStep DEF Inv
<1>3. ElfInv => ElfMapExact
  BY DEF ElfInv
<1> QED BY <1>1, <1>2, <1>3, InvCorrect, PTL DEF Spec
=============================================================================
