------------------------ MODULE CollectDynamicProofs ------------------------
(***************************************************************************)
(* Proofs about collect_dynamic.sh, for every list of URLs, every number   *)
(* of sessions and every combination of the faults.                        *)
(***************************************************************************)
EXTENDS CollectDynamic, TLAPS

\* A package is being processed.
Active == pc \notin {"off", "read"}

\* The steps during which current_source_dir is set.
Held == Makepkg \cup {"collect", "restore", "hung"}

\* Each line of the list has failed at most once in a session.
CountInv ==
  /\ pc = "read" => failures <= pos
  /\ Active => failures < pos

TypeInv == TypeOK /\ CountInv

\* The lines of the list are URLs.
LEMMA ListFacts ==
  /\ Len(List) \in Nat
  /\ \A i \in 1..Len(List) : List[i] \in Url
BY ListAssumption

\* The URL and the package that are being processed.
LEMMA CurFacts ==
  ASSUME TypeOK, Active
  PROVE  cur \in 1..Len(List) /\ CurUrl \in Url /\ P \in Pkg
BY ListAssumption, ListFacts DEF TypeOK, Active, CurUrl, P

\* restore_current_package keeps the types.
LEMMA RestoreCurrentType ==
  ASSUME TypeOK, RestoreCurrent
  PROVE  current' = {} /\ exe' \in [Pkg -> Exe] /\ orig' \subseteq Pkg
BY DEF TypeOK, RestoreCurrent, Restored, Exe, tree

LEMMA LinkedType ==
  ASSUME TypeOK, P \in Pkg, Linked
  PROVE  exe' \in [Pkg -> Exe]
BY DEF TypeOK, Linked, Exe

LEMMA CutShortType ==
  ASSUME TypeOK, CutShort
  PROVE  exe' \in [Pkg -> Exe] /\ orig' \subseteq Pkg
<1>1. CASE UNCHANGED tree
  BY <1>1 DEF TypeOK, tree
<1>2. CASE exe' = [exe EXCEPT ![P] = "none"] /\ orig' = orig \cup {P} /\ Active
  BY <1>2, CurFacts DEF TypeOK, Exe
<1>3. CASE HalfRestored /\ Active
  BY <1>3, CurFacts DEF TypeOK, Exe, HalfRestored
<1> QED BY <1>1, <1>2, <1>3 DEF CutShort, HalfRestored, Active

\* Every step keeps the types and the count of failures.
LEMMA TypeStep ==
  ASSUME TypeInv, [Next]_vars
  PROVE  TypeInv'
<1> USE ListFacts, SessionAssumption
<1>a. TypeOK /\ CountInv BY DEF TypeInv
<1>b. Active => cur \in 1..Len(List) /\ CurUrl \in Url /\ P \in Pkg
  BY <1>a, CurFacts
<1>1. CASE ReadUrl
  BY <1>a, <1>b, <1>1 DEF TypeInv, TypeOK, CountInv, Active, Step, Makepkg, Go, place, checkout, tree, results, files, ReadUrl
<1>2. CASE SkipUrl
  BY <1>a, <1>b, <1>2 DEF TypeInv, TypeOK, CountInv, Active, Step, Makepkg, Go, place, checkout, tree, results, files, SkipUrl
<1>3. CASE Finish
  BY <1>a, <1>b, <1>3 DEF TypeInv, TypeOK, CountInv, Active, Step, Makepkg, Go, place, checkout, tree, results, files, Finish
<1>4. CASE CloneSkip
  BY <1>a, <1>b, <1>4 DEF TypeInv, TypeOK, CountInv, Active, Step, Makepkg, Go, place, checkout, tree, results, files, CloneSkip
<1>5. CASE CloneOk
  BY <1>a, <1>b, <1>5 DEF TypeInv, TypeOK, CountInv, Active, Step, Makepkg, Go, place, checkout, tree, results, files, CloneOk
<1>6. CASE CloneFails
  BY <1>a, <1>b, <1>6 DEF TypeInv, TypeOK, CountInv, Active, Step, Makepkg, Go, place, checkout, tree, results, files, CloneFails
<1>7. CASE NoPkgbuild
  BY <1>a, <1>b, <1>7 DEF TypeInv, TypeOK, CountInv, Active, Step, Makepkg, Go, place, checkout, tree, results, files, NoPkgbuild
<1>8. CASE Build
  BY <1>a, <1>b, <1>8, LinkedType DEF TypeInv, TypeOK, CountInv, Active, Step, Makepkg, Go, place, checkout, tree, results, files, Build
<1>9. CASE BuildFails
  BY <1>a, <1>b, <1>9, LinkedType DEF TypeInv, TypeOK, CountInv, Active, Step, Makepkg, Go, place, checkout, tree, results, files, BuildFails
<1>10. CASE NoSrcDir
  BY <1>a, <1>b, <1>10 DEF TypeInv, TypeOK, CountInv, Active, Step, Makepkg, Go, place, checkout, tree, results, files, NoSrcDir
<1>11. CASE Prepare
  BY <1>a, <1>b, <1>11 DEF TypeInv, TypeOK, CountInv, Active, Step, Makepkg, Go, place, checkout, tree, results, files, Prepare
<1>12. CASE Rebuild
  BY <1>a, <1>b, <1>12, LinkedType DEF TypeInv, TypeOK, CountInv, Active, Step, Makepkg, Go, place, checkout, tree, results, files, Rebuild
<1>13. CASE NoCheck
  BY <1>a, <1>b, <1>13, LinkedType DEF TypeInv, TypeOK, CountInv, Active, Step, Makepkg, Go, place, checkout, tree, results, files, NoCheck
<1>14. CASE Wrap
  BY <1>a, <1>b, <1>14 DEF TypeInv, TypeOK, CountInv, Active, Step, Makepkg, Go, place, checkout, tree, results, files, Wrap, Exe, Wrappable
<1>15. CASE RunTests
  BY <1>a, <1>b, <1>15 DEF TypeInv, TypeOK, CountInv, Active, Step, Makepkg, Go, place, checkout, tree, results, files, RunTests
<1>16. CASE RunOtherTests
  BY <1>a, <1>b, <1>16 DEF TypeInv, TypeOK, CountInv, Active, Step, Makepkg, Go, place, checkout, tree, results, files, RunOtherTests
<1>17. CASE Unwrap
  BY <1>a, <1>b, <1>17 DEF TypeInv, TypeOK, CountInv, Active, Step, Makepkg, Go, place, checkout, tree, results, files, Unwrap, Restored, Exe
<1>18. CASE TestTimeout
  BY <1>a, <1>b, <1>18, CutShortType DEF TypeInv, TypeOK, CountInv, Active, Step, Makepkg, Go, place, checkout, tree, results, files, TestTimeout
<1>19. CASE Collect
  BY <1>a, <1>b, <1>19 DEF TypeInv, TypeOK, CountInv, Active, Step, Makepkg, Go, place, checkout, tree, results, files, Collect
<1>20. CASE Restore
  BY <1>a, <1>b, <1>20, RestoreCurrentType DEF TypeInv, TypeOK, CountInv, Active, Step, Makepkg, Go, place, checkout, tree, results, files, Restore
<1>21. CASE NothingRan
  BY <1>a, <1>b, <1>21 DEF TypeInv, TypeOK, CountInv, Active, Step, Makepkg, Go, place, checkout, tree, results, files, NothingRan
<1>22. CASE MarkProcessed
  BY <1>a, <1>b, <1>22 DEF TypeInv, TypeOK, CountInv, Active, Step, Makepkg, Go, place, checkout, tree, results, files, MarkProcessed
<1>23. CASE Fail
  BY <1>a, <1>b, <1>23, RestoreCurrentType DEF TypeInv, TypeOK, CountInv, Active, Step, Makepkg, Go, place, checkout, tree, results, files, Fail, FailRecording
<1>24. CASE Start
  BY <1>a, <1>b, <1>24 DEF TypeInv, TypeOK, CountInv, Active, Step, Makepkg, Go, place, checkout, tree, results, files, Start
<1>25. CASE TestHangs
  BY <1>a, <1>b, <1>25 DEF TypeInv, TypeOK, CountInv, Active, Step, Makepkg, Go, place, checkout, tree, results, files, TestHangs
<1>26. CASE Interrupt
  BY <1>a, <1>b, <1>26, RestoreCurrentType DEF TypeInv, TypeOK, CountInv, Active, Step, Makepkg, Go, place, checkout, tree, results, files, Interrupt, Exe, HalfRestored
<1>27. CASE Crash
  BY <1>a, <1>b, <1>27, CutShortType DEF TypeInv, TypeOK, CountInv, Active, Step, Makepkg, Go, place, checkout, tree, results, files, Crash
<1>28. CASE UNCHANGED vars
  BY <1>a, <1>28 DEF vars, TypeInv, TypeOK, CountInv, Active, Step, Makepkg, Go, place, checkout, tree, results, files
<1>29. CASE Errexit
  BY <1>a, <1>b, <1>29, RestoreCurrentType DEF TypeInv, TypeOK, CountInv, Active, Step, Makepkg, Go, place, checkout, tree, results, files, Errexit
<1> QED
  BY <1>1, <1>2, <1>3, <1>4, <1>5, <1>6, <1>7, <1>8, <1>9, <1>10, <1>11, <1>12, <1>13, <1>14, <1>15, <1>16, <1>17, <1>18, <1>19, <1>20, <1>21, <1>22, <1>23, <1>24, <1>25, <1>26, <1>27, <1>28, <1>29 DEF Next, Bounded, Unbounded

\* Type correctness.
THEOREM TypeCorrect == Spec => []TypeOK
<1>1. Init => TypeInv
  BY ListFacts, SessionAssumption DEF Init, TypeInv, TypeOK, CountInv, Active, Step, Exe
<1>2. TypeInv /\ [Next]_vars => TypeInv'
  BY TypeStep
<1> QED BY <1>1, <1>2, PTL DEF Spec, TypeInv

-----------------------------------------------------------------------------
\* current_source_dir is set exactly from the truncation of the log to the
\* restore, and names the package that is being processed.
CurrentInv == current = IF pc \in Held THEN {P} ELSE {}

LEMMA CurrentStep ==
  ASSUME TypeInv, CurrentInv, [Next]_vars
  PROVE  CurrentInv'
<1>a. TypeOK /\ (Active => cur \in 1..Len(List) /\ CurUrl \in Url /\ P \in Pkg)
  BY CurFacts DEF TypeInv
<1>b. current = IF pc \in Held THEN {P} ELSE {}
  BY DEF CurrentInv
<1>1. CASE ReadUrl
  BY <1>a, <1>b, <1>1 DEF CurrentInv, Held, Makepkg, Active, P, CurUrl, Go, place, checkout, tree, results, files, ReadUrl
<1>2. CASE SkipUrl
  BY <1>a, <1>b, <1>2 DEF CurrentInv, Held, Makepkg, Active, P, CurUrl, Go, place, checkout, tree, results, files, SkipUrl
<1>3. CASE Finish
  BY <1>a, <1>b, <1>3 DEF CurrentInv, Held, Makepkg, Active, P, CurUrl, Go, place, checkout, tree, results, files, Finish
<1>4. CASE CloneSkip
  BY <1>a, <1>b, <1>4 DEF CurrentInv, Held, Makepkg, Active, P, CurUrl, Go, place, checkout, tree, results, files, CloneSkip
<1>5. CASE CloneOk
  BY <1>a, <1>b, <1>5 DEF CurrentInv, Held, Makepkg, Active, P, CurUrl, Go, place, checkout, tree, results, files, CloneOk
<1>6. CASE CloneFails
  BY <1>a, <1>b, <1>6 DEF CurrentInv, Held, Makepkg, Active, P, CurUrl, Go, place, checkout, tree, results, files, CloneFails
<1>7. CASE NoPkgbuild
  BY <1>a, <1>b, <1>7 DEF CurrentInv, Held, Makepkg, Active, P, CurUrl, Go, place, checkout, tree, results, files, NoPkgbuild
<1>8. CASE Build
  BY <1>a, <1>b, <1>8 DEF CurrentInv, Held, Makepkg, Active, P, CurUrl, Go, place, checkout, tree, results, files, Build, Linked
<1>9. CASE BuildFails
  BY <1>a, <1>b, <1>9 DEF CurrentInv, Held, Makepkg, Active, P, CurUrl, Go, place, checkout, tree, results, files, BuildFails, Linked
<1>10. CASE NoSrcDir
  BY <1>a, <1>b, <1>10 DEF CurrentInv, Held, Makepkg, Active, P, CurUrl, Go, place, checkout, tree, results, files, NoSrcDir
<1>11. CASE Prepare
  BY <1>a, <1>b, <1>11 DEF CurrentInv, Held, Makepkg, Active, P, CurUrl, Go, place, checkout, tree, results, files, Prepare
<1>12. CASE Rebuild
  BY <1>a, <1>b, <1>12 DEF CurrentInv, Held, Makepkg, Active, P, CurUrl, Go, place, checkout, tree, results, files, Rebuild, Linked
<1>13. CASE NoCheck
  BY <1>a, <1>b, <1>13 DEF CurrentInv, Held, Makepkg, Active, P, CurUrl, Go, place, checkout, tree, results, files, NoCheck, Linked
<1>14. CASE Wrap
  BY <1>a, <1>b, <1>14 DEF CurrentInv, Held, Makepkg, Active, P, CurUrl, Go, place, checkout, tree, results, files, Wrap, Wrappable
<1>15. CASE RunTests
  BY <1>a, <1>b, <1>15 DEF CurrentInv, Held, Makepkg, Active, P, CurUrl, Go, place, checkout, tree, results, files, RunTests
<1>16. CASE RunOtherTests
  BY <1>a, <1>b, <1>16 DEF CurrentInv, Held, Makepkg, Active, P, CurUrl, Go, place, checkout, tree, results, files, RunOtherTests
<1>17. CASE Unwrap
  BY <1>a, <1>b, <1>17 DEF CurrentInv, Held, Makepkg, Active, P, CurUrl, Go, place, checkout, tree, results, files, Unwrap, Restored
<1>18. CASE TestTimeout
  BY <1>a, <1>b, <1>18 DEF CurrentInv, Held, Makepkg, Active, P, CurUrl, Go, place, checkout, tree, results, files, TestTimeout, CutShort, HalfRestored
<1>19. CASE Collect
  BY <1>a, <1>b, <1>19 DEF CurrentInv, Held, Makepkg, Active, P, CurUrl, Go, place, checkout, tree, results, files, Collect
<1>20. CASE Restore
  BY <1>a, <1>b, <1>20 DEF CurrentInv, Held, Makepkg, Active, P, CurUrl, Go, place, checkout, tree, results, files, Restore, RestoreCurrent, Restored
<1>21. CASE NothingRan
  BY <1>a, <1>b, <1>21 DEF CurrentInv, Held, Makepkg, Active, P, CurUrl, Go, place, checkout, tree, results, files, NothingRan
<1>22. CASE MarkProcessed
  BY <1>a, <1>b, <1>22 DEF CurrentInv, Held, Makepkg, Active, P, CurUrl, Go, place, checkout, tree, results, files, MarkProcessed
<1>23. CASE Fail
  BY <1>a, <1>b, <1>23 DEF CurrentInv, Held, Makepkg, Active, P, CurUrl, Go, place, checkout, tree, results, files, Fail, FailRecording, RestoreCurrent, Restored
<1>24. CASE Start
  BY <1>a, <1>b, <1>24 DEF CurrentInv, Held, Makepkg, Active, P, CurUrl, Go, place, checkout, tree, results, files, Start
<1>25. CASE TestHangs
  BY <1>a, <1>b, <1>25 DEF CurrentInv, Held, Makepkg, Active, P, CurUrl, Go, place, checkout, tree, results, files, TestHangs
<1>26. CASE Interrupt
  BY <1>a, <1>b, <1>26 DEF CurrentInv, Held, Makepkg, Active, P, CurUrl, Go, place, checkout, tree, results, files, Interrupt, RestoreCurrent, Restored, HalfRestored
<1>27. CASE Crash
  BY <1>a, <1>b, <1>27 DEF CurrentInv, Held, Makepkg, Active, P, CurUrl, Go, place, checkout, tree, results, files, Crash, CutShort, HalfRestored
<1>28. CASE UNCHANGED vars
  BY <1>a, <1>b, <1>28 DEF vars, CurrentInv, Held, Makepkg, Active, P, CurUrl, Go, place, checkout, tree, results, files
<1>29. CASE Errexit
  BY <1>a, <1>b, <1>29 DEF CurrentInv, Held, Makepkg, Active, P, CurUrl, Go, place, checkout, tree, results, files, Errexit, RestoreCurrent, Restored
<1> QED
  BY <1>1, <1>2, <1>3, <1>4, <1>5, <1>6, <1>7, <1>8, <1>9, <1>10, <1>11, <1>12, <1>13, <1>14, <1>15, <1>16, <1>17, <1>18, <1>19, <1>20, <1>21, <1>22, <1>23, <1>24, <1>25, <1>26, <1>27, <1>28, <1>29 DEF Next, Bounded, Unbounded

\* Without failing commands every wrapper has its backup and stands in the tree
\* of the current package, or of one that was under test in a crash.
WrapInv ==
  ~CanFail =>
    \A p \in Pkg : exe[p] = "wrapper" => p \in orig /\ p \in current \cup crashed

LEMMA WrapStep ==
  ASSUME TypeInv, CurrentInv, WrapInv, [Next]_vars
  PROVE  WrapInv'
<1> SUFFICES ASSUME ~CanFail
             PROVE  \A p \in Pkg : exe'[p] = "wrapper" =>
                      p \in orig' /\ p \in current' \cup crashed'
  BY DEF WrapInv
<1>a. TypeOK /\ (Active => cur \in 1..Len(List) /\ CurUrl \in Url /\ P \in Pkg)
  BY CurFacts DEF TypeInv
<1>b. /\ current = IF pc \in Held THEN {P} ELSE {}
      /\ \A p \in Pkg : exe[p] = "wrapper" => p \in orig /\ p \in current \cup crashed
  BY DEF CurrentInv, WrapInv
<1>1. CASE ReadUrl
  BY <1>a, <1>b, <1>1 DEF TypeOK, Held, Makepkg, Active, Go, place, checkout, tree, results, files, ReadUrl
<1>2. CASE SkipUrl
  BY <1>a, <1>b, <1>2 DEF TypeOK, Held, Makepkg, Active, Go, place, checkout, tree, results, files, SkipUrl
<1>3. CASE Finish
  BY <1>a, <1>b, <1>3 DEF TypeOK, Held, Makepkg, Active, Go, place, checkout, tree, results, files, Finish
<1>4. CASE CloneSkip
  BY <1>a, <1>b, <1>4 DEF TypeOK, Held, Makepkg, Active, Go, place, checkout, tree, results, files, CloneSkip
<1>5. CASE CloneOk
  BY <1>a, <1>b, <1>5 DEF TypeOK, Held, Makepkg, Active, Go, place, checkout, tree, results, files, CloneOk
<1>6. CASE CloneFails
  BY <1>a, <1>b, <1>6 DEF TypeOK, Held, Makepkg, Active, Go, place, checkout, tree, results, files, CloneFails
<1>7. CASE NoPkgbuild
  BY <1>a, <1>b, <1>7 DEF TypeOK, Held, Makepkg, Active, Go, place, checkout, tree, results, files, NoPkgbuild
<1>8. CASE Build
  BY <1>a, <1>b, <1>8 DEF TypeOK, Held, Makepkg, Active, Go, place, checkout, tree, results, files, Build, Linked
<1>9. CASE BuildFails
  BY <1>a, <1>b, <1>9 DEF TypeOK, Held, Makepkg, Active, Go, place, checkout, tree, results, files, BuildFails, Linked
<1>10. CASE NoSrcDir
  BY <1>a, <1>b, <1>10 DEF TypeOK, Held, Makepkg, Active, Go, place, checkout, tree, results, files, NoSrcDir
<1>11. CASE Prepare
  BY <1>a, <1>b, <1>11 DEF TypeOK, Held, Makepkg, Active, Go, place, checkout, tree, results, files, Prepare
<1>12. CASE Rebuild
  BY <1>a, <1>b, <1>12 DEF TypeOK, Held, Makepkg, Active, Go, place, checkout, tree, results, files, Rebuild, Linked
<1>13. CASE NoCheck
  BY <1>a, <1>b, <1>13 DEF TypeOK, Held, Makepkg, Active, Go, place, checkout, tree, results, files, NoCheck, Linked
<1>14. CASE Wrap
  BY <1>a, <1>b, <1>14 DEF TypeOK, Held, Makepkg, Active, Go, place, checkout, tree, results, files, Wrap, Wrappable
<1>15. CASE RunTests
  BY <1>a, <1>b, <1>15 DEF TypeOK, Held, Makepkg, Active, Go, place, checkout, tree, results, files, RunTests
<1>16. CASE RunOtherTests
  BY <1>a, <1>b, <1>16 DEF TypeOK, Held, Makepkg, Active, Go, place, checkout, tree, results, files, RunOtherTests
<1>17. CASE Unwrap
  BY <1>a, <1>b, <1>17 DEF TypeOK, Held, Makepkg, Active, Go, place, checkout, tree, results, files, Unwrap, Restored
<1>18. CASE TestTimeout
  BY <1>a, <1>b, <1>18 DEF TypeOK, Held, Makepkg, Active, Go, place, checkout, tree, results, files, TestTimeout, CutShort, HalfRestored
<1>19. CASE Collect
  BY <1>a, <1>b, <1>19 DEF TypeOK, Held, Makepkg, Active, Go, place, checkout, tree, results, files, Collect
<1>20. CASE Restore
  BY <1>a, <1>b, <1>20 DEF TypeOK, Held, Makepkg, Active, Go, place, checkout, tree, results, files, Restore, RestoreCurrent, Restored
<1>21. CASE NothingRan
  BY <1>a, <1>b, <1>21 DEF TypeOK, Held, Makepkg, Active, Go, place, checkout, tree, results, files, NothingRan
<1>22. CASE MarkProcessed
  BY <1>a, <1>b, <1>22 DEF TypeOK, Held, Makepkg, Active, Go, place, checkout, tree, results, files, MarkProcessed
<1>23. CASE Fail
  BY <1>a, <1>b, <1>23 DEF TypeOK, Held, Makepkg, Active, Go, place, checkout, tree, results, files, Fail, FailRecording, RestoreCurrent, Restored
<1>24. CASE Start
  BY <1>a, <1>b, <1>24 DEF TypeOK, Held, Makepkg, Active, Go, place, checkout, tree, results, files, Start
<1>25. CASE TestHangs
  BY <1>a, <1>b, <1>25 DEF TypeOK, Held, Makepkg, Active, Go, place, checkout, tree, results, files, TestHangs
<1>26. CASE Interrupt
  BY <1>a, <1>b, <1>26 DEF TypeOK, Held, Makepkg, Active, Go, place, checkout, tree, results, files, Interrupt, RestoreCurrent, Restored, HalfRestored
<1>27. CASE Crash
  BY <1>a, <1>b, <1>27 DEF TypeOK, Held, Makepkg, Active, Go, place, checkout, tree, results, files, Crash, CutShort, HalfRestored
<1>28. CASE UNCHANGED vars
  BY <1>a, <1>b, <1>28 DEF vars, TypeOK, Held, Makepkg, Active, Go, place, checkout, tree, results, files
<1>29. CASE Errexit
  BY <1>a, <1>b, <1>29 DEF TypeOK, Held, Makepkg, Active, Go, place, checkout, tree, results, files, Errexit, RestoreCurrent, Restored
<1> QED
  BY <1>1, <1>2, <1>3, <1>4, <1>5, <1>6, <1>7, <1>8, <1>9, <1>10, <1>11, <1>12, <1>13, <1>14, <1>15, <1>16, <1>17, <1>18, <1>19, <1>20, <1>21, <1>22, <1>23, <1>24, <1>25, <1>26, <1>27, <1>28, <1>29 DEF Next, Bounded, Unbounded

\* Whatever fails, times out or is interrupted, no wrapper is left behind
\* outside the package that the session will still restore and those that were
\* under test in a crash.
THEOREM NoWrapperLeft == Spec => []OnlyCurrentWrapped
<1>1. Init => TypeInv /\ CurrentInv /\ WrapInv
  BY ListFacts, SessionAssumption
     DEF Init, TypeInv, TypeOK, CountInv, Active, Step, Exe, CurrentInv, WrapInv, Held, Makepkg
<1>2. TypeInv /\ CurrentInv /\ WrapInv /\ [Next]_vars => (TypeInv /\ CurrentInv /\ WrapInv)'
  BY TypeStep, CurrentStep, WrapStep
<1>3. WrapInv => OnlyCurrentWrapped
  BY DEF WrapInv, OnlyCurrentWrapped
<1> QED BY <1>1, <1>2, <1>3, PTL DEF Spec

-----------------------------------------------------------------------------
\* What is cloned in a work directory comes from a URL of that name; from the
\* first build on there is a PKGBUILD; and a log that is not empty after its
\* truncation was written by the tests of that repository in this attempt, or
\* could not be emptied.
RunInv ==
  /\ \A p \in Pkg : \A u \in repo[p] : Name[u] = p
  /\ pc \in Held \cup {"prepare", "decide"} => repo[P] # {}
  /\ pc \in Held \cup {"decide"} /\ P \in log => repo[P] \subseteq ran \/ P \in stale

LEMMA RunStep ==
  ASSUME TypeInv, RunInv, [Next]_vars
  PROVE  RunInv'
<1>a. TypeOK /\ (Active => cur \in 1..Len(List) /\ CurUrl \in Url /\ P \in Pkg)
  BY CurFacts DEF TypeInv
<1>b. RunInv
  OBVIOUS
<1>1. CASE ReadUrl
  BY <1>a, <1>b, <1>1 DEF TypeOK, RunInv, Held, Makepkg, Active, P, CurUrl, Go, place, checkout, tree, results, files, ReadUrl
<1>2. CASE SkipUrl
  BY <1>a, <1>b, <1>2 DEF TypeOK, RunInv, Held, Makepkg, Active, P, CurUrl, Go, place, checkout, tree, results, files, SkipUrl
<1>3. CASE Finish
  BY <1>a, <1>b, <1>3 DEF TypeOK, RunInv, Held, Makepkg, Active, P, CurUrl, Go, place, checkout, tree, results, files, Finish
<1>4. CASE CloneSkip
  BY <1>a, <1>b, <1>4 DEF TypeOK, RunInv, Held, Makepkg, Active, P, CurUrl, Go, place, checkout, tree, results, files, CloneSkip
<1>5. CASE CloneOk
  BY <1>a, <1>b, <1>5 DEF TypeOK, RunInv, Held, Makepkg, Active, P, CurUrl, Go, place, checkout, tree, results, files, CloneOk
<1>6. CASE CloneFails
  BY <1>a, <1>b, <1>6 DEF TypeOK, RunInv, Held, Makepkg, Active, P, CurUrl, Go, place, checkout, tree, results, files, CloneFails
<1>7. CASE NoPkgbuild
  BY <1>a, <1>b, <1>7 DEF TypeOK, RunInv, Held, Makepkg, Active, P, CurUrl, Go, place, checkout, tree, results, files, NoPkgbuild
<1>8. CASE Build
  BY <1>a, <1>b, <1>8 DEF TypeOK, RunInv, Held, Makepkg, Active, P, CurUrl, Go, place, checkout, tree, results, files, Build
<1>9. CASE BuildFails
  BY <1>a, <1>b, <1>9 DEF TypeOK, RunInv, Held, Makepkg, Active, P, CurUrl, Go, place, checkout, tree, results, files, BuildFails
<1>10. CASE NoSrcDir
  BY <1>a, <1>b, <1>10 DEF TypeOK, RunInv, Held, Makepkg, Active, P, CurUrl, Go, place, checkout, tree, results, files, NoSrcDir
<1>11. CASE Prepare
  BY <1>a, <1>b, <1>11 DEF TypeOK, RunInv, Held, Makepkg, Active, P, CurUrl, Go, place, checkout, tree, results, files, Prepare
<1>12. CASE Rebuild
  BY <1>a, <1>b, <1>12 DEF TypeOK, RunInv, Held, Makepkg, Active, P, CurUrl, Go, place, checkout, tree, results, files, Rebuild
<1>13. CASE NoCheck
  BY <1>a, <1>b, <1>13 DEF TypeOK, RunInv, Held, Makepkg, Active, P, CurUrl, Go, place, checkout, tree, results, files, NoCheck
<1>14. CASE Wrap
  BY <1>a, <1>b, <1>14 DEF TypeOK, RunInv, Held, Makepkg, Active, P, CurUrl, Go, place, checkout, tree, results, files, Wrap
<1>15. CASE RunTests
  BY <1>a, <1>b, <1>15 DEF TypeOK, RunInv, Held, Makepkg, Active, P, CurUrl, Go, place, checkout, tree, results, files, RunTests
<1>16. CASE RunOtherTests
  BY <1>a, <1>b, <1>16 DEF TypeOK, RunInv, Held, Makepkg, Active, P, CurUrl, Go, place, checkout, tree, results, files, RunOtherTests
<1>17. CASE Unwrap
  BY <1>a, <1>b, <1>17 DEF TypeOK, RunInv, Held, Makepkg, Active, P, CurUrl, Go, place, checkout, tree, results, files, Unwrap
<1>18. CASE TestTimeout
  BY <1>a, <1>b, <1>18 DEF TypeOK, RunInv, Held, Makepkg, Active, P, CurUrl, Go, place, checkout, tree, results, files, TestTimeout
<1>19. CASE Collect
  BY <1>a, <1>b, <1>19 DEF TypeOK, RunInv, Held, Makepkg, Active, P, CurUrl, Go, place, checkout, tree, results, files, Collect
<1>20. CASE Restore
  BY <1>a, <1>b, <1>20 DEF TypeOK, RunInv, Held, Makepkg, Active, P, CurUrl, Go, place, checkout, tree, results, files, Restore, RestoreCurrent
<1>21. CASE NothingRan
  BY <1>a, <1>b, <1>21 DEF TypeOK, RunInv, Held, Makepkg, Active, P, CurUrl, Go, place, checkout, tree, results, files, NothingRan
<1>22. CASE MarkProcessed
  BY <1>a, <1>b, <1>22 DEF TypeOK, RunInv, Held, Makepkg, Active, P, CurUrl, Go, place, checkout, tree, results, files, MarkProcessed
<1>23. CASE Fail
  BY <1>a, <1>b, <1>23 DEF TypeOK, RunInv, Held, Makepkg, Active, P, CurUrl, Go, place, checkout, tree, results, files, Fail, FailRecording, RestoreCurrent
<1>24. CASE Start
  BY <1>a, <1>b, <1>24 DEF TypeOK, RunInv, Held, Makepkg, Active, P, CurUrl, Go, place, checkout, tree, results, files, Start
<1>25. CASE TestHangs
  BY <1>a, <1>b, <1>25 DEF TypeOK, RunInv, Held, Makepkg, Active, P, CurUrl, Go, place, checkout, tree, results, files, TestHangs
<1>26. CASE Interrupt
  BY <1>a, <1>b, <1>26 DEF TypeOK, RunInv, Held, Makepkg, Active, P, CurUrl, Go, place, checkout, tree, results, files, Interrupt, RestoreCurrent, HalfRestored
<1>27. CASE Crash
  BY <1>a, <1>b, <1>27 DEF TypeOK, RunInv, Held, Makepkg, Active, P, CurUrl, Go, place, checkout, tree, results, files, Crash
<1>28. CASE UNCHANGED vars
  BY <1>a, <1>b, <1>28 DEF vars, TypeOK, RunInv, Held, Makepkg, Active, P, CurUrl, Go, place, checkout, tree, results, files
<1>29. CASE Errexit
  BY <1>a, <1>b, <1>29 DEF TypeOK, RunInv, Held, Makepkg, Active, P, CurUrl, Go, place, checkout, tree, results, files, Errexit, RestoreCurrent
<1> QED
  BY <1>1, <1>2, <1>3, <1>4, <1>5, <1>6, <1>7, <1>8, <1>9, <1>10, <1>11, <1>12, <1>13, <1>14, <1>15, <1>16, <1>17, <1>18, <1>19, <1>20, <1>21, <1>22, <1>23, <1>24, <1>25, <1>26, <1>27, <1>28, <1>29 DEF Next, Bounded, Unbounded

\* A URL that is added to processed_urls.txt was tested in this attempt.
LEMMA MarkStep ==
  ASSUME DistinctNames, TypeInv, RunInv, [Next]_vars
  PROVE  \A u \in processed' \ processed : u \in ran \/ Name[u] \in stale
<1>a. TypeOK /\ (Active => cur \in 1..Len(List) /\ CurUrl \in Url /\ P \in Pkg)
  BY CurFacts DEF TypeInv
<1>1. CASE MarkProcessed
  <2>1. pc = "decide" /\ P \in log /\ processed' \subseteq processed \cup {CurUrl}
    BY <1>1 DEF MarkProcessed
  <2>2. /\ CurUrl \in Url /\ P \in Pkg /\ repo[P] # {}
        /\ repo[P] \subseteq ran \/ P \in stale
    BY <1>a, <2>1 DEF RunInv, Active
  <2>3. PICK u \in repo[P] : TRUE
    BY <2>2
  <2>4. u \in Url /\ Name[u] = Name[CurUrl]
    BY <1>a, <2>2, <2>3 DEF TypeOK, RunInv, P
  <2> QED BY <2>1, <2>2, <2>3, <2>4 DEF DistinctNames, P
<1>2. CASE ~MarkProcessed
  <2>1. processed' = processed
    BY <1>2 DEF Next, Bounded, Unbounded, vars, Go, place, checkout, tree, results, files, ReadUrl, SkipUrl, Finish, CloneSkip, CloneOk, CloneFails, NoPkgbuild, Build, BuildFails, NoSrcDir, Prepare, Rebuild, NoCheck, Wrap, RunTests, RunOtherTests, Unwrap, TestTimeout, Collect, Restore, NothingRan, Fail, Start, TestHangs, Errexit, Interrupt, Crash, FailRecording
  <2> QED BY <2>1
<1> QED BY <1>1, <1>2

\* If no two URLs share a name, a URL is recorded as processed only when a
\* wrapped executable of its own repository ran in the same attempt, or the log
\* of an earlier one could not be emptied.
THEOREM ProcessedOnlyIfRan == DistinctNames => (Spec => ProcessedMeansRan)
<1> SUFFICES ASSUME DistinctNames PROVE Spec => ProcessedMeansRan
  OBVIOUS
<1>1. Init => TypeInv /\ RunInv
  BY ListFacts, SessionAssumption
     DEF Init, TypeInv, TypeOK, CountInv, Active, Step, Exe, RunInv, Held, Makepkg
<1>2. TypeInv /\ RunInv /\ [Next]_vars => (TypeInv /\ RunInv)'
  BY TypeStep, RunStep
<1>3. TypeInv /\ RunInv /\ [Next]_vars => [\A u \in processed' \ processed : u \in ran \/ Name[u] \in stale]_vars
  BY MarkStep
<1> QED BY <1>1, <1>2, <1>3, PTL DEF Spec, ProcessedMeansRan

-----------------------------------------------------------------------------
\* What is being processed is not recorded as processed yet, but where the last
\* command of process_package has failed.
FreshInv == Active /\ pc # "fail" => CurUrl \notin processed

LEMMA FreshStep ==
  ASSUME TypeInv, FreshInv, [Next]_vars
  PROVE  FreshInv'
<1>a. TypeOK /\ (Active => cur \in 1..Len(List) /\ CurUrl \in Url /\ P \in Pkg)
  BY CurFacts DEF TypeInv
<1>b. Active /\ pc # "fail" => CurUrl \notin processed
  BY DEF FreshInv
<1>1. CASE ReadUrl
  BY <1>a, <1>b, <1>1 DEF TypeOK, FreshInv, Makepkg, Active, CurUrl, Go, place, checkout, tree, results, files, ReadUrl
<1>2. CASE SkipUrl
  BY <1>a, <1>b, <1>2 DEF TypeOK, FreshInv, Makepkg, Active, CurUrl, Go, place, checkout, tree, results, files, SkipUrl
<1>3. CASE Finish
  BY <1>a, <1>b, <1>3 DEF TypeOK, FreshInv, Makepkg, Active, CurUrl, Go, place, checkout, tree, results, files, Finish
<1>4. CASE CloneSkip
  BY <1>a, <1>b, <1>4 DEF TypeOK, FreshInv, Makepkg, Active, CurUrl, Go, place, checkout, tree, results, files, CloneSkip
<1>5. CASE CloneOk
  BY <1>a, <1>b, <1>5 DEF TypeOK, FreshInv, Makepkg, Active, CurUrl, Go, place, checkout, tree, results, files, CloneOk
<1>6. CASE CloneFails
  BY <1>a, <1>b, <1>6 DEF TypeOK, FreshInv, Makepkg, Active, CurUrl, Go, place, checkout, tree, results, files, CloneFails
<1>7. CASE NoPkgbuild
  BY <1>a, <1>b, <1>7 DEF TypeOK, FreshInv, Makepkg, Active, CurUrl, Go, place, checkout, tree, results, files, NoPkgbuild
<1>8. CASE Build
  BY <1>a, <1>b, <1>8 DEF TypeOK, FreshInv, Makepkg, Active, CurUrl, Go, place, checkout, tree, results, files, Build
<1>9. CASE BuildFails
  BY <1>a, <1>b, <1>9 DEF TypeOK, FreshInv, Makepkg, Active, CurUrl, Go, place, checkout, tree, results, files, BuildFails
<1>10. CASE NoSrcDir
  BY <1>a, <1>b, <1>10 DEF TypeOK, FreshInv, Makepkg, Active, CurUrl, Go, place, checkout, tree, results, files, NoSrcDir
<1>11. CASE Prepare
  BY <1>a, <1>b, <1>11 DEF TypeOK, FreshInv, Makepkg, Active, CurUrl, Go, place, checkout, tree, results, files, Prepare
<1>12. CASE Rebuild
  BY <1>a, <1>b, <1>12 DEF TypeOK, FreshInv, Makepkg, Active, CurUrl, Go, place, checkout, tree, results, files, Rebuild
<1>13. CASE NoCheck
  BY <1>a, <1>b, <1>13 DEF TypeOK, FreshInv, Makepkg, Active, CurUrl, Go, place, checkout, tree, results, files, NoCheck
<1>14. CASE Wrap
  BY <1>a, <1>b, <1>14 DEF TypeOK, FreshInv, Makepkg, Active, CurUrl, Go, place, checkout, tree, results, files, Wrap
<1>15. CASE RunTests
  BY <1>a, <1>b, <1>15 DEF TypeOK, FreshInv, Makepkg, Active, CurUrl, Go, place, checkout, tree, results, files, RunTests
<1>16. CASE RunOtherTests
  BY <1>a, <1>b, <1>16 DEF TypeOK, FreshInv, Makepkg, Active, CurUrl, Go, place, checkout, tree, results, files, RunOtherTests
<1>17. CASE Unwrap
  BY <1>a, <1>b, <1>17 DEF TypeOK, FreshInv, Makepkg, Active, CurUrl, Go, place, checkout, tree, results, files, Unwrap
<1>18. CASE TestTimeout
  BY <1>a, <1>b, <1>18 DEF TypeOK, FreshInv, Makepkg, Active, CurUrl, Go, place, checkout, tree, results, files, TestTimeout
<1>19. CASE Collect
  BY <1>a, <1>b, <1>19 DEF TypeOK, FreshInv, Makepkg, Active, CurUrl, Go, place, checkout, tree, results, files, Collect
<1>20. CASE Restore
  BY <1>a, <1>b, <1>20 DEF TypeOK, FreshInv, Makepkg, Active, CurUrl, Go, place, checkout, tree, results, files, Restore, RestoreCurrent
<1>21. CASE NothingRan
  BY <1>a, <1>b, <1>21 DEF TypeOK, FreshInv, Makepkg, Active, CurUrl, Go, place, checkout, tree, results, files, NothingRan
<1>22. CASE MarkProcessed
  BY <1>a, <1>b, <1>22 DEF TypeOK, FreshInv, Makepkg, Active, CurUrl, Go, place, checkout, tree, results, files, MarkProcessed
<1>23. CASE Fail
  BY <1>a, <1>b, <1>23 DEF TypeOK, FreshInv, Makepkg, Active, CurUrl, Go, place, checkout, tree, results, files, Fail, FailRecording, RestoreCurrent
<1>24. CASE Start
  BY <1>a, <1>b, <1>24 DEF TypeOK, FreshInv, Makepkg, Active, CurUrl, Go, place, checkout, tree, results, files, Start
<1>25. CASE TestHangs
  BY <1>a, <1>b, <1>25 DEF TypeOK, FreshInv, Makepkg, Active, CurUrl, Go, place, checkout, tree, results, files, TestHangs
<1>26. CASE Interrupt
  BY <1>a, <1>b, <1>26 DEF TypeOK, FreshInv, Makepkg, Active, CurUrl, Go, place, checkout, tree, results, files, Interrupt, RestoreCurrent, HalfRestored
<1>27. CASE Crash
  BY <1>a, <1>b, <1>27 DEF TypeOK, FreshInv, Makepkg, Active, CurUrl, Go, place, checkout, tree, results, files, Crash
<1>28. CASE UNCHANGED vars
  BY <1>a, <1>b, <1>28 DEF vars, TypeOK, FreshInv, Makepkg, Active, CurUrl, Go, place, checkout, tree, results, files
<1>29. CASE Errexit
  BY <1>a, <1>b, <1>29 DEF TypeOK, FreshInv, Makepkg, Active, CurUrl, Go, place, checkout, tree, results, files, Errexit, RestoreCurrent
<1> QED
  BY <1>1, <1>2, <1>3, <1>4, <1>5, <1>6, <1>7, <1>8, <1>9, <1>10, <1>11, <1>12, <1>13, <1>14, <1>15, <1>16, <1>17, <1>18, <1>19, <1>20, <1>21, <1>22, <1>23, <1>24, <1>25, <1>26, <1>27, <1>28, <1>29 DEF Next, Bounded, Unbounded

\* What the tests of a processed package recorded is collected, and so is what
\* the current package has recorded once collect_artifacts is over.
CollectedInv ==
  /\ \A u \in processed : json[Name[u]] \subseteq art[Name[u]]
  /\ pc \in {"restore", "decide"} => json[P] \subseteq art[P]

LEMMA CollectedStep ==
  ASSUME ~CanFail, DistinctNames, TypeInv, FreshInv, CollectedInv, [Next]_vars
  PROVE  CollectedInv'
<1>a. TypeOK /\ (Active => cur \in 1..Len(List) /\ CurUrl \in Url /\ P \in Pkg)
  BY CurFacts DEF TypeInv
<1>b. /\ Active /\ pc # "fail" => \A u \in processed : u \in Url /\ Name[u] # P /\ Name[u] \in Pkg
      /\ CollectedInv
      /\ ~CanFail
  BY <1>a, ListAssumption DEF TypeOK, FreshInv, DistinctNames, P
<1>1. CASE ReadUrl
  BY <1>a, <1>b, <1>1 DEF TypeOK, CollectedInv, Makepkg, Active, CurUrl, P, Go, place, checkout, tree, results, files, ReadUrl
<1>2. CASE SkipUrl
  BY <1>a, <1>b, <1>2 DEF TypeOK, CollectedInv, Makepkg, Active, CurUrl, P, Go, place, checkout, tree, results, files, SkipUrl
<1>3. CASE Finish
  BY <1>a, <1>b, <1>3 DEF TypeOK, CollectedInv, Makepkg, Active, CurUrl, P, Go, place, checkout, tree, results, files, Finish
<1>4. CASE CloneSkip
  BY <1>a, <1>b, <1>4 DEF TypeOK, CollectedInv, Makepkg, Active, CurUrl, P, Go, place, checkout, tree, results, files, CloneSkip
<1>5. CASE CloneOk
  BY <1>a, <1>b, <1>5 DEF TypeOK, CollectedInv, Makepkg, Active, CurUrl, P, Go, place, checkout, tree, results, files, CloneOk
<1>6. CASE CloneFails
  BY <1>a, <1>b, <1>6 DEF TypeOK, CollectedInv, Makepkg, Active, CurUrl, P, Go, place, checkout, tree, results, files, CloneFails
<1>7. CASE NoPkgbuild
  BY <1>a, <1>b, <1>7 DEF TypeOK, CollectedInv, Makepkg, Active, CurUrl, P, Go, place, checkout, tree, results, files, NoPkgbuild
<1>8. CASE Build
  BY <1>a, <1>b, <1>8 DEF TypeOK, CollectedInv, Makepkg, Active, CurUrl, P, Go, place, checkout, tree, results, files, Build
<1>9. CASE BuildFails
  BY <1>a, <1>b, <1>9 DEF TypeOK, CollectedInv, Makepkg, Active, CurUrl, P, Go, place, checkout, tree, results, files, BuildFails
<1>10. CASE NoSrcDir
  BY <1>a, <1>b, <1>10 DEF TypeOK, CollectedInv, Makepkg, Active, CurUrl, P, Go, place, checkout, tree, results, files, NoSrcDir
<1>11. CASE Prepare
  BY <1>a, <1>b, <1>11 DEF TypeOK, CollectedInv, Makepkg, Active, CurUrl, P, Go, place, checkout, tree, results, files, Prepare
<1>12. CASE Rebuild
  BY <1>a, <1>b, <1>12 DEF TypeOK, CollectedInv, Makepkg, Active, CurUrl, P, Go, place, checkout, tree, results, files, Rebuild
<1>13. CASE NoCheck
  BY <1>a, <1>b, <1>13 DEF TypeOK, CollectedInv, Makepkg, Active, CurUrl, P, Go, place, checkout, tree, results, files, NoCheck
<1>14. CASE Wrap
  BY <1>a, <1>b, <1>14 DEF TypeOK, CollectedInv, Makepkg, Active, CurUrl, P, Go, place, checkout, tree, results, files, Wrap
<1>15. CASE RunTests
  BY <1>a, <1>b, <1>15 DEF TypeOK, CollectedInv, Makepkg, Active, CurUrl, P, Go, place, checkout, tree, results, files, RunTests
<1>16. CASE RunOtherTests
  BY <1>a, <1>b, <1>16 DEF TypeOK, CollectedInv, Makepkg, Active, CurUrl, P, Go, place, checkout, tree, results, files, RunOtherTests
<1>17. CASE Unwrap
  BY <1>a, <1>b, <1>17 DEF TypeOK, CollectedInv, Makepkg, Active, CurUrl, P, Go, place, checkout, tree, results, files, Unwrap
<1>18. CASE TestTimeout
  BY <1>a, <1>b, <1>18 DEF TypeOK, CollectedInv, Makepkg, Active, CurUrl, P, Go, place, checkout, tree, results, files, TestTimeout
<1>19. CASE Collect
  BY <1>a, <1>b, <1>19 DEF TypeOK, CollectedInv, Makepkg, Active, CurUrl, P, Go, place, checkout, tree, results, files, Collect
<1>20. CASE Restore
  BY <1>a, <1>b, <1>20 DEF TypeOK, CollectedInv, Makepkg, Active, CurUrl, P, Go, place, checkout, tree, results, files, Restore, RestoreCurrent
<1>21. CASE NothingRan
  BY <1>a, <1>b, <1>21 DEF TypeOK, CollectedInv, Makepkg, Active, CurUrl, P, Go, place, checkout, tree, results, files, NothingRan
<1>22. CASE MarkProcessed
  BY <1>a, <1>b, <1>22 DEF TypeOK, CollectedInv, Makepkg, Active, CurUrl, P, Go, place, checkout, tree, results, files, MarkProcessed
<1>23. CASE Fail
  BY <1>a, <1>b, <1>23 DEF TypeOK, CollectedInv, Makepkg, Active, CurUrl, P, Go, place, checkout, tree, results, files, Fail, FailRecording, RestoreCurrent
<1>24. CASE Start
  BY <1>a, <1>b, <1>24 DEF TypeOK, CollectedInv, Makepkg, Active, CurUrl, P, Go, place, checkout, tree, results, files, Start
<1>25. CASE TestHangs
  BY <1>a, <1>b, <1>25 DEF TypeOK, CollectedInv, Makepkg, Active, CurUrl, P, Go, place, checkout, tree, results, files, TestHangs
<1>26. CASE Interrupt
  BY <1>a, <1>b, <1>26 DEF TypeOK, CollectedInv, Makepkg, Active, CurUrl, P, Go, place, checkout, tree, results, files, Interrupt, RestoreCurrent, HalfRestored
<1>27. CASE Crash
  BY <1>a, <1>b, <1>27 DEF TypeOK, CollectedInv, Makepkg, Active, CurUrl, P, Go, place, checkout, tree, results, files, Crash
<1>28. CASE UNCHANGED vars
  BY <1>a, <1>b, <1>28 DEF vars, TypeOK, CollectedInv, Makepkg, Active, CurUrl, P, Go, place, checkout, tree, results, files
<1>29. CASE Errexit
  BY <1>a, <1>b, <1>29 DEF TypeOK, CollectedInv, Makepkg, Active, CurUrl, P, Go, place, checkout, tree, results, files, Errexit, RestoreCurrent
<1> QED
  BY <1>1, <1>2, <1>3, <1>4, <1>5, <1>6, <1>7, <1>8, <1>9, <1>10, <1>11, <1>12, <1>13, <1>14, <1>15, <1>16, <1>17, <1>18, <1>19, <1>20, <1>21, <1>22, <1>23, <1>24, <1>25, <1>26, <1>27, <1>28, <1>29 DEF Next, Bounded, Unbounded

\* Everything the tests of a processed package recorded is in its artifacts,
\* whatever crashed or timed out before.
THEOREM ResultsAreCollected == Spec => []NothingLeftBehind
<1>1. CASE ~CanFail /\ DistinctNames
  <2>1. Init => TypeInv /\ FreshInv /\ CollectedInv
    BY ListFacts, SessionAssumption
     DEF Init, TypeInv, TypeOK, CountInv, Active, Step, Exe, FreshInv, CollectedInv
  <2>2. TypeInv /\ FreshInv /\ CollectedInv /\ [Next]_vars => (TypeInv /\ FreshInv /\ CollectedInv)'
    BY <1>1, TypeStep, FreshStep, CollectedStep
  <2>3. CollectedInv => NothingLeftBehind
    BY DEF CollectedInv, NothingLeftBehind
  <2> QED BY <2>1, <2>2, <2>3, PTL DEF Spec
<1>2. CASE ~(~CanFail /\ DistinctNames)
  <2>1. NothingLeftBehind
    BY <1>2 DEF NothingLeftBehind
  <2> QED BY <2>1, PTL
<1> QED BY <1>1, <1>2

-----------------------------------------------------------------------------
\* Nothing but the current package's tree and results changes.
LEMMA FinalStep ==
  ASSUME DistinctNames, TypeInv, CurrentInv, FreshInv, [Next]_vars,
         NEW u \in processed
  PROVE  LET p == Name[u] IN
           /\ exe'[p] = exe[p]
           /\ log' \cap {p} = log \cap {p}
           /\ json'[p] = json[p]
           /\ art'[p] = art[p]
<1> DEFINE p == Name[u]
<1>a. TypeOK /\ (Active => cur \in 1..Len(List) /\ CurUrl \in Url /\ P \in Pkg)
  BY CurFacts DEF TypeInv
<1>b. /\ p \in Pkg
      /\ Active /\ pc # "fail" => p # P
      /\ p \notin current
  BY <1>a, ListAssumption DEF TypeOK, FreshInv, DistinctNames, P, CurrentInv, Held, Makepkg, Active
<1> SUFFICES /\ exe'[p] = exe[p]
             /\ log' \cap {p} = log \cap {p}
             /\ json'[p] = json[p]
             /\ art'[p] = art[p]
  OBVIOUS
<1> HIDE DEF p
<1>1. CASE ReadUrl
  BY <1>a, <1>b, <1>1 DEF TypeOK, Makepkg, Active, Go, place, checkout, tree, results, files, ReadUrl
<1>2. CASE SkipUrl
  BY <1>a, <1>b, <1>2 DEF TypeOK, Makepkg, Active, Go, place, checkout, tree, results, files, SkipUrl
<1>3. CASE Finish
  BY <1>a, <1>b, <1>3 DEF TypeOK, Makepkg, Active, Go, place, checkout, tree, results, files, Finish
<1>4. CASE CloneSkip
  BY <1>a, <1>b, <1>4 DEF TypeOK, Makepkg, Active, Go, place, checkout, tree, results, files, CloneSkip
<1>5. CASE CloneOk
  BY <1>a, <1>b, <1>5 DEF TypeOK, Makepkg, Active, Go, place, checkout, tree, results, files, CloneOk
<1>6. CASE CloneFails
  BY <1>a, <1>b, <1>6 DEF TypeOK, Makepkg, Active, Go, place, checkout, tree, results, files, CloneFails
<1>7. CASE NoPkgbuild
  BY <1>a, <1>b, <1>7 DEF TypeOK, Makepkg, Active, Go, place, checkout, tree, results, files, NoPkgbuild
<1>8. CASE Build
  BY <1>a, <1>b, <1>8 DEF TypeOK, Makepkg, Active, Go, place, checkout, tree, results, files, Build, Linked
<1>9. CASE BuildFails
  BY <1>a, <1>b, <1>9 DEF TypeOK, Makepkg, Active, Go, place, checkout, tree, results, files, BuildFails, Linked
<1>10. CASE NoSrcDir
  BY <1>a, <1>b, <1>10 DEF TypeOK, Makepkg, Active, Go, place, checkout, tree, results, files, NoSrcDir
<1>11. CASE Prepare
  BY <1>a, <1>b, <1>11 DEF TypeOK, Makepkg, Active, Go, place, checkout, tree, results, files, Prepare
<1>12. CASE Rebuild
  BY <1>a, <1>b, <1>12 DEF TypeOK, Makepkg, Active, Go, place, checkout, tree, results, files, Rebuild, Linked
<1>13. CASE NoCheck
  BY <1>a, <1>b, <1>13 DEF TypeOK, Makepkg, Active, Go, place, checkout, tree, results, files, NoCheck, Linked
<1>14. CASE Wrap
  BY <1>a, <1>b, <1>14 DEF TypeOK, Makepkg, Active, Go, place, checkout, tree, results, files, Wrap, Wrappable
<1>15. CASE RunTests
  BY <1>a, <1>b, <1>15 DEF TypeOK, Makepkg, Active, Go, place, checkout, tree, results, files, RunTests
<1>16. CASE RunOtherTests
  BY <1>a, <1>b, <1>16 DEF TypeOK, Makepkg, Active, Go, place, checkout, tree, results, files, RunOtherTests
<1>17. CASE Unwrap
  BY <1>a, <1>b, <1>17 DEF TypeOK, Makepkg, Active, Go, place, checkout, tree, results, files, Unwrap, Restored
<1>18. CASE TestTimeout
  BY <1>a, <1>b, <1>18 DEF TypeOK, Makepkg, Active, Go, place, checkout, tree, results, files, TestTimeout, CutShort, HalfRestored
<1>19. CASE Collect
  BY <1>a, <1>b, <1>19 DEF TypeOK, Makepkg, Active, Go, place, checkout, tree, results, files, Collect
<1>20. CASE Restore
  BY <1>a, <1>b, <1>20 DEF TypeOK, Makepkg, Active, Go, place, checkout, tree, results, files, Restore, RestoreCurrent, Restored
<1>21. CASE NothingRan
  BY <1>a, <1>b, <1>21 DEF TypeOK, Makepkg, Active, Go, place, checkout, tree, results, files, NothingRan
<1>22. CASE MarkProcessed
  BY <1>a, <1>b, <1>22 DEF TypeOK, Makepkg, Active, Go, place, checkout, tree, results, files, MarkProcessed
<1>23. CASE Fail
  BY <1>a, <1>b, <1>23 DEF TypeOK, Makepkg, Active, Go, place, checkout, tree, results, files, Fail, FailRecording, RestoreCurrent, Restored
<1>24. CASE Start
  BY <1>a, <1>b, <1>24 DEF TypeOK, Makepkg, Active, Go, place, checkout, tree, results, files, Start
<1>25. CASE TestHangs
  BY <1>a, <1>b, <1>25 DEF TypeOK, Makepkg, Active, Go, place, checkout, tree, results, files, TestHangs
<1>26. CASE Interrupt
  BY <1>a, <1>b, <1>26 DEF TypeOK, Makepkg, Active, Go, place, checkout, tree, results, files, Interrupt, RestoreCurrent, Restored, HalfRestored
<1>27. CASE Crash
  BY <1>a, <1>b, <1>27 DEF TypeOK, Makepkg, Active, Go, place, checkout, tree, results, files, Crash, CutShort, HalfRestored
<1>28. CASE UNCHANGED vars
  BY <1>a, <1>b, <1>28 DEF vars, TypeOK, Makepkg, Active, Go, place, checkout, tree, results, files
<1>29. CASE Errexit
  BY <1>a, <1>b, <1>29 DEF TypeOK, Makepkg, Active, Go, place, checkout, tree, results, files, Errexit, RestoreCurrent, Restored
<1> QED
  BY <1>1, <1>2, <1>3, <1>4, <1>5, <1>6, <1>7, <1>8, <1>9, <1>10, <1>11, <1>12, <1>13, <1>14, <1>15, <1>16, <1>17, <1>18, <1>19, <1>20, <1>21, <1>22, <1>23, <1>24, <1>25, <1>26, <1>27, <1>28, <1>29 DEF Next, Bounded, Unbounded

\* A processed package is never touched again.
THEOREM ProcessedStaysFinal == Spec => ProcessedIsFinal
<1>1. Init => TypeInv /\ CurrentInv /\ FreshInv
  BY ListFacts, SessionAssumption
     DEF Init, TypeInv, TypeOK, CountInv, Active, Step, Exe, FreshInv, CurrentInv, Held, Makepkg
<1>2. TypeInv /\ CurrentInv /\ FreshInv /\ [Next]_vars => (TypeInv /\ CurrentInv /\ FreshInv)'
  BY TypeStep, CurrentStep, FreshStep
<1>3. TypeInv /\ CurrentInv /\ FreshInv /\ [Next]_vars =>
        [DistinctNames =>
           \A u \in processed : LET p == Name[u] IN
             /\ exe'[p] = exe[p]
             /\ log' \cap {p} = log \cap {p}
             /\ json'[p] = json[p]
             /\ art'[p] = art[p]]_vars
  BY FinalStep
<1> QED BY <1>1, <1>2, <1>3, PTL DEF Spec, ProcessedIsFinal

-----------------------------------------------------------------------------
\* Every line that was consumed, but the one in process, is accounted for: in
\* one of the two files, and in processed_urls.txt if nothing has failed.
AccountInv ==
  /\ pc # "off" => exit = "none"
  /\ Active => cur = pos
  /\ pc # "off" =>
       \A i \in 1..pos :
         (Active /\ i = cur) \/ List[i] \in processed \cup failed
  /\ pc # "off" /\ failures = 0 =>
       \A i \in 1..pos : (Active /\ i = cur) \/ List[i] \in processed
  /\ SuccessMeansAll
  /\ EveryUrlRecorded

LEMMA AccountStep ==
  ASSUME ~CanFail, ~TestsReadStdin, TypeInv, AccountInv, [Next]_vars
  PROVE  AccountInv'
<1>a. TypeOK /\ (Active => cur \in 1..Len(List) /\ CurUrl \in Url /\ P \in Pkg)
  BY CurFacts DEF TypeInv
<1>b. AccountInv /\ ~CanFail /\ ~TestsReadStdin /\ Len(List) \in Nat
  BY ListFacts
<1>1. CASE ReadUrl
  BY <1>a, <1>b, <1>1 DEF TypeOK, AccountInv, SuccessMeansAll, EveryUrlRecorded, Makepkg, Active, CurUrl, Go, place, checkout, tree, results, files, ReadUrl
<1>2. CASE SkipUrl
  BY <1>a, <1>b, <1>2 DEF TypeOK, AccountInv, SuccessMeansAll, EveryUrlRecorded, Makepkg, Active, CurUrl, Go, place, checkout, tree, results, files, SkipUrl
<1>3. CASE Finish
  BY <1>a, <1>b, <1>3 DEF TypeOK, AccountInv, SuccessMeansAll, EveryUrlRecorded, Makepkg, Active, CurUrl, Go, place, checkout, tree, results, files, Finish
<1>4. CASE CloneSkip
  BY <1>a, <1>b, <1>4 DEF TypeOK, AccountInv, SuccessMeansAll, EveryUrlRecorded, Makepkg, Active, CurUrl, Go, place, checkout, tree, results, files, CloneSkip
<1>5. CASE CloneOk
  BY <1>a, <1>b, <1>5 DEF TypeOK, AccountInv, SuccessMeansAll, EveryUrlRecorded, Makepkg, Active, CurUrl, Go, place, checkout, tree, results, files, CloneOk
<1>6. CASE CloneFails
  BY <1>a, <1>b, <1>6 DEF TypeOK, AccountInv, SuccessMeansAll, EveryUrlRecorded, Makepkg, Active, CurUrl, Go, place, checkout, tree, results, files, CloneFails
<1>7. CASE NoPkgbuild
  BY <1>a, <1>b, <1>7 DEF TypeOK, AccountInv, SuccessMeansAll, EveryUrlRecorded, Makepkg, Active, CurUrl, Go, place, checkout, tree, results, files, NoPkgbuild
<1>8. CASE Build
  BY <1>a, <1>b, <1>8 DEF TypeOK, AccountInv, SuccessMeansAll, EveryUrlRecorded, Makepkg, Active, CurUrl, Go, place, checkout, tree, results, files, Build
<1>9. CASE BuildFails
  BY <1>a, <1>b, <1>9 DEF TypeOK, AccountInv, SuccessMeansAll, EveryUrlRecorded, Makepkg, Active, CurUrl, Go, place, checkout, tree, results, files, BuildFails
<1>10. CASE NoSrcDir
  BY <1>a, <1>b, <1>10 DEF TypeOK, AccountInv, SuccessMeansAll, EveryUrlRecorded, Makepkg, Active, CurUrl, Go, place, checkout, tree, results, files, NoSrcDir
<1>11. CASE Prepare
  BY <1>a, <1>b, <1>11 DEF TypeOK, AccountInv, SuccessMeansAll, EveryUrlRecorded, Makepkg, Active, CurUrl, Go, place, checkout, tree, results, files, Prepare
<1>12. CASE Rebuild
  BY <1>a, <1>b, <1>12 DEF TypeOK, AccountInv, SuccessMeansAll, EveryUrlRecorded, Makepkg, Active, CurUrl, Go, place, checkout, tree, results, files, Rebuild
<1>13. CASE NoCheck
  BY <1>a, <1>b, <1>13 DEF TypeOK, AccountInv, SuccessMeansAll, EveryUrlRecorded, Makepkg, Active, CurUrl, Go, place, checkout, tree, results, files, NoCheck
<1>14. CASE Wrap
  BY <1>a, <1>b, <1>14 DEF TypeOK, AccountInv, SuccessMeansAll, EveryUrlRecorded, Makepkg, Active, CurUrl, Go, place, checkout, tree, results, files, Wrap
<1>15. CASE RunTests
  BY <1>a, <1>b, <1>15 DEF TypeOK, AccountInv, SuccessMeansAll, EveryUrlRecorded, Makepkg, Active, CurUrl, Go, place, checkout, tree, results, files, RunTests
<1>16. CASE RunOtherTests
  BY <1>a, <1>b, <1>16 DEF TypeOK, AccountInv, SuccessMeansAll, EveryUrlRecorded, Makepkg, Active, CurUrl, Go, place, checkout, tree, results, files, RunOtherTests
<1>17. CASE Unwrap
  BY <1>a, <1>b, <1>17 DEF TypeOK, AccountInv, SuccessMeansAll, EveryUrlRecorded, Makepkg, Active, CurUrl, Go, place, checkout, tree, results, files, Unwrap
<1>18. CASE TestTimeout
  BY <1>a, <1>b, <1>18 DEF TypeOK, AccountInv, SuccessMeansAll, EveryUrlRecorded, Makepkg, Active, CurUrl, Go, place, checkout, tree, results, files, TestTimeout
<1>19. CASE Collect
  BY <1>a, <1>b, <1>19 DEF TypeOK, AccountInv, SuccessMeansAll, EveryUrlRecorded, Makepkg, Active, CurUrl, Go, place, checkout, tree, results, files, Collect
<1>20. CASE Restore
  BY <1>a, <1>b, <1>20 DEF TypeOK, AccountInv, SuccessMeansAll, EveryUrlRecorded, Makepkg, Active, CurUrl, Go, place, checkout, tree, results, files, Restore, RestoreCurrent
<1>21. CASE NothingRan
  BY <1>a, <1>b, <1>21 DEF TypeOK, AccountInv, SuccessMeansAll, EveryUrlRecorded, Makepkg, Active, CurUrl, Go, place, checkout, tree, results, files, NothingRan
<1>22. CASE MarkProcessed
  BY <1>a, <1>b, <1>22 DEF TypeOK, AccountInv, SuccessMeansAll, EveryUrlRecorded, Makepkg, Active, CurUrl, Go, place, checkout, tree, results, files, MarkProcessed
<1>23. CASE Fail
  BY <1>a, <1>b, <1>23 DEF TypeOK, AccountInv, SuccessMeansAll, EveryUrlRecorded, Makepkg, Active, CurUrl, Go, place, checkout, tree, results, files, Fail, FailRecording, RestoreCurrent
<1>24. CASE Start
  BY <1>a, <1>b, <1>24 DEF TypeOK, AccountInv, SuccessMeansAll, EveryUrlRecorded, Makepkg, Active, CurUrl, Go, place, checkout, tree, results, files, Start
<1>25. CASE TestHangs
  BY <1>a, <1>b, <1>25 DEF TypeOK, AccountInv, SuccessMeansAll, EveryUrlRecorded, Makepkg, Active, CurUrl, Go, place, checkout, tree, results, files, TestHangs
<1>26. CASE Interrupt
  BY <1>a, <1>b, <1>26 DEF TypeOK, AccountInv, SuccessMeansAll, EveryUrlRecorded, Makepkg, Active, CurUrl, Go, place, checkout, tree, results, files, Interrupt, RestoreCurrent, HalfRestored
<1>27. CASE Crash
  BY <1>a, <1>b, <1>27 DEF TypeOK, AccountInv, SuccessMeansAll, EveryUrlRecorded, Makepkg, Active, CurUrl, Go, place, checkout, tree, results, files, Crash
<1>28. CASE UNCHANGED vars
  BY <1>a, <1>b, <1>28 DEF vars, TypeOK, AccountInv, SuccessMeansAll, EveryUrlRecorded, Makepkg, Active, CurUrl, Go, place, checkout, tree, results, files
<1>29. CASE Errexit
  BY <1>a, <1>b, <1>29 DEF TypeOK, AccountInv, SuccessMeansAll, EveryUrlRecorded, Makepkg, Active, CurUrl, Go, place, checkout, tree, results, files, Errexit, RestoreCurrent
<1> QED
  BY <1>1, <1>2, <1>3, <1>4, <1>5, <1>6, <1>7, <1>8, <1>9, <1>10, <1>11, <1>12, <1>13, <1>14, <1>15, <1>16, <1>17, <1>18, <1>19, <1>20, <1>21, <1>22, <1>23, <1>24, <1>25, <1>26, <1>27, <1>28, <1>29 DEF Next, Bounded, Unbounded

\* The account holds in every reachable state.
LEMMA AccountHolds == ~CanFail /\ ~TestsReadStdin => (Spec => []AccountInv)
<1> SUFFICES ASSUME ~CanFail, ~TestsReadStdin PROVE Spec => []AccountInv
  OBVIOUS
<1>1. Init => TypeInv /\ AccountInv
  BY ListFacts, SessionAssumption
     DEF Init, TypeInv, TypeOK, CountInv, Active, Step, Exe, AccountInv, SuccessMeansAll, EveryUrlRecorded
<1>2. TypeInv /\ AccountInv /\ [Next]_vars => (TypeInv /\ AccountInv)'
  BY TypeStep, AccountStep
<1> QED BY <1>1, <1>2, PTL DEF Spec

\* If no test reads the list and no command fails unnoticed, exit status 0
\* means that every URL of the list is recorded as processed.
THEOREM SuccessIsTrue == ~CanFail /\ ~TestsReadStdin => (Spec => []SuccessMeansAll)
<1>1. AccountInv => SuccessMeansAll
  BY DEF AccountInv
<1> QED BY <1>1, AccountHolds, PTL

\* Under the same conditions a session that ends by itself has recorded every
\* URL as processed or as failed.
THEOREM NoUrlForgotten == ~CanFail /\ ~TestsReadStdin => (Spec => []EveryUrlRecorded)
<1>1. AccountInv => EveryUrlRecorded
  BY DEF AccountInv
<1> QED BY <1>1, AccountHolds, PTL
=============================================================================
